------------------------- MODULE JoinProtocolProofs -------------------------
(***************************************************************************)
(* Theorems about JoinProtocol for any processes, identities, number of    *)
(* retries, expiry and faults.                                             *)
(***************************************************************************)
EXTENDS JoinProtocol, TLAPS

\* A client in the middle of an attempt has an attempt left, and holds a
\* challenge that was issued to itself; a verdict in favour of a client was
\* reached on a challenge that was found.
ClientsOK ==
    \A p \in Process :
        /\ client[p].at \in {"solving", "waiting"} => client[p].attempt < MaxRetries
        /\ client[p].at \in {"solving", "waiting", "joined"} =>
               client[p].challenge.owner = p

HandlersOK ==
    \A h \in handlers : h.accepted => h.found

IInv == TypeOK /\ ClientsOK /\ HandlersOK /\ SpentIsGone

\* A client after a failed attempt.
LEMMA FailedClient ==
    ASSUME NEW c \in Client, c.attempt < MaxRetries
    PROVE  /\ Failed(c) \in Client
           /\ Failed(c).attempt <= MaxRetries
           /\ Failed(c).at = "start"
BY JoinAssumption DEF Failed, Client

\* What happens to one client keeps what the invariant says of all of them.
LEMMA OneClientChanges ==
    ASSUME IInv, NEW p \in Process, NEW c \in Client,
           c.attempt <= MaxRetries,
           c.at \in {"solving", "waiting", "joined"} =>
               c.challenge # None /\ c.challenge.owner = p,
           c.at \in {"solving", "waiting"} => c.attempt < MaxRetries,
           client' = [client EXCEPT ![p] = c]
    PROVE  /\ client' \in [Process -> Client]
           /\ \A q \in Process : /\ client'[q].attempt <= MaxRetries
                                 /\ client'[q].at \in {"solving", "waiting", "joined"} =>
                                        client'[q].challenge # None
           /\ ClientsOK'
BY DEF IInv, TypeOK, ClientsOK

LEMMA InitIInv == Init => IInv
<1> SUFFICES ASSUME Init PROVE IInv
  OBVIOUS
<1> USE JoinAssumption DEF Init, Fresh
<1>1. TypeOK
  BY DEF TypeOK, Client
<1>2. ClientsOK /\ HandlersOK /\ SpentIsGone
  BY DEF ClientsOK, HandlersOK, SpentIsGone
<1> QED
  BY <1>1, <1>2 DEF IInv

\* The challenge that is issued is not one that was spent.
LEMMA RequestKeepsIInv ==
    ASSUME IInv, NEW p \in Process, RequestChallenge(p)
    PROVE  IInv'
<1> DEFINE issued == [owner |-> p, number |-> asked[p], expires |-> now + Expiry]
           solving == [client[p] EXCEPT !.at = "solving", !.challenge = issued]
<1>1. /\ client[p] \in Client /\ client[p].at = "start" /\ client[p].attempt < MaxRetries
      /\ challenges' = [challenges EXCEPT ![IdentityOf[p]] = issued]
      /\ asked' = [asked EXCEPT ![p] = @ + 1]
      /\ client' = [client EXCEPT ![p] = solving]
         \/ client' = [client EXCEPT ![p] = Failed(client[p])]
      /\ UNCHANGED <<handlers, starts, now>>
  BY DEF IInv, TypeOK, RequestChallenge, CanAttempt
<1>2. issued \in Challenge
  BY JoinAssumption DEF IInv, TypeOK, Challenge
<1>3. /\ solving \in Client /\ solving.attempt < MaxRetries /\ solving.at = "solving"
      /\ solving.challenge = issued
  BY <1>1, <1>2 DEF Client
<1>4. issued # None
  BY <1>2, NoneAssumption
<1>5. /\ client' \in [Process -> Client]
      /\ \A q \in Process : /\ client'[q].attempt <= MaxRetries
                            /\ client'[q].at \in {"solving", "waiting", "joined"} =>
                                   client'[q].challenge # None
      /\ ClientsOK'
  <2>1. CASE client' = [client EXCEPT ![p] = solving]
    <3>1. issued.owner = p
      OBVIOUS
    <3> HIDE DEF solving, issued
    <3>2. solving.attempt <= MaxRetries /\ solving.challenge.owner = p
      BY <3>1, <1>3, JoinAssumption DEF Client
    <3> QED
      BY <2>1, <3>2, <1>3, <1>4, OneClientChanges
  <2>2. CASE client' = [client EXCEPT ![p] = Failed(client[p])]
    BY <2>2, <1>1, FailedClient, OneClientChanges
  <2> QED
    BY <1>1, <2>1, <2>2
<1>6. TypeOK'
  <2> HIDE DEF issued
  <2>1. challenges' \in [Identity -> Challenge \cup {None}]
    BY <1>1, <1>2 DEF IInv, TypeOK
  <2>2. asked' \in [Process -> Nat]
    BY <1>1 DEF IInv, TypeOK
  <2> HIDE DEF solving
  <2> QED
    BY <1>1, <1>5, <2>1, <2>2 DEF IInv, TypeOK
<1>7. HandlersOK'
  BY <1>1 DEF IInv, HandlersOK
<1>8. SpentIsGone'
  <2> SUFFICES ASSUME NEW q \in Process, client'[q].at = "joined"
               PROVE  challenges'[IdentityOf[q]] # client'[q].challenge
    BY DEF SpentIsGone
  <2>1. q # p
    BY <1>1, <1>3, FailedClient DEF IInv, TypeOK
  <2>2. client'[q] = client[q]
    BY <1>1, <2>1 DEF IInv, TypeOK
  <2>3. client[q].challenge.owner = q /\ challenges[IdentityOf[q]] # client[q].challenge
    BY <2>2 DEF IInv, ClientsOK, SpentIsGone
  <2>4. challenges'[IdentityOf[q]] \in {issued, challenges[IdentityOf[q]]}
    BY <1>1, JoinAssumption DEF IInv, TypeOK
  <2> QED
    BY <2>1, <2>2, <2>3, <2>4
<1> QED
  BY <1>5, <1>6, <1>7, <1>8 DEF IInv

\* A client that cannot connect, or whose connection is lost, fails its attempt.
LEMMA FailureKeepsIInv ==
    ASSUME IInv, NEW p \in Process, ConnectFails(p) \/ ConnectionLost(p)
    PROVE  IInv'
<1>1. /\ client[p] \in Client /\ client[p].attempt < MaxRetries
      /\ client' = [client EXCEPT ![p] = Failed(client[p])]
      /\ handlers' \subseteq handlers
      /\ UNCHANGED <<challenges, asked, starts, now>>
  BY DEF IInv, TypeOK, ClientsOK, ConnectFails, ConnectionLost, CanAttempt, HandlersLeftBy
<1>2. /\ client' \in [Process -> Client]
      /\ \A q \in Process : /\ client'[q].attempt <= MaxRetries
                            /\ client'[q].at \in {"solving", "waiting", "joined"} =>
                                   client'[q].challenge # None
      /\ ClientsOK'
  BY <1>1, FailedClient, OneClientChanges
<1>3. TypeOK' /\ HandlersOK'
  BY <1>1, <1>2 DEF IInv, TypeOK, HandlersOK
<1>4. SpentIsGone'
  BY <1>1, FailedClient DEF IInv, TypeOK, SpentIsGone
<1> QED
  BY <1>2, <1>3, <1>4 DEF IInv

\* The challenge is looked up; a verdict in favour presumes that there is one.
LEMMA LookUpKeepsIInv ==
    ASSUME IInv, NEW p \in Process, LookUp(p)
    PROVE  IInv'
<1> DEFINE waiting == [client[p] EXCEPT !.at = "waiting"]
           challenge == challenges[IdentityOf[p]]
           solved == client[p].challenge
<1>1. PICK accepted \in Verdicts(challenge, solved) :
          handlers' = handlers \cup {[solved |-> solved, found |-> challenge # None,
                                      accepted |-> accepted]}
  BY DEF LookUp
<1>2. /\ client[p] \in Client /\ client[p].at = "solving" /\ client[p].attempt < MaxRetries
      /\ client' = [client EXCEPT ![p] = waiting]
      /\ solved # None /\ solved \in Challenge /\ solved.owner = p
      /\ UNCHANGED <<challenges, asked, starts, now>>
  BY DEF IInv, TypeOK, ClientsOK, LookUp, Client
<1>3. accepted \in BOOLEAN /\ (accepted => challenge # None)
  BY <1>1 DEF Verdicts
<1>4. /\ waiting \in Client /\ waiting.attempt < MaxRetries /\ waiting.attempt <= MaxRetries
      /\ waiting.at = "waiting" /\ waiting.challenge = solved
  BY <1>2, JoinAssumption DEF Client
<1> HIDE DEF waiting
<1>5. /\ client' \in [Process -> Client]
      /\ \A q \in Process : /\ client'[q].attempt <= MaxRetries
                            /\ client'[q].at \in {"solving", "waiting", "joined"} =>
                                   client'[q].challenge # None
      /\ ClientsOK'
  BY <1>2, <1>4, OneClientChanges
<1>6. TypeOK'
  <2>1. [solved |-> solved, found |-> challenge # None, accepted |-> accepted] \in Handler
    BY <1>2, <1>3 DEF Handler
  <2>2. handlers' \subseteq Handler
    BY <1>1, <2>1 DEF IInv, TypeOK
  <2> QED
    BY <1>2, <1>5, <2>2 DEF IInv, TypeOK
<1>7. HandlersOK'
  BY <1>1, <1>3 DEF IInv, HandlersOK
<1>8. SpentIsGone'
  BY <1>2, <1>4 DEF IInv, TypeOK, SpentIsGone
<1> QED
  BY <1>5, <1>6, <1>7, <1>8 DEF IInv

\* A handler that lets its client join has removed the challenge.
LEMMA AnswerKeepsIInv ==
    ASSUME IInv, NEW h \in handlers, Answer(h)
    PROVE  IInv'
<1> DEFINE p == h.solved.owner
           joined == [client[p] EXCEPT !.at = "joined"]
<1>1. h \in Handler /\ h.solved \in Challenge /\ p \in Process /\ IdentityOf[p] \in Identity
  BY JoinAssumption DEF IInv, TypeOK, Handler, Challenge
<1>2. /\ handlers' = handlers \ {h}
      /\ challenges' = IF h.found THEN [challenges EXCEPT ![IdentityOf[p]] = None]
                       ELSE challenges
      /\ client' = IF ~Awaited(h) THEN client
                   ELSE [client EXCEPT ![p] = IF h.accepted THEN joined
                                              ELSE Failed(client[p])]
      /\ UNCHANGED <<asked, starts, now>>
  BY <1>1 DEF Answer, IInv, TypeOK
<1>3. challenges' \in [Identity -> Challenge \cup {None}]
  BY <1>1, <1>2 DEF IInv, TypeOK
<1>4. \A i \in Identity : challenges'[i] \in {challenges[i], None}
  BY <1>1, <1>2 DEF IInv, TypeOK
<1>5. HandlersOK' /\ handlers' \subseteq Handler
  BY <1>2 DEF IInv, TypeOK, HandlersOK
<1>6. CASE ~Awaited(h)
  <2>1. client' = client
    BY <1>2, <1>6
  <2>2. TypeOK' /\ ClientsOK'
    BY <2>1, <1>2, <1>3, <1>5 DEF IInv, TypeOK, ClientsOK
  <2>3. SpentIsGone'
    BY <2>1, <1>4, JoinAssumption DEF IInv, TypeOK, ClientsOK, SpentIsGone
  <2> QED
    BY <2>2, <2>3, <1>5 DEF IInv
<1>7. CASE Awaited(h)
  <2>1. /\ client[p] \in Client /\ client[p].at = "waiting" /\ client[p].attempt < MaxRetries
        /\ client[p].challenge = h.solved
    BY <1>1, <1>7 DEF IInv, TypeOK, ClientsOK, Awaited
  <2>2. /\ joined \in Client /\ joined.at = "joined" /\ joined.attempt <= MaxRetries
        /\ joined.challenge = h.solved /\ h.solved # None
    BY <2>1, <1>1, JoinAssumption, NoneAssumption DEF Client
  <2>3. PICK c : /\ client' = [client EXCEPT ![p] = c]
                 /\ c = IF h.accepted THEN joined ELSE Failed(client[p])
    BY <1>2, <1>7
  <2> HIDE DEF joined
  <2>4. /\ client' \in [Process -> Client]
        /\ \A q \in Process : /\ client'[q].attempt <= MaxRetries
                              /\ client'[q].at \in {"solving", "waiting", "joined"} =>
                                     client'[q].challenge # None
        /\ ClientsOK'
    <3>1. /\ c \in Client /\ c.attempt <= MaxRetries
          /\ c.at \in {"solving", "waiting", "joined"} =>
                 c.challenge # None /\ c.challenge.owner = p
          /\ c.at \in {"solving", "waiting"} => c.attempt < MaxRetries
      BY <2>1, <2>2, <2>3, FailedClient
    <3> HIDE DEF p
    <3> QED
      BY <1>1, <2>3, <3>1, OneClientChanges
  <2>5. TypeOK'
    BY <1>2, <1>3, <1>5, <2>4 DEF IInv, TypeOK
  <2>6. SpentIsGone'
    <3> SUFFICES ASSUME NEW q \in Process, client'[q].at = "joined"
                 PROVE  challenges'[IdentityOf[q]] # client'[q].challenge
      BY DEF SpentIsGone
    <3>1. client'[q].challenge # None
      BY <2>4
    <3>2. CASE q = p
      <4>1. client'[p] = c
        BY <1>1, <2>3 DEF IInv, TypeOK
      <4>2. h.accepted
        BY <3>2, <4>1, <2>3, <2>1, FailedClient
      <4>3. challenges'[IdentityOf[p]] = None
        BY <4>2, <1>1, <1>2 DEF IInv, TypeOK, HandlersOK
      <4> QED
        BY <3>1, <3>2, <4>3
    <3>3. CASE q # p
      <4>1. client'[q] = client[q]
        BY <1>1, <2>3, <3>3 DEF IInv, TypeOK
      <4>2. challenges'[IdentityOf[q]] \in {challenges[IdentityOf[q]], None}
        BY <1>4, JoinAssumption
      <4> QED
        BY <3>1, <4>1, <4>2 DEF IInv, SpentIsGone
    <3> QED
      BY <3>2, <3>3
  <2> QED
    BY <2>4, <2>5, <2>6, <1>5 DEF IInv
<1> QED
  BY <1>6, <1>7

\* Processes and the bootstrap node start again, clients give up, time passes.
LEMMA RestartsKeepIInv ==
    ASSUME IInv,
           \/ \E p \in Process : Exit(p) \/ Start(p)
           \/ RestartBootstrap
           \/ AdvanceClock
    PROVE  IInv'
<1>1. ASSUME NEW p \in Process, Exit(p) PROVE IInv'
  <2>1. client' = [client EXCEPT ![p].at = "exited"]
        /\ UNCHANGED <<challenges, handlers, asked, starts, now>>
    BY <1>1 DEF Exit
  <2>2. [client[p] EXCEPT !.at = "exited"] \in Client
    BY DEF IInv, TypeOK, Client
  <2>3. TypeOK' /\ ClientsOK' /\ SpentIsGone'
    BY <2>1, <2>2 DEF IInv, TypeOK, ClientsOK, SpentIsGone
  <2> QED
    BY <2>1, <2>3 DEF IInv, HandlersOK
<1>2. ASSUME NEW p \in Process, Start(p) PROVE IInv'
  <2>1. /\ starts[p] < MaxStarts /\ starts' = [starts EXCEPT ![p] = @ + 1]
        /\ client' = [client EXCEPT ![p] = Fresh]
        /\ handlers' \subseteq handlers
        /\ UNCHANGED <<challenges, asked, now>>
    BY <1>2 DEF Start, HandlersLeftBy
  <2>2. Fresh \in Client /\ Fresh.at = "start" /\ Fresh.attempt <= MaxRetries
    BY JoinAssumption DEF Fresh, Client
  <2>3. starts' \in [Process -> 1 .. MaxStarts]
    BY <2>1, JoinAssumption DEF IInv, TypeOK
  <2>4. TypeOK' /\ ClientsOK' /\ SpentIsGone'
    BY <2>1, <2>2, <2>3 DEF IInv, TypeOK, ClientsOK, SpentIsGone
  <2> QED
    BY <2>1, <2>4 DEF IInv, HandlersOK
<1>3. ASSUME RestartBootstrap PROVE IInv'
  <2>1. /\ challenges' = [i \in Identity |-> None]
        /\ handlers' = {}
        /\ client' = [p \in Process |-> IF client[p].at = "waiting" THEN Failed(client[p])
                                        ELSE client[p]]
        /\ UNCHANGED <<asked, starts, now>>
    BY <1>3 DEF RestartBootstrap
  <2>2. \A p \in Process :
            /\ client'[p] \in Client
            /\ client'[p] = client[p] \/ (/\ client'[p].at = "start"
                                          /\ client'[p].attempt <= MaxRetries)
    BY <2>1, FailedClient DEF IInv, TypeOK, ClientsOK
  <2>3. client' \in [Process -> Client]
    BY <2>1, <2>2
  <2>4. TypeOK' /\ ClientsOK'
    BY <2>1, <2>2, <2>3 DEF IInv, TypeOK, ClientsOK
  <2>5. SpentIsGone'
    BY <2>1, <2>2, JoinAssumption DEF IInv, TypeOK, SpentIsGone
  <2> QED
    BY <2>1, <2>4, <2>5 DEF IInv, HandlersOK
<1>4. ASSUME AdvanceClock PROVE IInv'
  <2>1. now' \in 0 .. MaxTime
    BY <1>4, JoinAssumption DEF AdvanceClock, IInv, TypeOK
  <2> QED
    BY <1>4, <2>1 DEF AdvanceClock, IInv, TypeOK, ClientsOK, HandlersOK, SpentIsGone
<1> QED
  BY <1>1, <1>2, <1>3, <1>4

\* The invariant holds in every reachable state.
THEOREM Invariance == Spec => []IInv
<1>1. IInv /\ [Next]_vars => IInv'
  <2> SUFFICES ASSUME IInv, [Next]_vars PROVE IInv'
    OBVIOUS
  <2>1. ASSUME NEW p \in Process, Attempt(p) PROVE IInv'
    BY <2>1, RequestKeepsIInv, FailureKeepsIInv, LookUpKeepsIInv, RestartsKeepIInv DEF Attempt
  <2>2. ASSUME NEW p \in Process, ConnectionLost(p) PROVE IInv'
    BY <2>2, FailureKeepsIInv
  <2>3. ASSUME NEW h \in handlers, Answer(h) PROVE IInv'
    BY <2>3, AnswerKeepsIInv
  <2>4. CASE UNCHANGED vars
    BY <2>4 DEF vars, IInv, TypeOK, ClientsOK, HandlersOK, SpentIsGone, Awaited
  <2> QED
    BY <2>1, <2>2, <2>3, <2>4, RestartsKeepIInv DEF Next
<1> QED
  BY <1>1, InitIInv, PTL DEF Spec

\* Clients, handlers and challenges keep their types, and no client makes more
\* attempts than n_max_retries.
THEOREM TypeCorrect == Spec => []TypeOK
BY Invariance, PTL DEF IInv

\* The challenge of a process that joined is not kept by the bootstrap node,
\* whatever fails, restarts or shares its identity.
THEOREM SpentStaysGone == Spec => []SpentIsGone
BY Invariance, PTL DEF IInv

----------------------------------------------------------------------------
(* Processes with identities of their own, none of which fails *)

OwnIdentity == \A p, q \in Process : IdentityOf[p] = IdentityOf[q] => p = q

\* The challenge a client is solving is the one stored for it; the handlers are
\* awaited, one for each client that waits, and rejected for a reason.
Undisturbed ==
    /\ \A p \in Process :
          client[p].at = "solving" => challenges[IdentityOf[p]] = client[p].challenge
    /\ \A h \in handlers : Awaited(h)
    /\ \A g, h \in handlers : g.solved.owner = h.solved.owner => g = h
    /\ RejectedOnlyIfLate

\* Without faults and with identities of their own, nothing a client does gets
\* in the way of another.
LEMMA StepUndisturbed ==
    ASSUME OwnIdentity, Faults = {}, IInv, Undisturbed, Next
    PROVE  Undisturbed'
<1> USE DEF IInv
<1>0. \A h \in handlers : h \in Handler /\ h.solved \in Challenge /\ h.solved.owner \in Process
  BY DEF TypeOK, Handler, Challenge
<1>1. ASSUME NEW p \in Process, RequestChallenge(p) PROVE Undisturbed'
  <2> DEFINE issued == [owner |-> p, number |-> asked[p], expires |-> now + Expiry]
  <2>1. /\ client[p].at = "start"
        /\ challenges' = [challenges EXCEPT ![IdentityOf[p]] = issued]
        /\ client' = [client EXCEPT ![p].at = "solving", ![p].challenge = issued]
        /\ UNCHANGED <<handlers, starts, now>>
    BY <1>1 DEF RequestChallenge, CanAttempt
  <2> HIDE DEF issued
  <2>2. client'[p].challenge = issued
    BY <2>1 DEF TypeOK, Client
  <2>3. \A q \in Process : q # p => client'[q] = client[q]
    BY <2>1 DEF TypeOK
  <2>4. \A h \in handlers : h.solved.owner # p
    BY <2>1 DEF Undisturbed, Awaited
  <2>5. \A h \in handlers' : Awaited(h)'
    BY <1>0, <2>1, <2>3, <2>4 DEF Undisturbed, Awaited
  <2>6. \A q \in Process :
            client'[q].at = "solving" => challenges'[IdentityOf[q]] = client'[q].challenge
    BY <2>1, <2>2, <2>3, JoinAssumption DEF OwnIdentity, Undisturbed, TypeOK
  <2> QED
    BY <2>1, <2>5, <2>6 DEF Undisturbed, RejectedOnlyIfLate
<1>2. ASSUME NEW p \in Process, LookUp(p) PROVE Undisturbed'
  <2> DEFINE solved == client[p].challenge
  <2>1. client[p].at = "solving" /\ challenges[IdentityOf[p]] = solved /\ solved # None
        /\ solved \in Challenge /\ solved.owner = p
    BY <1>2 DEF LookUp, Undisturbed, TypeOK, ClientsOK, Client
  <2>2. PICK accepted \in Verdicts(solved, solved) :
            handlers' = handlers \cup {[solved |-> solved, found |-> TRUE,
                                        accepted |-> accepted]}
    BY <1>2, <2>1 DEF LookUp
  <2>3. client' = [client EXCEPT ![p].at = "waiting"]
        /\ UNCHANGED <<challenges, asked, starts, now>>
    BY <1>2 DEF LookUp
  <2>4. ~accepted => solved.expires < now
    BY <2>1, <2>2 DEF Verdicts
  <2>5. client'[p].at = "waiting" /\ client'[p].challenge = solved
    BY <2>3 DEF TypeOK, Client
  <2>6. \A q \in Process : q # p => client'[q] = client[q]
    BY <2>3 DEF TypeOK
  <2> HIDE DEF solved
  <2>7. \A h \in handlers : h.solved.owner # p
    BY <2>1 DEF Undisturbed, Awaited
  <2>8. \A h \in handlers' : Awaited(h)'
    BY <1>0, <2>1, <2>2, <2>5, <2>6, <2>7 DEF Undisturbed, Awaited
  <2>9. \A g, h \in handlers' : g.solved.owner = h.solved.owner => g = h
    <3> DEFINE new == [solved |-> solved, found |-> TRUE, accepted |-> accepted]
    <3>1. new.solved.owner = p
      BY <2>1
    <3>2. handlers' = handlers \cup {new}
      BY <2>2
    <3> HIDE DEF new
    <3> QED
      BY <2>7, <3>1, <3>2 DEF Undisturbed
  <2>10. RejectedOnlyIfLate'
    BY <2>2, <2>3, <2>4 DEF Undisturbed, RejectedOnlyIfLate
  <2>11. \A q \in Process :
             client'[q].at = "solving" => challenges'[IdentityOf[q]] = client'[q].challenge
    BY <2>3, <2>5, <2>6 DEF Undisturbed
  <2> QED
    BY <2>8, <2>9, <2>10, <2>11 DEF Undisturbed
<1>3. ASSUME NEW h \in handlers, Answer(h) PROVE Undisturbed'
  <2> DEFINE p == h.solved.owner
  <2>1. p \in Process /\ Awaited(h)
    BY <1>0 DEF Undisturbed
  <2>2. /\ handlers' = handlers \ {h}
        /\ \A i \in Identity : i # IdentityOf[p] => challenges'[i] = challenges[i]
        /\ \A q \in Process : q # p => client'[q] = client[q]
        /\ UNCHANGED <<asked, starts, now>>
    BY <1>3, <2>1 DEF Answer, TypeOK
  <2>3. client'[p].at # "solving"
    <3>1. client'[p].at \in {"joined", "start"}
      BY <1>3, <2>1 DEF Answer, Failed, TypeOK, Client
    <3> QED
      BY <3>1
  <2>4. \A g \in handlers' : Awaited(g)'
    BY <1>0, <2>2 DEF Undisturbed, Awaited
  <2>5. \A q \in Process :
            client'[q].at = "solving" => challenges'[IdentityOf[q]] = client'[q].challenge
    BY <2>1, <2>2, <2>3, JoinAssumption DEF Undisturbed, OwnIdentity
  <2> QED
    BY <2>2, <2>4, <2>5 DEF Undisturbed, RejectedOnlyIfLate
<1>4. ASSUME NEW p \in Process, Exit(p) PROVE Undisturbed'
  <2>1. client[p].at = "start" /\ client' = [client EXCEPT ![p].at = "exited"]
        /\ UNCHANGED <<challenges, handlers, asked, starts, now>>
    BY <1>4 DEF Exit
  <2>2. \A q \in Process : client'[q] = client[q] \/ client'[q].at = "exited"
    BY <2>1 DEF TypeOK, Client
  <2> QED
    BY <1>0, <2>1, <2>2 DEF Undisturbed, Awaited, RejectedOnlyIfLate
<1>5. ASSUME AdvanceClock PROVE Undisturbed'
  <2>1. \A h \in handlers : h.solved.expires \in Nat
    BY <1>0 DEF Challenge
  <2> QED
    BY <1>5, <2>1 DEF AdvanceClock, TypeOK, Undisturbed, Awaited, RejectedOnlyIfLate
<1> QED
  BY <1>1, <1>2, <1>3, <1>4, <1>5
     DEF Next, Attempt, ConnectFails, ConnectionLost, Start, RestartBootstrap

\* Processes with identities of their own that do not fail are rejected only for
\* answering too late, however their requests interleave.
THEOREM TimelySolversAccepted ==
    ASSUME OwnIdentity, Faults = {}
    PROVE  Spec => []RejectedOnlyIfLate
<1>1. Init => Undisturbed
  BY DEF Init, Fresh, Undisturbed, RejectedOnlyIfLate
<1>2. IInv /\ Undisturbed /\ [Next]_vars => Undisturbed'
  <2>1. CASE UNCHANGED vars
    BY <2>1 DEF vars, Undisturbed, Awaited, RejectedOnlyIfLate
  <2> QED
    BY <2>1, StepUndisturbed
<1>3. Undisturbed => RejectedOnlyIfLate
  BY DEF Undisturbed
<1> QED
  BY <1>1, <1>2, <1>3, Invariance, PTL DEF Spec
=============================================================================
