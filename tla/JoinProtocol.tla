---------------------------- MODULE JoinProtocol ----------------------------
(***************************************************************************)
(* How processes join the network through the bootstrap node: join_network *)
(* of src/g_rpc/client.rs, and the bootstrap and challenge_resolution      *)
(* handlers of src/g_rpc/server.rs on the bootstrap node.                  *)
(*                                                                         *)
(* The bootstrap node keeps one challenge per identity, not per request.   *)
(* Processes started with the same --port share the keys, and so the       *)
(* identity, of keys/<port>.  A resolution handler looks the challenge up  *)
(* under a read lock and removes whatever is there under a write lock      *)
(* taken later; other handlers run in between.                             *)
(*                                                                         *)
(* A challenge is a random 256-bit number: it is represented by the        *)
(* process it was issued to and the number of that process's request.  A   *)
(* nonce found for one challenge may solve another by chance.              *)
(***************************************************************************)
EXTENDS Integers, FiniteSets

CONSTANTS
    Process,      \* peers and one-shot commands, not the bootstrap node
    Identity,     \* hashes of public keys
    IdentityOf,   \* the identity of each process
    MaxRetries,   \* Config::n_max_retries
    Expiry,       \* for how long a challenge is valid, ten minutes
    Faults,       \* which of "link", "kill" and "bootstrap" can happen
    MaxStarts,    \* bound: how often a process is started
    MaxTime,      \* bound: the clock stops here
    None          \* no challenge

ASSUME JoinAssumption ==
    /\ IdentityOf \in [Process -> Identity]
    /\ MaxRetries \in Nat
    /\ Expiry \in Nat
    /\ Faults \subseteq {"link", "kill", "bootstrap"}
    /\ MaxStarts \in Nat \ {0}
    /\ MaxTime \in Nat

Challenge == [owner : Process, number : Nat, expires : Nat]

ASSUME NoneAssumption == None \notin Challenge

VARIABLES
    challenges,  \* challenges_map of the bootstrap node
    handlers,    \* resolution handlers between their two locks
    client,      \* where each process is in join_network
    asked,       \* how many challenges each process has requested
    starts,      \* how often each process has been started
    now

vars == <<challenges, handlers, client, asked, starts, now>>

\* A process starts an attempt, solves a challenge, waits for the answer, or is
\* done.  Sleeping after a failed attempt is part of being about to start one.
Client == [at        : {"start", "solving", "waiting", "joined", "exited"},
           attempt   : Nat,
           challenge : Challenge \cup {None}]

\* What was solved, whether a challenge was found, and the verdict.
Handler == [solved : Challenge, found : BOOLEAN, accepted : BOOLEAN]

TypeOK ==
    /\ challenges \in [Identity -> Challenge \cup {None}]
    /\ handlers \subseteq Handler
    /\ client \in [Process -> Client]
    /\ \A p \in Process : /\ client[p].attempt <= MaxRetries
                          /\ client[p].at \in {"solving", "waiting", "joined"} =>
                                 client[p].challenge # None
    /\ asked \in [Process -> Nat]
    /\ starts \in [Process -> 1 .. MaxStarts]
    /\ now \in 0 .. MaxTime

Fresh == [at |-> "start", attempt |-> 0, challenge |-> None]

Init ==
    /\ challenges = [i \in Identity |-> None]
    /\ handlers = {}
    /\ client = [p \in Process |-> Fresh]
    /\ asked = [p \in Process |-> 0]
    /\ starts = [p \in Process |-> 1]
    /\ now = 0

----------------------------------------------------------------------------
(* The client *)

\* The client after an attempt that failed, for whatever reason.
Failed(c) == [at |-> "start", attempt |-> c.attempt + 1, challenge |-> None]

\* Mutation: one attempt more than n_max_retries.
CanAttempt_OneMore(p) == client[p].at = "start" /\ client[p].attempt <= MaxRetries

CanAttempt(p) == client[p].at = "start" /\ client[p].attempt < MaxRetries

\* The bootstrap handler issues a challenge in place of the one it may have
\* issued to this identity before; the reply reaches the client or is lost.
RequestChallenge(p) ==
    LET issued == [owner |-> p, number |-> asked[p], expires |-> now + Expiry] IN
    /\ CanAttempt(p)
    /\ challenges' = [challenges EXCEPT ![IdentityOf[p]] = issued]
    /\ asked' = [asked EXCEPT ![p] = @ + 1]
    /\ \/ client' = [client EXCEPT ![p].at = "solving", ![p].challenge = issued]
       \/ "link" \in Faults /\ client' = [client EXCEPT ![p] = Failed(@)]
    /\ UNCHANGED <<handlers, starts, now>>

\* The client cannot connect, to ask or to answer.
ConnectFails(p) ==
    /\ "link" \in Faults
    /\ CanAttempt(p) \/ client[p].at = "solving"
    /\ client' = [client EXCEPT ![p] = Failed(@)]
    /\ UNCHANGED <<challenges, handlers, asked, starts, now>>

\* All attempts failed: std::process::exit.
Exit(p) ==
    /\ client[p].at = "start"
    /\ client[p].attempt >= MaxRetries
    /\ client' = [client EXCEPT ![p].at = "exited"]
    /\ UNCHANGED <<challenges, handlers, asked, starts, now>>

----------------------------------------------------------------------------
(* The challenge_resolution handler *)

\* Mutation: a challenge is already too old at its expiration.
Verdicts_Early(challenge, solved) ==
    IF challenge = None \/ challenge.expires <= now THEN {FALSE}
    ELSE IF challenge = solved THEN {TRUE}
    ELSE BOOLEAN

\* The verdicts on a nonce that solves one challenge when another is stored.
Verdicts(challenge, solved) ==
    IF challenge = None \/ challenge.expires < now THEN {FALSE}
    ELSE IF challenge = solved THEN {TRUE}
    ELSE BOOLEAN

\* The client has found a nonce and sends it, and the handler judges it by the
\* challenge stored for the sender.
LookUp(p) ==
    LET challenge == challenges[IdentityOf[p]]
        solved == client[p].challenge IN
    /\ client[p].at = "solving"
    /\ client' = [client EXCEPT ![p].at = "waiting"]
    /\ \E accepted \in Verdicts(challenge, solved) :
          handlers' = handlers \cup {[solved |-> solved, found |-> challenge # None,
                                      accepted |-> accepted]}
    /\ UNCHANGED <<challenges, asked, starts, now>>

\* Whether the client still waits for this handler's answer.
Awaited(h) ==
    LET c == client[h.solved.owner] IN c.at = "waiting" /\ c.challenge = h.solved

\* Mutation: the challenge is not removed.
Answer_Keep(h) ==
    LET p == h.solved.owner IN
    /\ handlers' = handlers \ {h}
    /\ client' = IF ~Awaited(h) THEN client
                 ELSE [client EXCEPT ![p] = IF h.accepted THEN [@ EXCEPT !.at = "joined"]
                                            ELSE Failed(@)]
    /\ UNCHANGED <<challenges, asked, starts, now>>

\* Mutation: the challenges of all senders are removed.
Answer_RemoveAll(h) ==
    LET p == h.solved.owner IN
    /\ handlers' = handlers \ {h}
    /\ challenges' = [i \in Identity |-> None]
    /\ client' = IF ~Awaited(h) THEN client
                 ELSE [client EXCEPT ![p] = IF h.accepted THEN [@ EXCEPT !.at = "joined"]
                                            ELSE Failed(@)]
    /\ UNCHANGED <<asked, starts, now>>

\* Mutation: the client is not told of a rejection.
Answer_Silent(h) ==
    LET p == h.solved.owner IN
    /\ handlers' = handlers \ {h}
    /\ challenges' = IF h.found THEN [challenges EXCEPT ![IdentityOf[p]] = None]
                     ELSE challenges
    /\ client' = IF Awaited(h) /\ h.accepted THEN [client EXCEPT ![p].at = "joined"]
                 ELSE client
    /\ UNCHANGED <<asked, starts, now>>

\* The handler removes the challenge that is stored for the sender now, and the
\* answer lets the client join or fails its attempt.
Answer(h) ==
    LET p == h.solved.owner IN
    /\ handlers' = handlers \ {h}
    /\ challenges' = IF h.found THEN [challenges EXCEPT ![IdentityOf[p]] = None]
                     ELSE challenges
    /\ client' = IF ~Awaited(h) THEN client
                 ELSE [client EXCEPT ![p] = IF h.accepted THEN [@ EXCEPT !.at = "joined"]
                                            ELSE Failed(@)]
    /\ UNCHANGED <<asked, starts, now>>

----------------------------------------------------------------------------
(* Faults *)

\* When the connection of a waiting client is lost, the handler that served it
\* is either dropped at its await or runs on.
HandlersLeftBy(p) == {handlers, {h \in handlers : h.solved # client[p].challenge}}

ConnectionLost(p) ==
    /\ "link" \in Faults
    /\ client[p].at = "waiting"
    /\ client' = [client EXCEPT ![p] = Failed(@)]
    /\ handlers' \in HandlersLeftBy(p)
    /\ UNCHANGED <<challenges, asked, starts, now>>

\* A process is killed and started again, with the keys it finds on disk.
Start(p) ==
    /\ "kill" \in Faults
    /\ starts[p] < MaxStarts
    /\ starts' = [starts EXCEPT ![p] = @ + 1]
    /\ client' = [client EXCEPT ![p] = Fresh]
    /\ handlers' \in HandlersLeftBy(p)
    /\ UNCHANGED <<challenges, asked, now>>

\* The bootstrap node restarts without its challenges; those who waited for it
\* are told that the connection is lost.
RestartBootstrap ==
    /\ "bootstrap" \in Faults
    /\ challenges' = [i \in Identity |-> None]
    /\ handlers' = {}
    /\ client' = [p \in Process |-> IF client[p].at = "waiting" THEN Failed(client[p])
                                    ELSE client[p]]
    /\ UNCHANGED <<asked, starts, now>>

AdvanceClock ==
    /\ now < MaxTime
    /\ now' = now + 1
    /\ UNCHANGED <<challenges, handlers, client, asked, starts>>

----------------------------------------------------------------------------

Attempt(p) == RequestChallenge(p) \/ ConnectFails(p) \/ LookUp(p) \/ Exit(p)

Next ==
    \/ \E p \in Process : Attempt(p) \/ ConnectionLost(p) \/ Start(p)
    \/ \E h \in handlers : Answer(h)
    \/ RestartBootstrap
    \/ AdvanceClock

Spec == Init /\ [][Next]_vars

\* Client threads go on and handlers finish; nothing is assumed of the faults or
\* of how soon a nonce is found.
Fairness ==
    /\ \A p \in Process : WF_vars(Attempt(p))
    /\ \A p \in Process :
          WF_vars(\E h \in handlers : h.solved.owner = p /\ Answer(h))

FairSpec == Spec /\ Fairness

----------------------------------------------------------------------------
(* Properties *)

\* With an identity of its own, and unless connections or processes fail, a
\* client is rejected only for being late, by a handler that looked up its very
\* challenge: no other handler replaced or removed it.
RejectedOnlyIfLate ==
    \A h \in handlers : ~h.accepted => h.found /\ h.solved.expires < now

\* A challenge that let a process in is not kept, whatever happened since.
SpentIsGone ==
    \A p \in Process :
        client[p].at = "joined" => challenges[IdentityOf[p]] # client[p].challenge

\* Every process ends up joined or exited, however often connections fail and
\* the bootstrap node restarts: its attempts are bounded and all answered.
JoinsOrExits ==
    \A p \in Process : <>[](client[p].at \in {"joined", "exited"})

\* Every process with an identity of its own joins unless it lets a challenge
\* expire before it has solved it, if no connection or process fails, whatever
\* the others do.
Late(p) == client[p].at = "solving" /\ client[p].challenge.expires < now
EveryoneJoins == \A p \in Process : <>(client[p].at = "joined" \/ Late(p))
=============================================================================
