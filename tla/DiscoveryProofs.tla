--------------------------- MODULE DiscoveryProofs ---------------------------
(***************************************************************************)
(* Theorems about Discovery for any nodes, addresses, k_value and bucket   *)
(* limit, whatever fails.                                                  *)
(***************************************************************************)
EXTENDS Discovery, BucketsProofs

----------------------------------------------------------------------------
(* Filtering a sequence *)

\* One step of Keep.
KeepOne(k, e, S) == IF e \in S THEN Append(k, e) ELSE k

\* Keep is defined by recursion: there is a function that gives what it builds.
LEMMA KeptExists ==
    ASSUME NEW s \in Seq(Node), NEW S
    PROVE  \E f \in [0 .. Len(s) -> Seq(Node)] :
              /\ f[0] = <<>>
              /\ \A i \in 1 .. Len(s) : f[i] = KeepOne(f[i - 1], s[i], S)
<1> DEFINE m == Len(s)
           Step(i, k) == KeepOne(k, s[i], S)
           Upto(f, j) == f[0] = <<>> /\ \A i \in 1 .. j : f[i] = Step(i, f[i - 1])
           Missing == {j \in 0 .. m : ~ \E f \in [0 .. j -> Seq(Node)] : Upto(f, j)}
<1>0. m \in Nat /\ <<>> \in Seq(Node)
  OBVIOUS
<1>1. ASSUME NEW i \in 1 .. m, NEW k \in Seq(Node)
      PROVE  Step(i, k) \in Seq(Node)
  <2>1. s[i] \in Node
    OBVIOUS
  <2> QED
    BY <2>1, AppendProperties DEF KeepOne
<1> HIDE DEF Step, m
<1> SUFFICES Missing = {}
  <2>1. ASSUME Missing = {}
        PROVE  \E f \in [0 .. m -> Seq(Node)] : Upto(f, m)
    <3>1. m \in 0 .. m
      BY <1>0
    <3> HIDE DEF Upto
    <3> QED
      BY <2>1, <3>1
  <2> QED
    BY <2>1 DEF Step, m
<1> SUFFICES ASSUME Missing # {} PROVE FALSE
  OBVIOUS
<1>2. PICK j \in Missing : \A k \in Missing : j <= k
  <2>1. Missing \in SUBSET Nat
    BY <1>0
  <2> HIDE DEF Missing
  <2> QED
    BY <2>1, SmallestOf
<1>3. CASE j = 0
  <2> DEFINE f == [i \in 0 .. 0 |-> <<>>]
  <2>1. f \in [0 .. 0 -> Seq(Node)] /\ Upto(f, 0)
    BY <1>0
  <2> QED
    BY <1>0, <2>1, <1>2, <1>3
<1>4. CASE j # 0
  <2>1. j - 1 \in 0 .. m /\ j - 1 \notin Missing /\ j \in 1 .. m
    <3>1. j \in 0 .. m
      BY <1>2
    <3> HIDE DEF Missing
    <3> QED
      BY <1>0, <1>2, <1>4, <3>1
  <2>2. PICK g \in [0 .. j - 1 -> Seq(Node)] : Upto(g, j - 1)
    BY <2>1
  <2> DEFINE f == [i \in 0 .. j |-> IF i = j THEN Step(j, g[j - 1]) ELSE g[i]]
  <2>3. f \in [0 .. j -> Seq(Node)]
    <3>1. j - 1 \in 0 .. j - 1 /\ g[j - 1] \in Seq(Node)
      BY <2>1
    <3>2. Step(j, g[j - 1]) \in Seq(Node)
      BY <3>1, <2>1, <1>1
    <3>3. \A i \in 0 .. j : i # j => i \in 0 .. j - 1
      BY <2>1
    <3> QED
      BY <3>2, <3>3
  <2>4. f[0] = <<>>
    BY <2>1, <2>2
  <2>5. ASSUME NEW i \in 1 .. j PROVE f[i] = Step(i, f[i - 1])
    <3>1. i - 1 \in 0 .. j - 1 /\ f[i - 1] = g[i - 1]
      BY <2>1
    <3>2. CASE i = j
      <4>1. f[j] = Step(j, g[j - 1])
        BY <2>1
      <4> HIDE DEF f
      <4> QED
        BY <3>1, <3>2, <4>1
    <3>3. CASE i # j
      <4>1. i \in 1 .. j - 1 /\ f[i] = g[i]
        BY <3>3, <2>1
      <4>2. g[i] = Step(i, g[i - 1])
        BY <4>1, <2>2
      <4> HIDE DEF f
      <4> QED
        BY <3>1, <4>1, <4>2
    <3> QED
      BY <3>2, <3>3
  <2> QED
    BY <2>3, <2>4, <2>5, <1>2
<1> QED
  BY <1>3, <1>4

\* Keep keeps the elements that are in S and no others.
LEMMA KeepFacts ==
    ASSUME NEW s \in Seq(Node), NEW S
    PROVE  Keep(s, S) \in Seq(Node) /\ ToSet(Keep(s, S)) = ToSet(s) \cap S
<1> DEFINE m == Len(s)
           Step(i, k) == KeepOne(k, s[i], S)
           kept == CHOOSE f : f = [i \in 0 .. m |->
                                      IF i = 0 THEN <<>> ELSE Step(i, f[i - 1])]
           First(i) == {s[j] : j \in 1 .. i}
           Right(i, k) == k \in Seq(Node) /\ ToSet(k) = First(i) \cap S
<1>1. m \in Nat /\ \A i \in 1 .. m : s[i] \in Node
  OBVIOUS
<1>2. Keep(s, S) = kept[m]
  BY DEF Keep, KeepOne
<1>3. /\ kept[0] = <<>>
      /\ \A i \in 1 .. m : kept[i] = Step(i, kept[i - 1])
  <2>1. PICK f \in [0 .. Len(s) -> Seq(Node)] :
            /\ f[0] = <<>>
            /\ \A i \in 1 .. Len(s) : f[i] = KeepOne(f[i - 1], s[i], S)
    BY KeptExists
  <2>2. /\ f \in [0 .. m -> Seq(Node)] /\ f[0] = <<>>
        /\ \A i \in 1 .. m : f[i] = Step(i, f[i - 1])
    BY <2>1
  <2> HIDE DEF m, Step
  <2>3. f = [i \in 0 .. m |-> IF i = 0 THEN <<>> ELSE Step(i, f[i - 1])]
    <3>1. ASSUME NEW i \in 0 .. m
          PROVE  f[i] = IF i = 0 THEN <<>> ELSE Step(i, f[i - 1])
      <4>1. CASE i = 0
        BY <4>1, <2>2
      <4>2. CASE i # 0
        <5>1. i \in 1 .. m
          BY <4>2, <1>1
        <5> QED
          BY <4>2, <5>1, <2>2
      <4> QED
        BY <4>1, <4>2
    <3> QED
      BY <3>1, <2>2
  <2>6. kept = [i \in 0 .. m |-> IF i = 0 THEN <<>> ELSE Step(i, kept[i - 1])]
    BY <2>3
  <2> HIDE DEF kept
  <2>4. kept[0] = <<>>
    BY <2>6, <1>1
  <2>5. ASSUME NEW i \in 1 .. m PROVE kept[i] = Step(i, kept[i - 1])
    <3>1. i \in 0 .. m /\ i # 0
      BY <1>1
    <3> QED
      BY <3>1, <2>6
  <2> QED
    BY <2>4, <2>5
<1> HIDE DEF kept, m
<1> DEFINE Wrong == {i \in 0 .. m : ~ Right(i, kept[i])}
<1>4. Wrong = {}
  <2> SUFFICES ASSUME Wrong # {} PROVE FALSE
    OBVIOUS
  <2>1. PICK i \in Wrong : \A j \in Wrong : i <= j
    <3>1. Wrong \in SUBSET Nat
      BY <1>1
    <3> HIDE DEF Wrong
    <3> QED
      BY <3>1, SmallestOf
  <2>2. CASE i = 0
    <3>1. First(0) = {} /\ <<>> \in Seq(Node) /\ ToSet(<<>>) = {}
      BY DEF ToSet
    <3> QED
      BY <2>1, <2>2, <3>1, <1>3
  <2>3. CASE i # 0
    <3>1. i \in 1 .. m /\ i - 1 \in 0 .. m /\ i - 1 \notin Wrong
      <4> HIDE DEF Right
      <4> QED
        BY <2>1, <2>3, <1>1
    <3> DEFINE k == kept[i - 1]
    <3>2. k \in Seq(Node) /\ ToSet(k) = First(i - 1) \cap S
      BY <3>1
    <3>3. First(i) = First(i - 1) \cup {s[i]}
      BY <3>1, <1>1
    <3>4. s[i] \in Node
      BY <3>1, <1>1
    <3> HIDE DEF First, k
    <3>5. Step(i, k) \in Seq(Node) /\ ToSet(Step(i, k)) = First(i) \cap S
      <4>1. CASE s[i] \in S
        <5>1. /\ Append(k, s[i]) \in Seq(Node)
              /\ DOMAIN Append(k, s[i]) = 1 .. Len(k) + 1
              /\ \A j \in 1 .. Len(k) : Append(k, s[i])[j] = k[j]
              /\ Append(k, s[i])[Len(k) + 1] = s[i]
              /\ DOMAIN k = 1 .. Len(k) /\ Len(k) \in Nat
          BY <3>2, <3>4
        <5>2. ToSet(Append(k, s[i])) = ToSet(k) \cup {s[i]}
          <6>1. \A j : j \in 1 .. Len(k) + 1 <=> j \in 1 .. Len(k) \/ j = Len(k) + 1
            BY <5>1
          <6> QED
            BY <5>1, <6>1 DEF ToSet
        <5> QED
          BY <4>1, <5>1, <5>2, <3>2, <3>3 DEF KeepOne
      <4>2. CASE s[i] \notin S
        BY <4>2, <3>2, <3>3 DEF KeepOne
      <4> QED
        BY <4>1, <4>2
    <3>6. kept[i] = Step(i, k)
      BY <3>1, <1>3 DEF k
    <3> QED
      BY <2>1, <3>5, <3>6
  <2> QED
    BY <2>2, <2>3
<1>5. Right(m, kept[m])
  <2>1. m \in 0 .. m
    BY <1>1
  <2> HIDE DEF Right
  <2> QED
    BY <2>1, <1>4
<1>6. First(m) = ToSet(s)
  BY DEF ToSet, m
<1> QED
  BY <1>2, <1>5, <1>6

----------------------------------------------------------------------------
(* Types *)

\* Nodes are addresses and servers are nodes.
LEMMA NodeFacts ==
    /\ Node \subseteq Address /\ Server \subseteq Node /\ Command \subseteq Node
    /\ Peer \subseteq Server /\ Bootstrap \in Server /\ Bootstrap \notin Peer
    /\ Server = {Bootstrap} \cup Peer
    /\ Server \cap Command = {} /\ AuctionKey \in Address
BY DiscoveryAssumption DEF Node, Server

\* The part of TypeOK that is about tables.
Tables(t) == t \in [Server -> [Bucket -> Seq(Node)]] /\ \A n \in Server : TableOf(n, t[n], Node)

\* A server that inserts a node still has a table.
LEMMA WithContactFacts ==
    ASSUME Tables(table), NEW s, NEW m \in Node
    PROVE  /\ Tables(WithContact(s, m))
           /\ \A n \in Server \ {s} : WithContact(s, m)[n] = table[n]
           /\ s \in Server => WithContact(s, m)[s] = insert_contact(s, table[s], m)
<1> DEFINE t == WithContact(s, m)
<1>1. t = [table EXCEPT ![s] = insert_contact(s, @, m)]
  BY DEF WithContact
<1>2. table \in [Server -> [Bucket -> Seq(Node)]] /\ \A n \in Server : TableOf(n, table[n], Node)
  BY DEF Tables
<1> HIDE DEF t
<1>3. \A n \in Server \ {s} : t[n] = table[n]
  BY <1>1, <1>2
<1>4. s \in Server => t[s] = insert_contact(s, table[s], m)
  BY <1>1, <1>2
<1>5. ASSUME s \in Server
      PROVE  TableOf(s, t[s], Node)
  <2>1. s \in Address /\ Node \in SUBSET Address /\ TableOf(s, table[s], Node)
    BY <1>2, <1>5, NodeFacts
  <2>2. TableOf(s, insert_contact(s, table[s], m), Node)
    BY <2>1, InsertContactFacts
  <2> QED
    BY <2>2, <1>4, <1>5
<1>6. \A n \in Server : TableOf(n, t[n], Node)
  BY <1>2, <1>3, <1>5
<1>7. \A n \in Server : t[n] \in [Bucket -> Seq(Node)]
  BY <1>6 DEF TableOf
<1>8. t \in [Server -> [Bucket -> Seq(Node)]]
  BY <1>1, <1>2, <1>7
<1> QED
  BY <1>3, <1>4, <1>6, <1>8 DEF t, Tables

\* What a handler of server n replies.
LEMMA ReplyFacts ==
    ASSUME Tables(table), NEW n \in Server, NEW target \in Address
    PROVE  /\ ClosestTo(n, target) \in Seq(Node)
           /\ ToSet(ClosestTo(n, target)) \subseteq Contacts(table[n]) \cup {n}
           /\ find_node(n, target) \in Seq(Node)
           /\ ToSet(find_node(n, target)) \subseteq Contacts(table[n]) \cup {n}
<1>1. TableOf(n, table[n], Node)
  BY DEF Tables
<1>2. /\ ClosestTo(n, target) \in Seq(Node)
      /\ ToSet(ClosestTo(n, target)) \subseteq Contacts(table[n]) \cup {n}
  BY <1>1, NodeFacts, ClosestFacts DEF ClosestTo
<1>3. \A m \in Node : <<m>> \in Seq(Node) /\ ToSet(<<m>>) = {m}
  BY DEF ToSet
<1>4. CASE find_node_id(n, table[n], target)
  <2>1. target # n /\ target \in ToSet(table[n][get_bucket_index(n, target)])
    BY <1>4 DEF find_node_id
  <2>2. get_bucket_index(n, target) \in Bucket
    BY <2>1, NodeFacts, IndexFacts
  <2>3. target \in Contacts(table[n])
    BY <2>1, <2>2 DEF Contacts
  <2>4. Contacts(table[n]) \subseteq Node
    BY <1>1, NodeFacts, TableFacts
  <2> QED
    BY <1>2, <1>3, <1>4, <2>3, <2>4 DEF find_node
<1>5. CASE ~ find_node_id(n, table[n], target)
  BY <1>2, <1>3, <1>5, NodeFacts DEF find_node
<1> QED
  BY <1>4, <1>5

\* The part of TypeOK that is about the other variables.
Typed ==
    /\ starts \in [Server -> Nat] /\ \A n \in Server : starts[n] <= MaxStarts[n]
    /\ up \subseteq Server
    /\ lookup \in [Peer -> Lookup]
    /\ command \in [Command -> CommandState]
    /\ chain \in [Command -> Seq(Handler)]
    /\ held \subseteq Server /\ saved \subseteq Server
    /\ happened \subseteq Faults

LEMMA TypeParts == TypeOK <=> Tables(table) /\ Typed
<1>1. (\A n \in Server : TableOf(n, table[n], Node)) /\ table \in [Server -> [Bucket -> Seq(Node)]]
      <=> /\ table \in [Server -> [Bucket -> Seq(Node)]]
          /\ \A n \in Server : \A b \in Bucket :
                /\ \A i \in DOMAIN table[n][b] :
                      table[n][b][i] # n /\ get_bucket_index(n, table[n][b][i]) = b
                /\ IsInjective(table[n][b])
                /\ MaxEntries > 0 => Len(table[n][b]) <= MaxEntries
  BY DEF TableOf
<1> QED
  BY <1>1 DEF TypeOK, Tables, Typed

LEMMA TypePartsNext == TypeOK' <=> Tables(table') /\ Typed'
<1>1. Tables(table') <=> Tables(table)'
  BY DEF Tables
<1>2. (Tables(table) /\ Typed)' <=> TypeOK'
  BY TypeParts, PTL
<1> QED
  BY <1>1, <1>2

\* Fields that may be changed, one at a time.
LEMMA LookupFacts ==
    ASSUME NEW l \in Lookup
    PROVE  /\ \A a \in {"off", "joining", "seeding", "asking", "called", "taking", "done"} :
                 [l EXCEPT !.at = a] \in Lookup
           /\ \A n \in Node : [l EXCEPT !.node = n] \in Lookup
           /\ \A S \in SUBSET Node : /\ [l EXCEPT !.shortlist = S] \in Lookup
                                     /\ [l EXCEPT !.queried = S] \in Lookup
                                     /\ [l EXCEPT !.found = S] \in Lookup
           /\ \A S \in SUBSET Peer : [l EXCEPT !.earlier = S] \in Lookup
           /\ \A s \in Seq(Node) : [l EXCEPT !.news = s] \in Lookup
           /\ <<>> \in Seq(Node)
<1>1. <<>> \in Seq(Node)
  OBVIOUS
<1> QED
  BY <1>1 DEF Lookup

LEMMA CommandFacts ==
    ASSUME NEW s \in CommandState
    PROVE  /\ \A a \in {"start", "asking", "called", "publishing", "storing",
                        "published", "found", "missing", "failed"} :
                 [s EXCEPT !.at = a] \in CommandState
           /\ \A v \in BOOLEAN : [s EXCEPT !.value = v] \in CommandState
           /\ \A S \in SUBSET Node : /\ [s EXCEPT !.queried = S] \in CommandState
                                     /\ [s EXCEPT !.missed = S] \in CommandState
           /\ \A q \in Seq(Node) : /\ [s EXCEPT !.queue = q] \in CommandState
                                   /\ [s EXCEPT !.news = q] \in CommandState
           /\ <<>> \in Seq(Node)
<1>1. <<>> \in Seq(Node)
  OBVIOUS
<1> QED
  BY <1>1 DEF CommandState

\* A command that waits for a reply has asked somebody, and handlers work for
\* exactly those commands that wait for their STORE.
Shape ==
    \A c \in Command :
        /\ command[c].at = "called" => command[c].queue # <<>>
        /\ command[c].at = "storing" <=> chain[c] # <<>>

LEMMA HeadFacts ==
    ASSUME NEW S, NEW s \in Seq(S), s # <<>>
    PROVE  /\ Head(s) \in S /\ Tail(s) \in Seq(S)
           /\ ToSet(s) = {Head(s)} \cup ToSet(Tail(s))
<1>1. /\ Len(s) \in Nat /\ Len(s) # 0 /\ DOMAIN s = 1 .. Len(s)
      /\ Head(s) = s[1] /\ Tail(s) \in Seq(S) /\ Len(Tail(s)) = Len(s) - 1
      /\ DOMAIN Tail(s) = 1 .. Len(s) - 1
      /\ \A i \in 1 .. Len(s) - 1 : Tail(s)[i] = s[i + 1]
      /\ \A i \in 1 .. Len(s) : s[i] \in S
  OBVIOUS
<1>2. \A i \in 1 .. Len(s) : i = 1 \/ (i - 1 \in 1 .. Len(s) - 1 /\ Tail(s)[i - 1] = s[i])
  BY <1>1
<1>3. \A i \in 1 .. Len(s) - 1 : i + 1 \in 1 .. Len(s)
  BY <1>1
<1>4. 1 \in 1 .. Len(s)
  BY <1>1
<1>5. ToSet(s) = {s[i] : i \in 1 .. Len(s)} /\ ToSet(Tail(s)) = {Tail(s)[i] : i \in 1 .. Len(s) - 1}
  BY <1>1 DEF ToSet
<1>6. ToSet(s) \subseteq {s[1]} \cup ToSet(Tail(s))
  BY <1>2, <1>5
<1>7. {s[1]} \cup ToSet(Tail(s)) \subseteq ToSet(s)
  BY <1>1, <1>3, <1>4, <1>5
<1> QED
  BY <1>1, <1>4, <1>6, <1>7

LEMMA BeginningFacts ==
    ASSUME NEW S, NEW s \in Seq(S), NEW k \in DOMAIN s
    PROVE  /\ SubSeq(s, 1, k - 1) \in Seq(S)
           /\ Len(SubSeq(s, 1, k - 1)) = k - 1
           /\ SubSeq(s, 1, k - 1) = <<>> <=> k = 1
<1>1. k \in Nat /\ k >= 1 /\ k <= Len(s) /\ Len(s) \in Nat
  OBVIOUS
<1>2. SubSeq(s, 1, k - 1) \in Seq(S) /\ Len(SubSeq(s, 1, k - 1)) = k - 1
  BY <1>1, SubSeqProperties
<1>3. SubSeq(s, 1, k - 1) = <<>> <=> Len(SubSeq(s, 1, k - 1)) = 0
  BY <1>2, EmptySeq
<1> QED
  BY <1>1, <1>2, <1>3

LEMMA FrontFacts ==
    ASSUME NEW S, NEW s \in Seq(S), s # <<>>
    PROVE  /\ Front(s) \in Seq(S) /\ Len(Front(s)) = Len(s) - 1
           /\ Last(s) \in S
<1>1. Len(s) \in Nat /\ Len(s) # 0
  OBVIOUS
<1>2. Front(s) \in Seq(S) /\ Len(Front(s)) = Len(s) - 1
  <2>1. Len(s) \in DOMAIN s
    BY <1>1
  <2> QED
    BY <2>1, BeginningFacts DEF Front
<1>3. Last(s) \in S
  BY <1>1 DEF Last
<1> QED
  BY <1>2, <1>3

\* What is left of a chain when a server on it ends.
LEMMA CallersFacts ==
    ASSUME NEW calls \in Seq(Handler), NEW n, \E i \in DOMAIN calls : calls[i].node = n
    PROVE  Callers(n, calls) \in Seq(Handler)
<1> DEFINE T == {i \in DOMAIN calls : calls[i].node = n}
<1>1. T \in SUBSET Nat /\ T # {}
  OBVIOUS
<1>2. Min(T) \in T
  <2> HIDE DEF T
  <2>1. \E x \in T : \A y \in T : x =< y
    BY <1>1, SmallestOf
  <2> QED
    BY <2>1 DEF Min
<1>3. Callers(n, calls) = SubSeq(calls, 1, Min(T) - 1)
  BY DEF Callers
<1> DEFINE k == Min(T)
<1>4. k \in DOMAIN calls
  BY <1>2
<1> HIDE DEF k
<1>5. SubSeq(calls, 1, k - 1) \in Seq(Handler)
  BY <1>4, BeginningFacts
<1> QED
  BY <1>3, <1>5 DEF k

\* What the STORE handler of server n does to the copies: it stores the auction, or
\* it has somebody to forward it to.
LEMMA StoreFacts ==
    ASSUME Tables(table), Typed, NEW c \in Command, NEW n \in Server, NEW sender,
           NEW calls \in Seq(Handler), store(c, n, sender, calls)
    PROVE  /\ held' \subseteq Server /\ saved' \subseteq Server /\ happened' \subseteq Faults
           /\ held \subseteq held'
           /\ "io" \notin happened' => saved \subseteq saved'
           /\ happened \subseteq happened' /\ happened' \subseteq happened \cup {"io"}
           /\ \E h \in Handler :
                 /\ h.node = n
                 /\ chain' = [chain EXCEPT ![c] = Append(calls, h)]
                 /\ \/ n \in held' /\ (n \in saved' \/ "io" \in happened')
                    \/ KValue >= 2 => h.todo # <<>>
<1> DEFINE closest == ClosestTo(n, AuctionKey)
           others == Keep(closest, Node \ {n, sender})
           mine == n \in ToSet(closest)
<1>1. TableOf(n, table[n], Node) /\ n \in Node /\ Node \in SUBSET Address /\ AuctionKey \in Address
  BY NodeFacts DEF Tables
<1>2. /\ closest \in Seq(Node) /\ ToSet(closest) \subseteq Contacts(table[n]) \cup {n}
      /\ KValue >= 2 /\ n \notin ToSet(closest) => \A s : ToSet(closest) \ {n, s} # {}
  BY <1>1, ClosestFacts DEF ClosestTo
<1>3. Contacts(table[n]) \subseteq Node
  BY <1>1, TableFacts
<1> HIDE DEF closest
<1>4. others \in Seq(Node) /\ ToSet(others) = ToSet(closest) \cap (Node \ {n, sender})
  BY <1>2, KeepFacts
<1>5. ASSUME KValue >= 2, ~ mine
      PROVE  others # <<>>
  <2>1. ToSet(closest) \ {n, sender} # {}
    BY <1>2, <1>5
  <2>2. ToSet(others) # {}
    BY <1>1, <1>2, <1>3, <1>4, <2>1
  <2>3. ToSet(<<>>) = {}
    BY DEF ToSet
  <2> QED
    BY <2>2, <2>3
<1> HIDE DEF others
<1>6. /\ held' = IF mine THEN held \cup {n} ELSE held
      /\ \/ /\ saved' = IF mine THEN saved \cup {n} ELSE saved
            /\ chain' = [chain EXCEPT ![c] = Append(calls, [node |-> n, todo |-> others])]
            /\ happened' = happened
         \/ /\ mine /\ "io" \in Faults
            /\ saved' \in {saved, saved \ {n}}
            /\ chain' = [chain EXCEPT ![c] = Append(calls, [node |-> n, todo |-> <<>>])]
            /\ happened' = happened \cup {"io"}
  BY DEF store, closest, others
<1>7. [node |-> n, todo |-> others] \in Handler /\ [node |-> n, todo |-> <<>>] \in Handler
  BY <1>4 DEF Handler
<1>8. /\ held' \subseteq Server /\ saved' \subseteq Server /\ happened' \subseteq Faults
      /\ held \subseteq held'
      /\ "io" \notin happened' => saved \subseteq saved'
      /\ happened \subseteq happened' /\ happened' \subseteq happened \cup {"io"}
  BY <1>6 DEF Typed
<1>9. \E h \in Handler :
         /\ h.node = n
         /\ chain' = [chain EXCEPT ![c] = Append(calls, h)]
         /\ \/ n \in held' /\ (n \in saved' \/ "io" \in happened')
            \/ KValue >= 2 => h.todo # <<>>
  <2>1. CASE mine /\ happened' = happened \cup {"io"}
             /\ chain' = [chain EXCEPT ![c] = Append(calls, [node |-> n, todo |-> <<>>])]
    <3> DEFINE h == [node |-> n, todo |-> <<>>]
    <3>1. h \in Handler /\ h.node = n /\ chain' = [chain EXCEPT ![c] = Append(calls, h)]
      BY <1>7, <2>1
    <3>2. n \in held' /\ "io" \in happened'
      BY <1>6, <2>1
    <3> HIDE DEF h
    <3> QED
      BY <3>1, <3>2
  <2>2. CASE /\ saved' = IF mine THEN saved \cup {n} ELSE saved
             /\ chain' = [chain EXCEPT ![c] = Append(calls, [node |-> n, todo |-> others])]
    <3> DEFINE h == [node |-> n, todo |-> others]
    <3>1. h \in Handler /\ h.node = n /\ h.todo = others
          /\ chain' = [chain EXCEPT ![c] = Append(calls, h)]
      BY <1>7, <2>2
    <3>2. mine => n \in held' /\ n \in saved'
      BY <1>6, <2>2
    <3> HIDE DEF h
    <3> QED
      BY <3>1, <3>2, <1>5
  <2> QED
    BY <1>6, <2>1, <2>2
<1> QED
  BY <1>8, <1>9

LEMMA ConcatFacts ==
    ASSUME NEW S, NEW s \in Seq(S), NEW t \in Seq(S)
    PROVE  s \o t \in Seq(S) /\ ToSet(s \o t) = ToSet(s) \cup ToSet(t)
<1>1. /\ s \o t \in Seq(S) /\ Len(s \o t) = Len(s) + Len(t)
      /\ Len(s) \in Nat /\ Len(t) \in Nat
      /\ DOMAIN s = 1 .. Len(s) /\ DOMAIN t = 1 .. Len(t) /\ DOMAIN (s \o t) = 1 .. Len(s) + Len(t)
      /\ \A i \in 1 .. Len(s) : (s \o t)[i] = s[i]
      /\ \A i \in 1 .. Len(t) : (s \o t)[Len(s) + i] = t[i]
  BY ConcatProperties
<1>2. /\ \A i \in 1 .. Len(s) : i \in 1 .. Len(s) + Len(t)
      /\ \A i \in 1 .. Len(t) : Len(s) + i \in 1 .. Len(s) + Len(t)
      /\ \A i \in 1 .. Len(s) + Len(t) :
            i \in 1 .. Len(s) \/ (i - Len(s) \in 1 .. Len(t) /\ i = Len(s) + (i - Len(s)))
  BY <1>1
<1>3. ToSet(s \o t) \subseteq ToSet(s) \cup ToSet(t)
  BY <1>1, <1>2 DEF ToSet
<1>4. ToSet(s) \cup ToSet(t) \subseteq ToSet(s \o t)
  <2>1. ToSet(s) \subseteq ToSet(s \o t)
    BY <1>1, <1>2 DEF ToSet
  <2>2. ASSUME NEW e \in ToSet(t) PROVE e \in ToSet(s \o t)
    <3>1. PICK i \in 1 .. Len(t) : e = t[i]
      BY <1>1 DEF ToSet
    <3>2. Len(s) + i \in DOMAIN (s \o t) /\ (s \o t)[Len(s) + i] = e
      BY <1>1, <1>2, <3>1
    <3> QED
      BY <3>2 DEF ToSet
  <2> QED
    BY <2>1, <2>2
<1> QED
  BY <1>1, <1>3, <1>4

\* Whom a peer asks first: contacts of its own, the only one if it has one.
LEMMA SeedFacts ==
    ASSUME Tables(table), NEW p \in Peer
    PROVE  LET S == ToSet(get_k_closest_nodes(p, table[p], p, {})) IN
           /\ S \subseteq Contacts(table[p]) /\ Contacts(table[p]) \subseteq Node
           /\ \A n : Contacts(table[p]) = {n} /\ KValue > 0 => S = {n}
<1> DEFINE closest == get_k_closest_nodes(p, table[p], p, {})
           C == Contacts(table[p])
<1>1. TableOf(p, table[p], Node) /\ p \in Address /\ Node \in SUBSET Address
  BY NodeFacts DEF Tables
<1>2. WellFiled(p, table[p]) /\ C \subseteq Node
  BY <1>1, TableFacts
<1>3. ToSet(closest) = Closest(C, p)
  BY <1>2, <1>1, SelfSearchFacts
<1> HIDE DEF closest, C
<1>4. ToSet(closest) \subseteq C
  BY <1>3 DEF Closest
<1>5. ASSUME NEW n, C = {n}, KValue > 0
      PROVE  n \in Closest(C, p)
  <2>1. ~ Closer(n, n, p)
    BY DEF Closer, Less
  <2>2. {m \in C : Closer(m, n, p)} = {}
    BY <2>1, <1>5
  <2>3. Rank(n, C, p) = 0
    BY <2>2, FS_EmptySet DEF Rank
  <2> QED
    BY <2>3, <1>5 DEF Closest
<1> QED
  BY <1>2, <1>3, <1>4, <1>5 DEF closest, C

\* A command before its first step.
LEMMA FreshFacts ==
    ASSUME Init, NEW c \in Command
    PROVE  /\ command[c] \in CommandState /\ command[c].at = "start"
           /\ command[c].queue = <<>> /\ command[c].news = <<>>
<1>1. command[c] \in {Fresh(op, own) : op \in {"create", "find", "bid"}, own \in BOOLEAN}
  BY DEF Init
<1>2. PICK op \in {"create", "find", "bid"}, own \in BOOLEAN : command[c] = Fresh(op, own)
  BY <1>1
<1> QED
  BY <1>2 DEF Fresh, CommandState

LEMMA InitTypes == Init => TypeOK /\ Shape
<1> SUFFICES ASSUME Init PROVE TypeOK /\ Shape
  OBVIOUS
<1>1. Tables(table)
  <2>1. \A n \in Server : TableOf(n, NoContacts, Node)
    BY NoContactsFacts
  <2>2. \A n \in Server : NoContacts \in [Bucket -> Seq(Node)]
    BY <2>1 DEF TableOf
  <2> QED
    BY <2>1, <2>2 DEF Init, Tables
<1>2. Off \in Lookup
  BY NodeFacts DEF Off, Lookup
<1>3. \A c \in Command : command[c] \in CommandState /\ command[c].at = "start"
  BY FreshFacts
<1>5. command \in [Command -> CommandState]
  <2>1. command \in [Command -> {Fresh(op, own) : op \in {"create", "find", "bid"}, own \in BOOLEAN}]
    BY DEF Init
  <2> QED
    BY <2>1, <1>3
<1>6. chain \in [Command -> Seq(Handler)] /\ lookup \in [Peer -> Lookup]
  <2>1. <<>> \in Seq(Handler)
    OBVIOUS
  <2> QED
    BY <1>2, <2>1 DEF Init
<1>7. starts \in [Server -> Nat] /\ \A n \in Server : starts[n] <= MaxStarts[n]
  BY DiscoveryAssumption DEF Init
<1>8. Typed
  BY <1>5, <1>6, <1>7 DEF Init, Typed
<1>9. Shape
  BY <1>3 DEF Init, Shape
<1> QED
  BY <1>1, <1>8, <1>9, TypeParts

LEMMA StartTypes ==
    ASSUME TypeOK, Shape, NEW n \in Server, Start(n)
    PROVE  TypeOK' /\ Shape'
<1>1. Tables(table) /\ Typed
  BY TypeParts
<1>2. starts[n] \in Nat /\ MaxStarts[n] \in Nat /\ starts[n] < MaxStarts[n]
  BY <1>1, DiscoveryAssumption DEF Typed, Start
<1>3. starts' \in [Server -> Nat] /\ \A m \in Server : starts'[m] <= MaxStarts[m]
  BY <1>1, <1>2 DEF Typed, Start
<1>4. lookup' \in [Peer -> Lookup]
  <2>1. lookup \in [Peer -> Lookup]
    BY <1>1 DEF Typed
  <2>2. \A p \in Peer : [lookup[p] EXCEPT !.at = "joining"] \in Lookup
    BY <2>1, LookupFacts
  <2>3. lookup' = IF n \in Peer THEN [lookup EXCEPT ![n].at = "joining"] ELSE lookup
    BY DEF Start
  <2> QED
    BY <2>1, <2>2, <2>3
<1>5. UNCHANGED <<table, command, chain, saved, happened>> /\ up' = up \cup {n} /\ held' \subseteq held \cup {n}
  BY DEF Start
<1>6. Typed'
  BY <1>1, <1>3, <1>4, <1>5 DEF Typed
<1>7. Tables(table)'
  BY <1>1, <1>5 DEF Tables
<1>8. Shape'
  BY <1>5 DEF Shape
<1> QED
  BY <1>6, <1>7, <1>8, TypePartsNext DEF Tables

LEMMA KillTypes ==
    ASSUME TypeOK, Shape, NEW n \in Server, Kill(n)
    PROVE  TypeOK' /\ Shape'
<1>1. Tables(table) /\ Typed
  BY TypeParts
<1>2. Tables(table')
  <2>1. TableOf(n, NoContacts, Node)
    BY NoContactsFacts
  <2>2. NoContacts \in [Bucket -> Seq(Node)]
    BY <2>1 DEF TableOf
  <2>3. ASSUME NEW t, Tables(t)
        PROVE  Tables([t EXCEPT ![n] = NoContacts])
    BY <2>1, <2>2, <2>3 DEF Tables
  <2>4. Tables(WithContact(lookup[n].node, n))
    BY <1>1, NodeFacts, WithContactFacts
  <2>5. \/ table' = [WithContact(lookup[n].node, n) EXCEPT ![n] = NoContacts]
        \/ table' = [table EXCEPT ![n] = NoContacts]
    BY DEF Kill
  <2> QED
    BY <1>1, <2>3, <2>4, <2>5
<1>3. lookup' \in [Peer -> Lookup]
  <2>1. Off \in Lookup
    BY NodeFacts DEF Off, Lookup
  <2>2. ASSUME NEW p \in Peer
        PROVE  [lookup[p] EXCEPT !.at = "asking", !.news = <<>>] \in Lookup
    <3>1. lookup[p] \in Lookup
      BY <1>1 DEF Typed
    <3> DEFINE l == [lookup[p] EXCEPT !.at = "asking"]
    <3>2. l \in Lookup
      BY <3>1, LookupFacts
    <3>3. [l EXCEPT !.news = <<>>] \in Lookup
      <4> HIDE DEF l
      <4> QED
        BY <3>2, LookupFacts
    <3> QED
      BY <3>3
  <2>3. lookup' = [p \in Peer |->
                     IF p = n THEN Off
                     ELSE IF p \in Waiting(n) THEN [lookup[p] EXCEPT !.at = "asking", !.news = <<>>]
                     ELSE lookup[p]]
    BY DEF Kill
  <2> QED
    BY <1>1, <2>1, <2>2, <2>3 DEF Typed
<1>4. \A c \in Command : chain'[c] = IF c \in Chained(n) THEN Callers(n, chain[c]) ELSE chain[c]
  BY DEF Kill
<1>5. \A c \in Command : chain'[c] \in Seq(Handler)
  <2> SUFFICES ASSUME NEW c \in Command PROVE chain'[c] \in Seq(Handler)
    OBVIOUS
  <2>1. chain[c] \in Seq(Handler)
    BY <1>1 DEF Typed
  <2>2. CASE c \in Chained(n)
    <3>1. \E i \in DOMAIN chain[c] : chain[c][i].node = n
      BY <2>2 DEF Chained
    <3> QED
      BY <2>1, <2>2, <3>1, <1>4, CallersFacts
  <2> QED
    BY <2>1, <2>2, <1>4
<1>6. chain' \in [Command -> Seq(Handler)]
  <2>1. chain' = [c \in Command |-> IF c \in Chained(n) THEN Callers(n, chain[c]) ELSE chain[c]]
    BY DEF Kill
  <2> QED
    BY <2>1, <1>4, <1>5
<1>7. command' \in [Command -> CommandState]
  <2>1. ASSUME NEW c \in Command
        PROVE  /\ [command[c] EXCEPT !.at = "failed", !.news = <<>>, !.value = FALSE] \in CommandState
               /\ [command[c] EXCEPT !.missed = @ \cup {n}] \in CommandState
    <3>1. command[c] \in CommandState
      BY <1>1 DEF Typed
    <3> DEFINE s1 == [command[c] EXCEPT !.at = "failed"]
               s2 == [s1 EXCEPT !.news = <<>>]
    <3>2. s1 \in CommandState
      BY <3>1, CommandFacts
    <3>3. s2 \in CommandState
      <4> HIDE DEF s1
      <4> QED
        BY <3>2, CommandFacts
    <3>4. [s2 EXCEPT !.value = FALSE] \in CommandState
      <4> HIDE DEF s2
      <4> QED
        BY <3>3, CommandFacts
    <3>5. command[c].missed \cup {n} \in SUBSET Node
      BY <3>1, NodeFacts DEF CommandState
    <3>6. [command[c] EXCEPT !.missed = @ \cup {n}] \in CommandState
      BY <3>1, <3>5, CommandFacts
    <3> QED
      BY <3>4, <3>6
  <2>2. command' = [c \in Command |->
                      IF c \in Asking(n) \/ (c \in Chained(n) /\ chain'[c] = <<>>)
                      THEN [command[c] EXCEPT !.at = "failed", !.news = <<>>, !.value = FALSE]
                      ELSE IF c \in Chained(n)
                      THEN [command[c] EXCEPT !.missed = @ \cup {n}]
                      ELSE command[c]]
    BY DEF Kill
  <2> QED
    BY <1>1, <2>1, <2>2 DEF Typed
<1>8. Typed'
  BY <1>1, <1>3, <1>6, <1>7 DEF Kill, Typed
<1>9. Shape'
  <2> SUFFICES ASSUME NEW c \in Command
               PROVE  /\ command'[c].at = "called" => command'[c].queue # <<>>
                      /\ command'[c].at = "storing" <=> chain'[c] # <<>>
    BY DEF Shape
  <2>1. command[c] \in CommandState
    BY <1>1 DEF Typed
  <2>2. /\ command[c].at = "called" => command[c].queue # <<>>
        /\ command[c].at = "storing" <=> chain[c] # <<>>
    BY DEF Shape
  <2>3. c \in Chained(n) => chain[c] # <<>>
    BY DEF Chained
  <2>4. c \in Asking(n) => command[c].at = "called"
    BY DEF Asking
  <2>5. command'[c] = IF c \in Asking(n) \/ (c \in Chained(n) /\ chain'[c] = <<>>)
                      THEN [command[c] EXCEPT !.at = "failed", !.news = <<>>, !.value = FALSE]
                      ELSE IF c \in Chained(n)
                      THEN [command[c] EXCEPT !.missed = @ \cup {n}]
                      ELSE command[c]
    BY DEF Kill
  <2>6. CASE c \in Asking(n)
    <3>1. chain'[c] = <<>> /\ command'[c].at = "failed"
      BY <2>1, <2>2, <2>3, <2>4, <2>5, <2>6, <1>4 DEF CommandState
    <3> QED
      BY <3>1
  <2>7. CASE c \notin Asking(n) /\ c \in Chained(n) /\ chain'[c] = <<>>
    <3>1. command'[c].at = "failed"
      BY <2>1, <2>5, <2>7 DEF CommandState
    <3> QED
      BY <3>1, <2>7
  <2>8. CASE c \notin Asking(n) /\ c \in Chained(n) /\ chain'[c] # <<>>
    <3>1. command'[c].at = command[c].at /\ command'[c].queue = command[c].queue
      BY <2>1, <2>5, <2>8 DEF CommandState
    <3> QED
      BY <3>1, <2>2, <2>3, <2>8
  <2>9. CASE c \notin Asking(n) /\ c \notin Chained(n)
    BY <2>2, <2>5, <2>9, <1>4
  <2> QED
    BY <2>6, <2>7, <2>8, <2>9
<1> QED
  BY <1>2, <1>8, <1>9, TypePartsNext DEF Tables

LEMMA PeerTypes ==
    ASSUME TypeOK, Shape, NEW p \in Peer, Join(p) \/ Search(p)
    PROVE  TypeOK' /\ Shape'
<1>1. Tables(table) /\ Typed /\ p \in Server /\ p \in Node /\ p \in Address
  BY TypeParts, NodeFacts
<1>2. lookup \in [Peer -> Lookup] /\ lookup[p] \in Lookup
  BY <1>1 DEF Typed
<1>3. UNCHANGED <<starts, up, command, chain, held, saved>>
  BY DEF Join, Search, Seed, Reply, Take, Continue, Ask, AskFails
<1>4. happened' = happened \/ ("link" \in Faults /\ happened' = happened \cup {"link"})
  BY DEF Join, Search, Seed, Reply, Take, Continue, Ask, AskFails, Reached, Unreached
<1>5. ASSUME lookup' \in [Peer -> Lookup], Tables(table')
      PROVE  TypeOK' /\ Shape'
  <2>1. Typed'
    BY <1>1, <1>3, <1>4, <1>5 DEF Typed
  <2>2. Shape'
    BY <1>3 DEF Shape
  <2> QED
    BY <2>1, <2>2, <1>5, TypePartsNext DEF Tables
<1>6. CASE Join(p)
  <2>1. Tables(table')
    BY <1>1, <1>6, NodeFacts, WithContactFacts DEF Join
  <2>2. lookup' \in [Peer -> Lookup]
    BY <1>2, <1>6 DEF Join, Lookup
  <2> QED
    BY <2>1, <2>2, <1>5
<1>7. CASE Seed(p)
  <2>1. table' = table
    BY <1>7 DEF Seed
  <2> DEFINE closest == get_k_closest_nodes(p, table[p], p, {})
  <2>2. ToSet(closest) \subseteq Node
    <3>1. /\ ToSet(closest) \subseteq Contacts(table[p])
          /\ Contacts(table[p]) \subseteq Node
      BY <1>1, SeedFacts
    <3> QED
      BY <3>1
  <2>3. lookup' = [lookup EXCEPT ![p].at = "asking", ![p].shortlist = ToSet(closest)]
    BY <1>7 DEF Seed
  <2> HIDE DEF closest
  <2>4. lookup' \in [Peer -> Lookup]
    BY <1>2, <2>2, <2>3 DEF Lookup
  <2> QED
    BY <2>1, <2>4, <1>1, <1>5
<1>8. ASSUME NEW n \in Node, Ask(p, n)
      PROVE  TypeOK' /\ Shape'
  <2>1. table' = table /\ n \in Server
    BY <1>1, <1>8 DEF Ask, Reached, Typed
  <2>2. find_node(n, p) \in Seq(Node)
    BY <2>1, <1>1, ReplyFacts
  <2>3. lookup' = [lookup EXCEPT ![p] = [Asked(p, n) EXCEPT !.at = "called", !.news = find_node(n, p)]]
    BY <1>8 DEF Ask
  <2>4. [Asked(p, n) EXCEPT !.at = "called", !.news = find_node(n, p)] \in Lookup
    BY <1>2, <1>8, <2>2 DEF Asked, Lookup
  <2>5. lookup' \in [Peer -> Lookup]
    BY <1>2, <2>3, <2>4
  <2> QED
    BY <2>1, <2>5, <1>1, <1>5
<1>9. ASSUME NEW n \in Node, AskFails(p, n)
      PROVE  TypeOK' /\ Shape'
  <2>1. table' = table /\ lookup' = [lookup EXCEPT ![p] = Asked(p, n)]
    BY <1>9 DEF AskFails
  <2>2. Asked(p, n) \in Lookup
    BY <1>2, <1>9 DEF Asked, Lookup
  <2>3. lookup' \in [Peer -> Lookup]
    BY <1>2, <2>1, <2>2
  <2> QED
    BY <2>1, <2>3, <1>1, <1>5
<1>10. CASE Reply(p)
  <2>1. News(p) \in Seq(Node)
    BY <1>2, KeepFacts DEF News, Lookup
  <2>2. Tables(table')
    BY <1>1, <1>10, NodeFacts, WithContactFacts DEF Reply
  <2>3. \/ lookup' = [lookup EXCEPT ![p].at = "taking", ![p].news = News(p)]
        \/ lookup' = [lookup EXCEPT ![p].at = "asking", ![p].news = <<>>]
    BY <1>10 DEF Reply
  <2>4. \A a \in {"taking", "asking"} : \A s \in Seq(Node) :
           [[lookup[p] EXCEPT !.at = a] EXCEPT !.news = s] \in Lookup
    <3> SUFFICES ASSUME NEW a \in {"taking", "asking"}, NEW s \in Seq(Node)
                 PROVE  [[lookup[p] EXCEPT !.at = a] EXCEPT !.news = s] \in Lookup
      OBVIOUS
    <3> DEFINE l == [lookup[p] EXCEPT !.at = a]
    <3>1. l \in Lookup
      BY <1>2, LookupFacts
    <3> HIDE DEF l
    <3>2. [l EXCEPT !.news = s] \in Lookup
      BY <3>1, LookupFacts
    <3> QED
      BY <3>2 DEF l
  <2>5. <<>> \in Seq(Node)
    OBVIOUS
  <2>6. lookup' \in [Peer -> Lookup]
    BY <1>2, <2>1, <2>3, <2>4, <2>5
  <2> QED
    BY <2>2, <2>6, <1>5
<1>11. CASE Take(p)
  <2> DEFINE m == Head(lookup[p].news)
             keeps == lookup[p].node \notin lookup[p].found
  <2>1. m \in Node /\ Tail(lookup[p].news) \in Seq(Node)
    BY <1>2, <1>11, HeadFacts DEF Take, Lookup
  <2>2. /\ table' = IF keeps THEN WithContact(p, m) ELSE table
        /\ lookup' = [lookup EXCEPT ![p].news = Tail(@),
                                    ![p].shortlist = @ \cup {m},
                                    ![p].found = IF keeps THEN @ \cup {m} ELSE @]
    BY <1>11 DEF Take
  <2> HIDE DEF m, keeps
  <2>3. Tables(table')
    BY <1>1, <2>1, <2>2, WithContactFacts
  <2>4. lookup' \in [Peer -> Lookup]
    BY <1>2, <2>1, <2>2 DEF Lookup
  <2> QED
    BY <2>3, <2>4, <1>5
<1>12. CASE Continue(p)
  <2>1. table' = table
    BY <1>12 DEF Continue
  <2>2. \A a \in {"asking", "done"} : [lookup[p] EXCEPT !.at = a] \in Lookup
    BY <1>2, LookupFacts
  <2>3. lookup' \in [Peer -> Lookup]
    BY <1>2, <1>12, <2>2 DEF Continue
  <2> QED
    BY <2>1, <2>3, <1>1, <1>5
<1> QED
  BY <1>6, <1>7, <1>8, <1>9, <1>10, <1>11, <1>12 DEF Search

\* What stays of a command when its state is named anew.
LEMMA AtFacts ==
    ASSUME NEW c \in Command, command[c] \in CommandState,
           NEW a \in {"start", "asking", "called", "publishing", "storing",
                      "published", "found", "missing", "failed"}
    PROVE  /\ At(c, a) \in CommandState /\ At(c, a).at = a
           /\ At(c, a).queue = command[c].queue
           /\ At(c, a).queried = command[c].queried
           /\ At(c, a).missed = command[c].missed /\ At(c, a).news = <<>>
<1> DEFINE s1 == [command[c] EXCEPT !.at = a]
           s2 == [s1 EXCEPT !.value = FALSE]
           s3 == [s2 EXCEPT !.news = <<>>]
<1>1. s1 \in CommandState
  BY CommandFacts
<1>2. s2 \in CommandState
  <2> HIDE DEF s1
  <2> QED
    BY <1>1, CommandFacts
<1>3. s3 \in CommandState
  <2> HIDE DEF s2
  <2> QED
    BY <1>2, CommandFacts
<1>4. At(c, a) = s3
  BY DEF At
<1> QED
  BY <1>3, <1>4 DEF CommandState

\* The running handler forwards to a node, and its chain stays a chain.
LEMMA ForwardedFacts ==
    ASSUME Typed, Shape, NEW c \in Command,
           command[c].at = "storing", Running(c).todo # <<>>
    PROVE  /\ Head(Running(c).todo) \in Node /\ Running(c).node \in Server
           /\ Forwarded(c) \in Seq(Handler) /\ Forwarded(c) # <<>>
<1>1. chain[c] # <<>> /\ chain[c] \in Seq(Handler)
  BY DEF Shape, Typed
<1>2. Running(c) \in Handler /\ Front(chain[c]) \in Seq(Handler)
  BY <1>1, FrontFacts DEF Running
<1>3. Head(Running(c).todo) \in Node /\ Tail(Running(c).todo) \in Seq(Node) /\ Running(c).node \in Server
  <2>1. Running(c).todo \in Seq(Node) /\ Running(c).node \in Server
    BY <1>2 DEF Handler
  <2> QED
    BY <2>1, HeadFacts
<1>4. [Running(c) EXCEPT !.todo = Tail(@)] \in Handler
  BY <1>2, <1>3 DEF Handler
<1>5. Forwarded(c) \in Seq(Handler) /\ Len(Forwarded(c)) = Len(Front(chain[c])) + 1
  BY <1>2, <1>4, AppendProperties DEF Forwarded
<1>6. Len(Front(chain[c])) \in Nat /\ Len(<<>>) = 0
  BY <1>2
<1> QED
  BY <1>3, <1>5, <1>6

LEMMA CommandTypes ==
    ASSUME TypeOK, Shape, NEW c \in Command, Run(c)
    PROVE  TypeOK' /\ Shape'
<1>1. Tables(table) /\ Typed /\ c \in Node /\ Bootstrap \in Server /\ Bootstrap \in Node
  BY TypeParts, NodeFacts
<1>2. /\ command \in [Command -> CommandState] /\ command[c] \in CommandState
      /\ chain \in [Command -> Seq(Handler)] /\ chain[c] \in Seq(Handler)
      /\ command[c].queue \in Seq(Node) /\ command[c].news \in Seq(Node)
      /\ command[c].missed \in SUBSET Node /\ command[c].queried \in SUBSET Node
  <2>1. /\ command \in [Command -> CommandState] /\ command[c] \in CommandState
        /\ chain \in [Command -> Seq(Handler)] /\ chain[c] \in Seq(Handler)
    BY <1>1 DEF Typed
  <2> QED
    BY <2>1 DEF CommandState
<1>3. UNCHANGED <<starts, up, lookup>>
  BY DEF Run, Begin, Query, AskValue, AskValueFails, ReplyValue, NotFound, Publish,
         PublishFails, Forward, ForwardFails, Answer, CallLost
\* It is enough to see that the command's own state and its chain fit.
<1>4. ASSUME Tables(table'), held' \subseteq Server, saved' \subseteq Server,
             happened' \subseteq Faults,
             NEW s \in CommandState, NEW calls \in Seq(Handler),
             command' = [command EXCEPT ![c] = s], chain' = [chain EXCEPT ![c] = calls],
             s.at = "called" => s.queue # <<>>, s.at = "storing" <=> calls # <<>>
      PROVE  TypeOK' /\ Shape'
  <2>1. Typed'
    BY <1>1, <1>2, <1>3, <1>4 DEF Typed
  <2>2. Shape'
    BY <1>2, <1>4 DEF Shape
  <2> QED
    BY <2>1, <2>2, <1>4, TypePartsNext DEF Tables
<1>5. ASSUME NEW s \in CommandState, command' = [command EXCEPT ![c] = s],
             UNCHANGED <<chain, held, saved>>, Tables(table'), happened' \subseteq Faults,
             s.at = "called" => s.queue # <<>>, s.at # "storing", command[c].at # "storing"
      PROVE  TypeOK' /\ Shape'
  <2>1. chain' = [chain EXCEPT ![c] = chain[c]] /\ chain[c] = <<>>
    BY <1>2, <1>5 DEF Shape
  <2>2. held' \subseteq Server /\ saved' \subseteq Server
    BY <1>1, <1>5 DEF Typed
  <2> QED
    BY <2>1, <2>2, <1>2, <1>4, <1>5
<1>6. happened \subseteq Faults /\ happened \cup {"io"} \subseteq Faults \cup {"io"}
  BY <1>1 DEF Typed
<1>7. Tables(table')
  <2>1. CASE ReplyValue(c)
    BY <1>1, <2>1, WithContactFacts DEF ReplyValue
  <2>2. CASE table' = table
    BY <1>1, <2>2
  <2> QED
    BY <2>1, <2>2 DEF Run, Begin, Query, AskValue, AskValueFails, NotFound, Publish,
         PublishFails, Forward, ForwardFails, Answer, CallLost
<1>8. \A a \in {"asking", "publishing", "storing", "published", "found", "missing", "failed"} :
         /\ At(c, a) \in CommandState /\ At(c, a).at = a
         /\ At(c, a).queue = command[c].queue /\ At(c, a).missed = command[c].missed
  BY <1>2, AtFacts
<1>9. CASE Begin(c)
  <2>1. CASE command' = [command EXCEPT ![c] = At(c, "publishing")]
    BY <1>5, <1>6, <1>7, <1>8, <1>9, <2>1 DEF Begin
  <2>2. CASE command' = [command EXCEPT ![c] = At(c, "found")]
    BY <1>5, <1>6, <1>7, <1>8, <1>9, <2>2 DEF Begin
  <2>3. CASE command' = [command EXCEPT ![c] = [At(c, "asking") EXCEPT !.queue = <<Bootstrap>>]]
    <3> DEFINE s == [At(c, "asking") EXCEPT !.queue = <<Bootstrap>>]
    <3>1. <<Bootstrap>> \in Seq(Node)
      BY <1>1
    <3>2. s \in CommandState
      BY <3>1, <1>8, CommandFacts
    <3>3. s.at = "asking"
      BY <1>8 DEF CommandState
    <3> HIDE DEF s
    <3> QED
      BY <1>5, <1>6, <1>7, <1>9, <2>3, <3>2, <3>3 DEF Begin, s
  <2> QED
    BY <1>9, <2>1, <2>2, <2>3 DEF Begin, Obtained
<1>10. CASE AskValue(c)
  <2> DEFINE n == Head(command[c].queue)
             news == IF n \in held THEN <<>> ELSE ClosestTo(n, AuctionKey)
             s1 == [command[c] EXCEPT !.at = "called"]
             s2 == [s1 EXCEPT !.queried = command[c].queried \cup {n}]
             s3 == [s2 EXCEPT !.value = n \in held]
             s == [s3 EXCEPT !.news = news]
  <2>1. n \in Server /\ n \in Node
    BY <1>1, <1>10, NodeFacts DEF AskValue, Reached, Typed
  <2>2. news \in Seq(Node)
    <3>1. <<>> \in Seq(Node)
      OBVIOUS
    <3>2. ClosestTo(n, AuctionKey) \in Seq(Node)
      BY <1>1, <2>1, NodeFacts, ReplyFacts
    <3> QED
      BY <3>1, <3>2
  <2>3. command' = [command EXCEPT ![c] = s]
    BY <1>10 DEF AskValue
  <2> HIDE DEF news
  <2>4. command[c].queried \cup {n} \in SUBSET Node /\ (n \in held) \in BOOLEAN
    BY <1>2, <2>1
  <2>5. s1 \in CommandState
    BY <1>2, CommandFacts
  <2>6. s2 \in CommandState
    <3> HIDE DEF s1, n
    <3> QED
      BY <2>4, <2>5, CommandFacts
  <2>7. s3 \in CommandState
    <3> DEFINE v == n \in held
    <3>1. v \in BOOLEAN
      BY <2>4
    <3> HIDE DEF s2, v
    <3>2. [s2 EXCEPT !.value = v] \in CommandState
      BY <3>1, <2>6, CommandFacts
    <3> QED
      BY <3>2 DEF v
  <2>8. s \in CommandState
    <3> HIDE DEF s3
    <3> QED
      BY <2>2, <2>7, CommandFacts
  <2>9. s.at = "called" /\ s.queue = command[c].queue
    BY <1>2 DEF CommandState
  <2> HIDE DEF s, n
  <2> QED
    BY <1>5, <1>6, <1>7, <1>10, <2>3, <2>8, <2>9 DEF AskValue, Reached
<1>11. CASE AskValueFails(c)
  <2>1. happened' \subseteq Faults
    BY <1>6, <1>11 DEF AskValueFails, Unreached
  <2> QED
    BY <1>5, <1>7, <1>8, <1>11, <2>1 DEF AskValueFails
<1>12. CASE ReplyValue(c)
  <2>1. happened' \subseteq Faults
    BY <1>6, <1>12 DEF ReplyValue
  <2>2. CASE \E a \in {"publishing", "found", "failed"} : command' = [command EXCEPT ![c] = At(c, a)]
    <3>1. PICK a \in {"publishing", "found", "failed"} : command' = [command EXCEPT ![c] = At(c, a)]
      BY <2>2
    <3>2. /\ At(c, a) \in CommandState /\ At(c, a).at # "called" /\ At(c, a).at # "storing"
      BY <1>8, <3>1
    <3>3. command[c].at = "called" /\ UNCHANGED <<chain, held, saved>>
      BY <1>12 DEF ReplyValue
    <3> QED
      BY <1>5, <1>7, <2>1, <3>1, <3>2, <3>3
  <2> DEFINE q == Tail(command[c].queue)
                  \o Keep(command[c].news, Node \ ({c} \cup command[c].queried \cup ToSet(command[c].queue)))
  <2>3. CASE command' = [command EXCEPT ![c] = [At(c, "asking") EXCEPT !.queue = q]]
    <3> DEFINE s == [At(c, "asking") EXCEPT !.queue = q]
    <3>1. command[c].queue # <<>>
      BY <1>12 DEF ReplyValue, Shape
    <3>2. Tail(command[c].queue) \in Seq(Node)
      BY <1>2, <3>1, HeadFacts
    <3>3. Keep(command[c].news, Node \ ({c} \cup command[c].queried \cup ToSet(command[c].queue)))
             \in Seq(Node)
      BY <1>2, KeepFacts
    <3>4. q \in Seq(Node)
      BY <3>2, <3>3, ConcatProperties
    <3> HIDE DEF q
    <3>5. s \in CommandState
      BY <3>4, <1>8, CommandFacts
    <3>6. s.at = "asking"
      BY <1>8 DEF CommandState
    <3> HIDE DEF s
    <3> QED
      BY <1>5, <1>7, <1>12, <2>1, <2>3, <3>5, <3>6 DEF ReplyValue, s
  <2> QED
    BY <1>12, <2>2, <2>3 DEF ReplyValue, Obtained
<1>13. CASE NotFound(c)
  BY <1>5, <1>6, <1>7, <1>8, <1>13 DEF NotFound
<1>14. CASE Publish(c)
  <2>1. store(c, Bootstrap, c, <<>>) /\ command' = [command EXCEPT ![c] = At(c, "storing")]
    BY <1>14 DEF Publish
  <2>2. <<>> \in Seq(Handler)
    OBVIOUS
  <2>3. /\ held' \subseteq Server /\ saved' \subseteq Server /\ happened' \subseteq Faults
        /\ \E h \in Handler : chain' = [chain EXCEPT ![c] = Append(<<>>, h)]
    <3> DEFINE none == <<>>
    <3>1. none \in Seq(Handler) /\ store(c, Bootstrap, c, none)
      BY <2>1, <2>2
    <3> HIDE DEF none
    <3>2. /\ held' \subseteq Server /\ saved' \subseteq Server /\ happened' \subseteq Faults
          /\ \E h \in Handler : chain' = [chain EXCEPT ![c] = Append(none, h)]
      BY <1>1, <3>1, StoreFacts
    <3> QED
      BY <3>2 DEF none
  <2>4. PICK h \in Handler : chain' = [chain EXCEPT ![c] = Append(<<>>, h)]
    BY <2>3
  <2>5. Append(<<>>, h) \in Seq(Handler) /\ Append(<<>>, h) # <<>>
    OBVIOUS
  <2> QED
    BY <1>4, <1>7, <1>8, <2>1, <2>3, <2>4, <2>5
<1>15. CASE PublishFails(c)
  <2>1. happened' \subseteq Faults
    BY <1>6, <1>15 DEF PublishFails, Unreached
  <2> QED
    BY <1>5, <1>7, <1>8, <1>15, <2>1 DEF PublishFails
<1>16. ASSUME command[c].at = "storing", Running(c).todo # <<>>
       PROVE  /\ Head(Running(c).todo) \in Node /\ Running(c).node \in Server
              /\ Forwarded(c) \in Seq(Handler) /\ Forwarded(c) # <<>>
  BY <1>1, <1>16, ForwardedFacts
<1>17. CASE Forward(c)
  <2> DEFINE m == Head(Running(c).todo)
  <2>1. /\ command[c].at = "storing" /\ Running(c).todo # <<>> /\ m \in up
        /\ store(c, m, Running(c).node, Forwarded(c)) /\ command' = command
    BY <1>17 DEF Forward
  <2>2. m \in Server /\ Forwarded(c) \in Seq(Handler)
    BY <1>1, <1>16, <2>1 DEF Typed
  <2> HIDE DEF m
  <2>3. /\ held' \subseteq Server /\ saved' \subseteq Server /\ happened' \subseteq Faults
        /\ \E h \in Handler : chain' = [chain EXCEPT ![c] = Append(Forwarded(c), h)]
    BY <1>1, <2>1, <2>2, StoreFacts
  <2>4. PICK h \in Handler : chain' = [chain EXCEPT ![c] = Append(Forwarded(c), h)]
    BY <2>3
  <2>5. Append(Forwarded(c), h) \in Seq(Handler) /\ Append(Forwarded(c), h) # <<>>
    BY <2>2, AppendProperties
  <2>6. command' = [command EXCEPT ![c] = command[c]]
    BY <2>1, <1>2
  <2> QED
    BY <1>2, <1>4, <1>7, <2>1, <2>3, <2>4, <2>5, <2>6
<1>18. CASE ForwardFails(c)
  <2> DEFINE m == Head(Running(c).todo)
             s == [command[c] EXCEPT !.missed = @ \cup {m}]
  <2>1. /\ command[c].at = "storing" /\ Running(c).todo # <<>> /\ Unreached(m)
        /\ chain' = [chain EXCEPT ![c] = Forwarded(c)]
        /\ command' = [command EXCEPT ![c] = s]
        /\ UNCHANGED <<held, saved>>
    BY <1>18 DEF ForwardFails
  <2>2. m \in Node /\ Forwarded(c) \in Seq(Handler) /\ Forwarded(c) # <<>>
    BY <1>16, <2>1
  <2>3. happened' \subseteq Faults /\ held' \subseteq Server /\ saved' \subseteq Server
    BY <1>1, <1>6, <2>1 DEF Unreached, Typed
  <2> HIDE DEF m
  <2>4. command[c].missed \cup {m} \in SUBSET Node
    BY <1>2, <2>2
  <2>5. s \in CommandState /\ s.at = command[c].at /\ s.queue = command[c].queue
    <3>1. s \in CommandState
      BY <1>2, <2>4, CommandFacts
    <3> QED
      BY <3>1, <1>2 DEF CommandState
  <2> HIDE DEF s
  <2> QED
    BY <1>4, <1>7, <2>1, <2>2, <2>3, <2>5
<1>19. CASE Answer(c)
  <2>1. command[c].at = "storing" /\ chain' = [chain EXCEPT ![c] = Front(chain[c])]
        /\ UNCHANGED <<held, saved, happened>>
    BY <1>19 DEF Answer
  <2>2. chain[c] # <<>>
    BY <2>1 DEF Shape
  <2>8. Front(chain[c]) \in Seq(Handler) /\ Len(Front(chain[c])) = Len(chain[c]) - 1
    BY <1>2, <2>2, FrontFacts
  <2>9. Len(chain[c]) \in Nat
    BY <1>2, LenProperties
  <2>3. /\ Front(chain[c]) \in Seq(Handler) /\ Len(Front(chain[c])) = Len(chain[c]) - 1
        /\ Len(chain[c]) \in Nat
    BY <2>8, <2>9
  <2>4. Front(chain[c]) = <<>> <=> Len(chain[c]) = 1
    <3> DEFINE f == Front(chain[c])
    <3>1. f \in Seq(Handler) /\ Len(f) = Len(chain[c]) - 1 /\ Len(chain[c]) \in Nat
      BY <2>3
    <3> HIDE DEF f
    <3>2. f = <<>> <=> Len(f) = 0
      BY <3>1, EmptySeq
    <3> QED
      BY <3>1, <3>2 DEF f
  <2>5. happened' \subseteq Faults /\ held' \subseteq Server /\ saved' \subseteq Server
    BY <1>1, <2>1 DEF Typed
  <2>6. CASE Len(chain[c]) = 1
    <3>1. command' = [command EXCEPT ![c] = At(c, "published")]
      BY <1>19, <2>6 DEF Answer
    <3> QED
      BY <1>4, <1>7, <1>8, <2>1, <2>3, <2>4, <2>5, <2>6, <3>1
  <2>7. CASE Len(chain[c]) # 1
    <3>1. command' = [command EXCEPT ![c] = command[c]]
      BY <1>2, <1>19, <2>7 DEF Answer
    <3> QED
      BY <1>2, <1>4, <1>7, <2>1, <2>3, <2>4, <2>5, <2>7, <3>1
  <2> QED
    BY <2>6, <2>7
<1>20. CASE CallLost(c)
  <2> DEFINE missing(i) == [command[c] EXCEPT !.missed = command[c].missed \cup {chain[c][i].node}]
  <2>7. PICK i \in DOMAIN chain[c] :
          /\ chain' = [chain EXCEPT ![c] = SubSeq(@, 1, i - 1)]
          /\ command' = [command EXCEPT ![c] =
                            IF i = 1 THEN At(c, "failed")
                            ELSE [command[c] EXCEPT !.missed = @ \cup {chain[c][i].node}]]
    BY <1>20 DEF CallLost
  <2>1. /\ i \in DOMAIN chain[c]
        /\ chain' = [chain EXCEPT ![c] = SubSeq(chain[c], 1, i - 1)]
        /\ i = 1 => command' = [command EXCEPT ![c] = At(c, "failed")]
        /\ i # 1 => command' = [command EXCEPT ![c] = missing(i)]
    <3>1. chain' = [chain EXCEPT ![c] = SubSeq(chain[c], 1, i - 1)]
      BY <2>7
    <3>2. CASE i = 1
      BY <2>7, <3>1, <3>2
    <3>3. CASE i # 1
      <4>1. command' = [command EXCEPT ![c] = missing(i)]
        BY <2>7, <3>3
      <4> QED
        BY <2>7, <3>1, <3>3, <4>1
    <3> QED
      BY <3>2, <3>3
  <2>2. happened' \subseteq Faults /\ held' \subseteq Server /\ saved' \subseteq Server
    BY <1>1, <1>6, <1>20 DEF CallLost, Typed
  <2>3. /\ SubSeq(chain[c], 1, i - 1) \in Seq(Handler)
        /\ SubSeq(chain[c], 1, i - 1) = <<>> <=> i = 1
    BY <1>2, BeginningFacts
  <2>4. chain[c] # <<>> /\ chain[c][i].node \in Node /\ command[c].at = "storing"
    <3>1. chain[c] # <<>>
      BY <2>1
    <3>2. chain[c][i] \in Handler
      BY <1>2, <2>1
    <3>3. chain[c][i].node \in Node
      BY <3>2, NodeFacts DEF Handler
    <3> QED
      BY <3>1, <3>3 DEF Shape
  <2>5. CASE i = 1
    BY <1>4, <1>7, <1>8, <2>1, <2>2, <2>3, <2>5
  <2>6. CASE i # 1
    <3> DEFINE s == missing(i)
    <3>1. command[c].missed \cup {chain[c][i].node} \in SUBSET Node
      BY <1>2, <2>4
    <3>2. s \in CommandState
      BY <3>1, <1>2, CommandFacts
    <3>3. s.at = "storing"
      BY <1>2, <2>4 DEF CommandState
    <3>4. command' = [command EXCEPT ![c] = s]
      BY <2>1, <2>6
    <3> HIDE DEF s
    <3> QED
      BY <1>4, <1>7, <2>1, <2>2, <2>3, <2>6, <3>2, <3>3, <3>4
  <2> QED
    BY <2>5, <2>6
<1> QED
  BY <1>9, <1>10, <1>11, <1>12, <1>13, <1>14, <1>15, <1>17, <1>18, <1>19, <1>20 DEF Run, Query

LEMMA StepTypes == TypeOK /\ Shape /\ [Next]_vars => TypeOK' /\ Shape'
<1> SUFFICES ASSUME TypeOK, Shape, [Next]_vars
             PROVE  TypeOK' /\ Shape'
  OBVIOUS
<1>1. CASE UNCHANGED vars
  BY <1>1 DEF vars, TypeOK, Shape
<1> QED
  BY <1>1, StartTypes, KillTypes, PeerTypes, CommandTypes DEF Next

\* Every table, search, command and chain of STORE calls is well formed whatever
\* fails: a server's table never holds itself, a node twice, one in a bucket that is
\* not its own, or more of a bucket than its limit.
THEOREM TypeCorrect == Spec => []TypeOK
BY InitTypes, StepTypes, PTL DEF Spec

----------------------------------------------------------------------------
(* Copies of a published auction *)

\* What the auction needs not to be lost: a server has it in memory unless servers
\* are killed, and one has it in its file unless writes fail.
Stored ==
    /\ "kill" \notin happened => held # {}
    /\ "io" \notin happened => saved # {}

\* As long as no STORE handler of the command has stored the auction and none was
\* passed over, the running one has somebody to forward it to.
Passing ==
    \A c \in Command :
        KValue >= 2 /\ command[c].missed = {} /\ ~Stored =>
            /\ command[c].at # "published"
            /\ command[c].at = "storing" => Last(chain[c]).todo # <<>>

LEMMA LastFacts ==
    ASSUME NEW S, NEW s \in Seq(S), NEW e \in S
    PROVE  Last(Append(s, e)) = e
BY DEF Last

\* A stored auction stays stored.
LEMMA StaysStored ==
    ASSUME Tables(table), Typed, Shape, [Next]_vars, Stored
    PROVE  Stored'
<1>0. Bootstrap \in Server /\ \A n \in up : n \in Server
  BY NodeFacts DEF Typed
<1>1. CASE \E n \in Server : Kill(n)
  BY <1>1 DEF Kill, Stored
<1>2. CASE held \subseteq held' /\ saved = saved' /\ happened \subseteq happened'
  BY <1>2 DEF Stored
<1>3. ASSUME NEW c \in Command, NEW n \in Server, NEW sender, NEW calls \in Seq(Handler),
             store(c, n, sender, calls)
      PROVE  Stored'
  BY <1>3, StoreFacts DEF Stored
<1>4. CASE UNCHANGED vars
  BY <1>2, <1>4 DEF vars
<1>5. CASE \E n \in Server : Start(n)
  BY <1>2, <1>5 DEF Start
<1>6. CASE \E p \in Peer : Join(p) \/ Search(p)
  <2>1. held' = held /\ saved' = saved
    BY <1>6 DEF Join, Search, Seed, Reply, Take, Continue, Ask, AskFails
  <2>2. happened \subseteq happened'
    BY <1>6 DEF Join, Search, Seed, Reply, Take, Continue, Ask, AskFails, Reached, Unreached
  <2> QED
    BY <1>2, <2>1, <2>2
<1>7. ASSUME NEW c \in Command, Run(c)
      PROVE  Stored'
  <2>1. CASE Publish(c)
    <3> DEFINE none == <<>>
    <3>1. none \in Seq(Handler) /\ store(c, Bootstrap, c, none)
      BY <2>1 DEF Publish
    <3> HIDE DEF none
    <3> QED
      BY <1>0, <1>3, <3>1
  <2>2. CASE Forward(c)
    <3> DEFINE m == Head(Running(c).todo)
    <3>1. /\ store(c, m, Running(c).node, Forwarded(c)) /\ m \in Server
          /\ command[c].at = "storing" /\ Running(c).todo # <<>>
      BY <1>0, <2>2 DEF Forward
    <3> HIDE DEF m
    <3> QED
      BY <3>1, <1>3, ForwardedFacts
  <2>3. CASE ~ Publish(c) /\ ~ Forward(c)
    <3>1. held' = held /\ saved' = saved
      BY <1>7, <2>3 DEF Run, Begin, Query, AskValue, AskValueFails, ReplyValue, NotFound,
           PublishFails, ForwardFails, Answer, CallLost
    <3>2. happened \subseteq happened'
      BY <1>7, <2>3 DEF Run, Begin, Query, AskValue, AskValueFails, ReplyValue, NotFound,
           PublishFails, ForwardFails, Answer, CallLost, Reached, Unreached
    <3> QED
      BY <1>2, <3>1, <3>2
  <2> QED
    BY <2>1, <2>2, <2>3
<1> QED
  BY <1>1, <1>4, <1>5, <1>6, <1>7 DEF Next

\* What a STORE handler leaves when it has computed whom to forward to.
LEMMA StorePasses ==
    ASSUME Tables(table), Typed, NEW c \in Command, NEW n \in Server, NEW sender,
           NEW calls \in Seq(Handler), store(c, n, sender, calls)
    PROVE  KValue >= 2 /\ ~Stored' => Last(chain'[c]).todo # <<>>
<1>1. /\ \E h \in Handler :
             /\ h.node = n
             /\ chain' = [chain EXCEPT ![c] = Append(calls, h)]
             /\ \/ n \in held' /\ (n \in saved' \/ "io" \in happened')
                \/ KValue >= 2 => h.todo # <<>>
  BY StoreFacts
<1>2. PICK h \in Handler :
          /\ chain' = [chain EXCEPT ![c] = Append(calls, h)]
          /\ \/ n \in held' /\ (n \in saved' \/ "io" \in happened')
             \/ KValue >= 2 => h.todo # <<>>
  BY <1>1
<1>3. chain'[c] = Append(calls, h)
  BY <1>2 DEF Typed
<1>4. Last(chain'[c]) = h
  BY <1>3, LastFacts
<1>5. n \in held' /\ (n \in saved' \/ "io" \in happened') => Stored'
  BY DEF Stored
<1> QED
  BY <1>2, <1>4, <1>5

LEMMA PassingKept ==
    ASSUME TypeOK, Shape, Passing, [Next]_vars
    PROVE  Passing'
<1>1. Tables(table) /\ Typed /\ Bootstrap \in Server
  BY TypeParts, NodeFacts
<1>2. \A c \in Command : command[c] \in CommandState
  BY <1>1 DEF Typed
<1>3. Stored => Stored'
  BY <1>1, StaysStored
\* A command the step leaves alone goes on passing the auction on.
<1>4. ASSUME NEW c \in Command, command'[c] = command[c], chain'[c] = chain[c], ~Stored',
             KValue >= 2, command'[c].missed = {}
      PROVE  /\ command'[c].at # "published"
             /\ command'[c].at = "storing" => Last(chain'[c]).todo # <<>>
  BY <1>3, <1>4 DEF Passing
<1> SUFFICES ASSUME NEW c \in Command, ~Stored', KValue >= 2, command'[c].missed = {}
             PROVE  /\ command'[c].at # "published"
                    /\ command'[c].at = "storing" => Last(chain'[c]).todo # <<>>
  BY DEF Passing
<1>5. CASE UNCHANGED <<command, chain>>
  BY <1>4, <1>5
<1>6. ASSUME NEW n \in Server, Kill(n)
      PROVE  /\ command'[c].at # "published"
             /\ command'[c].at = "storing" => Last(chain'[c]).todo # <<>>
  <2>1. command'[c] = IF c \in Asking(n) \/ (c \in Chained(n) /\ chain'[c] = <<>>)
                      THEN [command[c] EXCEPT !.at = "failed", !.news = <<>>, !.value = FALSE]
                      ELSE IF c \in Chained(n)
                      THEN [command[c] EXCEPT !.missed = @ \cup {n}]
                      ELSE command[c]
    BY <1>6 DEF Kill
  <2>2. CASE c \in Asking(n) \/ (c \in Chained(n) /\ chain'[c] = <<>>)
    <3>1. command'[c].at = "failed"
      BY <1>2, <2>1, <2>2 DEF CommandState
    <3> QED
      BY <3>1
  <2>3. CASE c \notin Asking(n) /\ c \in Chained(n) /\ chain'[c] # <<>>
    <3>1. command'[c].missed = command[c].missed \cup {n}
      BY <1>2, <2>1, <2>3 DEF CommandState
    <3> QED
      BY <3>1
  <2>4. CASE c \notin Asking(n) /\ c \notin Chained(n)
    <3>1. command'[c] = command[c] /\ chain'[c] = chain[c]
      BY <1>6, <2>1, <2>4 DEF Kill
    <3> QED
      BY <1>4, <3>1
  <2> QED
    BY <2>2, <2>3, <2>4
<1>7. ASSUME NEW d \in Command, Run(d)
      PROVE  /\ command'[c].at # "published"
             /\ command'[c].at = "storing" => Last(chain'[c]).todo # <<>>
  <2>0. \A a \in {"asking", "publishing", "storing", "published", "found", "missing", "failed"} :
           At(d, a) \in CommandState /\ At(d, a).at = a /\ At(d, a).missed = command[d].missed
    BY <1>2, AtFacts
  <2>1. CASE c # d
    <3>1. command'[c] = command[c]
      BY <1>1, <1>7, <2>1 DEF Typed, Run, Begin, Query, AskValue, AskValueFails, ReplyValue, NotFound,
           Publish, PublishFails, Forward, ForwardFails, Answer, CallLost
    <3>2. chain'[c] = chain[c]
      BY <1>1, <1>7, <2>1 DEF Typed, Run, Begin, Query, AskValue, AskValueFails, ReplyValue, NotFound,
           Publish, PublishFails, Forward, ForwardFails, Answer, CallLost, store
    <3> QED
      BY <1>4, <3>1, <3>2
  <2>2. ASSUME command'[d].at \notin {"storing", "published"}, c = d
        PROVE  /\ command'[c].at # "published"
               /\ command'[c].at = "storing" => Last(chain'[c]).todo # <<>>
    BY <2>2
  <2>3. CASE c = d /\ Begin(d)
    <3>1. command'[d].at \in {"publishing", "found", "asking"}
      BY <1>1, <2>0, <2>3 DEF Begin, Obtained, Typed, CommandState
    <3> QED
      BY <2>2, <2>3, <3>1
  <2>4. CASE c = d /\ AskValue(d)
    <3>1. command'[d].at = "called"
      BY <1>1, <1>2, <2>4 DEF AskValue, Typed, CommandState
    <3> QED
      BY <2>2, <2>4, <3>1
  <2>5. CASE c = d /\ AskValueFails(d)
    <3>1. command'[d].at = "failed"
      BY <1>1, <2>0, <2>5 DEF AskValueFails, Typed
    <3> QED
      BY <2>2, <2>5, <3>1
  <2>6. CASE c = d /\ ReplyValue(d)
    <3> DEFINE q == Tail(command[d].queue)
                    \o Keep(command[d].news, Node \ ({d} \cup command[d].queried \cup ToSet(command[d].queue)))
    <3>1. \/ command'[d] = [At(d, "asking") EXCEPT !.queue = q]
          \/ \E a \in {"publishing", "found", "failed"} : command'[d] = At(d, a)
      BY <1>1, <2>6 DEF ReplyValue, Obtained, Typed
    <3> HIDE DEF q
    <3>2. command'[d].at \in {"asking", "publishing", "found", "failed"}
      BY <2>0, <3>1 DEF CommandState
    <3> QED
      BY <2>2, <2>6, <3>2
  <2>7. CASE c = d /\ NotFound(d)
    <3>1. command'[d].at = "missing"
      BY <1>1, <2>0, <2>7 DEF NotFound, Typed
    <3> QED
      BY <2>2, <2>7, <3>1
  <2>8. CASE c = d /\ Publish(d)
    <3> DEFINE none == <<>>
    <3>1. none \in Seq(Handler) /\ store(d, Bootstrap, d, none)
      BY <2>8 DEF Publish
    <3>2. command'[d].at = "storing"
      BY <1>1, <2>0, <2>8 DEF Publish, Typed
    <3> HIDE DEF none
    <3> QED
      BY <1>1, <2>8, <3>1, <3>2, StorePasses
  <2>9. CASE c = d /\ PublishFails(d)
    <3>1. command'[d].at = "failed"
      BY <1>1, <2>0, <2>9 DEF PublishFails, Typed
    <3> QED
      BY <2>2, <2>9, <3>1
  <2>10. CASE c = d /\ Forward(d)
    <3> DEFINE m == Head(Running(d).todo)
    <3>1. /\ store(d, m, Running(d).node, Forwarded(d)) /\ m \in Server /\ command' = command
          /\ command[d].at = "storing" /\ Running(d).todo # <<>>
      BY <1>1, <2>10 DEF Forward, Typed
    <3>2. Forwarded(d) \in Seq(Handler)
      BY <1>1, <3>1, ForwardedFacts
    <3> HIDE DEF m
    <3> QED
      BY <1>1, <2>10, <3>1, <3>2, StorePasses
  <2>11. CASE c = d /\ ForwardFails(d)
    <3>1. Head(Running(d).todo) \in command'[d].missed
      BY <1>1, <1>2, <2>11 DEF ForwardFails, Typed, CommandState
    <3> QED
      BY <2>11, <3>1
  <2>12. CASE c = d /\ Answer(d)
    <3>1. Last(chain[d]).todo = <<>> /\ command[d].at = "storing"
      BY <2>12 DEF Answer, Running
    <3>2. command'[d].missed = command[d].missed
      BY <1>1, <2>0, <2>12 DEF Answer, Typed
    <3>3. ~Stored
      BY <1>3
    <3> QED
      BY <2>12, <3>1, <3>2, <3>3 DEF Passing
  <2>13. CASE c = d /\ CallLost(d)
    <3>1. PICK i \in DOMAIN chain[d] :
            command' = [command EXCEPT ![d] =
                            IF i = 1 THEN At(d, "failed")
                            ELSE [command[d] EXCEPT !.missed = @ \cup {chain[d][i].node}]]
      BY <2>13 DEF CallLost
    <3>2. CASE i = 1
      BY <1>1, <2>0, <2>2, <2>13, <3>1, <3>2 DEF Typed
    <3>3. CASE i # 1
      <4>1. command'[d] = [command[d] EXCEPT !.missed = @ \cup {chain[d][i].node}]
        BY <1>1, <3>1, <3>3 DEF Typed
      <4>2. chain[d][i].node \in command'[d].missed
        BY <1>2, <4>1 DEF CommandState
      <4> QED
        BY <2>13, <4>2
    <3> QED
      BY <3>2, <3>3
  <2> QED
    BY <1>7, <2>1, <2>3, <2>4, <2>5, <2>6, <2>7, <2>8, <2>9, <2>10, <2>11, <2>12, <2>13 DEF Run, Query
<1>8. CASE \/ \E n \in Server : Start(n)
           \/ \E p \in Peer : Join(p) \/ Search(p)
  <2>1. UNCHANGED <<command, chain>>
    BY <1>8 DEF Start, Join, Search, Seed, Reply, Take, Continue, Ask, AskFails
  <2> QED
    BY <1>5, <2>1
<1>9. CASE UNCHANGED vars
  BY <1>5, <1>9 DEF vars
<1> QED
  BY <1>6, <1>7, <1>8, <1>9 DEF Next

\* A publication that was answered, with nobody passed over on the way, left a copy
\* in the memory or the file of a server, although each STORE handler that does not
\* count itself among the closest only forwards the auction.
THEOREM CopiesSurvive == Spec => []HeldIfReached
<1>1. Init => Passing
  <2> SUFFICES ASSUME Init PROVE Passing
    OBVIOUS
  <2>1. \A c \in Command : command[c].at = "start"
    BY FreshFacts
  <2> QED
    BY <2>1 DEF Passing
<1>2. Passing => HeldIfReached
  BY DEF Passing, Stored, HeldIfReached
<1>3. TypeOK /\ Shape /\ Passing /\ [Next]_vars => TypeOK' /\ Shape' /\ Passing'
  BY StepTypes, PassingKept
<1> QED
  BY <1>1, <1>2, <1>3, InitTypes, PTL DEF Spec

----------------------------------------------------------------------------
(* What a step may change *)

\* The fields of a peer's search after a step.
Moves(p, at, node, shortlist, queried, found, news) ==
    /\ lookup'[p].at = at /\ lookup'[p].node = node
    /\ lookup'[p].shortlist = shortlist /\ lookup'[p].queried = queried
    /\ lookup'[p].found = found /\ lookup'[p].news = news

\* A peer's search moves by its own steps, when it is started or killed, and when the
\* server it waits for is killed.
PeerStep(p) ==
    LET l == lookup[p] IN
    \/ lookup'[p] = l
    \/ /\ Start(p) /\ Moves(p, "joining", l.node, l.shortlist, l.queried, l.found, l.news)
       /\ lookup'[p].earlier = l.earlier
    \/ Kill(p) /\ lookup'[p] = Off
    \/ /\ l.at = "called" /\ l.node \in Server \ {p} /\ Kill(l.node)
       /\ Moves(p, "asking", l.node, l.shortlist, l.queried, l.found, <<>>)
       /\ lookup'[p].earlier = l.earlier
    \/ /\ Join(p) /\ Moves(p, "seeding", l.node, l.shortlist, l.queried, l.found, l.news)
       /\ lookup'[p].earlier = {q \in Peer \ {p} : lookup[q].at = "done"}
    \/ /\ Seed(p)
       /\ Moves(p, "asking", l.node, ToSet(get_k_closest_nodes(p, table[p], p, {})),
                l.queried, l.found, l.news)
       /\ lookup'[p].earlier = l.earlier
    \/ \E n \in l.shortlist :
          /\ Ask(p, n)
          /\ Moves(p, "called", n, l.shortlist \ {n}, l.queried \cup {n}, l.found, find_node(n, p))
          /\ lookup'[p].earlier = l.earlier
    \/ \E n \in l.shortlist :
          /\ AskFails(p, n)
          /\ Moves(p, "asking", n, l.shortlist \ {n}, l.queried \cup {n}, l.found, l.news)
          /\ lookup'[p].earlier = l.earlier
    \/ /\ Reply(p)
       /\ \/ Moves(p, "taking", l.node, l.shortlist, l.queried, l.found, News(p))
          \/ /\ Moves(p, "asking", l.node, l.shortlist, l.queried, l.found, <<>>)
             /\ "link" \in happened'
       /\ lookup'[p].earlier = l.earlier
    \/ /\ Take(p)
       /\ Moves(p, "taking", l.node, l.shortlist \cup {Head(l.news)}, l.queried,
                IF l.node \notin l.found THEN l.found \cup {Head(l.news)} ELSE l.found,
                Tail(l.news))
       /\ lookup'[p].earlier = l.earlier
    \/ /\ Continue(p)
       /\ \/ /\ l.at = "taking" /\ l.news = <<>>
             /\ Moves(p, "asking", l.node, l.shortlist, l.queried, l.found, l.news)
          \/ /\ l.at = "asking" /\ l.shortlist = {}
             /\ Moves(p, "done", l.node, l.shortlist, l.queried, l.found, l.news)
       /\ lookup'[p].earlier = l.earlier

LEMMA PeerSteps ==
    ASSUME Typed, [Next]_vars, NEW p \in Peer
    PROVE  PeerStep(p)
<1>1. lookup \in [Peer -> Lookup] /\ lookup[p] \in Lookup /\ p \in Server
  BY NodeFacts DEF Typed
<1> DEFINE l == lookup[p]
<1>2. CASE lookup'[p] = l
  BY <1>2 DEF PeerStep
<1>3. ASSUME NEW n \in Server, Start(n)
      PROVE  PeerStep(p)
  <2>1. CASE p = n
    <3>1. lookup' = [lookup EXCEPT ![p].at = "joining"]
      BY <1>3, <2>1 DEF Start
    <3>2. /\ Moves(p, "joining", l.node, l.shortlist, l.queried, l.found, l.news)
          /\ lookup'[p].earlier = l.earlier
      BY <1>1, <3>1 DEF Moves, Lookup
    <3> QED
      BY <3>2, <1>3, <2>1 DEF PeerStep
  <2>2. CASE p # n
    BY <1>1, <1>2, <1>3, <2>2 DEF Start
  <2> QED
    BY <2>1, <2>2
<1>4. ASSUME NEW n \in Server, Kill(n)
      PROVE  PeerStep(p)
  <2>1. lookup'[p] = IF p = n THEN Off
                     ELSE IF p \in Waiting(n) THEN [l EXCEPT !.at = "asking", !.news = <<>>]
                     ELSE l
    BY <1>4 DEF Kill
  <2>2. CASE p = n
    BY <2>1, <2>2, <1>4 DEF PeerStep
  <2>3. CASE p # n /\ p \in Waiting(n)
    <3>1. l.at = "called" /\ l.node = n
      BY <2>3 DEF Waiting
    <3>2. lookup'[p] = [l EXCEPT !.at = "asking", !.news = <<>>]
      BY <2>1, <2>3
    <3>3. /\ Moves(p, "asking", l.node, l.shortlist, l.queried, l.found, <<>>)
          /\ lookup'[p].earlier = l.earlier
      BY <1>1, <3>2 DEF Moves, Lookup
    <3> QED
      BY <3>1, <3>3, <2>3, <1>4 DEF PeerStep
  <2>4. CASE p # n /\ p \notin Waiting(n)
    BY <2>1, <2>4, <1>2
  <2> QED
    BY <2>2, <2>3, <2>4
<1>5. ASSUME NEW q \in Peer, Join(q) \/ Search(q), q # p
      PROVE  PeerStep(p)
  <2>1. lookup'[p] = l
    BY <1>1, <1>5 DEF Join, Search, Seed, Reply, Take, Continue, Ask, AskFails
  <2> QED
    BY <2>1, <1>2
<1>6. CASE Join(p)
  <2>1. lookup' = [lookup EXCEPT ![p].at = "seeding",
                                 ![p].earlier = {q \in Peer \ {p} : lookup[q].at = "done"}]
    BY <1>6 DEF Join
  <2>2. /\ Moves(p, "seeding", l.node, l.shortlist, l.queried, l.found, l.news)
        /\ lookup'[p].earlier = {q \in Peer \ {p} : lookup[q].at = "done"}
    BY <1>1, <2>1 DEF Moves, Lookup
  <2> QED
    BY <2>2, <1>6 DEF PeerStep
<1>7. CASE Seed(p)
  <2> DEFINE S == ToSet(get_k_closest_nodes(p, table[p], p, {}))
  <2>1. lookup' = [lookup EXCEPT ![p].at = "asking", ![p].shortlist = S]
    BY <1>7 DEF Seed
  <2> HIDE DEF S
  <2>2. /\ Moves(p, "asking", l.node, S, l.queried, l.found, l.news)
        /\ lookup'[p].earlier = l.earlier
    BY <1>1, <2>1 DEF Moves, Lookup
  <2> QED
    BY <2>2, <1>7 DEF PeerStep, S
<1>8. ASSUME NEW n \in Node, Ask(p, n)
      PROVE  PeerStep(p)
  <2> DEFINE r == find_node(n, p)
  <2>1. lookup'[p] = [Asked(p, n) EXCEPT !.at = "called", !.news = r]
    BY <1>1, <1>8 DEF Ask
  <2>2. n \in l.shortlist
    BY <1>8 DEF Ask, NextToAsk
  <2> HIDE DEF r
  <2>3. /\ Moves(p, "called", n, l.shortlist \ {n}, l.queried \cup {n}, l.found, r)
        /\ lookup'[p].earlier = l.earlier
    BY <1>1, <2>1 DEF Moves, Lookup, Asked
  <2> QED
    BY <2>2, <2>3, <1>8 DEF PeerStep, r
<1>9. ASSUME NEW n \in Node, AskFails(p, n)
      PROVE  PeerStep(p)
  <2>1. lookup'[p] = Asked(p, n)
    BY <1>1, <1>9 DEF AskFails
  <2>2. n \in l.shortlist /\ l.at = "asking"
    BY <1>9 DEF AskFails, NextToAsk
  <2>3. /\ Moves(p, "asking", n, l.shortlist \ {n}, l.queried \cup {n}, l.found, l.news)
        /\ lookup'[p].earlier = l.earlier
    BY <1>1, <2>1, <2>2 DEF Moves, Lookup, Asked
  <2> QED
    BY <2>2, <2>3, <1>9 DEF PeerStep
<1>10. CASE Reply(p)
  <2>1. CASE lookup' = [lookup EXCEPT ![p].at = "taking", ![p].news = News(p)]
    <3>1. /\ Moves(p, "taking", l.node, l.shortlist, l.queried, l.found, News(p))
          /\ lookup'[p].earlier = l.earlier
      BY <1>1, <2>1 DEF Moves, Lookup
    <3> QED
      BY <3>1, <1>10 DEF PeerStep
  <2>2. CASE lookup' = [lookup EXCEPT ![p].at = "asking", ![p].news = <<>>] /\ "link" \in happened'
    <3>1. /\ Moves(p, "asking", l.node, l.shortlist, l.queried, l.found, <<>>)
          /\ lookup'[p].earlier = l.earlier
      BY <1>1, <2>2 DEF Moves, Lookup
    <3> QED
      BY <3>1, <1>10, <2>2 DEF PeerStep
  <2> QED
    BY <1>10, <2>1, <2>2 DEF Reply
<1>11. CASE Take(p)
  <2> DEFINE m == Head(l.news)
             rest == Tail(l.news)
             kept == IF l.node \notin l.found THEN l.found \cup {m} ELSE l.found
  <2>1. lookup' = [lookup EXCEPT ![p].news = Tail(@),
                                 ![p].shortlist = @ \cup {m},
                                 ![p].found = IF l.node \notin l.found THEN @ \cup {m} ELSE @]
    BY <1>11 DEF Take
  <2>2. l.at = "taking"
    BY <1>11 DEF Take
  <2>3. /\ Moves(p, "taking", l.node, l.shortlist \cup {m}, l.queried, kept, rest)
        /\ lookup'[p].earlier = l.earlier
    <3>1. lookup'[p].news = rest
      BY <1>1, <2>1 DEF Lookup
    <3>2. lookup'[p].shortlist = l.shortlist \cup {m}
      BY <1>1, <2>1 DEF Lookup
    <3>3. lookup'[p].found = kept
      BY <1>1, <2>1 DEF Lookup
    <3>4. /\ lookup'[p].at = l.at /\ lookup'[p].node = l.node /\ lookup'[p].queried = l.queried
          /\ lookup'[p].earlier = l.earlier
      BY <1>1, <2>1 DEF Lookup
    <3> QED
      BY <3>1, <3>2, <3>3, <3>4, <2>2 DEF Moves
  <2> QED
    BY <2>3, <1>11 DEF PeerStep
<1>12. CASE Continue(p)
  <2>1. CASE l.at = "taking" /\ l.news = <<>> /\ lookup' = [lookup EXCEPT ![p].at = "asking"]
    <3>1. /\ Moves(p, "asking", l.node, l.shortlist, l.queried, l.found, l.news)
          /\ lookup'[p].earlier = l.earlier
      BY <1>1, <2>1 DEF Moves, Lookup
    <3> QED
      BY <3>1, <2>1, <1>12 DEF PeerStep
  <2>2. CASE l.at = "asking" /\ l.shortlist = {} /\ lookup' = [lookup EXCEPT ![p].at = "done"]
    <3>1. /\ Moves(p, "done", l.node, l.shortlist, l.queried, l.found, l.news)
          /\ lookup'[p].earlier = l.earlier
      BY <1>1, <2>2 DEF Moves, Lookup
    <3> QED
      BY <3>1, <2>2, <1>12 DEF PeerStep
  <2> QED
    BY <1>12, <2>1, <2>2 DEF Continue
<1>13. CASE \E c \in Command : Run(c)
  <2>1. lookup' = lookup
    BY <1>13 DEF Run, Begin, Query, AskValue, AskValueFails, ReplyValue, NotFound, Publish,
           PublishFails, Forward, ForwardFails, Answer, CallLost
  <2> QED
    BY <2>1, <1>2
<1>14. CASE UNCHANGED vars
  BY <1>2, <1>14 DEF vars
<1> QED
  BY <1>3, <1>4, <1>5, <1>6, <1>7, <1>8, <1>9, <1>10, <1>11, <1>12, <1>13, <1>14 DEF Next, Search

Inserts(s, m) == table'[s] = insert_contact(s, table[s], m)

\* A server's table changes when the server joins or takes up a node it hears of, and
\* when it has answered a search.
TableStep(s) ==
    \/ table'[s] = table[s]
    \/ s \in Peer /\ Join(s) /\ Inserts(s, Bootstrap)
    \/ /\ s \in Peer /\ Take(s)
       /\ lookup[s].at = "taking" /\ lookup[s].news # <<>>
       /\ lookup[s].node \notin lookup[s].found /\ Inserts(s, Head(lookup[s].news))
    \/ \E p \in Peer :
          /\ lookup[p].at = "called" /\ lookup[p].node = s
          /\ Reply(p) \/ Kill(p)
          /\ Inserts(s, p)
    \/ \E c \in Command :
          /\ command[c].at = "called" /\ Head(command[c].queue) = s
          /\ ReplyValue(c) /\ Inserts(s, c)

LEMMA TableSteps ==
    ASSUME TypeOK, Shape, [Next]_vars, NEW s \in Server, ~ Kill(s)
    PROVE  TableStep(s)
<1>1. Tables(table) /\ Typed
  BY TypeParts
<1>2. ASSUME NEW t, NEW m \in Node, table' = WithContact(t, m)
      PROVE  table'[s] = table[s] \/ (t = s /\ Inserts(s, m))
  BY <1>1, <1>2, WithContactFacts DEF Inserts
<1>3. CASE table' = table
  BY <1>3 DEF TableStep
<1>4. ASSUME NEW n \in Server, Kill(n)
      PROVE  TableStep(s)
  <2>1. n # s /\ n \in Node /\ s \in Node
    BY <1>4, NodeFacts
  <2>2. CASE table' = [table EXCEPT ![n] = NoContacts]
    <3>1. table'[s] = table[s]
      BY <1>1, <2>1, <2>2 DEF Tables
    <3> QED
      BY <3>1 DEF TableStep
  <2>3. CASE /\ n \in Peer /\ lookup[n].at = "called"
             /\ table' = [WithContact(lookup[n].node, n) EXCEPT ![n] = NoContacts]
    <3> DEFINE t == WithContact(lookup[n].node, n)
    <3>1. Tables(t) /\ (t[s] = table[s] \/ (lookup[n].node = s /\ t[s] = insert_contact(s, table[s], n)))
      BY <1>1, <2>1, WithContactFacts
    <3> HIDE DEF t
    <3>2. table'[s] = t[s]
      BY <3>1, <2>1, <2>3 DEF Tables, t
    <3> QED
      BY <3>1, <3>2, <2>3, <1>4 DEF TableStep, Inserts
  <2> QED
    BY <2>2, <2>3, <1>4 DEF Kill
<1>5. ASSUME NEW n \in Server, Start(n)
      PROVE  TableStep(s)
  BY <1>3, <1>5 DEF Start
<1>6. ASSUME NEW p \in Peer, Join(p) \/ Search(p)
      PROVE  TableStep(s)
  <2>0. p \in Node /\ Bootstrap \in Node
    BY NodeFacts
  <2>1. CASE Join(p)
    <3>1. table' = WithContact(p, Bootstrap)
      BY <2>1 DEF Join
    <3>2. table'[s] = table[s] \/ (p = s /\ Inserts(s, Bootstrap))
      BY <1>2, <2>0, <3>1
    <3> QED
      BY <2>1, <3>2 DEF TableStep
  <2>2. CASE Reply(p)
    <3>1. table' = WithContact(lookup[p].node, p) /\ lookup[p].at = "called"
      BY <2>2 DEF Reply
    <3> QED
      BY <3>1, <1>2, <2>0, <2>2 DEF TableStep
  <2>3. CASE Take(p)
    <3> DEFINE m == Head(lookup[p].news)
    <3>1. m \in Node
      <4>1. lookup[p].news \in Seq(Node) /\ lookup[p].news # <<>>
        BY <1>1, <2>3 DEF Take, Typed, Lookup
      <4> QED
        BY <4>1, HeadFacts
    <3>2. /\ lookup[p].at = "taking" /\ lookup[p].news # <<>>
          /\ table' = IF lookup[p].node \notin lookup[p].found THEN WithContact(p, m) ELSE table
      BY <2>3 DEF Take
    <3> HIDE DEF m
    <3>3. CASE lookup[p].node \notin lookup[p].found
      BY <1>2, <3>1, <3>2, <3>3, <2>3 DEF TableStep, m
    <3>4. CASE ~ (lookup[p].node \notin lookup[p].found)
      BY <3>2, <3>4, <1>3
    <3> QED
      BY <3>3, <3>4
  <2>4. CASE Seed(p) \/ Continue(p) \/ \E n \in Node : Ask(p, n) \/ AskFails(p, n)
    BY <2>4, <1>3 DEF Seed, Continue, Ask, AskFails
  <2> QED
    BY <1>6, <2>1, <2>2, <2>3, <2>4 DEF Search
<1>7. ASSUME NEW c \in Command, Run(c)
      PROVE  TableStep(s)
  <2>1. CASE ReplyValue(c)
    <3>1. /\ table' = WithContact(Head(command[c].queue), c) /\ command[c].at = "called"
          /\ c \in Node
      BY <2>1, NodeFacts DEF ReplyValue
    <3> QED
      BY <3>1, <1>2, <2>1 DEF TableStep
  <2>2. CASE ~ ReplyValue(c)
    <3>1. table' = table
      BY <1>7, <2>2 DEF Run, Begin, Query, AskValue, AskValueFails, NotFound, Publish,
         PublishFails, Forward, ForwardFails, Answer, CallLost
    <3> QED
      BY <3>1, <1>3
  <2> QED
    BY <2>1, <2>2
<1>8. CASE UNCHANGED vars
  BY <1>3, <1>8 DEF vars
<1> QED
  BY <1>4, <1>5, <1>6, <1>7, <1>8 DEF Next

\* Whom a server inserts is a node; what it held it holds, and whom it inserts too.
LEMMA InsertsFacts ==
    ASSUME Tables(table), NEW s \in Server, NEW m \in Node, Inserts(s, m)
    PROVE  /\ Contacts(table'[s]) \subseteq Contacts(table[s]) \cup {m}
           /\ m # s => Holds(s, table'[s], m)
           /\ \A n \in Node \ {s} : Holds(s, table[s], n) => Holds(s, table'[s], n)
<1>1. s \in Address /\ Node \in SUBSET Address /\ TableOf(s, table[s], Node)
  BY NodeFacts DEF Tables
<1> DEFINE new == insert_contact(s, table[s], m)
<1>2. /\ Contacts(new) \subseteq Contacts(table[s]) \cup {m}
      /\ m # s => m \in Contacts(new)
      /\ \A n \in Node \ {s} : Holds(s, table[s], n) => Holds(s, new, n)
  BY <1>1, InsertContactFacts
<1>3. table'[s] = new
  BY DEF Inserts
<1> HIDE DEF new
<1> QED
  BY <1>2, <1>3 DEF Holds

\* As long as a server is not killed it holds whom it holds.
LEMMA HoldsKept ==
    ASSUME TypeOK, Shape, [Next]_vars, NEW s \in Server, ~ Kill(s),
           NEW n \in Node \ {s}, Holds(s, table[s], n)
    PROVE  Holds(s, table'[s], n)
<1>1. Tables(table) /\ Typed
  BY TypeParts
<1>2. CASE table'[s] = table[s]
  BY <1>2
<1>3. ASSUME NEW m \in Node, Inserts(s, m)
      PROVE  Holds(s, table'[s], n)
  BY <1>1, <1>3, InsertsFacts
<1>4. Bootstrap \in Node /\ Peer \subseteq Node /\ Command \subseteq Node
  BY NodeFacts
<1>5. s \in Peer /\ lookup[s].news # <<>> => Head(lookup[s].news) \in Node
  <2>1. s \in Peer => lookup[s].news \in Seq(Node)
    BY <1>1 DEF Typed, Lookup
  <2> QED
    BY <2>1, HeadFacts
<1>6. TableStep(s)
  BY TableSteps
<1> QED
  BY <1>2, <1>3, <1>4, <1>5, <1>6 DEF TableStep

----------------------------------------------------------------------------
(* Who has been heard of *)

\* Nobody has node m in a table, is about to ask it or waits for it.
Unheard(m) ==
    /\ \A n \in Server : m \notin Contacts(table[n])
    /\ \A p \in Peer : /\ m \notin lookup[p].shortlist /\ m \notin ToSet(lookup[p].news)
                       /\ lookup[p].at = "called" => lookup[p].node # m
    /\ \A c \in Command : m \notin ToSet(command[c].queue) /\ m \notin ToSet(command[c].news)

\* A server's table gets an unheard node only from the node itself.
LEMMA TableHears ==
    ASSUME TypeOK, Shape, [Next]_vars, NEW m, Unheard(m), NEW s \in Server,
           m \in Contacts(table'[s])
    PROVE  \/ m = Bootstrap /\ Bootstrap \in up
           \/ m \in Peer /\ lookup[m].at = "called" /\ (Reply(m) \/ Kill(m))
           \/ m \in Command /\ command[m].at = "called"
<1>1. Tables(table) /\ Typed /\ Bootstrap \in Node /\ Peer \subseteq Node /\ Command \subseteq Node
  BY TypeParts, NodeFacts
<1>2. CASE Kill(s)
  <2>1. table'[s] = NoContacts
    <3>1. Tables(WithContact(lookup[s].node, s))
      BY <1>1, NodeFacts, WithContactFacts
    <3> QED
      BY <3>1, <1>1, <1>2 DEF Kill, Tables
  <2> QED
    BY <2>1, NoContactsFacts
<1>3. CASE ~ Kill(s)
  <2>1. m \notin Contacts(table[s])
    BY DEF Unheard
  <2>2. ASSUME NEW n \in Node, Inserts(s, n)
        PROVE  m = n
    BY <2>1, <2>2, <1>1, InsertsFacts
  <2>3. TableStep(s)
    BY <1>3, TableSteps
  <2>4. CASE s \in Peer /\ Join(s) /\ Inserts(s, Bootstrap)
    BY <2>2, <2>4, <1>1 DEF Join
  <2>5. CASE /\ s \in Peer /\ lookup[s].news # <<>> /\ Inserts(s, Head(lookup[s].news))
    <3>1. lookup[s].news \in Seq(Node)
      BY <2>5, <1>1 DEF Typed, Lookup
    <3>2. Head(lookup[s].news) \in Node /\ Head(lookup[s].news) \in ToSet(lookup[s].news)
      BY <3>1, <2>5, HeadFacts
    <3> QED
      BY <2>2, <2>5, <3>2 DEF Unheard
  <2>6. ASSUME NEW p \in Peer, lookup[p].at = "called", Reply(p) \/ Kill(p), Inserts(s, p)
        PROVE  m \in Peer /\ lookup[m].at = "called" /\ (Reply(m) \/ Kill(m))
    BY <2>2, <2>6, <1>1
  <2>7. ASSUME NEW c \in Command, command[c].at = "called", Inserts(s, c)
        PROVE  m \in Command /\ command[m].at = "called"
    BY <2>2, <2>7, <1>1
  <2> QED
    BY <2>1, <2>3, <2>4, <2>5, <2>6, <2>7 DEF TableStep
<1> QED
  BY <1>2, <1>3

\* No search comes upon an unheard node.
LEMMA SearchHears ==
    ASSUME TypeOK, Shape, [Next]_vars, NEW m, Unheard(m), NEW p \in Peer
    PROVE  /\ m \notin lookup'[p].shortlist /\ m \notin ToSet(lookup'[p].news)
           /\ lookup'[p].at = "called" => lookup'[p].node # m
<1>1. Tables(table) /\ Typed /\ lookup[p] \in Lookup /\ p \in Server /\ p \in Address
  BY TypeParts, NodeFacts DEF Typed
<1>2. /\ m \notin lookup[p].shortlist /\ m \notin ToSet(lookup[p].news)
      /\ lookup[p].at = "called" => lookup[p].node # m
      /\ \A n \in Server : m \notin Contacts(table[n])
  BY DEF Unheard
<1>3. ToSet(<<>>) = {}
  BY DEF ToSet
<1> DEFINE l == lookup[p]
<1>4. PeerStep(p)
  BY <1>1, PeerSteps
<1>5. CASE lookup'[p] = l
  BY <1>2, <1>5
<1>6. CASE \/ Moves(p, "joining", l.node, l.shortlist, l.queried, l.found, l.news)
           \/ Moves(p, "seeding", l.node, l.shortlist, l.queried, l.found, l.news)
           \/ Moves(p, "asking", l.node, l.shortlist, l.queried, l.found, l.news)
           \/ Moves(p, "asking", l.node, l.shortlist, l.queried, l.found, <<>>)
           \/ Moves(p, "done", l.node, l.shortlist, l.queried, l.found, l.news)
  BY <1>2, <1>3, <1>6 DEF Moves
<1>7. CASE lookup'[p] = Off
  BY <1>3, <1>7 DEF Off
<1>8. CASE /\ Seed(p)
           /\ Moves(p, "asking", l.node, ToSet(get_k_closest_nodes(p, table[p], p, {})),
                    l.queried, l.found, l.news)
  <2> DEFINE S == ToSet(get_k_closest_nodes(p, table[p], p, {}))
  <2>1. S \subseteq Contacts(table[p])
    BY <1>1, SeedFacts
  <2> HIDE DEF S
  <2>2. Moves(p, "asking", l.node, S, l.queried, l.found, l.news)
    BY <1>8 DEF S
  <2> QED
    BY <2>1, <2>2, <1>1, <1>2 DEF Moves
<1>9. ASSUME NEW n \in l.shortlist, Ask(p, n),
             Moves(p, "called", n, l.shortlist \ {n}, l.queried \cup {n}, l.found, find_node(n, p))
      PROVE  /\ m \notin lookup'[p].shortlist /\ m \notin ToSet(lookup'[p].news)
             /\ lookup'[p].node # m
  <2>1. n \in Server /\ n # m
    BY <1>1, <1>2, <1>9 DEF Ask, Reached, Typed
  <2>2. ToSet(find_node(n, p)) \subseteq Contacts(table[n]) \cup {n}
    BY <1>1, <2>1, ReplyFacts
  <2> QED
    BY <1>2, <1>9, <2>1, <2>2 DEF Moves
<1>10. ASSUME NEW n \in l.shortlist,
             Moves(p, "asking", n, l.shortlist \ {n}, l.queried \cup {n}, l.found, l.news)
      PROVE  /\ m \notin lookup'[p].shortlist /\ m \notin ToSet(lookup'[p].news)
             /\ lookup'[p].at # "called"
  BY <1>2, <1>10 DEF Moves
<1>11. CASE Moves(p, "taking", l.node, l.shortlist, l.queried, l.found, News(p))
  <2>1. ToSet(News(p)) \subseteq ToSet(l.news)
    <3>1. l.news \in Seq(Node)
      BY <1>1 DEF Lookup
    <3> QED
      BY <3>1, KeepFacts DEF News
  <2> QED
    BY <2>1, <1>2, <1>11 DEF Moves
<1>12. CASE /\ Take(p)
            /\ Moves(p, "taking", l.node, l.shortlist \cup {Head(l.news)}, l.queried,
                     IF l.node \notin l.found THEN l.found \cup {Head(l.news)} ELSE l.found,
                     Tail(l.news))
  <2>1. l.news \in Seq(Node) /\ l.news # <<>>
    BY <1>1, <1>12 DEF Take, Lookup
  <2>2. ToSet(l.news) = {Head(l.news)} \cup ToSet(Tail(l.news))
    BY <2>1, HeadFacts
  <2>3. /\ lookup'[p].at = "taking" /\ lookup'[p].shortlist = l.shortlist \cup {Head(l.news)}
        /\ lookup'[p].news = Tail(l.news)
    BY <1>12 DEF Moves
  <2> QED
    BY <2>2, <2>3, <1>2
<1> QED
  BY <1>4, <1>5, <1>6, <1>7, <1>8, <1>9, <1>10, <1>11, <1>12 DEF PeerStep

\* A command hears of a node only from others, but for the bootstrap node.
LEMMA CommandHears ==
    ASSUME TypeOK, Shape, [Next]_vars, NEW m, Unheard(m), NEW c \in Command,
           ~ (m = Bootstrap /\ Bootstrap \in up)
    PROVE  m \notin ToSet(command'[c].queue) /\ m \notin ToSet(command'[c].news)
<1>1. Tables(table) /\ Typed /\ AuctionKey \in Address
  BY TypeParts, NodeFacts
<1>2. /\ m \notin ToSet(command[c].queue) /\ m \notin ToSet(command[c].news)
      /\ \A n \in Server : m \notin Contacts(table[n])
  BY DEF Unheard
<1>3. ToSet(<<>>) = {} /\ ToSet(<<Bootstrap>>) = {Bootstrap}
  BY DEF ToSet
<1>4. /\ command \in [Command -> CommandState] /\ command[c] \in CommandState
      /\ command[c].queue \in Seq(Node) /\ command[c].news \in Seq(Node)
  <2>1. command \in [Command -> CommandState] /\ command[c] \in CommandState
    BY <1>1 DEF Typed
  <2> QED
    BY <2>1 DEF CommandState
<1>5. \A a \in {"asking", "publishing", "storing", "published", "found", "missing", "failed"} :
         At(c, a) \in CommandState /\ At(c, a).queue = command[c].queue /\ At(c, a).news = <<>>
  BY <1>4, AtFacts
<1>6. CASE command'[c] = command[c]
  BY <1>2, <1>6
<1>7. CASE \E a \in {"asking", "publishing", "storing", "published", "found", "missing", "failed"} :
              command'[c] = At(c, a)
  BY <1>2, <1>3, <1>5, <1>7
<1>8. ASSUME NEW S, command'[c] = [command[c] EXCEPT !.missed = S]
      PROVE  m \notin ToSet(command'[c].queue) /\ m \notin ToSet(command'[c].news)
  <2>1. command'[c].queue = command[c].queue /\ command'[c].news = command[c].news
    BY <1>4, <1>8 DEF CommandState
  <2> QED
    BY <1>2, <2>1
<1>9. ASSUME NEW n \in Server, Kill(n)
      PROVE  m \notin ToSet(command'[c].queue) /\ m \notin ToSet(command'[c].news)
  <2>1. \/ command'[c] = [command[c] EXCEPT !.at = "failed", !.news = <<>>, !.value = FALSE]
        \/ command'[c] = [command[c] EXCEPT !.missed = @ \cup {n}]
        \/ command'[c] = command[c]
    BY <1>9 DEF Kill
  <2>2. CASE command'[c] = [command[c] EXCEPT !.at = "failed", !.news = <<>>, !.value = FALSE]
    <3>1. command'[c].queue = command[c].queue /\ command'[c].news = <<>>
      BY <1>4, <2>2 DEF CommandState
    <3> QED
      BY <1>2, <1>3, <3>1
  <2> QED
    BY <2>1, <2>2, <1>6, <1>8
<1>10. ASSUME NEW d \in Command, Run(d), c # d
       PROVE  command'[c] = command[c]
  BY <1>4, <1>10 DEF Run, Begin, Query, AskValue, AskValueFails, ReplyValue, NotFound,
           Publish, PublishFails, Forward, ForwardFails, Answer, CallLost
<1>11. CASE Begin(c)
  <2>1. CASE command'[c] = [At(c, "asking") EXCEPT !.queue = <<Bootstrap>>]
    <3>1. command'[c].queue = <<Bootstrap>> /\ command'[c].news = <<>>
      BY <1>5, <2>1 DEF CommandState
    <3>2. Bootstrap \in up
      BY <1>11 DEF Begin
    <3> QED
      BY <1>3, <3>1, <3>2
  <2>2. \/ \E a \in {"publishing", "found"} : command'[c] = At(c, a)
        \/ command'[c] = [At(c, "asking") EXCEPT !.queue = <<Bootstrap>>]
    BY <1>4, <1>11 DEF Begin, Obtained
  <2> QED
    BY <2>1, <2>2, <1>7
<1>12. CASE AskValue(c)
  <2> DEFINE n == Head(command[c].queue)
             news == IF n \in held THEN <<>> ELSE ClosestTo(n, AuctionKey)
  <2>1. n \in Server /\ n # m
    <3>1. n \in ToSet(command[c].queue)
      BY <1>4, <1>12, HeadFacts DEF AskValue
    <3> QED
      BY <3>1, <1>1, <1>2, <1>12 DEF AskValue, Reached, Typed
  <2>2. command' = [command EXCEPT ![c].at = "called", ![c].queried = @ \cup {n},
                                   ![c].value = n \in held, ![c].news = news]
    BY <1>12 DEF AskValue
  <2>3. m \notin ToSet(news)
    <3>1. ToSet(ClosestTo(n, AuctionKey)) \subseteq Contacts(table[n]) \cup {n}
      BY <1>1, <2>1, ReplyFacts
    <3> QED
      BY <3>1, <2>1, <1>2, <1>3
  <2> HIDE DEF news, n
  <2>4. command'[c].queue = command[c].queue /\ command'[c].news = news
    BY <1>4, <2>2 DEF CommandState
  <2> QED
    BY <2>3, <2>4, <1>2
<1>13. CASE ReplyValue(c)
  <2> DEFINE new == Node \ ({c} \cup command[c].queried \cup ToSet(command[c].queue))
             rest == Tail(command[c].queue)
             add == Keep(command[c].news, new)
  <2>1. \/ command'[c] = [At(c, "asking") EXCEPT !.queue = rest \o add]
        \/ \E a \in {"publishing", "found", "failed"} : command'[c] = At(c, a)
    BY <1>4, <1>13 DEF ReplyValue, Obtained
  <2>2. command[c].queue # <<>>
    BY <1>13 DEF ReplyValue, Shape
  <2>3. /\ rest \in Seq(Node) /\ add \in Seq(Node)
        /\ m \notin ToSet(rest) /\ m \notin ToSet(add)
    BY <1>2, <1>4, <2>2, HeadFacts, KeepFacts
  <2> HIDE DEF rest, add
  <2>4. m \notin ToSet(rest \o add)
    BY <2>3, ConcatFacts
  <2>5. CASE command'[c] = [At(c, "asking") EXCEPT !.queue = rest \o add]
    <3>1. command'[c].queue = rest \o add /\ command'[c].news = <<>>
      BY <1>5, <2>5 DEF CommandState
    <3> QED
      BY <1>3, <2>4, <3>1
  <2> QED
    BY <2>1, <2>5, <1>7
<1>14. CASE AskValueFails(c) \/ NotFound(c) \/ Publish(c) \/ PublishFails(c)
  <2>1. \E a \in {"failed", "missing", "storing"} : command'[c] = At(c, a)
    BY <1>4, <1>14 DEF AskValueFails, NotFound, Publish, PublishFails
  <2> QED
    BY <2>1, <1>7
<1>15. CASE Forward(c)
  BY <1>6, <1>15 DEF Forward
<1>16. CASE ForwardFails(c)
  <2>1. command'[c] = [command[c] EXCEPT !.missed = @ \cup {Head(Running(c).todo)}]
    BY <1>4, <1>16 DEF ForwardFails
  <2> QED
    BY <2>1, <1>8
<1>17. CASE Answer(c)
  <2>1. command'[c] = At(c, "published") \/ command'[c] = command[c]
    BY <1>4, <1>17 DEF Answer
  <2> QED
    BY <2>1, <1>6, <1>7
<1>18. CASE CallLost(c)
  <2>1. PICK i \in DOMAIN chain[c] :
            command' = [command EXCEPT ![c] =
                            IF i = 1 THEN At(c, "failed")
                            ELSE [command[c] EXCEPT !.missed = @ \cup {chain[c][i].node}]]
    BY <1>18 DEF CallLost
  <2>2. \/ command'[c] = At(c, "failed")
        \/ command'[c] = [command[c] EXCEPT !.missed = @ \cup {chain[c][i].node}]
    BY <1>4, <2>1
  <2> QED
    BY <2>2, <1>7, <1>8
<1>19. CASE \/ \E n \in Server : Start(n)
            \/ \E p \in Peer : Join(p) \/ Search(p)
            \/ UNCHANGED vars
  <2>1. command' = command
    BY <1>19 DEF Start, Join, Search, Seed, Reply, Take, Continue, Ask, AskFails, vars
  <2> QED
    BY <2>1, <1>6
<1> QED
  BY <1>6, <1>9, <1>10, <1>11, <1>12, <1>13, <1>14, <1>15, <1>16, <1>17, <1>18, <1>19
  DEF Next, Run, Query

\* A node is first heard of when it joins or asks somebody itself, the bootstrap node
\* when somebody joins.
LEMMA Hears ==
    ASSUME TypeOK, Shape, [Next]_vars, NEW m, Unheard(m)
    PROVE  \/ Unheard(m)'
           \/ m = Bootstrap /\ Bootstrap \in up
           \/ m \in Peer /\ lookup[m].at = "called" /\ (Reply(m) \/ Kill(m))
           \/ m \in Command /\ command[m].at = "called"
BY TableHears, SearchHears, CommandHears DEF Unheard

----------------------------------------------------------------------------
(* Processes *)

\* A server's process starts, ends or goes on, and what has happened stays so.
LEMMA ProcessSteps ==
    ASSUME Typed, [Next]_vars, NEW n \in Server
    PROVE  /\ happened \subseteq happened'
           /\ \/ Start(n) /\ n \notin up /\ n \in up' /\ starts'[n] = starts[n] + 1
              \/ Kill(n) /\ n \in up /\ n \notin up' /\ starts'[n] = starts[n] /\ "kill" \in happened'
              \/ ~ Kill(n) /\ (n \in up' <=> n \in up) /\ starts'[n] = starts[n]
<1>1. starts \in [Server -> Nat]
  BY DEF Typed
<1>2. CASE Start(n)
  BY <1>1, <1>2 DEF Start
<1>3. CASE Kill(n)
  BY <1>3 DEF Kill
<1>4. ASSUME NEW m \in Server, Start(m) \/ Kill(m), m # n
      PROVE  happened \subseteq happened' /\ (n \in up' <=> n \in up) /\ starts'[n] = starts[n]
  BY <1>1, <1>4 DEF Start, Kill
<1>5. ASSUME NEW p \in Peer, Join(p) \/ Search(p)
      PROVE  happened \subseteq happened' /\ up' = up /\ starts' = starts
  <2>1. up' = up /\ starts' = starts
    BY <1>5 DEF Join, Search, Seed, Reply, Take, Continue, Ask, AskFails
  <2>2. happened \subseteq happened'
    BY <1>5 DEF Join, Search, Seed, Reply, Take, Continue, Ask, AskFails, Reached, Unreached
  <2> QED
    BY <2>1, <2>2
<1>6. ASSUME NEW c \in Command, Run(c)
      PROVE  happened \subseteq happened' /\ up' = up /\ starts' = starts
  <2>1. up' = up /\ starts' = starts
    BY <1>6 DEF Run, Begin, Query, AskValue, AskValueFails, ReplyValue, NotFound, Publish,
         PublishFails, Forward, ForwardFails, Answer, CallLost
  <2>2. happened \subseteq happened'
    BY <1>6 DEF Run, Begin, Query, AskValue, AskValueFails, ReplyValue, NotFound, Publish,
         PublishFails, Forward, ForwardFails, Answer, CallLost, Reached, Unreached, store
  <2> QED
    BY <2>1, <2>2
<1>7. ASSUME UNCHANGED vars
      PROVE  happened' = happened /\ up' = up /\ starts' = starts
  BY <1>7 DEF vars
<1>8. CASE ~ Start(n) /\ ~ Kill(n)
  BY <1>4, <1>5, <1>6, <1>7, <1>8 DEF Next
<1> QED
  BY <1>2, <1>3, <1>8

\* The peers that run are those whose search is not off, and who runs was started.
Awake ==
    /\ \A p \in Peer : lookup[p].at = "off" <=> p \notin up
    /\ \A n \in up : starts[n] >= 1

LEMMA AwakeKept ==
    ASSUME TypeOK, Shape, [Next]_vars, Awake
    PROVE  Awake'
<1>1. Typed /\ Peer \subseteq Server /\ starts \in [Server -> Nat] /\ up \subseteq Server
  BY TypeParts, NodeFacts DEF Typed
<1>2. ASSUME NEW p \in Peer
      PROVE  lookup'[p].at = "off" <=> p \notin up'
  <2>0. p \in Server
    BY <1>1
  <2>1. PeerStep(p)
    BY <1>1, PeerSteps
  <2>2. /\ lookup[p].at = "off" <=> p \notin up
        /\ \/ Start(p) /\ p \in up'
           \/ Kill(p) /\ p \notin up'
           \/ ~ Kill(p) /\ (p \in up' <=> p \in up)
    BY <1>1, <2>0, ProcessSteps DEF Awake
  <2>3. CASE Start(p)
    <3>1. lookup' = [lookup EXCEPT ![p].at = "joining"] /\ p \in up'
      BY <2>3 DEF Start
    <3>2. lookup'[p].at = "joining"
      BY <3>1, <1>1 DEF Typed, Lookup
    <3> QED
      BY <3>1, <3>2
  <2>4. CASE Kill(p)
    <3>1. lookup'[p] = Off /\ p \notin up'
      BY <2>4 DEF Kill
    <3> QED
      BY <3>1 DEF Off
  <2>5. CASE ~ Start(p) /\ ~ Kill(p)
    <3>1. p \in up' <=> p \in up
      BY <2>2, <2>5
    <3>2. lookup'[p].at = "off" <=> lookup[p].at = "off"
      BY <2>1, <2>5 DEF PeerStep, Moves, Join, Seed, Ask, AskFails, NextToAsk, Reply, Take, Continue
    <3> QED
      BY <3>1, <3>2, <2>2
  <2> QED
    BY <2>3, <2>4, <2>5
<1>3. ASSUME NEW n \in up'
      PROVE  starts'[n] >= 1
  <2>1. n \in Server
    <3>1. TypeOK'
      BY StepTypes
    <3> QED
      BY <3>1 DEF TypeOK
  <2>2. starts[n] \in Nat /\ (n \in up => starts[n] >= 1)
    BY <1>1, <2>1 DEF Awake
  <2>3. \/ starts'[n] = starts[n] + 1
        \/ n \notin up'
        \/ n \in up /\ starts'[n] = starts[n]
    BY <1>1, <2>1, ProcessSteps
  <2> QED
    BY <2>2, <2>3
<1> QED
  BY <1>2, <1>3 DEF Awake

----------------------------------------------------------------------------
(* Peers and the bootstrap node *)

\* The bootstrap node has not ended, no connection has failed, and whoever searches
\* asks somebody.
Steady ==
    /\ starts[Bootstrap] <= 1 /\ (starts[Bootstrap] >= 1 => Bootstrap \in up)
    /\ "link" \notin happened /\ KValue > 0

\* The bootstrap node is still the only one that peer p can turn to.
Unmet(p) ==
    /\ Unheard(p)
    /\ \/ lookup[p].at \in {"off", "joining"} /\ Contacts(table[p]) = {}
       \/ lookup[p].at = "seeding" /\ Contacts(table[p]) = {Bootstrap}
       \/ lookup[p].at = "asking" /\ lookup[p].shortlist = {Bootstrap}
       \/ lookup[p].at = "called" /\ lookup[p].node = Bootstrap

\* Until something fails the bootstrap node holds every peer that has got beyond it.
Introduced ==
    Steady => \A p \in Peer :
        /\ lookup[p].at \notin {"off", "joining"} => Bootstrap \in up
        /\ Holds(Bootstrap, table[Bootstrap], p) \/ Unmet(p)

LEMMA StaysSteady ==
    ASSUME TypeOK, Awake, [Next]_vars, Steady'
    PROVE  Steady /\ ~ Kill(Bootstrap)
<1>1. Typed /\ Bootstrap \in Server /\ starts[Bootstrap] \in Nat
  BY TypeParts, NodeFacts DEF Typed
<1>2. /\ happened \subseteq happened'
      /\ \/ Bootstrap \notin up /\ Bootstrap \in up' /\ starts'[Bootstrap] = starts[Bootstrap] + 1
         \/ /\ Kill(Bootstrap) /\ Bootstrap \in up /\ Bootstrap \notin up'
            /\ starts'[Bootstrap] = starts[Bootstrap]
         \/ /\ ~ Kill(Bootstrap) /\ (Bootstrap \in up' <=> Bootstrap \in up)
            /\ starts'[Bootstrap] = starts[Bootstrap]
  BY <1>1, ProcessSteps
<1>3. /\ starts'[Bootstrap] <= 1 /\ (starts'[Bootstrap] >= 1 => Bootstrap \in up')
      /\ "link" \notin happened' /\ KValue > 0
  BY DEF Steady
<1>4. Bootstrap \in up => starts[Bootstrap] >= 1
  BY DEF Awake
<1>5. Kill(Bootstrap) => Bootstrap \in up /\ Bootstrap \notin up' /\ starts'[Bootstrap] = starts[Bootstrap]
  BY <1>1 DEF Kill
<1> QED
  BY <1>1, <1>2, <1>3, <1>4, <1>5 DEF Steady

\* The table of an unheard peer is changed by the peer itself only.
LEMMA UnheardTable ==
    ASSUME TypeOK, Shape, [Next]_vars, NEW p \in Peer, Unheard(p)
    PROVE  \/ Kill(p) \/ table'[p] = table[p]
           \/ Join(p) /\ Inserts(p, Bootstrap)
           \/ Take(p) /\ lookup[p].at = "taking"
<1>1. p \in Server
  BY NodeFacts
<1>2. \A c \in Command : command[c].at = "called" => Head(command[c].queue) # p
  <2> SUFFICES ASSUME NEW c \in Command, command[c].at = "called"
               PROVE  Head(command[c].queue) # p
    OBVIOUS
  <2>1. command[c].queue \in Seq(Node) /\ command[c].queue # <<>>
    <3>1. command[c] \in CommandState
      BY TypeParts DEF Typed
    <3> QED
      BY <3>1 DEF Shape, CommandState
  <2>2. Head(command[c].queue) \in ToSet(command[c].queue)
    BY <2>1, HeadFacts
  <2> QED
    BY <2>2 DEF Unheard
<1>3. \A q \in Peer : lookup[q].at = "called" => lookup[q].node # p
  BY DEF Unheard
<1> QED
  BY <1>1, <1>2, <1>3, TableSteps DEF TableStep

\* Until the bootstrap node's handler has inserted it a peer has nobody else to turn to.
LEMMA UnmetKept ==
    ASSUME TypeOK, Shape, Awake, [Next]_vars, Steady', NEW p \in Peer, Unmet(p),
           lookup[p].at \notin {"off", "joining"} => Bootstrap \in up,
           ~ (lookup[p].at = "called" /\ (Reply(p) \/ Kill(p)))
    PROVE  Unmet(p)'
<1>11. /\ Tables(table) /\ Typed /\ p \in Server /\ p \in Node \ {Bootstrap} /\ Bootstrap \in Server
       /\ Bootstrap \in Node \ {p} /\ lookup[p] \in Lookup
  BY TypeParts, NodeFacts DEF Typed
<1>12. Steady /\ ~ Kill(Bootstrap) /\ "link" \notin happened' /\ KValue > 0
  BY StaysSteady DEF Steady
<1>1. Unheard(p)'
  <2>1. Unheard(p) /\ p # Bootstrap /\ p \notin Command
    BY NodeFacts DEF Unmet
  <2> QED
    BY <2>1, Hears
<1>2. PeerStep(p)
  BY <1>11, PeerSteps
<1>3. \/ Kill(p) \/ table'[p] = table[p]
      \/ Join(p) /\ Inserts(p, Bootstrap)
      \/ Take(p) /\ lookup[p].at = "taking"
  BY UnheardTable DEF Unmet
<1> DEFINE l == lookup[p]
<1>4. \/ l.at \in {"off", "joining"} /\ Contacts(table[p]) = {}
      \/ l.at = "seeding" /\ Contacts(table[p]) = {Bootstrap}
      \/ l.at = "asking" /\ l.shortlist = {Bootstrap}
      \/ l.at = "called" /\ l.node = Bootstrap
  BY DEF Unmet
<1> SUFFICES \/ lookup'[p].at \in {"off", "joining"} /\ Contacts(table'[p]) = {}
             \/ lookup'[p].at = "seeding" /\ Contacts(table'[p]) = {Bootstrap}
             \/ lookup'[p].at = "asking" /\ lookup'[p].shortlist = {Bootstrap}
             \/ lookup'[p].at = "called" /\ lookup'[p].node = Bootstrap
  BY <1>1 DEF Unmet
<1>5. CASE Kill(p)
  <2>1. lookup'[p].at = "off"
    BY <1>5 DEF Kill, Off
  <2>2. table'[p] = NoContacts
    BY <1>11, <1>5 DEF Kill, Tables
  <2> QED
    BY <2>1, <2>2, NoContactsFacts
<1>6. CASE Join(p)
  <2>1. l.at = "joining" /\ Contacts(table[p]) = {}
    BY <1>4, <1>6 DEF Join
  <2>2. lookup' = [lookup EXCEPT ![p].at = "seeding",
                                 ![p].earlier = {q \in Peer \ {p} : lookup[q].at = "done"}]
    BY <1>6 DEF Join
  <2>3. lookup'[p].at = "seeding"
    BY <1>11, <2>2 DEF Typed, Lookup
  <2>4. table'[p] = insert_contact(p, table[p], Bootstrap)
    <3>1. table' = WithContact(p, Bootstrap)
      BY <1>6 DEF Join
    <3> QED
      BY <1>11, <3>1, WithContactFacts
  <2>5. TableOf(p, table[p], Node) /\ p \in Address /\ Node \in SUBSET Address /\ Bootstrap \in Node
    BY <1>11, NodeFacts DEF Tables
  <2>6. Contacts(table'[p]) = {Bootstrap}
    <3> DEFINE new == insert_contact(p, table[p], Bootstrap)
    <3>1. Contacts(new) \subseteq Contacts(table[p]) \cup {Bootstrap} /\ Bootstrap \in Contacts(new)
      BY <2>5, <1>11, InsertContactFacts
    <3> HIDE DEF new
    <3> QED
      BY <3>1, <2>1, <2>4 DEF new
  <2> QED
    BY <2>3, <2>6
<1>7. CASE Seed(p)
  <2> DEFINE S == ToSet(get_k_closest_nodes(p, table[p], p, {}))
  <2>1. l.at = "seeding" /\ Contacts(table[p]) = {Bootstrap}
    BY <1>4, <1>7 DEF Seed
  <2>2. S = {Bootstrap}
    BY <1>11, <1>12, <2>1, SeedFacts
  <2> HIDE DEF S
  <2>3. lookup' = [lookup EXCEPT ![p].at = "asking", ![p].shortlist = S]
    BY <1>7 DEF Seed, S
  <2>4. lookup'[p].at = "asking" /\ lookup'[p].shortlist = S
    BY <1>11, <2>3 DEF Typed, Lookup
  <2> QED
    BY <2>2, <2>4
<1>8. ASSUME NEW n \in l.shortlist, Ask(p, n), lookup'[p].at = "called", lookup'[p].node = n
      PROVE  lookup'[p].node = Bootstrap
  BY <1>4, <1>8 DEF Ask, NextToAsk
<1>9. ASSUME NEW n \in l.shortlist, AskFails(p, n)
      PROVE  FALSE
  <2>1. n = Bootstrap /\ l.at = "asking"
    BY <1>4, <1>9 DEF AskFails, NextToAsk
  <2> QED
    BY <1>12, <1>9, <2>1 DEF AskFails, Unreached
<1>10. CASE ~ Kill(p) /\ ~ Join(p) /\ ~ Seed(p)
  <2>1. ~ Reply(p) /\ ~ Take(p)
    BY <1>4 DEF Reply, Take
  <2>2. ~ Continue(p)
    BY <1>4 DEF Continue
  <2>3. table'[p] = table[p]
    BY <1>3, <1>10, <2>1
  <2>4. ~ (l.at = "called" /\ Kill(l.node))
    BY <1>12, <1>4
  <2>5. CASE lookup'[p] = l
    BY <2>5, <2>3, <1>4
  <2>6. CASE Start(p) /\ Moves(p, "joining", l.node, l.shortlist, l.queried, l.found, l.news)
    <3>1. p \notin up
      BY <2>6 DEF Start
    <3>2. l.at = "off" /\ lookup'[p].at = "joining"
      BY <3>1, <2>6 DEF Awake, Moves
    <3> QED
      BY <3>2, <1>4, <2>3
  <2> QED
    BY <1>2, <1>8, <1>9, <1>10, <2>1, <2>2, <2>4, <2>5, <2>6 DEF PeerStep, Moves
<1> QED
  BY <1>5, <1>6, <1>7, <1>10

LEMMA IntroducedKept ==
    ASSUME TypeOK, Shape, Awake, Introduced, [Next]_vars, Steady', NEW p \in Peer
    PROVE  /\ lookup'[p].at \notin {"off", "joining"} => Bootstrap \in up'
           /\ Holds(Bootstrap, table'[Bootstrap], p) \/ Unmet(p)'
<1>1. /\ Tables(table) /\ Typed /\ p \in Server /\ p \in Node \ {Bootstrap} /\ Bootstrap \in Server
      /\ Bootstrap \in Node \ {p} /\ lookup[p] \in Lookup
  BY TypeParts, NodeFacts DEF Typed
<1>2. Steady /\ ~ Kill(Bootstrap) /\ "link" \notin happened' /\ KValue > 0
  BY StaysSteady DEF Steady
<1>3. Bootstrap \in up => Bootstrap \in up'
  BY <1>1, <1>2, ProcessSteps
<1>4. lookup[p].at \notin {"off", "joining"} => Bootstrap \in up
  BY <1>2 DEF Introduced
<1>5. lookup'[p].at \notin {"off", "joining"} => Bootstrap \in up'
  <2>1. CASE lookup[p].at \notin {"off", "joining"}
    BY <2>1, <1>3, <1>4
  <2>2. CASE Join(p)
    BY <2>2, <1>3 DEF Join
  <2>3. CASE lookup[p].at \in {"off", "joining"} /\ ~ Join(p)
    <3>1. PeerStep(p)
      BY <1>1, PeerSteps
    <3>2. ~ Seed(p) /\ ~ Reply(p) /\ ~ Take(p) /\ ~ Continue(p)
      BY <2>3 DEF Seed, Reply, Take, Continue
    <3>3. \A n : ~ Ask(p, n) /\ ~ AskFails(p, n)
      BY <2>3 DEF Ask, AskFails, NextToAsk
    <3>4. lookup'[p].at \in {"off", "joining"}
      BY <3>1, <3>2, <3>3, <2>3 DEF PeerStep, Moves, Off
    <3> QED
      BY <3>4
  <2> QED
    BY <2>1, <2>2, <2>3
<1>6. CASE Holds(Bootstrap, table[Bootstrap], p)
  BY <1>1, <1>2, <1>5, <1>6, HoldsKept
\* The bootstrap node's handler inserts a peer that has called it.
<1>7. CASE lookup[p].at = "called" /\ lookup[p].node = Bootstrap /\ (Reply(p) \/ Kill(p))
  <2>1. Tables(WithContact(Bootstrap, p))
        /\ WithContact(Bootstrap, p)[Bootstrap] = insert_contact(Bootstrap, table[Bootstrap], p)
    BY <1>1, WithContactFacts
  <2>2. table'[Bootstrap] = WithContact(Bootstrap, p)[Bootstrap]
    BY <1>1, <1>7, <2>1 DEF Reply, Kill, Tables
  <2>3. Inserts(Bootstrap, p)
    BY <2>1, <2>2 DEF Inserts
  <2>4. Holds(Bootstrap, table'[Bootstrap], p)
    BY <1>1, <2>3, InsertsFacts
  <2> QED
    BY <2>4, <1>5
<1>8. CASE Unmet(p) /\ ~ (lookup[p].at = "called" /\ (Reply(p) \/ Kill(p)))
  BY <1>4, <1>5, <1>8, UnmetKept
<1> QED
  <2>1. Holds(Bootstrap, table[Bootstrap], p) \/ Unmet(p)
    BY <1>2 DEF Introduced
  <2>2. Unmet(p) /\ lookup[p].at = "called" => lookup[p].node = Bootstrap
    BY DEF Unmet
  <2> QED
    BY <1>6, <1>7, <1>8, <2>1, <2>2

LEMMA InitAwake == Init => Awake /\ \A p \in Peer : Unmet(p)
<1> SUFFICES ASSUME Init
             PROVE  Awake /\ \A p \in Peer : Unmet(p)
  OBVIOUS
<1>1. \A p \in Peer : lookup[p] = Off
  BY DEF Init
<1>2. Awake
  BY <1>1 DEF Init, Awake, Off
<1>3. \A n \in Server : Contacts(table[n]) = {}
  BY NoContactsFacts DEF Init
<1>4. ToSet(<<>>) = {}
  BY DEF ToSet
<1>7. \A c \in Command : command[c].queue = <<>> /\ command[c].news = <<>>
  BY FreshFacts
<1>8. \A p \in Peer : lookup[p].shortlist = {} /\ lookup[p].news = <<>> /\ lookup[p].at = "off"
  BY <1>1 DEF Off
<1>9. \A p \in Peer : Unheard(p)
  BY <1>3, <1>4, <1>7, <1>8 DEF Unheard
<1> QED
  BY <1>2, <1>3, <1>8, <1>9, NodeFacts DEF Unmet

\* Until a connection fails the bootstrap node, unless it was restarted itself, knows
\* every peer whose search has ended, also one that was killed on the way and
\* started again: nobody hears of a peer before the bootstrap node has inserted it,
\* so the peer cannot have asked around it.
THEOREM BootstrapKnows == Spec => []KnownToBootstrap
<1>1. Init => Introduced
  BY InitAwake DEF Introduced, Init, Off
<1>2. TypeOK /\ Shape /\ Awake /\ Introduced /\ [Next]_vars
      => TypeOK' /\ Shape' /\ Awake' /\ Introduced'
  <2> SUFFICES ASSUME TypeOK, Shape, Awake, Introduced, [Next]_vars
               PROVE  TypeOK' /\ Shape' /\ Awake' /\ Introduced'
    OBVIOUS
  <2>1. TypeOK' /\ Shape' /\ Awake'
    BY StepTypes, AwakeKept
  <2>2. Introduced'
    <3>1. Steady' => \A p \in Peer :
              /\ lookup'[p].at \notin {"off", "joining"} => Bootstrap \in up'
              /\ Holds(Bootstrap, table'[Bootstrap], p) \/ Unmet(p)'
      BY IntroducedKept
    <3> QED
      BY <3>1 DEF Introduced, Holds, Unmet, Unheard
  <2> QED
    BY <2>1, <2>2
<1>3. Introduced => KnownToBootstrap
  <2> SUFFICES ASSUME Introduced, NEW p \in Peer, lookup[p].at = "done", "link" \notin happened,
                      KValue > 0, Bootstrap \in up, starts[Bootstrap] = 1
               PROVE  Knows(Bootstrap, p)
    BY DEF KnownToBootstrap
  <2>1. Steady
    BY DEF Steady
  <2>2. ~ Unmet(p)
    BY DEF Unmet
  <2> QED
    BY <2>1, <2>2 DEF Introduced, Holds, Knows
<1> QED
  BY <1>1, <1>2, <1>3, InitTypes, InitAwake, PTL DEF Spec

----------------------------------------------------------------------------
(* Peers and those they ask *)

Faultless == happened \cap {"kill", "link"} = {}

LEMMA StaysFaultless ==
    ASSUME TypeOK, [Next]_vars, Faultless'
    PROVE  /\ Faultless /\ "kill" \notin happened' /\ "link" \notin happened'
           /\ \A n \in Server : ~ Kill(n)
           /\ \A n \in up : n \in up'
<1>1. Typed /\ up \subseteq Server /\ Bootstrap \in Server
  BY TypeParts, NodeFacts DEF Typed
<1>2. happened \subseteq happened'
  BY <1>1, ProcessSteps
<1>3. "kill" \notin happened' /\ "link" \notin happened'
  BY DEF Faultless
<1>4. \A n \in Server : ~ Kill(n)
  BY <1>3 DEF Kill
<1>5. \A n \in up : n \in up'
  BY <1>1, <1>4, ProcessSteps
<1> QED
  BY <1>2, <1>3, <1>4, <1>5 DEF Faultless

\* No peer asks itself or takes itself up.
NotItself ==
    \A p \in Peer :
        /\ p \notin lookup[p].shortlist /\ p \notin lookup[p].found /\ p \notin lookup[p].queried
        /\ lookup[p].at = "taking" => p \notin ToSet(lookup[p].news)

LEMMA NotItselfKept ==
    ASSUME TypeOK, Shape, NotItself, [Next]_vars
    PROVE  NotItself'
<1> SUFFICES ASSUME NEW p \in Peer
             PROVE  /\ p \notin lookup'[p].shortlist /\ p \notin lookup'[p].found
                    /\ p \notin lookup'[p].queried
                    /\ lookup'[p].at = "taking" => p \notin ToSet(lookup'[p].news)
  BY DEF NotItself
<1> DEFINE l == lookup[p]
<1>1. /\ Tables(table) /\ Typed /\ l \in Lookup /\ l.news \in Seq(Node)
      /\ p \in Server /\ p \in Address /\ Node \in SUBSET Address
  <2>1. Typed /\ Tables(table) /\ l \in Lookup
    BY TypeParts DEF Typed
  <2> QED
    BY <2>1, NodeFacts DEF Lookup
<1>2. /\ p \notin l.shortlist /\ p \notin l.found /\ p \notin l.queried
      /\ l.at = "taking" => p \notin ToSet(l.news)
  BY DEF NotItself
<1>3. PeerStep(p)
  BY <1>1, PeerSteps
<1>4. CASE \/ lookup'[p] = l
           \/ lookup'[p] = Off
           \/ Moves(p, "joining", l.node, l.shortlist, l.queried, l.found, l.news)
           \/ Moves(p, "seeding", l.node, l.shortlist, l.queried, l.found, l.news)
           \/ Moves(p, "asking", l.node, l.shortlist, l.queried, l.found, l.news)
           \/ Moves(p, "asking", l.node, l.shortlist, l.queried, l.found, <<>>)
           \/ Moves(p, "done", l.node, l.shortlist, l.queried, l.found, l.news)
           \/ \E n \in l.shortlist :
                 \/ Moves(p, "called", n, l.shortlist \ {n}, l.queried \cup {n}, l.found, find_node(n, p))
                 \/ Moves(p, "asking", n, l.shortlist \ {n}, l.queried \cup {n}, l.found, l.news)
  BY <1>2, <1>4 DEF Moves, Off
<1>5. CASE Moves(p, "asking", l.node, ToSet(get_k_closest_nodes(p, table[p], p, {})),
                 l.queried, l.found, l.news)
  <2> DEFINE S == ToSet(get_k_closest_nodes(p, table[p], p, {}))
  <2>1. S \subseteq Contacts(table[p])
    BY <1>1, SeedFacts
  <2>2. p \notin Contacts(table[p])
    <3>1. TableOf(p, table[p], Node)
      BY <1>1 DEF Tables
    <3> QED
      BY <3>1, <1>1, TableFacts
  <2> HIDE DEF S
  <2>3. Moves(p, "asking", l.node, S, l.queried, l.found, l.news)
    BY <1>5 DEF S
  <2> QED
    BY <2>1, <2>2, <2>3, <1>2 DEF Moves
<1>6. CASE Moves(p, "taking", l.node, l.shortlist, l.queried, l.found, News(p))
  <2>1. p \notin ToSet(News(p))
    BY <1>1, KeepFacts DEF News
  <2> QED
    BY <2>1, <1>2, <1>6 DEF Moves
<1>7. CASE /\ Take(p)
           /\ Moves(p, "taking", l.node, l.shortlist \cup {Head(l.news)}, l.queried,
                    IF l.node \notin l.found THEN l.found \cup {Head(l.news)} ELSE l.found,
                    Tail(l.news))
  <2>1. l.at = "taking" /\ l.news # <<>>
    BY <1>7 DEF Take
  <2>2. ToSet(l.news) = {Head(l.news)} \cup ToSet(Tail(l.news))
    BY <1>1, <2>1, HeadFacts
  <2>3. /\ lookup'[p].shortlist = l.shortlist \cup {Head(l.news)}
        /\ lookup'[p].found \subseteq l.found \cup {Head(l.news)}
        /\ lookup'[p].queried = l.queried
        /\ lookup'[p].news = Tail(l.news)
    BY <1>7 DEF Moves
  <2> QED
    BY <2>1, <2>2, <2>3, <1>2
<1> QED
  BY <1>3, <1>4, <1>5, <1>6, <1>7 DEF PeerStep

\* Until a server is killed whoever has been heard of runs.
HeardUp == Faultless => \A n \in Server : Unheard(n) \/ n \in up

LEMMA HeardUpKept ==
    ASSUME TypeOK, Shape, Awake, HeardUp, [Next]_vars, Faultless', NEW n \in Server
    PROVE  Unheard(n)' \/ n \in up'
<1>1. /\ Faultless
      /\ \A m \in up : m \in up'
  BY StaysFaultless
<1>2. Unheard(n) \/ n \in up
  BY <1>1 DEF HeardUp
<1>3. \A m \in Peer : lookup[m].at = "called" => m \in up
  BY DEF Awake
<1>4. n \notin Command
  BY NodeFacts
<1> QED
  BY <1>1, <1>2, <1>3, <1>4, Hears

\* Whom a peer has asked runs and is waited for or holds the peer, and the peer holds
\* whom it has found.
Introductions ==
    Faultless =>
        \A p \in Peer :
            /\ \A n \in lookup[p].queried \cap Server :
                  /\ n \in up
                  /\ \/ lookup[p].at = "called" /\ lookup[p].node = n
                     \/ Holds(n, table[n], p)
            /\ \A n \in lookup[p].found : Holds(p, table[p], n)

LEMMA AskedKept ==
    ASSUME TypeOK, Shape, Awake, NotItself, HeardUp, Introductions, [Next]_vars, Faultless',
           NEW p \in Peer, NEW n \in lookup'[p].queried \cap Server
    PROVE  /\ n \in up'
           /\ \/ lookup'[p].at = "called" /\ lookup'[p].node = n
              \/ Holds(n, table'[n], p)
<1> DEFINE l == lookup[p]
<1>1. /\ Tables(table) /\ Typed /\ l \in Lookup /\ p \in Server /\ p \in Node
  BY TypeParts, NodeFacts DEF Typed
<1>2. /\ Faultless /\ \A m \in Server : ~ Kill(m)
      /\ \A m \in up : m \in up'
      /\ "link" \notin happened'
  BY StaysFaultless
<1>3. /\ \A m \in l.queried \cap Server :
             /\ m \in up
             /\ \/ l.at = "called" /\ l.node = m
                \/ Holds(m, table[m], p)
      /\ p \notin l.queried
  BY <1>2 DEF Introductions, NotItself
<1>4. ASSUME n \in l.queried, Holds(n, table[n], p)
      PROVE  n \in up' /\ Holds(n, table'[n], p)
  BY <1>1, <1>2, <1>3, <1>4, HoldsKept
\* Before the handler of the node asked last has answered the peer goes no further.
<1>5. ASSUME n \in l.queried, l.at # "called" \/ l.node # n
      PROVE  n \in up' /\ Holds(n, table'[n], p)
  BY <1>3, <1>4, <1>5
<1>6. CASE lookup'[p] = l
  BY <1>2, <1>3, <1>5, <1>6
<1>7. CASE l.at # "called" /\ lookup'[p].queried = l.queried
  BY <1>5, <1>7
<1>8. ASSUME NEW m \in l.shortlist, Ask(p, m),
             Moves(p, "called", m, l.shortlist \ {m}, l.queried \cup {m}, l.found, find_node(m, p))
      PROVE  /\ n \in up'
             /\ \/ lookup'[p].at = "called" /\ lookup'[p].node = n
                \/ Holds(n, table'[n], p)
  <2>1. l.at = "asking" /\ m \in up
    BY <1>8 DEF Ask, NextToAsk, Reached
  <2>2. n \in l.queried \/ n = m
    BY <1>8 DEF Moves
  <2> QED
    BY <2>1, <2>2, <1>2, <1>5, <1>8 DEF Moves
<1>9. ASSUME NEW m \in l.shortlist, AskFails(p, m),
             Moves(p, "asking", m, l.shortlist \ {m}, l.queried \cup {m}, l.found, l.news)
      PROVE  n \in up' /\ Holds(n, table'[n], p)
  <2>1. l.at = "asking" /\ m \notin up
    BY <1>2, <1>9 DEF AskFails, NextToAsk, Unreached
  <2>2. m \notin Server
    <3>1. m \in l.shortlist
      OBVIOUS
    <3>2. ~ Unheard(m)
      BY <3>1 DEF Unheard
    <3> QED
      BY <2>1, <3>2, <1>2 DEF HeardUp
  <2>3. n \in l.queried
    BY <1>9, <2>2 DEF Moves
  <2> QED
    BY <2>1, <2>3, <1>5
<1>10. CASE /\ Reply(p) /\ lookup'[p].queried = l.queried
  <2>1. CASE l.node # n
    BY <1>5, <1>10, <2>1
  <2>2. CASE l.node = n
    <3>1. table' = WithContact(n, p)
      BY <1>10, <2>2 DEF Reply
    <3>2. Inserts(n, p)
      BY <1>1, <3>1, WithContactFacts DEF Inserts
    <3>3. Holds(n, table'[n], p)
      <4>1. n # p
        BY <1>3, <1>10
      <4> QED
        BY <1>1, <3>2, <4>1, InsertsFacts
    <3> QED
      BY <3>3, <1>2, <1>3, <1>10
  <2> QED
    BY <2>1, <2>2
<1>11. PeerStep(p)
  BY <1>1, PeerSteps
<1>12. CASE Start(p) /\ Moves(p, "joining", l.node, l.shortlist, l.queried, l.found, l.news)
  <2>1. l.at = "off"
    BY <1>12 DEF Start, Awake
  <2> QED
    BY <2>1, <1>7, <1>12 DEF Moves
<1>13. CASE \/ Join(p) /\ Moves(p, "seeding", l.node, l.shortlist, l.queried, l.found, l.news)
            \/ Seed(p) /\ Moves(p, "asking", l.node, ToSet(get_k_closest_nodes(p, table[p], p, {})),
                                l.queried, l.found, l.news)
            \/ Take(p) /\ Moves(p, "taking", l.node, l.shortlist \cup {Head(l.news)}, l.queried,
                                IF l.node \notin l.found THEN l.found \cup {Head(l.news)} ELSE l.found,
                                Tail(l.news))
            \/ Continue(p) /\ \/ Moves(p, "asking", l.node, l.shortlist, l.queried, l.found, l.news)
                              \/ Moves(p, "done", l.node, l.shortlist, l.queried, l.found, l.news)
  <2>1. lookup'[p].queried = l.queried
    BY <1>13 DEF Moves
  <2>2. l.at # "called"
    BY <1>13 DEF Join, Seed, Take, Continue
  <2> QED
    BY <2>1, <2>2, <1>7
<1> QED
  BY <1>2, <1>1, <1>6, <1>8, <1>9, <1>10, <1>11, <1>12, <1>13 DEF PeerStep, Moves

LEMMA FoundKept ==
    ASSUME TypeOK, Shape, NotItself, Introductions, [Next]_vars, Faultless',
           NEW p \in Peer, NEW n \in lookup'[p].found
    PROVE  Holds(p, table'[p], n)
<1> DEFINE l == lookup[p]
<1>1. /\ Tables(table) /\ Typed /\ l \in Lookup /\ l.found \subseteq Node /\ l.news \in Seq(Node)
      /\ p \in Server /\ p \in Node
  <2>1. Tables(table) /\ Typed /\ l \in Lookup
    BY TypeParts DEF Typed
  <2> QED
    BY <2>1, NodeFacts DEF Lookup
<1>2. Faultless /\ ~ Kill(p)
  BY <1>1, StaysFaultless
<1>3. /\ \A m \in l.found : Holds(p, table[p], m)
      /\ p \notin l.found
  BY <1>2 DEF Introductions, NotItself
<1>4. CASE n \in l.found
  BY <1>1, <1>2, <1>3, <1>4, HoldsKept
<1>5. PeerStep(p)
  BY <1>1, PeerSteps
<1>6. CASE /\ Take(p) /\ n \notin l.found
           /\ Moves(p, "taking", l.node, l.shortlist \cup {Head(l.news)}, l.queried,
                    IF l.node \notin l.found THEN l.found \cup {Head(l.news)} ELSE l.found,
                    Tail(l.news))
  <2> DEFINE m == Head(l.news)
  <2>1. l.at = "taking" /\ l.news # <<>>
    BY <1>6 DEF Take
  <2>2. m \in Node /\ m \in ToSet(l.news)
    BY <1>1, <2>1, HeadFacts
  <2>3. m # p
    BY <2>1, <2>2 DEF NotItself
  <2>4. n = m /\ l.node \notin l.found
    BY <1>6 DEF Moves
  <2>5. table' = WithContact(p, m)
    BY <1>6, <2>4 DEF Take
  <2> HIDE DEF m
  <2>6. Inserts(p, m)
    BY <1>1, <2>2, <2>5, WithContactFacts DEF Inserts
  <2> QED
    BY <1>1, <2>2, <2>3, <2>4, <2>6, InsertsFacts
<1> QED
  BY <1>2, <1>4, <1>5, <1>6, <1>1 DEF PeerStep, Moves, Off

\* What the theorems about searches rest on.
Searches == TypeOK /\ Shape /\ Awake /\ NotItself /\ HeardUp /\ Introductions

LEMMA InitSearches == Init => Searches
<1> SUFFICES ASSUME Init PROVE Searches
  OBVIOUS
<1>1. \A p \in Peer : /\ lookup[p].shortlist = {} /\ lookup[p].queried = {} /\ lookup[p].found = {}
                      /\ lookup[p].news = <<>> /\ lookup[p].at = "off"
  BY DEF Init, Off
<1>2. NotItself
  BY <1>1 DEF NotItself
<1>3. Introductions
  BY <1>1 DEF Introductions
<1>4. HeardUp
  <2>1. \A n \in Server : Contacts(table[n]) = {}
    BY NoContactsFacts DEF Init
  <2>2. ToSet(<<>>) = {}
    BY DEF ToSet
  <2>5. \A c \in Command : command[c].queue = <<>> /\ command[c].news = <<>>
    BY FreshFacts
  <2> QED
    BY <1>1, <2>1, <2>2, <2>5 DEF HeardUp, Unheard
<1> QED
  BY <1>2, <1>3, <1>4, InitTypes, InitAwake DEF Searches

LEMMA SearchesKept == Searches /\ [Next]_vars => Searches'
<1> SUFFICES ASSUME Searches, [Next]_vars PROVE Searches'
  OBVIOUS
<1>1. TypeOK /\ Shape /\ Awake /\ NotItself /\ HeardUp /\ Introductions
  BY DEF Searches
<1>2. TypeOK' /\ Shape' /\ Awake' /\ NotItself'
  BY <1>1, StepTypes, AwakeKept, NotItselfKept
<1>3. HeardUp'
  <2>1. Faultless' => \A n \in Server : Unheard(n)' \/ n \in up'
    BY <1>1, HeardUpKept
  <2> QED
    BY <2>1 DEF HeardUp
<1>4. Introductions'
  <2>1. Faultless' => \A p \in Peer :
           /\ \A n \in lookup'[p].queried \cap Server :
                 /\ n \in up'
                 /\ \/ lookup'[p].at = "called" /\ lookup'[p].node = n
                    \/ Holds(n, table'[n], p)
           /\ \A n \in lookup'[p].found : Holds(p, table'[p], n)
    BY <1>1, AskedKept, FoundKept
  <2> QED
    BY <2>1 DEF Introductions, Holds
<1> QED
  BY <1>2, <1>3, <1>4 DEF Searches

\* Without faults, whoever a peer has asked knows it and it knows whoever it has
\* found, however many searches cross.
THEOREM AcquaintanceIsMutual == Spec => []Acquainted
<1>1. Searches => Acquainted
  <2> SUFFICES ASSUME Searches, Faultless
               PROVE  \A p \in Peer :
                        /\ \A n \in lookup[p].queried \cap up :
                              \/ lookup[p].at = "called" /\ lookup[p].node = n
                              \/ Knows(n, p)
                        /\ \A n \in lookup[p].found : Knows(p, n)
    BY DEF Acquainted, Faultless
  <2>1. \A n \in up : n \in Server
    BY DEF Searches, TypeOK
  <2>2. \A s, n : Holds(s, table[s], n) => Knows(s, n)
    BY DEF Holds, Knows
  <2> QED
    BY <2>1, <2>2 DEF Searches, Introductions
<1> QED
  BY <1>1, InitSearches, SearchesKept, PTL DEF Spec

----------------------------------------------------------------------------
(* Peers that join one after the other *)

\* Until a server is killed each that runs was started once and the others never.
StartedOnce ==
    Faultless => \A n \in Server : starts[n] = IF n \in up THEN 1 ELSE 0

\* Whom a peer can hear of fits into one reply, and no command has asked anybody.
Secluded ==
    /\ Faultless /\ Cardinality(Server) - 1 <= KValue
    /\ \A c \in Command : command[c].queried = {}

\* Those peer p is to know: they had finished when it joined, and the bootstrap node
\* has them in its table.
ToMeet(p) == lookup[p].earlier \cap Contacts(table[Bootstrap])

\* A peer asks the bootstrap node first; its reply names everybody the peer is to
\* know, and the peer keeps them all.
Meets(p) ==
    LET l == lookup[p] IN
    \/ /\ Unmet(p) /\ l.at \in {"off", "joining", "seeding", "asking"}
       /\ l.queried = {} /\ l.found = {}
    \/ /\ l.at = "called" /\ l.node = Bootstrap
       /\ l.queried = {Bootstrap} /\ l.found = {} /\ ToMeet(p) \subseteq ToSet(l.news)
    \/ /\ l.at = "taking" /\ l.node = Bootstrap
       /\ Bootstrap \notin l.found /\ Bootstrap \notin ToSet(l.news)
       /\ \A q \in ToMeet(p) : q \in ToSet(l.news) \/ Holds(p, table[p], q)
    \/ /\ l.at \in {"asking", "called", "taking", "done"}
       /\ \A q \in ToMeet(p) : Holds(p, table[p], q)

\* Whom a peer counts as earlier has finished and is another peer.
EarlierDone ==
    Faultless => \A p \in Peer : \A q \in lookup[p].earlier :
                    q # p /\ lookup[q].at = "done"

\* A command that has not asked anybody has not been heard of.
Meetings ==
    Secluded => /\ \A c \in Command : Unheard(c)
                /\ \A p \in Peer : Meets(p)

\* A command that waits for a reply has asked somebody.
HasAsked == \A c \in Command : command[c].at = "called" => command[c].queried # {}

LEMMA StartedOnceKept ==
    ASSUME TypeOK, StartedOnce, [Next]_vars, Faultless', NEW n \in Server
    PROVE  starts'[n] = IF n \in up' THEN 1 ELSE 0
<1>1. Typed /\ starts[n] \in Nat
  BY TypeParts DEF Typed
<1>2. Faultless /\ ~ Kill(n)
  BY StaysFaultless
<1>3. starts[n] = IF n \in up THEN 1 ELSE 0
  BY <1>2 DEF StartedOnce
<1> QED
  BY <1>1, <1>2, <1>3, ProcessSteps

LEMMA EarlierDoneKept ==
    ASSUME TypeOK, Awake, EarlierDone, [Next]_vars, Faultless', NEW p \in Peer,
           NEW q \in lookup'[p].earlier
    PROVE  /\ q # p /\ lookup'[q].at = "done"
           /\ q \in Peer /\ (q \notin lookup[p].earlier => Join(p)) /\ lookup[q].at = "done"
<1> DEFINE l == lookup[p]
<1>1. /\ Typed /\ l \in Lookup /\ l.earlier \subseteq Peer /\ Peer \subseteq Server
      /\ Faultless /\ \A n \in Server : ~ Kill(n)
  <2>1. Typed /\ l \in Lookup
    BY TypeParts DEF Typed
  <2> QED
    BY <2>1, NodeFacts, StaysFaultless DEF Lookup
<1>2. \A r \in l.earlier : r # p /\ lookup[r].at = "done"
  BY <1>1 DEF EarlierDone
<1>3. PeerStep(p)
  BY <1>1, PeerSteps
<1>4. \/ lookup'[p].earlier = l.earlier
      \/ lookup'[p].earlier = {r \in Peer \ {p} : lookup[r].at = "done"} /\ Join(p)
  BY <1>1, <1>3 DEF PeerStep
<1>5. q \in Peer /\ q # p /\ lookup[q].at = "done" /\ (q \notin l.earlier => Join(p))
  BY <1>1, <1>2, <1>4
<1>6. lookup'[q].at = "done"
  <2>1. PeerStep(q)
    BY <1>1, <1>5, PeerSteps
  <2>2. ~ Start(q) /\ ~ Kill(q) /\ ~ Join(q) /\ ~ Seed(q) /\ ~ Reply(q) /\ ~ Take(q) /\ ~ Continue(q)
    BY <1>1, <1>5 DEF Awake, Start, Join, Seed, Reply, Take, Continue
  <2>3. \A n : ~ Ask(q, n) /\ ~ AskFails(q, n)
    BY <1>5 DEF Ask, AskFails, NextToAsk
  <2> QED
    BY <2>1, <2>2, <2>3, <1>5 DEF PeerStep
<1> QED
  BY <1>5, <1>6

\* The bootstrap node does not get anybody new that a peer is to know.
LEMMA ToMeetShrinks ==
    ASSUME TypeOK, Shape, Awake, EarlierDone, [Next]_vars, Faultless', NEW p \in Peer, ~ Join(p)
    PROVE  \A q \in lookup'[p].earlier \cap Contacts(table'[Bootstrap]) :
              q \in ToMeet(p) /\ q \in Peer /\ q # p
<1> SUFFICES ASSUME NEW q \in lookup'[p].earlier, q \in Contacts(table'[Bootstrap])
             PROVE  q \in ToMeet(p) /\ q \in Peer /\ q # p
  OBVIOUS
<1>1. Tables(table) /\ Bootstrap \in Server /\ Bootstrap \notin Peer
      /\ Peer \subseteq Node /\ Command \subseteq Node
      /\ q \notin Command
  <2>1. q \in Peer
    BY EarlierDoneKept
  <2> QED
    BY <2>1, TypeParts, NodeFacts
<1>2. q # p /\ q \in Peer /\ q \in lookup[p].earlier /\ lookup[q].at = "done"
  BY EarlierDoneKept
<1>3. TableStep(Bootstrap)
  BY <1>1, StaysFaultless, TableSteps
<1>4. ASSUME NEW m \in Node, Inserts(Bootstrap, m), m # q
      PROVE  q \in Contacts(table[Bootstrap])
  BY <1>1, <1>4, InsertsFacts
<1>5. q \in Contacts(table[Bootstrap])
  BY <1>1, <1>2, <1>3, <1>4 DEF TableStep
<1> QED
  BY <1>2, <1>5 DEF ToMeet

\* A command goes on having asked those it has asked.
LEMMA AskedSteps ==
    ASSUME TypeOK, HasAsked, [Next]_vars, NEW c \in Command
    PROVE  /\ command[c].queried \subseteq command'[c].queried
           /\ command'[c].at = "called" => command'[c].queried # {}
<1>1. Typed /\ command \in [Command -> CommandState] /\ command[c] \in CommandState
  BY TypeParts DEF Typed
<1>2. \A a \in {"asking", "publishing", "storing", "published", "found", "missing", "failed"} :
         At(c, a) \in CommandState /\ At(c, a).queried = command[c].queried /\ At(c, a).at = a
  BY <1>1, AtFacts
<1> DEFINE Fits == /\ command[c].queried \subseteq command'[c].queried
                   /\ command'[c].at = "called" => command'[c].queried # {}
<1> SUFFICES Fits
  OBVIOUS
<1>3. CASE command'[c] = command[c]
  BY <1>3 DEF HasAsked
<1>4. CASE \E a \in {"asking", "publishing", "storing", "published", "found", "missing", "failed"} :
              command'[c] = At(c, a)
  BY <1>2, <1>4
<1>5. ASSUME NEW S, command'[c] = [command[c] EXCEPT !.missed = S]
      PROVE  Fits
  <2>1. command'[c].queried = command[c].queried /\ command'[c].at = command[c].at
    BY <1>1, <1>5 DEF CommandState
  <2> QED
    BY <2>1 DEF HasAsked
<1>6. ASSUME NEW q, command'[c] = [At(c, "asking") EXCEPT !.queue = q]
      PROVE  Fits
  <2>1. command'[c].queried = command[c].queried /\ command'[c].at = "asking"
    BY <1>2, <1>6 DEF CommandState
  <2> QED
    BY <2>1
<1>7. ASSUME NEW n \in Server, Kill(n)
      PROVE  Fits
  <2>1. \/ command'[c] = [command[c] EXCEPT !.at = "failed", !.news = <<>>, !.value = FALSE]
        \/ command'[c] = [command[c] EXCEPT !.missed = @ \cup {n}]
        \/ command'[c] = command[c]
    BY <1>7 DEF Kill
  <2>2. CASE command'[c] = [command[c] EXCEPT !.at = "failed", !.news = <<>>, !.value = FALSE]
    <3>1. command'[c].queried = command[c].queried /\ command'[c].at = "failed"
      BY <1>1, <2>2 DEF CommandState
    <3> QED
      BY <3>1
  <2> HIDE DEF Fits
  <2> QED
    BY <2>1, <2>2, <1>3, <1>5
<1>8. CASE AskValue(c)
  <2> DEFINE n == Head(command[c].queue)
  <2>1. command'[c].queried = command[c].queried \cup {n}
    BY <1>1, <1>8 DEF AskValue, CommandState
  <2> QED
    BY <2>1
<1>9. CASE Begin(c)
  <2>1. \/ \E a \in {"publishing", "found"} : command'[c] = At(c, a)
        \/ command'[c] = [At(c, "asking") EXCEPT !.queue = <<Bootstrap>>]
    BY <1>1, <1>9 DEF Begin, Obtained
  <2> HIDE DEF Fits
  <2> QED
    BY <2>1, <1>4, <1>6
<1>10. CASE ReplyValue(c)
  <2> DEFINE q == Tail(command[c].queue)
                  \o Keep(command[c].news, Node \ ({c} \cup command[c].queried \cup ToSet(command[c].queue)))
  <2>1. \/ command'[c] = [At(c, "asking") EXCEPT !.queue = q]
        \/ \E a \in {"publishing", "found", "failed"} : command'[c] = At(c, a)
    BY <1>1, <1>10 DEF ReplyValue, Obtained
  <2> HIDE DEF Fits, q
  <2> QED
    BY <2>1, <1>4, <1>6
<1>11. CASE AskValueFails(c) \/ NotFound(c) \/ Publish(c) \/ PublishFails(c)
  <2>1. \E a \in {"failed", "missing", "storing"} : command'[c] = At(c, a)
    BY <1>1, <1>11 DEF AskValueFails, NotFound, Publish, PublishFails
  <2> HIDE DEF Fits
  <2> QED
    BY <2>1, <1>4
<1>12. CASE Forward(c)
  BY <1>3, <1>12 DEF Forward
<1>13. CASE ForwardFails(c)
  <2>1. command'[c] = [command[c] EXCEPT !.missed = @ \cup {Head(Running(c).todo)}]
    BY <1>1, <1>13 DEF ForwardFails
  <2> HIDE DEF Fits
  <2> QED
    BY <2>1, <1>5
<1>14. CASE Answer(c)
  <2>1. command'[c] = At(c, "published") \/ command'[c] = command[c]
    BY <1>1, <1>14 DEF Answer
  <2> HIDE DEF Fits
  <2> QED
    BY <2>1, <1>3, <1>4
<1>15. CASE CallLost(c)
  <2>1. PICK i \in DOMAIN chain[c] :
            command' = [command EXCEPT ![c] =
                            IF i = 1 THEN At(c, "failed")
                            ELSE [command[c] EXCEPT !.missed = @ \cup {chain[c][i].node}]]
    BY <1>15 DEF CallLost
  <2>2. \/ command'[c] = At(c, "failed")
        \/ command'[c] = [command[c] EXCEPT !.missed = @ \cup {chain[c][i].node}]
    BY <1>1, <2>1
  <2> HIDE DEF Fits
  <2> QED
    BY <2>2, <1>4, <1>5
<1>16. ASSUME NEW d \in Command, Run(d), c # d
       PROVE  command'[c] = command[c]
  BY <1>1, <1>16 DEF Run, Begin, Query, AskValue, AskValueFails, ReplyValue, NotFound,
           Publish, PublishFails, Forward, ForwardFails, Answer, CallLost
<1>17. CASE \/ \E n \in Server : Start(n)
            \/ \E p \in Peer : Join(p) \/ Search(p)
            \/ UNCHANGED vars
  <2>1. command' = command
    BY <1>17 DEF Start, Join, Search, Seed, Reply, Take, Continue, Ask, AskFails, vars
  <2> QED
    BY <2>1, <1>3
<1> HIDE DEF Fits
<1> QED
  BY <1>3, <1>7, <1>8, <1>9, <1>10, <1>11, <1>12, <1>13, <1>14, <1>15, <1>16, <1>17
  DEF Next, Run, Query

\* As long as whom a peer can hear of fits into one reply, the reply of the bootstrap
\* node to a peer it has not heard of names its whole table.
LEMMA WholeTable ==
    ASSUME TypeOK, NEW p \in Peer, Unheard(p), \A c \in Command : Unheard(c),
           Cardinality(Server) - 1 <= KValue
    PROVE  KValue > 0 /\ Contacts(table[Bootstrap]) \subseteq ToSet(find_node(Bootstrap, p))
<1> DEFINE C == Contacts(table[Bootstrap])
           rest == (Server \ {Bootstrap}) \ {p}
           n == Bootstrap
<1>1. /\ TableOf(n, table[n], Node) /\ n \in Node /\ n \in Server /\ n \in Address /\ p \in Address
      /\ p \in Server \ {n} /\ Node \in SUBSET Address /\ Server \in SUBSET Address
      /\ Node = Server \cup Command
  <2>1. Tables(table)
    BY TypeParts
  <2> QED
    BY <2>1, NodeFacts DEF Tables, Node
<1>2. C \in SUBSET rest
  <2>1. C \subseteq Node \ {n}
    BY <1>1, TableFacts
  <2>2. p \notin C /\ \A c \in Command : c \notin C
    BY <1>1 DEF Unheard
  <2> HIDE DEF C
  <2> QED
    BY <1>1, <2>1, <2>2
<1>3. IsFiniteSet(Server)
  BY <1>1, AddressesFinite, FS_Subset
<1>4. /\ IsFiniteSet(rest) /\ Cardinality(rest) = Cardinality(Server) - 2
      /\ Cardinality(Server) \in Nat /\ Cardinality(rest) \in Nat
  <2>1. /\ IsFiniteSet(Server \ {n}) /\ Cardinality(Server \ {n}) = Cardinality(Server) - 1
    BY <1>1, <1>3, FS_RemoveElement
  <2>2. /\ IsFiniteSet(rest) /\ Cardinality(rest) = Cardinality(Server \ {n}) - 1
    BY <1>1, <2>1, FS_RemoveElement
  <2>3. Cardinality(Server) \in Nat /\ Cardinality(rest) \in Nat
    BY <1>3, <2>2, FS_CardinalityType
  <2> QED
    BY <2>1, <2>2, <2>3
<1>5. Cardinality(C) <= Cardinality(rest) /\ Cardinality(C) \in Nat
  <2> HIDE DEF C, rest
  <2> QED
    BY <1>2, <1>4, FS_Subset, FS_CardinalityType
<1>6. KValue > 0 /\ Cardinality(C) + 1 <= KValue
  BY <1>4, <1>5, BucketsAssumption
<1>7. ToSet(ClosestTo(n, p)) = C \cup {n}
  BY <1>1, <1>6, ClosestFacts DEF ClosestTo
<1>8. ClosestTo(n, p) # <<>>
  <2>1. ToSet(<<>>) = {}
    BY DEF ToSet
  <2> QED
    BY <2>1, <1>7
<1>9. ~ find_node_id(n, table[n], p)
  <2> SUFFICES ASSUME find_node_id(n, table[n], p) PROVE FALSE
    OBVIOUS
  <2>1. get_bucket_index(n, p) \in Bucket /\ p \in ToSet(table[n][get_bucket_index(n, p)])
    BY <1>1, IndexFacts DEF find_node_id
  <2>2. p \in C
    BY <2>1 DEF Contacts
  <2> QED
    BY <2>2, <1>1 DEF Unheard
<1>10. find_node(n, p) = ClosestTo(n, p)
  BY <1>8, <1>9 DEF find_node
<1> QED
  BY <1>6, <1>7, <1>10

LEMMA MeetsKept ==
    ASSUME TypeOK, Shape, Awake, NotItself, StartedOnce, EarlierDone, Introduced,
           Meetings, [Next]_vars, Secluded, Faultless', NEW p \in Peer
    PROVE  Meets(p)'
<1> DEFINE l == lookup[p]
           coming == lookup'[p].earlier \cap Contacts(table'[Bootstrap])
<1>1. /\ Tables(table) /\ Typed /\ l \in Lookup /\ l.news \in Seq(Node) /\ p \in Server
      /\ p \in Node \ {Bootstrap} /\ Bootstrap \in Server /\ Bootstrap \in Node /\ Bootstrap \notin Peer
  <2>1. Tables(table) /\ Typed /\ l \in Lookup
    BY TypeParts DEF Typed
  <2> QED
    BY <2>1, NodeFacts DEF Lookup
<1>2. /\ Faultless /\ "link" \notin happened' /\ \A n \in Server : ~ Kill(n)
  BY StaysFaultless
<1>3. PeerStep(p)
  BY <1>1, PeerSteps
<1>4. l.at # "off" => ~ Start(p)
  BY DEF Awake, Start
<1>5. ~ Kill(p) /\ (l.node \in Server => ~ Kill(l.node))
  BY <1>1, <1>2
<1>6. ~ Join(p) => \A q \in coming : q \in ToMeet(p) /\ q \in Peer /\ q # p
  BY <1>2, ToMeetShrinks
<1>7. \A q \in Node \ {p} : Holds(p, table[p], q) => Holds(p, table'[p], q)
  BY <1>1, <1>2, HoldsKept
<1>8. Peer \subseteq Node
  BY NodeFacts
<1> SUFFICES \/ /\ Unmet(p)' /\ lookup'[p].at \in {"off", "joining", "seeding", "asking"}
                /\ lookup'[p].queried = {} /\ lookup'[p].found = {}
             \/ /\ lookup'[p].at = "called" /\ lookup'[p].node = Bootstrap
                /\ lookup'[p].queried = {Bootstrap} /\ lookup'[p].found = {}
                /\ coming \subseteq ToSet(lookup'[p].news)
             \/ /\ lookup'[p].at = "taking" /\ lookup'[p].node = Bootstrap
                /\ Bootstrap \notin lookup'[p].found /\ Bootstrap \notin ToSet(lookup'[p].news)
                /\ \A q \in coming : q \in ToSet(lookup'[p].news) \/ Holds(p, table'[p], q)
             \/ /\ lookup'[p].at \in {"asking", "called", "taking", "done"}
                /\ \A q \in coming : Holds(p, table'[p], q)
  BY DEF Meets, ToMeet, Holds
<1>9. CASE /\ Unmet(p) /\ l.at \in {"off", "joining", "seeding", "asking"}
           /\ l.queried = {} /\ l.found = {}
  <2>1. KValue > 0 /\ Contacts(table[Bootstrap]) \subseteq ToSet(find_node(Bootstrap, p))
    BY <1>9, WholeTable DEF Secluded, Meetings, Unmet
  <2>2. Steady'
    <3>1. starts'[Bootstrap] = IF Bootstrap \in up' THEN 1 ELSE 0
      BY <1>1, StartedOnceKept
    <3> QED
      BY <2>1, <3>1, <1>2 DEF Steady
  <2>3. l.at \notin {"off", "joining"} => Bootstrap \in up
    <3>1. Steady
      BY <2>2, StaysSteady
    <3> QED
      BY <3>1 DEF Introduced
  <2>4. Unmet(p)'
    BY <2>2, <2>3, <1>9, UnmetKept
  <2>5. ~ Reply(p) /\ ~ Take(p)
    BY <1>9 DEF Reply, Take
  <2>6. ~ (l.at = "taking")
    BY <1>9
  <2>7. CASE /\ lookup'[p].at \in {"off", "joining", "seeding", "asking"}
             /\ lookup'[p].queried = {} /\ lookup'[p].found = {}
    BY <2>4, <2>7
  <2>8. ASSUME NEW n \in l.shortlist, Ask(p, n),
               Moves(p, "called", n, l.shortlist \ {n}, l.queried \cup {n}, l.found, find_node(n, p))
        PROVE  /\ lookup'[p].at = "called" /\ lookup'[p].node = Bootstrap
               /\ lookup'[p].queried = {Bootstrap} /\ lookup'[p].found = {}
               /\ coming \subseteq ToSet(lookup'[p].news)
    <3>1. l.at = "asking" /\ table' = table
      BY <2>8 DEF Ask, NextToAsk
    <3>2. n = Bootstrap
      BY <3>1, <1>9 DEF Unmet
    <3>3. lookup'[p].news = find_node(Bootstrap, p) /\ lookup'[p].at = "called"
          /\ lookup'[p].node = Bootstrap /\ lookup'[p].queried = l.queried \cup {Bootstrap}
          /\ lookup'[p].found = l.found
      BY <3>2, <2>8 DEF Moves
    <3> QED
      BY <3>1, <3>3, <2>1, <1>9
  <2>9. \A n \in l.shortlist : ~ AskFails(p, n)
    <3> SUFFICES ASSUME NEW n \in l.shortlist, AskFails(p, n) PROVE FALSE
      OBVIOUS
    <3>1. l.at = "asking" /\ (n \notin up \/ "link" \in happened')
      BY DEF AskFails, NextToAsk, Unreached
    <3>2. n = Bootstrap
      BY <3>1, <1>9 DEF Unmet
    <3> QED
      BY <3>1, <3>2, <2>3, <1>2
  <2>10. ~ (l.at = "asking" /\ l.shortlist = {})
    BY <1>9 DEF Unmet
  <2>11. ~ (l.at = "called")
    BY <1>9
  <2> QED
    BY <1>3, <1>5, <1>9, <2>5, <2>6, <2>7, <2>8, <2>9, <2>10, <2>11 DEF PeerStep, Moves
<1>10. CASE /\ l.at = "called" /\ l.node = Bootstrap
            /\ l.queried = {Bootstrap} /\ l.found = {} /\ ToMeet(p) \subseteq ToSet(l.news)
  <2>1. ~ Join(p) /\ ~ Seed(p) /\ ~ Take(p) /\ ~ Continue(p) /\ ~ Start(p)
        /\ \A n : ~ Ask(p, n) /\ ~ AskFails(p, n)
    BY <1>4, <1>10 DEF Join, Seed, Take, Continue, Ask, AskFails, NextToAsk
  <2>2. CASE lookup'[p] = l
    BY <1>6, <1>10, <2>1, <2>2
  <2>3. CASE Moves(p, "taking", l.node, l.shortlist, l.queried, l.found, News(p))
    <3>1. ToSet(News(p)) = ToSet(l.news) \cap (Node \ ({p} \cup {Bootstrap}))
      BY <1>1, <1>10, KeepFacts DEF News
    <3>2. coming \subseteq ToSet(News(p))
      BY <1>1, <1>6, <1>8, <1>10, <2>1, <3>1
    <3>3. /\ lookup'[p].at = "taking" /\ lookup'[p].node = Bootstrap
          /\ lookup'[p].found = {} /\ lookup'[p].news = News(p)
      BY <1>10, <2>3 DEF Moves
    <3> QED
      BY <3>1, <3>2, <3>3
  <2> QED
    BY <1>1, <1>2, <1>3, <1>5, <1>10, <2>1, <2>2, <2>3 DEF PeerStep
<1>11. CASE /\ l.at = "taking" /\ l.node = Bootstrap
            /\ Bootstrap \notin l.found /\ Bootstrap \notin ToSet(l.news)
            /\ \A q \in ToMeet(p) : q \in ToSet(l.news) \/ Holds(p, table[p], q)
  <2>1. ~ Join(p) /\ ~ Seed(p) /\ ~ Reply(p) /\ ~ Start(p)
        /\ \A n : ~ Ask(p, n) /\ ~ AskFails(p, n)
    BY <1>4, <1>11 DEF Join, Seed, Reply, Ask, AskFails, NextToAsk
  <2>2. CASE lookup'[p] = l
    BY <1>6, <1>7, <1>8, <1>11, <2>1, <2>2
  <2>3. CASE /\ Take(p)
             /\ Moves(p, "taking", l.node, l.shortlist \cup {Head(l.news)}, l.queried,
                      IF l.node \notin l.found THEN l.found \cup {Head(l.news)} ELSE l.found,
                      Tail(l.news))
    <3> DEFINE m == Head(l.news)
    <3>1. l.news # <<>>
      BY <2>3 DEF Take
    <3>2. m \in Node /\ ToSet(l.news) = {m} \cup ToSet(Tail(l.news))
      BY <1>1, <3>1, HeadFacts
    <3>3. m # p
      BY <3>2, <1>11 DEF NotItself
    <3>4. table' = WithContact(p, m)
      BY <1>11, <2>3 DEF Take
    <3>5. /\ lookup'[p].at = "taking" /\ lookup'[p].node = Bootstrap
          /\ lookup'[p].found = l.found \cup {m} /\ lookup'[p].news = Tail(l.news)
      BY <1>11, <2>3 DEF Moves
    <3> HIDE DEF m
    <3>6. Inserts(p, m)
      BY <1>1, <3>2, <3>4, WithContactFacts DEF Inserts
    <3>7. Holds(p, table'[p], m)
      BY <1>1, <3>2, <3>3, <3>6, InsertsFacts
    <3>8. \A q \in coming : q \in ToSet(Tail(l.news)) \/ Holds(p, table'[p], q)
      BY <1>6, <1>7, <1>8, <1>11, <2>1, <3>2, <3>7
    <3> QED
      BY <3>2, <3>5, <3>8, <1>11
  <2>4. CASE /\ l.news = <<>>
             /\ Moves(p, "asking", l.node, l.shortlist, l.queried, l.found, l.news)
    <3>1. ToSet(l.news) = {}
      BY <2>4 DEF ToSet
    <3>2. \A q \in coming : Holds(p, table'[p], q)
      BY <3>1, <1>6, <1>7, <1>8, <1>11, <2>1
    <3> QED
      BY <3>2, <2>4 DEF Moves
  <2> QED
    BY <1>3, <1>5, <1>11, <2>1, <2>2, <2>3, <2>4 DEF PeerStep
<1>12. CASE /\ l.at \in {"asking", "called", "taking", "done"}
            /\ \A q \in ToMeet(p) : Holds(p, table[p], q)
  <2>1. ~ Join(p) /\ ~ Seed(p) /\ ~ Start(p)
    BY <1>4, <1>12 DEF Join, Seed
  <2>2. \A q \in coming : Holds(p, table'[p], q)
    BY <1>6, <1>7, <1>8, <1>12, <2>1
  <2>3. lookup'[p].at \in {"asking", "called", "taking", "done"}
    BY <1>3, <1>5, <1>12, <2>1 DEF PeerStep, Moves
  <2> QED
    BY <2>2, <2>3
<1>13. Meets(p)
  BY DEF Meetings
<1> QED
  BY <1>9, <1>10, <1>11, <1>12, <1>13 DEF Meets

\* Without faults a peer whose search has ended knows every peer that had finished
\* before it joined and is still in the bootstrap node's table, as long as one reply
\* has room for all of them and no command is among them: the bootstrap node is the
\* first it asks, and it keeps all that reply.
THEOREM LaterPeersMeet == Spec => []LaterJoinersMeet
<1> DEFINE IInv == Searches /\ Introduced /\ StartedOnce /\ EarlierDone /\ HasAsked /\ Meetings
<1>1. Init => IInv
  <2> SUFFICES ASSUME Init PROVE IInv
    OBVIOUS
  <2>1. Searches /\ \A p \in Peer : Unmet(p)
    BY InitSearches, InitAwake
  <2>2. \A p \in Peer : lookup[p] = Off
    BY DEF Init
  <2>3. Introduced
    BY <2>1, <2>2 DEF Introduced, Off
  <2>4. StartedOnce
    BY DEF Init, StartedOnce
  <2>5. EarlierDone
    BY <2>2 DEF EarlierDone, Off
  <2>8. \A c \in Command : command[c].at = "start" /\ command[c].queue = <<>> /\ command[c].news = <<>>
    BY FreshFacts
  <2>9. HasAsked
    BY <2>8 DEF HasAsked
  <2>10. \A c \in Command : Unheard(c)
    <3>1. \A n \in Server : Contacts(table[n]) = {}
      BY NoContactsFacts DEF Init
    <3>2. ToSet(<<>>) = {}
      BY DEF ToSet
    <3>3. \A p \in Peer : lookup[p].shortlist = {} /\ lookup[p].news = <<>> /\ lookup[p].at = "off"
      BY <2>2 DEF Off
    <3> QED
      BY <2>8, <3>1, <3>2, <3>3 DEF Unheard
  <2>11. \A p \in Peer : Meets(p)
    <3>1. \A p \in Peer : lookup[p].at = "off" /\ lookup[p].queried = {} /\ lookup[p].found = {}
      BY <2>2 DEF Off
    <3> QED
      BY <2>1, <3>1 DEF Meets
  <2> QED
    BY <2>1, <2>3, <2>4, <2>5, <2>9, <2>10, <2>11 DEF Meetings
<1>2. IInv /\ [Next]_vars => IInv'
  <2> SUFFICES ASSUME IInv, [Next]_vars PROVE IInv'
    OBVIOUS
  <2>1. TypeOK /\ Shape /\ Awake /\ NotItself
    BY DEF Searches
  <2>2. Searches'
    BY SearchesKept
  <2>3. Introduced'
    <3>1. Steady' => \A p \in Peer :
              /\ lookup'[p].at \notin {"off", "joining"} => Bootstrap \in up'
              /\ Holds(Bootstrap, table'[Bootstrap], p) \/ Unmet(p)'
      BY <2>1, IntroducedKept
    <3> QED
      BY <3>1 DEF Introduced, Holds, Unmet, Unheard
  <2>4. StartedOnce'
    <3>1. Faultless' => \A n \in Server : starts'[n] = IF n \in up' THEN 1 ELSE 0
      BY <2>1, StartedOnceKept
    <3> QED
      BY <3>1 DEF StartedOnce
  <2>5. EarlierDone'
    <3>1. Faultless' => \A p \in Peer : \A q \in lookup'[p].earlier : q # p /\ lookup'[q].at = "done"
      BY <2>1, EarlierDoneKept
    <3> QED
      BY <3>1 DEF EarlierDone
  <2>6. HasAsked' /\ \A c \in Command : command[c].queried \subseteq command'[c].queried
    BY <2>1, AskedSteps DEF HasAsked
  <2>7. Meetings'
    <3> SUFFICES ASSUME Secluded'
                 PROVE  /\ \A c \in Command : Unheard(c)'
                        /\ \A p \in Peer : Meets(p)'
      BY DEF Meetings
    <3>1. Faultless' /\ \A c \in Command : command'[c].queried = {}
      BY DEF Secluded
    <3>2. Secluded
      <4>1. Faultless
        BY <2>1, <3>1, StaysFaultless
      <4>2. \A c \in Command : command[c].queried = {}
        BY <2>6, <3>1
      <4>3. Cardinality(Server) - 1 <= KValue
        BY DEF Secluded
      <4> QED
        BY <4>1, <4>2, <4>3 DEF Secluded
    <3>3. \A c \in Command : Unheard(c) /\ command[c].at # "called"
      BY <3>2 DEF Meetings, HasAsked, Secluded
    <3>4. \A c \in Command : Unheard(c)'
      <4>1. \A c \in Command : c # Bootstrap /\ c \notin Peer
        BY NodeFacts
      <4> QED
        BY <2>1, <3>3, <4>1, Hears
    <3>5. \A p \in Peer : Meets(p)'
      BY <2>1, <3>1, <3>2, MeetsKept
    <3> QED
      BY <3>4, <3>5
  <2> QED
    BY <2>2, <2>3, <2>4, <2>5, <2>6, <2>7
<1>3. IInv => LaterJoinersMeet
  <2> SUFFICES ASSUME IInv, Secluded, NEW p \in Peer, lookup[p].at = "done",
                      NEW q \in ToMeet(p)
               PROVE  Knows(p, q)
    BY DEF LaterJoinersMeet, Secluded, Faultless, ToMeet
  <2>1. Meets(p)
    BY DEF Meetings
  <2>2. Holds(p, table[p], q)
    BY <2>1 DEF Meets
  <2> QED
    BY <2>2 DEF Holds, Knows
<1> QED
  <2> HIDE DEF IInv
  <2> QED
    BY <1>1, <1>2, <1>3, PTL DEF Spec
=============================================================================
