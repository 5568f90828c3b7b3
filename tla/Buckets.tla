------------------------------- MODULE Buckets -------------------------------
(***************************************************************************)
(* The buckets of a routing table as a value: the operations of            *)
(* src/routing/routing_table.rs and src/routing/kbucket.rs on the table of *)
(* node self, and Node::get_closest_nodes_to_key, by which a node decides  *)
(* whether to store an auction and where to forward it.                    *)
(*                                                                         *)
(* An address of 256 bits is the set of the positions of its one bits, of  *)
(* which there are Bits here; XOR is then the symmetric difference, and of *)
(* two distances the one with the highest bit not in the other is larger.  *)
(* A contact is its address: ip and port are left out, and so is           *)
(* last_refresh_time, which is never read.                                 *)
(***************************************************************************)
EXTENDS Integers, SequencesExt

CONSTANTS
    Bits,        \* the width of an address, 256 in the program
    KValue,      \* Config::k_value
    MaxEntries   \* Config::max_kbucket_entries

ASSUME BucketsAssumption ==
    /\ Bits \in Nat /\ Bits >= 2
    /\ KValue \in Nat
    /\ MaxEntries \in Nat

Address == SUBSET (0 .. Bits - 1)

\* There is one bucket less than there are bits.
Bucket == 0 .. Bits - 2

\* The buckets of a new table, each from the least to the most recently inserted.
NoContacts == [b \in Bucket |-> <<>>]

Contacts(table) == UNION {ToSet(table[b]) : b \in Bucket}

----------------------------------------------------------------------------

distance(a, b) == SymDiff(a, b)

Less(d, e) == d # e /\ Max(SymDiff(d, e)) \in e

Closer(m, n, target) == Less(distance(m, target), distance(n, target))

\* The position of the highest differing bit, less one; the two lowest positions
\* share bucket 0.  Not defined for self.
get_bucket_index(self, n) ==
    LET highest == Max(distance(self, n)) IN
    IF highest = 0 THEN 0 ELSE highest - 1

find_node_id(self, table, n) == n # self /\ n \in ToSet(table[get_bucket_index(self, n)])

\* Mutation: a contact that is already there is not moved.
InsertInto_Unmoved(bucket, n) ==
    IF n \in ToSet(bucket) THEN bucket
    ELSE Append(IF Len(bucket) = MaxEntries /\ bucket # <<>> THEN Tail(bucket)
                ELSE bucket, n)

\* Mutation: a contact that is already there is not evicted first.
InsertInto_Twice(bucket, n) ==
    Append(IF Len(bucket) = MaxEntries /\ bucket # <<>> THEN Tail(bucket) ELSE bucket, n)

\* What insert_contact makes of the bucket: the contact leaves its old place,
\* the oldest entry leaves a full bucket, and the contact goes to the end.
InsertInto(bucket, n) ==
    LET others == RemoveFirst(bucket, n)
        room == IF Len(others) = MaxEntries /\ others # <<>> THEN Tail(others)
                ELSE others
    IN Append(room, n)

\* The table after insert_contact.
insert_contact(self, table, n) ==
    IF n = self THEN table
    ELSE [table EXCEPT ![get_bucket_index(self, n)] = InsertInto(@, n)]

\* Mutation: the node's own bucket is looked at from the far end.
Before_Descending(self, c, b, target) ==
    IF target = self THEN c > b
    ELSE LET t == get_bucket_index(self, target)
             gap(x) == IF x < t THEN t - x ELSE x - t
         IN gap(c) < gap(b) \/ (gap(c) = gap(b) /\ c < b)

\* Bucket c comes before bucket b in a search for target: buckets are taken in
\* order of their distance from the target's, the lower of two first.
Before(self, c, b, target) ==
    IF target = self THEN c < b
    ELSE LET t == get_bucket_index(self, target)
             gap(x) == IF x < t THEN t - x ELSE x - t
         IN gap(c) < gap(b) \/ (gap(c) = gap(b) /\ c < b)

Earlier(self, b, target) == {c \in Bucket : Before(self, c, b, target)}

\* What is in the result once these buckets were visited.
Collected(table, visited, initial) == initial \cup UNION {ToSet(table[c]) : c \in visited}

\* Mutation: a bucket is visited only while one more contact would fit.
Visited_OneShort(self, table, b, target, initial) ==
    LET earlier == Earlier(self, b, target) IN
    earlier = {} \/ Cardinality(Collected(table, earlier, initial)) + 1 < KValue

\* The search goes on to bucket b unless the buckets before it, of which there
\* is at least one, brought the result up to k_value.
Visited(self, table, b, target, initial) ==
    LET earlier == Earlier(self, b, target) IN
    earlier = {} \/ Cardinality(Collected(table, earlier, initial)) < KValue

\* How many of these nodes are closer to target than n.
Rank(n, nodes, target) == Cardinality({m \in nodes : Closer(m, n, target)})

\* The KValue of these nodes that are closest to target.
Closest(nodes, target) == {n \in nodes : Rank(n, nodes, target) < KValue}

\* These nodes sorted by their distance to target.
Sorted(nodes, target) ==
    [i \in 1 .. Cardinality(nodes) |-> CHOOSE n \in nodes : Rank(n, nodes, target) = i - 1]

get_k_closest_nodes(self, table, target, initial) ==
    LET visited == {b \in Bucket : Visited(self, table, b, target, initial)}
        found == Collected(table, visited, initial)
    IN SubSeq(Sorted(found, target), 1, Min({KValue, Cardinality(found)}))

\* Mutation: the node does not count itself.
get_closest_nodes_to_key_Others(self, table, key) == get_k_closest_nodes(self, table, key, {})

\* The search a server makes, which starts from the node itself.
get_closest_nodes_to_key(self, table, key) == get_k_closest_nodes(self, table, key, {self})
=============================================================================
