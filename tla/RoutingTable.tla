---------------------------- MODULE RoutingTable ----------------------------
(***************************************************************************)
(* The routing table of one node, src/routing/routing_table.rs, as it      *)
(* hears of contacts in any order and of any of them again.                *)
(***************************************************************************)
EXTENDS Buckets

CONSTANTS
    Self,     \* the address of this node
    Contact   \* the nodes it can hear of

ASSUME RoutingAssumption == Self \in Address /\ Contact \subseteq Address

VARIABLES
    table,     \* the buckets
    inserted,  \* history: the contacts inserted so far
    after      \* history: <<m, n>> when n was inserted after m's last insertion

vars == <<table, inserted, after>>

Init ==
    /\ table = NoContacts
    /\ inserted = {}
    /\ after = {}

Insert(n) ==
    /\ table' = insert_contact(Self, table, n)
    /\ IF n = Self THEN UNCHANGED <<inserted, after>>
       ELSE /\ inserted' = inserted \cup {n}
            /\ after' = {p \in after : p[1] # n /\ p[2] # n}
                        \cup {<<m, n>> : m \in inserted \ {n}}

Next == \E n \in Contact : Insert(n)

Spec == Init /\ [][Next]_vars

----------------------------------------------------------------------------
(* Properties *)

\* Every contact is in the bucket of its address, once, and is not the node
\* itself; no bucket outgrows a limit that is not 0.
TypeOK ==
    /\ table \in [Bucket -> Seq(Contact \ {Self})]
    /\ inserted \subseteq Contact
    /\ after \subseteq inserted \X inserted
    /\ \A b \in Bucket :
          /\ \A i \in DOMAIN table[b] : get_bucket_index(Self, table[b][i]) = b
          /\ IsInjective(table[b])
          /\ MaxEntries > 0 => Len(table[b]) <= MaxEntries

\* A bucket holds the contacts of its range that were inserted last, in that
\* order: one that was dropped, and not heard of again, was older than all that
\* are there, and it went because the bucket was full.
MostRecentStay ==
    \A b \in Bucket :
        /\ \A i, j \in DOMAIN table[b] :
              i < j => <<table[b][i], table[b][j]>> \in after
        /\ \A n \in inserted \ Contacts(table) :
              get_bucket_index(Self, n) = b =>
                  /\ Len(table[b]) = MaxEntries
                  /\ \A m \in ToSet(table[b]) : <<n, m>> \in after

\* A search never comes back with fewer nodes than it could: k_value of them,
\* or all the node knows and itself; they are in order of distance, and a
\* target that is known comes first.
SearchesFillUp ==
    \A target \in Address :
        LET found == get_closest_nodes_to_key(Self, table, target) IN
        /\ Len(found) = Min({KValue, Cardinality(Contacts(table)) + 1})
        /\ \A i, j \in DOMAIN found : i < j => Closer(found[i], found[j], target)
        /\ find_node_id(Self, table, target) /\ KValue > 0 => found[1] = target

\* The search with which a node joins, for itself, finds the closest contacts.
SelfSearchIsExact ==
    ToSet(get_k_closest_nodes(Self, table, Self, {})) = Closest(Contacts(table), Self)

\* A node that is among the k_value closest of all it knows finds itself in the
\* search, so it stores what it ought to store, whatever the search misses.
StoresWhatItShould ==
    \A key \in Address :
        Self \in Closest(Contacts(table) \cup {Self}, key) =>
            Self \in ToSet(get_closest_nodes_to_key(Self, table, key))
=============================================================================
