------------------------- MODULE RoutingTableProofs -------------------------
(***************************************************************************)
(* Theorems about RoutingTable for any width of addresses, contacts,       *)
(* k_value and bucket limit.                                               *)
(***************************************************************************)
EXTENDS RoutingTable, BucketsProofs

\* What a search of the buckets may rely on: no bucket loses track of what was
\* inserted, and with no limit nothing is ever dropped.
IInv ==
    /\ TypeOK
    /\ MostRecentStay
    /\ \A b \in Bucket : ToSet(table[b]) \subseteq inserted
    /\ \A n \in inserted \ Contacts(table) : get_bucket_index(Self, n) \in Bucket => MaxEntries > 0

LEMMA InitEstablishes == Init => IInv
<1> SUFFICES ASSUME Init PROVE IInv
  OBVIOUS
<1>1. \A b \in Bucket : table[b] = <<>>
  BY DEF Init, NoContacts
<1>2. table \in [Bucket -> Seq(Contact \ {Self})]
  BY DEF Init, NoContacts
<1>3. \A b \in Bucket : DOMAIN table[b] = {} /\ Len(table[b]) = 0 /\ ToSet(table[b]) = {}
  BY <1>1 DEF ToSet
<1>4. \A b \in Bucket : IsInjective(table[b])
  BY <1>3 DEF IsInjective
<1>5. inserted = {} /\ after = {} /\ MaxEntries \in Nat
  BY BucketsAssumption DEF Init
<1>6. TypeOK
  BY <1>2, <1>3, <1>4, <1>5 DEF TypeOK
<1>7. MostRecentStay
  BY <1>3, <1>5 DEF MostRecentStay
<1> QED
  BY <1>3, <1>5, <1>6, <1>7 DEF IInv

\* One insertion: its bucket changes as InsertFacts says, the others keep theirs.
LEMMA InsertKeeps ==
    ASSUME IInv, NEW n \in Contact, n # Self, Insert(n)
    PROVE  IInv'
<1> DEFINE home == get_bucket_index(Self, n)
           S == Contact \ {Self}
<1>1. /\ table \in [Bucket -> Seq(S)]
      /\ inserted \subseteq Contact
      /\ after \subseteq inserted \X inserted
      /\ \A b \in Bucket :
            /\ \A i \in DOMAIN table[b] : get_bucket_index(Self, table[b][i]) = b
            /\ IsInjective(table[b])
            /\ MaxEntries > 0 => Len(table[b]) <= MaxEntries
      /\ \A b \in Bucket : ToSet(table[b]) \subseteq inserted
      /\ MaxEntries \in Nat
      /\ n \in S
  BY BucketsAssumption DEF IInv, TypeOK
<1>2. /\ table' = [table EXCEPT ![home] = InsertInto(@, n)]
      /\ inserted' = inserted \cup {n}
      /\ after' = {p \in after : p[1] # n /\ p[2] # n}
                  \cup {<<m, n>> : m \in inserted \ {n}}
  BY DEF Insert, insert_contact
<1> HIDE DEF home
<1>3. /\ \A m, k : <<m, k>> \in after /\ m # n /\ k # n => <<m, k>> \in after'
      /\ \A m \in inserted \ {n} : <<m, n>> \in after'
      /\ after' \subseteq inserted' \X inserted'
  BY <1>1, <1>2
<1>4. \A b \in Bucket : b # home => table'[b] = table[b]
  BY <1>1, <1>2
<1>5. ASSUME home \in Bucket
      PROVE  table'[home] = InsertInto(table[home], n)
  BY <1>1, <1>2, <1>5
<1>6. \A b \in Bucket : b # home => \A i \in DOMAIN table[b] : table[b][i] # n
  BY <1>1 DEF home
<1>7. ASSUME NEW b \in Bucket
      PROVE  DOMAIN table[b] = 1 .. Len(table[b]) /\ Len(table[b]) \in Nat
  BY <1>1
<1>8. \A b \in Bucket : \A i, j \in DOMAIN table[b] :
         i < j => <<table[b][i], table[b][j]>> \in after
  BY DEF IInv, MostRecentStay
<1>9. ASSUME home \in Bucket
      PROVE  LET new == table'[home] IN
             /\ new \in Seq(S) /\ n \in ToSet(new)
             /\ \A i \in DOMAIN new : get_bucket_index(Self, new[i]) = home
             /\ IsInjective(new)
             /\ MaxEntries > 0 => Len(new) <= MaxEntries
             /\ MaxEntries > 0 /\ Len(table[home]) = MaxEntries => Len(new) = MaxEntries
             /\ ToSet(new) \subseteq ToSet(table[home]) \cup {n}
             /\ \A i, j \in DOMAIN new : i < j => <<new[i], new[j]>> \in after'
             /\ \A m \in ToSet(table[home]) \ ToSet(new) :
                   /\ MaxEntries > 0 /\ Len(new) = MaxEntries
                   /\ \A k \in ToSet(new) \ {n} : <<m, k>> \in after
  <2> DEFINE bucket == table[home]
             new == table'[home]
  <2>1. /\ bucket \in Seq(S) /\ IsInjective(bucket)
        /\ DOMAIN bucket = 1 .. Len(bucket) /\ Len(bucket) \in Nat
        /\ ToSet(bucket) = {bucket[i] : i \in DOMAIN bucket}
        /\ ToSet(bucket) \subseteq inserted
        /\ \A i \in DOMAIN bucket : get_bucket_index(Self, bucket[i]) = home
        /\ \A i, j \in DOMAIN bucket : bucket[i] = bucket[j] => i = j
        /\ \A i, j \in DOMAIN bucket : i < j => <<bucket[i], bucket[j]>> \in after
    BY <1>1, <1>7, <1>8, <1>9 DEF ToSet, IsInjective
  <2>2. new = InsertInto(bucket, n)
    BY <1>5, <1>9
  <2>3. /\ new \in Seq(S) /\ new # <<>> /\ new[Len(new)] = n
        /\ \E at \in [1 .. Len(new) - 1 -> DOMAIN bucket] :
              /\ \A i \in 1 .. Len(new) - 1 : new[i] = bucket[at[i]] /\ new[i] # n
              /\ \A i, j \in 1 .. Len(new) - 1 : i < j => at[i] < at[j]
              /\ \A m \in ToSet(bucket) \ ToSet(new) :
                    /\ MaxEntries > 0 /\ Len(new) = MaxEntries
                    /\ \E l \in DOMAIN bucket :
                          m = bucket[l] /\ \A i \in 1 .. Len(new) - 1 : l < at[i]
        /\ MaxEntries > 0 /\ Len(bucket) <= MaxEntries => Len(new) <= MaxEntries
        /\ MaxEntries > 0 /\ Len(bucket) = MaxEntries => Len(new) = MaxEntries
    <3>1. bucket \in Seq(S) /\ IsInjective(bucket) /\ n \in S /\ MaxEntries \in Nat
      BY <2>1, <1>1
    <3> HIDE DEF bucket, new, S
    <3>2. InsertInto(bucket, n) \in Seq(S) /\ Placed(bucket, n, InsertInto(bucket, n))
      BY <3>1, InsertFacts
    <3> QED
      BY <3>2, <2>2 DEF Placed
  <2>4. MaxEntries > 0 => Len(bucket) <= MaxEntries
    BY <1>1, <1>9
  <2> HIDE DEF bucket, new
  <2>5. PICK at \in [1 .. Len(new) - 1 -> DOMAIN bucket] :
              /\ \A i \in 1 .. Len(new) - 1 : new[i] = bucket[at[i]] /\ new[i] # n
              /\ \A i, j \in 1 .. Len(new) - 1 : i < j => at[i] < at[j]
              /\ \A m \in ToSet(bucket) \ ToSet(new) :
                    /\ MaxEntries > 0 /\ Len(new) = MaxEntries
                    /\ \E l \in DOMAIN bucket :
                          m = bucket[l] /\ \A i \in 1 .. Len(new) - 1 : l < at[i]
    BY <2>3
  <2>6. /\ DOMAIN new = 1 .. Len(new) /\ Len(new) \in Nat \ {0}
        /\ ToSet(new) = {new[i] : i \in 1 .. Len(new)}
        /\ n \in ToSet(new)
    BY <2>3 DEF ToSet
  <2>7. \A i \in 1 .. Len(new) : i \in 1 .. Len(new) - 1 \/ i = Len(new)
    <3> DEFINE k == Len(new)
    <3>1. k \in Nat
      BY <2>6
    <3> HIDE DEF k
    <3>2. \A i \in 1 .. k : i \in 1 .. k - 1 \/ i = k
      BY <3>1
    <3> QED
      BY <3>2 DEF k
  <2>8. ASSUME NEW i \in 1 .. Len(new) - 1
        PROVE  at[i] \in DOMAIN bucket /\ new[i] = bucket[at[i]] /\ new[i] # n
    BY <2>5
  <2>9. \A i \in DOMAIN new : get_bucket_index(Self, new[i]) = home
    <3>1. \A i \in 1 .. Len(new) - 1 : get_bucket_index(Self, new[i]) = home
      BY <2>1, <2>8
    <3>2. get_bucket_index(Self, new[Len(new)]) = home
      BY <2>3 DEF home
    <3> QED
      BY <3>1, <3>2, <2>6, <2>7
  <2>10. IsInjective(new)
    <3>1. ASSUME NEW i \in 1 .. Len(new) - 1, NEW j \in 1 .. Len(new) - 1, new[i] = new[j]
          PROVE  i = j
      <4>1. at[i] = at[j]
        BY <3>1, <2>1, <2>8
      <4>2. at[i] \in Int /\ at[j] \in Int
        BY <2>1, <2>8
      <4>3. ~ (i < j) /\ ~ (j < i)
        BY <4>1, <4>2, <2>5
      <4> QED
        BY <4>3, <2>6
    <3>2. \A i, j \in 1 .. Len(new) : new[i] = new[j] => i = j
      BY <3>1, <2>3, <2>7, <2>8
    <3> QED
      BY <3>2, <2>6 DEF IsInjective
  <2>11. ToSet(new) \subseteq ToSet(bucket) \cup {n}
    <3>1. \A i \in 1 .. Len(new) - 1 : new[i] \in ToSet(bucket)
      BY <2>1, <2>8
    <3>2. ASSUME NEW m \in ToSet(new)
          PROVE  m \in ToSet(bucket) \cup {n}
      <4>1. PICK i \in 1 .. Len(new) : m = new[i]
        BY <2>6
      <4> QED
        BY <4>1, <3>1, <2>3, <2>7
    <3> QED
      BY <3>2
  <2>12. ASSUME NEW i \in DOMAIN new, NEW j \in DOMAIN new, i < j
         PROVE  <<new[i], new[j]>> \in after'
    <3>1. i \in 1 .. Len(new) - 1
      BY <2>12, <2>6
    <3>2. CASE j = Len(new)
      <4>1. new[i] \in inserted \ {n}
        BY <3>1, <2>1, <2>8
      <4> QED
        BY <4>1, <3>2, <2>3, <1>3
    <3>3. CASE j \in 1 .. Len(new) - 1
      <4>1. <<bucket[at[i]], bucket[at[j]]>> \in after
        BY <3>1, <3>3, <2>12, <2>1, <2>5, <2>8
      <4> QED
        BY <4>1, <3>1, <3>3, <2>8, <1>3
    <3> QED
      BY <3>2, <3>3, <2>6, <2>7
  <2>13. ASSUME NEW m \in ToSet(bucket) \ ToSet(new), NEW k \in ToSet(new) \ {n}
         PROVE  <<m, k>> \in after
    <3>1. PICK l \in DOMAIN bucket :
             m = bucket[l] /\ \A i \in 1 .. Len(new) - 1 : l < at[i]
      BY <2>5
    <3>2. PICK i \in 1 .. Len(new) - 1 : k = new[i]
      <4>1. PICK i \in 1 .. Len(new) : k = new[i]
        BY <2>6
      <4> QED
        BY <4>1, <2>3, <2>7
    <3> QED
      BY <3>1, <3>2, <2>1, <2>8
  <2>14. MaxEntries > 0 => Len(new) <= MaxEntries
    BY <2>3, <2>4
  <2> QED
    BY <2>3, <2>5, <2>6, <2>9, <2>10, <2>11, <2>12, <2>13, <2>14 DEF bucket, new
<1>10. table' \in [Bucket -> Seq(S)]
  BY <1>1, <1>2, <1>4, <1>9
<1>11. ASSUME NEW b \in Bucket
       PROVE  /\ \A i \in DOMAIN table'[b] : get_bucket_index(Self, table'[b][i]) = b
              /\ IsInjective(table'[b])
              /\ MaxEntries > 0 => Len(table'[b]) <= MaxEntries
              /\ ToSet(table'[b]) \subseteq inserted'
              /\ \A i, j \in DOMAIN table'[b] :
                    i < j => <<table'[b][i], table'[b][j]>> \in after'
  <2>1. CASE b = home
    BY <2>1, <1>1, <1>2, <1>9
  <2>2. CASE b # home
    BY <2>2, <1>1, <1>2, <1>3, <1>4, <1>6, <1>8
  <2> QED
    BY <2>1, <2>2
<1>12. Contacts(table) = UNION {ToSet(table[b]) : b \in Bucket}
       /\ Contacts(table)' = UNION {ToSet(table'[b]) : b \in Bucket}
  BY DEF Contacts
<1>13. ASSUME NEW b \in Bucket, NEW p \in inserted' \ Contacts(table)', get_bucket_index(Self, p) = b
       PROVE  /\ MaxEntries > 0 /\ Len(table'[b]) = MaxEntries
              /\ \A m \in ToSet(table'[b]) : <<p, m>> \in after'
  <2>1. p # n /\ p \in inserted
    BY <1>2, <1>9, <1>12, <1>13 DEF home
  <2>2. CASE p \notin Contacts(table)
    <3>1. /\ Len(table[b]) = MaxEntries /\ MaxEntries > 0
          /\ \A m \in ToSet(table[b]) : <<p, m>> \in after
      BY <2>1, <2>2, <1>13 DEF IInv, MostRecentStay
    <3>2. CASE b = home
      BY <3>1, <3>2, <2>1, <1>3, <1>9
    <3>3. CASE b # home
      <4>1. \A m \in ToSet(table[b]) : m # n
        BY <3>3, <1>6 DEF ToSet
      <4> QED
        BY <4>1, <3>1, <3>3, <2>1, <1>3, <1>4
    <3> QED
      BY <3>2, <3>3
  <2>3. CASE p \in Contacts(table)
    <3>1. PICK c \in Bucket : p \in ToSet(table[c])
      BY <2>3, <1>12
    <3>2. c = b
      BY <3>1, <1>1, <1>13 DEF ToSet
    <3>3. p \notin ToSet(table'[b])
      BY <1>12, <1>13
    <3>4. b = home
      BY <3>1, <3>2, <3>3, <1>4
    <3>5. /\ MaxEntries > 0 /\ Len(table'[b]) = MaxEntries
          /\ \A k \in ToSet(table'[b]) \ {n} : <<p, k>> \in after
      BY <3>1, <3>2, <3>3, <3>4, <1>9
    <3> QED
      BY <3>5, <2>1, <1>3
  <2> QED
    BY <2>2, <2>3
<1>14. TypeOK'
  <2>1. inserted' \subseteq Contact
    BY <1>1, <1>2
  <2> QED
    BY <2>1, <1>3, <1>10, <1>11 DEF TypeOK
<1>15. MostRecentStay'
  BY <1>11, <1>13 DEF MostRecentStay
<1>16. \A b \in Bucket : ToSet(table'[b]) \subseteq inserted'
  BY <1>11
<1>17. \A p \in inserted' \ Contacts(table)' : get_bucket_index(Self, p) \in Bucket => MaxEntries > 0
  BY <1>13
<1> QED
  BY <1>14, <1>15, <1>16, <1>17 DEF IInv

\* Every reachable table satisfies the strengthened invariant.
THEOREM Invariance == Spec => []IInv
<1>1. ASSUME IInv, [Next]_vars PROVE IInv'
  <2>1. CASE UNCHANGED vars
    BY <1>1, <2>1 DEF vars, IInv, TypeOK, MostRecentStay, Contacts
  <2>2. ASSUME NEW n \in Contact, Insert(n)
        PROVE  IInv'
    <3>1. CASE n = Self
      BY <2>1, <2>2, <3>1 DEF Insert, insert_contact, vars
    <3>2. CASE n # Self
      BY <1>1, <2>2, <3>2, InsertKeeps
    <3> QED
      BY <3>1, <3>2
  <2> QED
    BY <1>1, <2>1, <2>2 DEF Next
<1> QED
  BY <1>1, InitEstablishes, PTL DEF Spec

\* A contact sits in the bucket of its address, once, and a bucket never outgrows
\* a limit that is not 0 (insert_contact).
THEOREM TypeCorrect == Spec => []TypeOK
<1>1. IInv => TypeOK
  BY DEF IInv
<1> QED
  BY <1>1, Invariance, PTL

\* Buckets keep what was inserted last, in that order, and what is gone was older
\* than everything left in a full bucket (insert_contact, evict_contact).
THEOREM RecentContactsStay == Spec => []MostRecentStay
<1>1. IInv => MostRecentStay
  BY DEF IInv
<1> QED
  BY <1>1, Invariance, PTL

\* A table that satisfies TypeOK is filed as the lemmas about searches assume.
LEMMA TypeFiles == TypeOK => WellFiled(Self, table)
<1> SUFFICES ASSUME TypeOK, NEW b \in Bucket, NEW n \in ToSet(table[b])
             PROVE  n \in Address /\ n # Self /\ get_bucket_index(Self, n) = b
  BY DEF WellFiled
<1>1. /\ table[b] \in Seq(Contact \ {Self})
      /\ \A i \in DOMAIN table[b] : get_bucket_index(Self, table[b][i]) = b
  BY DEF TypeOK
<1>2. PICK i \in DOMAIN table[b] : n = table[b][i]
  BY DEF ToSet
<1>3. n \in Contact \ {Self}
  BY <1>1, <1>2
<1> QED
  BY <1>1, <1>2, <1>3, RoutingAssumption

\* No search stops at the end of a bucket while it is short of nodes that another
\* bucket has, and what it returns is sorted (get_k_closest_nodes).
THEOREM SearchesAreFull == Spec => []SearchesFillUp
<1>1. TypeOK => SearchesFillUp
  <2> SUFFICES ASSUME TypeOK, NEW target \in Address
               PROVE  LET found == get_closest_nodes_to_key(Self, table, target) IN
                      /\ Len(found) = Min({KValue, Cardinality(Contacts(table)) + 1})
                      /\ \A i, j \in DOMAIN found : i < j => Closer(found[i], found[j], target)
                      /\ find_node_id(Self, table, target) /\ KValue > 0 => found[1] = target
    BY DEF SearchesFillUp
  <2>1. WellFiled(Self, table) /\ Self \in Address
    BY TypeFiles, RoutingAssumption
  <2> QED
    BY <2>1, SearchFills
<1> QED
  BY <1>1, TypeCorrect, PTL

\* The search a node joins with misses no contact that is closer than one it
\* returns (get_k_closest_nodes, visiting the buckets from the lowest up).
THEOREM JoinSearchIsExact == Spec => []SelfSearchIsExact
<1>1. TypeOK => SelfSearchIsExact
  BY TypeFiles, RoutingAssumption, SelfSearchFacts DEF SelfSearchIsExact
<1> QED
  BY <1>1, TypeCorrect, PTL

\* Whatever a search misses, a node that ought to store a key finds itself among
\* the closest (Node::get_closest_nodes_to_key).
THEOREM StorersFindThemselves == Spec => []StoresWhatItShould
<1>1. TypeOK => StoresWhatItShould
  BY TypeFiles, RoutingAssumption, FindsItself DEF StoresWhatItShould
<1> QED
  BY <1>1, TypeCorrect, PTL
=============================================================================
