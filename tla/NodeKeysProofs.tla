--------------------------- MODULE NodeKeysProofs ---------------------------
(***************************************************************************)
(* Theorems about NodeKeys for any processes, faults and number of pairs.  *)
(***************************************************************************)
EXTENDS NodeKeys, TLAPS

----------------------------------------------------------------------------
(* Types *)

LEMMA InitTypeOK == Init => TypeOK
BY KeysAssumption DEF Init, TypeOK, Off, State, Starting, Pair, Read

\* What was a pair, or read as one, remains so when another pair is made.
LEMMA PairsGrow ==
    ASSUME TypeOK, made' = made + 1
    PROVE  /\ Pair \subseteq Pair' /\ Read \subseteq Read' /\ State \subseteq State'
           /\ made + 1 \in Pair'
<1>1. Pair \subseteq Pair' /\ made + 1 \in Pair'
  BY KeysAssumption DEF TypeOK, Pair
<1>2. Read \subseteq Read'
  BY <1>1 DEF Read
<1> QED
  BY <1>1, <1>2 DEF State, Starting

\* A step of process p that makes no pair keeps the types if p's new state and
\* the two files have theirs.
LEMMA OneProcessChanges ==
    ASSUME TypeOK, NEW p \in Process, NEW s \in State, made' = made,
           process' = [process EXCEPT ![p] = s],
           s.at \in {"create_public", "flush_public", "flush_private",
                     "reread_private", "flush_derived"} => s.pair \in Pair,
           private_file' \in Read, public_file' \in Read,
           used' \subseteq Read, happened' \subseteq Faults
    PROVE  TypeOK'
<1>1. Pair' = Pair /\ Read' = Read /\ State' = State
  BY DEF Pair, Read, State
<1>2. process' \in [Process -> State]
  BY DEF TypeOK
<1>3. \A q \in Process :
          process'[q].at \in {"create_public", "flush_public", "flush_private",
                              "reread_private", "flush_derived"} => process'[q].pair \in Pair
  BY DEF TypeOK
<1> QED
  BY <1>1, <1>2, <1>3 DEF TypeOK

LEMMA NextTypeOK == TypeOK /\ [Next]_vars => TypeOK'
<1> SUFFICES ASSUME TypeOK, [Next]_vars PROVE TypeOK'
  OBVIOUS
<1>1. ASSUME NEW p \in Process,
             Start(p) \/ End(p) \/ Kill(p) \/ ReadPrivate(p) \/ ReadPublic(p) \/ setup_keys(p)
      PROVE  TypeOK'
  <2> DEFINE s == process[p]
  <2>0. s \in State /\ process' = [process EXCEPT ![p] = process'[p]]
        /\ private_file \in Read /\ public_file \in Read /\ used \subseteq Read
        /\ happened \subseteq Faults
    BY <1>1 DEF TypeOK, Start, End, Kill, ReadPrivate, ReadPublic, setup_keys, KeysThere, Abort,
       CreatePrivate, CreatePublic, DerivePublic, FlushPublic, FlushPrivate, RereadPrivate,
       RereadPublic
  <2>1. CASE Start(p) \/ End(p) \/ Kill(p)
    <3>1. process'[p] = [Off EXCEPT !.at = "read_private"] \/ process'[p] = Off
      BY <2>1 DEF Start, End, Kill, TypeOK
    <3>2. process'[p] \in State /\ process'[p].at \in {"read_private", "off"}
      BY <3>1 DEF Off, State, Read, Starting
    <3>3. UNCHANGED <<private_file, public_file, made, used>> /\ happened' \subseteq Faults
      BY <2>0, <2>1 DEF Start, End, Kill
    <3> QED
      BY <2>0, <3>2, <3>3, OneProcessChanges
  <2>2. CASE ReadPrivate(p) \/ ReadPublic(p) \/ RereadPrivate(p) \/ RereadPublic(p)
    <3>1. process'[p] \in State /\ process'[p].at \in {"read_public", "setup", "reread_public", "ready"}
      BY <2>0, <2>2 DEF ReadPrivate, ReadPublic, RereadPrivate, RereadPublic, TypeOK, State, Starting
    <3>2. UNCHANGED <<private_file, public_file, made, happened>> /\ used' \subseteq Read
      BY <2>0, <2>2 DEF ReadPrivate, ReadPublic, RereadPrivate, RereadPublic
    <3> QED
      BY <2>0, <3>1, <3>2, OneProcessChanges
  <2>3. CASE KeysThere(p) \/ Abort(p)
    <3>1. process'[p] \in State /\ process'[p].at \in {"ready", "aborted"}
      BY <2>0, <2>3 DEF KeysThere, Abort, TypeOK, State, Starting
    <3>2. UNCHANGED <<private_file, public_file, made, happened>> /\ used' \subseteq Read
      BY <2>0, <2>3 DEF KeysThere, Abort, State
    <3> QED
      BY <2>0, <3>1, <3>2, OneProcessChanges
  <2>4. CASE CreatePrivate(p)
    <3>1. /\ made' = made + 1 /\ made' \in 0 .. MaxPairs
          /\ private_file' = None /\ UNCHANGED <<public_file, used, happened>>
      BY <2>4, KeysAssumption DEF CreatePrivate, TypeOK
    <3> DEFINE t == [s EXCEPT !.at = "create_public", !.pair = made + 1]
    <3>0. process' = [process EXCEPT ![p] = t]
      BY <2>4 DEF CreatePrivate, TypeOK
    <3>2. t \in State' /\ t.pair = made + 1
      BY <2>0, <3>1, PairsGrow DEF State, Starting
    <3> HIDE DEF t
    <3>3. process' \in [Process -> State']
      <4>1. process \in [Process -> State'] /\ t \in State'
        BY <3>1, <3>2, PairsGrow DEF TypeOK
      <4> QED
        BY <3>0, <4>1
    <3>4. \A q \in Process :
             process'[q].at \in {"create_public", "flush_public", "flush_private",
                                 "reread_private", "flush_derived"} => process'[q].pair \in Pair'
      <4>1. process'[p].pair = made + 1
        BY <3>0, <3>2 DEF TypeOK
      <4>2. \A q \in Process : q # p => process'[q] = process[q]
        BY <3>0 DEF TypeOK
      <4> QED
        BY <3>1, <4>1, <4>2, PairsGrow DEF TypeOK
    <3>5. private_file' \in Read' /\ public_file' \in Read' /\ used' \subseteq Read'
      BY <2>0, <3>1, PairsGrow DEF Read
    <3> QED
      BY <2>0, <3>1, <3>3, <3>4, <3>5 DEF TypeOK
  <2>5. CASE CreatePublic(p) \/ DerivePublic(p)
    <3>0. Pkcs1 \subseteq Pair
      BY KeysAssumption DEF TypeOK, Pair, Pkcs1
    <3>1. /\ process'[p] \in State /\ process'[p].at \in {"flush_public", "flush_derived"}
          /\ process'[p].pair \in Pair
      <4>1. CASE CreatePublic(p)
        BY <2>0, <4>1 DEF CreatePublic, TypeOK, State, Starting
      <4>2. CASE DerivePublic(p)
        <5>1. s.private \in Pair
          BY <3>0, <4>2 DEF DerivePublic
        <5> QED
          BY <2>0, <4>2, <5>1 DEF DerivePublic, TypeOK, State, Starting
      <4> QED
        BY <2>5, <4>1, <4>2
    <3>2. UNCHANGED <<private_file, made, used, happened>> /\ public_file' \in Read
      BY <2>5 DEF CreatePublic, DerivePublic, Read
    <3> QED
      BY <2>0, <3>1, <3>2, OneProcessChanges
  <2>6. CASE FlushPublic(p) \/ FlushPrivate(p)
    <3>1. s.pair \in Pair
      BY <2>6 DEF FlushPublic, FlushPrivate, TypeOK
    <3>2. /\ process'[p] \in State
          /\ process'[p].at \in {"flush_private", "reread_public", "reread_private"}
          /\ process'[p].pair = s.pair
      BY <2>0, <2>6 DEF FlushPublic, FlushPrivate, TypeOK, State, Starting
    <3>3. /\ UNCHANGED <<made, used>> /\ happened' \subseteq Faults
          /\ private_file' \in Read /\ public_file' \in Read
      BY <2>0, <2>6, <3>1 DEF FlushPublic, FlushPrivate, Read
    <3> QED
      BY <2>0, <3>1, <3>2, <3>3, OneProcessChanges
  <2> QED
    BY <1>1, <2>1, <2>2, <2>3, <2>4, <2>5, <2>6 DEF setup_keys
<1>2. CASE UNCHANGED vars
  BY <1>2 DEF vars, TypeOK, Pair, Read, State
<1> QED
  BY <1>1, <1>2 DEF Next

----------------------------------------------------------------------------
(* What the files hold while at most one process starts at a time and every *)
(* write succeeds                                                           *)

\* What process p knows of the files at each step of its start, and once it is
\* through.
Aware(p) ==
    LET s == process[p] IN
    /\ s.at = "read_public" => s.private = private_file
    /\ s.at = "setup" => s.private = private_file /\ s.public = public_file
    /\ s.at \in {"create_public", "flush_public"} => private_file = None /\ public_file = None
    /\ s.at = "flush_private" => private_file = None /\ public_file = s.pair
    /\ s.at = "reread_private" => private_file = s.pair /\ public_file = s.pair
    /\ s.at = "flush_derived" =>
           private_file = s.pair /\ s.private = s.pair /\ public_file = None
    /\ s.at = "reread_public" =>
           private_file # None /\ public_file = private_file /\ s.private = private_file
    /\ s.at = "ready" =>
           /\ private_file # None /\ public_file = private_file
           /\ s.private = private_file /\ s.public = private_file

\* A file is missing or whole, both are of one pair, and everyone used that pair.
FilesMatch ==
    /\ private_file # Torn /\ public_file # Torn
    /\ private_file # None /\ public_file # None => private_file = public_file
    /\ \A k \in used : private_file = k /\ public_file = k /\ k # None

OneStarts == \A p, q \in Process : InSetup(p) /\ InSetup(q) => p = q

Undisturbed == OneStarts /\ FilesMatch /\ \A p \in Process : Aware(p)

IInv == TypeOK /\ (happened \subseteq {"kill"} => Undisturbed)

LEMMA HistoryGrows ==
    ASSUME [Next]_vars
    PROVE  happened \subseteq happened'
BY DEF Next, Start, End, Kill, ReadPrivate, ReadPublic, setup_keys, KeysThere, Abort,
   CreatePrivate, CreatePublic, DerivePublic, FlushPublic, FlushPrivate, RereadPrivate,
   RereadPublic, vars

\* A step of process p that leaves the files alone disturbs nothing if p is as
\* aware of them as before and starts alone.
LEMMA FilesUntouched ==
    ASSUME TypeOK, Undisturbed, NEW p \in Process,
           process' = [process EXCEPT ![p] = process'[p]],
           UNCHANGED <<private_file, public_file>>,
           Aware(p)',
           InSetup(p)' => \A q \in Process \ {p} : ~InSetup(q),
           \A k \in used' \ used : k = private_file /\ k = public_file /\ k # None
    PROVE  Undisturbed'
<1>1. \A q \in Process : q # p => process'[q] = process[q]
  BY DEF TypeOK
<1>2. \A q \in Process : Aware(q)'
  BY <1>1 DEF Undisturbed, Aware
<1>3. OneStarts'
  BY <1>1 DEF Undisturbed, OneStarts, InSetup
<1>4. FilesMatch'
  BY DEF Undisturbed, FilesMatch
<1> QED
  BY <1>2, <1>3, <1>4 DEF Undisturbed

\* A step of process p that writes while a file is missing disturbs nothing if the
\* files match afterwards: nobody else is starting, nobody is through.
LEMMA FilesWritten ==
    ASSUME TypeOK, Undisturbed, NEW p \in Process, InSetup(p),
           process' = [process EXCEPT ![p] = process'[p]],
           private_file = None \/ public_file = None,
           private_file' # Torn, public_file' # Torn,
           private_file' # None /\ public_file' # None => private_file' = public_file',
           Aware(p)', used' = used
    PROVE  Undisturbed'
<1>1. \A q \in Process : q # p => process'[q] = process[q] /\ ~InSetup(q)
  BY DEF TypeOK, Undisturbed, OneStarts
<1>2. ASSUME NEW q \in Process, q # p PROVE Aware(q)'
  <2>1. process'[q].at \notin Starting /\ process'[q].at # "ready"
    BY <1>1, <1>2 DEF Undisturbed, Aware, InSetup
  <2> QED
    BY <2>1 DEF Aware, Starting
<1>3. OneStarts'
  BY <1>1 DEF OneStarts, InSetup
<1>4. FilesMatch'
  BY DEF Undisturbed, FilesMatch
<1> QED
  BY <1>2, <1>3, <1>4 DEF Undisturbed

LEMMA InitIInv == Init => IInv
BY InitTypeOK, KeysAssumption
   DEF Init, IInv, Undisturbed, OneStarts, InSetup, Starting, FilesMatch, Aware, Off

LEMMA NextIInv == IInv /\ [Next]_vars => IInv'
<1> SUFFICES ASSUME TypeOK, Undisturbed, [Next]_vars, happened' \subseteq {"kill"}
             PROVE  Undisturbed'
  BY NextTypeOK, HistoryGrows DEF IInv
<1>1. ASSUME NEW p \in Process,
             Start(p) \/ End(p) \/ Kill(p) \/ ReadPrivate(p) \/ ReadPublic(p) \/ setup_keys(p)
      PROVE  Undisturbed'
  <2> DEFINE s == process[p]
  <2>1. /\ process' = [process EXCEPT ![p] = process'[p]]
        /\ s \in State
        /\ Aware(p)
    BY <1>1 DEF Undisturbed, TypeOK, Start, End, Kill, ReadPrivate, ReadPublic, setup_keys,
       KeysThere, Abort, CreatePrivate, CreatePublic, DerivePublic, FlushPublic, FlushPrivate,
       RereadPrivate, RereadPublic
  <2>2. InSetup(p) => \A q \in Process \ {p} : ~InSetup(q)
    BY DEF Undisturbed, OneStarts
  <2>3. CASE Start(p) \/ End(p) \/ Kill(p)
    <3>1. /\ process'[p].at \in {"off", "read_private"}
          /\ UNCHANGED <<private_file, public_file, used>>
      BY <2>3 DEF Start, End, Kill, TypeOK, Off
    <3>2. InSetup(p)' => \A q \in Process \ {p} : ~InSetup(q)
      BY <2>3, <3>1 DEF Start, End, Kill, InSetup, Starting, Off, TypeOK
    <3>3. Aware(p)'
      BY <3>1 DEF Aware
    <3> QED
      BY <2>1, <3>1, <3>2, <3>3, FilesUntouched
  <2>4. CASE ReadPrivate(p) \/ ReadPublic(p)
    <3>1. /\ InSetup(p) /\ UNCHANGED <<private_file, public_file, used>>
          /\ Aware(p)'
      BY <2>1, <2>4 DEF ReadPrivate, ReadPublic, TypeOK, State, InSetup, Starting, Aware
    <3> QED
      BY <2>1, <2>2, <3>1, FilesUntouched
  <2>5. CASE KeysThere(p) \/ Abort(p)
    <3>1. /\ InSetup(p) /\ UNCHANGED <<private_file, public_file>>
          /\ s.private = private_file /\ s.public = public_file
      BY <2>1, <2>5 DEF KeysThere, Abort, InSetup, Starting, Aware
    <3>2. Aware(p)'
      BY <2>1, <2>5, <3>1 DEF KeysThere, Abort, TypeOK, State, Undisturbed, FilesMatch, Aware
    <3>3. \A k \in used' \ used : k = private_file /\ k = public_file /\ k # None
      BY <2>5, <3>1 DEF KeysThere, Abort, Undisturbed, FilesMatch
    <3> QED
      BY <2>1, <2>2, <3>1, <3>2, <3>3, FilesUntouched
  <2>6. CASE RereadPrivate(p) \/ RereadPublic(p)
    <3>1. /\ InSetup(p) /\ UNCHANGED <<private_file, public_file>>
          /\ private_file = public_file /\ private_file # None
      BY <2>1, <2>6, KeysAssumption
         DEF RereadPrivate, RereadPublic, InSetup, Starting, Aware, TypeOK, Pair
    <3>2. Aware(p)'
      BY <2>1, <2>6, <3>1 DEF RereadPrivate, RereadPublic, TypeOK, State, Aware
    <3>3. \A k \in used' \ used : k = private_file /\ k = public_file /\ k # None
      BY <2>6, <3>1 DEF RereadPrivate, RereadPublic
    <3> QED
      BY <2>1, <2>2, <3>1, <3>2, <3>3, FilesUntouched
  <2>7. CASE CreatePrivate(p) \/ CreatePublic(p) \/ DerivePublic(p)
    <3>1. InSetup(p) /\ used' = used
      BY <2>7 DEF CreatePrivate, CreatePublic, DerivePublic, InSetup, Starting
    <3>2. /\ private_file = None \/ public_file = None
          /\ private_file' # Torn /\ public_file' = None
          /\ Aware(p)'
      BY <2>1, <2>7, KeysAssumption DEF CreatePrivate, CreatePublic, DerivePublic, TypeOK, State,
         Undisturbed, FilesMatch, Aware
    <3> QED
      BY <2>1, <3>1, <3>2, KeysAssumption, FilesWritten
  <2>8. CASE FlushPublic(p)
    <3>1. InSetup(p) /\ used' = used /\ public_file' = s.pair /\ private_file' = private_file
      BY <2>8 DEF FlushPublic, InSetup, Starting
    <3>2. s.pair \in Pair
      BY <2>8 DEF FlushPublic, TypeOK
    <3>3. public_file = None /\ private_file \in {None, s.pair} /\ Aware(p)'
      BY <2>1, <2>8, <3>1, <3>2, KeysAssumption DEF FlushPublic, TypeOK, State, Aware, Pair
    <3> QED
      BY <2>1, <3>1, <3>2, <3>3, KeysAssumption, FilesWritten DEF Pair
  <2>9. CASE FlushPrivate(p)
    <3>1. InSetup(p) /\ used' = used /\ public_file' = public_file
      BY <2>9 DEF FlushPrivate, InSetup, Starting
    <3>2. s.pair \in Pair /\ private_file = None /\ public_file = s.pair
      BY <2>1, <2>9 DEF FlushPrivate, TypeOK, Aware
    <3>3. private_file' = s.pair
      BY <2>9, <3>2 DEF FlushPrivate
    <3>4. Aware(p)'
      BY <2>1, <2>9, <3>1, <3>2, <3>3 DEF FlushPrivate, TypeOK, State, Aware
    <3> QED
      BY <2>1, <3>1, <3>2, <3>3, <3>4, KeysAssumption, FilesWritten DEF Pair
  <2> QED
    BY <1>1, <2>3, <2>4, <2>5, <2>6, <2>7, <2>8, <2>9 DEF setup_keys
<1>2. CASE UNCHANGED vars
  BY <1>2 DEF vars, Undisturbed, OneStarts, InSetup, FilesMatch, Aware
<1> QED
  BY <1>1, <1>2 DEF Next

LEMMA Invariance == Spec => []IInv
BY InitIInv, NextIInv, PTL DEF Spec

----------------------------------------------------------------------------
(* Theorems *)

\* Every variable keeps its type, and whoever writes a pair has one.
THEOREM TypeCorrect == Spec => []TypeOK
BY InitTypeOK, NextTypeOK, PTL DEF Spec

\* Unless a write fails or two processes start at once, whoever gets through its
\* start signs messages that are verified, whatever starts were killed before.
THEOREM ReadyAreAccepted == Spec => []ReadyIsAccepted
<1>1. IInv => ReadyIsAccepted
  <2> SUFFICES ASSUME IInv, happened \subseteq {"kill"}, NEW p \in Process,
                      process[p].at = "ready"
               PROVE  CanSign(process[p]) /\ extract_and_verify(sign_and_wrap(process[p]))
    BY DEF ReadyIsAccepted
  <2>1. process[p].private = private_file /\ process[p].public = private_file
        /\ private_file \in Pair
    BY DEF IInv, Undisturbed, FilesMatch, Aware, TypeOK, Read
  <2> QED
    BY <2>1 DEF CanSign, extract_and_verify, verify_signature, sign_and_wrap
<1> QED
  BY <1>1, Invariance, PTL

\* And the port has one identity for good.
THEOREM IdentityIsOne == Spec => []OneIdentity
<1>1. IInv => OneIdentity
  BY DEF IInv, Undisturbed, FilesMatch, OneIdentity
<1> QED
  BY <1>1, Invariance, PTL

\* Unless a write fails or two processes start at once, nothing brings back a
\* private key that was lost: nobody gets through its start any more.
THEOREM OrphansStay == Spec => OrphanedForever
<1>1. IInv /\ [Next]_vars =>
          [happened' \subseteq {"kill"} /\ Orphaned => Orphaned' /\ used' = used]_vars
  <2> SUFFICES ASSUME TypeOK, Undisturbed, Next, Orphaned, happened' \subseteq {"kill"}
               PROVE  Orphaned' /\ used' = used
    BY HistoryGrows DEF IInv
  <2>1. PICK p \in Process :
            Start(p) \/ End(p) \/ Kill(p) \/ ReadPrivate(p) \/ ReadPublic(p) \/ setup_keys(p)
    BY DEF Next
  <2>2. /\ process' = [process EXCEPT ![p] = process'[p]]
        /\ process[p] \in State
        /\ Aware(p)
    BY <2>1 DEF Undisturbed, TypeOK, Start, End, Kill, ReadPrivate, ReadPublic, setup_keys,
       KeysThere, Abort, CreatePrivate, CreatePublic, DerivePublic, FlushPublic, FlushPrivate,
       RereadPrivate, RereadPublic
  <2>3. \A q \in Process : q # p => process'[q] = process[q]
    BY <2>2 DEF TypeOK
  <2>4. private_file = None /\ public_file # None /\ process[p].at # "flush_private"
    BY DEF Orphaned
  <2>5. Start(p) \/ End(p) \/ Kill(p) \/ ReadPrivate(p) \/ ReadPublic(p) \/ Abort(p)
    <3>1. ~KeysThere(p) /\ ~CreatePrivate(p) /\ ~DerivePublic(p)
      BY <2>2, <2>4, KeysAssumption DEF KeysThere, CreatePrivate, DerivePublic, Aware, Pair, TypeOK
    <3>2. ~CreatePublic(p) /\ ~FlushPublic(p) /\ ~FlushPrivate(p)
      BY <2>2, <2>4, KeysAssumption
         DEF CreatePublic, FlushPublic, FlushPrivate, Aware, TypeOK, Pair
    <3>3. ~RereadPrivate(p) /\ ~RereadPublic(p)
      BY <2>2, <2>4, KeysAssumption DEF RereadPrivate, RereadPublic, Aware, TypeOK, Pair
    <3> QED
      BY <2>1, <3>1, <3>2, <3>3 DEF setup_keys
  <2>6. /\ UNCHANGED <<private_file, public_file, used>>
        /\ process'[p].at # "flush_private"
    BY <2>2, <2>5 DEF Start, End, Kill, ReadPrivate, ReadPublic, Abort, TypeOK, State, Off
  <2> QED
    BY <2>3, <2>4, <2>6 DEF Orphaned
<1> QED
  BY <1>1, Invariance, PTL DEF Spec, OrphanedForever

----------------------------------------------------------------------------
(* Files that no start repairs, whatever writes failed *)

\* What a process has read is what is in the files, while it does not write.
Current(p) ==
    LET s == process[p] IN
    /\ s.at \in {"read_public", "reread_public"} => s.private = private_file
    /\ s.at = "setup" => s.private = private_file /\ s.public = public_file
    /\ s.at = "flush_derived" => s.private = private_file

\* Starts that do not overlap have a current view of the files.
OneAtATime ==
    "shared" \notin happened => OneStarts /\ \A p \in Process : Current(p)

LEMMA NextOneAtATime == TypeOK /\ OneAtATime /\ [Next]_vars => OneAtATime'
<1> SUFFICES ASSUME TypeOK, OneStarts, \A p \in Process : Current(p), [Next]_vars,
                    "shared" \notin happened'
             PROVE  OneStarts' /\ \A p \in Process : Current(p)'
  BY HistoryGrows DEF OneAtATime
<1>1. ASSUME NEW p \in Process,
             Start(p) \/ End(p) \/ Kill(p) \/ ReadPrivate(p) \/ ReadPublic(p) \/ setup_keys(p)
      PROVE  OneStarts' /\ \A q \in Process : Current(q)'
  <2>1. /\ process' = [process EXCEPT ![p] = process'[p]]
        /\ process[p] \in State
        /\ Current(p)
    BY <1>1 DEF TypeOK, Start, End, Kill, ReadPrivate, ReadPublic, setup_keys,
       KeysThere, Abort, CreatePrivate, CreatePublic, DerivePublic, FlushPublic, FlushPrivate,
       RereadPrivate, RereadPublic
  <2>2. \A q \in Process : q # p => process'[q] = process[q]
    BY <2>1 DEF TypeOK
  <2>3. InSetup(p)' => \A q \in Process : q # p => ~InSetup(q)
    <3>1. CASE Start(p)
      BY <3>1 DEF Start
    <3>2. CASE End(p) \/ Kill(p)
      BY <3>2 DEF End, Kill, InSetup, Off, Starting, TypeOK
    <3>3. CASE ReadPrivate(p) \/ ReadPublic(p) \/ setup_keys(p)
      <4>1. InSetup(p)
        BY <3>3 DEF InSetup, Starting, ReadPrivate, ReadPublic, setup_keys, KeysThere, Abort,
           CreatePrivate, CreatePublic, DerivePublic, FlushPublic, FlushPrivate, RereadPrivate,
           RereadPublic
      <4> QED
        BY <4>1 DEF OneStarts
    <3> QED
      BY <1>1, <3>1, <3>2, <3>3
  <2>4. OneStarts'
    BY <2>2, <2>3 DEF OneStarts, InSetup
  <2>5. ASSUME NEW q \in Process, q # p
        PROVE  Current(q)'
    <3>1. CASE UNCHANGED <<private_file, public_file>>
      BY <2>2, <2>5, <3>1 DEF Current
    <3>2. CASE ~ UNCHANGED <<private_file, public_file>>
      <4>1. InSetup(p)
        BY <1>1, <3>2 DEF InSetup, Starting, Start, End, Kill, ReadPrivate, ReadPublic,
           setup_keys, KeysThere, Abort, CreatePrivate, CreatePublic, DerivePublic, FlushPublic,
           FlushPrivate, RereadPrivate, RereadPublic
      <4>2. ~InSetup(q)
        BY <2>5, <4>1 DEF OneStarts
      <4> QED
        BY <2>2, <2>5, <4>2 DEF Current, InSetup, Starting
    <3> QED
      BY <3>1, <3>2
  <2>6. Current(p)'
    <3>1. CASE Start(p) \/ End(p) \/ Kill(p) \/ KeysThere(p) \/ Abort(p)
               \/ CreatePrivate(p) \/ CreatePublic(p) \/ FlushPrivate(p) \/ RereadPublic(p)
      <4>1. process'[p].at \notin {"read_public", "reread_public", "setup", "flush_derived"}
        BY <2>1, <3>1 DEF Start, End, Kill, KeysThere, Abort, CreatePrivate, CreatePublic,
           FlushPrivate, RereadPublic, Off, TypeOK, State
      <4> QED
        BY <4>1 DEF Current
    <3>2. CASE ReadPrivate(p) \/ ReadPublic(p) \/ RereadPrivate(p) \/ DerivePublic(p)
      BY <2>1, <3>2 DEF Current, ReadPrivate, ReadPublic, RereadPrivate, DerivePublic, TypeOK, State
    <3>3. CASE FlushPublic(p)
      BY <2>1, <3>3 DEF Current, FlushPublic, TypeOK, State
    <3> QED
      BY <1>1, <3>1, <3>2, <3>3 DEF setup_keys
  <2> QED
    BY <2>4, <2>5, <2>6
<1>2. CASE UNCHANGED vars
  BY <1>2 DEF vars, OneStarts, InSetup, Current
<1> QED
  BY <1>1, <1>2 DEF Next

LEMMA OneAtATimeInvariance == Spec => [](TypeOK /\ OneAtATime)
<1>1. Init => OneAtATime
  BY DEF Init, OneAtATime, OneStarts, InSetup, Starting, Current, Off
<1> QED
  BY <1>1, InitTypeOK, NextTypeOK, NextOneAtATime, PTL DEF Spec

\* Files that have come to be useless, by failed writes or by kills, stay so as
\* long as starts do not overlap: whoever starts is aborted or goes on with keys
\* that nothing it sends is verified with.
THEOREM BrokenStays == Spec => BrokenForever
<1>1. TypeOK /\ OneAtATime /\ [Next]_vars =>
          [ "shared" \notin happened' /\ Broken =>
                Broken' /\ \A p \in Process : Accepted(p)' => Accepted(p)]_vars
  <2> SUFFICES ASSUME TypeOK, \A p \in Process : Current(p), Next, Broken
               PROVE  Broken' /\ \A p \in Process : Accepted(p)' => Accepted(p)
    BY HistoryGrows DEF OneAtATime
  <2>1. PICK p \in Process :
            Start(p) \/ End(p) \/ Kill(p) \/ ReadPrivate(p) \/ ReadPublic(p) \/ setup_keys(p)
    BY DEF Next
  <2>2. /\ process' = [process EXCEPT ![p] = process'[p]]
        /\ process[p] \in State
        /\ Current(p)
    BY <2>1 DEF TypeOK, Start, End, Kill, ReadPrivate, ReadPublic, setup_keys,
       KeysThere, Abort, CreatePrivate, CreatePublic, DerivePublic, FlushPublic, FlushPrivate,
       RereadPrivate, RereadPublic
  <2>3. \A q \in Process : q # p => process'[q] = process[q]
    BY <2>2 DEF TypeOK
  <2>4. Start(p) \/ End(p) \/ Kill(p) \/ ReadPrivate(p) \/ ReadPublic(p) \/ KeysThere(p)
        \/ Abort(p) \/ RereadPrivate(p) \/ RereadPublic(p)
    <3>1. ~CreatePublic(p) /\ ~FlushPublic(p) /\ ~FlushPrivate(p)
      BY DEF Broken, CreatePublic, FlushPublic, FlushPrivate
    <3>2. ~CreatePrivate(p) /\ ~DerivePublic(p)
      BY <2>2 DEF Broken, Usable, Current, CreatePrivate, DerivePublic
    <3> QED
      BY <2>1, <3>1, <3>2 DEF setup_keys
  <2>5. UNCHANGED <<private_file, public_file, made>>
    BY <2>4 DEF Start, End, Kill, ReadPrivate, ReadPublic, KeysThere, Abort, RereadPrivate,
       RereadPublic
  <2>6. process'[p].at \notin {"create_public", "flush_public", "flush_private", "flush_derived"}
    BY <2>2, <2>4 DEF Start, End, Kill, ReadPrivate, ReadPublic, KeysThere, Abort, RereadPrivate,
       RereadPublic, TypeOK, State, Off
  <2>7. Broken'
    BY <2>3, <2>5, <2>6 DEF Broken, Usable, Pair
  <2>8. ~Accepted(p)'
    <3>1. ASSUME process'[p].at = "ready"
          PROVE  process'[p].private = private_file /\ process'[p].public = public_file
      <4>1. KeysThere(p) \/ RereadPublic(p)
        BY <2>2, <2>4, <3>1 DEF Start, End, Kill, ReadPrivate, ReadPublic, Abort, RereadPrivate,
           TypeOK, State, Off
      <4> QED
        BY <2>2, <4>1 DEF Current, KeysThere, RereadPublic, TypeOK, State
    <3> QED
      BY <2>5, <3>1 DEF Accepted, CanSign, extract_and_verify, verify_signature, sign_and_wrap,
           Broken, Usable, Pair
  <2>9. \A q \in Process : q # p => (Accepted(q)' => Accepted(q))
    BY <2>3, <2>5 DEF Accepted, CanSign, extract_and_verify, verify_signature, sign_and_wrap, Pair
  <2> QED
    BY <2>7, <2>8, <2>9
<1> QED
  BY <1>1, OneAtATimeInvariance, PTL DEF Spec, BrokenForever
=============================================================================
