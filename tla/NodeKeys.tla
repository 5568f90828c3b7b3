------------------------------- MODULE NodeKeys -------------------------------
(***************************************************************************)
(* The key pair of one port: how a process finds or makes it when it       *)
(* starts, Config::read and setup_keys of src/utils, and what its messages *)
(* are worth to those who receive them, sign_and_wrap and                  *)
(* extract_and_verify.  Processes started with the same --port share the   *)
(* two files of keys/<port>.                                               *)
(*                                                                         *)
(* A new pair is written through two BufWriters: each file is emptied when *)
(* it is created, both contents reach their file only when the writers are *)
(* dropped, the public key's first, and an error is then ignored.          *)
(*                                                                         *)
(* A pair is the number under which it was made; signatures and hashes are *)
(* ideal, so that both are represented by that number too.  A file is      *)
(* represented by what read_key makes of it: None if it is missing, empty  *)
(* or no base64, Torn if it decodes but is not a key.  The program writes   *)
(* private keys in the PKCS#8 format and signs with keys in either format,  *)
(* but derives a public key from one in the PKCS#1 format only: pair 0, put *)
(* there by hand, is in that format.                                        *)
(***************************************************************************)
EXTENDS Integers

CONSTANTS
    Process,   \* the processes started with this port
    None,      \* no key
    Torn,      \* the bytes of half a key
    Faults,    \* which of "kill", "write" and "shared" can happen
    MaxPairs   \* bound: how many pairs are made

ASSUME KeysAssumption ==
    /\ Faults \subseteq {"kill", "write", "shared"}
    /\ MaxPairs \in Nat
    /\ None \notin Int /\ Torn \notin Int /\ None # Torn

VARIABLES
    private_file,  \* private_key.pem, as it would be read
    public_file,   \* public_key.pem, as it would be read
    process,       \* where each process is in its start, and the keys it has
    made,          \* how many pairs have been made
    used,          \* history: the identities of processes that got started
    happened       \* history: the faults that have happened so far

vars == <<private_file, public_file, process, made, used, happened>>

Pair == 0 .. made
Read == Pair \cup {None, Torn}

\* The pairs whose private key is in the format that private_key_from_der parses.
Pkcs1 == {0}

Starting == {"read_private", "read_public", "setup", "create_public", "flush_public",
             "flush_private", "reread_private", "flush_derived", "reread_public"}

\* private and public are the keys of the Config, pair the pair being written.
State == [at : Starting \cup {"off", "ready", "aborted"},
          private : Read, public : Read, pair : Pair \cup {None}]

Off == [at |-> "off", private |-> None, public |-> None, pair |-> None]

TypeOK ==
    /\ made \in 0 .. MaxPairs
    /\ private_file \in Read /\ public_file \in Read
    /\ process \in [Process -> State]
    /\ \A p \in Process :
          process[p].at \in {"create_public", "flush_public", "flush_private",
                             "reread_private", "flush_derived"} => process[p].pair \in Pair
    /\ used \subseteq Read
    /\ happened \subseteq Faults

\* No keys yet, or a private key only: pair 0, or pair 1 in the format the program
\* writes, as when the file of its public key was removed.
Init ==
    /\ made \in 0 .. MaxPairs /\ made <= 1
    /\ private_file \in {None, made}
    /\ public_file = None
    /\ process = [p \in Process |-> Off]
    /\ used = {}
    /\ happened = {}

----------------------------------------------------------------------------
(* Starting and ending *)

InSetup(p) == process[p].at \in Starting

\* A process starts, perhaps while another one with this port is starting.
Start(p) ==
    /\ process[p].at \in {"off", "aborted"}
    /\ process' = [process EXCEPT ![p] = [Off EXCEPT !.at = "read_private"]]
    /\ IF \E q \in Process : InSetup(q)
       THEN "shared" \in Faults /\ happened' = happened \cup {"shared"}
       ELSE UNCHANGED happened
    /\ UNCHANGED <<private_file, public_file, made, used>>

\* A command is done, or a peer is stopped.
End(p) ==
    /\ process[p].at = "ready"
    /\ process' = [process EXCEPT ![p] = Off]
    /\ UNCHANGED <<private_file, public_file, made, used, happened>>

\* A process is killed while it is starting; what it has buffered is lost.
Kill(p) ==
    /\ "kill" \in Faults
    /\ InSetup(p)
    /\ process' = [process EXCEPT ![p] = Off]
    /\ happened' = happened \cup {"kill"}
    /\ UNCHANGED <<private_file, public_file, made, used>>

----------------------------------------------------------------------------
(* Config::read *)

ReadPrivate(p) ==
    /\ process[p].at = "read_private"
    /\ process' = [process EXCEPT ![p].at = "read_public", ![p].private = private_file]
    /\ UNCHANGED <<private_file, public_file, made, used, happened>>

ReadPublic(p) ==
    /\ process[p].at = "read_public"
    /\ process' = [process EXCEPT ![p].at = "setup", ![p].public = public_file]
    /\ UNCHANGED <<private_file, public_file, made, used, happened>>

----------------------------------------------------------------------------
(* setup_keys *)

\* Both keys are there and are used as they are.
KeysThere(p) ==
    /\ process[p].at = "setup"
    /\ process[p].private # None /\ process[p].public # None
    /\ process' = [process EXCEPT ![p].at = "ready"]
    /\ used' = used \cup {process[p].public}
    /\ UNCHANGED <<private_file, public_file, made, happened>>

\* A public key without a private key, or a private key without a public key that
\* is torn or not in the format to derive one from: the process panics.
Abort(p) ==
    /\ process[p].at = "setup"
    /\ \/ process[p].private = None /\ process[p].public # None
       \/ process[p].private \notin Pkcs1 \cup {None} /\ process[p].public = None
    /\ process' = [process EXCEPT ![p].at = "aborted"]
    /\ UNCHANGED <<private_file, public_file, made, used, happened>>

\* Mutation: the next pair is taken to be this one.
CreatePrivate_SameNumber(p) ==
    /\ process[p].at = "setup"
    /\ process[p].private = None /\ process[p].public = None
    /\ made < MaxPairs
    /\ made' = made
    /\ private_file' = None
    /\ process' = [process EXCEPT ![p].at = "create_public", ![p].pair = made + 1]
    /\ UNCHANGED <<public_file, used, happened>>

\* Mutation: a pair is made whatever keys there are.
CreatePrivate_Always(p) ==
    /\ process[p].at = "setup"
    /\ made < MaxPairs
    /\ made' = made + 1
    /\ private_file' = None
    /\ process' = [process EXCEPT ![p].at = "create_public", ![p].pair = made + 1]
    /\ UNCHANGED <<public_file, used, happened>>

\* Mutation: a pair is made although there is a public key.
CreatePrivate_PublicThere(p) ==
    /\ process[p].at = "setup"
    /\ process[p].private = None
    /\ made < MaxPairs
    /\ made' = made + 1
    /\ private_file' = None
    /\ process' = [process EXCEPT ![p].at = "create_public", ![p].pair = made + 1]
    /\ UNCHANGED <<public_file, used, happened>>

\* Mutation: a pair is made if any key is missing.
CreatePrivate_AnyMissing(p) ==
    /\ process[p].at = "setup"
    /\ process[p].private = None \/ process[p].public = None
    /\ made < MaxPairs
    /\ made' = made + 1
    /\ private_file' = None
    /\ process' = [process EXCEPT ![p].at = "create_public", ![p].pair = made + 1]
    /\ UNCHANGED <<public_file, used, happened>>

\* create_rsa_key_pair: a pair is made and the file of the private key created.
CreatePrivate(p) ==
    /\ process[p].at = "setup"
    /\ process[p].private = None /\ process[p].public = None
    /\ made < MaxPairs
    /\ made' = made + 1
    /\ private_file' = None
    /\ process' = [process EXCEPT ![p].at = "create_public", ![p].pair = made + 1]
    /\ UNCHANGED <<public_file, used, happened>>

CreatePublic(p) ==
    /\ process[p].at = "create_public"
    /\ public_file' = None
    /\ process' = [process EXCEPT ![p].at = "flush_public"]
    /\ UNCHANGED <<private_file, made, used, happened>>

\* generate_public_key_from_private: the file of the public key is created.
DerivePublic(p) ==
    /\ process[p].at = "setup"
    /\ process[p].private \in Pkcs1 /\ process[p].public = None
    /\ public_file' = None
    /\ process' = [process EXCEPT ![p].at = "flush_derived", ![p].pair = process[p].private]
    /\ UNCHANGED <<private_file, made, used, happened>>

\* The writer of the public key is dropped: the key is in the file, or the write
\* fails, unnoticed, with nothing or half of it there.
FlushPublic(p) ==
    /\ process[p].at \in {"flush_public", "flush_derived"}
    /\ process' = [process EXCEPT ![p].at = IF @ = "flush_public" THEN "flush_private"
                                            ELSE "reread_public"]
    /\ \/ public_file' = process[p].pair /\ UNCHANGED happened
       \/ /\ "write" \in Faults
          /\ public_file' \in {None, Torn}
          /\ happened' = happened \cup {"write"}
    /\ UNCHANGED <<private_file, made, used>>

\* The same for the private key; written over a longer one, it is not readable.
FlushPrivate(p) ==
    /\ process[p].at = "flush_private"
    /\ process' = [process EXCEPT ![p].at = "reread_private"]
    /\ \/ private_file' = process[p].pair /\ UNCHANGED happened
       \/ private_file # None /\ private_file' = None /\ UNCHANGED happened
       \/ /\ "write" \in Faults
          /\ private_file' \in {None, Torn}
          /\ happened' = happened \cup {"write"}
    /\ UNCHANGED <<public_file, made, used>>

\* Mutation: the private key is not read again.
RereadPrivate_Stale(p) ==
    /\ process[p].at = "reread_private"
    /\ process' = [process EXCEPT ![p].at = "reread_public"]
    /\ UNCHANGED <<private_file, public_file, made, used, happened>>

RereadPrivate(p) ==
    /\ process[p].at = "reread_private"
    /\ process' = [process EXCEPT ![p].at = "reread_public", ![p].private = private_file]
    /\ UNCHANGED <<private_file, public_file, made, used, happened>>

\* The keys are read again without being looked at; the process goes on.
RereadPublic(p) ==
    /\ process[p].at = "reread_public"
    /\ process' = [process EXCEPT ![p].at = "ready", ![p].public = public_file]
    /\ used' = used \cup {public_file}
    /\ UNCHANGED <<private_file, public_file, made, happened>>

setup_keys(p) ==
    \/ KeysThere(p) \/ Abort(p)
    \/ CreatePrivate(p) \/ CreatePublic(p) \/ DerivePublic(p)
    \/ FlushPublic(p) \/ FlushPrivate(p)
    \/ RereadPrivate(p) \/ RereadPublic(p)

----------------------------------------------------------------------------

Next ==
    \E p \in Process :
        Start(p) \/ End(p) \/ Kill(p) \/ ReadPrivate(p) \/ ReadPublic(p) \/ setup_keys(p)

Spec == Init /\ [][Next]_vars

----------------------------------------------------------------------------
(* Messages *)

\* The process has a private key to sign with.
CanSign(s) == s.private \in Pair

\* A message: its sender's id is the hash of the public key sent with it.
sign_and_wrap(s) ==
    [sender |-> s.public, public_key |-> s.public, signature |-> s.private]

verify_signature(msg) == msg.public_key \in Pair /\ msg.signature = msg.public_key

extract_and_verify(msg) == verify_signature(msg) /\ msg.sender = msg.public_key

----------------------------------------------------------------------------
(* Properties *)

\* Whoever gets through its start, also after starts that were killed at any
\* point, signs messages that every receiver verifies, unless a write failed or
\* two processes with this port started at the same time.
ReadyIsAccepted ==
    happened \subseteq {"kill"} =>
        \A p \in Process :
            process[p].at = "ready" =>
                CanSign(process[p]) /\ extract_and_verify(sign_and_wrap(process[p]))

\* And all of them, at all times, have one identity.
OneIdentity == happened \subseteq {"kill"} => \A k, l \in used : k = l

\* A public key is there and its private key is not, nor about to be: a process
\* was killed between the two.
Orphaned ==
    /\ private_file = None /\ public_file # None
    /\ \A p \in Process : process[p].at # "flush_private"

\* Then no start repairs it: all of them abort from now on.
OrphanedForever ==
    [][happened' \subseteq {"kill"} /\ Orphaned => Orphaned' /\ used' = used]_vars

\* The process runs with keys that its messages are verified with.
Accepted(p) ==
    /\ process[p].at = "ready"
    /\ CanSign(process[p]) /\ extract_and_verify(sign_and_wrap(process[p]))

\* From these files a start can get keys it is accepted with.
Usable ==
    \/ private_file = None /\ public_file = None
    \/ private_file \in Pkcs1 /\ public_file = None
    \/ private_file \in Pair /\ public_file = private_file

\* The files are left so that no start can, and nobody is writing them.
Broken ==
    /\ ~Usable
    /\ \A p \in Process :
          process[p].at \notin {"create_public", "flush_public", "flush_private", "flush_derived"}

\* However they came to be so, by failed writes or kills, starts that do not
\* overlap never repair them, and nobody is accepted who was not before.
BrokenForever ==
    [][ "shared" \notin happened' /\ Broken =>
            Broken' /\ \A p \in Process : Accepted(p)' => Accepted(p)]_vars
=============================================================================
