------------------------------ MODULE KeyStore ------------------------------
(***************************************************************************)
(* The identity of a node on disk: vex_crypto_load_keys and, when it finds *)
(* none, vex_crypto_init and vex_crypto_save_keys (src/src/crypto.c), as   *)
(* vex_mesh_init calls them at each start.  The two files are opened,      *)
(* truncated and written by separate system calls, any of which may fail;  *)
(* a process may die between any two of them, and every process of the     *)
(* same $HOME uses the same files.  Nobody looks at what save_keys returns *)
(* (mesh.c:30), nor save_keys at fwrite and fclose: a node goes online     *)
(* whatever has failed.  What stdio buffers reaches a file with its        *)
(* fclose.                                                                 *)
(***************************************************************************)
EXTENDS Integers, FiniteSets

CONSTANTS
    Proc,       \* processes that share $HOME; each may be started many times
    MaxKeys     \* bound on the key pairs generated

ASSUME KeyAssumption == MaxKeys \in Nat

Absent == -1    \* no such file
Empty == 0      \* truncated, or shorter than its key pair

VARIABLES
    identityKey,    \* identity.key: Absent, Empty or the number of a pair
    ephemeralKey,   \* ephemeral.key
    pc,             \* pc[q]: the next system call of q
    sign,           \* sign[q]: sign_pk and sign_sk of q, 0 when not set
    box,            \* box[q]: box_pk and box_sk of q
    generated,      \* how many key pairs have been generated
    ran,            \* history: the identities with which a node has run
    failed          \* history: those that could not be saved or read back

vars == <<identityKey, ephemeralKey, pc, sign, box, generated, ran, failed>>

Steps == {"off", "loadIdentity", "loadEphemeral", "truncIdentity", "writeIdentity",
          "truncEphemeral", "writeEphemeral", "run"}

Go(q, from, to) == pc[q] = from /\ pc' = [pc EXCEPT ![q] = to]

Start(q) ==
    /\ Go(q, "off", "loadIdentity")
    /\ UNCHANGED <<identityKey, ephemeralKey, sign, box, generated, ran, failed>>

UsableAny(key) == key # Absent      \* mutant: a short read goes unnoticed

\* The file has both keys whole.
Usable(key) == key > Empty

LoadIdentity(q) ==
    /\ Usable(identityKey)
    /\ Go(q, "loadIdentity", "loadEphemeral")
    /\ sign' = [sign EXCEPT ![q] = identityKey]
    /\ UNCHANGED <<identityKey, ephemeralKey, box, generated, ran, failed>>

\* No usable identity.key, or one that cannot be opened or read, which is the
\* same to vex_mesh_init: vex_crypto_init makes both pairs.
Generate(q) ==
    /\ generated + 2 <= MaxKeys
    /\ Go(q, "loadIdentity", "truncIdentity")
    /\ sign' = [sign EXCEPT ![q] = generated + 1]
    /\ box' = [box EXCEPT ![q] = generated + 2]
    /\ generated' = generated + 2
    /\ failed' = IF Usable(identityKey) THEN failed \cup {identityKey} ELSE failed
    /\ UNCHANGED <<identityKey, ephemeralKey, ran>>

\* The node is online under its identity (mesh.c:40).
Online(q) == ran' = ran \cup {sign[q]}

\* ephemeral.key is read, or regenerated and not saved: it is missing, short,
\* or cannot be opened or read.
LoadEphemeral(q) ==
    /\ Go(q, "loadEphemeral", "run")
    /\ Online(q)
    /\ \/ /\ Usable(ephemeralKey)
          /\ box' = [box EXCEPT ![q] = ephemeralKey]
          /\ UNCHANGED generated
       \/ /\ generated < MaxKeys
          /\ generated' = generated + 1
          /\ box' = [box EXCEPT ![q] = generated + 1]
    /\ UNCHANGED <<identityKey, ephemeralKey, sign, failed>>

\* mutant: the wrong key pair is written
WriteBox(q) == box[q]

\* What vex_crypto_save_keys writes to identity.key.
SavedIdentity(q) == sign[q]

\* fopen(identity.key, "wb") succeeds.
TruncIdentity(q) ==
    /\ Go(q, "truncIdentity", "writeIdentity")
    /\ identityKey' = Empty
    /\ UNCHANGED <<ephemeralKey, sign, box, generated, ran, failed>>

\* It does not: save_keys returns -1, and the node runs with what it has.
IdentityNotOpened(q) ==
    /\ Go(q, "truncIdentity", "run")
    /\ Online(q)
    /\ failed' = failed \cup {sign[q]}
    /\ UNCHANGED <<identityKey, ephemeralKey, sign, box, generated>>

\* The pair is written whole, or the disk is full and the file stays short.
WriteIdentity(q) ==
    /\ Go(q, "writeIdentity", "truncEphemeral")
    /\ \/ identityKey' = SavedIdentity(q) /\ UNCHANGED failed
       \/ UNCHANGED identityKey /\ failed' = failed \cup {sign[q]}
    /\ UNCHANGED <<ephemeralKey, sign, box, generated, ran>>

TruncEphemeral(q) ==
    /\ Go(q, "truncEphemeral", "writeEphemeral")
    /\ ephemeralKey' = Empty
    /\ UNCHANGED <<identityKey, sign, box, generated, ran, failed>>

EphemeralNotOpened(q) ==
    /\ Go(q, "truncEphemeral", "run")
    /\ Online(q)
    /\ UNCHANGED <<identityKey, ephemeralKey, sign, box, generated, failed>>

WriteEphemeral(q) ==
    /\ Go(q, "writeEphemeral", "run")
    /\ ephemeralKey' \in {ephemeralKey, box[q]}
    /\ Online(q)
    /\ UNCHANGED <<identityKey, sign, box, generated, failed>>

\* The process ends, on purpose or by a crash, and may be started again.
Die(q) ==
    /\ pc[q] # "off"
    /\ pc' = [pc EXCEPT ![q] = "off"]
    /\ sign' = [sign EXCEPT ![q] = 0]
    /\ box' = [box EXCEPT ![q] = 0]
    /\ UNCHANGED <<identityKey, ephemeralKey, generated, ran, failed>>

Init ==
    /\ identityKey = Absent
    /\ ephemeralKey = Absent
    /\ pc = [q \in Proc |-> "off"]
    /\ sign = [q \in Proc |-> 0]
    /\ box = [q \in Proc |-> 0]
    /\ generated = 0
    /\ ran = {}
    /\ failed = {}

Next ==
    \E q \in Proc :
      \/ Start(q) \/ LoadIdentity(q) \/ Generate(q) \/ LoadEphemeral(q)
      \/ TruncIdentity(q) \/ IdentityNotOpened(q) \/ WriteIdentity(q)
      \/ TruncEphemeral(q) \/ EphemeralNotOpened(q) \/ WriteEphemeral(q)
      \/ Die(q)

Spec == Init /\ [][Next]_vars

(***************************************************************************)
(* Properties.                                                             *)
(***************************************************************************)
TypeOK ==
    /\ identityKey \in Absent .. MaxKeys
    /\ ephemeralKey \in Absent .. MaxKeys
    /\ pc \in [Proc -> Steps]
    /\ sign \in [Proc -> 0 .. MaxKeys]
    /\ box \in [Proc -> 0 .. MaxKeys]
    /\ generated \in 0 .. MaxKeys
    /\ ran \subseteq 1 .. MaxKeys
    /\ failed \subseteq 1 .. MaxKeys

(* The identity is long-term (PROTOCOL.md:120): all runs of a node have    *)
(* the same one, wherever a start was cut short.  The exception is an      *)
(* identity that itself could not be saved (crypto.c:45) or read back      *)
(* (crypto.c:80), which load_keys reports like a missing one: the next     *)
(* start replaces it.                                                      *)
IdentityKept == Cardinality(ran \ failed) <= 1

(* A running node is the one on disk, so that its next run is the same,    *)
(* unless its own identity could not be saved: a failure of an earlier run *)
(* or of ephemeral.key is no excuse.                                       *)
RunsAsSaved ==
    \A q \in Proc : pc[q] = "run" => identityKey = sign[q] \/ sign[q] \in failed

=============================================================================
