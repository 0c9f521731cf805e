--------------------------- MODULE KeyStoreProofs ---------------------------
(***************************************************************************)
(* The identity of a node survives every crash and every failed system     *)
(* call but those on that identity itself, for any number of starts and of *)
(* key pairs, as long as one process at a time uses the files; and the     *)
(* types of the files and the keys, for any number of processes.           *)
(***************************************************************************)
EXTENDS KeyStore, FiniteSetTheorems, TLAPS

\* A process that has decided on an identity has one.
Signed == \A q \in Proc : pc[q] \notin {"off", "loadIdentity"} => sign[q] > Empty

TypeInv == TypeOK /\ Signed

(* Every system call keeps the types, whatever the other processes do.     *)
LEMMA TypeStep == TypeInv /\ [Next]_vars => TypeInv'
<1> SUFFICES ASSUME TypeInv, [Next]_vars PROVE TypeInv'
  OBVIOUS
<1> USE KeyAssumption DEF TypeInv, TypeOK, Signed, Absent, Empty, Steps, Go
<1>1. ASSUME NEW q \in Proc, Start(q) PROVE TypeInv'
  BY <1>1 DEF Start
<1>2. ASSUME NEW q \in Proc, LoadIdentity(q) PROVE TypeInv'
  BY <1>2 DEF LoadIdentity, Usable
<1>3. ASSUME NEW q \in Proc, Generate(q) PROVE TypeInv'
  BY <1>3 DEF Generate, Usable
<1>4. ASSUME NEW q \in Proc, LoadEphemeral(q) PROVE TypeInv'
  <2>1. sign[q] \in 1 .. MaxKeys
    BY <1>4 DEF LoadEphemeral
  <2>2. ran' \subseteq 1 .. MaxKeys
    BY <1>4, <2>1 DEF LoadEphemeral, Online
  <2> QED BY <1>4, <2>2 DEF LoadEphemeral, Usable
<1>5. ASSUME NEW q \in Proc, TruncIdentity(q) PROVE TypeInv'
  BY <1>5 DEF TruncIdentity
<1>6. ASSUME NEW q \in Proc, WriteIdentity(q) PROVE TypeInv'
  <2>1. sign[q] \in 1 .. MaxKeys
    BY <1>6 DEF WriteIdentity
  <2>2. identityKey' = sign[q] \/ identityKey' = identityKey
    BY <1>6 DEF WriteIdentity, SavedIdentity
  <2>3. identityKey' \in Absent .. MaxKeys
    BY <2>1, <2>2
  <2>4. failed' \subseteq 1 .. MaxKeys
    BY <1>6, <2>1 DEF WriteIdentity
  <2> QED BY <1>6, <2>3, <2>4 DEF WriteIdentity
<1>7. ASSUME NEW q \in Proc, TruncEphemeral(q) PROVE TypeInv'
  BY <1>7 DEF TruncEphemeral
<1>8. ASSUME NEW q \in Proc, WriteEphemeral(q) PROVE TypeInv'
  <2>1. sign[q] \in 1 .. MaxKeys
    BY <1>8 DEF WriteEphemeral
  <2>2. ran' \subseteq 1 .. MaxKeys
    BY <1>8, <2>1 DEF WriteEphemeral, Online
  <2> QED BY <1>8, <2>2 DEF WriteEphemeral
<1>9. ASSUME NEW q \in Proc, Die(q) PROVE TypeInv'
  BY <1>9 DEF Die
<1>10. ASSUME NEW q \in Proc, IdentityNotOpened(q) PROVE TypeInv'
  <2>1. sign[q] \in 1 .. MaxKeys
    BY <1>10 DEF IdentityNotOpened
  <2>2. ran' \subseteq 1 .. MaxKeys /\ failed' \subseteq 1 .. MaxKeys
    BY <1>10, <2>1 DEF IdentityNotOpened, Online
  <2> QED BY <1>10, <2>2 DEF IdentityNotOpened
<1>11. ASSUME NEW q \in Proc, EphemeralNotOpened(q) PROVE TypeInv'
  <2>1. sign[q] \in 1 .. MaxKeys
    BY <1>11 DEF EphemeralNotOpened
  <2>2. ran' \subseteq 1 .. MaxKeys
    BY <1>11, <2>1 DEF EphemeralNotOpened, Online
  <2> QED BY <1>11, <2>2 DEF EphemeralNotOpened
<1>12. ASSUME UNCHANGED vars PROVE TypeInv'
  BY <1>12 DEF vars
<1> QED BY <1>1, <1>2, <1>3, <1>4, <1>5, <1>6, <1>7, <1>8, <1>9, <1>10, <1>11, <1>12 DEF Next

(* Whatever number of processes shares the files, a file holds a key pair  *)
(* that was generated, or nothing usable, and nobody runs without an       *)
(* identity (crypto.c:35-106).                                             *)
THEOREM KeyTypes == Spec => []TypeOK
<1>1. Init => TypeInv
  BY KeyAssumption DEF Init, TypeInv, TypeOK, Signed, Absent, Empty, Steps
<1>2. TypeInv => TypeOK
  BY DEF TypeInv
<1> QED BY <1>1, <1>2, TypeStep, PTL DEF Spec

(***************************************************************************)
(* One process at a time.  identity.key decides: a start that has got past *)
(* it has its identity in the file for good, or could not save it.  A file *)
(* that is about to be truncated is of no use, or could not be read.       *)
(***************************************************************************)
OneProcess == \A p, q \in Proc : p = q

Settled == {"loadEphemeral", "truncEphemeral", "writeEphemeral", "run"}

Saved(k) == Usable(identityKey) /\ k = identityKey

FileDecides ==
    \A q \in Proc :
      /\ pc[q] \in Settled => Saved(sign[q]) \/ sign[q] \in failed
      /\ pc[q] = "truncIdentity" => ~Usable(identityKey) \/ identityKey \in failed
      /\ pc[q] = "writeIdentity" => ~Usable(identityKey)

RanIsSaved == \A k \in ran : Saved(k) \/ k \in failed

KeyInv == TypeInv /\ FileDecides /\ RanIsSaved

(* Every system call of the one process keeps the invariant: what it       *)
(* truncates was of no use or could not be read, and what it writes is     *)
(* what it runs with.                                                      *)
LEMMA KeyStep ==
    ASSUME OneProcess
    PROVE  KeyInv /\ [Next]_vars => KeyInv'
<1> SUFFICES ASSUME KeyInv, [Next]_vars PROVE KeyInv'
  OBVIOUS
<1>0. TypeInv'
  BY TypeStep DEF KeyInv
<1> SUFFICES FileDecides' /\ RanIsSaved'
  BY <1>0 DEF KeyInv
<1> USE DEF KeyInv, TypeInv, TypeOK, Signed, FileDecides, RanIsSaved, Saved, Settled,
            Absent, Empty, Steps, Go, Usable
<1>1. ASSUME NEW q \in Proc, Start(q) PROVE FileDecides' /\ RanIsSaved'
  BY <1>1 DEF Start
<1>2. ASSUME NEW q \in Proc, LoadIdentity(q) PROVE FileDecides' /\ RanIsSaved'
  BY <1>2 DEF LoadIdentity
<1>3. ASSUME NEW q \in Proc, Generate(q) PROVE FileDecides' /\ RanIsSaved'
  BY <1>3, OneProcess DEF Generate, OneProcess
<1>4. ASSUME NEW q \in Proc, LoadEphemeral(q) PROVE FileDecides' /\ RanIsSaved'
  BY <1>4 DEF LoadEphemeral, Online
<1>5. ASSUME NEW q \in Proc, TruncIdentity(q) PROVE FileDecides' /\ RanIsSaved'
  BY <1>5, OneProcess DEF TruncIdentity, OneProcess
<1>6. ASSUME NEW q \in Proc, WriteIdentity(q) PROVE FileDecides' /\ RanIsSaved'
  BY <1>6, OneProcess DEF WriteIdentity, SavedIdentity, OneProcess
<1>7. ASSUME NEW q \in Proc, TruncEphemeral(q) PROVE FileDecides' /\ RanIsSaved'
  BY <1>7 DEF TruncEphemeral
<1>8. ASSUME NEW q \in Proc, WriteEphemeral(q) PROVE FileDecides' /\ RanIsSaved'
  BY <1>8 DEF WriteEphemeral, Online
<1>9. ASSUME NEW q \in Proc, Die(q) PROVE FileDecides' /\ RanIsSaved'
  BY <1>9 DEF Die
<1>10. ASSUME NEW q \in Proc, IdentityNotOpened(q) PROVE FileDecides' /\ RanIsSaved'
  BY <1>10 DEF IdentityNotOpened, Online
<1>11. ASSUME NEW q \in Proc, EphemeralNotOpened(q) PROVE FileDecides' /\ RanIsSaved'
  BY <1>11 DEF EphemeralNotOpened, Online
<1>12. ASSUME UNCHANGED vars PROVE FileDecides' /\ RanIsSaved'
  BY <1>12 DEF vars
<1> QED BY <1>1, <1>2, <1>3, <1>4, <1>5, <1>6, <1>7, <1>8, <1>9, <1>10, <1>11, <1>12 DEF Next

(* The inductive invariant of the two files and the process that uses them.*)
THEOREM KeyInvariant ==
    ASSUME OneProcess
    PROVE  Spec => []KeyInv
<1>1. Init => KeyInv
  BY KeyAssumption DEF Init, KeyInv, TypeInv, TypeOK, Signed, FileDecides, RanIsSaved, Saved,
                       Settled, Absent, Empty, Steps
<1> QED BY <1>1, KeyStep, OneProcess, PTL DEF Spec

(* A node that does not share its $HOME has one identity over all starts,  *)
(* however many of them were cut short or had other calls fail, and at     *)
(* whichever system call; only an identity that could itself not be saved  *)
(* or read back is replaced (mesh.c:27-33, crypto.c:35-106).               *)
THEOREM IdentityTheorem ==
    ASSUME OneProcess
    PROVE  Spec => []IdentityKept
<1>1. KeyInv => IdentityKept
  <2> SUFFICES ASSUME KeyInv PROVE Cardinality(ran \ failed) <= 1
    BY DEF IdentityKept
  <2>1. ran \ failed \in SUBSET {identityKey}
    BY DEF KeyInv, RanIsSaved, Saved
  <2>2. IsFiniteSet({identityKey}) /\ Cardinality({identityKey}) = 1
    BY FS_Singleton
  <2> QED BY <2>1, <2>2, FS_Subset
<1> QED BY <1>1, KeyInvariant, OneProcess, PTL

(* A node that runs is the one on disk: its next start finds its identity, *)
(* unless saving this very identity failed.                                *)
THEOREM SavedTheorem ==
    ASSUME OneProcess
    PROVE  Spec => []RunsAsSaved
<1>1. KeyInv => RunsAsSaved
  BY DEF KeyInv, FileDecides, Settled, Saved, RunsAsSaved
<1> QED BY <1>1, KeyInvariant, OneProcess, PTL

=============================================================================
