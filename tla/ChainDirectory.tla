--------------------------- MODULE ChainDirectory ---------------------------
(***************************************************************************)
(* The directory .#~chain as files: how an entry is staged and published   *)
(* (chain/append.py), how every lease validates what it finds there        *)
(* (chain/inspect.py, chain/read.py) and repairs it (recover.py: resolve,  *)
(* _perform_reconciliation), while the process may be killed or the power  *)
(* cut between any two system calls.                                       *)
(*                                                                         *)
(* TxnProtocol takes an append for one step.  This module is about that    *)
(* step.  The record of the store is reduced to what it demands of the     *)
(* chain: an entry (a registration or a settlement) and the digest bound   *)
(* for it.                                                                 *)
(*                                                                         *)
(* An entry's digest commits to its bytes and these name the previous      *)
(* digest, so that an envelope, and the file name it is published under,   *)
(* is modelled by the sequence of entries that leads to it.                *)
(*                                                                         *)
(* What a power cut leaves is the persistence model of the repository      *)
(* (python/tests/persistence_model.py): each directory entry and each      *)
(* file's bytes persist on their own, at any moment after they change, for *)
(* certain when they are flushed, and no store transaction flushes them.   *)
(***************************************************************************)
EXTENDS Naturals, Sequences

CONSTANTS
  Genesis,                \* the first entry
  Demands,                \* entries of transactions, each demanded once
  Intents,                \* entries of append_intent, each appended once
  Nobody,                 \* no entry
  MaxKills, MaxCuts       \* bounds on kills and power cuts

ASSUME EntryAssumption ==
  /\ Genesis \notin Demands \cup Intents /\ Demands \cap Intents = {}
  /\ Nobody \notin Demands \cup Intents
ASSUME ChainBounds == MaxKills \in Nat /\ MaxCuts \in Nat

VARIABLES
  names,                  \* leaf -> inode, as the running kernel shows it
  bytes,                  \* inode -> what it holds, likewise
  disk_names, disk_bytes, \* the same after a power cut now
  demanded,               \* entries a record has demanded so far
  owed,                   \* the entry the active record demands, or Nobody
  bound,                  \* the digest bound for it, <<>> for NULL
  relied,                 \* digests the store or a caller relies on
  pc,                     \* what the lock holder does next
  entry,                  \* the entry it appends
  validated,              \* the tip it validated
  kills, cuts,
  neglected               \* a lease worked on names or bytes not on disk

directory == <<names, bytes>>
persisted == <<disk_names, disk_bytes>>
record == <<demanded, owed, bound, relied>>
holder == <<pc, entry, validated>>
cvars == <<directory, persisted, record, holder, kills, cuts, neglected>>

\* The staging leaf, and the bytes of a file that is not written in full.
Stage == <<>>
Torn == <<>>

Bodies == {Genesis} \cup Demands \cup Intents

Leaf(n) == IF n \in DOMAIN names THEN bytes[names[n]] ELSE Torn
Staged == Stage \in DOMAIN names
Published == DOMAIN names \ {Stage}

Name(f, n, i) == [m \in DOMAIN f \cup {n} |-> IF m = n THEN i ELSE f[m]]
Unname(f, n) == [m \in DOMAIN f \ {n} |-> f[m]]

-----------------------------------------------------------------------------
(* scan_chain_directory and _linearize: every leaf holds the bytes its     *)
(* name commits to; one genesis, no missing predecessor, no two successors *)
(* of one entry.  Cycles and orphans cannot be named by digests.           *)
Previous(e) == SubSeq(e, 1, Len(e) - 1)

Linear(S) ==
  /\ \A e \in S : Len(e) > 1 => Previous(e) \in S
  /\ \A e, f \in S : Len(e) = Len(f) => e = f

ValidChain ==
  /\ Published # {}
  /\ \A e \in Published : Leaf(e) = e
  /\ Linear(Published)

Tip == CHOOSE e \in Published : \A f \in Published : Len(f) <= Len(e)

-----------------------------------------------------------------------------
CInit ==
  /\ names = [n \in {<<Genesis>>} |-> 1] /\ bytes = << <<Genesis>> >>
  /\ disk_names = names /\ disk_bytes = bytes
  /\ demanded = {} /\ owed = Nobody /\ bound = <<>> /\ relied = {<<Genesis>>}
  /\ pc = "idle" /\ entry = Nobody /\ validated = <<>>
  /\ kills = 0 /\ cuts = 0 /\ neglected = FALSE

Continue(next) == pc' = next /\ UNCHANGED <<entry, validated, kills, cuts>>

\* System calls on the directory; the kernel answers from memory.
Create(n) ==
  /\ names' = Name(names, n, Len(bytes) + 1)
  /\ bytes' = Append(bytes, Torn) /\ disk_bytes' = Append(disk_bytes, Torn)
  /\ UNCHANGED <<disk_names, record, neglected>>

Write(n, text) ==
  /\ bytes' = [bytes EXCEPT ![names[n]] = text]
  /\ UNCHANGED <<names, persisted, record, neglected>>

FlushFile(n) ==
  /\ disk_bytes' = [disk_bytes EXCEPT ![names[n]] = bytes[names[n]]]
  /\ UNCHANGED <<directory, disk_names, record, neglected>>

Transfer(n, m) ==
  /\ names' = Name(Unname(names, n), m, names[n])
  /\ UNCHANGED <<bytes, persisted, record>>

Unlink(n) ==
  /\ names' = Unname(names, n)
  /\ UNCHANGED <<bytes, persisted, record, neglected>>

FlushDirectory ==
  /\ disk_names' = names
  /\ UNCHANGED <<directory, disk_bytes, record, neglected>>

Untouched == UNCHANGED <<directory, persisted>>

-----------------------------------------------------------------------------
(* A lease: resolve validates, derives what the record demands, disposes   *)
(* of the staging leaf and makes chain and record agree.                   *)

Acquire == pc = "idle" /\ Continue("resolve") /\ Untouched /\ UNCHANGED <<record, neglected>>

(* What of _derive_reconciliation concerns the entry owed now.  That the   *)
(* digest bound before it for the same record still resolves, and that a   *)
(* settlement names its registration, is TxnProtocol's (Reconcilable).      *)
Agrees ==
  /\ ValidChain
  /\ owed # Nobody /\ bound # <<>> => bound \in Published

(* ChainStateInvalid: the lease is refused.                                *)
ResolveRefuses ==
  /\ pc = "resolve" /\ ~Agrees
  /\ Continue("idle") /\ Untouched /\ UNCHANGED <<record, neglected>>

Unbound == owed # Nobody /\ bound = <<>>

\* _derive_reconciliation looks for an entry of this transaction, wherever.
Found == {e \in Published : e[Len(e)] = owed}

\* Mutant: the staging leaf is finished whatever it holds.
BugPlanned == Leaf(Stage)

\* The one envelope reconciliation may append, Stage when there is none.
Planned == IF Unbound /\ Found = {} THEN Append(Tip, owed) ELSE Stage

Resolve ==
  /\ pc = "resolve" /\ Agrees
  /\ pc' = IF ~Staged THEN "reconcile"
           ELSE IF Leaf(Stage) = Planned /\ Planned # Stage THEN "finish" ELSE "remove"
  /\ entry' = owed /\ validated' = Tip
  /\ neglected' = (neglected \/ \E e \in Published : e \notin DOMAIN disk_names)
  /\ Untouched /\ UNCHANGED <<record, kills, cuts>>

\* Mutant: the survivor is left where it is.
BugRemoveSurvivor ==
  /\ pc = "remove" /\ Continue("removed") /\ Untouched /\ UNCHANGED <<record, neglected>>

(* apply_survivors, disposition REMOVE.                                    *)
RemoveSurvivor == pc = "remove" /\ Unlink(Stage) /\ Continue("removed")

FlushRemoval == pc = "removed" /\ FlushDirectory /\ Continue("reconcile")

(* apply_survivors, disposition FINISH: published as it lies there.        *)
FinishSurvivor ==
  /\ pc = "finish" /\ Transfer(Stage, Append(validated, entry)) /\ Continue("finished")
  /\ neglected' = (neglected \/ disk_bytes[names[Stage]] # bytes[names[Stage]])

FlushFinished == pc = "finished" /\ FlushDirectory /\ Continue("reconcile")

\* Mutant: the chain is not searched for the entry.
BugReconcile ==
  /\ pc = "reconcile" /\ Continue(IF Unbound THEN "create" ELSE "ready")
  /\ Untouched /\ UNCHANGED <<record, neglected>>

(* _perform_reconciliation: append what is missing, bind what is there.    *)
Reconcile ==
  /\ pc = "reconcile"
  /\ \/ ~Unbound /\ Continue("ready")
     \/ Unbound /\ Found # {} /\ Continue("bind")
     \/ Unbound /\ Found = {} /\ Continue("create")
  /\ Untouched /\ UNCHANGED <<record, neglected>>

-----------------------------------------------------------------------------
(* append_entry, for the record's demand or for an intent.                 *)

CreateStaging ==
  /\ pc = "create" /\ ~Staged
  /\ Create(Stage) /\ Continue("write")

WriteStaging ==
  /\ pc = "write" /\ Write(Stage, Append(validated, entry)) /\ Continue("flush")

\* Mutant: the file is renamed before its bytes are flushed.
BugFlushStaging ==
  /\ pc = "flush" /\ Continue("publish") /\ Untouched /\ UNCHANGED <<record, neglected>>

FlushStaging == pc = "flush" /\ FlushFile(Stage) /\ Continue("publish")

PublishEntry ==
  /\ pc = "publish" /\ Transfer(Stage, Append(validated, entry)) /\ Continue("published")
  /\ UNCHANGED neglected

\* Mutant: the directory is not flushed.
BugFlushPublished ==
  /\ pc = "published" /\ Continue(IF entry = owed THEN "bind" ELSE "return")
  /\ Untouched /\ UNCHANGED <<record, neglected>>

FlushPublished ==
  /\ pc = "published" /\ FlushDirectory
  /\ Continue(IF entry = owed THEN "bind" ELSE "return")

\* Mutant: the digest is not stored.
BugBind ==
  /\ pc = "bind" /\ Continue("ready") /\ Untouched /\ UNCHANGED <<record, neglected>>

(* set_registration_digest or set_settlement_digest.                       *)
Bind ==
  /\ pc = "bind"
  /\ \E e \in Found : bound' = e /\ relied' = relied \cup {e}
  /\ Continue("ready") /\ Untouched /\ UNCHANGED <<demanded, owed, neglected>>

(* append_intent returns the digest to its caller.                         *)
ReturnDigest ==
  /\ pc = "return" /\ relied' = relied \cup {Append(validated, entry)}
  /\ Continue("ready") /\ Untouched /\ UNCHANGED <<demanded, owed, bound, neglected>>

-----------------------------------------------------------------------------
(* What the holder of a lease does with it.                                *)

StartAppend(x) ==
  /\ pc' = "create" /\ entry' = x /\ validated' = Tip
  /\ Untouched /\ UNCHANGED <<kills, cuts, neglected>>

\* The store's record comes to demand an entry: prepared, or terminal.
DemandEntry(x) ==
  /\ pc = "ready" /\ x \notin demanded /\ ~Unbound
  /\ demanded' = demanded \cup {x} /\ owed' = x /\ bound' = <<>>
  /\ UNCHANGED relied /\ StartAppend(x)

\* A lease with a transaction pending refuses intents.
AppendIntent(x) ==
  /\ pc = "ready" /\ owed = Nobody /\ \A k \in 1..Len(Tip) : Tip[k] # x
  /\ StartAppend(x) /\ UNCHANGED record

\* The active row is deleted.
Detach ==
  /\ pc = "ready" /\ owed # Nobody /\ ~Unbound
  /\ owed' = Nobody /\ bound' = <<>>
  /\ Continue("ready") /\ Untouched /\ UNCHANGED <<demanded, relied, neglected>>

Release == pc = "ready" /\ Continue("idle") /\ Untouched /\ UNCHANGED <<record, neglected>>

-----------------------------------------------------------------------------
(* The environment.                                                        *)

Stop == pc' = "idle" /\ entry' = Nobody /\ validated' = <<>>

Kill ==
  /\ pc # "idle" /\ kills < MaxKills /\ kills' = kills + 1
  /\ Stop /\ Untouched /\ UNCHANGED <<record, cuts, neglected>>

PowerCut ==
  /\ cuts < MaxCuts /\ cuts' = cuts + 1
  /\ names' = disk_names /\ bytes' = disk_bytes
  /\ Stop /\ UNCHANGED <<persisted, record, kills, neglected>>

(* The kernel writes back one directory entry, or one file.                *)
WriteBackName(n) ==
  /\ disk_names' = IF n \in DOMAIN names THEN Name(disk_names, n, names[n])
                   ELSE Unname(disk_names, n)
  /\ UNCHANGED <<directory, disk_bytes, record, holder, kills, cuts, neglected>>

WriteBackBytes(i) ==
  /\ disk_bytes' = [disk_bytes EXCEPT ![i] = bytes[i]]
  /\ UNCHANGED <<directory, disk_names, record, holder, kills, cuts, neglected>>

-----------------------------------------------------------------------------
Lease ==
  \/ Acquire \/ ResolveRefuses \/ Resolve
  \/ RemoveSurvivor \/ FlushRemoval \/ FinishSurvivor \/ FlushFinished \/ Reconcile

AppendEntry ==
  CreateStaging \/ WriteStaging \/ FlushStaging \/ PublishEntry \/ FlushPublished

Client ==
  \/ Bind \/ ReturnDigest \/ Detach \/ Release
  \/ \E x \in Demands : DemandEntry(x)
  \/ \E x \in Intents : AppendIntent(x)

WriteBack ==
  \/ \E n \in DOMAIN names \cup DOMAIN disk_names : WriteBackName(n)
  \/ \E n \in DOMAIN names : WriteBackBytes(names[n])

CNext == Lease \/ AppendEntry \/ Client \/ Kill \/ PowerCut \/ WriteBack

CSpec == CInit /\ [][CNext]_cvars

(* The lock holder goes on, and leases keep being taken.                   *)
FairCSpec == CSpec /\ WF_cvars(Lease \/ AppendEntry \/ Bind \/ ReturnDigest)
=============================================================================
