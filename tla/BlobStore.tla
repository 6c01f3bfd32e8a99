----------------------------- MODULE BlobStore -----------------------------
(***************************************************************************)
(* Workspaces and content-addressed blobs (store/workspace.py,             *)
(* store/blobs.py) under the commands that use them: every lease reclaims  *)
(* what no record names (coordinator/lease.py), a transaction opens a      *)
(* workspace, captures its preimages and payloads into it, and is prepared *)
(* by one store transaction that publishes and indexes them                *)
(* (coordinator/capture.py, prepare.py); recovery and read_preimage open   *)
(* them again.  The process may be killed or the power cut between any two *)
(* calls.                                                                  *)
(*                                                                         *)
(* A txid is 128 random bits: the number of the attempt stands for it.     *)
(***************************************************************************)
EXTENDS StoreDatabase, FiniteSets

CONSTANTS
  Digests,                \* contents of files
  MaxAttempts,            \* bound on the transactions begun
  MaxKills, MaxCuts       \* bounds on kills and power cuts

ASSUME BlobBounds == {MaxAttempts, MaxKills, MaxCuts} \subseteq Nat

VARIABLES
  rows,                   \* digests with a blob row
  records,                \* txid -> the digests its record references
  active,                 \* the txid of the active row, 0 for none
  attempts,               \* txids drawn
  needs,                  \* the digests of the transaction being prepared
  listed,                 \* what reclamation, or promotion, has yet to do
  kills, cuts

store == <<rows, records, active>>
work == <<attempts, needs, listed>>
bvars == <<dvars, store, work, kills, cuts>>

Staging(t) == <<"staging", t>>
Work(t) == <<"work", t>>
Staged(t, d) == <<"staging", t, d>>
Blob(d) == <<"sha256", d>>
Sink(d) == <<attempts, d>>

Leaves == {d \in Digests : Present(Blob(d))}
Workspaces == {t \in 1..attempts : Present(Staging(t)) \/ Present(Work(t))}

\* verify_leaf: the file holds what its name says.
Verified(e) == Present(e) /\ names[e] \in whole
Readable(d) == d \in rows /\ Verified(Blob(d))

BInit ==
  /\ DInit
  /\ rows = {} /\ records = <<>> /\ active = 0
  /\ attempts = 0 /\ needs = {} /\ listed = {}
  /\ kills = 0 /\ cuts = 0

Quiet == UNCHANGED <<database, store, work, kills, cuts>>
Step(here, next) == pc = here /\ Goto(next) /\ Quiet
Only(here, next) == Step(here, next) /\ Untouched

Open == OpenStore /\ UNCHANGED <<store, work, kills, cuts>>

-----------------------------------------------------------------------------
(* _reclaim_orphans, first half: list_workspaces and, for each without a   *)
(* record, reopen_workspace and remove_workspace.                          *)

List(set, next) ==
  /\ listed' = set /\ Goto(next)
  /\ Untouched /\ UNCHANGED <<database, store, attempts, needs, kills, cuts>>

ListWorkspaces ==
  pc = "reclaim" /\ List(Workspaces \ DOMAIN records, "workspace")

\* The workspace in hand; work/t is empty, only an effect writes there.
Orphan == CHOOSE t \in listed : \A u \in listed : t <= u

NextWorkspace ==
  \/ listed = {} /\ Only("workspace", "list blobs")
  \/ listed # {} /\ Only("workspace", IF Present(Staging(Orphan)) THEN "empty" ELSE "rmdir work")

EmptyStaging ==
  /\ pc = "empty"
  /\ \/ Children(Staging(Orphan)) = {} /\ Only("empty", "flush empty")
     \/ \E e \in Children(Staging(Orphan)) : Unlink(e) /\ Step("empty", "empty")

FlushEmptied == Step("flush empty", "rmdir staging") /\ FlushDirectory(Staging(Orphan))

RemoveStaging ==
  Step("rmdir staging", "flush rmdir") /\ RemoveDirectory(Staging(Orphan))

FlushRemoved == Step("flush rmdir", "rmdir work") /\ FlushDirectory(<<"staging">>)

RemoveWork ==
  /\ pc = "rmdir work"
  /\ IF Present(Work(Orphan))
     THEN Step("rmdir work", "flush work") /\ RemoveDirectory(Work(Orphan))
     ELSE List(listed \ {Orphan}, "workspace")

FlushWork ==
  /\ pc = "flush work" /\ Goto("workspace") /\ listed' = listed \ {Orphan}
  /\ FlushDirectory(<<"work">>)
  /\ UNCHANGED <<database, store, attempts, needs, kills, cuts>>

RemoveWorkspace ==
  \/ NextWorkspace \/ EmptyStaging \/ FlushEmptied
  \/ RemoveStaging \/ FlushRemoved \/ RemoveWork \/ FlushWork

-----------------------------------------------------------------------------
(* Second half: list_unindexed_blobs verifies every leaf there is, and     *)
(* remove_unindexed_blob takes the unindexed ones away, each in a write    *)
(* transaction that asks for the row again.                                *)

ListBlobs ==
  /\ pc = "list blobs"
  /\ IF \A d \in Leaves : Verified(Blob(d)) THEN List(Leaves \ rows, "blob")
     ELSE Refuse /\ Untouched /\ Quiet

\* Mutant: the blobs that were listed stay.
BugRemoveBlob == Only("blob", "resolve")

RemoveBlob ==
  /\ pc = "blob"
  /\ \/ listed = {} /\ Only("blob", "resolve")
     \/ \E d \in listed : /\ d \notin rows /\ Verified(Blob(d)) /\ Unlink(Blob(d))
                         /\ Step("blob", "flush blob")

\* Mutant: the digest stays on the list.
BugFlushRemovedBlob == Step("flush blob", "blob") /\ FlushDirectory(<<"sha256">>)

FlushRemovedBlob ==
  /\ pc = "flush blob" /\ Goto("blob") /\ listed' = listed \cap Leaves
  /\ FlushDirectory(<<"sha256">>)
  /\ UNCHANGED <<database, store, attempts, needs, kills, cuts>>

Reclaim ==
  ListWorkspaces \/ RemoveWorkspace \/ ListBlobs \/ RemoveBlob \/ FlushRemovedBlob

-----------------------------------------------------------------------------
(* resolve, as far as it meets workspaces and blobs.                       *)

(* require_staging_discharged and reopen_work_slot.                        *)
Resolve ==
  /\ pc = "resolve"
  /\ IF active = 0 THEN Only("resolve", "ready")
     ELSE IF ~Present(Staging(active)) /\ Present(Work(active)) THEN Only("resolve", "active")
     ELSE Refuse /\ Untouched /\ Quiet

(* open_blob: for an effect of the active transaction, or of recovery, and *)
(* for read_preimage of a terminal one.                                    *)
OpenBlob ==
  \E t \in DOMAIN records : \E d \in records[t] :
    /\ pc = IF t = active THEN "active" ELSE "ready"
    /\ IF Readable(d) THEN Goto(pc) ELSE Refuse
    /\ Untouched /\ Quiet

(* The transaction ends; its blobs, record and work directory stay.        *)
Detach ==
  /\ pc = "active" /\ active' = 0 /\ Goto("ready")
  /\ Untouched /\ UNCHANGED <<database, rows, records, work, kills, cuts>>

Release == pc = "ready" /\ CloseStore /\ UNCHANGED <<store, work, kills, cuts>>

-----------------------------------------------------------------------------
(* admit, open_workspace and create_workspace.                             *)
Admit(S) ==
  /\ pc = "ready" /\ attempts < MaxAttempts
  /\ attempts' = attempts + 1 /\ needs' = S /\ listed' = S /\ Goto("mkdir staging")
  /\ Untouched /\ UNCHANGED <<database, store, kills, cuts>>

MakeStaging ==
  /\ Step("mkdir staging", "mkdir work")
  /\ ~Present(Work(attempts)) /\ Link(Staging(attempts), Directory)

MakeWork == Step("mkdir work", "flush staging") /\ Link(Work(attempts), Directory)

FlushStagingParent == Step("flush staging", "flush work parent") /\ FlushDirectory(<<"staging">>)

FlushWorkParent == Step("flush work parent", "capture") /\ FlushDirectory(<<"work">>)

CreateWorkspace == MakeStaging \/ MakeWork \/ FlushStagingParent \/ FlushWorkParent

(* capture_initial_surface: a sink for every digest, preimages first, then *)
(* payloads; what is written is hashed and must be what was declared.      *)
Captured == {d \in needs : Present(Staged(attempts, d))}

OpenSink ==
  /\ pc = "capture"
  /\ \/ listed = {} /\ Only("capture", "preflight")
     \/ \E d \in listed : Link(Staged(attempts, d), Sink(d)) /\ Step("capture", "write")

WriteSink ==
  /\ pc = "write"
  /\ \E d \in Captured \cap listed : Fill(Sink(d)) /\ Step("write", "flush sink")

FlushSink ==
  /\ pc = "flush sink" /\ listed' = listed \ Captured
  /\ \E d \in listed \cap Captured : FlushFile(Sink(d))
  /\ Goto("capture") /\ UNCHANGED <<database, store, attempts, needs, kills, cuts>>

\* PreconditionRefused: the file, or the payload, is not what was declared.
CaptureRefuses == Only("write", "idle")

Capture == OpenSink \/ WriteSink \/ FlushSink \/ CaptureRefuses

-----------------------------------------------------------------------------
(* prepare_transaction: one store transaction around promote_staging,      *)
(* insert_record and set_active.                                           *)

(* _preflight.                                                             *)
Preflight ==
  /\ pc = "preflight"
  /\ Children(Staging(attempts)) = {Staged(attempts, d) : d \in needs}
  /\ \A d \in needs : Verified(Staged(attempts, d))
  /\ IF \A d \in needs \cap rows : Readable(d) THEN List(needs, "promote")
     ELSE Refuse /\ Untouched /\ Quiet

Dequeue(d) ==
  /\ listed' = listed \ {d} /\ Goto("promote")
  /\ UNCHANGED <<database, store, attempts, needs, kills, cuts>>

\* transfer_noclobber.
PublishBlob(d) == Dequeue(d) /\ Rename(Staged(attempts, d), Blob(d))

\* EEXIST: the leaf that is there must be the same, the staged one goes.
AdoptBlob(d) ==
  /\ Present(Blob(d))
  /\ IF Verified(Blob(d)) THEN Dequeue(d) /\ Unlink(Staged(attempts, d))
     ELSE Refuse /\ Untouched /\ Quiet

\* Mutant: the directory of the blobs is not flushed.
BugFlushBlobs == pc = "promote" /\ listed = {} /\ Only("promote", "flush spent")

FlushBlobs ==
  listed = {} /\ Step("promote", "flush spent") /\ FlushDirectory(<<"sha256">>)

FlushSpent == Step("flush spent", "rmdir spent") /\ FlushDirectory(Staging(attempts))

RemoveSpent == Step("rmdir spent", "flush discharged") /\ RemoveDirectory(Staging(attempts))

\* Mutant: the removal of staging/<txid> is not flushed.
BugFlushDischarged == Only("flush discharged", "commit")

FlushDischarged == Step("flush discharged", "commit") /\ FlushDirectory(<<"staging">>)

PromoteStaging ==
  \/ pc = "promote" /\ \E d \in listed : PublishBlob(d) \/ AdoptBlob(d)
  \/ FlushBlobs \/ FlushSpent \/ RemoveSpent \/ FlushDischarged

(* INSERT_BLOB for every entry, the record, the active row; _run_barrier   *)
(* holds the rows against the references; COMMIT.                          *)
CommitPrepared ==
  /\ pc = "commit" /\ rows' = rows \cup needs
  /\ records' = [t \in DOMAIN records \cup {attempts} |->
                   IF t = attempts THEN needs ELSE records[t]]
  /\ active' = attempts /\ Goto("active")
  /\ Untouched /\ UNCHANGED <<database, work, kills, cuts>>

Prepare == Preflight \/ PromoteStaging \/ CommitPrepared

-----------------------------------------------------------------------------
(* The environment.  SQLite rolls an open transaction back.                *)

Lost == pc' = "idle" /\ UNCHANGED <<refused, content, store, work>>

Kill ==
  /\ pc # "idle" /\ kills < MaxKills /\ kills' = kills + 1
  /\ Lost /\ Untouched /\ UNCHANGED <<private, disk_private, cuts>>

PowerCut ==
  /\ cuts < MaxCuts /\ cuts' = cuts + 1
  /\ Lost /\ LoseUnflushed /\ LoseMode /\ UNCHANGED kills

Background ==
  /\ \/ WriteBack /\ UNCHANGED database
     \/ WriteBackMode /\ Untouched
  /\ UNCHANGED <<pc, refused, store, work, kills, cuts>>

-----------------------------------------------------------------------------
Lease == Open \/ Reclaim \/ Resolve
Transaction == CreateWorkspace \/ Capture \/ Prepare

BNext ==
  \/ Lease \/ Transaction \/ OpenBlob \/ Detach \/ Release
  \/ \E S \in SUBSET Digests : Admit(S)
  \/ Kill \/ PowerCut \/ Background

BSpec == BInit /\ [][BNext]_bvars

(* The holder of the lock goes on; a lease is taken now and then.          *)
FairBSpec == BSpec /\ WF_bvars(Lease \/ Transaction)
=============================================================================
