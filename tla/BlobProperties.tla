--------------------------- MODULE BlobProperties ---------------------------
(***************************************************************************)
(* What the metadata store keeps of a transaction's files through failed   *)
(* captures, kills and power cuts.                                         *)
(***************************************************************************)
EXTENDS BlobStore

OnDisk(d) == Blob(d) \in DOMAIN disk_names /\ disk_names[Blob(d)] \in durable

(* A record is never without its bytes: in every state between two calls,  *)
(* also in the one a power cut would leave now, the database that holds it *)
(* is found and can be opened, and the leaf of every blob row is there and *)
(* complete (connection.py: publish_entry; blobs.py: open_blob raises for  *)
(* "a blob row but no leaf").                                              *)
RecordsSurvive ==
  /\ records # <<>> =>
       DatabaseEntry \in DOMAIN disk_names /\ disk_private /\ content = "complete"
  /\ \A d \in rows : Readable(d) /\ OnDisk(d)

(* Nothing that captures, kills and power cuts leave makes a lease call    *)
(* the store invalid: no torn leaf, no sidecar without its database, no    *)
(* staging survivor behind a durable PREPARED and no missing work slot     *)
(* (the MetadataStoreInvalid of blobs.py, workspace.py and connection.py). *)
NeverInvalid == ~refused

(* The active transaction has its work directory and no staging, whatever  *)
(* a power cut takes back (workspace.py: require_staging_discharged and    *)
(* reopen_work_slot).                                                      *)
ActiveHasItsSlot ==
  active # 0 =>
    /\ Work(active) \in DOMAIN names \cap DOMAIN disk_names
    /\ Staging(active) \notin DOMAIN names \cup DOMAIN disk_names

(* When a lease is handed out nothing is in the store that no record       *)
(* names: no workspace, no leaf without a row, no row without a reference  *)
(* ("invisible to both reclaimers", connection.py: _run_barrier).          *)
NothingStranded ==
  pc = "ready" =>
    /\ Leaves = rows /\ rows = UNION {records[t] : t \in DOMAIN records}
    /\ Workspaces = DOMAIN records
    /\ \A t \in Workspaces : ~Present(Staging(t))

(* Every lease entry gets through reclamation, unless it is killed.        *)
ReclamationEnds == pc = "reclaim" ~> pc \in {"ready", "active", "idle"}
=============================================================================
