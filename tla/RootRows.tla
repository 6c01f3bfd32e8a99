------------------------------ MODULE RootRows ------------------------------
(***************************************************************************)
(* The two singleton rows of a metadata store that say what its root is:   *)
(* root_lifecycle and root_operation (store/schema.py, store/records.py),  *)
(* as one record, and the updates that the CHECKs and the triggers of the  *)
(* schema let through.                                                     *)
(***************************************************************************)
EXTENDS FiniteSets

\* A column that is NULL, and a snapshot that is.
Null == "null"
NoSnapshot == <<>>

NoRow ==
  [lifecycle |-> Null, origin |-> Null, kind |-> Null, phase |-> Null,
   id |-> 0, request |-> Null, source |-> NoSnapshot, proof |-> NoSnapshot]

Creations == {"register", "replicate", "fork"}
HasOperation(row) == row.kind # Null

(* require_root_row_pair.                                                  *)
Paired(row) ==
  /\ HasOperation(row) <=> row.origin \in Creations
  /\ HasOperation(row) => row.kind = row.origin /\ row.lifecycle # Null

(* The CHECK of root_lifecycle on origin and state.                        *)
OriginAdmits(row) ==
  row.lifecycle # Null =>
    CASE row.origin \in {"register", "fork"} ->
           row.lifecycle \in {"read-only-unserviceable", "writable"}
      [] row.origin = "replicate" ->
           row.lifecycle \in {"read-only-unserviceable", "read-only-serviceable"}
      [] row.origin = "read-serviceability" -> row.lifecycle = "read-only-serviceable"
      [] row.origin = "migration-v2" -> row.lifecycle = "writable"

(* The nullability CHECK of root_operation.                                *)
ProofsMatchPhase(row) ==
  /\ row.source # NoSnapshot
     <=> row.kind \in {"replicate", "fork"} /\ row.phase # "recorded"
  /\ row.proof # NoSnapshot <=> row.phase \in {"tree-durable", "complete"}

WellFormedRow(row) == Paired(row) /\ OriginAdmits(row) /\ ProofsMatchPhase(row)

(* trg_root_operation_insert_gate and trg_root_lifecycle_insert_gate: both *)
(* rows of an operation are inserted in one transaction.                   *)
StampAllowed(row) == row = NoRow

Stamped(kind, id, request) ==
  [NoRow EXCEPT !.lifecycle = "read-only-unserviceable", !.origin = kind,
                !.kind = kind, !.phase = "recorded",
                !.id = id, !.request = request]

(* A store of the version before the lifecycle has no rows at all, and     *)
(* migrate_root_to_lifecycle_v3 gives it one.                              *)
Legacy == [NoRow EXCEPT !.origin = "version-2"]
Migrated == [NoRow EXCEPT !.lifecycle = "writable", !.origin = "migration-v2"]

\* Cold admission: a lifecycle row without an operation.
Admitted ==
  [NoRow EXCEPT !.lifecycle = "read-only-serviceable",
                !.origin = "read-serviceability"]

(* trg_root_operation_phase_transition; it fires on every update that      *)
(* names the column, also on one that keeps its value.                     *)
PhaseAllowed(kind, old, new) ==
  \/ old = "recorded" /\ new = "source-snapshot-durable" /\ kind # "register"
  \/ old = "recorded" /\ new = "tree-durable" /\ kind = "register"
  \/ old = "source-snapshot-durable" /\ new = "tree-durable"
  \/ old = "tree-durable" /\ new = "complete"

(* trg_root_lifecycle_transition and the CHECK on origin and state.        *)
TransitionAllowed(row, state) ==
  \/ row.lifecycle = state
  \/ /\ row.lifecycle = "read-only-unserviceable"
     /\ state = "read-only-serviceable" /\ row.origin = "replicate"
     /\ row.phase = "complete"
  \/ /\ row.lifecycle = "read-only-unserviceable"
     /\ state = "writable" /\ row.origin \in {"register", "fork"}
     /\ row.phase = "tree-durable"

FinalState(kind) ==
  IF kind = "replicate" THEN "read-only-unserviceable" ELSE "writable"

(* The one transaction that ends a creation: lifecycle first, then phase;  *)
(* trg_root_operation_complete_gate holds the one against the other.       *)
CompletionAllowed(row) ==
  /\ TransitionAllowed(row, FinalState(row.kind))
  /\ PhaseAllowed(row.kind, row.phase, "complete")

Completed(row) ==
  [row EXCEPT !.lifecycle = FinalState(row.kind), !.phase = "complete"]
=============================================================================
