-------------------------- MODULE EngineProperties --------------------------
(***************************************************************************)
(* What EffectEngine guarantees about the files of a transaction, the      *)
(* exact list of the cases in which recovery halts by itself, and claims   *)
(* of the documentation that the code does not keep.                       *)
(***************************************************************************)
EXTENDS EffectEngine, TxnProperties, PlanReducer

-----------------------------------------------------------------------------
(* The outcome on disk.                                                    *)

Rewritten(p) ==
  \E i \in Effects : /\ program[i].kind = "replace" /\ program[i].path = p
                    /\ program[i].pre = program[i].post

(* A transaction that is rolled back leaves every path the outside writer  *)
(* did not change as it was before: the very same object with its initial  *)
(* state, not a copy of it, and no object where there was none, whatever   *)
(* happened to the other paths, through every crash, kill and repeated     *)
(* recovery (variants.py, settle.py).  Only where a file was replaced by   *)
(* its own content may the copy stay.                                      *)
RollbackRestores ==
  \A t \in Txns : state[t] = "rolled_back" =>
    \A p \in Declared(program) \ touched :
      /\ At(world, p) = Initial(program, p)
      /\ Rewritten(p) \/ world.names[p] = InitialWorld(program).names[p]

(* A committed transaction leaves every path the outside writer did not    *)
(* change in its final state, also while cleanup is interrupted, resumed   *)
(* or halted (verify_committed_surface before the decision; cleanup        *)
(* touches scratch slots only).                                            *)
CommitInstalls ==
  \A t \in Txns : LastState(t) = "committed" =>
    \A p \in Declared(program) \ touched : At(world, p) = Final(program, p)

(* A decision is carried through: recovery halts a committed transaction    *)
(* only after the outside writer has changed a live path, or where the     *)
(* operating system denies the removal of a scratch entry, however often   *)
(* execution, cleanup and recovery are killed or fail (variants.py:        *)
(* classify_committed_cleanup, recover.py: run_plan).                      *)
CommitCarriesThrough ==
  [][\A t \in Txns : state[t] = "committed" /\ state'[t] = "halted" =>
       touched # {} \/ \E i \in Effects : DenyStep(i)]_evars

(* A settled transaction leaves no staging, tombstone, anchor or work      *)
(* entry behind: the slot is not freed before everything is cleared.       *)
ScratchCleared ==
  \A t \in Txns : state[t] \in TerminalStates /\ active # t =>
    \A i \in Effects : Free(world, i)

-----------------------------------------------------------------------------
(* What is not the transaction's own.                                      *)

\* A declared content, or the beginning of one: none of its bytes is news.
DeclaredContents ==
  LET built == {k \in Effects : program[k].kind \in {"create", "replace"}}
      whole == UNION {{program[i].pre, program[i].post} : i \in Effects}
      parts == UNION {Prefixes[program[i].post] : i \in built}
  IN whole \cup parts

MoveDestinations == {program[i].dest : i \in {k \in Effects : program[k].kind = "move"}}

Lost == {o \in foreign : \A s \in Paths \cup Effects : world.names[s] # o}

\* A power cut takes a file that was renamed in place of the anchored one.
CutAway(o) ==
  \E i \in Effects :
    /\ PowerCut(i) /\ o # world.names[i]
    /\ o \in {world.names[program[i].path], world.names[program[i].dest]}

(* Nothing the outside writer put on a live path is ever lost, at whatever *)
(* moment it wrote it: it stays live, or in a scratch slot beside a halt,  *)
(* unless it is a content the specification declares.  One step may lose   *)
(* it: a power cut, where the file has taken the place of a move's source  *)
(* after the anchor was linked and the rename has carried it along         *)
(* (move.py:52-85).  The destination of a move is left out: a power cut    *)
(* can leave the moved file at its source while its undo removes the       *)
(* destination by name (settle.py).                                        *)
ForeignContentSurvives ==
  [][MoveDestinations \cap touched' = {} =>
       \A o \in Lost' \ Lost : world'.inode[o] \in DeclaredContents \/ CutAway(o)]_evars

-----------------------------------------------------------------------------
(* When recovery halts, and when execution cannot commit.                  *)

\* A later effect took or replaced the object a move's anchor names.
MovedObjectGone ==
  \E i, k \in Effects :
    i < k /\ program[i].kind = "move" /\ program[i].dest \in Touches(program[k])

(* Effects that were all applied without interference are accepted by      *)
(* verify_committed_surface, unless one of them moved an object that a     *)
(* later one touches.                                                      *)
FinishedWorkVerifies ==
  pc = "verify" /\ touched = {} => CommittedSurface \/ MovedObjectGone

RecoveryHalts == pc = "plan" /\ plan = "halt"

\* The vector recovery itself left behind is not in the language (journal.py:114).
OpenedUndoBeforePending(j) ==
  \E i, k \in Effects : i < k /\ j[i] = "undo_started" /\ j[k] = "pending"

(* A staged file whose building was interrupted where no row of the tables *)
(* expects it: all bytes written but the mode not set, a prefix when the   *)
(* undo is already opened, or a prefix that happens to be the pre-state.   *)
UnattributedBuild(i) ==
  /\ program[i].kind \in {"create", "replace"} /\ world.names[i] = i
  /\ world.inode[i] # program[i].post
  /\ \/ world.inode[i] \notin Prefixes[program[i].post]
     \/ journals[active][i] = "undo_started"
     \/ world.inode[i] = program[i].pre

(* A later effect on the same path is undone already while the undo of an  *)
(* earlier one is open: the frontier of the later one ignores that the     *)
(* earlier one may have been taken back on disk.                           *)
StackHalfUndone ==
  \E i, k \in Effects :
    /\ i < k /\ Touches(program[i]) \cap Touches(program[k]) # {}
    /\ journals[active][i] = "undo_started" /\ journals[active][k] = "undone"

(* A replace of the destination by the same content landed after a move:   *)
(* its undo keeps the copy, which is not the object the anchor names.      *)
MovedThenRewritten ==
  \E i, k \in Effects :
    /\ i < k /\ program[i].kind = "move" /\ program[k].kind = "replace"
    /\ program[k].path = program[i].dest /\ program[k].pre = program[k].post
    /\ journals[active][k] # "pending"

(* Without interference classification plans a halt in these cases and in  *)
(* no other: every other state a kill, a power cut or a failure can leave, *)
(* however often recovery itself is killed, is one it knows how to undo or *)
(* finish.  A halt recorded in the middle of a plan (RefuseStep, DenyStep) *)
(* is not meant.                                                           *)
HaltsExplained ==
  RecoveryHalts /\ touched = {} =>
    \/ OpenedUndoBeforePending(journals[active])
    \/ \E i \in Effects : UnattributedBuild(i)
    \/ StackHalfUndone
    \/ MovedThenRewritten

-----------------------------------------------------------------------------
(* Plans and their projection.                                             *)

Operations(planned) == [i \in Effects |-> [k \in 1..Len(planned[i]) |-> planned[i][k].op]]

HaveCells(planned) ==
  \A i \in Effects : \A k \in 1..Len(planned[i]) :
    planned[i][k].op \in Cells[program[i].kind]

Observed == Snapshot(program, world, state[active], committed[active], journals[active])

EndsIn(projected, st, outcome, entries) ==
  /\ ~IsRejected(projected)
  /\ projected.state = st /\ projected.result = outcome /\ ~projected.active
  /\ projected.entries = entries

(* Whatever classification finds, its plan is one that the executor has a  *)
(* cell for in every step (settle.py: _CELLS) and the reducer accepts to   *)
(* the last one; and the observation the reducer ends with is what the     *)
(* system calls of the plan leave on disk, object for object.  A halt can  *)
(* always be recorded.  Otherwise recovery would raise a ProtocolError on  *)
(* every start (classifier.py applies each step to its cursor, recover.py  *)
(* reduces the plan again before each mutation).                           *)
PlansProject ==
  pc = "classify" /\ AuthorityOf(active) = "classify" =>
    IF state[active] = "committed"
    THEN LET planned == CommittedPlan(program, world) IN
         IF planned.halt THEN ~IsRejected(ProjectHalt(program, Observed))
         ELSE HaveCells(planned.steps) /\
              EndsIn(ProjectCleanup(program, Observed, Operations(planned.steps)),
                     "committed", "none",
                     [s \in Slots(program) |->
                        IF s \in Effects THEN AbsentEntry ELSE ObservedAt(world, s)])
    ELSE LET planned == RollbackPlan(program, world, journals[active])
             outcome == IF planned.refused THEN "external_drift_preserved" ELSE "restored"
         IN IF planned.halt THEN ~IsRejected(ProjectHalt(program, Observed))
            ELSE HaveCells(planned.steps) /\
                 EndsIn(ProjectRollback(program, Observed, Operations(planned.steps), outcome),
                        "rolled_back", outcome,
                        [s \in Slots(program) |-> ObservedAt(planned.world, s)])

-----------------------------------------------------------------------------
(* An execution or a recovery that is started comes to an end, in one of   *)
(* the outcomes or in a halt, whatever the outside writer does.            *)
EngineSettles ==
  \A t \in Txns : active = t ~> (active # t \/ state[t] = "halted")

-----------------------------------------------------------------------------
(* Claims of the documentation and the tests, each refuted by a run.       *)

(* After a crash in a fresh process a transaction converges; no halt       *)
(* without an outside writer (README.md:63, docs/durability.md:96).        *)
ConvergesWithoutInterference == touched = {} => ~RecoveryHalts

(* A compiled specification that is applied without interference commits   *)
(* (python/tests/test_recovery_classifier.py:177-180 settles               *)
(* move_then_replace as committed).                                        *)
FinishedWorkCommits == pc = "verify" /\ touched = {} => CommittedSurface

=============================================================================
