---------------------------- MODULE EffectEngine ----------------------------
(***************************************************************************)
(* The transaction protocol with the project files in it: how each effect  *)
(* is applied, system call by system call (coordinator/effects), what      *)
(* recovery finds on disk, the plan it makes of that (EffectTables) and    *)
(* how each step of the plan is authorized, executed and confirmed         *)
(* (recover.py: run_plan, settle.py), while an outside writer may change   *)
(* the live paths between any two of those.                                *)
(*                                                                         *)
(* Every action is an action of TxnProtocol with what it does to the files *)
(* added, or leaves TxnProtocol's variables alone.  One transaction is     *)
(* followed: `program' is its compiled specification.  Refused approval    *)
(* (AssemblyHalt) is left to TxnProtocol.                                  *)
(***************************************************************************)
EXTENDS TxnProtocol, EffectTables

CONSTANTS
  Programs,               \* specifications to choose from, sequences of effects
  MaxKills,               \* bound on kills and power cuts
  MaxOutside,             \* bound on what the outside writer does
  OutsideStates           \* file states it may write

(* Each outside action can make one recovery step fail with an exception,  *)
(* which counts as a crash.                                                *)
ASSUME BoundsAssumption ==
  MaxKills \in Nat /\ MaxOutside \in Nat /\ MaxKills + MaxOutside <= MaxCrashes

VARIABLES
  program,                \* the compiled specification, [Effects -> effect]
  world,                  \* names, inodes and undeclared children
  stage,                  \* how far the effect, or the step of the plan, is
  steps,                  \* what is left of the plan's mutations, by effect
  outside,                \* outside actions so far
  touched,                \* live paths the outside writer changed
  foreign,                \* objects with a content the outside writer put there
  kills                   \* kills and power cuts so far

files == <<program, world, stage, steps>>
outsider == <<outside, touched, foreign>>
bounded == <<outsider, kills>>
evars == <<vars, files, bounded>>

Objects == Paths \cup 1..(N + MaxOutside)

\* A scratch slot is named by its effect alone.
ASSUME OneTransaction == \A t, u \in Txns : t = u

ASSUME NamesAssumption == Paths \cap 1..(N + MaxOutside) = {} /\ NoObj \notin Objects

\* A file that is there, finished or not, is not "absent".
ASSUME ProgramsAssumption ==
  \A prog \in Programs : \A i \in Effects :
    /\ WellFormed(prog[i])
    /\ prog[i].kind \in {"create", "replace"} =>
         "absent" \notin Prefixes[prog[i].post] \cup {Raw[prog[i].post]}

ASSUME OutsideAssumption == "absent" \notin OutsideStates

InitialWorld(prog) ==
  [names |-> [s \in Paths \cup Effects |->
                IF s \in Declared(prog) /\ Initial(prog, s) # "absent" THEN s ELSE NoObj],
   inode |-> [o \in Objects |->
                IF o \in Declared(prog) THEN Initial(prog, o) ELSE "absent"],
   stuffed |-> {}]

EInit ==
  /\ Init
  /\ program \in {p \in Programs : Compiles(p)}
  /\ world = InitialWorld(program)
  /\ stage = "begin" /\ steps = NoSteps
  /\ outside = 0 /\ touched = {} /\ foreign = {} /\ kills = 0

Rest == UNCHANGED bounded

(* A protocol action that leaves the files alone.                          *)
Quiet(action) == action /\ UNCHANGED files /\ Rest

Built(i, st) == [world EXCEPT !.names[i] = i, !.inode[i] = st]

-----------------------------------------------------------------------------
(* Applying effect i.                                                      *)

Applying(i, s) == pc = "apply" /\ journals[active][i] = "started" /\ stage = s

Work(w, next) ==
  /\ world' = w /\ stage' = next
  /\ UNCHANGED <<vars, program, steps>> /\ Rest

(* build_staged_file: created empty at 0600, written, given its mode.      *)
CreateStaging(i) ==
  /\ Applying(i, "begin") /\ program[i].kind \in {"create", "replace"}
  /\ Free(world, i)
  /\ \E st \in Prefixes[program[i].post] \cup {Raw[program[i].post]} :
       Work(Built(i, st), "building")

WriteStaging(i) ==
  /\ Applying(i, "building")
  /\ Work([world EXCEPT !.inode[i] = Raw[program[i].post]], "built")

MakeWork(i) ==
  /\ Applying(i, "begin") /\ program[i].kind = "mkdir"
  /\ Free(world, i)
  /\ Work(Built(i, "scaffold"), "built")

SetMode(i) ==
  /\ Applying(i, "built")
  /\ Work([world EXCEPT !.inode[i] = program[i].post], "ready")

(* move.apply: a hard link to the source, checked against source_pre.      *)
LinkAnchor(i) ==
  /\ Applying(i, "begin") /\ program[i].kind = "move"
  /\ IF Free(world, program[i].path) \/ ~Free(world, i) THEN Work(world, "failed")
     ELSE Work([world EXCEPT !.names[i] = world.names[program[i].path]], "linked")

CheckAnchor(i) ==
  /\ Applying(i, "linked")
  /\ Work(world, IF At(world, i) = program[i].pre THEN "ready" ELSE "refusing")

ReadyToLand(i) ==
  Applying(i, IF program[i].kind = "delete" THEN "begin" ELSE "ready")

(* The one rename or exchange that changes the live path.                  *)
Land(i) ==
  LET e == program[i]
      renameTo(from, to, otherwise) ==
        IF ~Free(world, from) /\ Free(world, to)
        THEN Work(Rename(world, from, to), "landed")
        ELSE Work(world, otherwise)
  IN /\ ReadyToLand(i)
     /\ \/ e.kind \in {"create", "mkdir"} /\ renameTo(i, e.path, "refusing")
        \/ e.kind = "delete" /\ renameTo(e.path, i, "failed")
        \/ e.kind = "move" /\ renameTo(e.path, e.dest, "failed")
        \/ /\ e.kind = "replace"
           /\ IF Free(world, e.path) THEN Work(world, "failed")
              ELSE Work(Apply(program, world, "exchange", i), "landed")

(* What the effect finds after it: the object it put there or took away,   *)
(* with the state the specification says.                                  *)
Landed(i) ==
  LET e == program[i]
  IN CASE e.kind = "create" -> world.names[e.path] = i /\ At(world, e.path) = e.post
       [] e.kind = "replace" ->
            /\ world.names[e.path] = i /\ At(world, e.path) = e.post
            /\ At(world, i) = e.pre
       [] e.kind = "delete" -> At(world, i) = e.pre
       [] e.kind = "move" -> SameObject(world, i, e.dest) /\ At(world, e.dest) = e.pre
       [] e.kind = "mkdir" ->
            /\ world.names[e.path] = i /\ At(world, e.path) = e.post
            /\ EmptyDirectory(program, world, e.path)

Verify(i) ==
  /\ Applying(i, "landed")
  /\ Work(world, IF Landed(i) THEN "verified"
                 ELSE IF program[i].kind \in {"create", "mkdir"} THEN "failed"
                 ELSE "undoing")

(* A refused create or directory, or an anchor on the wrong file: its own  *)
(* scratch entry is removed.                                               *)
Withdraw(i) ==
  /\ Applying(i, "refusing")
  /\ Work(Unlink(world, i), "failed")

(* A mismatch after the rename: put back, if that is still possible.       *)
UndoLanding(i) ==
  LET e == program[i]
      op == CASE e.kind = "replace" -> "exchange"
              [] e.kind = "delete" -> "restore"
              [] e.kind = "move" -> "move_back"
  IN /\ Applying(i, "undoing")
     /\ IF /\ Possible(program, world, op, i)
           /\ e.kind = "replace" => world.names[e.path] = i
        THEN Work(Apply(program, world, op, i), "failed")
        ELSE Work(world, "failed")

ApplyEffect(i) ==
  \/ CreateStaging(i) \/ WriteStaging(i) \/ MakeWork(i) \/ SetMode(i)
  \/ LinkAnchor(i) \/ CheckAnchor(i) \/ Land(i) \/ Verify(i)
  \/ Withdraw(i) \/ UndoLanding(i)

-----------------------------------------------------------------------------
(* Forward protocol actions with their conditions on the files.            *)

Forget == stage' = "begin" /\ steps' = NoSteps /\ UNCHANGED program

ToStage(s) == stage' = s /\ UNCHANGED <<program, world, steps>> /\ Rest

EPrepareTransaction(t) ==
  /\ \A p \in Declared(program) : At(world, p) = Initial(program, p)
  /\ Quiet(PrepareTransaction(t))

EStartEffect(i) == StartEffect(i) /\ ToStage("begin")

EFinishEffect(i) == stage = "verified" /\ FinishEffect(i) /\ ToStage("begin")

\* Mutant: a replace is taken to leave no staging entry.
BugCommittedSurface ==
  /\ \A p \in Declared(program) :
       At(world, p) = Final(program, p) /\ world.names[p] \notin world.stuffed
  /\ \A i \in Effects :
       LET e == program[i]
       IN CASE e.kind \in {"create", "mkdir", "replace"} -> Free(world, i)
            [] e.kind = "delete" -> At(world, i) = e.pre
            [] e.kind = "move" -> At(world, i) = e.pre /\ SameObject(world, i, e.dest)

\* verify_committed_surface: the final surface and every scratch slot.
CommittedSurface ==
  /\ \A p \in Declared(program) :
       At(world, p) = Final(program, p) /\ world.names[p] \notin world.stuffed
  /\ \A i \in Effects :
       LET e == program[i]
       IN CASE e.kind \in {"create", "mkdir"} -> Free(world, i)
            [] e.kind \in {"replace", "delete"} -> At(world, i) = e.pre
            [] e.kind = "move" -> At(world, i) = e.pre /\ SameObject(world, i, e.dest)

EVerifyCommittedSurface == CommittedSurface /\ Quiet(VerifyCommittedSurface)

ECaughtFailure == CaughtFailure /\ ToStage("begin")

-----------------------------------------------------------------------------
(* Classification makes the plan.                                          *)

Planned(planned) ==
  steps' = planned /\ stage' = "authorize" /\ UNCHANGED <<program, world>> /\ Rest

EClassifyRollback ==
  /\ pc = "classify"
  /\ \E p \in {RollbackPlan(program, world, journals[active])}, drift \in BOOLEAN :
       ~p.halt /\ p.refused = drift /\ ClassifyRollback(drift) /\ Planned(p.steps)

EClassifyCommitted ==
  /\ pc = "classify"
  /\ \E p \in {CommittedPlan(program, world)} :
       ~p.halt /\ ClassifyCommitted /\ Planned(p.steps)

EClassifyHalt ==
  /\ pc = "classify"
  /\ AuthorityOf(active) = "classify" =>
       IF state[active] = "committed" THEN CommittedPlan(program, world).halt
       ELSE RollbackPlan(program, world, journals[active]).halt
  /\ ClassifyHalt /\ Planned(NoSteps)

EClassifyTerminal == ClassifyTerminal /\ Planned(NoSteps)

-----------------------------------------------------------------------------
(* run_plan: the mutation that is due is authorized against a fresh        *)
(* observation, executed, and its result confirmed.                        *)

Due(i) ==
  /\ pc = "plan" /\ steps[i] # <<>>
  /\ \/ /\ plan = "rollback" /\ state[active] = "rolling_back"
        /\ RollbackCursor(journals[active], i)
        /\ journals[active][i] = "undo_started"
     \/ plan = "cleanup" /\ \A k \in Effects : k < i => steps[k] = <<>>

Step(i) == Head(steps[i])

AsExpected(i) == Joint(program, world, Step(i).slots) = Step(i).before
AsPromised(i) == Joint(program, world, Step(i).slots) = Step(i).after

AuthorizeStep(i) ==
  /\ Due(i) /\ stage = "authorize" /\ AsExpected(i)
  /\ Work(world, "mutate")

MutateStep(i) ==
  /\ Due(i) /\ stage = "mutate"
  /\ IF Possible(program, world, Step(i).op, i)
     THEN Work(Apply(program, world, Step(i).op, i), "confirm")
     ELSE Work(world, "reconsider")

ConfirmStep(i) ==
  /\ Due(i) /\ stage = "confirm"
  /\ IF AsPromised(i)
     THEN steps' = [steps EXCEPT ![i] = Tail(@)] /\ stage' = "authorize"
     ELSE stage' = "reconsider" /\ UNCHANGED steps
  /\ UNCHANGED <<vars, program, world>> /\ Rest

\* Mutant: the step is tried again instead.
BugRefuseStep(i) ==
  /\ Due(i) /\ stage \in {"authorize", "reconsider"} /\ ~AsExpected(i)
  /\ Work(world, "authorize")

(* The world moved under the plan, as the observation before the mutation  *)
(* or the one after its failure finds: PLAN_PRECONDITION_CHANGED.          *)
RefuseStep(i) ==
  /\ Due(i) /\ stage \in {"authorize", "mutate", "reconsider"} /\ ~AsExpected(i)
  /\ PersistHalt /\ Forget /\ UNCHANGED world /\ Rest

(* The operating system denies the mutation (EACCES, EPERM) and the world  *)
(* is as it was: MUTATION_DENIED.                                          *)
DenyStep(i) ==
  /\ Due(i) /\ stage = "mutate" /\ AsExpected(i)
  /\ PersistHalt /\ Forget /\ UNCHANGED world /\ Rest

(* A mutation failed and the world looks as it did before it: a            *)
(* ProtocolError escapes from run_plan.                                    *)
EscapeStep(i) ==
  /\ Due(i) /\ stage = "reconsider" /\ AsExpected(i)
  /\ Crash /\ Forget /\ UNCHANGED world /\ Rest

EPersistHalt == plan = "halt" /\ Quiet(PersistHalt)

EPersistUndone(i) == steps[i] = <<>> /\ Quiet(PersistUndone(i))

\* Mutant: the transaction is detached with cleanup still to do.
BugEReachDetach == Quiet(ReachDetach)

EReachDetach ==
  /\ plan = "cleanup" => steps = NoSteps
  /\ Quiet(ReachDetach)

-----------------------------------------------------------------------------
(* A kill between two system calls, or a power cut between the rename of a *)
(* move and the flush of its two directories: each of them may have        *)
(* reached the disk without the other.                                     *)

Killed == Crash /\ kills < MaxKills /\ kills' = kills + 1 /\ UNCHANGED outsider

ECrash == Killed /\ Forget /\ UNCHANGED world

(* Effect i has renamed `from' to `to', and has flushed neither directory. *)
Unflushed(i, from, to) ==
  LET e == program[i] IN
  /\ e.kind = "move" /\ Parent[e.path] # Parent[e.dest]
  /\ \/ Applying(i, "landed") /\ from = e.path /\ to = e.dest
     \/ Due(i) /\ stage = "confirm" /\ Step(i).op = "move_back" /\ from = e.dest /\ to = e.path

(* What was renamed: what the anchor names, unless the outside writer has  *)
(* put another file there in the meantime.  A name it has changed since    *)
(* the rename is one it has flushed itself.                                *)
PowerCut(i) ==
  \E from, to \in Touches(program[i]) :
    LET moved == world.names[IF from \in touched THEN to ELSE i]
    IN /\ Killed /\ Unflushed(i, from, to)
       /\ moved # NoObj /\ (to \in touched => moved = world.names[i])
       /\ \E before \in IF Free(world, from) THEN {NoObj, moved} ELSE {world.names[from]},
             after \in IF world.names[to] = moved THEN {NoObj, moved} ELSE {world.names[to]} :
            world' = [world EXCEPT !.names[from] = before, !.names[to] = after]
       /\ Forget

-----------------------------------------------------------------------------
(* The outside writer, while the transaction is active.                    *)

InReach(p) ==
  /\ active # NoTxn /\ outside < MaxOutside /\ p \in Declared(program)
  /\ Parent[p] \in Declared(program) => At(world, Parent[p]) = "dir"

IsFile(p) == At(world, p) \notin {"absent", "dir", "scaffold"}

Meddle(p, w, content) ==
  /\ outside' = outside + 1 /\ touched' = touched \cup {p}
  /\ world' = w /\ foreign' = content
  /\ UNCHANGED <<vars, program, stage, steps, kills>>

OutsideWrite(p, st) ==
  /\ InReach(p)
  /\ IsFile(p) \/ Free(world, p)
  /\ LET new == N + outside + 1
     IN Meddle(p, [world EXCEPT !.names[p] = new, !.inode[new] = st],
               (foreign \ {world.names[p]}) \cup {new})

OutsideEdit(p, st) ==
  /\ InReach(p) /\ IsFile(p) /\ st # At(world, p)
  /\ Meddle(p, [world EXCEPT !.inode[world.names[p]] = st],
            foreign \cup {world.names[p]})

OutsideRemove(p) ==
  /\ InReach(p) /\ ~Free(world, p) /\ EmptyDirectory(program, world, p)
  /\ Meddle(p, Unlink(world, p), foreign \ {world.names[p]})

OutsideStuff(p) ==
  /\ InReach(p) /\ At(world, p) = "dir" /\ world.names[p] \notin world.stuffed
  /\ Meddle(p, [world EXCEPT !.stuffed = @ \cup {world.names[p]}], foreign)

Outside ==
  \E p \in Paths :
    \/ \E st \in OutsideStates : OutsideWrite(p, st) \/ OutsideEdit(p, st)
    \/ OutsideRemove(p) \/ OutsideStuff(p)

-----------------------------------------------------------------------------
EClassify ==
  EClassifyTerminal \/ EClassifyHalt \/ EClassifyCommitted \/ EClassifyRollback

ERunPlan ==
  \/ Quiet(PersistRollingBack) \/ Quiet(PersistRolledBack) \/ EPersistHalt
  \/ \E i \in Effects :
       \/ Quiet(PersistUndoStarted(i)) \/ EPersistUndone(i)
       \/ AuthorizeStep(i) \/ MutateStep(i) \/ ConfirmStep(i)
       \/ RefuseStep(i) \/ DenyStep(i) \/ EscapeStep(i)
  \/ EReachDetach \/ Quiet(DetachActive)

EExecute ==
  \/ Quiet(AppendRegistration) \/ Quiet(BindRegistration) \/ Quiet(BeginApplying)
  \/ \E i \in Effects : EStartEffect(i) \/ ApplyEffect(i) \/ EFinishEffect(i)
  \/ Quiet(FinishApplying) \/ EVerifyCommittedSurface \/ Quiet(DecideCommit)
  \/ Quiet(AppendSettlement) \/ Quiet(BindSettlement)

EProgress ==
  \/ Quiet(Acquire) \/ Quiet(Resolve) \/ Quiet(Reconcile) \/ Quiet(ApproveTopology)
  \/ EClassify \/ ERunPlan \/ EExecute

EEnvironment ==
  \/ \E t \in Txns : EPrepareTransaction(t)
  \/ Quiet(Release) \/ ECaughtFailure \/ ECrash \/ \E i \in Effects : PowerCut(i)
  \/ Outside

ENext == EProgress \/ EEnvironment

ESpec == EInit /\ [][ENext]_evars

(* An execution that stops by itself has met an exception: handling it is  *)
(* part of the progress of the process.                                    *)
FairESpec == ESpec /\ WF_evars(EProgress \/ ECaughtFailure)
=============================================================================
