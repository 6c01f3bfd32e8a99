---------------------- MODULE EngineInterference_proofs ----------------------
(***************************************************************************)
(* An outside writer and a transaction, for every compiled specification:  *)
(* what it does to what somebody else writes at a declared path meanwhile, *)
(* and what becomes of its decision when nobody does.                      *)
(*                                                                         *)
(* What somebody else puts on a live path is not lost.  The argument is    *)
(* from AnchorInv (EngineRollback_proofs): no system call of an effect and *)
(* no step of a plan takes its last name, unless its content is declared;  *)
(* a power cut may, where a rename has carried it along in place of the    *)
(* anchored file.                                                          *)
(*                                                                         *)
(* Without interference what is committed stays so, as cleanup finds every *)
(* scratch slot as it planned, unless a removal is denied.                 *)
(***************************************************************************)
EXTENDS EngineRollback_proofs

-----------------------------------------------------------------------------
(* What the outside writer put there.                                      *)

\* What it wrote is a file, made by it or edited by it.
ForeignObjects == foreign \subseteq Objects

\* The directory an effect makes is never written to, and only its own.
OwnDirectories ==
  \A k \in Effects : program[k].kind = "mkdir" =>
    /\ world.names[k] \in {NoObj, k} /\ k \notin foreign
    /\ world.inode[k] \in {"absent", "scaffold", "dir"}

(* The file an effect builds is its own until it has landed; the staging   *)
(* entry of a refused create is that file (create.apply).                  *)
OwnStaging ==
  \A k \in Effects : program[k].kind \in {"create", "replace"} =>
    /\ Early => \A t \in Txns : journals[t][k] = "pending" => k \notin foreign
    /\ pc = "apply" /\ journals[active][k] = "started"
         /\ stage \in {"begin", "building", "built", "ready", "refusing"} => k \notin foreign
    /\ Applying(k, "refusing") => world.names[k] = k

\* A new anchor names a file that is still live, or one that nobody wrote to.
AnchorsSpare ==
  \A k \in Movers(program) :
    (Applying(k, "linked") \/ Applying(k, "refusing")) /\ world.names[k] \in foreign =>
      world.names[program[k].path] = world.names[k]

\* An effect that deletes has nothing to withdraw.
Withdrawals == \A k \in Effects : Applying(k, "refusing") => program[k].kind # "delete"

(* A removal that is authorized: the scratch file holds a declared content *)
(* or is live as well, and the destination is the anchor's object.         *)
Removal(k) ==
  /\ Step(k).op = "drop" /\ program[k].kind # "mkdir" /\ world.names[k] \in foreign =>
       \/ At(world, k) \in DeclaredContents
       \/ \E p \in Paths : world.names[p] = world.names[k]
  /\ Step(k).op = "drop_destination" =>
       /\ program[k].kind = "move"
       /\ MoveDestinations \cap touched = {} => SameObject(world, k, program[k].dest)

RemovalInv == \A k \in Effects : Due(k) /\ stage = "mutate" => Removal(k)

\* Cleanup expects a scratch file with the state that was there before.
CleanupInv ==
  pc = "plan" /\ plan = "cleanup" => \A i \in Effects : steps[i] # <<>> =>
    Step(i).slots = {i} /\ Step(i).before.states[i] = program[i].pre

(* The invariant about what the outside writer put there, relative to      *)
(* AnchorSafe.                                                             *)
ForeignInv ==
  /\ ForeignObjects /\ OwnDirectories /\ OwnStaging /\ AnchorsSpare /\ Withdrawals
  /\ RemovalInv /\ CleanupInv

\* The steps of an engine that are not the outside writer's leave its record alone.
LEMMA OutsiderStays ==
  ASSUME [ENext]_evars
  PROVE  Outside \/ UNCHANGED outsider
<1>1. ASSUME Rest \/ Killed PROVE UNCHANGED outsider
  BY <1>1 DEF Rest, Killed, bounded
<1>2. CASE UNCHANGED evars
  BY <1>2 DEF evars, bounded
<1>3. CASE EClassify
  BY <1>1, <1>3 DEF EClassify, EClassifyTerminal, EClassifyHalt, EClassifyCommitted,
                    EClassifyRollback, Planned
<1>4. CASE ERunPlan
  BY <1>1, <1>4 DEF ERunPlan, Quiet, EPersistHalt, EPersistUndone, AuthorizeStep, MutateStep,
                    ConfirmStep, RefuseStep, DenyStep, EscapeStep, EReachDetach, Work
<1>5. CASE EExecute
  <2>1. ASSUME NEW i \in Effects, ApplyEffect(i) PROVE UNCHANGED outsider
    BY <1>1, <2>1 DEF ApplyEffect, CreateStaging, WriteStaging, MakeWork, SetMode, LinkAnchor,
       CheckAnchor, Land, Verify, Withdraw, UndoLanding, Work
  <2> QED
    BY <1>1, <1>5, <2>1 DEF EExecute, Quiet, EStartEffect, EFinishEffect, ToStage,
       EVerifyCommittedSurface
<1>6. CASE \/ Quiet(Acquire) \/ Quiet(Resolve) \/ Quiet(Reconcile) \/ Quiet(ApproveTopology)
           \/ Quiet(Release) \/ \E t \in Txns : EPrepareTransaction(t)
  BY <1>1, <1>6 DEF Quiet, EPrepareTransaction
<1>7. CASE ECaughtFailure \/ ECrash \/ \E i \in Effects : PowerCut(i)
  BY <1>1, <1>7 DEF ECaughtFailure, ToStage, ECrash, PowerCut
<1> QED
  BY <1>2, <1>3, <1>4, <1>5, <1>6, <1>7 DEF ENext, EProgress, EEnvironment

\* In particular they leave what it has written alone.
LEMMA ForeignStays ==
  ASSUME [ENext]_evars
  PROVE  Outside \/ foreign' = foreign
BY OutsiderStays DEF outsider

\* At first the outside writer has written nothing.
LEMMA ForeignInit == EInit => ForeignInv
<1> SUFFICES ASSUME EInit PROVE ForeignInv
  OBVIOUS
<1>1. /\ pc = "idle" /\ plan = "none" /\ world = InitialWorld(program) /\ foreign = {}
  BY DEF EInit, Init
<1>2. Declared(program) \subseteq Paths
  BY EngineInvInit DEF EngineInv, FilesInv, ProgramOK, WellFormed, Declared
<1>3. ASSUME NEW k \in Effects
      PROVE  world.names[k] = NoObj /\ world.inode[k] = "absent"
  <2>1. k \notin Declared(program) /\ k \in Paths \cup Effects /\ k \in Objects
    BY <1>2, SlotsApart
  <2> QED
    BY <1>1, <2>1 DEF InitialWorld
<1>4. ForeignObjects /\ OwnDirectories /\ OwnStaging /\ AnchorsSpare /\ Withdrawals
  BY <1>1, <1>3 DEF ForeignObjects, OwnDirectories, OwnStaging, AnchorsSpare, Withdrawals, Applying, Movers
<1>5. RemovalInv /\ CleanupInv
  BY <1>1 DEF RemovalInv, Due, CleanupInv
<1> QED
  BY <1>4, <1>5 DEF ForeignInv

\* One step of a plan is due.
LEMMA DueIsOne ==
  ASSUME NEW i \in Effects, NEW k \in Effects, Due(i), Due(k)
  PROVE  i = k
<1>1. i \in Nat /\ k \in Nat
  BY NAssumption DEF Effects
<1>2. ~(i < k) /\ ~(k < i)
  BY <1>1 DEF Due, RollbackCursor, Unwound
<1> QED
  BY <1>1, <1>2

-----------------------------------------------------------------------------
(* What the outside writer does to what it wrote.                          *)

\* What the outside writer does at path p, to what it put there before.
Rewrites(p) ==
  /\ \A s \in Named \ {p} : world'.names[s] = world.names[s]
  /\ \A o \in foreign' :
       \/ o = world'.names[p]
       \/ o \in foreign /\ (o # world.names[p] \/ world'.names[p] = world.names[p])
  /\ \A o \in foreign' :
       o \in foreign \/ o = N + outside + 1 \/ (o = world.names[p] /\ IsFile(p))
  /\ \A o \in Objects : world'.inode[o] # world.inode[o] =>
       /\ o = world'.names[p]
       /\ o = N + outside + 1 \/ (o = world.names[p] /\ IsFile(p))
  /\ world.names[p] \in foreign' => world'.names[p] = world.names[p]
  /\ foreign' \subseteq foreign \cup {world.names[p], N + outside + 1}

\* It does so at one path, which is then touched.
LEMMA OutsideRewrites ==
  ASSUME Solid(world), outside \in 0..MaxOutside, Outside
  PROVE  \E p \in Paths :
           /\ Rewrites(p) /\ p \in Declared(program) /\ touched' = touched \cup {p}
           /\ UNCHANGED <<vars, program, stage, steps>>
           /\ N + outside + 1 \in Objects /\ outside < MaxOutside
<1>1. PICK p \in Paths : \/ \E st \in OutsideStates : OutsideWrite(p, st) \/ OutsideEdit(p, st)
                         \/ OutsideRemove(p) \/ OutsideStuff(p)
  BY DEF Outside
<1>2. /\ outside < MaxOutside /\ p \in Declared(program)
      /\ touched' = touched \cup {p} /\ UNCHANGED <<vars, program, stage, steps>>
  BY <1>1 DEF OutsideWrite, OutsideEdit, OutsideRemove, OutsideStuff, InReach, Meddle
<1>3. p \in Named
  BY DEF Named
<1>4. PICK new : new = N + outside + 1
  OBVIOUS
<1>5. new \in Objects
  BY <1>2, <1>4, BoundsAssumption, NAssumption DEF Objects
<1>6. ASSUME NEW st \in OutsideStates, OutsideWrite(p, st)
      PROVE  Rewrites(p)
  <2>1. PICK f, g : /\ f = [world.names EXCEPT ![p] = new]
                    /\ g = [world.inode EXCEPT ![new] = st]
    OBVIOUS
  <2>2. NewObject(world, p, new, st) = [names |-> f, inode |-> g, stuffed |-> world.stuffed]
    BY <2>1, NewObjectIs
  <2>3. world' = [names |-> f, inode |-> g, stuffed |-> world.stuffed]
    BY <1>4, <1>6, <2>2 DEF OutsideWrite, Meddle, NewObject
  <2>4. /\ f[p] = new /\ \A s \in Named \ {p} : f[s] = world.names[s]
        /\ \A o \in Objects \ {new} : g[o] = world.inode[o]
    BY <1>3, <2>1 DEF Solid
  <2>5. foreign' = (foreign \ {world.names[p]}) \cup {new}
    BY <1>4, <1>6 DEF OutsideWrite, Meddle
  <2> QED
    BY <1>4, <2>3, <2>4, <2>5 DEF Rewrites
<1>7. ASSUME NEW st \in OutsideStates, OutsideEdit(p, st)
      PROVE  Rewrites(p)
  <2>1. PICK g : g = [world.inode EXCEPT ![world.names[p]] = st]
    OBVIOUS
  <2>2. world' = [names |-> world.names, inode |-> g, stuffed |-> world.stuffed]
    BY <1>7, <2>1 DEF OutsideEdit, Meddle, Solid
  <2>3. IsFile(p) /\ foreign' = foreign \cup {world.names[p]}
    BY <1>7 DEF OutsideEdit, Meddle
  <2>4. \A o \in Objects \ {world.names[p]} : g[o] = world.inode[o]
    BY <2>1 DEF Solid
  <2> QED
    BY <2>2, <2>3, <2>4 DEF Rewrites
<1>8. ASSUME OutsideRemove(p) PROVE Rewrites(p)
  <2>1. world' = SetName(world, p, NoObj) /\ foreign' = foreign \ {world.names[p]}
    BY <1>8 DEF OutsideRemove, Meddle, Unlink, SetName
  <2>2. PICK w : w = SetName(world, p, NoObj)
    OBVIOUS
  <2>3. w.names[p] = NoObj /\ \A s \in Named \ {p} : w.names[s] = world.names[s]
    BY <1>3, <2>2, OneNameMoves
  <2>4. w.inode = world.inode
    BY <2>2, NamesOnly
  <2> QED
    BY <2>1, <2>2, <2>3, <2>4 DEF Rewrites
<1>9. ASSUME OutsideStuff(p) PROVE Rewrites(p)
  <2>1. PICK x : world' = [world EXCEPT !.stuffed = x]
    BY <1>9 DEF OutsideStuff, Meddle
  <2>2. world' = [names |-> world.names, inode |-> world.inode, stuffed |-> x]
    BY <2>1 DEF Solid
  <2>3. foreign' = foreign
    BY <1>9 DEF OutsideStuff, Meddle
  <2> QED
    BY <2>2, <2>3 DEF Rewrites
<1> QED
  BY <1>1, <1>2, <1>4, <1>5, <1>6, <1>7, <1>8, <1>9

-----------------------------------------------------------------------------
(* What the steps of an effect do, and the directories it makes.           *)

\* Cleanup only removes scratch names.
LEMMA CleanupStep ==
  ASSUME DropInv, NEW k \in Effects, Due(k), plan = "cleanup"
  PROVE  steps[k] = <<Step(k)>> /\ Step(k).op = "drop"
<1>1. PICK q : q = steps[k]
  OBVIOUS
<1>2. q = <<q[1]>> /\ q[1].op = "drop"
  BY <1>1 DEF DropInv, Dropping, Due
<1>3. PICK x : x = q[1]
  OBVIOUS
<1>4. q = <<x>> /\ Head(<<x>>) = x
  BY <1>2, <1>3
<1> QED
  BY <1>1, <1>2, <1>3, <1>4 DEF Step

\* What executing the step that is due does, in a rollback and in a cleanup.
MutateDoes(k) ==
  /\ Due(k) /\ stage = "mutate" /\ UNCHANGED <<vars, program, steps, bounded>>
  /\ OthersKept(world, world', k) /\ stage' \in {"confirm", "reconsider"}
  /\ program[k].kind = "mkdir" => Step(k).op \in {"rmdir_live", "drop"}
  /\ Step(k).op = "rmdir_live" => program[k].kind = "mkdir"
  /\ Step(k).op \in SettlementOps
  /\ \/ world' = world
     \/ /\ Possible(program, world, Step(k).op, k)
        /\ Operated(world, world', program[k], k, Step(k).op)

\* MutateStep is as said.
LEMMA MutateIsDone ==
  ASSUME AnchorSafe, NEW k \in Effects, MutateStep(k)
  PROVE  MutateDoes(k)
<1>1. EngineInv /\ CommitInv /\ RecordShape /\ SoundInv /\ DropInv /\ FilesInv
  BY DEF AnchorSafe, CommitInv, EngineInv
<1>2. /\ Due(k) /\ stage = "mutate" /\ UNCHANGED <<vars, program, steps, bounded>>
      /\ OthersKept(world, world', k) /\ stage' \in {"confirm", "reconsider"}
  <2>1. Solid(world) /\ ProgramOK /\ PlanInv
    BY <1>1 DEF FilesInv
  <2> QED
    BY <2>1, MutateFiles DEF MutateStep
<1>3. Formed(program) /\ Solid(world)
  BY <1>1, Compiled
<1>4. PICK e : e = program[k]
  OBVIOUS
<1>5. PICK s : s = Step(k)
  OBVIOUS
<1>6. e.kind \in {"create", "mkdir", "delete", "move", "replace"}
  BY <1>3, <1>4 DEF Formed, WellFormed, Kinds
<1>7. CASE plan = "rollback"
  <2>1. Sound(e, k, s)
    BY <1>1, <1>2, <1>4, <1>5, <1>7, DueSound
  <2>2. /\ e.kind = "mkdir" => s.op \in {"rmdir_live", "drop"}
        /\ s.op = "rmdir_live" => e.kind = "mkdir"
        /\ s.op \in SettlementOps
    BY <1>6, <2>1, SettlementOpsAre DEF Sound
  <2>3. \/ world' = world
        \/ /\ Possible(program, world, s.op, k)
           /\ Operated(world, world', e, k, s.op)
    BY <1>1, <1>4, <1>5, <1>7, MutateIs
  <2> QED
    BY <1>2, <1>4, <1>5, <2>2, <2>3 DEF MutateDoes
<1>8. CASE plan = "cleanup"
  <2>1. s.op = "drop" /\ s.op \in SettlementOps
    BY <1>1, <1>2, <1>5, <1>8, CleanupStep, SettlementOpsAre
  <2>2. CASE Possible(program, world, s.op, k)
    <3>1. world' = Apply(program, world, s.op, k)
      BY <1>5, <2>2 DEF MutateStep, Work
    <3>2. Operated(world, Apply(program, world, s.op, k), program[k], k, s.op)
      BY <1>3, <2>1, <2>2, OperatedIs
    <3> QED
      BY <1>2, <1>4, <1>5, <2>1, <2>2, <3>1, <3>2 DEF MutateDoes
  <2>3. CASE ~Possible(program, world, s.op, k)
    BY <1>2, <1>5, <2>1, <2>3 DEF MutateDoes, MutateStep, Work
  <2> QED
    BY <2>2, <2>3
<1> QED
  BY <1>2, <1>7, <1>8 DEF Due

\* What is known while effect k is being applied.
WorkDoes(k) ==
  /\ WorkStep(k) /\ WorkNames(k) /\ NoneShared(program, world)
  /\ pc = "apply" /\ journals[active][k] = "started"
  /\ \A i \in Effects : journals[active][i] = "started" => i = k
  /\ UNCHANGED <<vars, program, steps, bounded>>
  /\ OthersKept(world, world', k) /\ Solid(world')
  /\ stage = "begin" => Unused(world, k)
  /\ Top(world, journals[active], k) /\ NamesOK(program, world, journals[active])

\* A system call of an effect is as said.
LEMMA ApplyIsDone ==
  ASSUME AnchorSafe, NEW k \in Effects, ApplyEffect(k)
  PROVE  WorkDoes(k)
<1>1. EngineInv /\ CommitInv /\ RecordShape /\ SoundInv /\ AnchorInv /\ FilesInv /\ WorkInv
  BY DEF AnchorSafe, EngineInv, AnchorInv
<1>2. FilesOf(k)
  <2>1. Solid(world) /\ ProgramOK /\ StageInv
    BY <1>1 DEF FilesInv
  <2> QED
    BY <2>1, ApplyEffectFiles
<1>3. pc = "apply" /\ journals[active][k] = "started"
  BY <1>2 DEF FilesOf
<1>4. /\ active \in Txns
      /\ NamesOK(program, world, journals[active]) /\ WorkNames(k)
      /\ NoneShared(program, world)
      /\ stage = "begin" => Unused(world, k)
  BY <1>1, <1>3, ApplyFacts
<1>5. /\ Top(world, journals[active], k)
      /\ \A i \in Effects : journals[active][i] \in Open => i = k
  BY <1>1, <1>3, <1>4, OpenTop DEF Open
<1>6. WorkStep(k)
  BY <1>1, WorkSteps
<1> QED
  BY <1>2, <1>4, <1>5, <1>6 DEF WorkDoes, FilesOf, Open

\* A system call writes a directory only to make it.
LEMMA DirectoryMade ==
  ASSUME Solid(world), StageInv, NEW k \in Effects, program[k].kind = "mkdir", WellFormed(program[k]),
         ApplyEffect(k)
  PROVE  world'.inode[k] \in {world.inode[k], "scaffold", "dir"}
<1>1. k \in Objects /\ k \in Named /\ program[k].post = "dir"
  BY SlotsApart DEF WellFormed
<1>2. CASE MakeWork(k)
  <2>1. world' = NewObject(world, k, k, "scaffold")
    BY <1>2 DEF MakeWork, Built, NewObject, Work
  <2>2. NewObject(world, k, k, "scaffold").inode = [world.inode EXCEPT ![k] = "scaffold"]
    BY NewObjectIs
  <2>3. [world.inode EXCEPT ![k] = "scaffold"][k] = "scaffold"
    BY <1>1 DEF Solid
  <2> QED
    BY <2>1, <2>2, <2>3
<1>3. CASE SetMode(k)
  <2>1. world' = [world EXCEPT !.inode[k] = "dir"]
    BY <1>1, <1>3 DEF SetMode, Work
  <2>2. PICK g : g = [world.inode EXCEPT ![k] = "dir"]
    OBVIOUS
  <2>3. world' = [names |-> world.names, inode |-> g, stuffed |-> world.stuffed]
    BY <2>1, <2>2 DEF Solid
  <2>4. g[k] = "dir"
    BY <1>1, <2>2 DEF Solid
  <2> QED
    BY <2>3, <2>4
<1>4. CASE Land(k)
  <2>1. world' = world \/ world' = SetNames(world, program[k].path, world.names[k], k, NoObj)
    BY <1>4 DEF Land, Rename, Work, SetNames
  <2> QED
    BY <2>1, NamesOnly
<1>5. CASE Withdraw(k)
  <2>1. world' = SetName(world, k, NoObj)
    BY <1>5 DEF Withdraw, Unlink, Work, SetName
  <2> QED
    BY <2>1, NamesOnly
<1>6. CASE CheckAnchor(k) \/ Verify(k)
  BY <1>6 DEF CheckAnchor, Verify, Work
<1>7. ~CreateStaging(k) /\ ~WriteStaging(k) /\ ~LinkAnchor(k) /\ ~UndoLanding(k)
  BY DEF CreateStaging, WriteStaging, LinkAnchor, UndoLanding, StageInv
<1> QED
  BY <1>2, <1>3, <1>4, <1>5, <1>6, <1>7 DEF ApplyEffect

\* A system call keeps OwnDirectories.
LEMMA ApplyDirectories ==
  ASSUME AnchorSafe, OwnDirectories, NEW k \in Effects, ApplyEffect(k), foreign' = foreign
  PROVE  OwnDirectories'
<1>1. WorkDoes(k)
  BY ApplyIsDone
<1>2. Formed(program) /\ Solid(world) /\ StageInv
  BY Compiled DEF AnchorSafe, EngineInv, FilesInv
<1>3. program' = program
  BY <1>1 DEF WorkDoes
<1>4. ASSUME NEW i \in Effects, program[i].kind = "mkdir"
      PROVE  /\ world'.names[i] \in {NoObj, i}
             /\ world'.inode[i] \in {"absent", "scaffold", "dir"}
  <2>1. world.names[i] \in {NoObj, i} /\ world.inode[i] \in {"absent", "scaffold", "dir"}
        /\ i \in Objects /\ i \in Named
    BY <1>4, SlotsApart DEF OwnDirectories
  <2>2. CASE i = k
    <3>1. world'.inode[i] \in {"absent", "scaffold", "dir"}
      BY <1>2, <1>4, <2>1, <2>2, DirectoryMade DEF Formed
    <3>2. program[k].path # k /\ program[k].path \in Paths
      BY <1>2, NamesAre
    <3>3. world'.names[k] \in {NoObj, k, world.names[k]}
      <4>1. PICK e : e = program[k]
        OBVIOUS
      <4>2. e.kind = "mkdir" /\ WorkStep(k)
        BY <1>1, <1>4, <2>2, <4>1 DEF WorkDoes
      <4> QED
        BY <4>1, <4>2 DEF WorkStep, WorkBuild, WorkWrite, WorkLink, WorkCheck, WorkLand,
              WorkVerify, WorkWithdraw, WorkUndo, WorkFail
    <3> QED
      BY <2>1, <2>2, <3>1, <3>3
  <2>3. CASE i # k
    <3>1. world'.names[i] = world.names[i]
      BY <1>1, <2>3 DEF WorkDoes, OthersKept
    <3>2. world'.inode[i] = world.inode[i]
      <4>1. i \in Objects \ {k}
        BY <2>1, <2>3
      <4>2. WorkStep(k)
        BY <1>1 DEF WorkDoes
      <4> QED
        BY <4>1, <4>2 DEF WorkStep, WorkBuild, WorkWrite, WorkLink, WorkCheck, WorkLand,
              WorkVerify, WorkWithdraw, WorkUndo, WorkFail, InodesKept, Operated
    <3> QED
      BY <2>1, <3>1, <3>2
  <2> QED
    BY <2>2, <2>3
<1> QED
  BY <1>3, <1>4 DEF OwnDirectories

\* So does a step of a plan.
LEMMA MutateDirectories ==
  ASSUME AnchorSafe, OwnDirectories, NEW k \in Effects, MutateStep(k), foreign' = foreign
  PROVE  OwnDirectories'
<1>1. MutateDoes(k)
  BY MutateIsDone
<1>2. Formed(program)
  BY Compiled DEF AnchorSafe
<1>3. program' = program
  BY <1>1 DEF MutateDoes
<1>4. ASSUME NEW i \in Effects, program[i].kind = "mkdir"
      PROVE  /\ world'.names[i] \in {NoObj, world.names[i]}
             /\ world'.inode = world.inode
  <2>1. CASE i # k
    BY <1>1, <2>1 DEF MutateDoes, OthersKept, Operated
  <2>2. CASE i = k
    <3>1. PICK e : e = program[k]
      OBVIOUS
    <3>2. PICK op : op = Step(k).op
      OBVIOUS
    <3>3. e.path # k /\ k \in Named
      BY <1>2, <3>1, NamesAre, SlotsApart
    <3>4. op \in {"rmdir_live", "drop"} /\ (world' = world \/ Operated(world, world', e, k, op))
      BY <1>1, <1>4, <2>2, <3>1, <3>2 DEF MutateDoes
    <3> QED
      BY <2>2, <3>3, <3>4 DEF Operated, SameElse
  <2> QED
    BY <2>1, <2>2
<1> QED
  BY <1>3, <1>4 DEF OwnDirectories

\* A power cut leaves objects and anchors alone, and every other name.
LEMMA PowerCutNames ==
  ASSUME EngineInv, NEW k \in Effects, PowerCut(k)
  PROVE  /\ program' = program /\ world'.inode = world.inode /\ pc' = "idle" /\ stage' = "begin"
         /\ \A i \in Effects : world'.names[i] = world.names[i]
         /\ SameElse(world, world', Touches(program[k]))
<1>1. Solid(world) /\ ProgramOK
  BY DEF EngineInv, FilesInv
<1>2. /\ program' = program /\ stage' = "begin" /\ pc' = "idle"
      /\ \A i \in Effects : world'.names[i] = world.names[i]
  BY <1>1, PowerCutFiles DEF Killed, Crash
<1>3. PICK s, u, o : CutLeaves(k, s, u, o)
  BY <1>1, PowerCutFiles
<1> QED
  BY <1>2, <1>3 DEF CutLeaves, SameElse

\* The outside writer at path p, with what is known of it.
LEMMA OutsideAtPath ==
  ASSUME EngineInv, Outside
  PROVE  \E p \in Paths :
           /\ Rewrites(p) /\ p \in Declared(program) /\ touched' = touched \cup {p}
           /\ UNCHANGED <<vars, program, stage, steps>>
           /\ N + outside + 1 \in Objects /\ N + outside + 1 \notin Effects
           /\ N + outside + 1 \in (N + outside + 1)..(N + MaxOutside)
           /\ \A k \in Effects : k \in Named \ {p} /\ world'.names[k] = world.names[k]
<1>1. Solid(world) /\ outside \in 0..MaxOutside
  BY DEF EngineInv, FilesInv
<1>2. PICK p \in Paths :
           /\ Rewrites(p) /\ p \in Declared(program) /\ touched' = touched \cup {p}
           /\ UNCHANGED <<vars, program, stage, steps>>
           /\ N + outside + 1 \in Objects /\ outside < MaxOutside
  BY <1>1, OutsideRewrites
<1>3. /\ N + outside + 1 \notin Effects
      /\ N + outside + 1 \in (N + outside + 1)..(N + MaxOutside)
  BY <1>1, <1>2, NAssumption, BoundsAssumption DEF Effects
<1>4. \A k \in Effects : k \in Named \ {p}
  BY SlotsApart
<1>5. \A k \in Effects : world'.names[k] = world.names[k]
  BY <1>2, <1>4 DEF Rewrites
<1> QED
  BY <1>2, <1>3, <1>4, <1>5

\* The outside writer writes to no directory.
LEMMA OutsideDirectories ==
  ASSUME EngineInv, OwnDirectories, Outside
  PROVE  OwnDirectories'
<1>1. PICK p \in Paths :
        /\ Rewrites(p) /\ program' = program /\ N + outside + 1 \notin Effects
        /\ \A k \in Effects : k \in Named \ {p} /\ world'.names[k] = world.names[k]
  BY OutsideAtPath
<1>2. ASSUME NEW k \in Effects, program[k].kind = "mkdir"
      PROVE  k \notin foreign' /\ world'.inode[k] = world.inode[k]
  <2>1. k \in Objects /\ k # NoObj /\ k # N + outside + 1
    BY <1>1, SlotsApart
  <2>2. world.inode[k] \in {"absent", "scaffold", "dir"} /\ k \notin foreign
    BY <1>2 DEF OwnDirectories
  <2>3. ~(k = world.names[p] /\ IsFile(p))
    BY <2>1, <2>2 DEF IsFile, At
  <2> QED
    BY <1>1, <2>1, <2>2, <2>3 DEF Rewrites
<1> QED
  BY <1>1, <1>2 DEF OwnDirectories

-----------------------------------------------------------------------------
(* Files under construction and anchors.                                   *)

\* A step between which nothing is applied.
Aside == pc' = "apply" => UNCHANGED <<world, pc, active, stage, journals>>

\* Then the files under construction stay their effects' own,
LEMMA StagingAside ==
  ASSUME RecordMoves, OwnStaging, Aside, program' = program, foreign' = foreign
  PROVE  OwnStaging'
<1>1. Early' => Early
  BY EarlyKept
<1>2. \A t \in Txns : \A i \in Effects : journals'[t][i] = "pending" => journals[t][i] = "pending"
  BY DEF RecordMoves
<1> QED
  BY <1>1, <1>2 DEF OwnStaging, Aside, Applying

\* and so do anchors.
LEMMA AnchorsAside ==
  ASSUME AnchorsSpare, Aside, program' = program, foreign' = foreign
  PROVE  AnchorsSpare'
BY DEF AnchorsSpare, Aside, Applying

\* An effect begins with a file that nobody has written to.
LEMMA StartStaging ==
  ASSUME AnchorSafe, RecordMoves, OwnStaging, AnchorsSpare, NEW k \in Effects, EStartEffect(k),
         foreign' = foreign
  PROVE  OwnStaging' /\ AnchorsSpare'
<1>1. EngineInv /\ RecordShape
  BY DEF AnchorSafe
<1>2. /\ active \in Txns /\ UNCHANGED <<program, world, active>> /\ stage' = "begin"
      /\ pc' = "apply" /\ journals[active][k] = "pending"
      /\ \A i \in Effects \ {k} : journals'[active][i] = journals[active][i]
      /\ \A i \in Effects : i < k => journals[active][i] = "done"
  BY <1>1, RecordsForward
<1>3. pc = "effects"
  BY DEF EStartEffect, StartEffect
<1>4. ASSUME NEW i \in Effects, journals'[active][i] = "started" PROVE i = k
  <2>1. SUFFICES ASSUME i # k PROVE FALSE
    OBVIOUS
  <2>2. journals[active][i] = "started"
    BY <1>2, <1>4, <2>1
  <2>3. k < i
    BY <1>2, <2>1, <2>2, NAssumption DEF Effects
  <2>4. Stacked(journals[active])
    BY <1>1, <1>2 DEF RecordShape
  <2> QED
    BY <1>2, <2>2, <2>3, <2>4 DEF Stacked, Unwound
<1>5. Early /\ (Early' => Early)
  BY <1>3 DEF Early, Forward
<1>6. \A t \in Txns : \A i \in Effects : journals'[t][i] = "pending" => journals[t][i] = "pending"
  BY DEF RecordMoves
<1>7. AnchorsSpare'
  BY <1>2 DEF AnchorsSpare, Applying
<1>8. ASSUME NEW i \in Effects, program[i].kind \in {"create", "replace"}
      PROVE  /\ Early' => \A t \in Txns : journals'[t][i] = "pending" => i \notin foreign
             /\ journals'[active][i] = "started" => i \notin foreign
  BY <1>2, <1>4, <1>5, <1>6, <1>8 DEF OwnStaging
<1> QED
  BY <1>2, <1>7, <1>8 DEF OwnStaging, Applying

\* A system call makes no file somebody else's.
LEMMA ApplyStaging ==
  ASSUME AnchorSafe, RecordMoves, OwnStaging, NEW k \in Effects, ApplyEffect(k), foreign' = foreign
  PROVE  OwnStaging'
<1>1. WorkDoes(k)
  BY ApplyIsDone
<1>2. /\ UNCHANGED <<pc, active, journals, state, program>> /\ pc = "apply"
      /\ journals[active][k] = "started"
      /\ \A i \in Effects : journals[active][i] = "started" => i = k
  BY <1>1 DEF WorkDoes, vars, store, process
<1>3. Early' => Early
  BY EarlyKept
<1>4. ASSUME program[k].kind \in {"create", "replace"}
      PROVE  /\ stage' \in {"begin", "building", "built", "ready", "refusing"} =>
                  stage \in {"begin", "building", "built", "ready", "refusing"}
             /\ stage' = "refusing" => world'.names[k] = k
  <2>1. PICK e : e = program[k]
    OBVIOUS
  <2>2. WorkStep(k) /\ WorkNames(k) /\ e.kind \in {"create", "replace"}
    BY <1>1, <1>4, <2>1 DEF WorkDoes
  <2>3. stage = "ready" => world.names[k] = k
    BY <2>1, <2>2 DEF WorkNames, BuildingNames, Movers
  <2> QED
    BY <2>1, <2>2, <2>3 DEF WorkStep, WorkBuild, WorkWrite, WorkLink, WorkCheck, WorkLand,
          WorkVerify, WorkWithdraw, WorkUndo, WorkFail
<1>5. ASSUME NEW i \in Effects, program[i].kind \in {"create", "replace"}
      PROVE  /\ journals[active][i] = "started" /\ stage' \in {"begin", "building", "built", "ready",
                                                                  "refusing"} => i \notin foreign
             /\ journals[active][i] = "started" /\ stage' = "refusing" => world'.names[i] = i
  <2>1. SUFFICES ASSUME journals[active][i] = "started"
                 PROVE  /\ stage' \in {"begin", "building", "built", "ready", "refusing"} => i \notin foreign
                        /\ stage' = "refusing" => world'.names[i] = i
    OBVIOUS
  <2>2. i = k
    BY <1>2, <2>1
  <2> QED
    BY <1>2, <1>4, <1>5, <2>1, <2>2 DEF OwnStaging
<1> QED
  BY <1>2, <1>3, <1>5 DEF OwnStaging, Applying

\* A system call keeps AnchorsSpare.
LEMMA ApplyAnchors ==
  ASSUME AnchorSafe, AnchorsSpare, NEW k \in Effects, ApplyEffect(k), foreign' = foreign
  PROVE  AnchorsSpare'
<1>1. WorkDoes(k) /\ Formed(program)
  BY ApplyIsDone, Compiled DEF AnchorSafe
<1>2. /\ UNCHANGED <<pc, active, journals, program>> /\ pc = "apply"
      /\ journals[active][k] = "started"
      /\ \A i \in Effects : journals[active][i] = "started" => i = k
  BY <1>1 DEF WorkDoes, vars, store, process
<1>3. ASSUME k \in Movers(program), stage' \in {"linked", "refusing"}, world'.names[k] \in foreign
      PROVE  world'.names[program[k].path] = world'.names[k]
  <2>1. PICK e : e = program[k]
    OBVIOUS
  <2>2. WorkStep(k) /\ e.kind = "move"
    BY <1>1, <1>3, <2>1 DEF WorkDoes, Movers
  <2>3. e.path # k /\ e.path \in Named
    BY <1>1, <2>1, NamesAre DEF Named
  <2>4. \/ stage = "begin" /\ world'.names[k] = world.names[e.path] /\ SameElse(world, world', {k})
        \/ stage = "linked" /\ world' = world
    BY <1>3, <2>1, <2>2 DEF WorkStep, WorkBuild, WorkWrite, WorkLink, WorkCheck, WorkLand,
          WorkVerify, WorkWithdraw, WorkUndo, WorkFail
  <2>5. CASE stage = "begin" /\ world'.names[k] = world.names[e.path] /\ SameElse(world, world', {k})
    BY <2>1, <2>3, <2>5 DEF SameElse
  <2>6. CASE stage = "linked" /\ world' = world
    BY <1>2, <1>3, <2>6 DEF AnchorsSpare, Applying
  <2> QED
    BY <2>4, <2>5, <2>6
<1>4. ASSUME NEW i \in Movers(program), journals[active][i] = "started",
             stage' \in {"linked", "refusing"}, world'.names[i] \in foreign
      PROVE  world'.names[program[i].path] = world'.names[i]
  <2>1. i = k
    BY <1>2, <1>4 DEF Movers
  <2> QED
    BY <1>3, <1>4, <2>1
<1>5. Movers(program)' = Movers(program)
  BY <1>2 DEF Movers
<1> QED
  BY <1>2, <1>4, <1>5 DEF AnchorsSpare, Applying

\* The outside writer does not reach a file under construction.
LEMMA OutsideStaging ==
  ASSUME AnchorSafe, OwnStaging, Outside
  PROVE  OwnStaging'
<1>1. EngineInv /\ CommitInv /\ RecordShape /\ AnchorInv
  BY DEF AnchorSafe
<1>2. PICK p \in Paths :
        /\ Rewrites(p) /\ UNCHANGED <<vars, program, stage, steps>>
        /\ N + outside + 1 \notin Effects
        /\ \A k \in Effects : k \in Named \ {p} /\ world'.names[k] = world.names[k]
  BY <1>1, OutsideAtPath
<1>3. UNCHANGED <<pc, active, journals, state, program, stage>>
  BY <1>2 DEF vars, store, process
<1>4. p \in Named
  BY DEF Named
<1>5. ASSUME NEW k \in Effects, k \notin foreign, k \in foreign'
      PROVE  world.names[p] = k
  BY <1>2, <1>5 DEF Rewrites
<1>6. ASSUME NEW k \in Effects, program[k].kind \in {"create", "replace"}, Early,
             NEW t \in Txns, journals[t][k] = "pending"
      PROVE  k \notin foreign'
  <2>1. k \notin foreign
    BY <1>6 DEF OwnStaging
  <2>2. Nowhere(k)
    BY <1>1, <1>6 DEF CommitInv, UnusedInv
  <2> QED
    BY <1>4, <1>5, <2>1, <2>2 DEF Nowhere
<1>7. ASSUME NEW k \in Effects, program[k].kind \in {"create", "replace"}, pc = "apply",
             journals[active][k] = "started",
             stage \in {"begin", "building", "built", "ready", "refusing"}
      PROVE  k \notin foreign'
  <2>1. k \notin foreign
    BY <1>7 DEF OwnStaging
  <2>2. WorkNames(k) /\ NoneShared(program, world) /\ (stage = "begin" => Unused(world, k))
    BY <1>1, <1>7, ApplyFacts
  <2>3. CASE stage = "begin"
    BY <1>4, <1>5, <2>1, <2>2, <2>3 DEF Unused, Named
  <2>4. CASE stage # "begin"
    <3>1. k \notin Movers(program)
      BY <1>7 DEF Movers
    <3>2. world.names[k] = k
      BY <1>7, <2>2, <2>4, <3>1 DEF OwnStaging, Applying, WorkNames, BuildingNames
    <3>3. p \in HoldersOf(program) /\ k \in HoldersOf(program) /\ p # k /\ k # NoObj
      BY <1>2, <3>1, SlotsApart DEF HoldersOf
    <3>4. world.names[p] # k
      BY <2>2, <3>2, <3>3 DEF NoneShared
    <3> QED
      BY <1>5, <2>1, <3>4
  <2> QED
    BY <2>3, <2>4
<1>8. ASSUME NEW k \in Effects, program[k].kind \in {"create", "replace"}, Applying(k, "refusing")
      PROVE  world'.names[k] = k
  BY <1>2, <1>8 DEF OwnStaging
<1> QED
  BY <1>3, <1>6, <1>7, <1>8 DEF OwnStaging, Applying, Early, Unprepared

\* Nor does it leave an anchor as the only name of a file it wrote to.
LEMMA OutsideAnchors ==
  ASSUME AnchorSafe, AnchorsSpare, Outside
  PROVE  AnchorsSpare'
<1>1. EngineInv /\ CommitInv /\ RecordShape /\ AnchorInv /\ Formed(program) /\ Solid(world)
  BY Compiled DEF AnchorSafe
<1>2. PICK p \in Paths :
        /\ Rewrites(p) /\ UNCHANGED <<vars, program, stage, steps>>
        /\ N + outside + 1 \in (N + outside + 1)..(N + MaxOutside)
        /\ \A k \in Effects : k \in Named \ {p} /\ world'.names[k] = world.names[k]
  BY <1>1, OutsideAtPath
<1>3. UNCHANGED <<pc, active, journals, program, stage>>
  BY <1>2 DEF vars, store, process
<1>4. p \in Named /\ p \in HoldersOf(program)
  BY DEF Named, HoldersOf
<1>5. ASSUME NEW k \in Movers(program), pc = "apply", journals[active][k] = "started",
             stage \in {"linked", "refusing"}, world.names[k] \in foreign'
      PROVE  world'.names[program[k].path] = world.names[k]
  <2>1. PICK e : e = program[k]
    OBVIOUS
  <2>2. PICK o : o = world.names[k]
    OBVIOUS
  <2>3. k \in Effects /\ k # p /\ e.kind = "move" /\ e.path \in Named
    BY <1>1, <1>2, <2>1, NamesAre DEF Movers, Named
  <2>4. active \in Txns /\ NamesOK(program, world, journals[active]) /\ WorkNames(k)
    BY <1>1, <1>5, <2>3, ApplyFacts
  <2>5. Top(world, journals[active], k)
    BY <1>1, <1>5, <2>3, <2>4, OpenTop DEF Open
  <2>6. o # NoObj /\ world.names[e.dest] # o
    BY <1>5, <2>1, <2>2, <2>4 DEF WorkNames, MovingNames
  <2>7. world.names[p] = o => p = e.path
    <3>1. Anchoring(program, world, journals[active])
      BY <2>4 DEF NamesOK
    <3>2. \A s \in HoldersOf(program) : world.names[s] = o => s \in Touches(program[k])
      BY <1>1, <1>5, <2>2, <2>5, <2>6, <3>1, TopIsLast
    <3> QED
      BY <1>4, <2>1, <2>6, <3>2 DEF Touches
  <2>8. CASE world.names[p] = o
    BY <1>2, <1>5, <2>1, <2>2, <2>7, <2>8 DEF Rewrites
  <2>9. CASE world.names[p] # o
    <3>1. o \in foreign \/ (o = world'.names[p] /\ o = N + outside + 1)
      BY <1>2, <1>5, <2>2, <2>9 DEF Rewrites
    <3>2. o # N + outside + 1
      <4>1. FreshUnused(world, outside)
        BY <1>1, <1>5, <2>3, ApplyFacts
      <4> QED
        BY <1>2, <2>2, <2>3, <4>1 DEF FreshUnused, Unused
    <3>3. world.names[e.path] = o
      BY <1>5, <2>1, <2>2, <3>1, <3>2 DEF AnchorsSpare, Applying
    <3> QED
      BY <1>2, <2>1, <2>2, <2>3, <2>9, <3>3 DEF Rewrites
  <2> QED
    BY <2>8, <2>9
<1>6. \A k \in Movers(program) : world'.names[k] = world.names[k]
  BY <1>2 DEF Movers
<1>7. Movers(program)' = Movers(program)
  BY <1>3 DEF Movers
<1> QED
  BY <1>3, <1>5, <1>6, <1>7 DEF AnchorsSpare, Applying

-----------------------------------------------------------------------------
(* What is removed is declared or live as well.                            *)

\* What a scratch file may hold is declared.
LEMMA ContentsDeclared ==
  ASSUME NEW k \in Effects, program[k].kind # "mkdir"
  PROVE  Contents(program[k]) \subseteq DeclaredContents
<1>1. PICK built : built = {i \in Effects : program[i].kind \in {"create", "replace"}}
  OBVIOUS
<1>2. DeclaredContents = (UNION {{program[i].pre, program[i].post} : i \in Effects})
                           \cup (UNION {Prefixes[program[i].post] : i \in built})
  BY <1>1 DEF DeclaredContents
<1>3. ASSUME program[k].kind \in {"create", "replace"}
      PROVE  Prefixes[program[k].post] \subseteq DeclaredContents
  BY <1>1, <1>2, <1>3
<1>4. program[k].pre \in DeclaredContents /\ program[k].post \in DeclaredContents
  BY <1>2
<1> QED
  BY <1>3, <1>4 DEF Contents

\* What is authorized may be removed.
LEMMA RemovalAuthorized ==
  ASSUME AnchorSafe, CleanupInv, NEW k \in Effects, AuthorizeStep(k)
  PROVE  Removal(k)
<1>1. /\ EngineInv /\ CommitInv /\ RecordShape /\ SoundInv /\ DropInv
      /\ Due(k) /\ AsExpected(k) /\ Formed(program)
  BY Compiled DEF AnchorSafe, CommitInv, AuthorizeStep
<1>2. PICK e : e = program[k]
  OBVIOUS
<1>3. PICK s : s = Step(k)
  OBVIOUS
<1>4. CASE plan = "rollback"
  <2>1. Sound(e, k, s)
    BY <1>1, <1>2, <1>3, <1>4, DueSound
  <2>2. Seen(s, e, world, k, s.op)
    BY <1>1, <1>2, <1>3, <2>1, ExpectedIs
  <2>3. /\ s.before.states[k] = At(world, k)
        /\ <<k, e.dest>> \in s.before.same <=> SameObject(world, k, e.dest)
    BY <2>2 DEF Seen
  <2>4. e.kind \in {"create", "mkdir", "delete", "move", "replace"}
    BY <1>1, <1>2 DEF Formed, WellFormed, Kinds
  <2>5. s.op = "drop" /\ e.kind # "mkdir" => At(world, k) \in DeclaredContents
    BY <1>2, <2>1, <2>3, ContentsDeclared DEF Sound
  <2>6. s.op = "drop_destination" => e.kind = "move" /\ SameObject(world, k, e.dest)
    BY <2>1, <2>3, <2>4 DEF Sound
  <2> QED
    BY <1>2, <1>3, <2>5, <2>6 DEF Removal
<1>5. CASE plan = "cleanup"
  <2>1. s.op = "drop"
    BY <1>1, <1>3, <1>5, CleanupStep
  <2>2. pc = "plan" /\ steps[k] # <<>>
    BY <1>1 DEF Due
  <2>3. s.slots = {k} /\ s.before.states[k] = e.pre
    BY <1>2, <1>3, <1>5, <2>2 DEF CleanupInv
  <2>4. s.before.states = [x \in {k} |-> At(world, x)]
    BY <1>1, <1>3, <2>3 DEF AsExpected, Joint
  <2>5. At(world, k) = e.pre
    BY <2>3, <2>4
  <2>6. At(world, k) \in DeclaredContents
    BY <1>2, <2>5 DEF DeclaredContents
  <2> QED
    BY <1>3, <2>1, <2>6 DEF Removal
<1> QED
  BY <1>1, <1>4, <1>5 DEF Due

\* Authorizing a step establishes it for the removal.
LEMMA AuthorizeRemoval ==
  ASSUME AnchorSafe, CleanupInv, NEW k \in Effects, AuthorizeStep(k), foreign' = foreign
  PROVE  RemovalInv'
<1>1. /\ UNCHANGED <<program, world, outside, touched, journals, active, state, pc, plan, steps>>
      /\ Due(k)
  BY DEF AuthorizeStep, Work, Rest, bounded, outsider, vars, store, process
<1>2. Removal(k)
  BY RemovalAuthorized
<1>3. ASSUME NEW i \in Effects, Due(i)' PROVE i = k
  <2>1. Due(i)
    BY <1>1, <1>3 DEF Due
  <2> QED
    BY <1>1, <2>1, DueIsOne
<1>4. Removal(k)'
  BY <1>1, <1>2 DEF Removal, DeclaredContents, MoveDestinations, Step
<1> QED
  BY <1>3, <1>4 DEF RemovalInv

\* A step that touches no file keeps what is authorized.
LEMMA CalmRemoval ==
  ASSUME RecordShape, RemovalInv, Calm, foreign' = foreign
  PROVE  RemovalInv'
<1>1. SUFFICES ASSUME NEW k \in Effects, Due(k)', stage' = "mutate" PROVE Removal(k)'
  BY DEF RemovalInv
<1>2. pc' = "plan"
  BY <1>1 DEF Due
<1>3. /\ pc = "plan" /\ UNCHANGED <<program, world, touched, plan, steps, stage, active, journals>>
      /\ plan' = "rollback" => UNCHANGED state \/ \A i \in Effects : ~Due(i)
  BY <1>2 DEF Calm
<1>4. Due(k)
  BY <1>1, <1>3 DEF Due, RecordShape
<1>5. Removal(k)
  BY <1>1, <1>3, <1>4 DEF RemovalInv
<1> QED
  BY <1>3, <1>5 DEF Removal, DeclaredContents, MoveDestinations, Step

\* What the outside writer does does not make an authorized removal lose a file.
LEMMA OutsideRemoval ==
  ASSUME EngineInv, RemovalInv, Outside
  PROVE  RemovalInv'
<1>1. PICK p \in Paths :
        /\ Rewrites(p) /\ UNCHANGED <<vars, program, stage, steps>>
        /\ touched' = touched \cup {p}
        /\ \A k \in Effects : k \in Named \ {p} /\ world'.names[k] = world.names[k]
  BY OutsideAtPath
<1>2. UNCHANGED <<pc, active, journals, state, plan, program, stage, steps>>
  BY <1>1 DEF vars, store, process
<1>3. Formed(program) /\ Solid(world)
  BY DEF EngineInv, FilesInv, ProgramOK, Formed
<1>4. SUFFICES ASSUME NEW k \in Effects, Due(k), stage = "mutate" PROVE Removal(k)'
  BY <1>2 DEF RemovalInv, Due
<1>5. Removal(k)
  BY <1>4 DEF RemovalInv
<1>6. PICK o : o = world.names[k]
  OBVIOUS
<1>7. world'.names[k] = o /\ k \in Named /\ k # p /\ (o # NoObj => o \in Objects)
  BY <1>1, <1>3, <1>4, <1>6 DEF Solid
<1>8. ASSUME Step(k).op = "drop", program[k].kind # "mkdir", o \in foreign'
      PROVE  \/ At(world', k) \in DeclaredContents
             \/ \E q \in Paths : world'.names[q] = o
  <2>1. CASE o = world'.names[p]
    BY <2>1
  <2>2. CASE o # world'.names[p]
    <3>1. o \in foreign /\ o # world.names[p]
      BY <1>1, <1>8, <2>2 DEF Rewrites
    <3>2. o # NoObj => world'.inode[o] = world.inode[o]
      BY <1>1, <1>7, <2>2 DEF Rewrites
    <3>3. At(world', k) = At(world, k)
      BY <1>6, <1>7, <3>2 DEF At
    <3>4. At(world, k) \in DeclaredContents \/ \E q \in Paths : world.names[q] = o
      BY <1>5, <1>6, <1>8, <3>1 DEF Removal
    <3>5. \A q \in Paths \ {p} : world'.names[q] = world.names[q]
      BY <1>1 DEF Rewrites, Named
    <3> QED
      BY <3>1, <3>3, <3>4, <3>5
  <2> QED
    BY <2>1, <2>2
<1>9. ASSUME Step(k).op = "drop_destination", MoveDestinations \cap touched' = {}
      PROVE  SameObject(world', k, program[k].dest)
  <2>1. PICK d : d = program[k].dest
    OBVIOUS
  <2>2. program[k].kind = "move" /\ MoveDestinations \cap touched = {}
    BY <1>1, <1>5, <1>9 DEF Removal
  <2>3. d \in MoveDestinations /\ d \in Named
    BY <1>3, <2>1, <2>2, NamesAre DEF MoveDestinations, Named
  <2>4. d # p
    BY <1>1, <1>9, <2>3
  <2>5. SameObject(world, k, d)
    BY <1>5, <1>9, <2>1, <2>2 DEF Removal
  <2>6. world'.names[d] = world.names[d]
    BY <1>1, <2>3, <2>4 DEF Rewrites
  <2> QED
    BY <1>6, <1>7, <2>1, <2>5, <2>6 DEF SameObject
<1>10. Step(k)' = Step(k) /\ DeclaredContents' = DeclaredContents
       /\ MoveDestinations' = MoveDestinations
  BY <1>2 DEF Step, DeclaredContents, MoveDestinations
<1> QED
  BY <1>2, <1>5, <1>6, <1>7, <1>8, <1>9, <1>10 DEF Removal

\* One operation is one bound step.
LEMMA OneBoundStep ==
  ASSUME NEW prog, NEW worlds, NEW slots, NEW ops, ops = <<"drop">>, NEW q,
         q = [k \in 1..Len(ops) |-> BoundStep(prog, worlds, slots, ops, k)]
  PROVE  q = <<BoundStep(prog, worlds, slots, ops, 1)>>
<1>1. PICK x : x = BoundStep(prog, worlds, slots, ops, 1)
  OBVIOUS
<1> QED
  BY <1>1

(* Cleanup is planned for scratch files in the state that was there before *)
(* and expects of a slot what has been observed and what clearing leaves.  *)
LEMMA CleanupPlanned ==
  ASSUME NEW prog, NEW w, NEW planned, planned = CommittedPlan(prog, w), ~planned.halt,
         NEW i \in Effects, planned.steps[i] # <<>>, NEW s, s = Head(planned.steps[i])
  PROVE  /\ s.slots = {i} /\ s.before.states[i] = prog[i].pre
         /\ s.before = Joint(prog, w, s.slots)
         /\ s.after = Joint(prog, Apply(prog, w, "drop", i), s.slots)
<1>1. PICK d : d = CleanupDecision(prog, w, i)
  OBVIOUS
<1>2. ~d.halt
  BY <1>1 DEF CommittedPlan
<1>3. d.ops = <<>> \/ (d.ops = <<"drop">> /\ At(w, i) = prog[i].pre)
  BY <1>1, <1>2 DEF CleanupDecision, Undo, Halt
<1>4. PICK q : q = BindSteps(prog, w, i, {i}, d.ops).steps
  OBVIOUS
<1>5. planned.steps[i] = q
  BY <1>1, <1>4 DEF CommittedPlan
<1>6. PICK worlds : worlds = BoundWorlds(prog, w, i, d.ops)
  OBVIOUS
<1>7. q = [k \in 1..Len(d.ops) |-> BoundStep(prog, worlds, {i}, d.ops, k)]
  BY <1>4, <1>6, BindUnfolds
<1>8. CASE d.ops = <<>>
  <2>1. q = <<>>
    BY <1>7, <1>8
  <2> QED
    BY <1>5, <2>1
<1>9. CASE d.ops = <<"drop">>
  <2>1. PICK x : x = BoundStep(prog, worlds, {i}, d.ops, 1)
    OBVIOUS
  <2>2. q = <<x>>
    BY <1>7, <1>9, <2>1, OneBoundStep
  <2>3. Head(q) = x
    BY <2>2
  <2>4. worlds[0] = w /\ worlds[1] = Apply(prog, w, "drop", i)
    BY <1>6, <1>9, BoundOne
  <2>5. /\ x.slots = {i} /\ x.before = Joint(prog, w, {i})
        /\ x.after = Joint(prog, Apply(prog, w, "drop", i), {i})
    BY <2>1, <2>4 DEF BoundStep
  <2>6. x.before.states = [y \in {i} |-> At(w, y)]
    BY <2>5 DEF Joint
  <2>7. x.before.states[i] = prog[i].pre
    BY <1>3, <1>9, <2>6
  <2> QED
    BY <1>5, <2>3, <2>5, <2>7
<1> QED
  BY <1>3, <1>8, <1>9

\* A plan for cleanup is made.
LEMMA ClassifyCleanup ==
  ASSUME EClassify
  PROVE  CleanupInv'
<1>1. CASE EClassifyCommitted
  <2>1. /\ ~CommittedPlan(program, world).halt /\ program' = program
        /\ steps' = CommittedPlan(program, world).steps
    BY <1>1 DEF EClassifyCommitted, Planned
  <2>2. ASSUME NEW i \in Effects, steps'[i] # <<>>
        PROVE  Head(steps'[i]).slots = {i} /\ Head(steps'[i]).before.states[i] = program[i].pre
    <3>1. PICK planned, s : planned = CommittedPlan(program, world) /\ s = Head(planned.steps[i])
      OBVIOUS
    <3>2. ~planned.halt /\ planned.steps[i] # <<>> /\ s = Head(steps'[i])
      BY <2>1, <2>2, <3>1
    <3>3. s.slots = {i} /\ s.before.states[i] = program[i].pre
      BY <3>1, <3>2, CleanupPlanned
    <3> QED
      BY <3>2, <3>3
  <2> QED
    BY <2>1, <2>2 DEF CleanupInv, Step
<1>2. CASE EClassifyTerminal \/ EClassifyHalt \/ EClassifyRollback
  BY <1>2 DEF EClassifyTerminal, EClassifyHalt, EClassifyRollback, ClassifyTerminal,
              ClassifyHalt, ClassifyRollback, Adopt, CleanupInv
<1> QED
  BY <1>1, <1>2 DEF EClassify

\* A step after which no plan for cleanup goes on that did not before.
LEMMA CleanupAside ==
  ASSUME CleanupInv, pc' = "plan" /\ plan' = "cleanup" => UNCHANGED <<pc, plan, steps, program>>
  PROVE  CleanupInv'
BY DEF CleanupInv, Step

\* A confirmed step of cleanup was the only one of its effect.
LEMMA ConfirmCleanup ==
  ASSUME EngineInv, DropInv, CleanupInv, NEW k \in Effects, ConfirmStep(k)
  PROVE  CleanupInv'
<1>1. /\ UNCHANGED <<program, plan, pc>> /\ Due(k)
      /\ \/ steps' = [steps EXCEPT ![k] = Tail(@)]
         \/ UNCHANGED steps
  BY DEF ConfirmStep, vars, process
<1>2. SUFFICES ASSUME plan = "cleanup", pc = "plan" PROVE CleanupInv'
  BY <1>1 DEF CleanupInv
<1>3. steps = [i \in Effects |-> steps[i]]
  BY DEF EngineInv, FilesInv
<1>4. PICK x : x = Step(k)
  OBVIOUS
<1>5. steps[k] = <<x>> /\ Tail(<<x>>) = <<>>
  BY <1>1, <1>2, <1>4, CleanupStep
<1>6. \A i \in Effects : steps'[i] # <<>> => steps'[i] = steps[i]
  BY <1>1, <1>3, <1>5
<1> QED
  BY <1>1, <1>2, <1>6 DEF CleanupInv, Step

\* What the outside writer writes to is an object.
LEMMA OutsideObjects ==
  ASSUME EngineInv, ForeignObjects, Outside
  PROVE  ForeignObjects'
<1>1. PICK p \in Paths :
        /\ Rewrites(p) /\ N + outside + 1 \in Objects
        /\ \A k \in Effects : k \in Named \ {p} /\ world'.names[k] = world.names[k]
  BY OutsideAtPath
<1>2. Solid(world) /\ p \in Named
  BY DEF EngineInv, FilesInv, Named
<1>3. ASSUME NEW o \in foreign' PROVE o \in Objects
  <2>1. o \in foreign \/ o = N + outside + 1 \/ (o = world.names[p] /\ IsFile(p))
    BY <1>1 DEF Rewrites
  <2>2. IsFile(p) => world.names[p] # NoObj
    BY DEF IsFile, At
  <2> QED
    BY <1>1, <1>2, <2>1, <2>2 DEF ForeignObjects, Solid
<1> QED
  BY <1>3 DEF ForeignObjects

-----------------------------------------------------------------------------
(* Who loses a name.                                                       *)

\* An object that had a name still has one.
StillNamed(v, w, o) == (\E s \in Named : v.names[s] = o) => \E s \in Named : w.names[s] = o

\* What a step of a plan takes the name from.
Taken(v, e, k, op) ==
  CASE op = "drop" -> v.names[k]
    [] op = "drop_destination" -> v.names[e.dest]
    [] op = "rmdir_live" -> v.names[e.path]
    [] OTHER -> NoObj

\* The other operations only move names.
LEMMA OperatedNames ==
  ASSUME NEW v, NEW w, NEW e, NEW k \in Named, e.path \in Named, e.dest \in Named, e.path # k, e.dest # k,
         NEW op \in SettlementOps, Operated(v, w, e, k, op), NEW o, o # NoObj, o # Taken(v, e, k, op),
         op = "move_back" => e.path # e.dest
  PROVE  StillNamed(v, w, o)
<1>1. SUFFICES ASSUME NEW s \in Named, v.names[s] = o PROVE \E u \in Named : w.names[u] = o
  BY DEF StillNamed
<1>2. op \in {"exchange", "drop", "take", "restore", "move_back", "relink",
              "drop_destination", "rmdir_live"}
  BY SettlementOpsAre
<1>3. CASE op \in {"exchange", "take", "restore"}
  BY <1>1, <1>3 DEF Operated, SameElse
<1>4. CASE op = "move_back"
  BY <1>1, <1>4 DEF Operated, SameElse
<1>5. CASE op = "relink"
  BY <1>1, <1>5 DEF Operated, SameElse
<1>6. CASE op \in {"drop", "drop_destination", "rmdir_live"}
  BY <1>1, <1>6 DEF Operated, SameElse, Taken
<1> QED
  BY <1>2, <1>3, <1>4, <1>5, <1>6

\* A system call of execution takes no object's last name but the one withdrawn.
LEMMA WorkKeepsNames ==
  ASSUME Formed(program), NEW k \in Effects, WorkStep(k), NEW o, o # NoObj,
         program[k].kind = "move" => program[k].path # program[k].dest,
         stage = "refusing" => o # world.names[k]
  PROVE  StillNamed(world, world', o)
<1>1. SUFFICES ASSUME NEW s \in Named, world.names[s] = o PROVE \E u \in Named : world'.names[u] = o
  BY DEF StillNamed
<1>2. PICK e : e = program[k]
  OBVIOUS
<1>3. /\ k \in Named /\ e.path \in Named /\ e.dest \in Named /\ e.path # k /\ e.dest # k
      /\ e.kind \in {"create", "mkdir", "delete", "move", "replace"}
      /\ e.kind = "move" => e.path # e.dest
  BY <1>2, NamesAre, SlotsApart DEF Named, Formed, WellFormed, Kinds
<1>4. CASE WorkBuild(k) \/ WorkLink(k)
  BY <1>1, <1>3, <1>4 DEF WorkBuild, WorkLink, SameElse
<1>5. CASE WorkWrite(k) \/ WorkCheck(k) \/ WorkVerify(k) \/ WorkFail(k)
  BY <1>1, <1>5 DEF WorkWrite, WorkCheck, WorkVerify, WorkFail
<1>6. CASE WorkWithdraw(k)
  BY <1>1, <1>6 DEF WorkWithdraw, SameElse
<1>7. CASE WorkLand(k)
  <2>1. CASE e.kind \in {"create", "mkdir"}
    BY <1>1, <1>2, <1>3, <1>7, <2>1 DEF WorkLand, SameElse
  <2>2. CASE e.kind = "delete"
    BY <1>1, <1>2, <1>3, <1>7, <2>2 DEF WorkLand, SameElse
  <2>3. CASE e.kind = "replace"
    BY <1>1, <1>2, <1>3, <1>7, <2>3 DEF WorkLand, SameElse
  <2>4. CASE e.kind = "move"
    BY <1>1, <1>2, <1>3, <1>7, <2>4 DEF WorkLand, SameElse
  <2> QED
    BY <1>3, <2>1, <2>2, <2>3, <2>4
<1>8. CASE WorkUndo(k)
  <2>1. PICK op \in {"exchange", "restore", "move_back"} :
          /\ Operated(world, world', e, k, op)
          /\ op = "move_back" => e.kind = "move"
    BY <1>2, <1>8 DEF WorkUndo
  <2>2. op \in SettlementOps /\ Taken(world, e, k, op) = NoObj
    BY <2>1, SettlementOpsAre DEF Taken
  <2>3. StillNamed(world, world', o)
    BY <1>3, <2>1, <2>2, OperatedNames
  <2> QED
    BY <1>1, <2>3 DEF StillNamed
<1> QED
  BY <1>4, <1>5, <1>6, <1>7, <1>8 DEF WorkStep

(* What the property says of one step: a written file that is lost in it   *)
(* has a declared content, or a power cut has taken it.                    *)
NothingLost ==
  MoveDestinations \cap touched' = {} =>
    \A o \in Lost' \ Lost : world'.inode[o] \in DeclaredContents \/ CutAway(o)

\* A step that takes no written file's last name, unless one of those.
LEMMA SurvivalKept ==
  ASSUME ForeignObjects, foreign' = foreign,
         MoveDestinations \cap touched' = {} =>
           \A o \in Objects \cap foreign :
             \/ StillNamed(world, world', o)
             \/ world'.inode[o] \in DeclaredContents \/ CutAway(o)
  PROVE  NothingLost
<1>1. SUFFICES ASSUME MoveDestinations \cap touched' = {}, NEW o \in Lost', o \notin Lost
               PROVE  world'.inode[o] \in DeclaredContents \/ CutAway(o)
  BY DEF NothingLost
<1>2. o \in Objects \cap foreign /\ (\A s \in Named : world'.names[s] # o)
  BY <1>1 DEF Lost, Named, ForeignObjects
<1>3. ~StillNamed(world, world', o)
  BY <1>1, <1>2 DEF StillNamed, Lost, Named
<1> QED
  BY <1>1, <1>2, <1>3

\* Nothing is withdrawn by an effect that deletes.
LEMMA WithdrawalsKept ==
  ASSUME AnchorSafe, Withdrawals, program' = program,
         \/ Aside
         \/ stage' = "begin"
         \/ \E k \in Effects : ApplyEffect(k)
         \/ UNCHANGED <<vars, stage>>
  PROVE  Withdrawals'
<1>1. CASE Aside \/ stage' = "begin" \/ UNCHANGED <<vars, stage>>
  BY <1>1 DEF Withdrawals, Aside, Applying, vars, store, process
<1>2. ASSUME NEW k \in Effects, ApplyEffect(k)
      PROVE  Withdrawals'
  <2>1. WorkDoes(k)
    BY <1>2, ApplyIsDone
  <2>2. /\ UNCHANGED <<pc, active, journals, program>> /\ WorkStep(k)
        /\ \A i \in Effects : journals[active][i] = "started" => i = k
    BY <2>1 DEF WorkDoes, vars, store, process
  <2>3. ASSUME stage' = "refusing", program[k].kind = "delete" PROVE FALSE
    BY <2>2, <2>3 DEF WorkStep, WorkBuild, WorkWrite, WorkLink, WorkCheck, WorkLand,
          WorkVerify, WorkWithdraw, WorkUndo, WorkFail
  <2> QED
    BY <2>2, <2>3 DEF Withdrawals, Applying
<1> QED
  BY <1>1, <1>2

\* An entry that is withdrawn is no written file's last name.
LEMMA WithdrawnSpare ==
  ASSUME Formed(program), OwnDirectories, OwnStaging, AnchorsSpare, Withdrawals, NEW k \in Effects,
         WorkDoes(k), stage = "refusing", NEW o \in foreign, o # NoObj, world.names[k] = o
  PROVE  StillNamed(world, world', o)
<1>1. /\ WorkStep(k) /\ Applying(k, "refusing")
      /\ journals[active][k] = "started" /\ pc = "apply"
  BY DEF WorkDoes, Applying
<1>2. PICK e : e = program[k]
  OBVIOUS
<1>3. e.path \in Named /\ e.path # k
  BY <1>2, NamesAre DEF Named
<1>4. e.kind \in {"create", "mkdir", "delete", "move", "replace"}
  BY <1>2 DEF Formed, WellFormed, Kinds
<1>5. e.kind = "move"
  <2>1. e.kind # "delete"
    BY <1>1, <1>2 DEF Withdrawals
  <2>2. e.kind # "mkdir"
    BY <1>2 DEF OwnDirectories
  <2>3. e.kind \notin {"create", "replace"}
    BY <1>1, <1>2 DEF OwnStaging
  <2> QED
    BY <1>4, <2>1, <2>2, <2>3
<1>6. world.names[e.path] = o
  BY <1>1, <1>2, <1>5 DEF AnchorsSpare, Movers
<1>7. world'.names[e.path] = world.names[e.path]
  BY <1>1, <1>2, <1>3, <1>5 DEF WorkStep, WorkBuild, WorkWrite, WorkLink, WorkCheck, WorkLand,
          WorkVerify, WorkWithdraw, WorkUndo, WorkFail, SameElse
<1> QED
  BY <1>3, <1>6, <1>7 DEF StillNamed

\* A system call of an effect loses nothing that was written.
LEMMA ApplySurvives ==
  ASSUME AnchorSafe, ForeignInv, NEW k \in Effects, ApplyEffect(k), foreign' = foreign
  PROVE  NothingLost
<1>1. WorkDoes(k) /\ Formed(program) /\ EngineInv /\ RecordShape
  BY ApplyIsDone, Compiled DEF AnchorSafe
<1>2. /\ ForeignObjects /\ OwnDirectories /\ OwnStaging /\ AnchorsSpare /\ Withdrawals
      /\ WorkStep(k) /\ WorkNames(k)
  BY <1>1 DEF ForeignInv, WorkDoes
<1>3. program[k].kind = "move" => program[k].path # program[k].dest
  BY <1>1 DEF RecordShape, Compiles
<1>4. ASSUME NEW o \in Objects \cap foreign
      PROVE  StillNamed(world, world', o)
  <2>1. o # NoObj
    BY NamesAssumption
  <2>2. CASE stage = "refusing" /\ world.names[k] = o
    BY <1>1, <1>2, <2>1, <2>2, WithdrawnSpare
  <2>3. CASE stage = "refusing" => o # world.names[k]
    BY <1>1, <1>2, <1>3, <2>1, <2>3, WorkKeepsNames
  <2> QED
    BY <2>2, <2>3
<1> QED
  BY <1>2, <1>4, SurvivalKept

\* What a step of a plan removes is not a written file's last name.
LEMMA TakenSpare ==
  ASSUME AnchorSafe, ForeignInv, NEW k \in Effects, MutateDoes(k),
         Possible(program, world, Step(k).op, k),
         Operated(world, world', program[k], k, Step(k).op),
         MoveDestinations \cap touched = {},
         NEW o \in foreign, o # NoObj, o = Taken(world, program[k], k, Step(k).op)
  PROVE  StillNamed(world, world', o) \/ world'.inode[o] \in DeclaredContents
<1>1. /\ Formed(program) /\ Solid(world)
      /\ OwnDirectories /\ Removal(k)
  BY Compiled DEF AnchorSafe, EngineInv, FilesInv, ForeignInv, RemovalInv, MutateDoes
<1>2. PICK e : e = program[k]
  OBVIOUS
<1>3. PICK op : op = Step(k).op
  OBVIOUS
<1>4. /\ k \in Named /\ e.path \in Named /\ e.dest \in Named /\ e.path # k /\ e.dest # k
      /\ Paths \subseteq Named /\ k \notin Paths
  BY <1>1, <1>2, NamesAre, SlotsApart DEF Named
<1>5. op \in {"drop", "drop_destination", "rmdir_live"}
  BY <1>3, SettlementOpsAre DEF MutateDoes, Taken
<1>6. world'.inode = world.inode
  BY DEF Operated
<1>7. CASE op = "drop"
  <2>1. o = world.names[k] /\ SameElse(world, world', {k})
    BY <1>3, <1>7 DEF Taken, Operated
  <2>2. program[k].kind # "mkdir"
    BY <1>1, <2>1 DEF OwnDirectories
  <2>3. \/ At(world, k) \in DeclaredContents
        \/ \E p \in Paths : world.names[p] = world.names[k]
    BY <1>1, <1>3, <1>7, <2>1, <2>2 DEF Removal
  <2>4. CASE At(world, k) \in DeclaredContents
    BY <1>6, <2>1, <2>4 DEF At
  <2>5. ASSUME NEW p \in Paths, world.names[p] = world.names[k]
        PROVE  StillNamed(world, world', o)
    <3>1. p \in Named /\ p # k
      BY <1>4
    <3>2. world'.names[p] = o
      BY <2>1, <2>5, <3>1 DEF SameElse
    <3> QED
      BY <3>1, <3>2 DEF StillNamed
  <2> QED
    BY <2>3, <2>4, <2>5
<1>8. CASE op = "drop_destination"
  <2>1. o = world.names[e.dest] /\ SameElse(world, world', {e.dest})
    BY <1>2, <1>3, <1>8 DEF Taken, Operated
  <2>2. world.names[k] = o
    BY <1>1, <1>2, <1>3, <1>8, <2>1 DEF Removal, SameObject
  <2>3. world'.names[k] = o
    BY <1>4, <2>1, <2>2 DEF SameElse
  <2> QED
    BY <1>4, <2>3 DEF StillNamed
<1>9. CASE op = "rmdir_live"
  <2>1. o = world.names[e.path] /\ At(world, e.path) = "dir"
    BY <1>2, <1>3, <1>9 DEF Taken, Possible
  <2>2. world.inode[o] = "dir"
    BY <2>1 DEF At
  <2>3. e.kind = "mkdir" /\ e.post = "dir"
    BY <1>1, <1>2, <1>3, <1>9 DEF MutateDoes, Formed, WellFormed
  <2>4. "dir" \in DeclaredContents
    BY <1>2, <2>3 DEF DeclaredContents
  <2> QED
    BY <1>6, <2>2, <2>4
<1> QED
  BY <1>5, <1>7, <1>8, <1>9

\* A step of a plan loses nothing that was written.
LEMMA MutateSurvives ==
  ASSUME AnchorSafe, ForeignInv, NEW k \in Effects, MutateStep(k), foreign' = foreign,
         touched' = touched
  PROVE  NothingLost
<1>1. MutateDoes(k) /\ Formed(program) /\ RecordShape
  BY MutateIsDone, Compiled DEF AnchorSafe
<1>2. ForeignObjects /\ program' = program /\ Step(k).op \in SettlementOps
  BY <1>1 DEF ForeignInv, MutateDoes
<1>3. PICK e : e = program[k]
  OBVIOUS
<1>4. PICK op \in SettlementOps : op = Step(k).op
  BY <1>2
<1>5. k \in Named /\ e.path \in Named /\ e.dest \in Named /\ e.path # k /\ e.dest # k
  BY <1>1, <1>3, NamesAre DEF Named
<1>6. op = "move_back" => e.path # e.dest
  <2>1. SUFFICES ASSUME op = "move_back" PROVE e.path # e.dest
    OBVIOUS
  <2>2. CASE e.kind = "move"
    BY <1>1, <1>3, <2>2 DEF RecordShape, Compiles
  <2>3. plan = "rollback"
    <3>1. plan # "cleanup"
      BY <1>1, <1>4, <2>1, CleanupStep DEF AnchorSafe, CommitInv, MutateDoes
    <3> QED
      BY <1>1, <3>1 DEF MutateDoes, Due
  <2>4. Sound(e, k, Step(k))
    BY <1>1, <1>3, <2>3, DueSound DEF AnchorSafe, MutateDoes
  <2>5. e.kind \in {"create", "mkdir", "delete", "move", "replace"}
    BY <1>1, <1>3 DEF Formed, WellFormed, Kinds
  <2> QED
    BY <1>4, <2>1, <2>2, <2>4, <2>5 DEF Sound
<1>7. ASSUME MoveDestinations \cap touched' = {}, NEW o \in Objects \cap foreign
      PROVE  StillNamed(world, world', o) \/ world'.inode[o] \in DeclaredContents
  <2>1. o # NoObj
    BY NamesAssumption
  <2>2. CASE world' = world
    BY <2>2 DEF StillNamed
  <2>3. CASE /\ Possible(program, world, Step(k).op, k)
             /\ Operated(world, world', program[k], k, Step(k).op)
    <3>1. CASE o = Taken(world, program[k], k, Step(k).op)
      BY <1>1, <1>7, <2>1, <2>3, <3>1, TakenSpare
    <3>2. CASE o # Taken(world, program[k], k, Step(k).op)
      <4>1. Operated(world, world', e, k, op) /\ o # Taken(world, e, k, op)
        BY <1>3, <1>4, <2>3, <3>2
      <4> QED
        BY <1>5, <1>6, <2>1, <4>1, OperatedNames
    <3> QED
      BY <3>1, <3>2
  <2> QED
    BY <1>1, <2>2, <2>3 DEF MutateDoes
<1> QED
  BY <1>2, <1>7, SurvivalKept

\* Nor does a power cut, but for a file that has taken the anchored one's place.
LEMMA PowerCutSurvives ==
  ASSUME AnchorSafe, ForeignInv, NEW k \in Effects, PowerCut(k), foreign' = foreign
  PROVE  NothingLost
<1>1. EngineInv /\ ForeignObjects
  BY DEF AnchorSafe, ForeignInv
<1>2. /\ world'.names[k] = world.names[k] /\ k \in Named
      /\ SameElse(world, world', Touches(program[k]))
  BY <1>1, PowerCutNames, SlotsApart
<1>3. ASSUME NEW o \in Objects \cap foreign
      PROVE  StillNamed(world, world', o) \/ CutAway(o)
  <2>1. CASE o = world.names[k]
    BY <1>2, <2>1 DEF StillNamed
  <2>2. CASE o # world.names[k]
    <3>1. ASSUME NEW s \in Named, world.names[s] = o
          PROVE  (\E u \in Named : world'.names[u] = o) \/ CutAway(o)
      <4>1. CASE s \in Touches(program[k])
        BY <2>2, <3>1, <4>1 DEF CutAway, Touches
      <4>2. CASE s \notin Touches(program[k])
        BY <1>2, <3>1, <4>2 DEF SameElse
      <4> QED
        BY <4>1, <4>2
    <3> QED
      BY <3>1 DEF StillNamed
  <2> QED
    BY <2>1, <2>2
<1> QED
  BY <1>1, <1>3, SurvivalKept

\* Nor does the outside writer itself.
LEMMA OutsideSurvives ==
  ASSUME AnchorSafe, ForeignInv, Outside
  PROVE  NothingLost
<1>1. EngineInv /\ ForeignObjects
  BY DEF AnchorSafe, ForeignInv
<1>2. ForeignObjects'
  BY <1>1, OutsideObjects
<1>3. PICK p \in Paths : Rewrites(p)
  BY <1>1, OutsideAtPath
<1>4. ASSUME NEW o \in Lost' PROVE o \in Lost
  <2>1. o \in foreign' /\ (\A s \in Named : world'.names[s] # o) /\ p \in Named
    BY <1>4 DEF Lost, Named
  <2>2. o \in Objects /\ o # world'.names[p]
    BY <1>2, <2>1 DEF ForeignObjects, Objects
  <2>3. o \in foreign /\ o # world.names[p]
    BY <1>3, <2>1, <2>2 DEF Rewrites
  <2>4. ASSUME NEW s \in Named PROVE world.names[s] # o
    BY <1>3, <2>1, <2>3 DEF Rewrites
  <2> QED
    BY <2>3, <2>4 DEF Lost, Named
<1> QED
  BY <1>4 DEF NothingLost

\* Nor does a step that leaves files and names alone.
LEMMA CalmSurvives ==
  ASSUME UNCHANGED <<world, foreign>>
  PROVE  NothingLost
BY DEF NothingLost, Lost

-----------------------------------------------------------------------------
(* The invariant about what the outside writer put there.                  *)

\* A step beside the effects that keeps the rest of the invariant.
LEMMA ForeignAside ==
  ASSUME AnchorSafe, ForeignInv, RecordMoves, Aside, program' = program, foreign' = foreign,
         OwnDirectories', RemovalInv', CleanupInv'
  PROVE  ForeignInv'
<1>1. ForeignObjects' /\ OwnStaging' /\ AnchorsSpare' /\ Withdrawals'
  BY StagingAside, AnchorsAside, WithdrawalsKept DEF ForeignInv, ForeignObjects, Objects
<1> QED
  BY <1>1 DEF ForeignInv

\* A step that leaves files and names alone and nothing authorized.
LEMMA ForeignIdle ==
  ASSUME AnchorSafe, ForeignInv, RecordMoves, Aside, UNCHANGED <<program, world, touched, foreign>>,
         RemovalInv', CleanupInv'
  PROVE  ForeignInv'
<1>1. OwnDirectories'
  BY DEF ForeignInv, OwnDirectories
<1> QED
  BY <1>1, ForeignAside

\* Calm steps and plans.
LEMMA ForeignCalm ==
  ASSUME AnchorSafe, ForeignInv, RecordMoves, foreign' = foreign, Calm \/ EClassify
  PROVE  ForeignInv'
<1>1. CASE Calm
  <2>1. Aside /\ UNCHANGED <<program, world, touched>>
    BY <1>1 DEF Calm, Aside
  <2>2. RemovalInv'
    BY <1>1, CalmRemoval DEF AnchorSafe, ForeignInv
  <2>3. CleanupInv'
    BY <1>1, CleanupAside DEF Calm, ForeignInv
  <2> QED
    BY <2>1, <2>2, <2>3, ForeignIdle
<1>2. CASE EClassify
  <2>1. UNCHANGED <<program, world, touched>> /\ pc' = "plan" /\ stage' = "authorize"
    BY <1>2 DEF EClassify, EClassifyTerminal, EClassifyHalt, EClassifyCommitted, EClassifyRollback,
         ClassifyTerminal, ClassifyHalt, ClassifyCommitted, ClassifyRollback, Adopt, Planned,
         Rest, bounded, outsider
  <2>2. Aside /\ RemovalInv'
    BY <2>1 DEF Aside, RemovalInv
  <2>3. CleanupInv'
    BY <1>2, ClassifyCleanup
  <2> QED
    BY <2>1, <2>2, <2>3, ForeignIdle
<1> QED
  BY <1>1, <1>2

\* The steps of execution.
LEMMA ForeignForward ==
  ASSUME AnchorSafe, ForeignInv, RecordMoves, foreign' = foreign, NEW k \in Effects,
         EStartEffect(k) \/ ApplyEffect(k) \/ EFinishEffect(k)
  PROVE  ForeignInv'
<1>1. EngineInv /\ RecordShape
  BY DEF AnchorSafe
<1>2. ForeignObjects' = ForeignObjects
  BY DEF ForeignObjects, Objects
<1>3. CASE EFinishEffect(k)
  <2>1. UNCHANGED <<program, world, touched>> /\ pc' = "effects"
    BY <1>1, <1>3, RecordsForward
  <2>2. Aside /\ RemovalInv' /\ CleanupInv'
    BY <2>1 DEF Aside, RemovalInv, Due, CleanupInv
  <2> QED
    BY <2>1, <2>2, ForeignIdle
<1>4. CASE EStartEffect(k)
  <2>1. UNCHANGED <<program, world, touched>> /\ pc' = "apply" /\ stage' = "begin"
    BY <1>1, <1>4, RecordsForward
  <2>2. RemovalInv' /\ CleanupInv'
    BY <2>1 DEF RemovalInv, Due, CleanupInv
  <2>3. OwnStaging' /\ AnchorsSpare'
    BY <1>4, StartStaging DEF ForeignInv
  <2>4. Withdrawals'
    BY <2>1 DEF Withdrawals, Applying
  <2>5. OwnDirectories'
    BY <2>1 DEF ForeignInv, OwnDirectories
  <2> QED
    BY <1>2, <2>2, <2>3, <2>4, <2>5 DEF ForeignInv
<1>5. CASE ApplyEffect(k)
  <2>1. /\ program' = program /\ pc' = "apply" /\ touched' = touched
    <3>1. WorkDoes(k)
      BY <1>5, ApplyIsDone
    <3>2. UNCHANGED <<vars, program, bounded>> /\ pc = "apply"
      BY <3>1 DEF WorkDoes
    <3>3. touched' = touched
      BY <1>5 DEF ApplyEffect, CreateStaging, WriteStaging, MakeWork, SetMode, LinkAnchor,
         CheckAnchor, Land, Verify, Withdraw, UndoLanding, Work, Rest, outsider, bounded
    <3> QED
      BY <3>2, <3>3 DEF vars, process
  <2>2. RemovalInv' /\ CleanupInv'
    BY <2>1 DEF RemovalInv, Due, CleanupInv
  <2>3. OwnStaging' /\ AnchorsSpare' /\ OwnDirectories'
    BY <1>5, ApplyStaging, ApplyAnchors, ApplyDirectories DEF ForeignInv
  <2>4. Withdrawals'
    BY <1>5, <2>1, WithdrawalsKept DEF ForeignInv
  <2> QED
    BY <1>2, <2>2, <2>3, <2>4 DEF ForeignInv
<1> QED
  BY <1>3, <1>4, <1>5

\* The steps of a plan, and a power cut.
LEMMA ForeignBackward ==
  ASSUME AnchorSafe, ForeignInv, RecordMoves, foreign' = foreign, NEW k \in Effects,
         \/ Quiet(PersistUndoStarted(k)) \/ EPersistUndone(k)
         \/ AuthorizeStep(k) \/ MutateStep(k) \/ ConfirmStep(k) \/ PowerCut(k)
  PROVE  ForeignInv'
<1>1. EngineInv /\ RecordShape /\ DropInv /\ CleanupInv /\ OwnDirectories
  BY DEF AnchorSafe, CommitInv, ForeignInv
<1>2. CASE Quiet(PersistUndoStarted(k)) \/ EPersistUndone(k)
  <2>1. UNCHANGED <<program, world, touched, pc, plan, steps, stage>> /\ pc = "plan" /\ stage = "authorize"
    BY <1>1, <1>2, RecordsBackward
  <2>2. Aside /\ RemovalInv'
    BY <2>1 DEF Aside, RemovalInv
  <2>3. CleanupInv'
    BY <1>1, <2>1, CleanupAside
  <2> QED
    BY <2>1, <2>2, <2>3, ForeignIdle
<1>3. CASE AuthorizeStep(k)
  <2>1. UNCHANGED <<program, world, touched, pc, plan, steps>> /\ pc = "plan"
    BY <1>3 DEF AuthorizeStep, Work, Due, Rest, bounded, outsider, vars, process
  <2>2. Aside
    BY <2>1 DEF Aside
  <2>3. RemovalInv'
    BY <1>1, <1>3, AuthorizeRemoval
  <2>4. CleanupInv'
    BY <1>1, <2>1, CleanupAside
  <2> QED
    BY <2>1, <2>2, <2>3, <2>4, ForeignIdle
<1>4. CASE ConfirmStep(k)
  <2>1. UNCHANGED <<program, world, touched, pc>> /\ pc = "plan" /\ stage' \in {"authorize", "reconsider"}
    BY <1>4 DEF ConfirmStep, Due, Rest, bounded, outsider, vars, process
  <2>2. Aside /\ RemovalInv'
    BY <2>1 DEF Aside, RemovalInv
  <2>3. CleanupInv'
    BY <1>1, <1>4, ConfirmCleanup
  <2> QED
    BY <2>1, <2>2, <2>3, ForeignIdle
<1>5. CASE MutateStep(k)
  <2>1. /\ UNCHANGED <<program, touched, pc, plan, steps>> /\ pc = "plan"
        /\ stage' \in {"confirm", "reconsider"}
    <3>1. MutateDoes(k)
      BY <1>5, MutateIsDone
    <3>2. touched' = touched
      BY <1>5 DEF MutateStep, Work, Rest, bounded, outsider
    <3> QED
      BY <3>1, <3>2 DEF MutateDoes, Due, vars, process
  <2>2. Aside /\ RemovalInv'
    BY <2>1 DEF Aside, RemovalInv
  <2>3. CleanupInv'
    BY <1>1, <2>1, CleanupAside
  <2>4. OwnDirectories'
    BY <1>1, <1>5, MutateDirectories
  <2> QED
    BY <2>1, <2>2, <2>3, <2>4, ForeignAside
<1>6. CASE PowerCut(k)
  <2>1. /\ program' = program /\ world'.inode = world.inode /\ pc' = "idle"
        /\ \A i \in Effects : world'.names[i] = world.names[i]
    BY <1>1, <1>6, PowerCutNames
  <2>2. Aside /\ RemovalInv' /\ CleanupInv'
    BY <2>1 DEF Aside, RemovalInv, Due, CleanupInv
  <2>3. OwnDirectories'
    BY <1>1, <2>1 DEF OwnDirectories
  <2> QED
    BY <2>1, <2>2, <2>3, ForeignAside
<1> QED
  BY <1>2, <1>3, <1>4, <1>5, <1>6

\* The outside writer.
LEMMA ForeignOutside ==
  ASSUME AnchorSafe, ForeignInv, Outside
  PROVE  ForeignInv'
<1>1. EngineInv /\ RecordShape
  BY DEF AnchorSafe
<1>2. UNCHANGED <<vars, program, stage, steps>>
  BY <1>1, OutsideAtPath
<1>3. ForeignObjects' /\ OwnDirectories' /\ OwnStaging' /\ AnchorsSpare'
  BY <1>1, OutsideObjects, OutsideDirectories, OutsideStaging, OutsideAnchors DEF ForeignInv
<1>4. Withdrawals'
  BY <1>2, WithdrawalsKept DEF ForeignInv
<1>5. RemovalInv'
  BY <1>1, OutsideRemoval DEF ForeignInv
<1>6. CleanupInv'
  BY <1>2 DEF ForeignInv, CleanupInv, Step, vars, process
<1> QED
  BY <1>3, <1>4, <1>5, <1>6 DEF ForeignInv

\* Every step keeps the invariant.
LEMMA ForeignStep ==
  ASSUME AnchorSafe, ForeignInv, [ENext]_evars
  PROVE  ForeignInv'
<1>1. RecordMoves
  BY RecordMoving, EngineStep DEF AnchorSafe, EngineInv, ProtocolInv
<1>2. CASE Outside
  BY <1>2, ForeignOutside
<1>3. CASE ~Outside
  <2>1. foreign' = foreign
    BY <1>3, ForeignStays
  <2>2. CASE Calm \/ EClassify
    BY <1>1, <2>1, <2>2, ForeignCalm
  <2>3. CASE \E k \in Effects : EffectStep(k)
    BY <1>1, <2>1, <2>3, ForeignForward, ForeignBackward DEF EffectStep
  <2> QED
    BY <1>3, <2>2, <2>3, EngineCases DEF AnchorSafe
<1> QED
  BY <1>2, <1>3

\* Both invariants hold in every reachable state.
LEMMA ForeignAlways == ESpec => [](AnchorSafe /\ ForeignInv)
<1>1. EInit => ForeignInv
  BY ForeignInit
<1>2. AnchorSafe /\ ForeignInv /\ [ENext]_evars => ForeignInv'
  BY ForeignStep
<1> QED
  BY <1>1, <1>2, AnchorAlways, PTL DEF ESpec

\* No step loses what was written.
LEMMA SurvivalStep ==
  ASSUME AnchorSafe, ForeignInv, [ENext]_evars
  PROVE  NothingLost
<1>1. CASE Outside
  BY <1>1, OutsideSurvives
<1>2. CASE ~Outside
  <2>1. foreign' = foreign
    BY <1>2, ForeignStays
  <2>2. CASE Calm \/ EClassify
    <3>1. world' = world
      BY <2>2 DEF Calm, EClassify, EClassifyTerminal, EClassifyHalt, EClassifyCommitted,
                  EClassifyRollback, Planned
    <3> QED
      BY <2>1, <3>1, CalmSurvives
  <2>3. ASSUME NEW k \in Effects, EffectStep(k) PROVE NothingLost
    <3>1. CASE \/ EStartEffect(k) \/ EFinishEffect(k) \/ Quiet(PersistUndoStarted(k))
               \/ EPersistUndone(k) \/ AuthorizeStep(k) \/ ConfirmStep(k)
      <4>1. world' = world
        BY <3>1 DEF EStartEffect, EFinishEffect, ToStage, Quiet, EPersistUndone, AuthorizeStep,
                    ConfirmStep, Work, files
      <4> QED
        BY <2>1, <4>1, CalmSurvives
    <3>2. CASE ApplyEffect(k)
      BY <2>1, <3>2, ApplySurvives
    <3>3. CASE MutateStep(k)
      <4>1. touched' = touched
        BY <3>3 DEF MutateStep, Work, Rest, bounded, outsider
      <4> QED
        BY <2>1, <3>3, <4>1, MutateSurvives
    <3>4. CASE PowerCut(k)
      BY <2>1, <3>4, PowerCutSurvives
    <3> QED
      BY <2>3, <3>1, <3>2, <3>3, <3>4 DEF EffectStep
  <2> QED
    BY <1>2, <2>2, <2>3, EngineCases DEF AnchorSafe
<1> QED
  BY <1>1, <1>2

(* What somebody else puts on a live path while a transaction runs is not  *)
(* lost in any step, at whatever moment it is written, through failures,   *)
(* kills, power cuts and repeated recovery: it keeps a name, unless it is  *)
(* a content the specification declares, or has replaced a move's source   *)
(* after the anchor was linked, is renamed with it and cut off before the  *)
(* directories are flushed (move.py, settle.py, reducer.py).               *)
THEOREM ForeignContentHolds == ESpec => ForeignContentSurvives
<1>1. AnchorSafe /\ ForeignInv /\ [ENext]_evars => NothingLost
  BY SurvivalStep
<1> QED
  BY <1>1, ForeignAlways, PTL DEF ESpec, ForeignContentSurvives, NothingLost

-----------------------------------------------------------------------------
(* Without interference a decision is carried through.                     *)

\* No directory holds what the specification does not declare.
StuffedInv == touched = {} => world.stuffed = {}

(* What the decision leaves in scratch slots: nothing, or the file that    *)
(* was there before, in the kinds of effect that keep it.                  *)
Leftover(i) ==
  Free(world, i) \/ (program[i].kind \in {"replace", "delete", "move"} /\ At(world, i) = program[i].pre)

ResidueInv == touched = {} /\ (pc = "commit" \/ Decided) => \A i \in Effects : Leftover(i)

\* The step of effect i is executed and not confirmed.
Confirming(i) == Due(i) /\ stage = "confirm"

\* The joint observation of a scratch slot alone in which st is found.
Alone(i, st) ==
  [states |-> [s \in {i} |-> st], same |-> IF st = "absent" THEN {} ELSE {<<i, i>>},
   unmodeled |-> {}, occupied |-> [p \in {} |-> {}]]

(* Cleanup finds each scratch slot as it has planned to, and leaves it as  *)
(* it has planned to.                                                      *)
FollowInv ==
  touched = {} /\ pc = "plan" /\ plan = "cleanup" => \A i \in Effects : steps[i] # <<>> =>
    /\ Step(i).after = Alone(i, "absent")
    /\ IF Confirming(i) THEN Free(world, i) ELSE AsExpected(i)

\* A committed transaction is never classified as one to halt.
DecisionInv ==
  touched = {} /\ pc = "plan" /\ plan = "halt" => state[active] # "committed"

CarryInv == StuffedInv /\ ResidueInv /\ FollowInv /\ DecisionInv

\* What is observed of a scratch slot alone.
LEMMA SlotJoint ==
  ASSUME NEW prog, NEW w, Solid(w), NEW i \in Effects, w.stuffed = {}
  PROVE  Joint(prog, w, {i}) = Alone(i, At(w, i))
<1>1. [s \in {i} |-> At(w, s)] = [s \in {i} |-> At(w, i)]
  OBVIOUS
<1>2. {x \in {i} \X {i} : SameObject(w, x[1], x[2])} = IF At(w, i) = "absent" THEN {} ELSE {<<i, i>>}
  <2>1. \A x \in {i} \X {i} : x = <<i, i>> /\ x[1] = i /\ x[2] = i
    OBVIOUS
  <2>2. SameObject(w, i, i) <=> At(w, i) # "absent"
    BY FreeIsAbsent, SlotsApart DEF SameObject, Free
  <2>3. <<i, i>> \in {i} \X {i}
    OBVIOUS
  <2> QED
    BY <2>1, <2>2, <2>3
<1>3. {s \in {i} : w.names[s] \in w.stuffed} = {}
  OBVIOUS
<1>4. [p \in {i} \cap Paths |-> Children(prog, w, p)] = [p \in {} |-> {}]
  <2>1. {i} \cap Paths = {}
    BY SlotsApart
  <2>2. \A S : S = {} => [p \in S |-> Children(prog, w, p)] = [p \in {} |-> {}]
    OBVIOUS
  <2> QED
    BY <2>1, <2>2
<1> QED
  BY <1>1, <1>2, <1>3, <1>4 DEF Joint, Alone

\* A slot that is dropped is cleared.
LEMMA DropClears ==
  ASSUME NEW prog, NEW w, Solid(w), w.stuffed = {}, NEW i \in Effects
  PROVE  /\ Joint(prog, Apply(prog, w, "drop", i), {i}) = Alone(i, "absent")
         /\ Apply(prog, w, "drop", i).stuffed = {}
<1>1. PICK v : v = SetName(w, i, NoObj)
  OBVIOUS
<1>2. Apply(prog, w, "drop", i) = v
  <2>1. \A x, y : Apply(x, w, "drop", y) = SetName(w, y, NoObj)
    BY DEF Apply, DropScratch, Unlink, SetName
  <2> QED
    BY <1>1, <2>1
<1>3. v.stuffed = {}
  BY <1>1, NamesOnly
<1>4. Solid(v) /\ v.names[i] = NoObj
  <2>1. i \in Named
    BY SlotsApart
  <2>2. SetName(w, i, NoObj).names[i] = NoObj /\ Solid(SetName(w, i, NoObj))
    BY <2>1, OneNameMoves
  <2> QED
    BY <1>1, <2>2
<1>5. At(v, i) = "absent"
  BY <1>4 DEF At
<1>6. Joint(prog, v, {i}) = Alone(i, At(v, i))
  BY <1>3, <1>4, SlotJoint
<1> QED
  BY <1>2, <1>3, <1>5, <1>6

\* A system call of an effect puts nothing into a directory it did not make.
LEMMA ApplyStuffs ==
  ASSUME Solid(world), StageInv, NEW k \in Effects, ApplyEffect(k)
  PROVE  world'.stuffed = world.stuffed
<1> USE DEF Work
<1>1. ASSUME NEW st, world' = Built(k, st) PROVE world'.stuffed = world.stuffed
  <2>1. world' = NewObject(world, k, k, st)
    BY <1>1 DEF Built, NewObject
  <2> QED
    BY <2>1, NewObjectIs
<1>2. ASSUME NEW st, world' = [world EXCEPT !.inode[k] = st] PROVE world'.stuffed = world.stuffed
  <2>1. PICK g : g = [world.inode EXCEPT ![k] = st]
    OBVIOUS
  <2>2. world' = [names |-> world.names, inode |-> g, stuffed |-> world.stuffed]
    BY <1>2, <2>1 DEF Solid
  <2> QED
    BY <2>2
<1>3. ASSUME NEW s, NEW o, NEW r, NEW x,
             \/ world' = world \/ world' = SetName(world, s, o)
             \/ world' = SetNames(world, s, o, r, x)
      PROVE  world'.stuffed = world.stuffed
  BY <1>3, NamesOnly
<1>4. CASE CreateStaging(k) \/ MakeWork(k)
  BY <1>1, <1>4 DEF CreateStaging, MakeWork
<1>5. CASE WriteStaging(k) \/ SetMode(k)
  BY <1>2, <1>5 DEF WriteStaging, SetMode
<1>6. CASE LinkAnchor(k) \/ CheckAnchor(k) \/ Verify(k) \/ Withdraw(k)
  BY <1>3, <1>6 DEF LinkAnchor, CheckAnchor, Verify, Withdraw, Unlink, SetName
<1>7. CASE Land(k)
  <2>1. \A a, b : Rename(world, a, b) = SetNames(world, b, world.names[a], a, NoObj)
    BY DEF Rename, SetNames
  <2>2. PICK p, r : p = program[k].path /\ r = program[k].dest
    OBVIOUS
  <2>3. Apply(program, world, "exchange", k) = SetNames(world, p, world.names[k], k, world.names[p])
    BY <2>2, ApplyBinds
  <2>4. \/ world' = world
        \/ world' = SetNames(world, p, world.names[k], k, NoObj)
        \/ world' = SetNames(world, k, world.names[p], p, NoObj)
        \/ world' = SetNames(world, r, world.names[p], p, NoObj)
        \/ world' = SetNames(world, p, world.names[k], k, world.names[p])
    BY <1>7, <2>1, <2>2, <2>3 DEF Land
  <2> QED
    BY <1>3, <2>4
<1>8. CASE UndoLanding(k)
  <2>1. PICK e, op : /\ e = program[k]
                     /\ op = CASE e.kind = "replace" -> "exchange"
                               [] e.kind = "delete" -> "restore"
                               [] e.kind = "move" -> "move_back"
    OBVIOUS
  <2>2. e.kind \in {"replace", "delete", "move"}
    BY <1>8, <2>1 DEF UndoLanding, StageInv
  <2>3. op \in {"exchange", "restore", "move_back"}
    BY <2>1, <2>2
  <2>4. world' = world \/ world' = Apply(program, world, op, k)
    BY <1>8, <2>1 DEF UndoLanding
  <2>5. PICK p, r, n, a, b : p = e.path /\ r = e.dest /\ n = world.names[k] /\ a = world.names[p]
                            /\ b = world.names[r]
    OBVIOUS
  <2>6. /\ Apply(program, world, "exchange", k) = SetNames(world, p, n, k, a)
        /\ Apply(program, world, "restore", k) = SetNames(world, p, n, k, NoObj)
        /\ Apply(program, world, "move_back", k) = SetNames(world, p, b, r, NoObj)
    BY <2>1, <2>5, ApplyBinds
  <2>7. \/ world' = world \/ world' = SetNames(world, p, n, k, a)
        \/ world' = SetNames(world, p, n, k, NoObj) \/ world' = SetNames(world, p, b, r, NoObj)
    BY <2>3, <2>4, <2>6
  <2> QED
    BY <1>3, <2>7
<1> QED
  BY <1>4, <1>5, <1>6, <1>7, <1>8 DEF ApplyEffect

\* While no path is touched the outside writer has done nothing.
LEMMA Undisturbed ==
  ASSUME EngineInv, [ENext]_evars, touched' = {}
  PROVE  touched = {} /\ ~Outside
<1>1. Outside => \E p \in Paths : touched' = touched \cup {p}
  BY OutsideAtPath
<1>2. ~Outside
  BY <1>1
<1>3. UNCHANGED outsider
  BY <1>2, OutsiderStays
<1> QED
  BY <1>2, <1>3 DEF outsider

\* These are the steps of effect k that change the files.
LEMMA FilesMoved ==
  ASSUME EngineInv, NEW k \in Effects, EffectStep(k)
  PROVE  \/ ApplyEffect(k) \/ MutateStep(k) \/ PowerCut(k)
         \/ UNCHANGED <<world, program>>
BY DEF EffectStep, EStartEffect, EFinishEffect, ToStage, Quiet, EPersistUndone, files,
       AuthorizeStep, ConfirmStep, Work

\* Nobody but the outside writer puts anything into a directory.
LEMMA StuffedStep ==
  ASSUME AnchorSafe, StuffedInv, [ENext]_evars
  PROVE  StuffedInv'
<1>1. EngineInv /\ Solid(world) /\ StageInv
  BY DEF AnchorSafe, EngineInv, FilesInv
<1>2. SUFFICES ASSUME touched' = {} PROVE world'.stuffed = world.stuffed
  BY <1>1, Undisturbed DEF StuffedInv
<1>3. ~Outside
  BY <1>1, <1>2, Undisturbed
<1>4. CASE Calm \/ EClassify
  BY <1>4 DEF Calm, EClassify, EClassifyTerminal, EClassifyHalt, EClassifyCommitted,
              EClassifyRollback, Planned
<1>5. ASSUME NEW k \in Effects, MutateStep(k) PROVE world'.stuffed = world.stuffed
  <2>1. PICK op : op = Step(k).op
    OBVIOUS
  <2>2. op \in SettlementOps
    BY <1>5, <2>1, MutateIsDone DEF MutateDoes
  <2>3. op \in {"exchange", "drop", "take", "restore", "move_back", "relink",
                "drop_destination", "rmdir_live"}
    BY <2>2, SettlementOpsAre
  <2>4. world' = world \/ world' = Apply(program, world, op, k)
    BY <1>5, <2>1 DEF MutateStep, Work
  <2>5. Apply(program, world, op, k).stuffed = world.stuffed
    BY <1>1, <2>3, ApplyInodes
  <2> QED
    BY <2>4, <2>5
<1>6. ASSUME NEW k \in Effects, PowerCut(k) PROVE world'.stuffed = world.stuffed
  <2>1. PICK s, u, o : CutLeaves(k, s, u, o)
    BY <1>6, PowerCutFiles DEF AnchorSafe, EngineInv, FilesInv
  <2> QED
    BY <2>1 DEF CutLeaves
<1> QED
  BY <1>1, <1>3, <1>4, <1>5, <1>6, ApplyStuffs, EngineCases, FilesMoved

\* A decision that is being carried through.
LEMMA DecidedIs ==
  ASSUME EngineInv, pc \notin {"idle", "resolve", "ready"}
  PROVE  /\ active \in Txns
         /\ Decided <=> state[active] = "committed"
         /\ Decided => pc \notin Forward \ {"commit"}
         /\ pc = "commit" => ~Decided
<1>1. /\ active \in Txns /\ state[active] \notin {"none", "halted"}
      /\ pc \in {"register", "bind", "begin"} => state[active] = "prepared"
      /\ pc \in {"effects", "apply"} => state[active] = "applying"
      /\ pc \in {"verify", "commit"} => state[active] = "applied"
  BY DEF EngineInv, ProtocolInv, ControlInv, PointMatchesState, Working
<1>2. Decided <=> state[active] = "committed"
  BY <1>1, OneTransaction DEF Decided, LastState
<1> QED
  BY <1>1, <1>2 DEF Forward

\* The decision is taken where verify_committed_surface has just looked.
LEMMA VerifySees ==
  ASSUME [ENext]_evars, pc = "verify", pc' = "commit"
  PROVE  CommittedSurface /\ UNCHANGED <<world, program>>
<1>1. CASE \/ Quiet(Acquire) \/ Quiet(Resolve) \/ Quiet(Reconcile) \/ Quiet(ApproveTopology)
           \/ Quiet(Release) \/ \E t \in Txns : EPrepareTransaction(t)
  BY <1>1 DEF Quiet, EPrepareTransaction, Acquire, Resolve, ResolveNothing, ResolveHalted,
         ResolveActive, Reconcile, ReconcileAppendRegistration, ReconcileBindRegistration,
         ReconcileAppendSettlement, ReconcileBindSettlement, ReconcileDone, ApproveTopology,
         Release, PrepareTransaction
<1>2. CASE EClassify
  BY <1>2 DEF EClassify, EClassifyTerminal, EClassifyHalt, EClassifyCommitted, EClassifyRollback,
         ClassifyTerminal
<1>3. CASE ERunPlan
  BY <1>3 DEF ERunPlan, Quiet, PersistRollingBack, PersistRolledBack, EPersistHalt, PersistHalt,
         PersistUndoStarted, EPersistUndone, PersistUndone, AuthorizeStep, MutateStep,
         ConfirmStep, RefuseStep, DenyStep, EscapeStep, EReachDetach, ReachDetach, DetachActive, Due
<1>4. CASE EVerifyCommittedSurface
  BY <1>4 DEF EVerifyCommittedSurface, Quiet, files
<1>5. CASE EExecute /\ ~EVerifyCommittedSurface
  BY <1>5 DEF EExecute, Quiet, AppendRegistration, BindRegistration, BeginApplying,
         EStartEffect, StartEffect, ApplyEffect, CreateStaging, WriteStaging, MakeWork, SetMode,
         LinkAnchor, CheckAnchor, Land, ReadyToLand, Verify, Withdraw, UndoLanding, Applying,
         EFinishEffect, FinishEffect, FinishApplying, DecideCommit, AppendSettlement, BindSettlement
<1>6. CASE ECaughtFailure \/ ECrash \/ \E i \in Effects : PowerCut(i)
  BY <1>6 DEF ECaughtFailure, CaughtFailure, Goto, ECrash, PowerCut, Killed, Crash
<1>7. CASE Outside \/ UNCHANGED evars
  BY <1>7, OutsideIsSilent DEF evars, vars
<1> QED
  BY <1>1, <1>2, <1>3, <1>4, <1>5, <1>6, <1>7 DEF ENext, EProgress, EEnvironment

\* What verify_committed_surface accepts is kept, but for what cleanup clears.
LEMMA ResidueStep ==
  ASSUME AnchorSafe, ResidueInv, [ENext]_evars
  PROVE  ResidueInv'
<1>1. EngineInv /\ DropInv /\ RecordMoves
  BY EngineStep, RecordMoving DEF AnchorSafe, CommitInv, EngineInv, ProtocolInv
<1>2. SUFFICES ASSUME touched' = {}, pc' = "commit" \/ Decided' PROVE \A i \in Effects : Leftover(i)'
  BY DEF ResidueInv
<1>3. touched = {} /\ ~Outside
  BY <1>1, <1>2, Undisturbed
<1>4. ASSUME UNCHANGED <<world, program>> PROVE \A i \in Effects : Leftover(i) => Leftover(i)'
  BY <1>4 DEF Leftover, Free, At
<1>5. CASE pc = "commit" \/ Decided
  <2>1. \A i \in Effects : Leftover(i)
    BY <1>3, <1>5 DEF ResidueInv
  <2>2. CASE Calm \/ EClassify
    <3>1. UNCHANGED <<world, program>>
      BY <2>2 DEF Calm, EClassify, EClassifyTerminal, EClassifyHalt, EClassifyCommitted,
                  EClassifyRollback, Planned
    <3> QED
      BY <1>4, <2>1, <3>1
  <2>3. ASSUME NEW k \in Effects, ApplyEffect(k) PROVE FALSE
    <3>1. pc = "apply"
      BY <1>1, <2>3, ApplyIsDone DEF WorkDoes
    <3> QED
      BY <1>1, <1>5, <3>1, DecidedIs DEF Forward
  <2>4. ASSUME NEW k \in Effects, Due(k)
        PROVE  plan = "cleanup" /\ steps[k] = <<Step(k)>> /\ Step(k).op = "drop"
    <3>1. pc = "plan"
      BY <2>4 DEF Due
    <3>2. state[active] = "committed"
      BY <1>1, <1>5, <3>1, DecidedIs
    <3>3. plan = "cleanup"
      BY <2>4, <3>2 DEF Due
    <3> QED
      BY <1>1, <2>4, <3>3, CleanupStep
  <2>5. ASSUME NEW k \in Effects, MutateStep(k) PROVE \A i \in Effects : Leftover(i)'
    <3>1. MutateDoes(k) /\ Due(k)
      BY <2>5, MutateIsDone DEF MutateDoes
    <3>2. program' = program /\ Step(k).op = "drop"
      BY <2>4, <3>1 DEF MutateDoes
    <3>3. CASE world' = world
      BY <1>4, <2>1, <3>2, <3>3
    <3>4. CASE Operated(world, world', program[k], k, Step(k).op)
      <4>1. world'.inode = world.inode /\ SameElse(world, world', {k}) /\ world'.names[k] = NoObj
        BY <3>2, <3>4 DEF Operated
      <4>2. \A i \in Effects \ {k} : world'.names[i] = world.names[i]
        BY <4>1 DEF SameElse, Named
      <4> QED
        BY <2>1, <3>2, <4>1, <4>2 DEF Leftover, Free, At
    <3> QED
      BY <3>1, <3>3, <3>4 DEF MutateDoes
  <2>6. ASSUME NEW k \in Effects, PowerCut(k) PROVE FALSE
    <3>1. Applying(k, "landed") \/ (Due(k) /\ Step(k).op = "move_back")
      BY <2>6 DEF PowerCut, Unflushed
    <3>2. Applying(k, "landed")
      BY <2>4, <3>1
    <3> QED
      BY <1>1, <1>5, <3>2, DecidedIs DEF Forward, Applying
  <2>7. ASSUME NEW k \in Effects, EffectStep(k) PROVE \A i \in Effects : Leftover(i)'
    BY <1>1, <1>4, <2>1, <2>3, <2>5, <2>6, <2>7, FilesMoved
  <2> QED
    BY <1>1, <1>3, <2>2, <2>7, EngineCases
<1>6. CASE ~(pc = "commit" \/ Decided)
  <2>1. pc' = "commit" /\ pc = "verify"
    BY <1>1, <1>2, <1>6, EarlyKept DEF RecordMoves, VerifyCommittedSurface
  <2>2. CommittedSurface /\ UNCHANGED <<world, program>>
    BY <2>1, VerifySees
  <2>3. ASSUME NEW i \in Effects PROVE Leftover(i)
    <3>1. program[i].kind \in Kinds
      BY <1>1 DEF EngineInv, FilesInv, ProgramOK, WellFormed
    <3> QED
      BY <2>2, <3>1 DEF CommittedSurface, Leftover, Kinds
  <2> QED
    BY <1>4, <2>2, <2>3
<1> QED
  BY <1>5, <1>6

\* A plan for cleanup is made: each step expects what has just been seen.
LEMMA ClassifyFollow ==
  ASSUME AnchorSafe, StuffedInv, EClassify
  PROVE  FollowInv'
<1>1. Solid(world) /\ UNCHANGED <<world, program, touched>> /\ stage' = "authorize"
  BY DEF AnchorSafe, EngineInv, FilesInv, EClassify, EClassifyTerminal, EClassifyHalt,
         EClassifyCommitted, EClassifyRollback, Planned, Rest, bounded, outsider
<1>2. CASE EClassifyCommitted
  <2>1. ~CommittedPlan(program, world).halt /\ steps' = CommittedPlan(program, world).steps
    BY <1>2 DEF EClassifyCommitted, Planned
  <2>2. ASSUME touched' = {}, NEW i \in Effects, steps'[i] # <<>>
        PROVE  /\ Head(steps'[i]).slots = {i}
               /\ Head(steps'[i]).before = Joint(program, world, {i})
               /\ Head(steps'[i]).after = Alone(i, "absent")
    <3>1. world.stuffed = {}
      BY <1>1, <2>2 DEF StuffedInv
    <3>2. PICK planned : planned = CommittedPlan(program, world)
      OBVIOUS
    <3>3. PICK s : s = Head(planned.steps[i])
      OBVIOUS
    <3>4. /\ s.slots = {i} /\ s.before = Joint(program, world, {i})
          /\ s.after = Joint(program, Apply(program, world, "drop", i), {i})
      <4>1. ~planned.halt /\ planned.steps[i] # <<>>
        BY <2>1, <2>2, <3>2
      <4>2. /\ s.slots = {i} /\ s.before = Joint(program, world, s.slots)
            /\ s.after = Joint(program, Apply(program, world, "drop", i), s.slots)
        BY <3>2, <3>3, <4>1, CleanupPlanned
      <4> QED
        BY <4>2
    <3>5. Joint(program, Apply(program, world, "drop", i), {i}) = Alone(i, "absent")
      BY <1>1, <3>1, DropClears
    <3> QED
      BY <2>1, <3>2, <3>3, <3>4, <3>5
  <2> QED
    BY <1>1, <2>2 DEF FollowInv, Confirming, AsExpected, Step
<1>3. CASE EClassifyTerminal \/ EClassifyHalt \/ EClassifyRollback
  BY <1>3 DEF EClassifyTerminal, EClassifyHalt, EClassifyRollback, ClassifyTerminal,
              ClassifyHalt, ClassifyRollback, Adopt, FollowInv
<1> QED
  BY <1>2, <1>3 DEF EClassify

\* Each step of cleanup finds what it expects and leaves what it promises.
LEMMA FollowStep ==
  ASSUME AnchorSafe, ForeignInv, StuffedInv, FollowInv, [ENext]_evars
  PROVE  FollowInv'
<1>1. EngineInv /\ DropInv /\ CleanupInv /\ Solid(world) /\ steps = [i \in Effects |-> steps[i]]
  BY DEF AnchorSafe, CommitInv, ForeignInv, EngineInv, FilesInv
<1>2. SUFFICES ASSUME touched' = {} PROVE FollowInv'
  BY DEF FollowInv
<1>3. touched = {} /\ ~Outside /\ world.stuffed = {}
  BY <1>1, <1>2, Undisturbed DEF StuffedInv
<1>4. ASSUME pc' = "plan" /\ plan' = "cleanup" =>
               UNCHANGED <<pc, plan, steps, program, world, stage, active, state, journals>>
      PROVE  FollowInv'
  BY <1>3, <1>4 DEF FollowInv, Confirming, Due, RollbackCursor, AsExpected, Step
<1>5. CASE Calm
  BY <1>5 DEF Calm, FollowInv, Confirming, Due, AsExpected, Step
<1>6. CASE EClassify
  BY <1>6, ClassifyFollow
<1>7. ASSUME NEW k \in Effects, EffectStep(k) PROVE FollowInv'
  <2>1. CASE EStartEffect(k) \/ EFinishEffect(k) \/ ApplyEffect(k) \/ PowerCut(k)
    <3>1. ApplyEffect(k) => pc = "apply" /\ UNCHANGED vars
      BY ApplyIsDone DEF WorkDoes
    <3> QED
      BY <1>4, <2>1, <3>1 DEF EStartEffect, StartEffect, EFinishEffect, FinishEffect, Goto,
                              PowerCut, Killed, Crash, vars, process
  <2>2. CASE Quiet(PersistUndoStarted(k)) \/ EPersistUndone(k)
    BY <1>4, <2>2 DEF Quiet, EPersistUndone, PersistUndoStarted, PersistUndone, process
  <2>3. SUFFICES ASSUME AuthorizeStep(k) \/ MutateStep(k) \/ ConfirmStep(k), plan = "cleanup"
                 PROVE  FollowInv'
    <3>1. plan # "cleanup" /\ (AuthorizeStep(k) \/ MutateStep(k) \/ ConfirmStep(k)) => plan' # "cleanup"
      BY DEF AuthorizeStep, MutateStep, ConfirmStep, Work, vars, process
    <3> QED
      BY <1>4, <1>7, <2>1, <2>2, <3>1 DEF EffectStep
  <2>4. /\ Due(k) /\ pc = "plan" /\ UNCHANGED <<vars, program>>
        /\ steps[k] = <<Step(k)>> /\ Step(k).op = "drop" /\ Step(k).slots = {k}
    <3>1. Due(k) /\ UNCHANGED <<vars, program>>
      BY <2>3 DEF AuthorizeStep, MutateStep, ConfirmStep, Work
    <3>2. pc = "plan" /\ steps[k] # <<>>
      BY <3>1 DEF Due
    <3> QED
      BY <1>1, <2>3, <3>1, <3>2, CleanupStep DEF CleanupInv
  <2>5. \A i \in Effects : steps[i] # <<>> =>
          /\ Step(i).slots = {i} /\ Step(i).after = Alone(i, "absent")
          /\ IF Confirming(i) THEN Free(world, i) ELSE AsExpected(i)
    BY <1>1, <1>3, <2>3, <2>4 DEF FollowInv, CleanupInv
  <2>6. \A i \in Effects : Due(i) => i = k
    BY <2>4, DueIsOne
  <2>7. CASE AuthorizeStep(k)
    <3>1. UNCHANGED <<world, steps>> /\ stage' = "mutate" /\ stage = "authorize"
      BY <2>7 DEF AuthorizeStep, Work
    <3>2. \A i \in Effects : ~Confirming(i) /\ ~Confirming(i)'
      BY <3>1 DEF Confirming
    <3> QED
      BY <2>4, <2>5, <3>1, <3>2 DEF FollowInv, AsExpected, Step
  <2>8. CASE MutateStep(k)
    <3>1. stage = "mutate" /\ steps' = steps
      BY <2>8 DEF MutateStep, Work
    <3>2. \A i \in Effects : steps[i] # <<>> => AsExpected(i)
      BY <2>5, <3>1 DEF Confirming
    <3>3. Due(k)' /\ \A i \in Effects : Due(i)' => i = k
      BY <2>4, <2>6, <3>1 DEF Due, vars, store, process
    <3>4. CASE Possible(program, world, Step(k).op, k)
      <4>1. world' = SetName(world, k, NoObj) /\ stage' = "confirm"
        BY <2>4, <2>8, <3>4 DEF MutateStep, Work, Apply, DropScratch, Unlink, SetName
      <4>2. k \in Named /\ \A i \in Effects : i \in Named
        BY SlotsApart
      <4>3. /\ Solid(world') /\ world'.names[k] = NoObj
            /\ \A i \in Named \ {k} : world'.names[i] = world.names[i]
        <5>1. PICK w : w = SetName(world, k, NoObj)
          OBVIOUS
        <5>2. /\ Solid(w) /\ w.names[k] = NoObj
              /\ \A i \in Named \ {k} : w.names[i] = world.names[i]
          BY <1>1, <4>2, <5>1, OneNameMoves
        <5> QED
          BY <4>1, <5>1, <5>2
      <4>4. world'.inode = world.inode /\ world'.stuffed = {}
        BY <1>1, <1>3, <4>1, NamesOnly
      <4>5. ASSUME NEW i \in Effects, i # k, steps[i] # <<>> PROVE AsExpected(i)'
        <5>1. At(world', i) = At(world, i)
          BY <4>2, <4>3, <4>4, <4>5 DEF At
        <5>2. Joint(program, world', {i}) = Joint(program, world, {i})
          BY <1>1, <1>3, <4>3, <4>4, <5>1, SlotJoint
        <5>3. UNCHANGED <<Step(i), program>> /\ Step(i).slots = {i}
          BY <2>4, <2>5, <3>1, <4>5 DEF Step
        <5> QED
          BY <3>2, <4>5, <5>2, <5>3 DEF AsExpected
      <4>6. \A i \in Effects : Confirming(i)' <=> i = k
        BY <3>3, <4>1 DEF Confirming
      <4> QED
        BY <2>5, <3>1, <4>3, <4>5, <4>6 DEF FollowInv, Step, Free
    <3>5. CASE ~Possible(program, world, Step(k).op, k)
      <4>1. world' = world /\ stage' = "reconsider"
        BY <2>8, <3>5 DEF MutateStep, Work
      <4>2. \A i \in Effects : ~Confirming(i)'
        BY <4>1 DEF Confirming
      <4> QED
        BY <2>4, <2>5, <3>1, <3>2, <4>1, <4>2 DEF FollowInv, AsExpected, Step
    <3> QED
      BY <3>4, <3>5
  <2>9. CASE ConfirmStep(k)
    <3>1. stage = "confirm" /\ world' = world
      BY <2>9 DEF ConfirmStep
    <3>2. Free(world, k) /\ Step(k).after = Alone(k, "absent")
      BY <2>4, <2>5, <3>1 DEF Confirming
    <3>3. AsPromised(k)
      <4>1. At(world, k) = "absent"
        BY <1>1, <3>2, FreeIsAbsent, SlotsApart
      <4> QED
        BY <1>1, <1>3, <2>4, <3>2, <4>1, SlotJoint DEF AsPromised
    <3>4. steps' = [steps EXCEPT ![k] = Tail(@)] /\ stage' = "authorize"
      BY <2>9, <3>3 DEF ConfirmStep
    <3>5. steps'[k] = <<>> /\ \A i \in Effects \ {k} : steps'[i] = steps[i]
      <4>1. PICK x : x = Step(k)
        OBVIOUS
      <4>2. steps[k] = <<x>> /\ Tail(<<x>>) = <<>>
        BY <2>4, <4>1
      <4> QED
        BY <1>1, <3>4, <4>2
    <3>6. \A i \in Effects \ {k} : ~Confirming(i)
      BY <2>6 DEF Confirming
    <3>7. \A i \in Effects : ~Confirming(i)'
      BY <3>4 DEF Confirming
    <3> QED
      BY <2>4, <2>5, <3>1, <3>5, <3>6, <3>7 DEF FollowInv, AsExpected, Step
  <2> QED
    BY <2>3, <2>7, <2>8, <2>9
<1> QED
  BY <1>1, <1>3, <1>5, <1>6, <1>7, EngineCases

\* A committed transaction is classified for cleanup.
LEMMA CommittedAuthority ==
  ASSUME EngineInv, pc = "classify", state[active] = "committed"
  PROVE  AuthorityOf(active) = "classify"
<1>1. active \in Txns /\ AllAre(journals[active], "done")
  BY ActiveRecord DEF EngineInv, AllAre
<1>2. LastState(active) = "committed"
  BY DEF LastState
<1>3. committed[active] = "committed"
  BY <1>1, <1>2 DEF EngineInv, ProtocolInv, RecordInv, DecisionMatchesState
<1> QED
  BY <1>1, <1>3 DEF AuthorityOf, Authority, CompatibleCommitDecision, LegalJournalLanguage, TerminalStates

\* Where nobody interferes, no such plan is a halt.
LEMMA DecisionStep ==
  ASSUME AnchorSafe, ResidueInv, DecisionInv, [ENext]_evars
  PROVE  DecisionInv'
<1>1. EngineInv /\ RecordMoves /\ InstallInv /\ Solid(world)
  BY EngineStep, RecordMoving DEF AnchorSafe, CommitInv, EngineInv, ProtocolInv, FilesInv
<1>2. SUFFICES ASSUME touched' = {}, pc' = "plan", plan' = "halt", state'[active'] = "committed"
               PROVE  FALSE
  BY DEF DecisionInv
<1>3. touched = {} /\ ~Outside
  BY <1>1, <1>2, Undisturbed
<1>4. CASE Calm
  <2>1. pc = "plan" /\ plan = "halt" /\ active' = active
    BY <1>2, <1>4 DEF Calm
  <2>2. active \in Txns /\ (Decided <=> state[active] = "committed")
    BY <1>1, <2>1, DecidedIs
  <2>3. LastState(active)' = "committed"
    BY <1>2, <2>1 DEF LastState
  <2>4. Decided
    BY <1>1, <2>1, <2>2, <2>3 DEF RecordMoves, Decided, LastState
  <2> QED
    BY <1>3, <2>1, <2>2, <2>4 DEF DecisionInv
<1>5. CASE EClassify
  <2>1. /\ EClassifyHalt /\ pc = "classify" /\ UNCHANGED <<active, state>>
    BY <1>2, <1>5 DEF EClassify, EClassifyTerminal, EClassifyHalt, EClassifyCommitted,
         EClassifyRollback, ClassifyTerminal, ClassifyHalt, ClassifyCommitted,
         ClassifyRollback, Adopt, store
  <2>2. state[active] = "committed" /\ AuthorityOf(active) = "classify"
    BY <1>1, <1>2, <2>1, CommittedAuthority
  <2>3. CommittedPlan(program, world).halt
    BY <2>1, <2>2 DEF EClassifyHalt
  <2>4. Decided
    BY <1>1, <2>1, <2>2, DecidedIs
  <2>5. \A p \in Declared(program) : At(world, p) = Final(program, p)
    BY <1>1, <1>3, <2>4 DEF InstallInv, Installed
  <2>6. ASSUME NEW i \in Effects PROVE ~CleanupDecision(program, world, i).halt
    <3>1. Leftover(i)
      BY <1>3, <2>4 DEF ResidueInv
    <3>2. CASE Free(world, i)
      <4>1. At(world, i) = "absent"
        BY <1>1, <3>2, FreeIsAbsent, SlotsApart
      <4> QED
        BY <4>1 DEF CleanupDecision, Undo
    <3>3. CASE program[i].kind \in {"replace", "delete", "move"} /\ At(world, i) = program[i].pre
      BY <3>3 DEF CleanupDecision, Undo
    <3> QED
      BY <3>1, <3>2, <3>3 DEF Leftover
  <2> QED
    BY <2>3, <2>5, <2>6 DEF CommittedPlan
<1>6. ASSUME NEW k \in Effects, EffectStep(k) PROVE FALSE
  <2>1. CASE EStartEffect(k) \/ EFinishEffect(k) \/ ApplyEffect(k) \/ PowerCut(k)
    <3>1. ApplyEffect(k) => pc = "apply" /\ UNCHANGED vars
      BY ApplyIsDone DEF WorkDoes
    <3> QED
      BY <1>2, <2>1, <3>1 DEF EStartEffect, StartEffect, EFinishEffect, FinishEffect, Goto,
                              PowerCut, Killed, Crash, vars, process
  <2>2. CASE Quiet(PersistUndoStarted(k)) \/ EPersistUndone(k)
    BY <1>2, <2>2 DEF Quiet, EPersistUndone, PersistUndoStarted, PersistUndone, process
  <2>3. CASE AuthorizeStep(k) \/ MutateStep(k) \/ ConfirmStep(k)
    BY <1>2, <2>3 DEF AuthorizeStep, MutateStep, ConfirmStep, Due, Work, vars, process
  <2> QED
    BY <1>6, <2>1, <2>2, <2>3 DEF EffectStep
<1> QED
  BY <1>1, <1>3, <1>4, <1>5, <1>6, EngineCases

(* A transaction is halted by a plan that says so, or a step that is       *)
(* refused or denied.                                                      *)
LEMMA HaltsHow ==
  ASSUME EngineInv, [ENext]_evars, NEW t \in Txns, state'[t] = "halted", state[t] = "committed"
  PROVE  /\ pc = "plan" /\ state[active] = "committed"
         /\ plan = "halt" \/ \E i \in Effects : RefuseStep(i) \/ DenyStep(i)
<1>1. state \in [Txns -> TransactionStates \cup {"none"}]
  BY DEF EngineInv, ProtocolInv, ControlInv, TypeOK
<1>2. ASSUME NEW s, s # "halted",
             state' = state \/ state' = [state EXCEPT ![active] = s]
      PROVE  FALSE
  BY <1>1, <1>2
<1>3. ASSUME PersistHalt PROVE state[active] = "committed"
  BY <1>1, <1>3 DEF PersistHalt
<1>4. CASE \/ Quiet(Acquire) \/ Quiet(Resolve) \/ Quiet(Reconcile) \/ Quiet(ApproveTopology)
           \/ Quiet(Release)
  BY <1>2, <1>4 DEF Quiet, Acquire, Resolve, ResolveNothing,
         ResolveHalted, ResolveActive, Reconcile, ReconcileAppendRegistration,
         ReconcileBindRegistration, ReconcileAppendSettlement, ReconcileBindSettlement,
         ReconcileDone, ApproveTopology, Release, Publish, BindRegistrationDigest,
         BindSettlementDigest, store
<1>5. ASSUME NEW u \in Txns, EPrepareTransaction(u) PROVE FALSE
  <2>1. state' = [state EXCEPT ![u] = "prepared"]
    BY <1>5 DEF EPrepareTransaction, Quiet, PrepareTransaction
  <2> QED
    BY <1>1, <2>1
<1>6. CASE EClassify
  BY <1>2, <1>6 DEF EClassify, EClassifyTerminal, EClassifyHalt, EClassifyCommitted, EClassifyRollback,
         ClassifyTerminal, ClassifyHalt, ClassifyCommitted, ClassifyRollback, Adopt, store
<1>7. CASE ERunPlan
  <2>1. CASE Quiet(PersistRollingBack) \/ Quiet(PersistRolledBack)
    BY <1>2, <2>1 DEF Quiet, PersistRollingBack, PersistRolledBack, SetState
  <2>2. CASE EPersistHalt
    BY <1>3, <2>2 DEF EPersistHalt, Quiet, PersistHalt
  <2>3. ASSUME NEW i \in Effects, RefuseStep(i) \/ DenyStep(i)
        PROVE  pc = "plan" /\ state[active] = "committed"
    BY <1>3, <2>3 DEF RefuseStep, DenyStep, Due
  <2>4. ASSUME NEW i \in Effects,
               \/ Quiet(PersistUndoStarted(i)) \/ EPersistUndone(i)
               \/ AuthorizeStep(i) \/ MutateStep(i) \/ ConfirmStep(i) \/ EscapeStep(i)
        PROVE  FALSE
    BY <1>2, <2>4 DEF Quiet, PersistUndoStarted, EPersistUndone, PersistUndone, SetJournal,
         AuthorizeStep, MutateStep, ConfirmStep, Work, EscapeStep, Crash, vars, store
  <2>5. CASE EReachDetach \/ Quiet(DetachActive)
    BY <1>2, <2>5 DEF EReachDetach, Quiet, ReachDetach, DetachActive, store
  <2> QED
    BY <1>7, <2>1, <2>2, <2>3, <2>4, <2>5 DEF ERunPlan
<1>8. CASE EExecute
  <2>1. ASSUME NEW i \in Effects, ApplyEffect(i) PROVE UNCHANGED vars
    BY <2>1, ApplyIsSilent
  <2>2. CASE \E i \in Effects : ApplyEffect(i)
    BY <1>2, <2>1, <2>2 DEF vars
  <2>3. ASSUME NEW i \in Effects, EStartEffect(i) \/ EFinishEffect(i) PROVE FALSE
    BY <1>2, <2>3 DEF EStartEffect, StartEffect, EFinishEffect, FinishEffect, SetJournal
  <2>4. CASE \/ Quiet(AppendRegistration) \/ Quiet(BindRegistration) \/ Quiet(BeginApplying)
             \/ Quiet(FinishApplying) \/ EVerifyCommittedSurface \/ Quiet(DecideCommit)
             \/ Quiet(AppendSettlement) \/ Quiet(BindSettlement)
    BY <1>2, <2>4 DEF Quiet, AppendRegistration, BindRegistration, BeginApplying, FinishApplying,
         EVerifyCommittedSurface, VerifyCommittedSurface, DecideCommit, AppendSettlement,
         BindSettlement, Publish, BindRegistrationDigest, BindSettlementDigest, SetState, store
  <2> QED
    BY <1>8, <2>2, <2>3, <2>4 DEF EExecute
<1>9. CASE ECaughtFailure \/ ECrash \/ \E i \in Effects : PowerCut(i)
  BY <1>2, <1>9 DEF ECaughtFailure, CaughtFailure, ECrash, PowerCut, Killed, Crash, store
<1>10. CASE Outside \/ UNCHANGED evars
  BY <1>2, <1>10, OutsideIsSilent DEF evars, vars
<1> QED
  BY <1>4, <1>5, <1>6, <1>7, <1>8, <1>9, <1>10 DEF ENext, EProgress, EEnvironment

(* Of these only the denial is left, when nobody interferes: the plan does *)
(* not say so and every step finds what it expects.                        *)
LEMMA CarriedStep ==
  ASSUME AnchorSafe, FollowInv, DecisionInv, [ENext]_evars, NEW t \in Txns,
         state[t] = "committed", state'[t] = "halted"
  PROVE  touched # {} \/ \E i \in Effects : DenyStep(i)
<1>1. SUFFICES ASSUME touched = {} PROVE \E i \in Effects : DenyStep(i)
  OBVIOUS
<1>2. /\ pc = "plan" /\ state[active] = "committed"
      /\ plan = "halt" \/ \E i \in Effects : RefuseStep(i) \/ DenyStep(i)
  BY HaltsHow DEF AnchorSafe
<1>3. plan # "halt"
  BY <1>1, <1>2 DEF DecisionInv
<1>4. ASSUME NEW i \in Effects, RefuseStep(i) PROVE FALSE
  <2>1. Due(i) /\ stage # "confirm" /\ ~AsExpected(i)
    BY <1>4 DEF RefuseStep
  <2>2. plan = "cleanup" /\ steps[i] # <<>> /\ ~Confirming(i)
    BY <1>2, <2>1 DEF Due, Confirming
  <2> QED
    BY <1>1, <1>2, <2>1, <2>2 DEF FollowInv
<1> QED
  BY <1>2, <1>3, <1>4

\* The invariant holds at first.
LEMMA CarryInit == EInit => CarryInv
<1> SUFFICES ASSUME EInit PROVE CarryInv
  OBVIOUS
<1>1. pc = "idle" /\ (\A t \in Txns : state[t] = "none") /\ world = InitialWorld(program)
  BY DEF EInit, Init
<1>2. world.stuffed = {} /\ ~Decided
  BY <1>1 DEF InitialWorld, Decided, LastState
<1> QED
  BY <1>1, <1>2 DEF CarryInv, StuffedInv, ResidueInv, FollowInv, DecisionInv

\* It holds in every reachable state.
LEMMA CarryAlways == ESpec => [](AnchorSafe /\ ForeignInv /\ CarryInv)
<1>1. AnchorSafe /\ ForeignInv /\ CarryInv /\ [ENext]_evars => CarryInv'
  BY StuffedStep, ResidueStep, FollowStep, DecisionStep DEF CarryInv
<1> QED
  BY <1>1, CarryInit, ForeignAlways, PTL DEF ESpec

(* A commit that nobody interferes with is carried through, however often   *)
(* execution, cleanup and recovery fail, are killed or cut off: no cleanup *)
(* of it plans a halt and none of its steps finds something unexpected, so *)
(* that recovery halts it only where the operating system denies a removal *)
(* (classifier.py: classify_committed_cleanup, recover.py: run_plan).      *)
THEOREM CommitCarries == ESpec => CommitCarriesThrough
<1>1. ASSUME AnchorSafe, CarryInv, [ENext]_evars
      PROVE  \A t \in Txns : state[t] = "committed" /\ state'[t] = "halted" =>
               touched # {} \/ \E i \in Effects : DenyStep(i)
  BY <1>1, CarriedStep DEF CarryInv
<1> QED
  BY <1>1, CarryAlways, PTL DEF ESpec, CommitCarriesThrough
=============================================================================
