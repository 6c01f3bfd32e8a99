-------------------------- MODULE EffectEngine_proofs --------------------------
(***************************************************************************)
(* With the files in it the protocol is still the protocol, for every      *)
(* compiled specification and whatever the outside writer does; what is    *)
(* proved about TxnProtocol therefore holds of EffectEngine too.           *)
(*                                                                         *)
(* The scratch slots of a settled transaction are empty.  The argument     *)
(* follows the plans of EffectTables: every decision about an effect ends  *)
(* in a step that empties its slot, or finds it empty; binding the steps   *)
(* records that promise, confirming them keeps it, and the record moves on *)
(* only then.                                                              *)
(*                                                                         *)
(* What a commit promises of the live paths is argued forwards.  No two    *)
(* names that execution moves objects between lead to one object, so a     *)
(* system call of an effect is seen at its own paths only; what an effect  *)
(* has left therefore stands until a later one begins on the same path.    *)
(* The files are as verify_committed_surface saw them when the decision is *)
(* taken, and cleanup removes scratch names and nothing else.              *)
(***************************************************************************)
EXTENDS EngineProperties, TxnProtocol_proofs, FiniteSetTheorems, Integers, TLAPS

\* System calls of an effect leave the store, the chain and the process alone.
LEMMA ApplyIsSilent ==
  ASSUME NEW i \in Effects, ApplyEffect(i)
  PROVE  UNCHANGED vars
<1>1. ASSUME NEW w, NEW s, Work(w, s) PROVE UNCHANGED vars
  BY <1>1 DEF Work
<1>2. CASE CreateStaging(i) \/ WriteStaging(i) \/ MakeWork(i) \/ SetMode(i)
  BY <1>1, <1>2 DEF CreateStaging, WriteStaging, MakeWork, SetMode
<1>3. CASE LinkAnchor(i) \/ CheckAnchor(i) \/ Verify(i) \/ Withdraw(i)
  BY <1>1, <1>3 DEF LinkAnchor, CheckAnchor, Verify, Withdraw
<1>4. CASE Land(i)
  BY <1>1, <1>4 DEF Land
<1>5. CASE UndoLanding(i)
  BY <1>1, <1>5 DEF UndoLanding
<1> QED
  BY <1>2, <1>3, <1>4, <1>5 DEF ApplyEffect

\* The outside writer touches files only.
LEMMA OutsideIsSilent == Outside => UNCHANGED vars
BY DEF Outside, OutsideWrite, OutsideEdit, OutsideRemove, OutsideStuff, Meddle

(* Every other step is one of the protocol's, with what it does to the     *)
(* files beside it.                                                        *)
LEMMA EngineStep ==
  ASSUME [ENext]_evars
  PROVE  [Next]_vars
<1> USE DEF Quiet
<1>1. CASE \/ Quiet(Acquire) \/ Quiet(Resolve) \/ Quiet(Reconcile) \/ Quiet(ApproveTopology)
           \/ Quiet(Release)
  BY <1>1 DEF Next, Progress, Environment
<1>2. CASE EClassify
  BY <1>2 DEF EClassify, EClassifyTerminal, EClassifyHalt, EClassifyCommitted,
              EClassifyRollback, Next, Progress, Classify
<1>3. CASE ERunPlan
  <2>1. CASE \/ Quiet(PersistRollingBack) \/ Quiet(PersistRolledBack) \/ EPersistHalt
             \/ EReachDetach \/ Quiet(DetachActive)
    BY <2>1 DEF EPersistHalt, EReachDetach, Next, Progress, RunPlan
  <2>2. ASSUME NEW i \in Effects,
               \/ Quiet(PersistUndoStarted(i)) \/ EPersistUndone(i)
               \/ RefuseStep(i) \/ DenyStep(i) \/ EscapeStep(i)
        PROVE  Next
    BY <2>2 DEF EPersistUndone, RefuseStep, DenyStep, EscapeStep, Next, Progress, Environment, RunPlan
  <2>3. ASSUME NEW i \in Effects, AuthorizeStep(i) \/ MutateStep(i) \/ ConfirmStep(i)
        PROVE  UNCHANGED vars
    BY <2>3 DEF AuthorizeStep, MutateStep, ConfirmStep, Work
  <2> QED
    BY <1>3, <2>1, <2>2, <2>3 DEF ERunPlan
<1>4. CASE EExecute
  <2>1. CASE \/ Quiet(AppendRegistration) \/ Quiet(BindRegistration) \/ Quiet(BeginApplying)
             \/ Quiet(FinishApplying) \/ EVerifyCommittedSurface \/ Quiet(DecideCommit)
             \/ Quiet(AppendSettlement) \/ Quiet(BindSettlement)
    BY <2>1 DEF EVerifyCommittedSurface, Next, Progress, Execute
  <2>2. ASSUME NEW i \in Effects, EStartEffect(i) \/ EFinishEffect(i)
        PROVE  Next
    BY <2>2 DEF EStartEffect, EFinishEffect, Next, Progress, Execute
  <2>3. ASSUME NEW i \in Effects, ApplyEffect(i)
        PROVE  UNCHANGED vars
    BY <2>3, ApplyIsSilent
  <2> QED
    BY <1>4, <2>1, <2>2, <2>3 DEF EExecute
<1>5. CASE \E t \in Txns : EPrepareTransaction(t)
  BY <1>5 DEF EPrepareTransaction, Next, Environment
<1>6. CASE ECaughtFailure \/ ECrash \/ \E i \in Effects : PowerCut(i)
  BY <1>6 DEF ECaughtFailure, ECrash, PowerCut, Killed, Next, Environment
<1>7. CASE Outside
  BY <1>7, OutsideIsSilent
<1>8. CASE UNCHANGED evars
  BY <1>8 DEF evars
<1> QED
  BY <1>1, <1>2, <1>3, <1>4, <1>5, <1>6, <1>7, <1>8 DEF ENext, EProgress, EEnvironment

-----------------------------------------------------------------------------
(* Induction over the naturals, from the pigeon hole principle: a closed   *)
(* set that misses n would map 0..n into 0..n-1 one to one.                *)
LEMMA SetInduction ==
  ASSUME NEW S, 0 \in S, \A n \in Nat : n \in S => n + 1 \in S, NEW n \in Nat
  PROVE  n \in S
<1> SUFFICES ASSUME n \notin S PROVE FALSE
  OBVIOUS
<1>1. n > 0
  OBVIOUS
<1> DEFINE f == [k \in 0..n |-> IF k \in S THEN k ELSE k - 1]
<1>2. f \in [0..n -> 0..n-1]
  <2>1. ASSUME NEW k \in 0..n PROVE f[k] \in 0..n-1
    OBVIOUS
  <2> QED
    BY <2>1
<1>3. ASSUME NEW j \in 0..n, NEW k \in 0..n, j # k PROVE f[j] # f[k]
  <2>1. j \in Nat /\ k \in Nat
    OBVIOUS
  <2>2. CASE j \in S /\ k \notin S
    BY <1>3, <2>1, <2>2
  <2>3. CASE k \in S /\ j \notin S
    BY <1>3, <2>1, <2>3
  <2> QED
    BY <1>3, <2>1, <2>2, <2>3
<1>4. IsFiniteSet(0..n) /\ IsFiniteSet(0..n-1) /\ Cardinality(0..n-1) < Cardinality(0..n)
  <2>1. n \in Int /\ n - 1 \in Int
    OBVIOUS
  <2>2. IsFiniteSet(0..n) /\ Cardinality(0..n) = n + 1
    BY <2>1, FS_Interval
  <2>3. IsFiniteSet(0..n-1) /\ Cardinality(0..n-1) = n
    <3>1. /\ IsFiniteSet(0..(n-1))
          /\ Cardinality(0..(n-1)) = IF 0 > n-1 THEN 0 ELSE (n-1)-0+1
      BY <2>1, FS_Interval
    <3> QED
      BY <1>1, <3>1
  <2> QED
    BY <2>2, <2>3
<1> HIDE DEF f
<1> QED
  BY <1>2, <1>3, <1>4, FS_PigeonHole

-----------------------------------------------------------------------------
(* What the files keep through every system call: a name leads to nothing  *)
(* or to an object that is there.                                          *)

Named == Paths \cup Effects

Solid(w) ==
  /\ w = [names |-> w.names, inode |-> w.inode, stuffed |-> w.stuffed]
  /\ w.names \in [Named -> Objects \cup {NoObj}]
  /\ w.inode = [o \in Objects |-> w.inode[o]]
  /\ \A s \in Named : w.names[s] # NoObj => w.inode[w.names[s]] # "absent"

\* Scratch slots but one are left alone.
OthersKept(v, w, i) == \A k \in Effects \ {i} : w.names[k] = v.names[k]

ProgramOK ==
  \A i \in Effects :
    /\ WellFormed(program[i])
    /\ program[i].kind \in {"create", "replace"} =>
         "absent" \notin Prefixes[program[i].post] \cup {Raw[program[i].post]}

\* A scratch slot is not a live path, and its own object is an object.
LEMMA SlotsApart ==
  ASSUME NEW i \in Effects
  PROVE  i \notin Paths /\ i \in Objects /\ i \in Named /\ i # NoObj
BY NamesAssumption, NAssumption, BoundsAssumption DEF Effects, Objects, Named

\* In a solid world a free slot is one at which nothing is observed.
LEMMA FreeIsAbsent ==
  ASSUME NEW w, Solid(w), NEW s \in Named
  PROVE  Free(w, s) <=> At(w, s) = "absent"
BY DEF Solid, Free, At

\* A system call moves names about; no object comes into being.
LEMMA NamesMove ==
  ASSUME NEW v, Solid(v), NEW f \in [Named -> Objects \cup {NoObj}],
         \A s \in Named : f[s] # NoObj => \E r \in Named : f[s] = v.names[r]
  PROVE  Solid([v EXCEPT !.names = f]) /\ [v EXCEPT !.names = f].names = f
<1>1. [v EXCEPT !.names = f] = [names |-> f, inode |-> v.inode, stuffed |-> v.stuffed]
  BY DEF Solid
<1> QED
  BY <1>1 DEF Solid

SetName(v, s, o) == [v EXCEPT !.names[s] = o]
SetNames(v, s, o, r, x) == [v EXCEPT !.names[s] = o, !.names[r] = x]

\* One name is bound anew.
LEMMA OneNameMoves ==
  ASSUME NEW v, Solid(v), NEW s \in Named, NEW o,
         o = NoObj \/ \E r \in Named : o = v.names[r]
  PROVE  /\ Solid(SetName(v, s, o))
         /\ SetName(v, s, o).names[s] = o
         /\ \A k \in Named \ {s} : SetName(v, s, o).names[k] = v.names[k]
<1>1. PICK f : f = [v.names EXCEPT ![s] = o]
  OBVIOUS
<1>2. f \in [Named -> Objects \cup {NoObj}]
  BY <1>1 DEF Solid
<1>3. SetName(v, s, o) = [v EXCEPT !.names = f]
  BY <1>1 DEF Solid, SetName
<1>4. f[s] = o /\ \A k \in Named \ {s} : f[k] = v.names[k]
  BY <1>1 DEF Solid
<1>5. \A x \in Named : f[x] # NoObj => \E r \in Named : f[x] = v.names[r]
  BY <1>4
<1>6. Solid([v EXCEPT !.names = f]) /\ [v EXCEPT !.names = f].names = f
  BY <1>2, <1>5, NamesMove
<1> QED
  BY <1>3, <1>4, <1>6

\* Two names are bound anew.
LEMMA TwoNamesMove ==
  ASSUME NEW v, Solid(v), NEW s \in Named, NEW r \in Named, NEW o, NEW x, s # r,
         o = NoObj \/ \E n \in Named : o = v.names[n],
         x = NoObj \/ \E n \in Named : x = v.names[n]
  PROVE  /\ Solid(SetNames(v, s, o, r, x))
         /\ SetNames(v, s, o, r, x).names[s] = o
         /\ SetNames(v, s, o, r, x).names[r] = x
         /\ \A k \in Named \ {s, r} : SetNames(v, s, o, r, x).names[k] = v.names[k]
<1>1. PICK f : f = [[v.names EXCEPT ![s] = o] EXCEPT ![r] = x]
  OBVIOUS
<1>2. f \in [Named -> Objects \cup {NoObj}]
  BY <1>1 DEF Solid
<1>3. SetNames(v, s, o, r, x) = [v EXCEPT !.names = f]
  BY <1>1 DEF Solid, SetNames
<1>4. f[s] = o /\ f[r] = x /\ \A k \in Named \ {s, r} : f[k] = v.names[k]
  BY <1>1 DEF Solid
<1>5. \A y \in Named : f[y] # NoObj => \E n \in Named : f[y] = v.names[n]
  BY <1>4
<1>6. Solid([v EXCEPT !.names = f]) /\ [v EXCEPT !.names = f].names = f
  BY <1>2, <1>5, NamesMove
<1> QED
  BY <1>3, <1>4, <1>6

SettlementOps == UNION {Cells[k] : k \in Kinds}

\* The operations of settle.py, one by one.
LEMMA SettlementOpsAre ==
  SettlementOps = {"exchange", "drop", "take", "restore", "move_back", "relink",
                   "drop_destination", "rmdir_live"}
BY DEF SettlementOps, Cells, Kinds

\* Each operation as the names it binds anew.
LEMMA ApplyBinds ==
  ASSUME NEW prog, NEW w, Solid(w), NEW i
  PROVE  LET e == prog[i] IN
         /\ Apply(prog, w, "exchange", i) = SetNames(w, e.path, w.names[i], i, w.names[e.path])
         /\ Apply(prog, w, "take", i) = SetNames(w, i, w.names[e.path], e.path, NoObj)
         /\ Apply(prog, w, "restore", i) = SetNames(w, e.path, w.names[i], i, NoObj)
         /\ Apply(prog, w, "move_back", i)
              = SetNames(w, e.path, w.names[e.dest], e.dest, NoObj)
         /\ Apply(prog, w, "relink", i) = SetName(w, e.path, w.names[i])
         /\ Apply(prog, w, "drop_destination", i) = SetName(w, e.dest, NoObj)
         /\ Apply(prog, w, "rmdir_live", i) = SetName(w, e.path, NoObj)
         /\ Apply(prog, w, "drop", i) = SetName(w, i, NoObj)
BY DEF Apply, Rename, Unlink, DropScratch, SetName, SetNames

(* A settlement operation leaves the world solid and the scratch slots of  *)
(* the other effects alone.                                                *)
LEMMA ApplyKeeps ==
  ASSUME NEW prog, NEW w, Solid(w), NEW i \in Effects, WellFormed(prog[i]),
         NEW op \in SettlementOps
  PROVE  Solid(Apply(prog, w, op, i)) /\ OthersKept(w, Apply(prog, w, op, i), i)
<1>1. /\ prog[i].path \in Named /\ prog[i].dest \in Named /\ i \in Named
      /\ prog[i].path # i /\ prog[i].dest # i
      /\ \A k \in Effects : k \in Named /\ k # prog[i].path /\ k # prog[i].dest
  BY SlotsApart DEF WellFormed, Touches, Named
<1>2. \A n \in Named : w.names[n] = NoObj \/ \E r \in Named : w.names[n] = w.names[r]
  OBVIOUS
<1>3. CASE op = "exchange"
  <2>1. PICK v : v = SetNames(w, prog[i].path, w.names[i], i, w.names[prog[i].path])
    OBVIOUS
  <2>2. Apply(prog, w, op, i) = v
    BY <1>3, <2>1, ApplyBinds
  <2>3. Solid(v) /\ \A k \in Named \ {prog[i].path, i} : v.names[k] = w.names[k]
    BY <1>1, <1>2, <2>1, TwoNamesMove
  <2> QED
    BY <1>1, <2>2, <2>3 DEF OthersKept
<1>4. CASE op = "take"
  <2>1. PICK v : v = SetNames(w, i, w.names[prog[i].path], prog[i].path, NoObj)
    OBVIOUS
  <2>2. Apply(prog, w, op, i) = v
    BY <1>4, <2>1, ApplyBinds
  <2>3. Solid(v) /\ \A k \in Named \ {i, prog[i].path} : v.names[k] = w.names[k]
    BY <1>1, <1>2, <2>1, TwoNamesMove
  <2> QED
    BY <1>1, <2>2, <2>3 DEF OthersKept
<1>5. CASE op = "restore"
  <2>1. PICK v : v = SetNames(w, prog[i].path, w.names[i], i, NoObj)
    OBVIOUS
  <2>2. Apply(prog, w, op, i) = v
    BY <1>5, <2>1, ApplyBinds
  <2>3. Solid(v) /\ \A k \in Named \ {prog[i].path, i} : v.names[k] = w.names[k]
    BY <1>1, <1>2, <2>1, TwoNamesMove
  <2> QED
    BY <1>1, <2>2, <2>3 DEF OthersKept
<1>6. CASE op = "move_back" /\ prog[i].path # prog[i].dest
  <2>1. PICK v : v = SetNames(w, prog[i].path, w.names[prog[i].dest], prog[i].dest, NoObj)
    OBVIOUS
  <2>2. Apply(prog, w, op, i) = v
    BY <1>6, <2>1, ApplyBinds
  <2>3. Solid(v) /\ \A k \in Named \ {prog[i].path, prog[i].dest} : v.names[k] = w.names[k]
    BY <1>1, <1>2, <1>6, <2>1, TwoNamesMove
  <2> QED
    BY <1>1, <2>2, <2>3 DEF OthersKept
<1>7. CASE op = "move_back" /\ prog[i].path = prog[i].dest
  <2>1. PICK v : v = SetName(w, prog[i].path, NoObj)
    OBVIOUS
  <2>2. Apply(prog, w, op, i) = v
    <3>1. PICK f : f = [[w.names EXCEPT ![prog[i].path] = w.names[prog[i].dest]]
                         EXCEPT ![prog[i].dest] = NoObj]
      OBVIOUS
    <3>2. PICK g : g = [w.names EXCEPT ![prog[i].path] = NoObj]
      OBVIOUS
    <3>3. f = g
      BY <1>1, <1>7, <3>1, <3>2 DEF Solid
    <3>4. Apply(prog, w, op, i) = [w EXCEPT !.names = f]
      BY <1>7, <3>1 DEF Apply, Rename, Solid
    <3>5. v = [w EXCEPT !.names = g]
      BY <2>1, <3>2 DEF SetName, Solid
    <3> QED
      BY <3>3, <3>4, <3>5
  <2>3. Solid(v) /\ \A k \in Named \ {prog[i].path} : v.names[k] = w.names[k]
    BY <1>1, <2>1, OneNameMoves
  <2> QED
    BY <1>1, <2>2, <2>3 DEF OthersKept
<1>8. CASE op = "relink"
  <2>1. PICK v : v = SetName(w, prog[i].path, w.names[i])
    OBVIOUS
  <2>2. Apply(prog, w, op, i) = v
    BY <1>8, <2>1, ApplyBinds
  <2>3. Solid(v) /\ \A k \in Named \ {prog[i].path} : v.names[k] = w.names[k]
    BY <1>1, <1>2, <2>1, OneNameMoves
  <2> QED
    BY <1>1, <2>2, <2>3 DEF OthersKept
<1>9. CASE op = "drop_destination"
  <2>1. PICK v : v = SetName(w, prog[i].dest, NoObj)
    OBVIOUS
  <2>2. Apply(prog, w, op, i) = v
    BY <1>9, <2>1, ApplyBinds
  <2>3. Solid(v) /\ \A k \in Named \ {prog[i].dest} : v.names[k] = w.names[k]
    BY <1>1, <1>2, <2>1, OneNameMoves
  <2> QED
    BY <1>1, <2>2, <2>3 DEF OthersKept
<1>10. CASE op = "rmdir_live"
  <2>1. PICK v : v = SetName(w, prog[i].path, NoObj)
    OBVIOUS
  <2>2. Apply(prog, w, op, i) = v
    BY <1>10, <2>1, ApplyBinds
  <2>3. Solid(v) /\ \A k \in Named \ {prog[i].path} : v.names[k] = w.names[k]
    BY <1>1, <1>2, <2>1, OneNameMoves
  <2> QED
    BY <1>1, <2>2, <2>3 DEF OthersKept
<1>11. CASE op = "drop"
  <2>1. PICK v : v = SetName(w, i, NoObj)
    OBVIOUS
  <2>2. Apply(prog, w, op, i) = v
    BY <1>11, <2>1, ApplyBinds
  <2>3. Solid(v) /\ \A k \in Named \ {i} : v.names[k] = w.names[k]
    BY <1>1, <1>2, <2>1, OneNameMoves
  <2> QED
    BY <1>1, <2>2, <2>3 DEF OthersKept
<1> QED
  BY <1>3, <1>4, <1>5, <1>6, <1>7, <1>8, <1>9, <1>10, <1>11, SettlementOpsAre

(* What ends a plan of an effect empties its scratch slot: it removes the  *)
(* entry, or renames it back.                                              *)
LEMMA LastOpClears ==
  ASSUME NEW prog, NEW w, Solid(w), NEW i \in Effects, WellFormed(prog[i]),
         NEW op \in {"drop", "restore"}
  PROVE  Free(Apply(prog, w, op, i), i)
<1>1. prog[i].path \in Named /\ prog[i].path # i /\ i \in Named
  BY SlotsApart DEF WellFormed, Touches, Named
<1>2. CASE op = "drop"
  <2>1. Apply(prog, w, op, i) = SetName(w, i, NoObj)
    BY <1>2, ApplyBinds
  <2>2. SetName(w, i, NoObj).names[i] = NoObj
    BY <1>1, OneNameMoves
  <2> QED
    BY <2>1, <2>2 DEF Free
<1>3. CASE op = "restore"
  <2>1. Apply(prog, w, op, i) = SetNames(w, prog[i].path, w.names[i], i, NoObj)
    BY <1>3, ApplyBinds
  <2>2. SetNames(w, prog[i].path, w.names[i], i, NoObj).names[i] = NoObj
    BY <1>1, TwoNamesMove
  <2> QED
    BY <2>1, <2>2 DEF Free
<1> QED
  BY <1>2, <1>3

\* A removal of the live directory leaves the scratch slot alone.
LEMMA RemovalKeepsScratch ==
  ASSUME NEW prog, NEW w, Solid(w), NEW i \in Effects, WellFormed(prog[i])
  PROVE  Free(w, i) => Free(Apply(prog, w, "rmdir_live", i), i)
<1>1. prog[i].path \in Named /\ prog[i].path # i /\ i \in Named
  BY SlotsApart DEF WellFormed, Touches, Named
<1>2. Apply(prog, w, "rmdir_live", i) = SetName(w, prog[i].path, NoObj)
  BY ApplyBinds
<1>3. SetName(w, prog[i].path, NoObj).names[i] = w.names[i]
  BY <1>1, OneNameMoves
<1> QED
  BY <1>2, <1>3 DEF Free

-----------------------------------------------------------------------------
(* What classification decides about an effect empties its scratch slot,   *)
(* or finds it empty.                                                      *)

Emptying(ops, empty) ==
  \/ ops = <<>> /\ empty
  \/ ops = <<"rmdir_live">> /\ empty
  \/ ops = <<"drop">>
  \/ ops = <<"restore">>
  \/ \E x \in SettlementOps : ops = <<x, "drop">>
  \/ ops = <<"drop", "rmdir_live">>

EmptyingRow(r) == \A key \in r[1] : ~r[2].halt => Emptying(r[2].ops, key[3] = "absent")

\* A row that removes or renames the scratch entry.
LEMMA RowsEmpty ==
  ASSUME NEW j, NEW live, NEW scratch, NEW decision,
         Emptying(decision.ops, scratch = {"absent"})
  PROVE  EmptyingRow(On(j, live, scratch, decision))
<1>1. ASSUME NEW key \in On(j, live, scratch, decision)[1], scratch = {"absent"}
      PROVE  key[3] = "absent"
  BY <1>1 DEF On
<1> QED
  BY <1>1 DEF EmptyingRow, Emptying, On

\* Every row of the tables of file effects is such a row.
LEMMA TablesEmpty ==
  \A r \in ReplaceRows \cup NoopReplaceRows \cup CreateRows \cup DeleteRows : EmptyingRow(r)
<1> USE SettlementOpsAre DEF Emptying, Undo, Refuse
<1>1. \A r \in ReplaceRows : EmptyingRow(r)
  BY RowsEmpty DEF ReplaceRows
<1>2. \A r \in NoopReplaceRows : EmptyingRow(r)
  BY RowsEmpty DEF NoopReplaceRows
<1>3. \A r \in CreateRows : EmptyingRow(r)
  BY RowsEmpty DEF CreateRows
<1>4. \A r \in DeleteRows : EmptyingRow(r)
  BY RowsEmpty DEF DeleteRows
<1> QED
  BY <1>1, <1>2, <1>3, <1>4

\* A decision of a table is a row of it, or a halt.
LEMMA DecideEmpties ==
  ASSUME NEW rows, \A r \in rows : EmptyingRow(r), NEW key, ~Decide(rows, key).halt
  PROVE  Emptying(Decide(rows, key).ops, key[3] = "absent")
<1>1. PICK r \in rows : key \in r[1] /\ Decide(rows, key) = r[2]
  BY DEF Decide, Halt
<1> QED
  BY <1>1 DEF EmptyingRow

\* Only an absent entry is classified as absent.
LEMMA ClassAbsent ==
  ASSUME NEW st, NEW pre, NEW post, NEW prefix
  PROVE  EntryClass(st, pre, post, prefix) = "absent" <=> st = "absent"
BY DEF EntryClass

\* The decision about a file.
LEMMA FileEmpties ==
  ASSUME NEW prog, NEW w, NEW j, NEW i,
         prog[i].kind \in {"replace", "create", "delete"},
         ~FileDecision(prog, w, j, i).halt
  PROVE  Emptying(FileDecision(prog, w, j, i).ops, At(w, i) = "absent")
<1>1. PICK live, scratch, rows :
        /\ scratch = EntryClass(At(w, i), prog[i].pre, prog[i].post, PartlyBuilt(prog, w, j, i))
        /\ rows \in {ReplaceRows, NoopReplaceRows, CreateRows, DeleteRows}
        /\ FileDecision(prog, w, j, i) = Decide(rows, <<j[i], live, scratch>>)
  BY DEF FileDecision
<1>2. \A r \in rows : EmptyingRow(r)
  BY <1>1, TablesEmpty
<1>3. scratch = "absent" <=> At(w, i) = "absent"
  BY <1>1, ClassAbsent
<1>4. PICK key : key = <<j[i], live, scratch>>
  OBVIOUS
<1>5. Emptying(FileDecision(prog, w, j, i).ops, key[3] = "absent")
  BY <1>1, <1>2, <1>4, DecideEmpties
<1> QED
  BY <1>3, <1>4, <1>5 DEF Emptying

\* The decision about a move.
LEMMA MoveEmpties ==
  ASSUME NEW prog, NEW w, NEW j, NEW i, ~MoveDecision(prog, w, j, i).halt
  PROVE  Emptying(MoveDecision(prog, w, j, i).ops, At(w, i) = "absent")
<1>1. PICK d : d = MoveDecision(prog, w, j, i)
  OBVIOUS
<1>2. \/ d \in {Undo(<<"move_back", "drop">>), Undo(<<"drop_destination", "drop">>),
                Undo(<<"relink", "drop">>)}
      \/ d \in {Undo(<<"drop">>), Refuse(<<"drop">>)}
      \/ d = Undo(<<>>) /\ EntryClass(At(w, i), prog[i].pre, prog[i].pre, FALSE) = "absent"
  BY <1>1 DEF MoveDecision, Halt
<1>3. CASE d \in {Undo(<<"move_back", "drop">>), Undo(<<"drop_destination", "drop">>),
                  Undo(<<"relink", "drop">>)}
  <2>1. PICK x \in SettlementOps : d.ops = <<x, "drop">>
    BY <1>3, SettlementOpsAre DEF Undo
  <2> QED
    BY <1>1, <2>1 DEF Emptying
<1>4. CASE d \in {Undo(<<"drop">>), Refuse(<<"drop">>)}
  BY <1>1, <1>4 DEF Emptying, Undo, Refuse
<1>5. CASE d = Undo(<<>>) /\ EntryClass(At(w, i), prog[i].pre, prog[i].pre, FALSE) = "absent"
  <2>1. At(w, i) = "absent"
    BY <1>5 DEF EntryClass
  <2> QED
    BY <1>1, <1>5, <2>1 DEF Emptying, Undo
<1> QED
  BY <1>2, <1>3, <1>4, <1>5

\* The decision about a directory.
LEMMA DirectoryEmpties ==
  ASSUME NEW prog, NEW w, NEW j, NEW i, ~DirectoryDecision(prog, w, j, i).halt
  PROVE  Emptying(DirectoryDecision(prog, w, j, i).ops, At(w, i) = "absent")
<1>1. DirectoryDecision(prog, w, j, i) # Halt
  BY DEF Halt
<1>2. CASE At(w, i) = "absent"
  <2>1. DirectoryDecision(prog, w, j, i) \in
          {Undo(<<"drop">>), Refuse(<<"drop">>), Undo(<<"drop", "rmdir_live">>),
           Undo(<<>>), Undo(<<"rmdir_live">>), Halt}
    BY DEF DirectoryDecision
  <2> QED
    BY <1>1, <1>2, <2>1 DEF Emptying, Undo, Refuse
<1>3. CASE At(w, i) # "absent"
  <2>1. EntryClass(At(w, i), "absent", prog[i].post, FALSE) # "absent"
    BY <1>3 DEF EntryClass
  <2>2. DirectoryDecision(prog, w, j, i) \in
          {Undo(<<"drop">>), Refuse(<<"drop">>), Undo(<<"drop", "rmdir_live">>), Halt}
    BY <2>1 DEF DirectoryDecision
  <2> QED
    BY <1>1, <2>2 DEF Emptying, Undo, Refuse
<1> QED
  BY <1>2, <1>3

\* The decision about any effect, begun or not.
LEMMA ClassifiedEmpties ==
  ASSUME NEW prog, NEW w, NEW j, NEW i, prog[i].kind \in Kinds,
         ~ClassifyEffect(prog, w, j, i).halt
  PROVE  Emptying(ClassifyEffect(prog, w, j, i).ops, At(w, i) = "absent")
<1>1. CASE j[i] \in Unwound
  <2>1. ClassifyEffect(prog, w, j, i) \in {Halt, Undo(<<>>), Refuse(<<>>)}
        /\ (ClassifyEffect(prog, w, j, i) # Halt => At(w, i) = "absent")
    BY <1>1 DEF ClassifyEffect, Unwound, Halt, Undo, Refuse
  <2> QED
    BY <2>1 DEF Emptying, Halt, Undo, Refuse
<1>2. CASE j[i] \notin Unwound
  <2>1. ClassifyEffect(prog, w, j, i) =
          IF prog[i].kind = "move" THEN MoveDecision(prog, w, j, i)
          ELSE IF prog[i].kind = "mkdir" THEN DirectoryDecision(prog, w, j, i)
          ELSE FileDecision(prog, w, j, i)
    BY <1>2 DEF ClassifyEffect, Unwound
  <2> QED
    BY <2>1, MoveEmpties, DirectoryEmpties, FileEmpties DEF Kinds
<1> QED
  BY <1>1, <1>2
-----------------------------------------------------------------------------
(* The steps that are bound to the decision, by the world they project.    *)

BoundWorlds(prog, w, i, ops) ==
  CHOOSE f : f = [k \in 0..Len(ops) |-> IF k = 0 THEN w ELSE Apply(prog, f[k - 1], ops[k], i)]

\* The step at k, between the worlds before and after it.
BoundStep(prog, worlds, slots, ops, k) ==
  [op |-> ops[k], slots |-> slots,
   before |-> Joint(prog, worlds[k - 1], slots), after |-> Joint(prog, worlds[k], slots)]

\* What binding returns, by its worlds.
LEMMA BindUnfolds ==
  ASSUME NEW prog, NEW w, NEW i, NEW slots, NEW ops
  PROVE  BindSteps(prog, w, i, slots, ops) =
           [steps |-> [k \in 1..Len(ops) |->
                         BoundStep(prog, BoundWorlds(prog, w, i, ops), slots, ops, k)],
            world |-> BoundWorlds(prog, w, i, ops)[Len(ops)]]
BY DEF BindSteps, BoundWorlds, BoundStep

\* An effect without mutations.
LEMMA BoundNone ==
  ASSUME NEW prog, NEW w, NEW i
  PROVE  BoundWorlds(prog, w, i, <<>>)[0] = w
<1> DEFINE S(f) == [k \in 0..Len(<<>>) |->
                      IF k = 0 THEN w ELSE Apply(prog, f[k - 1], <<>>[k], i)]
           g == [k \in 0..0 |-> w]
<1>1. Len(<<>>) = 0
  OBVIOUS
<1>2. g = S(g)
  BY <1>1
<1>3. BoundWorlds(prog, w, i, <<>>) = S(BoundWorlds(prog, w, i, <<>>))
  BY <1>2 DEF BoundWorlds
<1> QED
  BY <1>1, <1>3

\* An effect with one mutation.
LEMMA BoundOne ==
  ASSUME NEW prog, NEW w, NEW i, NEW x
  PROVE  /\ BoundWorlds(prog, w, i, <<x>>)[0] = w
         /\ BoundWorlds(prog, w, i, <<x>>)[1] = Apply(prog, w, x, i)
<1> DEFINE S(f) == [k \in 0..Len(<<x>>) |->
                      IF k = 0 THEN w ELSE Apply(prog, f[k - 1], <<x>>[k], i)]
           g == [k \in 0..1 |-> IF k = 0 THEN w ELSE Apply(prog, w, x, i)]
<1>1. Len(<<x>>) = 1 /\ <<x>>[1] = x
  OBVIOUS
<1>2. g = S(g)
  <2>1. ASSUME NEW k \in 0..1 PROVE g[k] = S(g)[k]
    BY <1>1
  <2> QED
    BY <1>1, <2>1
<1>3. BoundWorlds(prog, w, i, <<x>>) = S(BoundWorlds(prog, w, i, <<x>>))
  BY <1>2 DEF BoundWorlds
<1> HIDE DEF g
<1> QED
  BY <1>1, <1>3

\* An effect with two mutations.
LEMMA BoundTwo ==
  ASSUME NEW prog, NEW w, NEW i, NEW x, NEW y
  PROVE  /\ BoundWorlds(prog, w, i, <<x, y>>)[0] = w
         /\ BoundWorlds(prog, w, i, <<x, y>>)[1] = Apply(prog, w, x, i)
         /\ BoundWorlds(prog, w, i, <<x, y>>)[2] = Apply(prog, Apply(prog, w, x, i), y, i)
<1> DEFINE S(f) == [k \in 0..Len(<<x, y>>) |->
                      IF k = 0 THEN w ELSE Apply(prog, f[k - 1], <<x, y>>[k], i)]
           g == [k \in 0..2 |-> IF k = 0 THEN w ELSE IF k = 1 THEN Apply(prog, w, x, i)
                                ELSE Apply(prog, Apply(prog, w, x, i), y, i)]
<1>1. Len(<<x, y>>) = 2 /\ <<x, y>>[1] = x /\ <<x, y>>[2] = y
  OBVIOUS
<1>2. g = S(g)
  <2>1. ASSUME NEW k \in 0..2 PROVE g[k] = S(g)[k]
    BY <1>1
  <2> QED
    BY <1>1, <2>1
<1>3. BoundWorlds(prog, w, i, <<x, y>>) = S(BoundWorlds(prog, w, i, <<x, y>>))
  BY <1>2 DEF BoundWorlds
<1> HIDE DEF g
<1> QED
  BY <1>1, <1>3

(* A planned step that leaves the scratch slot of its effect empty, and a  *)
(* plan of an effect that ends in one or finds the slot empty.             *)
Clears(s, i) == s.op \in SettlementOps /\ i \in s.slots /\ s.after.states[i] = "absent"

Clearing(planned, w, i) ==
  \/ planned = <<>> /\ Free(w, i)
  \/ planned = <<planned[1]>> /\ Clears(planned[1], i)
  \/ /\ planned = <<planned[1], planned[2]>>
     /\ planned[1].op \in SettlementOps /\ Clears(planned[2], i)

\* A step into a world where the slot is free.
LEMMA StepClears ==
  ASSUME NEW prog, NEW worlds, NEW slots, NEW ops, NEW k, NEW i \in slots,
         Free(worlds[k], i), ops[k] \in SettlementOps
  PROVE  Clears(BoundStep(prog, worlds, slots, ops, k), i)
BY DEF Clears, BoundStep, Joint, Free, At

(* The steps of a decision that empties the scratch slot do so, and leave  *)
(* the other effects' alone.                                               *)
LEMMA BoundClears ==
  ASSUME NEW prog, NEW w, Solid(w), NEW i \in Effects, WellFormed(prog[i]),
         NEW slots, i \in slots, NEW ops, Emptying(ops, At(w, i) = "absent")
  PROVE  /\ Clearing(BindSteps(prog, w, i, slots, ops).steps, w, i)
         /\ Solid(BindSteps(prog, w, i, slots, ops).world)
         /\ OthersKept(w, BindSteps(prog, w, i, slots, ops).world, i)
<1>1. PICK b : b = BindSteps(prog, w, i, slots, ops)
  OBVIOUS
<1>2. PICK worlds : worlds = BoundWorlds(prog, w, i, ops)
  OBVIOUS
<1>3. /\ b.steps = [k \in 1..Len(ops) |-> BoundStep(prog, worlds, slots, ops, k)]
      /\ b.world = worlds[Len(ops)]
  BY <1>1, <1>2, BindUnfolds
<1>4. CASE ops = <<>> /\ At(w, i) = "absent"
  <2>1. b.steps = <<>> /\ b.world = w
    BY <1>2, <1>3, <1>4, BoundNone
  <2>2. Free(w, i)
    BY <1>4, FreeIsAbsent, SlotsApart
  <2> QED
    BY <1>1, <2>1, <2>2 DEF Clearing, OthersKept
<1>5. ASSUME NEW x \in SettlementOps, ops = <<x>>, Free(Apply(prog, w, x, i), i)
      PROVE  Clearing(b.steps, w, i) /\ Solid(b.world) /\ OthersKept(w, b.world, i)
  <2>1. b.world = Apply(prog, w, x, i) /\ worlds[1] = Apply(prog, w, x, i)
    BY <1>2, <1>3, <1>5, BoundOne
  <2>2. b.steps = <<BoundStep(prog, worlds, slots, ops, 1)>>
    BY <1>3, <1>5
  <2>3. ops[1] \in SettlementOps
    BY <1>5
  <2>4. Clears(BoundStep(prog, worlds, slots, ops, 1), i)
    BY <1>5, <2>1, <2>3, StepClears
  <2> QED
    BY <2>1, <2>2, <2>4, ApplyKeeps DEF Clearing
<1>6. ASSUME NEW x \in SettlementOps, NEW y \in SettlementOps, ops = <<x, y>>,
             Free(Apply(prog, Apply(prog, w, x, i), y, i), i)
      PROVE  Clearing(b.steps, w, i) /\ Solid(b.world) /\ OthersKept(w, b.world, i)
  <2>1. PICK v : v = Apply(prog, w, x, i)
    OBVIOUS
  <2>2. b.world = Apply(prog, v, y, i) /\ worlds[2] = Apply(prog, v, y, i)
    BY <1>2, <1>3, <1>6, <2>1, BoundTwo
  <2>3. b.steps = <<BoundStep(prog, worlds, slots, ops, 1), BoundStep(prog, worlds, slots, ops, 2)>>
    BY <1>3, <1>6
  <2>4. ops[1] \in SettlementOps /\ ops[2] \in SettlementOps
    BY <1>6
  <2>5. Clears(BoundStep(prog, worlds, slots, ops, 2), i)
    BY <1>6, <2>1, <2>2, <2>4, StepClears
  <2>6. BoundStep(prog, worlds, slots, ops, 1).op \in SettlementOps
    BY <2>4 DEF BoundStep
  <2>7. Solid(v) /\ OthersKept(w, v, i)
    BY <2>1, ApplyKeeps
  <2>8. Solid(b.world) /\ OthersKept(v, b.world, i)
    BY <2>2, <2>7, ApplyKeeps
  <2> QED
    BY <2>3, <2>5, <2>6, <2>7, <2>8 DEF Clearing, OthersKept
<1>7. CASE ops = <<"rmdir_live">> /\ At(w, i) = "absent"
  <2>1. Free(Apply(prog, w, "rmdir_live", i), i)
    BY <1>7, FreeIsAbsent, SlotsApart, RemovalKeepsScratch
  <2> QED
    BY <1>1, <1>5, <1>7, <2>1, SettlementOpsAre
<1>8. ASSUME NEW x \in {"drop", "restore"}, ops = <<x>>
      PROVE  Clearing(b.steps, w, i) /\ Solid(b.world) /\ OthersKept(w, b.world, i)
  BY <1>5, <1>8, LastOpClears, SettlementOpsAre
<1>9. ASSUME NEW x \in SettlementOps, ops = <<x, "drop">>
      PROVE  Clearing(b.steps, w, i) /\ Solid(b.world) /\ OthersKept(w, b.world, i)
  <2>1. PICK v : v = Apply(prog, w, x, i)
    OBVIOUS
  <2>2. Solid(v)
    BY <2>1, ApplyKeeps
  <2>3. Free(Apply(prog, v, "drop", i), i)
    BY <2>2, LastOpClears
  <2> QED
    BY <1>6, <1>9, <2>1, <2>3, SettlementOpsAre
<1>10. CASE ops = <<"drop", "rmdir_live">>
  <2>1. PICK v : v = Apply(prog, w, "drop", i)
    OBVIOUS
  <2>2. Solid(v) /\ Free(v, i)
    BY <2>1, ApplyKeeps, LastOpClears, SettlementOpsAre
  <2>3. Free(Apply(prog, v, "rmdir_live", i), i)
    BY <2>2, RemovalKeepsScratch
  <2>4. "drop" \in SettlementOps /\ "rmdir_live" \in SettlementOps
    BY SettlementOpsAre
  <2>5. Free(Apply(prog, Apply(prog, w, "drop", i), "rmdir_live", i), i)
    BY <2>1, <2>3
  <2> QED
    BY <1>1, <1>6, <1>10, <2>4, <2>5
<1> QED
  BY <1>1, <1>4, <1>7, <1>8, <1>9, <1>10 DEF Emptying

-----------------------------------------------------------------------------
(* The rollback plan, effect by effect from the last to the first.         *)

PlanStart(w, j) == [world |-> w, j |-> j, halt |-> FALSE, refused |-> FALSE, steps |-> NoSteps]

PlanStep(prog, c, k) ==
  LET i == N + 1 - k
      d == ClassifyEffect(prog, c.world, c.j, i)
      bound == BindSteps(prog, c.world, i, EffectSlots(prog, i), d.ops)
  IN IF c.halt THEN c
     ELSE [world |-> bound.world,
           j |-> [c.j EXCEPT ![i] = IF @ = "pending" THEN @ ELSE "undone"],
           halt |-> d.halt,
           refused |-> c.refused \/ d.refused,
           steps |-> [c.steps EXCEPT ![i] = bound.steps]]

IsCursor(prog, w, j, n, f) ==
  f = [k \in 0..n |-> IF k = 0 THEN PlanStart(w, j) ELSE PlanStep(prog, f[k - 1], k)]

PlanCursor(prog, w, j) == CHOOSE f : IsCursor(prog, w, j, N, f)

\* The plan is where the cursor ends.
LEMMA PlanIsCursor ==
  ASSUME NEW prog, NEW w, NEW j
  PROVE  RollbackPlan(prog, w, j) = PlanCursor(prog, w, j)[N]
BY DEF RollbackPlan, PlanCursor, IsCursor, PlanStart, PlanStep

\* There is a cursor up to any effect.
LEMMA CursorExists ==
  ASSUME NEW prog, NEW w, NEW j, NEW n \in Nat
  PROVE  \E f : IsCursor(prog, w, j, n, f)
<1> DEFINE S == {m \in Nat : \E f : IsCursor(prog, w, j, m, f)}
<1>1. 0 \in S
  <2>1. PICK f : f = [k \in 0..0 |-> PlanStart(w, j)]
    OBVIOUS
  <2>2. f = [k \in 0..0 |-> IF k = 0 THEN PlanStart(w, j) ELSE PlanStep(prog, f[k - 1], k)]
    BY <2>1
  <2> QED
    BY <2>2 DEF IsCursor
<1>2. ASSUME NEW m \in Nat, m \in S PROVE m + 1 \in S
  <2>1. PICK f : f = [k \in 0..m |-> IF k = 0 THEN PlanStart(w, j)
                                     ELSE PlanStep(prog, f[k - 1], k)]
    BY <1>2 DEF IsCursor
  <2>2. PICK g : g = [k \in 0..(m + 1) |-> IF k = m + 1 THEN PlanStep(prog, f[m], m + 1) ELSE f[k]]
    OBVIOUS
  <2>3. ASSUME NEW k \in 0..(m + 1)
        PROVE  g[k] = IF k = 0 THEN PlanStart(w, j) ELSE PlanStep(prog, g[k - 1], k)
    <3>1. CASE k = m + 1
      <4>1. g[k] = PlanStep(prog, f[m], m + 1) /\ g[k - 1] = f[m]
        BY <2>2, <3>1
      <4> QED
        BY <3>1, <4>1
    <3>2. CASE k # m + 1
      <4>1. k \in 0..m /\ g[k] = f[k]
        BY <2>2, <3>2
      <4>2. k # 0 => g[k - 1] = f[k - 1]
        BY <2>2, <4>1
      <4>3. f[k] = IF k = 0 THEN PlanStart(w, j) ELSE PlanStep(prog, f[k - 1], k)
        BY <2>1, <4>1
      <4> QED
        BY <4>1, <4>2, <4>3
    <3> QED
      BY <3>1, <3>2
  <2>4. g = [k \in 0..(m + 1) |-> IF k = 0 THEN PlanStart(w, j) ELSE PlanStep(prog, g[k - 1], k)]
    BY <2>2, <2>3
  <2> QED
    BY <2>4 DEF IsCursor
<1>3. n \in S
  <2> HIDE DEF S
  <2> QED
    BY <1>1, <1>2, SetInduction
<1> QED
  BY <1>3

\* The cursor at the start, and after one more effect.
LEMMA CursorMoves ==
  ASSUME NEW prog, NEW w, NEW j
  PROVE  /\ PlanCursor(prog, w, j)[0] = PlanStart(w, j)
         /\ \A k \in Effects :
              PlanCursor(prog, w, j)[k] = PlanStep(prog, PlanCursor(prog, w, j)[k - 1], k)
<1>1. N \in Nat /\ 0 \in 0..N /\ Effects \subseteq 0..N /\ 0 \notin Effects
  BY NAssumption DEF Effects
<1>2. PICK c : c = PlanCursor(prog, w, j)
  OBVIOUS
<1>3. c = [k \in 0..N |-> IF k = 0 THEN PlanStart(w, j) ELSE PlanStep(prog, c[k - 1], k)]
  <2>1. \E f : IsCursor(prog, w, j, N, f)
    BY <1>1, CursorExists
  <2>2. IsCursor(prog, w, j, N, c)
    BY <1>2, <2>1 DEF PlanCursor
  <2> QED
    BY <2>2 DEF IsCursor
<1> QED
  BY <1>1, <1>2, <1>3

(* The plan so far: the effects behind m are decided, and their scratch    *)
(* slots emptied; the slots of the others are as they were found.          *)
PlannedTo(w, c, m) ==
  ~c.halt =>
    /\ Solid(c.world)
    /\ c.steps = [i \in Effects |-> c.steps[i]]
    /\ \A i \in Effects : i <= m => c.world.names[i] = w.names[i]
    /\ \A i \in Effects : i > m => Clearing(c.steps[i], w, i)

\* One more effect is decided.
LEMMA PlanStepClears ==
  ASSUME NEW prog, \A i \in Effects : WellFormed(prog[i]), NEW w, NEW c, NEW k \in Effects,
         PlannedTo(w, c, N + 1 - k)
  PROVE  PlannedTo(w, PlanStep(prog, c, k), N - k)
<1>1. PICK i : i = N + 1 - k
  OBVIOUS
<1>2. i \in Effects /\ N - k = i - 1 /\ k \in Nat
  BY <1>1, NAssumption DEF Effects
<1>3. PICK d : d = ClassifyEffect(prog, c.world, c.j, i)
  OBVIOUS
<1>4. PICK b : b = BindSteps(prog, c.world, i, EffectSlots(prog, i), d.ops)
  OBVIOUS
<1>5. CASE c.halt
  BY <1>5 DEF PlanStep, PlannedTo
<1>6. CASE ~c.halt
  <2>1. PICK e : e = PlanStep(prog, c, k)
    OBVIOUS
  <2>2. /\ e.world = b.world /\ e.halt = d.halt
        /\ e.steps = [c.steps EXCEPT ![i] = b.steps]
    BY <1>1, <1>3, <1>4, <1>6, <2>1 DEF PlanStep
  <2>3. /\ Solid(c.world) /\ c.steps = [x \in Effects |-> c.steps[x]]
        /\ \A x \in Effects : x <= i => c.world.names[x] = w.names[x]
        /\ \A x \in Effects : x > i => Clearing(c.steps[x], w, x)
    BY <1>1, <1>6 DEF PlannedTo
  <2>4. SUFFICES ASSUME ~d.halt PROVE PlannedTo(w, e, i - 1)
    BY <1>2, <2>1, <2>2 DEF PlannedTo
  <2>5. Emptying(d.ops, At(c.world, i) = "absent")
    BY <1>2, <1>3, <2>4, ClassifiedEmpties DEF WellFormed
  <2>6. i \in EffectSlots(prog, i)
    BY DEF EffectSlots
  <2>7. Clearing(b.steps, c.world, i) /\ Solid(b.world) /\ OthersKept(c.world, b.world, i)
    BY <1>2, <1>4, <2>3, <2>5, <2>6, BoundClears
  <2>8. Clearing(b.steps, w, i)
    BY <1>2, <2>3, <2>7 DEF Clearing, Free, Effects
  <2>9. e.steps = [x \in Effects |-> e.steps[x]]
        /\ e.steps[i] = b.steps /\ \A x \in Effects \ {i} : e.steps[x] = c.steps[x]
    BY <1>2, <2>2, <2>3
  <2>10. \A x \in Effects : x <= i - 1 => x # i /\ x <= i /\ e.world.names[x] = c.world.names[x]
    BY <1>2, <2>2, <2>7 DEF OthersKept, Effects
  <2>11. \A x \in Effects : x > i - 1 => x = i \/ x > i
    BY <1>2 DEF Effects
  <2> QED
    BY <1>2, <2>2, <2>3, <2>7, <2>8, <2>9, <2>10, <2>11 DEF PlannedTo
<1> QED
  BY <1>5, <1>6

(* Whatever a rollback plan does, every scratch slot is free or emptied by *)
(* the last step planned for its effect (_rollback_plan).                  *)
LEMMA RollbackPlanClears ==
  ASSUME NEW prog, \A i \in Effects : WellFormed(prog[i]), NEW w, Solid(w), NEW j,
         ~RollbackPlan(prog, w, j).halt
  PROVE  /\ RollbackPlan(prog, w, j).steps = [i \in Effects |-> RollbackPlan(prog, w, j).steps[i]]
         /\ \A i \in Effects : Clearing(RollbackPlan(prog, w, j).steps[i], w, i)
<1>1. PICK c : c = PlanCursor(prog, w, j)
  OBVIOUS
<1> DEFINE S == {k \in Nat : k <= N => PlannedTo(w, c[k], N - k)}
<1>2. 0 \in S
  <2>1. c[0] = PlanStart(w, j)
    BY <1>1, CursorMoves
  <2>2. \A i \in Effects : ~(i > N - 0)
    BY NAssumption DEF Effects
  <2>3. PlannedTo(w, PlanStart(w, j), N - 0)
    BY <2>2 DEF PlanStart, PlannedTo, NoSteps
  <2> QED
    BY <2>1, <2>3
<1>3. ASSUME NEW k \in Nat, k \in S PROVE k + 1 \in S
  <2>1. SUFFICES ASSUME k + 1 <= N PROVE PlannedTo(w, c[k + 1], N - (k + 1))
    OBVIOUS
  <2>2. k + 1 \in Effects /\ k = (k + 1) - 1 /\ N + 1 - (k + 1) = N - k /\ k <= N
    BY <2>1, NAssumption DEF Effects
  <2>3. PlannedTo(w, c[k], N - k)
    BY <1>3, <2>2
  <2>4. c[k + 1] = PlanStep(prog, c[k], k + 1)
    BY <1>1, <2>2, CursorMoves
  <2>5. PICK m : m = k + 1
    OBVIOUS
  <2> QED
    BY <2>2, <2>3, <2>4, <2>5, PlanStepClears
<1>4. N \in S
  <2> HIDE DEF S
  <2> QED
    BY <1>2, <1>3, NAssumption, SetInduction
<1>5. PlannedTo(w, RollbackPlan(prog, w, j), 0)
  BY <1>1, <1>4, NAssumption, PlanIsCursor
<1>6. \A i \in Effects : i > 0
  BY DEF Effects
<1> QED
  BY <1>5, <1>6 DEF PlannedTo

(* The same of the plan of cleanup, whose steps remove scratch entries     *)
(* (_committed_plan).                                                      *)
LEMMA CommittedPlanClears ==
  ASSUME NEW prog, \A i \in Effects : WellFormed(prog[i]), NEW w, Solid(w),
         ~CommittedPlan(prog, w).halt
  PROVE  /\ CommittedPlan(prog, w).steps = [i \in Effects |-> CommittedPlan(prog, w).steps[i]]
         /\ \A i \in Effects : Clearing(CommittedPlan(prog, w).steps[i], w, i)
<1> SUFFICES ASSUME NEW i \in Effects
             PROVE  Clearing(CommittedPlan(prog, w).steps[i], w, i)
  BY DEF CommittedPlan
<1>1. PICK d : d = CleanupDecision(prog, w, i)
  OBVIOUS
<1>2. ~d.halt
  BY <1>1 DEF CommittedPlan
<1>3. Emptying(d.ops, At(w, i) = "absent")
  BY <1>1, <1>2 DEF CleanupDecision, Emptying, Undo, Halt
<1>4. CommittedPlan(prog, w).steps[i] = BindSteps(prog, w, i, {i}, d.ops).steps
  BY <1>1 DEF CommittedPlan
<1>5. i \in {i}
  OBVIOUS
<1> QED
  BY <1>3, <1>4, <1>5, BoundClears
-----------------------------------------------------------------------------
(* What the system calls of an effect and the outside writer do to it.     *)

SetInode(v, o, st) == [v EXCEPT !.inode[o] = st]
NewObject(v, s, o, st) == [v EXCEPT !.names[s] = o, !.inode[o] = st]

\* A file is written to.
LEMMA InodeWritten ==
  ASSUME NEW v, Solid(v), NEW o \in Objects, NEW st, st # "absent"
  PROVE  Solid(SetInode(v, o, st)) /\ SetInode(v, o, st).names = v.names
<1>1. PICK g : g = [v.inode EXCEPT ![o] = st]
  OBVIOUS
<1>2. SetInode(v, o, st) = [names |-> v.names, inode |-> g, stuffed |-> v.stuffed]
  BY <1>1 DEF SetInode, Solid
<1>3. g = [x \in Objects |-> g[x]] /\ \A x \in Objects : g[x] = IF x = o THEN st ELSE v.inode[x]
  BY <1>1 DEF Solid
<1>4. \A s \in Named : v.names[s] # NoObj => v.names[s] \in Objects
  BY DEF Solid
<1> QED
  BY <1>2, <1>3, <1>4 DEF Solid

\* An object is made at a name.
LEMMA ObjectMade ==
  ASSUME NEW v, Solid(v), NEW s \in Named, NEW o \in Objects, NEW st, st # "absent"
  PROVE  /\ Solid(NewObject(v, s, o, st))
         /\ \A k \in Named \ {s} : NewObject(v, s, o, st).names[k] = v.names[k]
<1>1. PICK g : g = [v.inode EXCEPT ![o] = st]
  OBVIOUS
<1>2. PICK f : f = [v.names EXCEPT ![s] = o]
  OBVIOUS
<1>3. NewObject(v, s, o, st) = [names |-> f, inode |-> g, stuffed |-> v.stuffed]
  <2>1. [v EXCEPT !.names[s] = o]
          = [names |-> f, inode |-> v.inode, stuffed |-> v.stuffed]
    BY <1>2 DEF Solid
  <2>2. NewObject(v, s, o, st) = [[v EXCEPT !.names[s] = o] EXCEPT !.inode[o] = st]
    BY DEF NewObject
  <2> QED
    BY <1>1, <2>1, <2>2
<1>4. g = [x \in Objects |-> g[x]] /\ \A x \in Objects : g[x] = IF x = o THEN st ELSE v.inode[x]
  BY <1>1 DEF Solid
<1>5. /\ f \in [Named -> Objects \cup {NoObj}] /\ f[s] = o
      /\ \A k \in Named \ {s} : f[k] = v.names[k]
  BY <1>2 DEF Solid
<1>6. \A r \in Named : v.names[r] # NoObj => v.names[r] \in Objects
  BY DEF Solid
<1> QED
  BY <1>3, <1>4, <1>5, <1>6 DEF Solid

StageInv ==
  \A i \in Effects :
    /\ Applying(i, "building") => program[i].kind \in {"create", "replace"}
    /\ Applying(i, "built") => program[i].kind \in {"create", "replace", "mkdir"}
    /\ Applying(i, "undoing") => program[i].kind \in {"replace", "delete", "move"}

FilesOf(i) ==
  /\ pc = "apply" /\ journals[active][i] = "started"
  /\ UNCHANGED <<vars, program, steps, bounded>>
  /\ Solid(world') /\ OthersKept(world, world', i)
  /\ stage' = "building" => program[i].kind \in {"create", "replace"}
  /\ stage' = "built" => program[i].kind \in {"create", "replace", "mkdir"}
  /\ stage' = "undoing" => program[i].kind \in {"replace", "delete", "move"}

(* A system call of an effect leaves the world solid and the scratch slots *)
(* of the other effects alone, and builds only what is to be built.        *)
LEMMA ApplyEffectFiles ==
  ASSUME Solid(world), ProgramOK, StageInv, NEW i \in Effects, ApplyEffect(i)
  PROVE  FilesOf(i)
<1>1. /\ program[i].path \in Named /\ program[i].dest \in Named /\ i \in Named /\ i \in Objects
      /\ program[i].path # i /\ program[i].dest # i
      /\ \A k \in Effects : k \in Named /\ k # program[i].path /\ k # program[i].dest
  BY SlotsApart DEF ProgramOK, WellFormed, Touches, Named
<1>2. WellFormed(program[i])
  BY DEF ProgramOK
<1> USE DEF Work
<1>3. ASSUME NEW s, NEW w, NEW next, Applying(i, s), Solid(w), OthersKept(world, w, i),
             world' = w, stage' = next, UNCHANGED <<vars, program, steps>>, Rest,
             next = "building" => program[i].kind \in {"create", "replace"},
             next = "built" => program[i].kind \in {"create", "replace", "mkdir"},
             next = "undoing" => program[i].kind \in {"replace", "delete", "move"}
      PROVE  FilesOf(i)
  BY <1>3 DEF Applying, Rest, FilesOf
<1>4. Solid(world) /\ OthersKept(world, world, i)
  BY DEF OthersKept
<1>5. ASSUME NEW op \in SettlementOps
      PROVE  /\ Solid(Apply(program, world, op, i))
             /\ OthersKept(world, Apply(program, world, op, i), i)
  BY <1>2, ApplyKeeps
<1>6. CASE CreateStaging(i)
  <2>1. PICK st : st # "absent" /\ Work(Built(i, st), "building")
    BY <1>6 DEF CreateStaging, ProgramOK
  <2>2. Built(i, st) = NewObject(world, i, i, st)
    BY DEF Built, NewObject
  <2>3. Solid(Built(i, st)) /\ OthersKept(world, Built(i, st), i)
    BY <1>1, <2>1, <2>2, ObjectMade DEF OthersKept
  <2> QED
    BY <1>3, <1>6, <2>1, <2>3 DEF CreateStaging
<1>7. CASE WriteStaging(i)
  <2>1. PICK st : st = Raw[program[i].post]
    OBVIOUS
  <2>2. st # "absent"
    BY <1>7, <2>1 DEF WriteStaging, StageInv, ProgramOK
  <2>3. Solid(SetInode(world, i, st)) /\ OthersKept(world, SetInode(world, i, st), i)
    BY <1>1, <2>2, InodeWritten DEF OthersKept
  <2>4. Work(SetInode(world, i, st), "built") /\ Applying(i, "building")
    BY <1>7, <2>1 DEF WriteStaging, SetInode
  <2>5. program[i].kind \in {"create", "replace"}
    BY <2>4 DEF StageInv
  <2> QED
    BY <1>3, <2>3, <2>4, <2>5
<1>8. CASE MakeWork(i)
  <2>1. Built(i, "scaffold") = NewObject(world, i, i, "scaffold")
    BY DEF Built, NewObject
  <2>2. Solid(Built(i, "scaffold")) /\ OthersKept(world, Built(i, "scaffold"), i)
    BY <1>1, <2>1, ObjectMade DEF OthersKept
  <2> QED
    BY <1>3, <1>8, <2>2 DEF MakeWork
<1>9. CASE SetMode(i)
  <2>1. PICK st : st = program[i].post
    OBVIOUS
  <2>2. st # "absent"
    BY <1>9, <1>2, <2>1 DEF SetMode, StageInv, WellFormed
  <2>3. Solid(SetInode(world, i, st)) /\ OthersKept(world, SetInode(world, i, st), i)
    BY <1>1, <2>2, InodeWritten DEF OthersKept
  <2>4. Work(SetInode(world, i, st), "ready") /\ Applying(i, "built")
    BY <1>9, <2>1 DEF SetMode, SetInode
  <2> QED
    BY <1>3, <2>3, <2>4
<1>10. CASE LinkAnchor(i)
  <2>1. PICK w : w = SetName(world, i, world.names[program[i].path])
    OBVIOUS
  <2>2. Solid(w) /\ OthersKept(world, w, i)
    BY <1>1, <2>1, OneNameMoves DEF OthersKept
  <2>3. Applying(i, "begin") /\ (Work(world, "failed") \/ Work(w, "linked"))
    BY <1>10, <2>1 DEF LinkAnchor, SetName
  <2> QED
    BY <1>3, <1>4, <2>2, <2>3
<1>11. CASE CheckAnchor(i)
  BY <1>3, <1>4, <1>11 DEF CheckAnchor
<1>12. CASE Land(i)
  <2>1. PICK v : v = Rename(world, i, program[i].path)
    OBVIOUS
  <2>2. PICK u : u = Rename(world, program[i].path, i)
    OBVIOUS
  <2>3. PICK m : m = Rename(world, program[i].path, program[i].dest)
    OBVIOUS
  <2>4. Solid(v) /\ OthersKept(world, v, i)
    <3>1. v = SetNames(world, program[i].path, world.names[i], i, NoObj)
      BY <2>1 DEF Rename, SetNames
    <3> QED
      BY <1>1, <3>1, TwoNamesMove DEF OthersKept
  <2>5. Solid(u) /\ OthersKept(world, u, i)
    <3>1. u = SetNames(world, i, world.names[program[i].path], program[i].path, NoObj)
      BY <2>2 DEF Rename, SetNames
    <3> QED
      BY <1>1, <3>1, TwoNamesMove DEF OthersKept
  <2>6. ~Free(world, program[i].path) /\ Free(world, program[i].dest)
          => Solid(m) /\ OthersKept(world, m, i)
    <3>1. m = SetNames(world, program[i].dest, world.names[program[i].path], program[i].path, NoObj)
      BY <2>3 DEF Rename, SetNames
    <3> QED
      BY <1>1, <3>1, TwoNamesMove DEF OthersKept, Free
  <2>7. PICK x : x = Apply(program, world, "exchange", i)
    OBVIOUS
  <2>8. Solid(x) /\ OthersKept(world, x, i)
    BY <1>5, <2>7, SettlementOpsAre
  <2>9. PICK s : Applying(i, s)
    BY <1>12 DEF Land, ReadyToLand
  <2>10. \/ Work(v, "landed") \/ Work(u, "landed") \/ Work(x, "landed")
         \/ Work(m, "landed") /\ ~Free(world, program[i].path) /\ Free(world, program[i].dest)
         \/ Work(world, "refusing") \/ Work(world, "failed")
    BY <1>12, <2>1, <2>2, <2>3, <2>7 DEF Land
  <2> QED
    BY <1>3, <1>4, <2>4, <2>5, <2>6, <2>8, <2>9, <2>10
<1>13. CASE Verify(i)
  <2>1. PICK next \in {"verified", "failed", "undoing"} :
          /\ Work(world, next)
          /\ next = "undoing" => program[i].kind \notin {"create", "mkdir"}
    BY <1>13 DEF Verify
  <2>2. program[i].kind \in Kinds
    BY <1>2 DEF WellFormed
  <2> QED
    BY <1>3, <1>4, <1>13, <2>1, <2>2 DEF Verify, Kinds
<1>14. CASE Withdraw(i)
  <2>1. PICK w : w = SetName(world, i, NoObj)
    OBVIOUS
  <2>2. Solid(w) /\ OthersKept(world, w, i)
    BY <1>1, <2>1, OneNameMoves DEF OthersKept
  <2>3. Applying(i, "refusing") /\ Work(w, "failed")
    BY <1>14, <2>1 DEF Withdraw, Unlink, SetName
  <2> QED
    BY <1>3, <2>2, <2>3
<1>15. CASE UndoLanding(i)
  <2>1. Applying(i, "undoing") /\ program[i].kind \in {"replace", "delete", "move"}
    BY <1>15 DEF UndoLanding, StageInv
  <2>2. PICK op \in {"exchange", "restore", "move_back"} :
          Work(world, "failed") \/ Work(Apply(program, world, op, i), "failed")
    BY <1>15, <2>1 DEF UndoLanding
  <2>3. PICK w : w = Apply(program, world, op, i)
    OBVIOUS
  <2>4. Solid(w) /\ OthersKept(world, w, i)
    BY <1>5, <2>3, SettlementOpsAre
  <2> QED
    BY <1>3, <1>4, <2>1, <2>2, <2>3, <2>4
<1> QED
  BY <1>6, <1>7, <1>8, <1>9, <1>10, <1>11, <1>12, <1>13, <1>14, <1>15 DEF ApplyEffect

\* The slots of effects are out of the outside writer's reach.
LEMMA OutsideFiles ==
  ASSUME Solid(world), ProgramOK, outside \in 0..MaxOutside, Outside
  PROVE  /\ UNCHANGED <<vars, program, stage, steps>>
         /\ Solid(world') /\ outside' \in 0..MaxOutside
         /\ \A k \in Effects : world'.names[k] = world.names[k]
<1>1. PICK p \in Paths : \/ \E st \in OutsideStates : OutsideWrite(p, st) \/ OutsideEdit(p, st)
                         \/ OutsideRemove(p) \/ OutsideStuff(p)
  BY DEF Outside
<1>2. outside < MaxOutside /\ outside' = outside + 1 /\ UNCHANGED <<vars, program, stage, steps>>
  BY <1>1 DEF OutsideWrite, OutsideEdit, OutsideRemove, OutsideStuff, InReach, Meddle
<1>3. outside' \in 0..MaxOutside
  BY <1>2, BoundsAssumption
<1>4. p \in Named /\ \A k \in Effects : k \in Named \ {p}
  BY SlotsApart DEF Named
<1>5. ASSUME NEW st \in OutsideStates, OutsideWrite(p, st)
      PROVE  Solid(world') /\ \A k \in Effects : world'.names[k] = world.names[k]
  <2>1. PICK o : o = N + outside + 1
    OBVIOUS
  <2>2. o \in Objects
    BY <1>2, <2>1, BoundsAssumption, NAssumption DEF Objects
  <2>3. PICK w : w = NewObject(world, p, o, st)
    OBVIOUS
  <2>4. Solid(w) /\ \A k \in Named \ {p} : w.names[k] = world.names[k]
    BY <1>4, <2>2, <2>3, OutsideAssumption, ObjectMade
  <2>5. world' = w
    BY <1>5, <2>1, <2>3 DEF OutsideWrite, Meddle, NewObject
  <2> QED
    BY <1>4, <2>4, <2>5
<1>6. ASSUME NEW st \in OutsideStates, OutsideEdit(p, st)
      PROVE  Solid(world') /\ \A k \in Effects : world'.names[k] = world.names[k]
  <2>1. PICK o : o = world.names[p]
    OBVIOUS
  <2>2. o \in Objects
    BY <1>4, <1>6, <2>1 DEF OutsideEdit, IsFile, At, Solid
  <2>3. PICK w : w = SetInode(world, o, st)
    OBVIOUS
  <2>4. Solid(w) /\ w.names = world.names
    BY <2>2, <2>3, OutsideAssumption, InodeWritten
  <2>5. world' = w
    BY <1>6, <2>1, <2>3 DEF OutsideEdit, Meddle, SetInode
  <2> QED
    BY <2>4, <2>5
<1>7. CASE OutsideRemove(p)
  <2>1. PICK w : w = SetName(world, p, NoObj)
    OBVIOUS
  <2>2. Solid(w) /\ \A k \in Named \ {p} : w.names[k] = world.names[k]
    BY <1>4, <2>1, OneNameMoves
  <2>3. world' = w
    BY <1>7, <2>1 DEF OutsideRemove, Meddle, Unlink, SetName
  <2> QED
    BY <1>2, <1>3, <1>4, <2>2, <2>3
<1>8. CASE OutsideStuff(p)
  <2>1. PICK x : world' = [world EXCEPT !.stuffed = x]
    BY <1>8 DEF OutsideStuff, Meddle
  <2>2. world' = [names |-> world.names, inode |-> world.inode, stuffed |-> x]
    BY <2>1 DEF Solid
  <2>3. Solid(world')
    BY <2>2 DEF Solid
  <2> QED
    BY <1>2, <1>3, <2>2, <2>3
<1> QED
  BY <1>1, <1>2, <1>3, <1>5, <1>6, <1>7, <1>8

\* What power cut i leaves of the rename of object o from s to u.
CutLeaves(i, s, u, o) ==
  /\ s \in Touches(program[i]) /\ u \in Touches(program[i]) /\ s # u /\ Unflushed(i, s, u)
  /\ o # NoObj /\ o = world.names[IF s \in touched THEN u ELSE i]
  /\ u \in touched => o = world.names[i]
  /\ world'.names[s] \in IF Free(world, s) THEN {NoObj, o} ELSE {world.names[s]}
  /\ world'.names[u] \in IF world.names[u] = o THEN {NoObj, o} ELSE {world.names[u]}
  /\ \A n \in Named \ {s, u} : world'.names[n] = world.names[n]
  /\ world'.inode = world.inode /\ world'.stuffed = world.stuffed

\* A power cut disturbs the two paths of a move only.
LEMMA PowerCutFiles ==
  ASSUME Solid(world), ProgramOK, NEW i \in Effects, PowerCut(i)
  PROVE  /\ Solid(world') /\ UNCHANGED program /\ stage' = "begin" /\ Killed
         /\ \A k \in Effects : world'.names[k] = world.names[k]
         /\ \E s, u, o : CutLeaves(i, s, u, o)
<1>1. /\ Touches(program[i]) \subseteq Named /\ i \in Named
      /\ \A k \in Effects : k \in Named \ Touches(program[i])
  BY SlotsApart DEF ProgramOK, WellFormed, Touches, Named
<1>2. PICK s \in Touches(program[i]), u \in Touches(program[i]) :
        LET moved == world.names[IF s \in touched THEN u ELSE i]
        IN /\ Killed /\ Unflushed(i, s, u)
           /\ moved # NoObj /\ (u \in touched => moved = world.names[i])
           /\ \E before \in IF Free(world, s) THEN {NoObj, moved} ELSE {world.names[s]},
                 after \in IF world.names[u] = moved THEN {NoObj, moved} ELSE {world.names[u]} :
                world' = [world EXCEPT !.names[s] = before, !.names[u] = after]
           /\ Forget
  BY DEF PowerCut
<1>3. PICK o : o = world.names[IF s \in touched THEN u ELSE i]
  OBVIOUS
<1>4. /\ Killed /\ Forget /\ Unflushed(i, s, u)
      /\ o # NoObj /\ (u \in touched => o = world.names[i])
  BY <1>2, <1>3
<1>5. PICK before \in IF Free(world, s) THEN {NoObj, o} ELSE {world.names[s]},
           after \in IF world.names[u] = o THEN {NoObj, o} ELSE {world.names[u]} :
             world' = [world EXCEPT !.names[s] = before, !.names[u] = after]
  BY <1>2, <1>3
<1>6. s # u /\ s \in Named /\ u \in Named
  BY <1>1, <1>4 DEF Unflushed
<1>7. /\ before = NoObj \/ \E n \in Named : before = world.names[n]
      /\ after = NoObj \/ \E n \in Named : after = world.names[n]
  BY <1>1, <1>6, <1>3, <1>5
<1>8. PICK w : w = SetName(world, s, before)
  OBVIOUS
<1>9. /\ Solid(w) /\ w.names[s] = before
      /\ \A k \in Named \ {s} : w.names[k] = world.names[k]
  BY <1>6, <1>7, <1>8, OneNameMoves
<1>10. after = NoObj \/ after = world.names[u]
  BY <1>5
<1>11. after = NoObj \/ \E n \in Named : after = w.names[n]
  <2>1. CASE after = NoObj
    BY <2>1
  <2>2. CASE after # NoObj
    BY <1>5, <1>6, <1>9, <1>10, <2>2
  <2> QED
    BY <2>1, <2>2
<1>12. PICK v : v = SetName(w, u, after)
  OBVIOUS
<1>13. /\ Solid(v) /\ v.names[u] = after
       /\ \A k \in Named \ {u} : v.names[k] = w.names[k]
  BY <1>6, <1>9, <1>11, <1>12, OneNameMoves
<1>14. world' = v
  BY <1>5, <1>8, <1>12 DEF SetName
<1>15. world'.inode = world.inode /\ world'.stuffed = world.stuffed
  BY <1>5 DEF Solid
<1>16. CutLeaves(i, s, u, o)
  BY <1>3, <1>4, <1>5, <1>6, <1>9, <1>13, <1>14, <1>15 DEF CutLeaves
<1> QED
  BY <1>1, <1>4, <1>9, <1>13, <1>14, <1>16 DEF Forget

PlanInv ==
  pc = "plan" /\ plan \in {"rollback", "cleanup"} => \A i \in Effects : Clearing(steps[i], world, i)

\* A plan in progress is a rollback or a cleanup; its steps are known.
LEMMA DueSteps ==
  ASSUME PlanInv, NEW i \in Effects, Due(i)
  PROVE  /\ pc = "plan" /\ plan \in {"rollback", "cleanup"}
         /\ \/ steps[i] = <<Step(i)>> /\ Clears(Step(i), i) /\ Tail(steps[i]) = <<>>
            \/ \E s : /\ steps[i] = <<Step(i), s>> /\ Tail(steps[i]) = <<s>>
                      /\ Step(i).op \in SettlementOps /\ Clears(s, i)
<1>1. pc = "plan" /\ plan \in {"rollback", "cleanup"} /\ steps[i] # <<>>
  BY DEF Due
<1>2. PICK q : q = steps[i]
  OBVIOUS
<1>3. \/ q = <<q[1]>> /\ Clears(q[1], i)
      \/ q = <<q[1], q[2]>> /\ q[1].op \in SettlementOps /\ Clears(q[2], i)
  BY <1>1, <1>2 DEF PlanInv, Clearing
<1>4. CASE q = <<q[1]>> /\ Clears(q[1], i)
  <2>1. PICK x : x = q[1]
    OBVIOUS
  <2>2. q = <<x>>
    BY <1>4, <2>1
  <2>3. Head(<<x>>) = x /\ Tail(<<x>>) = <<>>
    OBVIOUS
  <2> QED
    BY <1>1, <1>2, <1>4, <2>1, <2>2, <2>3 DEF Step
<1>5. CASE q = <<q[1], q[2]>> /\ q[1].op \in SettlementOps /\ Clears(q[2], i)
  <2>1. PICK x, y : x = q[1] /\ y = q[2]
    OBVIOUS
  <2>2. q = <<x, y>>
    BY <1>5, <2>1
  <2>3. Head(<<x, y>>) = x /\ Tail(<<x, y>>) = <<y>>
    OBVIOUS
  <2> QED
    BY <1>1, <1>2, <1>5, <2>1, <2>2, <2>3 DEF Step
<1> QED
  BY <1>3, <1>4, <1>5

\* A step of a plan changes no other scratch slot.
LEMMA MutateFiles ==
  ASSUME Solid(world), ProgramOK, PlanInv, NEW i \in Effects, MutateStep(i)
  PROVE  /\ Solid(world') /\ OthersKept(world, world', i)
         /\ UNCHANGED <<vars, program, steps, bounded>>
         /\ Due(i) /\ stage' \in {"confirm", "reconsider"}
<1>1. PICK op : op = Step(i).op
  OBVIOUS
<1>2. Due(i)
  BY DEF MutateStep
<1>3. op \in SettlementOps
  BY <1>1, <1>2, DueSteps DEF Clears
<1>4. PICK w : w = Apply(program, world, op, i)
  OBVIOUS
<1>5. Solid(w) /\ OthersKept(world, w, i)
  BY <1>3, <1>4, ApplyKeeps DEF ProgramOK
<1>6. (world' = w \/ world' = world) /\ stage' \in {"confirm", "reconsider"}
      /\ UNCHANGED <<vars, program, steps, bounded>>
  BY <1>1, <1>4 DEF MutateStep, Work, Rest
<1> QED
  BY <1>2, <1>5, <1>6 DEF OthersKept

-----------------------------------------------------------------------------
(* Where the process and the record are in the protocol.                   *)

\* Effects are begun one after the other.
OrderInv ==
  pc \in {"effects", "apply"} =>
    \A i, k \in Effects : i < k /\ journals[active][k] # "pending" => journals[active][i] = "done"

\* Application is entered, and left, effect by effect.
LEMMA ForwardEntered ==
  ASSUME [Next]_vars, pc' \in {"effects", "apply"}
  PROVE  \/ UNCHANGED vars \/ BeginApplying
         \/ \E i \in Effects : StartEffect(i) \/ FinishEffect(i)
<1>1. CASE Acquire \/ Resolve \/ Release \/ Classify
  BY <1>1 DEF Acquire, Resolve, ResolveNothing, ResolveHalted, ResolveActive,
              Release, Goto, Classify, ClassifyTerminal, ClassifyHalt,
              ClassifyCommitted, ClassifyRollback, Adopt
<1>2. CASE Reconcile
  BY <1>2 DEF Reconcile, ReconcileAppendRegistration, ReconcileBindRegistration,
              ReconcileAppendSettlement, ReconcileBindSettlement, ReconcileDone, Goto, process
<1>3. CASE ApproveTopology \/ AssemblyHalt \/ CaughtFailure \/ Crash
  BY <1>3 DEF ApproveTopology, AssemblyHalt, CaughtFailure, Crash, Goto
<1>4. CASE RunPlan
  BY <1>4 DEF RunPlan, PersistRollingBack, PersistRolledBack, PersistHalt,
              PersistUndoStarted, PersistUndone, ReachDetach, DetachActive, Goto, process
<1>5. CASE Execute
  BY <1>5 DEF Execute, AppendRegistration, BindRegistration, FinishApplying,
              VerifyCommittedSurface, DecideCommit, AppendSettlement, BindSettlement, Goto
<1>6. CASE \E t \in Txns : PrepareTransaction(t)
  BY <1>6 DEF PrepareTransaction
<1> QED
  BY <1>1, <1>2, <1>3, <1>4, <1>5, <1>6 DEF Next, Progress, Environment

\* OrderInv is inductive.
LEMMA OrderStep ==
  ASSUME ControlInv, RecordInv, OrderInv, [Next]_vars
  PROVE  OrderInv'
<1> SUFFICES ASSUME pc' \in {"effects", "apply"} PROVE OrderInv'
  BY DEF OrderInv
<1>1. CASE UNCHANGED vars
  BY <1>1 DEF vars, OrderInv
<1>2. CASE BeginApplying
  <2>1. /\ active \in Txns /\ state[active] = "prepared"
        /\ UNCHANGED <<active, journals>>
    BY <1>2 DEF BeginApplying, SetState, ControlInv, PointMatchesState, Working
  <2>2. AllAre(journals[active], "pending")
    BY <2>1 DEF RecordInv, JournalsReachable, ReachableJournal, LastState
  <2> QED
    BY <2>1, <2>2 DEF OrderInv, AllAre
<1>3. ASSUME NEW i \in Effects, StartEffect(i) \/ FinishEffect(i)
      PROVE  OrderInv'
  <2>1. /\ active \in Txns /\ journals \in [Txns -> [Effects -> JournalStates]]
        /\ active' = active /\ pc \in {"effects", "apply"}
    BY <1>3 DEF StartEffect, FinishEffect, SetJournal, ControlInv, TypeOK, Journals,
                PointMatchesState, Working
  <2>2. PICK s \in {"started", "done"} :
          /\ journals' = [journals EXCEPT ![active][i] = s]
          /\ \/ s = "started" /\ journals[active][i] = "pending"
                /\ \A k \in Effects : k < i => journals[active][k] = "done"
             \/ s = "done" /\ journals[active][i] = "started"
    BY <1>3 DEF StartEffect, FinishEffect, SetJournal
  <2>3. /\ journals'[active][i] = s
        /\ \A k \in Effects \ {i} : journals'[active][k] = journals[active][k]
    BY <2>1, <2>2
  <2>4. ASSUME NEW m \in Effects, NEW k \in Effects, m < k, journals'[active][k] # "pending"
        PROVE  journals'[active][m] = "done"
    BY <2>1, <2>2, <2>3, <2>4 DEF OrderInv, Effects
  <2> QED
    BY <2>1, <2>4 DEF OrderInv
<1> QED
  BY <1>1, <1>2, <1>3, ForwardEntered

(* What plan the process is running, and what it has reached when the      *)
(* record is settled and detached.                                         *)
PointInv ==
  /\ pc \notin {"plan", "reconcile", "detach"} => plan = "none"
  /\ pc = "detach" => plan # "none"
  /\ pc \in {"reconcile", "detach"} => plan # "halt"
  /\ pc \in {"plan", "reconcile", "detach"} /\ plan = "cleanup" => state[active] = "committed"
  /\ pc \in {"plan", "reconcile", "detach"} /\ plan = "detach" => state[active] = "rolled_back"
  /\ pc \in {"reconcile", "detach"} /\ plan = "rollback" => state[active] = "rolled_back"
  /\ pc = "plan" /\ plan = "rollback" => state[active] # "committed"

\* Only a rolled back record is detached without a plan.
LEMMA DetachAuthority ==
  ASSUME NEW t, AuthorityOf(t) = "detach"
  PROVE  state[t] = "rolled_back"
BY DEF AuthorityOf, Authority

\* PointInv is inductive.
LEMMA PointStep ==
  ASSUME ControlInv, PointInv, [Next]_vars
  PROVE  PointInv'
<1> USE DEF PointInv
<1>0. /\ pc \notin {"idle", "resolve", "ready"} => active \in Txns
      /\ state \in [Txns -> TransactionStates \cup {"none"}]
  BY DEF ControlInv, PointMatchesState, Working, TypeOK
<1>1. CASE Acquire \/ Resolve \/ Release
  BY <1>1 DEF Acquire, Resolve, ResolveNothing, ResolveHalted, ResolveActive, Release, Goto
<1>2. CASE Reconcile
  <2>1. CASE ReconcileDone
    BY <2>1 DEF ReconcileDone, Goto, store
  <2>2. CASE \/ ReconcileAppendRegistration \/ ReconcileBindRegistration
             \/ ReconcileAppendSettlement \/ ReconcileBindSettlement
    <3>1. UNCHANGED <<pc, plan, active, state>>
      BY <2>2 DEF ReconcileAppendRegistration, ReconcileBindRegistration,
                  ReconcileAppendSettlement, ReconcileBindSettlement, Publish,
                  BindRegistrationDigest, BindSettlementDigest, process, store
    <3> QED
      BY <3>1
  <2> QED
    BY <1>2, <2>1, <2>2 DEF Reconcile
<1>3. CASE ApproveTopology \/ AssemblyHalt \/ CaughtFailure \/ Crash
  BY <1>3 DEF ApproveTopology, AssemblyHalt, CaughtFailure, Crash, Goto
<1>4. CASE Classify
  BY <1>4, DetachAuthority
     DEF Classify, ClassifyTerminal, ClassifyHalt, ClassifyCommitted, ClassifyRollback,
         Adopt, store
<1>5. CASE RunPlan
  <2>1. CASE PersistRollingBack
    BY <1>0, <2>1 DEF PersistRollingBack, SetState, process
  <2>2. CASE PersistRolledBack
    BY <1>0, <2>2 DEF PersistRolledBack, process
  <2>3. CASE PersistHalt \/ ReachDetach \/ DetachActive
    BY <2>3 DEF PersistHalt, ReachDetach, DetachActive, Goto, store
  <2>4. ASSUME NEW i \in Effects, PersistUndoStarted(i) \/ PersistUndone(i)
        PROVE  PointInv'
    BY <2>4 DEF PersistUndoStarted, PersistUndone, SetJournal, process
  <2> QED
    BY <1>5, <2>1, <2>2, <2>3, <2>4 DEF RunPlan
<1>6. CASE Execute
  BY <1>6 DEF Execute, AppendRegistration, BindRegistration, BeginApplying, StartEffect,
              FinishEffect, FinishApplying, VerifyCommittedSurface, DecideCommit,
              AppendSettlement, BindSettlement, Goto
<1>7. CASE \E t \in Txns : PrepareTransaction(t)
  BY <1>7 DEF PrepareTransaction
<1>8. CASE UNCHANGED vars
  BY <1>8 DEF vars
<1> QED
  BY <1>1, <1>2, <1>3, <1>4, <1>5, <1>6, <1>7, <1>8 DEF Next, Progress, Environment

-----------------------------------------------------------------------------
(* The scratch slots, through every step.                                  *)

AllClear(w) == \A i \in Effects : Free(w, i)

(* The slot of an effect that was not begun or is undone is free; cleanup  *)
(* is over, and a committed record detached, with every slot free.         *)
ClearInv ==
  /\ \A t \in Txns : \A i \in Effects : journals[t][i] \in Unwound => Free(world, i)
  /\ pc \in {"reconcile", "detach"} /\ plan = "cleanup" => AllClear(world)
  /\ \A t \in Txns : state[t] = "committed" /\ active # t => AllClear(world)

FilesInv ==
  /\ Solid(world) /\ ProgramOK /\ outside \in 0..MaxOutside
  /\ steps = [i \in Effects |-> steps[i]]
  /\ StageInv /\ PlanInv /\ ClearInv

ProtocolInv == ControlInv /\ RecordInv /\ OrderInv /\ PointInv

\* What is known of the record while it is worked on.
LEMMA ActiveRecord ==
  ASSUME ProtocolInv, pc \notin {"idle", "resolve", "ready"}
  PROVE  /\ active \in Txns /\ \A t \in Txns : t = active
         /\ state[active] = "committed" => \A i \in Effects : journals[active][i] = "done"
         /\ pc = "apply" => state[active] = "applying"
BY OneTransaction
   DEF ProtocolInv, ControlInv, PointMatchesState, Working, RecordInv, JournalsReachable,
       ReachableJournal, LastState, AllAre

\* The specification is compiled, nothing is staged, no object is absent.
LEMMA FilesInit == EInit => FilesInv
<1> SUFFICES ASSUME EInit PROVE FilesInv
  OBVIOUS
<1>1. ProgramOK /\ Declared(program) \subseteq Paths
  BY ProgramsAssumption DEF EInit, ProgramOK, WellFormed, Declared
<1>2. PICK w : w = InitialWorld(program)
  OBVIOUS
<1>3. /\ w = [names |-> w.names, inode |-> w.inode, stuffed |-> w.stuffed]
      /\ w.names = [s \in Named |-> IF s \in Declared(program) /\ Initial(program, s) # "absent"
                                    THEN s ELSE NoObj]
      /\ w.inode = [o \in Objects |-> IF o \in Declared(program) THEN Initial(program, o)
                                      ELSE "absent"]
  BY <1>2 DEF InitialWorld, Named
<1>4. Solid(w)
  <2>1. \A s \in Named : s \in Declared(program) => s \in Objects
    BY <1>1 DEF Objects
  <2>2. w.names \in [Named -> Objects \cup {NoObj}]
    BY <1>3, <2>1
  <2>3. w.inode = [o \in Objects |-> w.inode[o]]
    BY <1>3
  <2>4. ASSUME NEW s \in Named, w.names[s] # NoObj
        PROVE  w.inode[w.names[s]] # "absent"
    <3>1. s \in Declared(program) /\ Initial(program, s) # "absent" /\ w.names[s] = s
      BY <1>3, <2>4
    <3>2. s \in Objects
      BY <2>1, <3>1
    <3> QED
      BY <1>3, <3>1, <3>2
  <2> QED
    BY <1>3, <2>2, <2>3, <2>4 DEF Solid
<1>5. AllClear(w)
  BY <1>1, <1>3, SlotsApart DEF AllClear, Free
<1>6. world = w /\ outside = 0 /\ steps = NoSteps /\ pc = "idle" /\ stage = "begin"
      /\ \A t \in Txns : state[t] = "none"
  BY <1>2 DEF EInit, Init
<1>7. outside \in 0..MaxOutside
  BY <1>6, BoundsAssumption
<1>8. steps = [i \in Effects |-> steps[i]]
  BY <1>6 DEF NoSteps
<1>9. StageInv /\ PlanInv /\ ClearInv
  BY <1>5, <1>6 DEF StageInv, Applying, PlanInv, ClearInv, AllClear
<1> QED
  BY <1>1, <1>4, <1>6, <1>7, <1>8, <1>9 DEF FilesInv

(* A step that leaves the files alone: what is left to see is that the     *)
(* record still fits them.                                                 *)
LEMMA CalmStep ==
  ASSUME ProtocolInv, ProtocolInv', FilesInv, UNCHANGED <<program, world, steps, outside>>,
         stage' = stage \/ stage' \in {"begin", "authorize", "mutate"},
         stage' \notin {"begin", "authorize", "mutate"} /\ pc' = "apply" =>
           UNCHANGED <<pc, active, journals>>,
         pc' = "plan" => pc = "plan" /\ plan' = plan,
         \A t \in Txns : \A i \in Effects :
           journals'[t][i] \in Unwound => journals[t][i] \in Unwound \/ Free(world, i),
         pc' \in {"reconcile", "detach"} /\ plan' = "cleanup" =>
           \/ pc \in {"reconcile", "detach"} /\ plan = "cleanup"
           \/ steps = NoSteps /\ pc = "plan" /\ plan = "cleanup",
         \A t \in Txns : state'[t] = "committed" /\ active' # t =>
           \/ state[t] = "committed" /\ active # t
           \/ pc = "detach" /\ plan = "cleanup"
  PROVE  FilesInv'
<1>1. StageInv'
  BY DEF FilesInv, StageInv, Applying
<1>2. PlanInv'
  BY DEF FilesInv, PlanInv
<1>3. steps = NoSteps /\ pc = "plan" /\ plan = "cleanup" => AllClear(world)
  BY DEF FilesInv, PlanInv, NoSteps, Clearing, AllClear
<1>4. ClearInv'
  BY <1>3 DEF FilesInv, ClearInv, AllClear, Free
<1> QED
  BY <1>1, <1>2, <1>4 DEF FilesInv, Solid, ProgramOK

\* A protocol step that neither begins an effect nor classifies fits the files.
Fitting ==
  /\ pc' # "apply" \/ UNCHANGED vars
  /\ pc' = "plan" => pc = "plan" /\ plan' = plan
  /\ \A t \in Txns : \A i \in Effects :
       journals'[t][i] \in Unwound => journals[t][i] \in Unwound
  /\ pc' \in {"reconcile", "detach"} /\ plan' = "cleanup" =>
       pc \in {"reconcile", "detach"} /\ plan = "cleanup"
  /\ \A t \in Txns : state'[t] = "committed" /\ active' # t =>
       \/ state[t] = "committed" /\ active # t
       \/ pc = "detach" /\ plan = "cleanup"

\* The steps of a lease and of reconciliation.
LEMMA LeaseFits ==
  ASSUME ProtocolInv, \/ Acquire \/ Resolve \/ Reconcile \/ ApproveTopology \/ Release
                      \/ CaughtFailure \/ Crash
  PROVE  Fitting
<1> USE DEF Fitting, store, process
<1>1. CASE Acquire \/ Release \/ ApproveTopology \/ Crash
  <2>1. CASE Acquire \/ Release
    BY <2>1 DEF Acquire, Release, Goto
  <2>2. CASE ApproveTopology
    BY <2>2 DEF ApproveTopology, Goto
  <2>3. CASE Crash
    BY <2>3 DEF Crash
  <2> QED
    BY <1>1, <2>1, <2>2, <2>3
<1>4. CASE Resolve
  <2>1. CASE ResolveNothing
    BY <2>1 DEF ResolveNothing, Goto
  <2>2. CASE ResolveHalted
    BY <2>2 DEF ResolveHalted, Goto, ProtocolInv, PointInv
  <2>3. CASE ResolveActive
    BY <2>3 DEF ResolveActive, Goto, ProtocolInv, PointInv
  <2> QED
    BY <1>4, <2>1, <2>2, <2>3 DEF Resolve
<1>2. CASE Reconcile
  BY <1>2 DEF Reconcile, ReconcileAppendRegistration, ReconcileBindRegistration,
              ReconcileAppendSettlement, ReconcileBindSettlement, ReconcileDone, Publish,
              BindRegistrationDigest, BindSettlementDigest, Goto
<1>3. CASE CaughtFailure
  BY <1>3 DEF CaughtFailure, Goto, ProtocolInv, PointInv
<1> QED
  BY <1>1, <1>2, <1>3, <1>4

\* The store transactions of a plan, detaching included.
LEMMA PlanFits ==
  ASSUME ProtocolInv,
         \/ PersistRollingBack \/ PersistRolledBack \/ PersistHalt \/ DetachActive
         \/ \E i \in Effects : PersistUndoStarted(i)
  PROVE  Fitting
<1> USE DEF Fitting, process
<1>0. /\ active \in Txns /\ state \in [Txns -> TransactionStates \cup {"none"}]
      /\ journals \in [Txns -> [Effects -> JournalStates]]
  BY DEF PersistRollingBack, PersistRolledBack, PersistHalt, DetachActive,
         PersistUndoStarted, ProtocolInv, ControlInv, PointMatchesState, Working, TypeOK,
         Journals
<1>1. CASE PersistRollingBack
  BY <1>0, <1>1 DEF PersistRollingBack, SetState
<1>2. CASE PersistRolledBack
  BY <1>0, <1>2 DEF PersistRolledBack
<1>3. CASE PersistHalt
  BY <1>0, <1>3 DEF PersistHalt
<1>4. CASE DetachActive
  <2>1. state[active] = "committed" => plan = "cleanup"
    BY <1>0, <1>4
       DEF DetachActive, ProtocolInv, PointInv, ControlInv, TypeOK
  <2> QED
    BY <1>0, <1>4, <2>1 DEF DetachActive
<1>5. ASSUME NEW i \in Effects, PersistUndoStarted(i) PROVE Fitting
  BY <1>0, <1>5 DEF PersistUndoStarted, SetJournal, Unwound
<1> QED
  BY <1>1, <1>2, <1>3, <1>4, <1>5

\* The store transactions of an execution.
LEMMA ExecuteFits ==
  ASSUME ProtocolInv,
         \/ AppendRegistration \/ BindRegistration \/ BeginApplying \/ FinishApplying
         \/ VerifyCommittedSurface \/ DecideCommit \/ AppendSettlement \/ BindSettlement
         \/ \E t \in Txns : PrepareTransaction(t)
  PROVE  Fitting
<1> USE DEF Fitting, store
<1>0. state \in [Txns -> TransactionStates \cup {"none"}]
  BY DEF ProtocolInv, ControlInv, TypeOK
<1>1. CASE \/ AppendRegistration \/ BindRegistration \/ BeginApplying \/ FinishApplying
           \/ VerifyCommittedSurface \/ DecideCommit \/ AppendSettlement \/ BindSettlement
  <2>1. active \in Txns
    BY <1>1 DEF AppendRegistration, BindRegistration, BeginApplying, FinishApplying,
                VerifyCommittedSurface, DecideCommit, AppendSettlement, BindSettlement,
                ProtocolInv, ControlInv, PointMatchesState, Working
  <2> QED
    BY <1>0, <1>1, <2>1
       DEF AppendRegistration, BindRegistration, BeginApplying, FinishApplying,
           VerifyCommittedSurface, DecideCommit, AppendSettlement, BindSettlement,
           Publish, BindRegistrationDigest, BindSettlementDigest, SetState, Goto
<1>2. ASSUME NEW t \in Txns, PrepareTransaction(t) PROVE Fitting
  BY <1>0, <1>2, OneTransaction DEF PrepareTransaction
<1> QED
  BY <1>1, <1>2

\* A step that fits and leaves the files alone, or forgets how far it was.
LEMMA FittingStep ==
  ASSUME ProtocolInv, ProtocolInv', FilesInv, Fitting,
         UNCHANGED <<program, world, outside>>,
         \/ UNCHANGED <<stage, steps>>
         \/ UNCHANGED steps /\ stage' = "begin"
         \/ stage' = "begin" /\ steps' = NoSteps /\ pc' = "idle"
  PROVE  FilesInv'
<1>1. CASE UNCHANGED steps
  <2>1. stage' = stage /\ pc' = "apply" => UNCHANGED <<pc, active, journals>>
    BY DEF Fitting, vars
  <2> QED
    BY <1>1, <2>1, CalmStep DEF Fitting
<1>2. CASE stage' = "begin" /\ steps' = NoSteps /\ pc' = "idle"
  <2>1. StageInv' /\ PlanInv'
    BY <1>2 DEF StageInv, PlanInv, Applying
  <2>2. ClearInv'
    BY <1>2 DEF FilesInv, ClearInv, Fitting, AllClear, Free
  <2>3. (steps = [i \in Effects |-> steps[i]])'
    BY <1>2 DEF NoSteps
  <2> QED
    BY <2>1, <2>2, <2>3 DEF FilesInv, Solid, ProgramOK
<1> QED
  BY <1>1, <1>2

\* A plan is made: every scratch slot is free or emptied by its last step.
LEMMA ClassifyFiles ==
  ASSUME ProtocolInv, FilesInv, EClassify
  PROVE  FilesInv'
<1>1. /\ pc' = "plan" /\ stage' = "authorize"
      /\ UNCHANGED <<program, world, outside, journals, state, active>>
  BY DEF EClassify, EClassifyTerminal, EClassifyHalt, EClassifyCommitted, EClassifyRollback,
         ClassifyTerminal, ClassifyHalt, ClassifyCommitted, ClassifyRollback, Adopt, Planned,
         Rest, bounded, outsider, store
<1>2. Solid(world) /\ \A i \in Effects : WellFormed(program[i])
  BY DEF FilesInv, ProgramOK
<1>3. PlanInv' /\ (steps = [i \in Effects |-> steps[i]])'
  <2>1. CASE EClassifyTerminal \/ EClassifyHalt
    BY <2>1 DEF EClassifyTerminal, EClassifyHalt, ClassifyTerminal, ClassifyHalt, Adopt,
                Planned, PlanInv, NoSteps
  <2>2. CASE EClassifyCommitted
    <3>1. /\ ~CommittedPlan(program, world).halt
          /\ steps' = CommittedPlan(program, world).steps /\ world' = world
      BY <2>2 DEF EClassifyCommitted, Planned
    <3> QED
      BY <1>2, <3>1, CommittedPlanClears DEF PlanInv
  <2>3. CASE EClassifyRollback
    <3>1. /\ ~RollbackPlan(program, world, journals[active]).halt
          /\ steps' = RollbackPlan(program, world, journals[active]).steps /\ world' = world
      BY <2>3 DEF EClassifyRollback, Planned
    <3> QED
      BY <1>2, <3>1, RollbackPlanClears DEF PlanInv
  <2> QED
    BY <2>1, <2>2, <2>3 DEF EClassify
<1>4. StageInv'
  BY <1>1 DEF StageInv, Applying
<1>5. ClearInv'
  BY <1>1 DEF FilesInv, ClearInv, Free, AllClear
<1> QED
  BY <1>1, <1>3, <1>4, <1>5 DEF FilesInv, Solid, ProgramOK

(* A system call changes no scratch slot but that of its effect, which is  *)
(* the only one begun and not done.                                        *)
LEMMA ApplyFiles ==
  ASSUME ProtocolInv, FilesInv, NEW i \in Effects, ApplyEffect(i)
  PROVE  FilesInv'
<1>1. FilesOf(i)
  BY ApplyEffectFiles DEF FilesInv
<1>2. /\ pc = "apply" /\ journals[active][i] = "started"
      /\ UNCHANGED <<pc, journals, state, active, program, steps, outside>>
  BY <1>1 DEF FilesOf, vars, store, process, bounded, outsider
<1>3. \A t \in Txns : t = active
  BY <1>2, ActiveRecord
<1>4. \A k \in Effects : journals[active][k] = "started" => k = i
  BY <1>2 DEF ProtocolInv, OrderInv, Effects
<1>5. StageInv'
  BY <1>1, <1>2, <1>4 DEF FilesOf, StageInv, Applying
<1>6. PlanInv'
  BY <1>2 DEF PlanInv
<1>7. ClearInv'
  BY <1>1, <1>2, <1>3 DEF FilesOf, FilesInv, ClearInv, OthersKept, Free, Unwound
<1> QED
  BY <1>1, <1>2, <1>5, <1>6, <1>7 DEF FilesInv, FilesOf, ProgramOK

(* A recovery step is executed: its effect is being undone, or was         *)
(* committed.                                                              *)
LEMMA MutateStepFiles ==
  ASSUME ProtocolInv, FilesInv, NEW i \in Effects, MutateStep(i)
  PROVE  FilesInv'
<1>1. /\ Solid(world') /\ OthersKept(world, world', i)
      /\ UNCHANGED <<vars, program, steps, bounded>>
      /\ Due(i) /\ stage' \in {"confirm", "reconsider"}
  BY MutateFiles DEF FilesInv
<1>2. /\ pc = "plan" /\ steps[i] # <<>>
      /\ UNCHANGED <<pc, plan, journals, state, active, program, steps, outside>>
  BY <1>1 DEF Due, vars, store, process, bounded, outsider
<1>3. \A t \in Txns : t = active
  BY <1>2, ActiveRecord
<1>4. journals[active][i] \notin Unwound
  <2>1. CASE journals[active][i] = "undo_started"
    BY <2>1 DEF Unwound
  <2>2. CASE plan = "cleanup"
    <3>1. state[active] = "committed"
      BY <1>2, <2>2 DEF ProtocolInv, PointInv
    <3> QED
      BY <1>2, <3>1, ActiveRecord DEF Unwound
  <2> QED
    BY <1>1, <2>1, <2>2 DEF Due
<1>5. StageInv'
  BY <1>2 DEF StageInv, Applying
<1>6. PlanInv'
  BY <1>1, <1>2 DEF FilesInv, PlanInv, Clearing, OthersKept, Free
<1>7. ClearInv'
  BY <1>1, <1>2, <1>3, <1>4 DEF FilesInv, ClearInv, OthersKept, Free
<1> QED
  BY <1>1, <1>2, <1>5, <1>6, <1>7 DEF FilesInv, ProgramOK

\* A confirmed step that was the last of its effect left the slot free.
LEMMA ConfirmStepFiles ==
  ASSUME ProtocolInv, FilesInv, NEW i \in Effects, ConfirmStep(i)
  PROVE  FilesInv'
<1>1. /\ Due(i) /\ pc = "plan" /\ stage' \in {"authorize", "reconsider"}
      /\ UNCHANGED <<pc, plan, journals, state, active, program, world, outside>>
  BY DEF ConfirmStep, Due, vars, store, process, Rest, bounded, outsider
<1>2. StageInv'
  BY <1>1 DEF StageInv, Applying
<1>3. ClearInv'
  BY <1>1 DEF FilesInv, ClearInv, Free, AllClear
<1>4. PlanInv' /\ (steps = [k \in Effects |-> steps[k]])'
  <2>1. CASE UNCHANGED steps
    BY <1>1, <2>1 DEF FilesInv, PlanInv, Clearing, Free
  <2>2. CASE AsPromised(i) /\ steps' = [steps EXCEPT ![i] = Tail(@)]
    <3>1. /\ steps' = [k \in Effects |-> steps'[k]] /\ steps'[i] = Tail(steps[i])
          /\ \A k \in Effects \ {i} : steps'[k] = steps[k]
      BY <2>2 DEF FilesInv
    <3>2. Clearing(steps'[i], world, i)
      <4>1. CASE steps[i] = <<Step(i)>> /\ Clears(Step(i), i) /\ Tail(steps[i]) = <<>>
        <5>1. i \in Step(i).slots /\ Step(i).after.states[i] = "absent"
          BY <4>1 DEF Clears
        <5>2. Joint(program, world, Step(i).slots).states[i] = At(world, i)
          BY <5>1 DEF Joint
        <5>3. At(world, i) = "absent" /\ i \in Named /\ Solid(world)
          BY <2>2, <5>1, <5>2 DEF AsPromised, FilesInv, Named
        <5> QED
          BY <3>1, <4>1, <5>3, FreeIsAbsent DEF Clearing
      <4>2. ASSUME NEW s, Tail(steps[i]) = <<s>>, Clears(s, i)
            PROVE  Clearing(steps'[i], world, i)
        <5>1. <<s>>[1] = s
          OBVIOUS
        <5> QED
          BY <3>1, <4>2, <5>1 DEF Clearing
      <4> QED
        BY <1>1, <4>1, <4>2, DueSteps DEF FilesInv
    <3>3. \A k \in Effects : Clearing(steps'[k], world, k)
      BY <1>1, <3>1, <3>2, DueSteps DEF FilesInv, PlanInv
    <3> QED
      BY <1>1, <3>1, <3>3 DEF PlanInv, Clearing, Free
  <2> QED
    BY <2>1, <2>2 DEF ConfirmStep
<1> QED
  BY <1>1, <1>2, <1>3, <1>4 DEF FilesInv, Solid, ProgramOK

\* The process forgets how far it was: killed, refused or with an exception.
LEMMA ForgetFiles ==
  ASSUME ProtocolInv, ProtocolInv', FilesInv, Crash \/ PersistHalt, Forget,
         UNCHANGED outside, Solid(world'),
         \A k \in Effects : world'.names[k] = world.names[k]
  PROVE  FilesInv'
<1>1. /\ pc' = "idle" /\ stage' = "begin" /\ steps' = NoSteps /\ program' = program
      /\ Fitting
  BY LeaseFits, PlanFits DEF Crash, PersistHalt, Forget, Goto
<1>2. StageInv' /\ PlanInv'
  BY <1>1 DEF StageInv, PlanInv, Applying
<1>3. ClearInv'
  BY <1>1 DEF FilesInv, ClearInv, Fitting, AllClear, Free
<1>4. (steps = [i \in Effects |-> steps[i]])'
  BY <1>1 DEF NoSteps
<1> QED
  BY <1>1, <1>2, <1>3, <1>4 DEF FilesInv, ProgramOK

\* A file the outside writer touches is no scratch entry.
LEMMA OutsideKeeps ==
  ASSUME FilesInv, Outside
  PROVE  FilesInv'
<1>1. /\ UNCHANGED <<vars, program, stage, steps>>
      /\ Solid(world') /\ outside' \in 0..MaxOutside
      /\ \A k \in Effects : world'.names[k] = world.names[k]
  BY OutsideFiles DEF FilesInv
<1>2. UNCHANGED <<pc, plan, journals, state, active>>
  BY <1>1 DEF vars, store, process
<1>3. StageInv' /\ PlanInv'
  BY <1>1, <1>2 DEF FilesInv, StageInv, PlanInv, Applying, Clearing, Free
<1>4. ClearInv'
  BY <1>1, <1>2 DEF FilesInv, ClearInv, AllClear, Free
<1> QED
  BY <1>1, <1>3, <1>4 DEF FilesInv, ProgramOK

\* What a lease, an execution or the store of a plan does, files untouched.
QuietStep ==
  \/ Acquire \/ Resolve \/ Reconcile \/ ApproveTopology \/ Release
  \/ PersistRollingBack \/ PersistRolledBack \/ PersistHalt \/ DetachActive
  \/ \E i \in Effects : PersistUndoStarted(i)
  \/ AppendRegistration \/ BindRegistration \/ BeginApplying \/ FinishApplying
  \/ VerifyCommittedSurface \/ DecideCommit \/ AppendSettlement \/ BindSettlement
  \/ \E t \in Txns : PrepareTransaction(t)

\* A protocol step that leaves the files alone.
LEMMA QuietFiles ==
  ASSUME ProtocolInv, ProtocolInv', FilesInv, QuietStep, UNCHANGED files, Rest
  PROVE  FilesInv'
<1>1. Fitting
  BY LeaseFits, PlanFits, ExecuteFits DEF QuietStep
<1> QED
  BY <1>1, FittingStep DEF files, Rest, bounded, outsider

\* An effect is begun, done or undone: its slot is free or not yet judged.
LEMMA EffectRecordFiles ==
  ASSUME ProtocolInv, ProtocolInv', FilesInv, NEW i \in Effects,
         EStartEffect(i) \/ EFinishEffect(i) \/ EPersistUndone(i)
  PROVE  FilesInv'
<1>1. /\ UNCHANGED <<program, world, steps, outside, plan, state, active>>
      /\ active \in Txns /\ journals \in [Txns -> [Effects -> JournalStates]]
      /\ pc \notin {"idle", "resolve", "ready"}
  BY DEF EStartEffect, EFinishEffect, EPersistUndone, StartEffect, FinishEffect,
         PersistUndone, SetJournal, Goto, ToStage, Quiet, files, Rest, bounded, outsider,
         process, ProtocolInv, ControlInv, TypeOK, Journals, PointMatchesState, Working
<1>2. CASE EStartEffect(i) \/ EFinishEffect(i)
  <2>1. /\ stage' = "begin" /\ pc' \in {"apply", "effects"}
        /\ \E s \in {"started", "done"} : journals' = [journals EXCEPT ![active][i] = s]
    BY <1>2 DEF EStartEffect, EFinishEffect, StartEffect, FinishEffect, SetJournal, Goto, ToStage
  <2>2. \A t \in Txns : \A k \in Effects :
          journals'[t][k] \in Unwound => journals[t][k] \in Unwound
    BY <1>1, <2>1 DEF Unwound
  <2> QED
    BY <1>1, <2>1, <2>2, CalmStep
<1>3. CASE EPersistUndone(i)
  <2>1. /\ pc = "plan" /\ plan = "rollback" /\ steps[i] = <<>> /\ UNCHANGED <<pc, stage>>
        /\ journals' = [journals EXCEPT ![active][i] = "undone"]
    BY <1>3 DEF EPersistUndone, PersistUndone, SetJournal, Quiet, files, process
  <2>2. Free(world, i)
    <3>1. Clearing(steps[i], world, i)
      BY <2>1 DEF FilesInv, PlanInv
    <3> QED
      BY <2>1, <3>1 DEF Clearing
  <2>3. \A t \in Txns : \A k \in Effects :
          journals'[t][k] \in Unwound => journals[t][k] \in Unwound \/ Free(world, k)
    BY <1>1, <2>1, <2>2
  <2> QED
    BY <1>1, <2>1, <2>3, CalmStep
<1> QED
  BY <1>2, <1>3

\* A step of a plan other than the mutation and its confirmation.
LEMMA PlanStepFiles ==
  ASSUME ProtocolInv, ProtocolInv', FilesInv, NEW i \in Effects,
         AuthorizeStep(i) \/ RefuseStep(i) \/ DenyStep(i) \/ EscapeStep(i)
  PROVE  FilesInv'
<1>1. CASE AuthorizeStep(i)
  <2>1. /\ UNCHANGED <<program, world, steps, outside, pc, plan, state, active, journals>>
        /\ stage' = "mutate"
    BY <1>1 DEF AuthorizeStep, Work, Rest, bounded, outsider, vars, store, process
  <2> QED
    BY <2>1, CalmStep DEF AuthorizeStep, Due
<1>2. CASE RefuseStep(i) \/ DenyStep(i) \/ EscapeStep(i)
  <2>1. /\ Crash \/ PersistHalt
        /\ Forget /\ UNCHANGED <<world, outside>>
    BY <1>2 DEF RefuseStep, DenyStep, EscapeStep, Rest, bounded, outsider
  <2>2. Solid(world')
    BY <2>1 DEF FilesInv, Solid
  <2> QED
    BY <2>1, <2>2, ForgetFiles
<1> QED
  BY <1>1, <1>2

\* A committed record is detached only once its plan has run out.
LEMMA ReachDetachFiles ==
  ASSUME ProtocolInv, ProtocolInv', FilesInv, EReachDetach
  PROVE  FilesInv'
<1>1. /\ UNCHANGED <<program, world, steps, outside, plan, state, active, journals, stage>>
      /\ plan = "cleanup" => steps = NoSteps
  BY DEF EReachDetach, ReachDetach, Quiet, files, Rest, bounded, outsider, Goto, store
<1>2. pc = "plan" /\ pc' = "reconcile"
  BY DEF EReachDetach, ReachDetach, Quiet, Goto
<1> QED
  BY <1>1, <1>2, CalmStep

\* FilesInv is inductive.
LEMMA FilesStep ==
  ASSUME ProtocolInv, ProtocolInv', FilesInv, [ENext]_evars
  PROVE  FilesInv'
<1>1. CASE \/ Quiet(Acquire) \/ Quiet(Resolve) \/ Quiet(Reconcile) \/ Quiet(ApproveTopology)
           \/ Quiet(Release) \/ \E t \in Txns : EPrepareTransaction(t)
  BY <1>1, QuietFiles DEF Quiet, QuietStep, EPrepareTransaction
<1>2. CASE EClassify
  BY <1>2, ClassifyFiles
<1>3. CASE ERunPlan
  <2>1. CASE \/ Quiet(PersistRollingBack) \/ Quiet(PersistRolledBack) \/ EPersistHalt
             \/ Quiet(DetachActive) \/ \E i \in Effects : Quiet(PersistUndoStarted(i))
    BY <2>1, QuietFiles DEF Quiet, QuietStep, EPersistHalt
  <2>2. CASE EReachDetach
    BY <2>2, ReachDetachFiles
  <2>3. ASSUME NEW i \in Effects,
               \/ EPersistUndone(i) \/ AuthorizeStep(i) \/ MutateStep(i) \/ ConfirmStep(i)
               \/ RefuseStep(i) \/ DenyStep(i) \/ EscapeStep(i)
        PROVE  FilesInv'
    BY <2>3, EffectRecordFiles, PlanStepFiles, MutateStepFiles, ConfirmStepFiles
  <2> QED
    BY <1>3, <2>1, <2>2, <2>3 DEF ERunPlan
<1>4. CASE EExecute
  <2>1. CASE \/ Quiet(AppendRegistration) \/ Quiet(BindRegistration) \/ Quiet(BeginApplying)
             \/ Quiet(FinishApplying) \/ EVerifyCommittedSurface \/ Quiet(DecideCommit)
             \/ Quiet(AppendSettlement) \/ Quiet(BindSettlement)
    BY <2>1, QuietFiles DEF Quiet, QuietStep, EVerifyCommittedSurface
  <2>2. ASSUME NEW i \in Effects, EStartEffect(i) \/ ApplyEffect(i) \/ EFinishEffect(i)
        PROVE  FilesInv'
    BY <2>2, EffectRecordFiles, ApplyFiles
  <2> QED
    BY <1>4, <2>1, <2>2 DEF EExecute
<1>5. CASE ECaughtFailure
  <2>1. /\ Fitting /\ UNCHANGED <<program, world, outside, steps>> /\ stage' = "begin"
    BY <1>5, LeaseFits DEF ECaughtFailure, ToStage, Rest, bounded, outsider
  <2> QED
    BY <2>1, FittingStep
<1>6. CASE ECrash
  <2>1. Solid(world') /\ world' = world /\ Crash /\ Forget /\ UNCHANGED outside
    BY <1>6 DEF ECrash, Killed, outsider, FilesInv, Solid
  <2> QED
    BY <2>1, ForgetFiles
<1>7. ASSUME NEW i \in Effects, PowerCut(i) PROVE FilesInv'
  <2>1. /\ Solid(world') /\ Killed /\ Forget
        /\ \A k \in Effects : world'.names[k] = world.names[k]
    BY <1>7, PowerCutFiles DEF FilesInv, PowerCut
  <2> QED
    BY <2>1, ForgetFiles DEF Killed, outsider
<1>8. CASE Outside
  BY <1>8, OutsideKeeps
<1>9. CASE UNCHANGED evars
  <2>1. /\ UNCHANGED <<program, world, steps, outside, stage>>
        /\ UNCHANGED vars /\ UNCHANGED <<pc, plan, state, active, journals>>
    BY <1>9 DEF evars, files, bounded, outsider, vars, store, process
  <2> QED
    BY <2>1, CalmStep
<1> QED
  BY <1>1, <1>2, <1>3, <1>4, <1>5, <1>6, <1>7, <1>8, <1>9 DEF ENext, EProgress, EEnvironment

\* What is known of the record and of the files.
EngineInv == ProtocolInv /\ FilesInv

\* EngineInv holds at first.
LEMMA EngineInvInit == EInit => EngineInv
<1> SUFFICES ASSUME EInit PROVE EngineInv
  OBVIOUS
<1>1. Init
  BY DEF EInit
<1>2. OrderInv /\ PointInv
  BY <1>1 DEF Init, OrderInv, PointInv
<1> QED
  BY <1>1, <1>2, ControlInit, RecordInit, FilesInit DEF EngineInv, ProtocolInv

\* EngineInv is inductive.
LEMMA EngineInvStep == EngineInv /\ [ENext]_evars => EngineInv'
<1> SUFFICES ASSUME EngineInv, [ENext]_evars PROVE EngineInv'
  OBVIOUS
<1>1. [Next]_vars
  BY EngineStep
<1>2. ProtocolInv'
  BY <1>1, ControlStep, RecordStep, OrderStep, PointStep DEF EngineInv, ProtocolInv
<1> QED
  BY <1>2, FilesStep DEF EngineInv

(* A settled transaction leaves no staging, tombstone, anchor or work      *)
(* entry behind: before a record is detached, every step of cleanup was    *)
(* confirmed against the disk, and an effect is recorded undone only when  *)
(* its last planned step has been (run_plan, settle.py); outside writes,   *)
(* kills and power cuts included.                                          *)
THEOREM ScratchHolds == ESpec => []ScratchCleared
<1>1. EngineInv => ScratchCleared
  <2> SUFFICES ASSUME EngineInv, NEW t \in Txns, state[t] \in TerminalStates, active # t,
                      NEW i \in Effects
               PROVE  Free(world, i)
    BY DEF ScratchCleared
  <2>1. CASE state[t] = "committed"
    BY <2>1 DEF EngineInv, FilesInv, ClearInv, AllClear
  <2>2. CASE state[t] = "rolled_back"
    <3>1. RolledBackLanguage(journals[t])
      BY <2>2 DEF EngineInv, ProtocolInv, RecordInv, JournalsReachable, ReachableJournal,
                  LastState
    <3>2. journals[t][i] \in Unwound
      BY <3>1 DEF RolledBackLanguage, Unwound
    <3> QED
      BY <3>2 DEF EngineInv, FilesInv, ClearInv
  <2> QED
    BY <2>1, <2>2 DEF TerminalStates
<1> QED
  BY <1>1, EngineInvInit, EngineInvStep, PTL DEF ESpec
-----------------------------------------------------------------------------
(* Objects on the way to a commit: no two of the names that a forward run  *)
(* moves objects between lead to one object.                               *)

\* An anchor is a second name of the moved file; it never goes live.
Holders == Paths \cup {i \in Effects : program[i].kind # "move"}

Apart(w) ==
  \A s, u \in Holders : s # u /\ w.names[s] = w.names[u] => w.names[s] = NoObj

(* What a system call of effect i may change: its own three names and its  *)
(* own object.                                                             *)
Contained(v, w, i) ==
  /\ w.stuffed = v.stuffed
  /\ \A s \in Named \ {i, program[i].path, program[i].dest} : w.names[s] = v.names[s]
  /\ \A o \in Objects \ {i} : w.inode[o] = v.inode[o]
  /\ Apart(w)
  /\ \A s \in Named : \/ w.names[s] = NoObj \/ w.names[s] = i
                      \/ \E r \in Named : w.names[s] = v.names[r]

\* The names of an effect.
LEMMA OwnNames ==
  ASSUME ProgramOK, NEW i \in Effects
  PROVE  /\ program[i].path \in Paths /\ program[i].dest \in Paths
         /\ program[i].path \in Holders /\ program[i].dest \in Holders
         /\ program[i].path \in Named /\ program[i].dest \in Named
         /\ program[i].path # i /\ program[i].dest # i
         /\ i \in Named /\ i \in Objects /\ i # NoObj /\ i \notin Paths
         /\ program[i].kind # "move" => i \in Holders /\ program[i].dest = program[i].path
         /\ program[i].kind \in Kinds /\ Holders \subseteq Named
BY SlotsApart DEF ProgramOK, WellFormed, Touches, Named, Holders

\* Binding names changes no object.
LEMMA NamesOnly ==
  ASSUME NEW v, Solid(v), NEW s, NEW o, NEW r, NEW x
  PROVE  /\ SetName(v, s, o).inode = v.inode /\ SetName(v, s, o).stuffed = v.stuffed
         /\ SetNames(v, s, o, r, x).inode = v.inode
         /\ SetNames(v, s, o, r, x).stuffed = v.stuffed
<1>1. PICK f : f = [v.names EXCEPT ![s] = o]
  OBVIOUS
<1>2. SetName(v, s, o) = [names |-> f, inode |-> v.inode, stuffed |-> v.stuffed]
  BY <1>1 DEF SetName, Solid
<1>3. PICK g : g = [[v.names EXCEPT ![s] = o] EXCEPT ![r] = x]
  OBVIOUS
<1>4. SetNames(v, s, o, r, x) = [names |-> g, inode |-> v.inode, stuffed |-> v.stuffed]
  <2>1. [v EXCEPT !.names[s] = o] = [names |-> f, inode |-> v.inode, stuffed |-> v.stuffed]
    BY <1>1 DEF Solid
  <2>2. SetNames(v, s, o, r, x) = [[v EXCEPT !.names[s] = o] EXCEPT !.names[r] = x]
    BY DEF SetNames
  <2> QED
    BY <1>1, <1>3, <2>1, <2>2
<1> QED
  BY <1>2, <1>4

\* A name of the effect is removed, or the anchor is made.
LEMMA OneContained ==
  ASSUME ProgramOK, NEW i \in Effects, NEW v, Solid(v), Apart(v),
         NEW s \in {i, program[i].path, program[i].dest}, NEW o,
         \/ o = NoObj
         \/ s = i /\ program[i].kind = "move" /\ \E r \in Named : o = v.names[r]
  PROVE  Contained(v, SetName(v, s, o), i)
<1>1. PICK w : w = SetName(v, s, o)
  OBVIOUS
<1>2. s \in Named /\ Holders \subseteq Named
  BY OwnNames
<1>3. w.names[s] = o /\ \A k \in Named \ {s} : w.names[k] = v.names[k]
  BY <1>1, <1>2, OneNameMoves
<1>4. w.inode = v.inode /\ w.stuffed = v.stuffed
  BY <1>1, NamesOnly
<1>5. o = NoObj \/ s \notin Holders
  BY SlotsApart DEF Holders
<1>6. Apart(w)
  BY <1>2, <1>3, <1>5 DEF Apart
<1> QED
  BY <1>1, <1>2, <1>3, <1>4, <1>6 DEF Contained

\* An object is renamed, or two are exchanged.
LEMMA TwoContained ==
  ASSUME ProgramOK, NEW i \in Effects, NEW v, Solid(v), Apart(v),
         NEW s \in {i, program[i].path, program[i].dest} \cap Holders,
         NEW r \in {i, program[i].path, program[i].dest} \cap Holders, s # r,
         NEW x \in {v.names[s], NoObj}
  PROVE  Contained(v, SetNames(v, s, v.names[r], r, x), i)
<1>1. PICK w : w = SetNames(v, s, v.names[r], r, x)
  OBVIOUS
<1>2. s \in Named /\ r \in Named /\ Holders \subseteq Named
  BY OwnNames
<1>3. /\ w.names[s] = v.names[r] /\ w.names[r] = x
      /\ \A k \in Named \ {s, r} : w.names[k] = v.names[k]
  BY <1>1, <1>2, TwoNamesMove
<1>4. w.inode = v.inode /\ w.stuffed = v.stuffed
  BY <1>1, NamesOnly
<1>5. Apart(w)
  <2> SUFFICES ASSUME NEW a \in Holders, NEW b \in Holders, a # b, w.names[a] = w.names[b]
               PROVE  w.names[a] = NoObj
    BY DEF Apart
  <2>1. \A c, d \in Holders : c # d /\ v.names[c] = v.names[d] => v.names[c] = NoObj
    BY DEF Apart
  <2>2. CASE a \notin {s, r} /\ b \notin {s, r}
    BY <1>2, <1>3, <2>1, <2>2
  <2>3. CASE a = s
    BY <1>2, <1>3, <2>1, <2>3
  <2>4. CASE a = r
    BY <1>2, <1>3, <2>1, <2>4
  <2>5. CASE b = s
    BY <1>2, <1>3, <2>1, <2>5
  <2>6. CASE b = r
    BY <1>2, <1>3, <2>1, <2>6
  <2> QED
    BY <2>2, <2>3, <2>4, <2>5, <2>6
<1> QED
  BY <1>1, <1>2, <1>3, <1>4, <1>5 DEF Contained

\* A staged file or a work directory is made of an object that was nowhere.
LEMMA NewContained ==
  ASSUME ProgramOK, NEW i \in Effects, NEW v, Solid(v), Apart(v), NEW st, st # "absent",
         \A s \in Named : v.names[s] # i
  PROVE  /\ Contained(v, NewObject(v, i, i, st), i)
         /\ \A s \in Named \ {i} : NewObject(v, i, i, st).names[s] # i
<1>1. PICK f, g : f = [v.names EXCEPT ![i] = i] /\ g = [v.inode EXCEPT ![i] = st]
  OBVIOUS
<1>2. PICK w : w = [names |-> f, inode |-> g, stuffed |-> v.stuffed]
  OBVIOUS
<1>3. NewObject(v, i, i, st) = w
  <2>1. [v EXCEPT !.names[i] = i] = [names |-> f, inode |-> v.inode, stuffed |-> v.stuffed]
    BY <1>1 DEF Solid
  <2>2. NewObject(v, i, i, st) = [[v EXCEPT !.names[i] = i] EXCEPT !.inode[i] = st]
    BY DEF NewObject
  <2> QED
    BY <1>1, <1>2, <2>1, <2>2
<1>4. /\ i \in Named /\ i # NoObj /\ Holders \subseteq Named
      /\ f[i] = i /\ \A s \in Named \ {i} : f[s] = v.names[s]
      /\ \A o \in Objects \ {i} : g[o] = v.inode[o]
  BY <1>1, OwnNames DEF Solid
<1>5. Apart(w)
  BY <1>2, <1>4 DEF Apart
<1> QED
  BY <1>2, <1>3, <1>4, <1>5 DEF Contained

\* The effect's object is written to.
LEMMA WriteContained ==
  ASSUME ProgramOK, NEW i \in Effects, NEW v, Solid(v), Apart(v), NEW st
  PROVE  Contained(v, SetInode(v, i, st), i) /\ SetInode(v, i, st).names = v.names
<1>1. PICK g : g = [v.inode EXCEPT ![i] = st]
  OBVIOUS
<1>2. PICK w : w = [names |-> v.names, inode |-> g, stuffed |-> v.stuffed]
  OBVIOUS
<1>3. SetInode(v, i, st) = w
  BY <1>1, <1>2 DEF SetInode, Solid
<1>4. \A o \in Objects \ {i} : g[o] = v.inode[o]
  BY <1>1 DEF Solid
<1>5. Apart(w)
  BY <1>2 DEF Apart
<1> QED
  BY <1>2, <1>3, <1>4, <1>5 DEF Contained

\* Nothing happens.
LEMMA NothingContained ==
  ASSUME NEW v, Apart(v), NEW i
  PROVE  Contained(v, v, i)
BY DEF Contained

Nowhere(o) == \A s \in Named : world.names[s] # o

BuildInv ==
  \A i \in Effects : Applying(i, "building") \/ Applying(i, "built") =>
    \A s \in Named \ {i} : world.names[s] # i

\* What a step of applying effect i does, and what it has then established.
AppliedBy(i) ==
  /\ Contained(world, world', i)
  /\ stage' # "begin"
  /\ world'.inode = world.inode \/ stage \in {"begin", "building", "built"}
  /\ stage' \in {"building", "built"} => \A s \in Named \ {i} : world'.names[s] # i
  /\ stage' = "landed" =>
       /\ program[i].kind \in {"create", "mkdir"} => world'.names[i] = NoObj
       /\ program[i].kind \in {"delete", "move"} => world'.names[program[i].path] = NoObj
  /\ stage' = "verified" => world' = world /\ stage = "landed" /\ Landed(i)

\* A step that leaves the names alone, or ends the application.
LEMMA AppliedPlainly ==
  ASSUME NEW i \in Effects, Contained(world, world', i),
         stage' \in {"ready", "linked", "refusing", "failed", "undoing"},
         world'.inode = world.inode \/ stage \in {"begin", "building", "built"}
  PROVE  AppliedBy(i)
BY DEF AppliedBy

\* The rename or exchange.
LEMMA LandApplied ==
  ASSUME Solid(world), ProgramOK, Apart(world), NEW i \in Effects, Land(i)
  PROVE  AppliedBy(i)
<1> USE DEF Work
<1>1. PICK e : e = program[i]
  OBVIOUS
<1>2. /\ e.path \in Named /\ e.dest \in Named /\ i \in Named
      /\ e.path # i /\ e.dest # i /\ e.path \in Holders /\ e.dest \in Holders
      /\ e.kind # "move" => i \in Holders
      /\ e.kind \in Kinds
  BY <1>1, OwnNames
<1>3. ASSUME stage' \in {"refusing", "failed"}, world' = world
      PROVE  AppliedBy(i)
  BY <1>3, NothingContained, AppliedPlainly
<1>4. ASSUME NEW s \in {i, e.path, e.dest} \cap Holders, NEW r \in {i, e.path, e.dest} \cap Holders,
             s # r, NEW x \in {world.names[s], NoObj},
             world' = SetNames(world, s, world.names[r], r, x), stage' = "landed",
             e.kind \in {"create", "mkdir"} => r = i /\ x = NoObj,
             e.kind \in {"delete", "move"} => r = e.path /\ x = NoObj
      PROVE  AppliedBy(i)
  <2>1. PICK w : w = SetNames(world, s, world.names[r], r, x)
    OBVIOUS
  <2>2. Contained(world, w, i)
    BY <1>1, <1>4, <2>1, TwoContained
  <2>3. w.inode = world.inode
    BY <2>1, NamesOnly
  <2>4. w.names[r] = x
    BY <1>2, <1>4, <2>1, TwoNamesMove
  <2> QED
    BY <1>1, <1>4, <2>1, <2>2, <2>3, <2>4 DEF AppliedBy
<1>5. CASE e.kind \in {"create", "mkdir"}
  <2>1. \/ world' = world /\ stage' \in {"refusing", "failed"}
        \/ world' = Rename(world, i, e.path) /\ stage' = "landed"
    BY <1>1, <1>5 DEF Land
  <2>2. Rename(world, i, e.path) = SetNames(world, e.path, world.names[i], i, NoObj)
    BY DEF Rename, SetNames
  <2> QED
    BY <1>2, <1>3, <1>4, <1>5, <2>1, <2>2
<1>6. CASE e.kind = "delete"
  <2>1. \/ world' = world /\ stage' \in {"refusing", "failed"}
        \/ world' = Rename(world, e.path, i) /\ stage' = "landed"
    BY <1>1, <1>6 DEF Land
  <2>2. Rename(world, e.path, i) = SetNames(world, i, world.names[e.path], e.path, NoObj)
    BY DEF Rename, SetNames
  <2> QED
    BY <1>2, <1>3, <1>4, <1>6, <2>1, <2>2
<1>7. CASE e.kind = "move"
  <2>1. \/ world' = world /\ stage' \in {"refusing", "failed"}
        \/ /\ world' = Rename(world, e.path, e.dest) /\ stage' = "landed"
           /\ ~Free(world, e.path) /\ Free(world, e.dest)
    BY <1>1, <1>7 DEF Land
  <2>2. Rename(world, e.path, e.dest) = SetNames(world, e.dest, world.names[e.path], e.path, NoObj)
    BY DEF Rename, SetNames
  <2> QED
    BY <1>2, <1>3, <1>4, <1>7, <2>1, <2>2 DEF Free
<1>8. CASE e.kind = "replace"
  <2>1. \/ world' = world /\ stage' \in {"refusing", "failed"}
        \/ world' = Apply(program, world, "exchange", i) /\ stage' = "landed"
    BY <1>1, <1>8 DEF Land
  <2>2. Apply(program, world, "exchange", i)
          = SetNames(world, e.path, world.names[i], i, world.names[e.path])
    BY <1>1, ApplyBinds
  <2> QED
    BY <1>2, <1>3, <1>4, <1>8, <2>1, <2>2
<1> QED
  BY <1>2, <1>5, <1>6, <1>7, <1>8 DEF Kinds

\* A mismatch after the rename is put back.
LEMMA UndoApplied ==
  ASSUME Solid(world), ProgramOK, StageInv, Apart(world), NEW i \in Effects, UndoLanding(i)
  PROVE  AppliedBy(i)
<1> USE DEF Work
<1>1. PICK e : e = program[i]
  OBVIOUS
<1>2. /\ e.path \in Named /\ e.dest \in Named /\ i \in Named
      /\ e.path # i /\ e.dest # i /\ e.path \in Holders /\ e.dest \in Holders
      /\ e.kind # "move" => i \in Holders
  BY <1>1, OwnNames
<1>3. e.kind \in {"replace", "delete", "move"} /\ stage' = "failed"
  BY <1>1 DEF UndoLanding, StageInv
<1>4. CASE world' = world
  BY <1>3, <1>4, NothingContained, AppliedPlainly
<1>5. ASSUME NEW s \in {i, e.path, e.dest} \cap Holders, NEW r \in {i, e.path, e.dest} \cap Holders,
             s # r, NEW x \in {world.names[s], NoObj},
             world' = SetNames(world, s, world.names[r], r, x)
      PROVE  AppliedBy(i)
  <2>1. PICK w : w = SetNames(world, s, world.names[r], r, x)
    OBVIOUS
  <2>2. Contained(world, w, i)
    BY <1>1, <1>5, <2>1, TwoContained
  <2>3. w.inode = world.inode
    BY <2>1, NamesOnly
  <2> QED
    BY <1>3, <1>5, <2>1, <2>2, <2>3, AppliedPlainly
<1>6. CASE e.kind = "replace" /\ world' # world
  <2>1. world' = Apply(program, world, "exchange", i)
    BY <1>1, <1>6 DEF UndoLanding
  <2>2. Apply(program, world, "exchange", i)
          = SetNames(world, e.path, world.names[i], i, world.names[e.path])
    BY <1>1, ApplyBinds
  <2> QED
    BY <1>2, <1>5, <1>6, <2>1, <2>2
<1>7. CASE e.kind = "delete" /\ world' # world
  <2>1. world' = Apply(program, world, "restore", i)
    BY <1>1, <1>7 DEF UndoLanding
  <2>2. Apply(program, world, "restore", i) = SetNames(world, e.path, world.names[i], i, NoObj)
    BY <1>1, ApplyBinds
  <2> QED
    BY <1>2, <1>5, <1>7, <2>1, <2>2
<1>8. CASE e.kind = "move" /\ world' # world
  <2>1. /\ world' = Apply(program, world, "move_back", i)
        /\ Possible(program, world, "move_back", i)
    BY <1>1, <1>8 DEF UndoLanding
  <2>2. Apply(program, world, "move_back", i)
          = SetNames(world, e.path, world.names[e.dest], e.dest, NoObj)
    BY <1>1, ApplyBinds
  <2>3. e.path # e.dest
    BY <1>1, <2>1 DEF Possible, Free
  <2> QED
    BY <1>2, <1>5, <2>1, <2>2, <2>3
<1> QED
  BY <1>3, <1>4, <1>6, <1>7, <1>8

(* Every system call of an effect stays within the effect's names and its  *)
(* own object, and keeps objects apart.                                    *)
LEMMA ApplyContained ==
  ASSUME Solid(world), ProgramOK, StageInv, BuildInv, Apart(world), NEW i \in Effects,
         Applying(i, "begin") => Nowhere(i), ApplyEffect(i)
  PROVE  AppliedBy(i)
<1> USE DEF Work
<1>1. /\ program[i].path \in Named /\ i \in Named /\ i \in Objects
      /\ i \in {i, program[i].path, program[i].dest}
  BY OwnNames
<1>2. ASSUME NEW st, st # "absent", Applying(i, "begin"), Work(Built(i, st), "building")
                                                       \/ Work(Built(i, st), "built")
      PROVE  AppliedBy(i)
  <2>1. PICK w : w = NewObject(world, i, i, st)
    OBVIOUS
  <2>2. Contained(world, w, i) /\ \A s \in Named \ {i} : w.names[s] # i
    BY <1>2, <2>1, NewContained DEF Nowhere
  <2>3. world' = w /\ stage = "begin" /\ stage' \in {"building", "built"}
    BY <1>2, <2>1 DEF Built, NewObject, Applying
  <2> QED
    BY <2>2, <2>3 DEF AppliedBy
<1>3. ASSUME NEW st, \/ Applying(i, "building") /\ Work(SetInode(world, i, st), "built")
                     \/ Applying(i, "built") /\ Work(SetInode(world, i, st), "ready")
      PROVE  AppliedBy(i)
  <2>1. PICK w : w = SetInode(world, i, st)
    OBVIOUS
  <2>2. Contained(world, w, i) /\ w.names = world.names
    BY <2>1, WriteContained
  <2>3. world' = w /\ stage \in {"building", "built"} /\ stage' \in {"built", "ready"}
    BY <1>3, <2>1 DEF Applying
  <2>4. \A s \in Named \ {i} : world.names[s] # i
    BY <1>3 DEF BuildInv
  <2> QED
    BY <2>2, <2>3, <2>4 DEF AppliedBy
<1>4. ASSUME NEW o, \/ o = NoObj
                    \/ program[i].kind = "move" /\ \E r \in Named : o = world.names[r],
             Work(SetName(world, i, o), "linked") \/ Work(SetName(world, i, o), "failed")
      PROVE  AppliedBy(i)
  <2>1. PICK w : w = SetName(world, i, o)
    OBVIOUS
  <2>2. Contained(world, w, i)
    BY <1>1, <1>4, <2>1, OneContained
  <2>3. w.inode = world.inode /\ world' = w /\ stage' \in {"linked", "failed"}
    BY <1>4, <2>1, NamesOnly
  <2> QED
    BY <2>2, <2>3, AppliedPlainly
<1>5. ASSUME NEW next \in {"ready", "linked", "refusing", "failed", "undoing"}, Work(world, next)
      PROVE  AppliedBy(i)
  BY <1>5, NothingContained, AppliedPlainly
<1>6. CASE CreateStaging(i)
  <2>1. PICK st : st # "absent" /\ Work(Built(i, st), "building")
    BY <1>6 DEF CreateStaging, ProgramOK
  <2> QED
    BY <1>2, <1>6, <2>1 DEF CreateStaging
<1>7. CASE MakeWork(i)
  BY <1>2, <1>7 DEF MakeWork
<1>8. CASE WriteStaging(i)
  BY <1>3, <1>8 DEF WriteStaging, SetInode
<1>9. CASE SetMode(i)
  BY <1>3, <1>9 DEF SetMode, SetInode
<1>10. CASE LinkAnchor(i)
  <2>1. PICK o : o = world.names[program[i].path]
    OBVIOUS
  <2> QED
    BY <1>1, <1>4, <1>5, <1>10, <2>1 DEF LinkAnchor, SetName
<1>11. CASE CheckAnchor(i)
  BY <1>5, <1>11 DEF CheckAnchor
<1>12. CASE Verify(i)
  <2>1. CASE Landed(i)
    <3>1. world' = world /\ stage = "landed" /\ stage' = "verified"
      BY <1>12, <2>1 DEF Verify, Applying
    <3> QED
      BY <2>1, <3>1, NothingContained DEF AppliedBy
  <2>2. CASE ~Landed(i)
    BY <1>5, <1>12, <2>2 DEF Verify
  <2> QED
    BY <2>1, <2>2
<1>13. CASE Withdraw(i)
  BY <1>4, <1>13 DEF Withdraw, Unlink, SetName
<1>14. CASE Land(i) \/ UndoLanding(i)
  BY <1>14, LandApplied, UndoApplied
<1> QED
  BY <1>6, <1>7, <1>8, <1>9, <1>10, <1>11, <1>12, <1>13, <1>14 DEF ApplyEffect

Forward == {"register", "bind", "begin", "effects", "apply", "verify", "commit"}

Unprepared == \A t \in Txns : state[t] = "none"

\* A forward run is under way, or may still begin.
Early == Unprepared \/ pc \in Forward

Decided == \E t \in Txns : LastState(t) = "committed"

\* How the record can move, as far as the files have to know.
RecordMoves ==
  /\ pc' \in Forward =>
       \/ pc \in Forward /\ active' = active
       \/ active' \in Txns /\ state[active'] = "none" /\ journals' = journals
  /\ pc' = "commit" => pc = "commit" \/ VerifyCommittedSurface
  /\ \A t \in Txns : \A i \in Effects :
       /\ journals'[t][i] = "pending" => journals[t][i] = "pending"
       /\ pc' \in Forward /\ journals'[t][i] = "done" => journals[t][i] = "done" \/ FinishEffect(i)
  /\ \A t \in Txns :
       /\ state'[t] = "none" => state[t] = "none"
       /\ LastState(t)' = "committed" => LastState(t) = "committed" \/ pc = "commit"

(* A run goes forward from preparation to the decision without a break,    *)
(* and only its last point leads to the decision.                          *)
LEMMA RecordMoving ==
  ASSUME ControlInv, [Next]_vars
  PROVE  RecordMoves
<1> USE DEF RecordMoves, Forward, LastState
<1>0. /\ pc \notin {"idle", "resolve", "ready"} =>
           active \in Txns /\ state[active] \notin {"none", "halted"}
      /\ state \in [Txns -> TransactionStates \cup {"none"}]
      /\ pre_halt_state \in [Txns -> TransactionStates \cup {"none"}]
      /\ journals \in [Txns -> [Effects -> JournalStates]]
  BY DEF ControlInv, PointMatchesState, Working, TypeOK, Journals
<1>1. CASE Acquire \/ Resolve \/ Release \/ Classify
  BY <1>1 DEF Acquire, Resolve, ResolveNothing, ResolveHalted, ResolveActive, Release, Goto,
              Classify, ClassifyTerminal, ClassifyHalt, ClassifyCommitted, ClassifyRollback,
              Adopt, store
<1>2. CASE Reconcile
  <2>1. CASE ReconcileDone
    BY <2>1 DEF ReconcileDone, Goto, store
  <2>2. CASE \/ ReconcileAppendRegistration \/ ReconcileBindRegistration
             \/ ReconcileAppendSettlement \/ ReconcileBindSettlement
    <3>1. UNCHANGED <<pc, active, state, journals, pre_halt_state>> /\ pc = "reconcile"
      BY <2>2 DEF ReconcileAppendRegistration, ReconcileBindRegistration,
                  ReconcileAppendSettlement, ReconcileBindSettlement, Publish,
                  BindRegistrationDigest, BindSettlementDigest, process, store
    <3> QED
      BY <3>1
  <2> QED
    BY <1>2, <2>1, <2>2 DEF Reconcile
<1>3. CASE ApproveTopology \/ AssemblyHalt \/ CaughtFailure \/ Crash
  BY <1>3 DEF ApproveTopology, AssemblyHalt, CaughtFailure, Crash, Goto, store
<1>4. CASE RunPlan
  <2>1. CASE PersistRollingBack
    BY <1>0, <2>1 DEF PersistRollingBack, SetState, process
  <2>2. CASE PersistRolledBack
    BY <1>0, <2>2 DEF PersistRolledBack, process
  <2>3. CASE PersistHalt
    BY <1>0, <2>3 DEF PersistHalt
  <2>4. CASE ReachDetach \/ DetachActive
    BY <2>4 DEF ReachDetach, DetachActive, Goto, store
  <2>5. ASSUME NEW i \in Effects, PersistUndoStarted(i) \/ PersistUndone(i)
        PROVE  RecordMoves
    <3>1. PICK s \in {"undo_started", "undone"} : journals' = [journals EXCEPT ![active][i] = s]
      BY <2>5 DEF PersistUndoStarted, PersistUndone, SetJournal
    <3>2. pc' = "plan" /\ UNCHANGED <<active, state, pre_halt_state>> /\ active \in Txns
      BY <1>0, <2>5 DEF PersistUndoStarted, PersistUndone, SetJournal, process
    <3> QED
      BY <1>0, <3>1, <3>2
  <2> QED
    BY <1>4, <2>1, <2>2, <2>3, <2>4, <2>5 DEF RunPlan
<1>5. CASE Execute
  <2>1. CASE AppendRegistration \/ BindRegistration \/ AppendSettlement \/ BindSettlement
    BY <2>1 DEF AppendRegistration, BindRegistration, AppendSettlement, BindSettlement, Goto,
                Publish, BindRegistrationDigest, BindSettlementDigest, store
  <2>2. CASE BeginApplying \/ FinishApplying
    BY <1>0, <2>2 DEF BeginApplying, FinishApplying, Goto, SetState
  <2>3. CASE VerifyCommittedSurface
    BY <2>3 DEF VerifyCommittedSurface, Goto, store
  <2>4. CASE DecideCommit
    BY <1>0, <2>4 DEF DecideCommit, Goto
  <2>5. ASSUME NEW i \in Effects, StartEffect(i) \/ FinishEffect(i)
        PROVE  RecordMoves
    <3>1. PICK s \in {"started", "done"} :
            /\ journals' = [journals EXCEPT ![active][i] = s]
            /\ s = "done" => FinishEffect(i)
      BY <2>5 DEF StartEffect, FinishEffect, SetJournal
    <3>2. /\ pc \in Forward /\ pc' \in {"effects", "apply"}
          /\ UNCHANGED <<active, state, pre_halt_state>> /\ active \in Txns
      BY <1>0, <2>5 DEF StartEffect, FinishEffect, SetJournal, Goto
    <3>3. \A t \in Txns : \A k \in Effects :
            journals'[t][k] = IF t = active /\ k = i THEN s ELSE journals[t][k]
      BY <1>0, <3>1
    <3> QED
      BY <3>1, <3>2, <3>3
  <2> QED
    BY <1>5, <2>1, <2>2, <2>3, <2>4, <2>5 DEF Execute
<1>6. ASSUME NEW t \in Txns, PrepareTransaction(t)
      PROVE  RecordMoves
  BY <1>0, <1>6 DEF PrepareTransaction
<1>7. CASE UNCHANGED vars
  BY <1>7 DEF vars
<1> QED
  BY <1>1, <1>2, <1>3, <1>4, <1>5, <1>6, <1>7 DEF Next, Progress, Environment

ApartInv == Early \/ Decided => Apart(world)

(* What the outside writer will write next is nowhere yet, nor is the      *)
(* object of an effect that has made nothing.                              *)
UnusedInv ==
  /\ Early \/ Decided => \A n \in (N + outside + 1)..(N + MaxOutside) : Nowhere(n)
  /\ Early => \A t \in Txns : \A i \in Effects :
       journals[t][i] = "pending" \/ Applying(i, "begin") => Nowhere(i)

\* Cleanup removes scratch names, each in one step.
Dropping(planned) == planned = <<>> \/ (planned = <<planned[1]>> /\ planned[1].op = "drop")

DropInv == pc = "plan" /\ plan = "cleanup" => \A i \in Effects : Dropping(steps[i])

Installed == \A p \in Declared(program) \ touched : At(world, p) = Final(program, p)

InstallInv == pc = "commit" \/ Decided => Installed

\* A path that no later effect has been begun on.
Latest(i, p) ==
  \A k \in Effects : k > i /\ p \in Touches(program[k]) => journals[active][k] = "pending"

(* What an effect that was applied leaves: an empty slot or the file that  *)
(* was there, and its result where no later effect has begun.              *)
Standing(i) ==
  /\ program[i].kind \in {"create", "mkdir"} => Free(world, i)
  /\ program[i].kind \in {"replace", "delete", "move"} => At(world, i) = program[i].pre
  /\ \A p \in Touches(program[i]) : Latest(i, p) =>
       /\ At(world, p) = PostAt(program[i], p)
       /\ program[i].kind = "move" /\ p = program[i].dest => SameObject(world, i, p)

DoneInv ==
  /\ touched = {} /\ Early => world.stuffed = {}
  /\ touched = {} /\ pc \in Forward => \A i \in Effects :
       /\ journals[active][i] = "done" \/ Applying(i, "verified") => Standing(i)
       /\ Applying(i, "landed") =>
            /\ program[i].kind \in {"create", "mkdir"} => Free(world, i)
            /\ program[i].kind \in {"delete", "move"} => Free(world, program[i].path)

CommitInv == ApartInv /\ UnusedInv /\ BuildInv /\ DropInv /\ InstallInv /\ DoneInv

\* The run does not begin in the middle.
LEMMA EarlyKept ==
  ASSUME RecordMoves
  PROVE  /\ Early' => Early
         /\ Early' \/ Decided' => Early \/ Decided
         /\ Decided' => Decided \/ pc = "commit"
<1>1. Decided' => Decided \/ pc = "commit"
  BY DEF RecordMoves, Decided, LastState
<1>2. ASSUME Early' PROVE Early
  <2>1. CASE Unprepared'
    BY <2>1 DEF Unprepared, RecordMoves, Early
  <2>2. CASE pc' \in Forward
    BY <2>2, OneTransaction DEF RecordMoves, Early, Unprepared
  <2> QED
    BY <1>2, <2>1, <2>2 DEF Early
<1> QED
  BY <1>1, <1>2 DEF Early, Forward

(* A step that leaves the files alone: what is left to see is that the     *)
(* record claims nothing new of them.                                      *)
LEMMA CalmCommit ==
  ASSUME EngineInv, CommitInv, RecordMoves, UNCHANGED <<program, world, outside, touched>>,
         pc' = "apply" => \/ UNCHANGED <<pc, journals, active, stage>>
                          \/ /\ stage' = "begin"
                             /\ \A i \in Effects : journals'[active'][i] = "started" => Nowhere(i),
         pc' = "commit" => pc = "commit" \/ CommittedSurface,
         pc' = "plan" /\ plan' = "cleanup" => \A i \in Effects : Dropping(steps'[i]),
         \A i \in Effects : pc' \in Forward /\ FinishEffect(i) => stage = "verified"
  PROVE  CommitInv'
<1>1. ApartInv'
  BY EarlyKept DEF CommitInv, ApartInv, Apart, Holders
<1>2. UnusedInv'
  BY EarlyKept DEF CommitInv, UnusedInv, Nowhere, Applying, RecordMoves
<1>3. BuildInv'
  BY DEF CommitInv, BuildInv, Applying
<1>4. DropInv'
  BY DEF DropInv
<1>5. InstallInv'
  <2>1. CommittedSurface => Installed
    BY DEF CommittedSurface, Installed
  <2>2. Installed => Installed'
    BY DEF Installed
  <2> QED
    BY <2>1, <2>2, EarlyKept DEF CommitInv, InstallInv
<1>6. DoneInv'
  <2>1. touched' = {} /\ Early' => world'.stuffed = {}
    BY EarlyKept DEF CommitInv, DoneInv
  <2>2. ASSUME touched' = {}, pc' \in Forward, NEW i \in Effects,
               journals'[active'][i] = "done" \/ Applying(i, "verified")'
        PROVE  Standing(i)'
    <3>1. pc \in Forward /\ active' = active
      <4>1. ASSUME active' \in Txns, state[active'] = "none", journals' = journals
            PROVE  \A k \in Effects : journals'[active'][k] = "pending"
        BY <4>1 DEF EngineInv, ProtocolInv, RecordInv, JournalsReachable, ReachableJournal,
                    LastState, AllAre
      <4> QED
        BY <2>2, <4>1 DEF RecordMoves, Applying
    <3>2. active \in Txns
      BY <3>1 DEF EngineInv, ProtocolInv, ControlInv, PointMatchesState, Working, Forward
    <3>3. journals[active][i] = "done" \/ Applying(i, "verified")
      BY <2>2, <3>1, <3>2 DEF RecordMoves, Applying, FinishEffect
    <3>4. Standing(i)
      BY <2>2, <3>1, <3>3 DEF CommitInv, DoneInv
    <3>5. \A p : Latest(i, p)' => Latest(i, p)
      BY <3>1, <3>2 DEF Latest, RecordMoves
    <3> QED
      BY <3>4, <3>5 DEF Standing
  <2>3. ASSUME touched' = {}, pc' \in Forward, NEW i \in Effects, Applying(i, "landed")'
        PROVE  /\ program'[i].kind \in {"create", "mkdir"} => Free(world', i)
               /\ program'[i].kind \in {"delete", "move"} => Free(world', program'[i].path)
    BY <2>3 DEF CommitInv, DoneInv, Applying
  <2> QED
    BY <2>1, <2>2, <2>3 DEF DoneInv
<1> QED
  BY <1>1, <1>2, <1>3, <1>4, <1>5, <1>6 DEF CommitInv

\* What is observed at a name depends on the name and the object it leads to.
LEMMA AtKept ==
  ASSUME NEW v, NEW w, Solid(v), NEW s \in Named, NEW i, w.names[s] = v.names[s],
         \A o \in Objects \ {i} : w.inode[o] = v.inode[o],
         w.inode = v.inode \/ v.names[s] # i
  PROVE  At(w, s) = At(v, s)
BY DEF At, Solid

\* A system call of an effect.
LEMMA ApplyCommit ==
  ASSUME EngineInv, CommitInv, NEW i \in Effects, ApplyEffect(i)
  PROVE  CommitInv'
<1>1. /\ Solid(world) /\ ProgramOK /\ StageInv /\ BuildInv /\ FilesOf(i)
  BY ApplyEffectFiles DEF EngineInv, FilesInv, CommitInv
<1>2. /\ pc = "apply" /\ journals[active][i] = "started"
      /\ UNCHANGED <<pc, journals, state, active, program, steps, outside, touched, pre_halt_state>>
  BY <1>1 DEF FilesOf, vars, store, process, bounded, outsider
<1>3. /\ Early /\ active \in Txns /\ \A t \in Txns : t = active
      /\ state[active] = "applying"
  BY <1>2, ActiveRecord DEF EngineInv, Early, Forward
<1>4. AppliedBy(i)
  BY <1>1, <1>3, ApplyContained DEF CommitInv, ApartInv, UnusedInv
<1>5. \A k \in Effects : journals[active][k] = "started" => k = i
  BY <1>2 DEF EngineInv, ProtocolInv, OrderInv, Effects
<1>6. \A k \in Effects : journals[active][k] = "done" => k < i
  BY <1>2, <1>5 DEF EngineInv, ProtocolInv, OrderInv, Effects
<1>7. Early' /\ ~Decided /\ ~Decided'
  BY <1>2, <1>3 DEF Early, Forward, Decided, LastState
<1>8. ApartInv'
  BY <1>2, <1>4 DEF AppliedBy, Contained, ApartInv, Apart, Holders
<1>9. UnusedInv'
  <2>1. ASSUME NEW o, o # NoObj, o # i, Nowhere(o) PROVE Nowhere(o)'
    BY <1>4, <2>1 DEF Nowhere, AppliedBy, Contained
  <2>2. ASSUME NEW n \in (N + outside + 1)..(N + MaxOutside) PROVE n # NoObj /\ n # i
    BY <2>2, <1>1, NamesAssumption, NAssumption, BoundsAssumption
       DEF Objects, Effects, EngineInv, FilesInv
  <2>3. ASSUME NEW k \in Effects, journals[active][k] = "pending" PROVE Nowhere(k)'
    <3>1. k # i /\ k # NoObj /\ Nowhere(k)
      BY <1>2, <1>3, <2>3, SlotsApart DEF CommitInv, UnusedInv
    <3> QED
      BY <2>1, <3>1
  <2>4. \A k \in Effects : ~Applying(k, "begin")'
    BY <1>4 DEF AppliedBy, Applying
  <2> QED
    BY <1>2, <1>3, <1>7, <2>1, <2>2, <2>3, <2>4 DEF CommitInv, UnusedInv
<1>10. BuildInv'
  BY <1>2, <1>4, <1>5 DEF AppliedBy, BuildInv, Applying
<1>11. DropInv' /\ InstallInv'
  BY <1>2, <1>7 DEF DropInv, InstallInv
<1>12. DoneInv'
  <2> SUFFICES ASSUME touched = {} PROVE DoneInv'
    BY <1>2 DEF DoneInv
  <2>1. world'.stuffed = {}
    BY <1>3, <1>4 DEF CommitInv, DoneInv, AppliedBy, Contained
  <2>2. ASSUME NEW k \in Effects, journals[active][k] = "done"
        PROVE  Standing(k)'
    <3>1. k < i /\ k # i /\ Standing(k)
      BY <1>2, <1>6, <2>2 DEF CommitInv, DoneInv, Forward
    <3>2. /\ k \in Named /\ k \notin {i, program[i].path, program[i].dest}
          /\ program[k].path \in Named /\ program[k].dest \in Named /\ i \in Named
          /\ i # program[k].path /\ i # program[k].dest
      BY <1>1, <3>1, OwnNames, SlotsApart
    <3>3. ASSUME NEW s \in Named \ {i, program[i].path, program[i].dest}
          PROVE  At(world', s) = At(world, s) /\ world'.names[s] = world.names[s]
      <4>1. PICK v, w : v = world /\ w = world'
        OBVIOUS
      <4>2. /\ w.names[s] = v.names[s] /\ \A o \in Objects \ {i} : w.inode[o] = v.inode[o]
            /\ w.inode = v.inode \/ stage \in {"begin", "building", "built"}
        BY <1>4, <4>1 DEF AppliedBy, Contained
      <4>3. stage \in {"begin", "building", "built"} => v.names[s] # i
        BY <1>2, <1>3, <4>1 DEF CommitInv, BuildInv, UnusedInv, Applying, Nowhere
      <4>4. At(w, s) = At(v, s)
        BY <1>1, <4>1, <4>2, <4>3, AtKept
      <4> QED
        BY <4>1, <4>2, <4>4
    <3>4. \A p \in Touches(program[k]) :
            Latest(k, p)' => Latest(k, p) /\ p \in Named \ {i, program[i].path, program[i].dest}
      BY <1>2, <3>1, <3>2 DEF Latest, Touches
    <3> QED
      BY <1>2, <3>1, <3>2, <3>3, <3>4 DEF Standing, Free, SameObject
  <2>3. ASSUME Applying(i, "verified")' PROVE Standing(i)'
    <3>1. /\ world' = world /\ Landed(i) /\ Applying(i, "landed")
      BY <1>2, <1>4, <2>3 DEF AppliedBy, Applying
    <3>2. /\ program[i].kind \in {"create", "mkdir"} => Free(world, i)
          /\ program[i].kind \in {"delete", "move"} => Free(world, program[i].path)
      BY <1>2, <3>1 DEF CommitInv, DoneInv, Forward
    <3>3. /\ program[i].kind \in Kinds /\ WellFormed(program[i])
          /\ program[i].path \in Named
      BY <1>1, OwnNames DEF ProgramOK
    <3>4. Free(world, program[i].path) => At(world, program[i].path) = "absent"
      BY DEF Free, At
    <3>5. Standing(i)
      <4>1. CASE program[i].kind \in {"create", "mkdir"}
        BY <3>1, <3>2, <3>3, <4>1 DEF Landed, Standing, WellFormed, Touches, PostAt
      <4>2. CASE program[i].kind = "replace"
        BY <3>1, <3>2, <3>3, <4>2 DEF Landed, Standing, WellFormed, Touches, PostAt
      <4>3. CASE program[i].kind = "delete"
        BY <3>1, <3>2, <3>3, <3>4, <4>3 DEF Landed, Standing, WellFormed, Touches, PostAt
      <4>4. CASE program[i].kind = "move"
        <5>1. At(world, program[i].dest) = program[i].pre /\ SameObject(world, i, program[i].dest)
          BY <3>1, <4>4 DEF Landed
        <5>2. At(world, i) = program[i].pre
          BY <5>1 DEF SameObject, At
        <5> QED
          BY <3>2, <3>3, <3>4, <4>4, <5>1, <5>2 DEF Standing, WellFormed, Touches, PostAt
      <4> QED
        BY <3>3, <4>1, <4>2, <4>3, <4>4 DEF Kinds
    <3>6. \A p : Latest(i, p)' => Latest(i, p)
      BY <1>2 DEF Latest
    <3> QED
      BY <1>2, <3>1, <3>5, <3>6 DEF Standing
  <2>4. ASSUME Applying(i, "landed")'
        PROVE  /\ program[i].kind \in {"create", "mkdir"} => Free(world', i)
               /\ program[i].kind \in {"delete", "move"} => Free(world', program[i].path)
    BY <1>4, <2>4 DEF AppliedBy, Applying, Free
  <2>5. \A k \in Effects : \A s : Applying(k, s)' => k = i
    BY <1>2, <1>5 DEF Applying
  <2> QED
    BY <1>2, <2>1, <2>2, <2>3, <2>4, <2>5 DEF DoneInv
<1> QED
  BY <1>8, <1>9, <1>10, <1>11, <1>12 DEF CommitInv

\* Making an object binds one name and gives one object its state.
LEMMA NewObjectIs ==
  ASSUME NEW v, Solid(v), NEW s, NEW o, NEW st
  PROVE  NewObject(v, s, o, st) = [names |-> [v.names EXCEPT ![s] = o],
                                   inode |-> [v.inode EXCEPT ![o] = st],
                                   stuffed |-> v.stuffed]
<1>1. PICK f, g : f = [v.names EXCEPT ![s] = o] /\ g = [v.inode EXCEPT ![o] = st]
  OBVIOUS
<1>2. [v EXCEPT !.names[s] = o] = [names |-> f, inode |-> v.inode, stuffed |-> v.stuffed]
  BY <1>1 DEF Solid
<1>3. NewObject(v, s, o, st) = [[v EXCEPT !.names[s] = o] EXCEPT !.inode[o] = st]
  BY DEF NewObject
<1> QED
  BY <1>1, <1>2, <1>3

\* What the outside writer does at one live path.
Meddled(p) ==
  /\ p \in Paths /\ p \in Declared(program) /\ active # NoTxn
  /\ outside < MaxOutside /\ outside' = outside + 1
  /\ touched' = touched \cup {p} /\ UNCHANGED <<vars, program, stage, steps>>
  /\ \A s \in Named \ {p} : world'.names[s] = world.names[s]
  /\ world'.names[p] \in {NoObj, world.names[p], N + outside + 1}
  /\ \/ world'.inode = world.inode
     \/ /\ world.names[p] # NoObj
        /\ \A o \in Objects \ {world.names[p]} : world'.inode[o] = world.inode[o]
     \/ \A o \in Objects \ {N + outside + 1} : world'.inode[o] = world.inode[o]

\* It changes that path and what it holds, and nothing beyond.
LEMMA Meddling ==
  ASSUME Solid(world), outside \in 0..MaxOutside, Outside
  PROVE  \E p : Meddled(p)
<1>1. PICK p \in Paths : \/ \E st \in OutsideStates : OutsideWrite(p, st) \/ OutsideEdit(p, st)
                         \/ OutsideRemove(p) \/ OutsideStuff(p)
  BY DEF Outside
<1>2. /\ outside < MaxOutside /\ outside' = outside + 1 /\ p \in Declared(program)
      /\ active # NoTxn /\ touched' = touched \cup {p} /\ UNCHANGED <<vars, program, stage, steps>>
  BY <1>1 DEF OutsideWrite, OutsideEdit, OutsideRemove, OutsideStuff, InReach, Meddle
<1>3. p \in Named
  BY DEF Named
<1>4. ASSUME NEW st \in OutsideStates, OutsideWrite(p, st)
      PROVE  Meddled(p)
  <2>1. PICK f, g : /\ f = [world.names EXCEPT ![p] = N + outside + 1]
                    /\ g = [world.inode EXCEPT ![N + outside + 1] = st]
    OBVIOUS
  <2>2. [world EXCEPT !.names[p] = N + outside + 1, !.inode[N + outside + 1] = st]
          = [names |-> f, inode |-> g, stuffed |-> world.stuffed]
    <3>1. NewObject(world, p, N + outside + 1, st)
            = [names |-> f, inode |-> g, stuffed |-> world.stuffed]
      BY <2>1, NewObjectIs
    <3> QED
      BY <3>1 DEF NewObject
  <2>3. world' = [names |-> f, inode |-> g, stuffed |-> world.stuffed]
    BY <1>4, <2>2 DEF OutsideWrite, Meddle
  <2>4. /\ f[p] = N + outside + 1 /\ \A s \in Named \ {p} : f[s] = world.names[s]
        /\ \A o \in Objects \ {N + outside + 1} : g[o] = world.inode[o]
    BY <1>3, <2>1 DEF Solid
  <2> QED
    BY <1>2, <2>3, <2>4 DEF Meddled
<1>5. ASSUME NEW st \in OutsideStates, OutsideEdit(p, st)
      PROVE  Meddled(p)
  <2>1. PICK g : g = [world.inode EXCEPT ![world.names[p]] = st]
    OBVIOUS
  <2>2. world' = [names |-> world.names, inode |-> g, stuffed |-> world.stuffed]
    BY <1>5, <2>1 DEF OutsideEdit, Meddle, Solid
  <2>3. world.names[p] # NoObj
    BY <1>5 DEF OutsideEdit, IsFile, At
  <2>4. \A o \in Objects \ {world.names[p]} : g[o] = world.inode[o]
    BY <2>1 DEF Solid
  <2> QED
    BY <1>2, <2>2, <2>3, <2>4 DEF Meddled
<1>6. CASE OutsideRemove(p)
  <2>1. world' = SetName(world, p, NoObj)
    BY <1>6 DEF OutsideRemove, Meddle, Unlink, SetName
  <2>2. PICK w : w = SetName(world, p, NoObj)
    OBVIOUS
  <2>3. w.names[p] = NoObj /\ \A s \in Named \ {p} : w.names[s] = world.names[s]
    BY <1>3, <2>2, OneNameMoves
  <2>4. w.inode = world.inode
    BY <2>2, NamesOnly
  <2> QED
    BY <1>2, <2>1, <2>2, <2>3, <2>4 DEF Meddled
<1>7. CASE OutsideStuff(p)
  <2>1. PICK x : world' = [world EXCEPT !.stuffed = x]
    BY <1>7 DEF OutsideStuff, Meddle
  <2>2. world' = [names |-> world.names, inode |-> world.inode, stuffed |-> x]
    BY <2>1 DEF Solid
  <2> QED
    BY <1>2, <2>2 DEF Meddled
<1> QED
  BY <1>1, <1>4, <1>5, <1>6, <1>7

\* An outside change is one of a path that is then touched.
LEMMA OutsideCommit ==
  ASSUME EngineInv, CommitInv, Outside
  PROVE  CommitInv'
<1>1. Solid(world) /\ ProgramOK /\ outside \in Nat /\ outside \in 0..MaxOutside
  BY BoundsAssumption DEF EngineInv, FilesInv
<1>2. PICK p : Meddled(p)
  BY <1>1, Meddling
<1>3. PICK n : n = N + outside + 1
  OBVIOUS
<1>4. /\ p \in Paths /\ p \in Named /\ p \in Holders /\ Holders \subseteq Named
      /\ Paths \subseteq Holders /\ Declared(program) \subseteq Paths
  BY <1>1, <1>2 DEF Meddled, Named, Holders, Declared, ProgramOK, WellFormed
<1>5. /\ n \in (N + outside + 1)..(N + MaxOutside) /\ n \in Objects /\ n # NoObj
      /\ \A i \in Effects : i # n
  BY <1>1, <1>2, <1>3, NAssumption, BoundsAssumption, NamesAssumption
     DEF Meddled, Objects, Effects
<1>6. /\ UNCHANGED <<pc, plan, journals, state, pre_halt_state, active, program, stage, steps>>
      /\ outside' = outside + 1 /\ touched' = touched \cup {p} /\ touched' # {}
      /\ \A s \in Named \ {p} : world'.names[s] = world.names[s]
      /\ world'.names[p] \in {NoObj, world.names[p], n}
  BY <1>2, <1>3 DEF Meddled, vars, store, process
<1>7. Early' = Early /\ Decided' = Decided
  BY <1>6 DEF Early, Unprepared, Decided, LastState
<1>8. Early \/ Decided => Nowhere(n) /\ Apart(world)
  BY <1>5 DEF CommitInv, UnusedInv, ApartInv
<1>9. ApartInv'
  <2> SUFFICES ASSUME Early \/ Decided, NEW s \in Holders, NEW u \in Holders, s # u,
                      world'.names[s] = world'.names[u]
               PROVE  world'.names[s] = NoObj
    BY <1>6, <1>7 DEF ApartInv, Apart, Holders
  <2>1. \A x \in Holders : world.names[x] # n
    BY <1>4, <1>8 DEF Nowhere
  <2>2. \A x, y \in Holders : x # y /\ world.names[x] = world.names[y] => world.names[x] = NoObj
    BY <1>8 DEF Apart
  <2>3. CASE s = p
    BY <1>4, <1>6, <2>1, <2>2, <2>3
  <2>4. CASE u = p
    BY <1>4, <1>6, <2>1, <2>2, <2>4
  <2>5. CASE s # p /\ u # p
    BY <1>4, <1>6, <2>2, <2>5
  <2> QED
    BY <2>3, <2>4, <2>5
<1>10. \A o : o # n /\ o # NoObj /\ Nowhere(o) => Nowhere(o)'
  BY <1>4, <1>6 DEF Nowhere
<1>11. UnusedInv'
  <2>1. ASSUME NEW m \in (N + outside' + 1)..(N + MaxOutside)
        PROVE  m \in (N + outside + 1)..(N + MaxOutside) /\ m # n /\ m # NoObj
    BY <1>1, <1>3, <1>6, <2>1, NAssumption, BoundsAssumption, NamesAssumption DEF Objects
  <2>2. \A i \in Effects : i # n /\ i # NoObj
    BY <1>5, SlotsApart
  <2> QED
    BY <1>6, <1>7, <1>10, <2>1, <2>2 DEF CommitInv, UnusedInv, Applying
<1>12. BuildInv'
  <2>1. \A i \in Effects : i # n /\ i # NoObj
    BY <1>5, SlotsApart
  <2> QED
    BY <1>4, <1>6, <2>1 DEF CommitInv, BuildInv, Applying
<1>13. DropInv'
  BY <1>6 DEF CommitInv, DropInv, Dropping
<1>14. InstallInv'
  <2> SUFFICES ASSUME Early \/ Decided, Installed, NEW x \in Declared(program) \ (touched \cup {p})
               PROVE  At(world', x) = Final(program, x)
    BY <1>6, <1>7 DEF CommitInv, InstallInv, Installed, Early, Forward
  <2>1. x \in Named /\ x # p /\ x \in Holders /\ At(world, x) = Final(program, x)
    BY <1>4 DEF Installed
  <2>2. world'.names[x] = world.names[x]
    BY <1>6, <2>1
  <2>3. world.names[x] # n /\ (world.names[x] = world.names[p] => world.names[x] = NoObj)
    BY <1>4, <1>8, <2>1 DEF Nowhere, Apart
  <2>4. CASE world.names[x] = NoObj
    BY <2>1, <2>2, <2>4 DEF At
  <2>5. CASE world.names[x] # NoObj
    <3>1. world.names[x] \in Objects
      BY <1>1, <2>1, <2>5 DEF Solid
    <3>2. world'.inode[world.names[x]] = world.inode[world.names[x]]
      BY <1>2, <1>3, <2>3, <2>5, <3>1 DEF Meddled
    <3> QED
      BY <2>1, <2>2, <2>5, <3>2 DEF At
  <2> QED
    BY <2>4, <2>5
<1>15. DoneInv'
  BY <1>6 DEF DoneInv
<1> QED
  BY <1>9, <1>11, <1>12, <1>13, <1>14, <1>15 DEF CommitInv

(* A step of a plan is executed: nothing is to be kept of a run that is    *)
(* taken back, and cleanup removes a scratch name.                         *)
LEMMA MutateCommit ==
  ASSUME EngineInv, CommitInv, NEW i \in Effects, MutateStep(i)
  PROVE  CommitInv'
<1>1. /\ UNCHANGED <<vars, program, steps, bounded>> /\ Due(i) /\ pc = "plan"
      /\ Solid(world) /\ ProgramOK
  BY MutateFiles DEF EngineInv, FilesInv, Due
<1>2. /\ UNCHANGED <<pc, plan, journals, state, pre_halt_state, active, program, steps>>
      /\ UNCHANGED <<outside, touched>>
  BY <1>1 DEF vars, store, process, bounded, outsider
<1>3. ~Early /\ ~Early'
  <2>1. active \in Txns /\ state[active] # "none"
    BY <1>1 DEF EngineInv, ProtocolInv, ControlInv, PointMatchesState, Working
  <2> QED
    BY <1>1, <1>2, <2>1 DEF Early, Unprepared, Forward
<1>4. BuildInv' /\ DropInv' /\ DoneInv' /\ Decided' = Decided
  BY <1>1, <1>2, <1>3
     DEF BuildInv, DropInv, DoneInv, Applying, CommitInv, Dropping, Early, Decided, LastState
<1>5. CASE ~Decided
  BY <1>1, <1>2, <1>3, <1>4, <1>5 DEF CommitInv, ApartInv, UnusedInv, InstallInv
<1>6. CASE Decided
  <2>1. state[active] = "committed"
    BY <1>1, <1>6, OneTransaction
       DEF Decided, LastState, EngineInv, ProtocolInv, ControlInv, PointMatchesState, Working
  <2>2. plan = "cleanup"
    BY <1>1, <2>1 DEF Due
  <2>3. Step(i).op = "drop"
    <3>1. PICK q : q = steps[i]
      OBVIOUS
    <3>2. q = <<q[1]>> /\ q[1].op = "drop"
      BY <1>1, <2>2, <3>1 DEF CommitInv, DropInv, Dropping, Due
    <3>3. PICK x : x = q[1]
      OBVIOUS
    <3>4. q = <<x>> /\ Head(<<x>>) = x
      BY <3>2, <3>3
    <3> QED
      BY <3>1, <3>2, <3>3, <3>4 DEF Step
  <2>4. PICK w : w = SetName(world, i, NoObj)
    OBVIOUS
  <2>5. world' = world \/ world' = w
    BY <2>3, <2>4, ApplyBinds DEF MutateStep, Work, Apply, DropScratch, Unlink, SetName
  <2>6. /\ Contained(world, w, i) /\ w.inode = world.inode
        /\ w.names[i] = NoObj /\ \A s \in Named \ {i} : w.names[s] = world.names[s]
    <3>1. Apart(world) /\ i \in Named
      BY <1>6, SlotsApart DEF CommitInv, ApartInv
    <3>2. Contained(world, w, i)
      BY <1>1, <2>4, <3>1, OneContained
    <3>3. w.inode = world.inode
      BY <1>1, <2>4, NamesOnly
    <3> QED
      BY <1>1, <2>4, <3>1, <3>2, <3>3, OneNameMoves
  <2>7. /\ Apart(world') /\ world'.inode = world.inode
        /\ world'.names[i] \in {NoObj, world.names[i]}
        /\ \A s \in Named \ {i} : world'.names[s] = world.names[s]
    BY <1>6, <2>5, <2>6 DEF Contained, CommitInv, ApartInv
  <2>8. ApartInv'
    BY <1>2, <2>7 DEF ApartInv, Apart, Holders
  <2>9. UnusedInv'
    <3>1. ASSUME NEW n \in (N + outside + 1)..(N + MaxOutside) PROVE n # NoObj
      BY <3>1, NamesAssumption, NAssumption, BoundsAssumption
         DEF Objects, EngineInv, FilesInv
    <3>2. \A n \in (N + outside + 1)..(N + MaxOutside) : Nowhere(n)
      BY <1>6 DEF CommitInv, UnusedInv
    <3>3. \A n \in (N + outside + 1)..(N + MaxOutside) : Nowhere(n)'
      BY <2>7, <3>1, <3>2 DEF Nowhere
    <3> QED
      BY <1>2, <1>3, <3>3 DEF UnusedInv
  <2>10. InstallInv'
    <3>1. Declared(program) \subseteq Named \ {i}
      BY <1>1, OwnNames DEF Declared, Touches, Named, ProgramOK, WellFormed
    <3>2. \A p \in Named \ {i} : At(world', p) = At(world, p)
      BY <2>7 DEF At
    <3> QED
      BY <1>2, <1>6, <3>1, <3>2 DEF CommitInv, InstallInv, Installed
  <2> QED
    BY <1>4, <2>8, <2>9, <2>10 DEF CommitInv
<1> QED
  BY <1>5, <1>6

\* No rename of a committed transaction is still to be flushed.
LEMMA PowerCutCommit ==
  ASSUME EngineInv, CommitInv, NEW i \in Effects, PowerCut(i)
  PROVE  CommitInv'
<1>0. PICK s, u, o : CutLeaves(i, s, u, o)
  BY PowerCutFiles DEF EngineInv, FilesInv
<1>1. /\ Crash /\ Unflushed(i, s, u) /\ pc' = "idle" /\ stage' = "begin"
      /\ UNCHANGED <<state, pre_halt_state, journals, active>>
      /\ active \in Txns /\ state[active] \notin {"none", "halted"}
      /\ pc \in {"apply", "plan"}
  BY <1>0 DEF CutLeaves, PowerCut, Killed, Crash, Forget, store, Unflushed, Applying, Due, EngineInv,
              ProtocolInv, ControlInv, PointMatchesState, Working
<1>2. ~Early'
  BY <1>1 DEF Early, Unprepared, Forward
<1>3. state[active] # "committed"
  <2>1. CASE pc = "apply"
    BY <2>1 DEF EngineInv, ProtocolInv, ControlInv, PointMatchesState
  <2>2. CASE Due(i) /\ Step(i).op = "move_back"
    <3>1. plan # "cleanup"
      <4> SUFFICES ASSUME plan = "cleanup" PROVE FALSE
        OBVIOUS
      <4>1. PICK q : q = steps[i]
        OBVIOUS
      <4>2. q = <<q[1]>> /\ q[1].op = "drop"
        BY <2>2, <4>1 DEF CommitInv, DropInv, Dropping, Due
      <4>3. PICK x : x = q[1]
        OBVIOUS
      <4>4. q = <<x>> /\ Head(<<x>>) = x
        BY <4>2, <4>3
      <4> QED
        BY <2>2, <4>1, <4>2, <4>3, <4>4 DEF Step
    <3> QED
      BY <2>2, <3>1 DEF Due
  <2> QED
    BY <1>1, <2>1, <2>2 DEF Unflushed, Applying
<1>4. ~Decided'
  BY <1>1, <1>3, OneTransaction DEF Decided, LastState
<1> QED
  BY <1>1, <1>2, <1>4
     DEF CommitInv, ApartInv, UnusedInv, BuildInv, DropInv, InstallInv, DoneInv, Applying, Early

\* No store transaction of a plan or an execution comes between system calls.
LEMMA QuietElsewhere ==
  ASSUME QuietStep
  PROVE  pc # "apply"
BY DEF QuietStep, Acquire, Resolve, ResolveNothing, ResolveHalted, ResolveActive, Reconcile,
       ReconcileAppendRegistration, ReconcileBindRegistration, ReconcileAppendSettlement,
       ReconcileBindSettlement, ReconcileDone, ApproveTopology, Release, PersistRollingBack,
       PersistRolledBack, PersistHalt, DetachActive, PersistUndoStarted, AppendRegistration,
       BindRegistration, BeginApplying, FinishApplying, VerifyCommittedSurface, DecideCommit,
       AppendSettlement, BindSettlement, PrepareTransaction

\* A protocol step that leaves the files alone.
LEMMA QuietCommit ==
  ASSUME EngineInv, CommitInv, RecordMoves, QuietStep, UNCHANGED files, Rest,
         VerifyCommittedSurface => CommittedSurface
  PROVE  CommitInv'
<1>1. Fitting
  BY LeaseFits, PlanFits, ExecuteFits DEF QuietStep, EngineInv
<1>2. UNCHANGED <<program, world, outside, touched, steps, stage>>
  BY DEF files, Rest, bounded, outsider
<1>3. pc # "apply" /\ pc' # "apply"
  BY <1>1, QuietElsewhere DEF Fitting, vars, process
<1>4. pc' = "commit" => pc = "commit" \/ CommittedSurface
  BY DEF RecordMoves
<1>5. pc' = "plan" /\ plan' = "cleanup" => \A i \in Effects : Dropping(steps'[i])
  BY <1>1, <1>2 DEF Fitting, CommitInv, DropInv, Dropping
<1>6. \A i \in Effects : ~FinishEffect(i)
  BY <1>3 DEF FinishEffect
<1> QED
  BY <1>2, <1>3, <1>4, <1>5, <1>6, CalmCommit

(* Cleanup removes scratch entries and does nothing else                   *)
(* (classify_committed_cleanup).                                           *)
LEMMA CleanupDrops ==
  ASSUME NEW prog, NEW w, ~CommittedPlan(prog, w).halt, NEW i \in Effects
  PROVE  Dropping(CommittedPlan(prog, w).steps[i])
<1>1. PICK d : d = CleanupDecision(prog, w, i)
  OBVIOUS
<1>2. ~d.halt
  BY <1>1 DEF CommittedPlan
<1>3. d.ops = <<>> \/ d.ops = <<"drop">>
  BY <1>1, <1>2 DEF CleanupDecision, Undo, Halt
<1>4. PICK q : q = BindSteps(prog, w, i, {i}, d.ops).steps
  OBVIOUS
<1>5. CommittedPlan(prog, w).steps[i] = q
  BY <1>1, <1>4 DEF CommittedPlan
<1>6. PICK worlds : worlds = BoundWorlds(prog, w, i, d.ops)
  OBVIOUS
<1>7. q = [k \in 1..Len(d.ops) |-> BoundStep(prog, worlds, {i}, d.ops, k)]
  BY <1>4, <1>6, BindUnfolds
<1>8. CASE d.ops = <<>>
  <2>1. q = <<>>
    BY <1>7, <1>8
  <2> QED
    BY <1>5, <2>1 DEF Dropping
<1>9. CASE d.ops = <<"drop">>
  <2>1. PICK x : x = BoundStep(prog, worlds, {i}, d.ops, 1)
    OBVIOUS
  <2>2. q = <<x>>
    BY <1>7, <1>9, <2>1
  <2>3. d.ops[1] = "drop"
    BY <1>9
  <2>4. x.op = "drop"
    BY <2>1, <2>3 DEF BoundStep
  <2>5. q = <<q[1]>> /\ q[1].op = "drop"
    BY <2>2, <2>4
  <2> QED
    BY <1>5, <2>5 DEF Dropping
<1> QED
  BY <1>3, <1>8, <1>9

\* A plan is made.
LEMMA ClassifyCommit ==
  ASSUME EngineInv, CommitInv, RecordMoves, EClassify
  PROVE  CommitInv'
<1>1. /\ pc = "classify" /\ pc' = "plan"
      /\ UNCHANGED <<program, world, outside, touched>>
  BY DEF EClassify, EClassifyTerminal, EClassifyHalt, EClassifyCommitted, EClassifyRollback,
         ClassifyTerminal, ClassifyHalt, ClassifyCommitted, ClassifyRollback, Adopt, Planned,
         Rest, bounded, outsider
<1>2. plan' = "cleanup" => \A i \in Effects : Dropping(steps'[i])
  <2>1. CASE EClassifyCommitted
    <3>1. /\ ~CommittedPlan(program, world).halt
          /\ steps' = CommittedPlan(program, world).steps
      BY <2>1 DEF EClassifyCommitted, Planned
    <3> QED
      BY <3>1, CleanupDrops
  <2>2. CASE EClassifyTerminal \/ EClassifyHalt \/ EClassifyRollback
    BY <2>2 DEF EClassifyTerminal, EClassifyHalt, EClassifyRollback, ClassifyTerminal,
                ClassifyHalt, ClassifyRollback, Adopt
  <2> QED
    BY <2>1, <2>2 DEF EClassify
<1>3. \A i \in Effects : ~FinishEffect(i)
  BY <1>1 DEF FinishEffect
<1> QED
  BY <1>1, <1>2, <1>3, CalmCommit

\* An effect is begun, or done.
LEMMA EffectRecordCommit ==
  ASSUME EngineInv, CommitInv, RecordMoves, NEW i \in Effects,
         EStartEffect(i) \/ EFinishEffect(i)
  PROVE  CommitInv'
<1>1. /\ UNCHANGED <<program, world, outside, touched, active>> /\ stage' = "begin"
      /\ active \in Txns /\ journals \in [Txns -> [Effects -> JournalStates]]
  BY DEF EStartEffect, EFinishEffect, StartEffect, FinishEffect, SetJournal, ToStage, Rest,
         bounded, outsider, EngineInv, ProtocolInv, ControlInv, TypeOK, Journals,
         PointMatchesState, Working
<1>2. CASE EStartEffect(i)
  <2>1. /\ pc = "effects" /\ pc' = "apply" /\ journals[active][i] = "pending"
        /\ \A k \in Effects : k < i => journals[active][k] = "done"
        /\ journals' = [journals EXCEPT ![active][i] = "started"]
    BY <1>2 DEF EStartEffect, StartEffect, SetJournal, Goto
  <2>2. \A k \in Effects \ {i} : journals'[active][k] = journals[active][k]
    BY <1>1, <2>1
  <2>3. \A k \in Effects \ {i} : journals[active][k] # "started"
    BY <2>1 DEF EngineInv, ProtocolInv, OrderInv, Effects
  <2>4. \A k \in Effects : journals'[active'][k] = "started" => k = i
    BY <1>1, <2>2, <2>3
  <2>5. Nowhere(i)
    BY <1>1, <2>1 DEF CommitInv, UnusedInv, Early, Forward
  <2>6. \A k \in Effects : ~FinishEffect(k)
    BY <2>1 DEF FinishEffect
  <2> QED
    BY <1>1, <2>1, <2>4, <2>5, <2>6, CalmCommit
<1>3. CASE EFinishEffect(i)
  BY <1>1, <1>3, CalmCommit DEF EFinishEffect, FinishEffect, Goto
<1> QED
  BY <1>2, <1>3

\* A step of a plan other than the mutation.
LEMMA PlanStepCommit ==
  ASSUME EngineInv, CommitInv, RecordMoves, NEW i \in Effects,
         EPersistUndone(i) \/ AuthorizeStep(i) \/ ConfirmStep(i)
  PROVE  CommitInv'
<1>1. /\ UNCHANGED <<program, world, outside, touched, plan>> /\ pc = "plan" /\ pc' = "plan"
  BY DEF EPersistUndone, PersistUndone, Quiet, files, AuthorizeStep, ConfirmStep, Due, Work,
         Rest, bounded, outsider, vars, process
<1>2. plan = "cleanup" => \A k \in Effects : Dropping(steps[k])
  BY <1>1 DEF CommitInv, DropInv
<1>3. plan = "cleanup" => \A k \in Effects : Dropping(steps'[k])
  <2>1. CASE UNCHANGED steps
    BY <1>2, <2>1 DEF Dropping
  <2>2. ASSUME Due(i), steps' = [steps EXCEPT ![i] = Tail(@)], plan = "cleanup"
        PROVE  \A k \in Effects : Dropping(steps'[k])
    <3>1. PICK q : q = steps[i]
      OBVIOUS
    <3>2. q = <<q[1]>>
      BY <1>2, <2>2, <3>1 DEF Dropping, Due
    <3>3. PICK x : x = q[1]
      OBVIOUS
    <3>4. q = <<x>> /\ Tail(<<x>>) = <<>>
      BY <3>2, <3>3
    <3>5. steps'[i] = <<>> /\ \A k \in Effects \ {i} : steps'[k] = steps[k]
      <4>1. steps = [k \in Effects |-> steps[k]]
        BY DEF EngineInv, FilesInv
      <4> QED
        BY <2>2, <3>1, <3>4, <4>1
    <3> QED
      BY <1>2, <2>2, <3>5 DEF Dropping
  <2> QED
    BY <2>1, <2>2 DEF EPersistUndone, Quiet, files, AuthorizeStep, ConfirmStep, Work
<1>4. \A k \in Effects : ~FinishEffect(k)
  BY <1>1 DEF FinishEffect
<1> QED
  BY <1>1, <1>3, <1>4, CalmCommit

\* The process forgets how far it was, or gives the execution up.
LEMMA ForgetCommit ==
  ASSUME EngineInv, CommitInv, RecordMoves, UNCHANGED <<program, world, outside, touched>>,
         pc' \in {"idle", "reconcile"}
  PROVE  CommitInv'
BY CalmCommit DEF Forward

\* CommitInv holds at first.
LEMMA CommitInit == EInit => CommitInv
<1> SUFFICES ASSUME EInit PROVE CommitInv
  OBVIOUS
<1>1. EngineInv
  BY EngineInvInit
<1>2. /\ pc = "idle" /\ \A t \in Txns : state[t] = "none"
      /\ world = InitialWorld(program)
      /\ outside = 0 /\ touched = {}
  BY DEF EInit, Init
<1>3. Declared(program) \subseteq Paths
  BY <1>1 DEF EngineInv, FilesInv, ProgramOK, WellFormed, Declared
<1>4. /\ world.stuffed = {} /\ \A s \in Named : world.names[s] \in {s, NoObj}
      /\ \A s \in Named : world.names[s] # NoObj => s \in Declared(program)
  BY <1>2 DEF InitialWorld, Named
<1>5. ~Decided
  BY <1>2 DEF Decided, LastState
<1>6. ApartInv
  BY <1>1, <1>4, SlotsApart DEF ApartInv, Apart, Holders, Named
<1>7. \A o : o # NoObj /\ o \notin Paths => Nowhere(o)
  BY <1>3, <1>4 DEF Nowhere
<1>8. UnusedInv
  <2>1. ASSUME NEW n \in (N + outside + 1)..(N + MaxOutside)
        PROVE  n \notin Paths /\ n # NoObj
    BY <1>2, <2>1, NamesAssumption, NAssumption, BoundsAssumption DEF Objects
  <2> QED
    BY <1>7, <2>1, SlotsApart DEF UnusedInv
<1>9. BuildInv /\ DropInv /\ InstallInv /\ DoneInv
  BY <1>2, <1>4, <1>5 DEF BuildInv, DropInv, InstallInv, DoneInv, Applying, Forward
<1> QED
  BY <1>6, <1>8, <1>9 DEF CommitInv

\* CommitInv is inductive.
LEMMA CommitStep ==
  ASSUME EngineInv, CommitInv, [ENext]_evars
  PROVE  CommitInv'
<1>0. RecordMoves
  BY EngineStep, RecordMoving DEF EngineInv, ProtocolInv
<1>1. CASE \/ Quiet(Acquire) \/ Quiet(Resolve) \/ Quiet(Reconcile) \/ Quiet(ApproveTopology)
           \/ Quiet(Release) \/ \E t \in Txns : EPrepareTransaction(t)
  <2>1. QuietStep /\ UNCHANGED files /\ Rest
    BY <1>1 DEF Quiet, QuietStep, EPrepareTransaction
  <2>2. ~VerifyCommittedSurface
    <3>1. pc # "verify"
      BY <1>1 DEF Quiet, EPrepareTransaction, Acquire, Resolve, ResolveNothing, ResolveHalted,
         ResolveActive, Reconcile, ReconcileAppendRegistration, ReconcileBindRegistration,
         ReconcileAppendSettlement, ReconcileBindSettlement, ReconcileDone, ApproveTopology,
         Release, PrepareTransaction
    <3> QED
      BY <3>1 DEF VerifyCommittedSurface
  <2> QED
    BY <1>0, <2>1, <2>2, QuietCommit
<1>2. CASE EClassify
  BY <1>0, <1>2, ClassifyCommit
<1>3. CASE ERunPlan
  <2>1. CASE \/ Quiet(PersistRollingBack) \/ Quiet(PersistRolledBack) \/ EPersistHalt
             \/ Quiet(DetachActive) \/ \E i \in Effects : Quiet(PersistUndoStarted(i))
    <3>1. QuietStep /\ UNCHANGED files /\ Rest
      BY <2>1 DEF Quiet, QuietStep, EPersistHalt
    <3>2. pc # "verify"
      BY <2>1 DEF Quiet, EPersistHalt, PersistRollingBack, PersistRolledBack, PersistHalt,
                  DetachActive, PersistUndoStarted
    <3>3. ~VerifyCommittedSurface
      BY <3>2 DEF VerifyCommittedSurface
    <3> QED
      BY <1>0, <3>1, <3>3, QuietCommit
  <2>2. CASE EReachDetach
    BY <1>0, <2>2, ForgetCommit
       DEF EReachDetach, ReachDetach, Quiet, files, Rest, bounded, outsider, Goto
  <2>3. ASSUME NEW i \in Effects, EPersistUndone(i) \/ AuthorizeStep(i) \/ ConfirmStep(i)
        PROVE  CommitInv'
    BY <1>0, <2>3, PlanStepCommit
  <2>4. ASSUME NEW i \in Effects, RefuseStep(i) \/ DenyStep(i) \/ EscapeStep(i)
        PROVE  CommitInv'
    <3>1. pc' = "idle" /\ UNCHANGED <<program, world, outside, touched>>
      BY <2>4 DEF RefuseStep, DenyStep, EscapeStep, PersistHalt, Crash, Forget, Rest, bounded,
                  outsider
    <3> QED
      BY <1>0, <3>1, ForgetCommit
  <2>5. ASSUME NEW i \in Effects, MutateStep(i) PROVE CommitInv'
    BY <2>5, MutateCommit
  <2> QED
    BY <1>3, <2>1, <2>2, <2>3, <2>4, <2>5 DEF ERunPlan
<1>4. CASE EExecute
  <2>1. CASE \/ Quiet(AppendRegistration) \/ Quiet(BindRegistration) \/ Quiet(BeginApplying)
             \/ Quiet(FinishApplying) \/ EVerifyCommittedSurface \/ Quiet(DecideCommit)
             \/ Quiet(AppendSettlement) \/ Quiet(BindSettlement)
    <3>1. QuietStep /\ UNCHANGED files /\ Rest
      BY <2>1 DEF Quiet, QuietStep, EVerifyCommittedSurface
    <3>2. pc = "verify" => CommittedSurface
      BY <2>1 DEF Quiet, EVerifyCommittedSurface, AppendRegistration, BindRegistration,
                  BeginApplying, FinishApplying, DecideCommit, AppendSettlement, BindSettlement
    <3>3. VerifyCommittedSurface => CommittedSurface
      BY <3>2 DEF VerifyCommittedSurface
    <3> QED
      BY <1>0, <3>1, <3>3, QuietCommit
  <2>2. ASSUME NEW i \in Effects, EStartEffect(i) \/ ApplyEffect(i) \/ EFinishEffect(i)
        PROVE  CommitInv'
    BY <1>0, <2>2, EffectRecordCommit, ApplyCommit
  <2> QED
    BY <1>4, <2>1, <2>2 DEF EExecute
<1>5. CASE ECaughtFailure \/ ECrash
  BY <1>0, <1>5, ForgetCommit
     DEF ECaughtFailure, CaughtFailure, Goto, ToStage, Rest, bounded, outsider, ECrash,
         Killed, Crash, Forget
<1>6. ASSUME NEW i \in Effects, PowerCut(i) PROVE CommitInv'
  BY <1>6, PowerCutCommit
<1>7. CASE Outside
  BY <1>7, OutsideCommit
<1>8. CASE UNCHANGED evars
  BY <1>8 DEF evars, vars, store, process, files, bounded, outsider, CommitInv, ApartInv,
              UnusedInv, BuildInv, DropInv, InstallInv, DoneInv, Early, Unprepared, Decided,
              LastState, Apart, Holders, Nowhere, Applying, Dropping, Installed, Standing,
              Latest, Free, SameObject, At
<1> QED
  BY <1>1, <1>2, <1>3, <1>4, <1>5, <1>6, <1>7, <1>8 DEF ENext, EProgress, EEnvironment

\* CommitInv is an invariant.
LEMMA CommitAlways == ESpec => [](EngineInv /\ CommitInv)
<1>1. EInit => EngineInv /\ CommitInv
  BY EngineInvInit, CommitInit
<1>2. EngineInv /\ CommitInv /\ [ENext]_evars => (EngineInv /\ CommitInv)'
  BY EngineInvStep, CommitStep
<1> QED
  BY <1>1, <1>2, PTL DEF ESpec

(* A committed transaction leaves every path the outside writer did not    *)
(* change in its final state: verify_committed_surface saw it there,       *)
(* nothing between it and the decision or after it writes to an object     *)
(* that a path leads to, but the outside writer, and cleanup removes       *)
(* scratch names only, also while it is interrupted, resumed or halted.    *)
THEOREM CommitHolds == ESpec => []CommitInstalls
<1>1. CommitInv => CommitInstalls
  BY DEF CommitInv, InstallInv, Installed, Decided, CommitInstalls
<1> QED
  BY <1>1, CommitAlways, PTL

\* A set of effects that is not empty has a last one.
LEMMA LastIs ==
  ASSUME NEW S \in SUBSET Effects, S # {}
  PROVE  Last(S) \in S /\ \A k \in S : Last(S) >= k
<1> DEFINE Bounded(n) == \A T \in SUBSET (1..n) : T = {} \/ \E m \in T : \A k \in T : m >= k
           Good == {n \in Nat : Bounded(n)}
<1>1. 0 \in Good
  OBVIOUS
<1>2. ASSUME NEW n \in Nat, n \in Good PROVE n + 1 \in Good
  <2>1. ASSUME NEW T \in SUBSET (1..(n + 1)), T # {}
        PROVE  \E m \in T : \A k \in T : m >= k
    <3>1. CASE n + 1 \in T
      BY <3>1
    <3>2. CASE n + 1 \notin T
      <4>1. T \in SUBSET (1..n)
        BY <3>2
      <4> QED
        BY <1>2, <2>1, <4>1
    <3> QED
      BY <3>1, <3>2
  <2> QED
    BY <2>1
<1> HIDE DEF Good
<1>3. N \in Good
  BY <1>1, <1>2, NAssumption, SetInduction
<1>4. \E m \in S : \A k \in S : m >= k
  BY <1>3 DEF Good, Effects
<1> QED
  BY <1>4 DEF Last

(* Effects that were all applied without interference are accepted by      *)
(* verify_committed_surface: each effect, verified after its rename,       *)
(* leaves its result and its scratch slot to stand until a later effect    *)
(* begins on the same path (coordinator/effects).  The exception is a move whose  *)
(* object a later effect took: its anchor then names another.              *)
THEOREM FinishedWorkHolds == ESpec => []FinishedWorkVerifies
<1>1. EngineInv /\ CommitInv => FinishedWorkVerifies
  <2> SUFFICES ASSUME EngineInv, CommitInv, pc = "verify", touched = {}, ~MovedObjectGone
               PROVE  CommittedSurface
    BY DEF FinishedWorkVerifies
  <2>1. active \in Txns /\ AllAre(journals[active], "done")
    BY DEF EngineInv, ProtocolInv, ControlInv, PointMatchesState, Working, RecordInv,
           JournalsReachable, ReachableJournal, LastState
  <2>2. world.stuffed = {} /\ \A i \in Effects : Standing(i) /\ WellFormed(program[i])
    BY <2>1 DEF CommitInv, DoneInv, Early, Forward, AllAre, EngineInv, FilesInv, ProgramOK
  <2>3. ASSUME NEW p \in Declared(program)
        PROVE  At(world, p) = Final(program, p) /\ world.names[p] \notin world.stuffed
    <3>1. PICK m : m = Last(Occurrences(program, p))
      OBVIOUS
    <3>2. /\ m \in Effects /\ p \in Touches(program[m])
          /\ \A k \in Effects : p \in Touches(program[k]) => m >= k
      BY <3>1, LastIs DEF Occurrences, Declared
    <3>3. Latest(m, p)
      BY <3>2 DEF Latest, Effects
    <3> QED
      BY <2>2, <3>1, <3>2, <3>3 DEF Standing, Final
  <2>4. ASSUME NEW i \in Effects
        PROVE  /\ program[i].kind \in {"create", "mkdir"} => Free(world, i)
               /\ program[i].kind \in {"replace", "delete", "move"} => At(world, i) = program[i].pre
               /\ program[i].kind = "move" => SameObject(world, i, program[i].dest)
    <3>1. program[i].kind = "move" => Latest(i, program[i].dest)
      BY DEF MovedObjectGone, Latest, Effects
    <3>2. program[i].dest \in Touches(program[i])
      BY DEF Touches
    <3> QED
      BY <2>2, <3>1, <3>2 DEF Standing
  <2>5. \A i \in Effects : program[i].kind \in Kinds
    BY <2>2 DEF WellFormed
  <2> QED
    BY <2>3, <2>4, <2>5 DEF CommittedSurface, Kinds
<1> QED
  BY <1>1, CommitAlways, PTL
=============================================================================
