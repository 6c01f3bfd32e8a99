------------------------- MODULE EngineRollback_proofs -------------------------
(***************************************************************************)
(* A rollback restores: the paths of a transaction that is rolled back are *)
(* as they were before it, object by object, but for what the outside      *)
(* writer has changed; for every compiled specification.                   *)
(*                                                                         *)
(* The invariant has two layers.  AnchorInv is about names.  An object has *)
(* one name outside the anchors, or the two paths of the one move that is  *)
(* open, and an anchor follows its object from move to move; so nothing a  *)
(* rollback needs is lost, and no undo takes the wrong object.  RestoreInv *)
(* is about paths.  A path with no open effect is as the last effect that  *)
(* is done has left it; a path of the open effect is that or what the      *)
(* effect is for, and a done effect has kept what it displaced.  When the  *)
(* last effect is unwound, what stands is what was there at first.         *)
(*                                                                         *)
(* What a plan relies on is argued from the tables: each decision says     *)
(* something of the joint observation it was taken in, binding records it  *)
(* with the step, and authorization compares it with the disk again.       *)
(***************************************************************************)
EXTENDS EffectEngine_proofs

-----------------------------------------------------------------------------
(* The record of a transaction that may still be rolled back.              *)

(* As long as no decision is taken and no halt recorded, a rollback may    *)
(* follow.                                                                 *)
Live == \A t \in Txns : state[t] \notin {"halted", "committed"}

\* Effects are begun in order and taken back in the reverse order.
Stacked(j) == \A i, k \in Effects : i < k /\ j[k] \notin Unwound => j[i] = "done"

\* The one effect that is begun and not done, or whose undo is open.
Opened(j, k) ==
  /\ j[k] \in Open
  /\ \A i \in Effects : (i < k => j[i] = "done") /\ (i > k => j[i] \in Unwound)

(* The order of the journals, and that a plan being executed has a step    *)
(* that is due.                                                            *)
RecordShape ==
  /\ Compiles(program)
  /\ \A t \in Txns : Stacked(journals[t])
  /\ pc = "plan" /\ plan = "rollback" => stage = "authorize" \/ \E i \in Effects : Due(i)

-----------------------------------------------------------------------------
(* What the steps of a rollback plan expect to find.                       *)

\* What a scratch file of effect e may hold: nothing that was not declared.
Contents(e) ==
  {e.pre, e.post} \cup (IF e.kind \in {"create", "replace"} THEN Prefixes[e.post] ELSE {})

\* A step s of the plan for effect e in slot i, and what its observation says.
Sound(e, i, s) ==
  /\ s.slots = Touches(e) \cup {i}
  /\ s.op = "drop" => e.kind = "mkdir" \/ s.before.states[i] \in Contents(e)
  /\ s.op = "drop_destination" => <<i, e.dest>> \in s.before.same
  /\ e.kind = "replace" => s.op \in {"exchange", "drop"}
  /\ e.kind = "replace" /\ e.pre = e.post => s.op = "drop"
  /\ e.kind = "replace" /\ e.pre # e.post =>
       (s.op = "exchange" <=> s.before.states[e.path] = e.post)
  /\ e.kind = "create" => s.op \in {"take", "drop"}
  /\ e.kind = "delete" => s.op = "restore"
  /\ e.kind = "mkdir" => s.op \in {"rmdir_live", "drop"}
  /\ e.kind = "move" =>
       /\ s.op \in {"move_back", "relink", "drop_destination", "drop"}
       /\ s.op = "move_back" => <<i, e.dest>> \in s.before.same
       /\ s.op = "relink" => s.before.states[e.dest] = "absent"
       /\ s.op = "drop" => /\ <<i, e.path>> \in s.before.same
                           /\ s.before.states[e.path] = e.pre
                           /\ s.before.states[e.dest] # e.pre

\* A plan of an effect: at most two steps, of which a move's last is a drop.
SoundPlan(e, i, q) ==
  \/ q = <<>>
  \/ q = <<q[1]>> /\ Sound(e, i, q[1]) /\ (e.kind = "move" => q[1].op = "drop")
  \/ /\ q = <<q[1], q[2]>> /\ Sound(e, i, q[1]) /\ Sound(e, i, q[2])
     /\ e.kind = "move" => q[2].op = "drop"

\* Every step of a rollback plan is one that its effect calls for.
SoundInv ==
  pc = "plan" /\ plan = "rollback" => \A i \in Effects :
    /\ SoundPlan(program[i], i, steps[i])
    /\ journals[active][i] = "done" => steps[i] # <<>>

\* An effect that was begun and is not on disk.
Idle(e, w, i) ==
  /\ At(w, i) = "absent"
  /\ e.kind \in {"create", "mkdir"} => At(w, e.path) # e.post
  /\ e.kind = "move" => At(w, e.dest) = "absent"

-----------------------------------------------------------------------------
(* Which names lead to one object.                                         *)

\* The effects whose scratch slot is an anchor, a second name for the object.
Movers(prog) == {i \in Effects : prog[i].kind = "move"}

\* The names that hold an object: an anchor only witnesses one.
HoldersOf(prog) == Paths \cup (Effects \ Movers(prog))

\* No anchor leads to the object.
Unanchored(prog, w, o) == o = NoObj \/ \A i \in Movers(prog) : w.names[i] # o

\* Object o may be at both paths of move i, which is open and has its anchor.
SplitBy(prog, w, j, i, o) ==
  /\ j[i] \in Open /\ w.names[i] # NoObj
  /\ w.names[i] = o \/ Unanchored(prog, w, o)

(* Two names hold one object only between the system calls that take an    *)
(* open move back, or where a power cut has split its rename.              *)
Distinct(prog, w, j) ==
  \A s, u \in HoldersOf(prog) :
    s # u /\ w.names[s] = w.names[u] /\ w.names[s] # NoObj =>
      \E i \in Movers(prog) : /\ SplitBy(prog, w, j, i, w.names[s])
                              /\ s \in Touches(prog[i]) /\ u \in Touches(prog[i])

\* The last of the anchors that name an object.
LastAnchor(prog, w, i) ==
  /\ i \in Movers(prog) /\ w.names[i] # NoObj
  /\ \A k \in Movers(prog) : k > i => w.names[k] # w.names[i]

\* Where a move that is done, or one that is open, has put its object.
Home(prog, j, i) == IF j[i] = "done" THEN {prog[i].dest} ELSE Touches(prog[i])

(* An anchored object is where the last move put it, or in the scratch     *)
(* slot of a later effect on that path.                                    *)
Anchoring(prog, w, j) ==
  \A i \in Effects : LastAnchor(prog, w, i) =>
    /\ \A s \in Paths : w.names[s] = w.names[i] => s \in Home(prog, j, i)
    /\ \A k \in Effects \ Movers(prog) :
         w.names[k] = w.names[i] => k > i /\ prog[k].path \in Home(prog, j, i)

\* An object moved twice was taken from where it had been put.
Chained(prog, w) ==
  \A i, k \in Movers(prog) :
    /\ i < k /\ w.names[i] = w.names[k] /\ w.names[i] # NoObj
    /\ \A m \in Movers(prog) : i < m /\ m < k => w.names[m] # w.names[i]
    => prog[k].path = prog[i].dest

\* A move that is done still has its anchor.
DoneAnchored(prog, w, j) == \A i \in Movers(prog) : j[i] = "done" => w.names[i] # NoObj

\* What is known of the names as long as a rollback may follow.
NamesOK(prog, w, j) ==
  /\ Distinct(prog, w, j) /\ Anchoring(prog, w, j) /\ Chained(prog, w)
  /\ DoneAnchored(prog, w, j)

\* No name leads to the object.
Unused(w, o) == \A s \in Paths \cup Effects : w.names[s] # o

\* The names of a move that is being applied.
MovingNames(k) ==
  LET e == program[k] IN
  /\ stage \in {"linked", "ready"} =>
       world.names[e.path] = world.names[k] \/ Unanchored(program, world, world.names[e.path])
  /\ stage \in {"linked", "ready", "refusing"} => world.names[e.dest] # world.names[k]
  /\ stage \in {"landed", "undoing"} =>
       world.names[e.dest] = world.names[k] \/ Unanchored(program, world, world.names[e.dest])
  /\ stage \in {"landed", "verified", "undoing"} => world.names[e.path] # world.names[k]
  /\ stage \in {"linked", "ready", "refusing", "landed", "verified", "undoing"} =>
       world.names[k] # NoObj

\* The scratch slot of another effect that is being applied.
BuildingNames(k) ==
  /\ stage \in {"building", "built", "ready"} /\ program[k].kind # "delete" => world.names[k] = k
  /\ stage = "ready" /\ program[k].kind # "delete" => world.inode[k] = program[k].post

\* The effects that make an entry where there was none.
MakesEntry(e) == e.kind \in {"create", "mkdir"}

\* The names of a move that is being taken back, authorized and not executed.
UndoingNames(k) ==
  LET e == program[k] IN
  /\ Step(k).op = "move_back" =>
       /\ world.names[e.dest] = world.names[k] \/ Unanchored(program, world, world.names[e.dest])
       /\ world.names[k] # NoObj
  /\ Step(k).op \in {"relink", "drop"} =>
       world.names[e.dest] # world.names[k] \/ world.names[k] = NoObj
  /\ Step(k).op = "drop" =>
       world.names[e.path] # world.names[e.dest] \/ world.names[e.path] = NoObj

\* The object that a move has got back, before its directories are flushed.
BackNames(k) ==
  LET o == world.names[program[k].path] IN
  Step(k).op = "move_back" =>
    world.names[k] # NoObj /\ (o = world.names[k] \/ Unanchored(program, world, o))

\* What the scratch slot of an effect that is done, or being done, is like.
MakersClear(prog, w, j) ==
  \A k \in Effects : j[k] = "done" /\ MakesEntry(prog[k]) => Free(w, k)

\* The objects the outside writer has not made yet are nowhere.
FreshUnused(w, used) == \A n \in (N + used + 1)..(N + MaxOutside) : Unused(w, n)

\* The names on disk, for every record that may still be rolled back.
NamesInv ==
  Live => /\ FreshUnused(world, outside)
          /\ \A t \in Txns : NamesOK(program, world, journals[t])
          /\ \A t \in Txns : MakersClear(program, world, journals[t])

\* The names of the effect that is being applied.
WorkNames(k) ==
  /\ stage = "linked" => k \in Movers(program)
  /\ k \in Movers(program) => MovingNames(k)
  /\ k \notin Movers(program) => BuildingNames(k)
  /\ stage \in {"landed", "verified"} /\ MakesEntry(program[k]) => Free(world, k)

\* The same for the effect that is being applied, between its system calls.
WorkInv == pc = "apply" => \A k \in Effects : journals[active][k] = "started" => WorkNames(k)

(* The same for a move that is being taken back, between authorization and *)
(* execution, and after it.                                                *)
UndoInv ==
  plan = "rollback" => \A k \in Movers(program) : Due(k) =>
    /\ stage = "mutate" => UndoingNames(k)
    /\ stage = "confirm" => BackNames(k)

\* The invariant about names: no object is lost and none has a name too many.
AnchorInv == NamesInv /\ WorkInv /\ UndoInv

-----------------------------------------------------------------------------
(* What is at a path.                                                      *)

\* The effects on a path before effect k, and those that are done.
Under(prog, k, x) == {m \in Effects : m < k /\ x \in Touches(prog[m])}
\* The effects on a path that are done.
DoneOn(prog, j, x) == {m \in Effects : x \in Touches(prog[m]) /\ j[m] = "done"}

\* What the last of a set of effects leaves at a path.
StateLeft(prog, S, x) == IF S = {} THEN Initial(prog, x) ELSE PostAt(prog[Last(S)], x)

\* The object that effect m leaves at path x.
Leaves(prog, w, m, x) ==
  IF prog[m].kind \in {"create", "replace", "mkdir"} THEN m
  ELSE IF prog[m].kind = "move" /\ x = prog[m].dest THEN w.names[m]
  ELSE NoObj

\* The object that the last of a set of effects leaves at a path.
NameLeft(prog, w, S, x) ==
  IF S = {} THEN InitialWorld(prog).names[x] ELSE Leaves(prog, w, Last(S), x)

\* A path whose file the specification replaces by its own content.
RewrittenIn(prog, x) ==
  \E i \in Effects : /\ prog[i].kind = "replace" /\ prog[i].path = x
                     /\ prog[i].pre = prog[i].post

(* Object o is what the effects S have left at path x, or a copy where one *)
(* may stay.                                                               *)
Is(prog, w, S, x, o) == RewrittenIn(prog, x) \/ o = NameLeft(prog, w, S, x)

\* Path x is as the effects S have left it.
Stands(prog, w, S, x) ==
  At(w, x) = StateLeft(prog, S, x) /\ Is(prog, w, S, x, w.names[x])

\* Effect k has in its scratch slot what it found at its path.
Kept(prog, w, k) ==
  /\ Is(prog, w, Under(prog, k, prog[k].path), prog[k].path, w.names[k])
  /\ prog[k].kind # "move" => At(w, k) = prog[k].pre

\* Effect k is on disk, as far as path x tells.
High(prog, w, k, x) ==
  LET e == prog[k] IN
  /\ e.kind \in {"create", "mkdir"} =>
       (RewrittenIn(prog, x) \/ w.names[x] = k) /\ At(w, x) = e.post /\ Free(w, k)
  /\ e.kind = "replace" =>
       (RewrittenIn(prog, x) \/ w.names[x] = k) /\ At(w, x) = e.post /\ Kept(prog, w, k)
  /\ e.kind = "delete" => Free(w, x) /\ Kept(prog, w, k)
  /\ e.kind = "move" /\ x = e.dest => w.names[x] = w.names[k] /\ At(w, x) = e.pre
  /\ e.kind = "move" /\ x = e.path => Free(w, x) /\ Kept(prog, w, k)

\* What a path of an open effect is like, at any moment.
OpenAt(prog, w, k, x) ==
  LET e == prog[k]
      below == Under(prog, k, x)
  IN
  /\ e.kind # "move" => Stands(prog, w, below, x) \/ High(prog, w, k, x)
  /\ e.kind = "move" /\ x = e.path =>
       \/ Stands(prog, w, below, x) /\ Free(w, k)
       \/ w.names[k] # NoObj /\ Is(prog, w, below, x, w.names[k])
  /\ e.kind = "move" /\ x = e.dest =>
       \/ Free(w, x)
       \/ /\ w.names[k] # NoObj
          /\ w.names[x] = w.names[k] \/ w.names[e.path] # w.names[k]

\* What is at the paths, but for those the outside writer has changed.
PathsOK(prog, w, j, exempt) ==
  /\ \A k \in Effects : j[k] \in Open =>
       \A x \in Touches(prog[k]) \ exempt : OpenAt(prog, w, k, x)
  /\ \A x \in Declared(prog) \ exempt :
       (\A k \in Effects : x \in Touches(prog[k]) => j[k] \notin Open)
         => Stands(prog, w, DoneOn(prog, j, x), x)
  /\ \A k \in Effects :
       /\ j[k] = "done" /\ prog[k].kind \in {"replace", "delete", "move"}
       /\ prog[k].path \notin exempt
       => Kept(prog, w, k)

\* How far the effect that is being applied is, at path x.
ApplyingAt(k, x) ==
  LET e == program[k] IN
  /\ stage \in {"begin", "building", "built", "linked", "ready", "refusing"} =>
       Stands(program, world, Under(program, k, x), x)
  /\ e.kind # "move" /\ stage \in {"landed", "undoing", "verified"} => High(program, world, k, x)
  /\ e.kind = "move" /\ stage \in {"linked", "ready"} /\ x = e.path =>
       world.names[k] = world.names[x]
  /\ e.kind = "move" /\ stage \in {"landed", "undoing"} /\ x = e.path => Free(world, x)
  /\ e.kind = "move" /\ stage \in {"landed", "undoing"} /\ x = e.dest /\ e.path \notin touched =>
       world.names[x] = world.names[k]
  /\ e.kind = "move" /\ stage = "verified" => High(program, world, k, x)

\* Nothing is left to do about an open effect.
Settled(k) ==
  /\ \A x \in Touches(program[k]) \ touched :
       Stands(program, world, Under(program, k, x), x)
  /\ program[k].kind = "move" => Free(world, k)

\* The last step of the undo of effect k has been executed.
LastDone(k) == Due(k) /\ stage = "confirm" /\ steps[k] = <<Step(k)>>

\* The step that is due finds what it was authorized for.
Authorized(k) ==
  LET e == program[k] IN
  /\ e.kind # "move" /\ e.path \notin touched => At(world, e.path) = Step(k).before.states[e.path]
  /\ e.kind = "move" /\ Step(k).op \in {"relink", "drop"} /\ e.dest \notin touched =>
       Free(world, e.dest)
  /\ e.kind = "move" /\ Step(k).op = "drop" /\ e.path \notin touched =>
       world.names[e.path] = world.names[k] /\ At(world, e.path) = e.pre

\* The paths of every record that may still be rolled back.
PathsInv == Live => \A t \in Txns : PathsOK(program, world, journals[t], touched)

\* The paths of the effect that is being applied, between its system calls.
ApplyingInv ==
  pc = "apply" => \A k \in Effects : journals[active][k] = "started" =>
    \A x \in Touches(program[k]) \ touched : ApplyingAt(k, x)

\* The paths of the effect that is being taken back, between its steps.
SettlingInv ==
  pc = "plan" /\ plan = "rollback" => \A k \in Effects : journals[active][k] \in Open =>
    /\ steps[k] = <<>> \/ LastDone(k) => Settled(k)
    /\ Due(k) /\ stage = "mutate" => Authorized(k)

\* The invariant about paths: what a rollback needs to restore them is there.
RestoreInv == PathsInv /\ ApplyingInv /\ SettlingInv

-----------------------------------------------------------------------------
(* What a decision says about the world it was taken in.                   *)

(* The rows of the table of replace: which operations follow from which    *)
(* entries.                                                                *)
ReplaceChoice(st, live, scratch, ops) ==
  \/ ops = <<>> /\ st # "done" /\ scratch = "absent"
  \/ ops = <<"drop">> /\ live = "pre" /\ scratch \in {"pre", "post", "prefix"}
  \/ ops = <<"exchange", "drop">> /\ live = "post" /\ scratch \in {"pre", "external"}

\* The same for a replace of a file by its own content,
NoopChoice(st, live, scratch, ops) ==
  \/ ops = <<>> /\ st # "done" /\ scratch = "absent"
  \/ ops = <<"drop">> /\ scratch \in {"pre", "post", "prefix"}

\* for create,
CreateChoice(st, live, scratch, ops) ==
  \/ ops = <<>> /\ st # "done" /\ scratch = "absent" /\ live # "post"
  \/ ops = <<"drop">> /\ scratch \in {"pre", "post", "prefix"}
  \/ ops = <<"take", "drop">> /\ live = "post"

\* and for delete.
DeleteChoice(st, live, scratch, ops) ==
  \/ ops = <<>> /\ st # "done" /\ scratch = "absent"
  \/ ops = <<"restore">>

\* What a table decides is a row of it.
LEMMA DecideIsRow ==
  ASSUME NEW rows, NEW key, ~Decide(rows, key).halt
  PROVE  \E r \in rows : key \in r[1] /\ Decide(rows, key) = r[2]
BY DEF Decide, Halt

\* The key of a row.
LEMMA RowKeys ==
  ASSUME NEW j, NEW live, NEW scratch, NEW decision, NEW key \in On(j, live, scratch, decision)[1]
  PROVE  /\ key[1] \in j /\ key[2] \in live /\ key[3] \in scratch
         /\ On(j, live, scratch, decision)[2] = decision
BY DEF On

\* The rows of each table are as said.
LEMMA ReplaceRowsChoose ==
  \A r \in ReplaceRows : \A key \in r[1] : ReplaceChoice(key[1], key[2], key[3], r[2].ops)
<1>1. SUFFICES ASSUME NEW r \in ReplaceRows, NEW key \in r[1]
               PROVE  ReplaceChoice(key[1], key[2], key[3], r[2].ops)
  OBVIOUS
<1>2. PICK j, live, scratch, d :
        /\ r = On(j, live, scratch, d)
        /\ \A x \in j, y \in live, z \in scratch : ReplaceChoice(x, y, z, d.ops)
  BY DEF ReplaceRows, ReplaceChoice, Undo, Refuse
<1> QED
  BY <1>1, <1>2, RowKeys

\* The rows of the table of a replace by the same content are as said.
LEMMA NoopRowsChoose ==
  \A r \in NoopReplaceRows : \A key \in r[1] : NoopChoice(key[1], key[2], key[3], r[2].ops)
<1>1. SUFFICES ASSUME NEW r \in NoopReplaceRows, NEW key \in r[1]
               PROVE  NoopChoice(key[1], key[2], key[3], r[2].ops)
  OBVIOUS
<1>2. PICK j, live, scratch, d :
        /\ r = On(j, live, scratch, d)
        /\ \A x \in j, y \in live, z \in scratch : NoopChoice(x, y, z, d.ops)
  BY DEF NoopReplaceRows, NoopChoice, Undo, Refuse
<1> QED
  BY <1>1, <1>2, RowKeys

\* The rows of the table of create are as said.
LEMMA CreateRowsChoose ==
  \A r \in CreateRows : \A key \in r[1] : CreateChoice(key[1], key[2], key[3], r[2].ops)
<1>1. SUFFICES ASSUME NEW r \in CreateRows, NEW key \in r[1]
               PROVE  CreateChoice(key[1], key[2], key[3], r[2].ops)
  OBVIOUS
<1>2. PICK j, live, scratch, d :
        /\ r = On(j, live, scratch, d)
        /\ \A x \in j, y \in live, z \in scratch : CreateChoice(x, y, z, d.ops)
  BY DEF CreateRows, CreateChoice, Undo, Refuse
<1> QED
  BY <1>1, <1>2, RowKeys

\* The rows of the table of delete are as said.
LEMMA DeleteRowsChoose ==
  \A r \in DeleteRows : \A key \in r[1] : DeleteChoice(key[1], key[2], key[3], r[2].ops)
<1>1. SUFFICES ASSUME NEW r \in DeleteRows, NEW key \in r[1]
               PROVE  DeleteChoice(key[1], key[2], key[3], r[2].ops)
  OBVIOUS
<1>2. PICK j, live, scratch, d :
        /\ r = On(j, live, scratch, d)
        /\ \A x \in j, y \in live, z \in scratch : DeleteChoice(x, y, z, d.ops)
  BY DEF DeleteRows, DeleteChoice, Undo, Refuse
<1> QED
  BY <1>1, <1>2, RowKeys

(* What recovery does about effect i of world w, whose journal is st, and  *)
(* what it saw there.                                                      *)
Choice(e, w, st, i, ops) ==
  \/ /\ ops = <<>> /\ st # "done" /\ At(w, i) = "absent"
     /\ e.kind \in {"create", "mkdir"} => At(w, e.path) # e.post
     /\ e.kind = "move" => At(w, e.dest) = "absent"
  \/ /\ e.kind = "replace" /\ ops = <<"drop">>
     /\ At(w, i) \in Contents(e) /\ (e.pre = e.post \/ At(w, e.path) = e.pre)
  \/ /\ e.kind = "replace" /\ e.pre # e.post /\ ops = <<"exchange", "drop">>
     /\ At(w, e.path) = e.post /\ At(w, i) # e.post
  \/ e.kind = "create" /\ ops = <<"drop">> /\ At(w, i) \in Contents(e)
  \/ e.kind = "create" /\ ops = <<"take", "drop">> /\ At(w, e.path) = e.post
  \/ e.kind = "delete" /\ ops = <<"restore">>
  \/ e.kind = "mkdir" /\ ops \in {<<"rmdir_live">>, <<"drop">>, <<"drop", "rmdir_live">>}
  \/ /\ e.kind = "move" /\ ops = <<"move_back", "drop">>
     /\ SameObject(w, i, e.dest) /\ At(w, i) = e.pre
  \/ /\ e.kind = "move" /\ ops = <<"drop">>
     /\ SameObject(w, i, e.path) /\ At(w, e.path) = e.pre /\ At(w, e.dest) # e.pre
  \/ /\ e.kind = "move" /\ ops = <<"drop_destination", "drop">>
     /\ SameObject(w, i, e.path) /\ SameObject(w, i, e.dest) /\ At(w, e.path) = e.pre
  \/ /\ e.kind = "move" /\ ops = <<"relink", "drop">>
     /\ At(w, e.dest) = "absent" /\ At(w, i) = e.pre

\* The tables of file effects.
LEMMA FileChoice ==
  ASSUME NEW prog, NEW w, NEW j, NEW i, WellFormed(prog[i]),
         prog[i].kind \in {"replace", "create", "delete"},
         ~FileDecision(prog, w, j, i).halt
  PROVE  Choice(prog[i], w, j[i], i, FileDecision(prog, w, j, i).ops)
<1>1. PICK e : e = prog[i]
  OBVIOUS
<1>2. PICK live : live = EntryClass(At(w, e.path), e.pre, e.post, FALSE)
  OBVIOUS
<1>3. PICK scratch : scratch = EntryClass(At(w, i), e.pre, e.post, PartlyBuilt(prog, w, j, i))
  OBVIOUS
<1>4. PICK d : d = FileDecision(prog, w, j, i)
  OBVIOUS
<1>5. PICK rows : /\ d = Decide(rows, <<j[i], live, scratch>>)
                  /\ rows = CASE e.kind = "replace" /\ e.pre # e.post -> ReplaceRows
                              [] e.kind = "replace" /\ e.pre = e.post -> NoopReplaceRows
                              [] e.kind = "create" -> CreateRows
                              [] e.kind = "delete" -> DeleteRows
  BY <1>1, <1>2, <1>3, <1>4 DEF FileDecision
<1>6. PICK key : key = <<j[i], live, scratch>>
  OBVIOUS
<1>61. key[1] = j[i] /\ key[2] = live /\ key[3] = scratch
  BY <1>6
<1>7. PICK r \in rows : key \in r[1] /\ d = r[2]
  BY <1>4, <1>5, <1>6, DecideIsRow
<1>8. /\ scratch = "absent" <=> At(w, i) = "absent"
      /\ live = "pre" => At(w, e.path) = e.pre
      /\ live = "post" => At(w, e.path) = e.post /\ At(w, e.path) # e.pre
      /\ At(w, e.path) = e.post /\ e.post # e.pre /\ e.post # "absent" => live = "post"
      /\ scratch = "pre" => At(w, i) = e.pre
      /\ scratch = "external" => At(w, i) # e.post
      /\ scratch = "post" => At(w, i) = e.post
      /\ scratch = "prefix" => PartlyBuilt(prog, w, j, i)
  BY <1>2, <1>3 DEF EntryClass
<1>81. /\ scratch \in {"pre", "post", "prefix"} => At(w, i) \in Contents(e)
  BY <1>1, <1>8 DEF Contents, PartlyBuilt
<1>9. CASE e.kind = "replace" /\ e.pre # e.post
  <2>1. ReplaceChoice(j[i], live, scratch, d.ops)
    BY <1>5, <1>61, <1>7, <1>9, ReplaceRowsChoose
  <2> QED
    BY <1>1, <1>4, <1>8, <1>81, <1>9, <2>1 DEF ReplaceChoice, Choice
<1>10. CASE e.kind = "replace" /\ e.pre = e.post
  <2>1. NoopChoice(j[i], live, scratch, d.ops)
    BY <1>5, <1>61, <1>7, <1>10, NoopRowsChoose
  <2> QED
    BY <1>1, <1>4, <1>8, <1>81, <1>10, <2>1 DEF NoopChoice, Choice
<1>11. CASE e.kind = "create"
  <2>1. CreateChoice(j[i], live, scratch, d.ops)
    BY <1>5, <1>61, <1>7, <1>11, CreateRowsChoose
  <2>2. e.pre = "absent" /\ e.post # "absent"
    BY <1>1, <1>11 DEF WellFormed
  <2> QED
    BY <1>1, <1>4, <1>8, <1>81, <1>11, <2>1, <2>2 DEF CreateChoice, Choice
<1>12. CASE e.kind = "delete"
  <2>1. DeleteChoice(j[i], live, scratch, d.ops)
    BY <1>5, <1>61, <1>7, <1>12, DeleteRowsChoose
  <2> QED
    BY <1>1, <1>4, <1>8, <1>12, <2>1 DEF DeleteChoice, Choice
<1> QED
  BY <1>1, <1>9, <1>10, <1>11, <1>12

\* What a decision about a move says of the joint observation it was taken in.
LEMMA MoveChoice ==
  ASSUME NEW prog, NEW w, NEW j, NEW i, prog[i].kind = "move", WellFormed(prog[i]),
         ~MoveDecision(prog, w, j, i).halt
  PROVE  Choice(prog[i], w, j[i], i, MoveDecision(prog, w, j, i).ops)
<1>1. PICK e : e = prog[i]
  OBVIOUS
<1>2. PICK d : d = MoveDecision(prog, w, j, i)
  OBVIOUS
<1>3. PICK x, y, z : /\ x = EntryClass(At(w, e.path), e.pre, e.pre, FALSE)
                     /\ y = EntryClass(At(w, e.dest), e.pre, e.pre, FALSE)
                     /\ z = EntryClass(At(w, i), e.pre, e.pre, FALSE)
  OBVIOUS
<1>4. /\ x = "pre" => At(w, e.path) = e.pre
      /\ y \in {"absent", "external"} /\ e.pre # "absent" => At(w, e.dest) # e.pre
      /\ y = "absent" <=> At(w, e.dest) = "absent"
      /\ z = "absent" <=> At(w, i) = "absent"
      /\ z = "pre" => At(w, i) = e.pre
  BY <1>3 DEF EntryClass
<1>5. e.pre # "absent"
  BY <1>1 DEF WellFormed
<1>6. \/ /\ d = Undo(<<"move_back", "drop">>) /\ z = "pre" /\ "destination" \in Anchored(w, e, i)
      \/ d = Undo(<<>>) /\ j[i] \in Open /\ y = "absent" /\ z = "absent"
      \/ /\ d \in {Undo(<<"drop">>), Refuse(<<"drop">>)}
         /\ x = "pre" /\ y \in {"absent", "external"} /\ "source" \in Anchored(w, e, i)
      \/ /\ d = Undo(<<"drop_destination", "drop">>) /\ x = "pre"
         /\ "source" \in Anchored(w, e, i) /\ "destination" \in Anchored(w, e, i)
      \/ d = Undo(<<"relink", "drop">>) /\ y = "absent" /\ z = "pre"
  BY <1>1, <1>2, <1>3 DEF MoveDecision, Halt
<1>7. /\ "destination" \in Anchored(w, e, i) => SameObject(w, i, e.dest)
      /\ "source" \in Anchored(w, e, i) => SameObject(w, i, e.path)
  BY DEF Anchored
<1>8. "done" \notin Open
  BY DEF Open
<1> QED
  BY <1>1, <1>2, <1>4, <1>5, <1>6, <1>7, <1>8 DEF Choice, Undo, Refuse

\* What a decision about a directory says of the joint observation.
LEMMA DirectoryChoice ==
  ASSUME NEW prog, NEW w, NEW j, NEW i, prog[i].kind = "mkdir", WellFormed(prog[i]),
         ~DirectoryDecision(prog, w, j, i).halt
  PROVE  Choice(prog[i], w, j[i], i, DirectoryDecision(prog, w, j, i).ops)
<1>1. PICK e : e = prog[i]
  OBVIOUS
<1>2. PICK d : d = DirectoryDecision(prog, w, j, i)
  OBVIOUS
<1>3. PICK live, work : /\ live = EntryClass(At(w, e.path), "absent", e.post, FALSE)
                        /\ work = EntryClass(At(w, i), "absent", e.post, FALSE)
  OBVIOUS
<1>4. /\ live = "absent" <=> At(w, e.path) = "absent"
      /\ work = "absent" <=> At(w, i) = "absent"
  BY <1>3 DEF EntryClass
<1>5. e.post # "absent"
  BY <1>1 DEF WellFormed
<1>51. d # Halt
  BY <1>2 DEF Halt
<1>6. \/ d = Undo(<<>>) /\ j[i] \in Open /\ live = "absent" /\ work = "absent"
      \/ d \in {Undo(<<"rmdir_live">>), Undo(<<"drop">>), Refuse(<<"drop">>),
                Undo(<<"drop", "rmdir_live">>)}
  <2>1. CASE j[i] \in Open /\ live = "absent" /\ work = "absent"
    <3>1. DirectoryDecision(prog, w, j, i) \in
            {Undo(<<>>), Undo(<<"rmdir_live">>), Undo(<<"drop">>), Refuse(<<"drop">>),
             Undo(<<"drop", "rmdir_live">>), Halt}
      BY DEF DirectoryDecision
    <3> QED
      BY <1>2, <1>51, <2>1, <3>1
  <2>2. CASE ~(j[i] \in Open /\ live = "absent" /\ work = "absent")
    <3>1. ~(/\ j[i] \in Open /\ EntryClass(At(w, prog[i].path), "absent", prog[i].post, FALSE) = "absent"
            /\ EntryClass(At(w, i), "absent", prog[i].post, FALSE) = "absent")
      BY <1>1, <1>3, <2>2
    <3>2. DirectoryDecision(prog, w, j, i) \in
            {Undo(<<"rmdir_live">>), Undo(<<"drop">>), Refuse(<<"drop">>),
             Undo(<<"drop", "rmdir_live">>), Halt}
      BY <3>1 DEF DirectoryDecision
    <3> QED
      BY <1>2, <1>51, <3>2
  <2> QED
    BY <2>1, <2>2
<1>7. "done" \notin Open
  BY DEF Open
<1> QED
  BY <1>1, <1>2, <1>4, <1>5, <1>6, <1>7 DEF Choice, Undo, Refuse

\* What recovery does about an effect that was begun.
LEMMA ClassifiedChoice ==
  ASSUME NEW prog, NEW w, NEW j, NEW i, WellFormed(prog[i]), j[i] \notin Unwound,
         ~ClassifyEffect(prog, w, j, i).halt
  PROVE  Choice(prog[i], w, j[i], i, ClassifyEffect(prog, w, j, i).ops)
<1>1. ClassifyEffect(prog, w, j, i) =
        IF prog[i].kind = "move" THEN MoveDecision(prog, w, j, i)
        ELSE IF prog[i].kind = "mkdir" THEN DirectoryDecision(prog, w, j, i)
        ELSE FileDecision(prog, w, j, i)
  BY DEF ClassifyEffect, Unwound
<1>2. prog[i].kind \in Kinds
  BY DEF WellFormed
<1> QED
  BY <1>1, <1>2, MoveChoice, DirectoryChoice, FileChoice DEF Kinds

\* An effect that was not begun, or is undone, is left alone.
LEMMA UnwoundChoice ==
  ASSUME NEW prog, NEW w, NEW j, NEW i, j[i] \in Unwound,
         ~ClassifyEffect(prog, w, j, i).halt
  PROVE  ClassifyEffect(prog, w, j, i).ops = <<>>
BY DEF ClassifyEffect, Unwound, Halt, Undo, Refuse

-----------------------------------------------------------------------------
(* The steps of a plan expect what classification saw.                     *)

\* Step s is operation op, bound to what is observed in w.
Expects(s, prog, w, i, op) ==
  /\ s.op = op /\ s.slots = EffectSlots(prog, i)
  /\ s.before = Joint(prog, w, EffectSlots(prog, i))

(* What a step expects is what its world shows: the states and the         *)
(* identities of the live paths and the scratch slot.                      *)
Seen(s, e, w, i, op) ==
  /\ s.op = op /\ s.slots = Touches(e) \cup {i}
  /\ \A x \in {e.path, e.dest, i} : s.before.states[x] = At(w, x)
  /\ \A x, y \in {e.path, e.dest, i} : <<x, y>> \in s.before.same <=> SameObject(w, x, y)

\* What the observation that is bound to a step has seen.
LEMMA ExpectsSees ==
  ASSUME NEW s, NEW prog, NEW w, NEW i, NEW op, Expects(s, prog, w, i, op)
  PROVE  Seen(s, prog[i], w, i, op)
<1>1. {prog[i].path, prog[i].dest, i} = EffectSlots(prog, i)
  BY DEF EffectSlots, Touches
<1>2. s.op = op /\ s.slots = EffectSlots(prog, i)
      /\ s.before = Joint(prog, w, EffectSlots(prog, i))
  BY DEF Expects
<1>3. /\ s.before.states = [x \in EffectSlots(prog, i) |-> At(w, x)]
      /\ s.before.same = {z \in EffectSlots(prog, i) \X EffectSlots(prog, i) :
                            SameObject(w, z[1], z[2])}
  BY <1>2 DEF Joint
<1> QED
  BY <1>1, <1>2, <1>3 DEF EffectSlots, Seen

\* A settlement operation changes no object and stuffs no directory.
LEMMA ApplyInodes ==
  ASSUME NEW prog, NEW w, Solid(w), NEW i,
         NEW op \in {"exchange", "drop", "take", "restore", "move_back", "relink",
                    "drop_destination", "rmdir_live"}
  PROVE  Apply(prog, w, op, i).inode = w.inode /\ Apply(prog, w, op, i).stuffed = w.stuffed
<1>1. PICK e : e = prog[i]
  OBVIOUS
<1>2. CASE op \in {"exchange", "take", "restore", "move_back"}
  <2>1. PICK s, o, r, x : Apply(prog, w, op, i) = [w EXCEPT !.names[s] = o, !.names[r] = x]
    BY <1>2 DEF Apply, Rename
  <2> QED
    BY <2>1, NamesOnly DEF SetNames
<1>3. CASE op \in {"drop", "relink", "drop_destination", "rmdir_live"}
  <2>1. PICK s, o : Apply(prog, w, op, i) = [w EXCEPT !.names[s] = o]
    BY <1>3 DEF Apply, Unlink, DropScratch
  <2> QED
    BY <2>1, NamesOnly DEF SetName
<1> QED
  BY <1>2, <1>3

\* An effect that nothing is planned for.
LEMMA BoundNothing ==
  ASSUME NEW prog, NEW w, NEW i, NEW slots
  PROVE  /\ BindSteps(prog, w, i, slots, <<>>).steps = <<>>
         /\ BindSteps(prog, w, i, slots, <<>>).world = w
<1>1. Len(<<>>) = 0
  OBVIOUS
<1> QED
  BY <1>1, BindUnfolds, BoundNone

\* A plan of one step, and one of two, expects the world it was made in.
LEMMA BoundExpects ==
  ASSUME NEW prog, NEW w, NEW i, NEW x, NEW y
  PROVE  /\ \E s : /\ BindSteps(prog, w, i, EffectSlots(prog, i), <<x>>).steps = <<s>>
                   /\ Expects(s, prog, w, i, x)
         /\ \E s, u : /\ BindSteps(prog, w, i, EffectSlots(prog, i), <<x, y>>).steps = <<s, u>>
                      /\ Expects(s, prog, w, i, x)
                      /\ Expects(u, prog, Apply(prog, w, x, i), i, y)
<1>1. PICK slots : slots = EffectSlots(prog, i)
  OBVIOUS
<1>3. \E s : /\ BindSteps(prog, w, i, slots, <<x>>).steps = <<s>>
             /\ Expects(s, prog, w, i, x)
  <2>1. PICK worlds : worlds = BoundWorlds(prog, w, i, <<x>>)
    OBVIOUS
  <2>2. worlds[0] = w
    BY <2>1, BoundOne
  <2>3. PICK s : s = BoundStep(prog, worlds, slots, <<x>>, 1)
    OBVIOUS
  <2>4. BindSteps(prog, w, i, slots, <<x>>).steps = <<s>>
    <3>1. BindSteps(prog, w, i, slots, <<x>>).steps
            = [k \in 1..Len(<<x>>) |-> BoundStep(prog, worlds, slots, <<x>>, k)]
      BY <2>1, BindUnfolds
    <3> QED
      BY <2>3, <3>1
  <2>5. Expects(s, prog, w, i, x)
    BY <1>1, <2>2, <2>3 DEF Expects, BoundStep
  <2> QED
    BY <2>4, <2>5
<1>4. \E s, u : /\ BindSteps(prog, w, i, slots, <<x, y>>).steps = <<s, u>>
                /\ Expects(s, prog, w, i, x)
                /\ Expects(u, prog, Apply(prog, w, x, i), i, y)
  <2>1. PICK worlds : worlds = BoundWorlds(prog, w, i, <<x, y>>)
    OBVIOUS
  <2>2. worlds[0] = w /\ worlds[1] = Apply(prog, w, x, i)
    BY <2>1, BoundTwo
  <2>3. PICK s : s = BoundStep(prog, worlds, slots, <<x, y>>, 1)
    OBVIOUS
  <2>4. PICK u : u = BoundStep(prog, worlds, slots, <<x, y>>, 2)
    OBVIOUS
  <2>5. BindSteps(prog, w, i, slots, <<x, y>>).steps = <<s, u>>
    <3>1. BindSteps(prog, w, i, slots, <<x, y>>).steps
            = [k \in 1..Len(<<x, y>>) |-> BoundStep(prog, worlds, slots, <<x, y>>, k)]
      BY <2>1, BindUnfolds
    <3> QED
      BY <2>3, <2>4, <3>1
  <2>6. Expects(s, prog, w, i, x) /\ Expects(u, prog, Apply(prog, w, x, i), i, y)
    BY <1>1, <2>2, <2>3, <2>4 DEF Expects, BoundStep
  <2> QED
    BY <2>5, <2>6
<1> QED
  BY <1>1, <1>3, <1>4

\* What is planned about an effect in world w, and when that is nothing.
WellBound(e, b, w, st, i) ==
  /\ SoundPlan(e, i, b.steps)
  /\ b.steps = <<>> => st # "done" /\ Idle(e, w, i) /\ b.world = w

(* The plan of an effect that was decided on in world w is sound there.    *)
LEMMA BoundSound ==
  ASSUME NEW prog, NEW w, Solid(w), NEW i \in Effects, WellFormed(prog[i]),
         prog[i].kind = "move" => prog[i].path # prog[i].dest,
         NEW st, NEW ops, Choice(prog[i], w, st, i, ops)
  PROVE  WellBound(prog[i], BindSteps(prog, w, i, EffectSlots(prog, i), ops), w, st, i)
<1>1. PICK e : e = prog[i]
  OBVIOUS
<1>2. PICK b : b = BindSteps(prog, w, i, EffectSlots(prog, i), ops)
  OBVIOUS
<1>3. /\ e.path \in Named /\ e.dest \in Named /\ i \in Named /\ e.path # i /\ e.dest # i
      /\ e.kind \in Kinds /\ (e.kind # "move" => e.dest = e.path)
      /\ e.pre = "absent" <=> e.kind \in {"create", "mkdir"}
  BY <1>1, SlotsApart DEF WellFormed, Touches, Named
<1>4. CASE ops = <<>>
  <2>1. b.steps = <<>> /\ b.world = w
    BY <1>2, <1>4, BoundNothing
  <2>2. st # "done" /\ Idle(e, w, i)
    BY <1>1, <1>4 DEF Choice, Idle
  <2> QED
    BY <1>1, <1>2, <2>1, <2>2 DEF SoundPlan, WellBound
<1>5. ASSUME NEW x, ops = <<x>> PROVE SoundPlan(e, i, b.steps) /\ b.steps # <<>>
  <2>1. PICK s : b.steps = <<s>> /\ Expects(s, prog, w, i, x)
    BY <1>2, <1>5, BoundExpects
  <2>2. Seen(s, e, w, i, x)
    BY <1>1, <2>1, ExpectsSees
  <2>3. Choice(e, w, st, i, <<x>>)
    BY <1>1, <1>5
  <2>4. \/ /\ e.kind = "replace" /\ x = "drop" /\ At(w, i) \in Contents(e)
           /\ e.pre = e.post \/ At(w, e.path) = e.pre
        \/ e.kind = "create" /\ x = "drop" /\ At(w, i) \in Contents(e)
        \/ e.kind = "delete" /\ x = "restore"
        \/ e.kind = "mkdir" /\ x \in {"rmdir_live", "drop"}
        \/ /\ e.kind = "move" /\ x = "drop" /\ SameObject(w, i, e.path)
           /\ At(w, e.path) = e.pre /\ At(w, e.dest) # e.pre
    BY <2>3 DEF Choice
  <2>5. Sound(e, i, s) /\ (e.kind = "move" => s.op = "drop")
    <3>1. e.kind = "move" => At(w, i) \in Contents(e)
      BY <2>4 DEF SameObject, At, Contents
    <3> QED
      BY <2>2, <2>4, <3>1 DEF Sound, Seen
  <2> QED
    BY <2>1, <2>5 DEF SoundPlan
<1>6. ASSUME NEW x, NEW z, ops = <<x, z>> PROVE SoundPlan(e, i, b.steps) /\ b.steps # <<>>
  <2>1. PICK v : v = Apply(prog, w, x, i)
    OBVIOUS
  <2>2. PICK s, u : b.steps = <<s, u>> /\ Expects(s, prog, w, i, x) /\ Expects(u, prog, v, i, z)
    BY <1>2, <1>6, <2>1, BoundExpects
  <2>3. Seen(s, e, w, i, x)
    BY <1>1, <2>2, ExpectsSees
  <2>4. Seen(u, e, v, i, z)
    BY <1>1, <2>2, ExpectsSees
  <2>5. Choice(e, w, st, i, <<x, z>>)
    BY <1>1, <1>6
  <2>6. \/ /\ e.kind = "replace" /\ e.pre # e.post /\ x = "exchange" /\ z = "drop"
           /\ At(w, e.path) = e.post /\ At(w, i) # e.post
        \/ e.kind = "create" /\ x = "take" /\ z = "drop" /\ At(w, e.path) = e.post
        \/ e.kind = "mkdir" /\ x = "drop" /\ z = "rmdir_live"
        \/ /\ e.kind = "move" /\ x = "move_back" /\ z = "drop"
           /\ SameObject(w, i, e.dest) /\ At(w, i) = e.pre
        \/ /\ e.kind = "move" /\ x = "drop_destination" /\ z = "drop"
           /\ SameObject(w, i, e.path) /\ SameObject(w, i, e.dest) /\ At(w, e.path) = e.pre
        \/ /\ e.kind = "move" /\ x = "relink" /\ z = "drop"
           /\ At(w, e.dest) = "absent" /\ At(w, i) = e.pre
    BY <2>5 DEF Choice
  <2>7. v.inode = w.inode
    <3>1. x \in {"exchange", "take", "drop", "move_back", "drop_destination", "relink"}
      BY <2>6
    <3> QED
      BY <2>1, <3>1, ApplyInodes
  <2>8. CASE e.kind = "replace"
    <3>1. v = SetNames(w, e.path, w.names[i], i, w.names[e.path])
      BY <1>1, <2>1, <2>6, <2>8, ApplyBinds
    <3>2. v.names[e.path] = w.names[i] /\ v.names[i] = w.names[e.path]
      BY <1>3, <3>1, TwoNamesMove
    <3>3. At(v, e.path) # e.post /\ At(v, i) \in Contents(e)
      BY <2>6, <2>7, <2>8, <3>2 DEF At, Contents
    <3>4. Sound(e, i, s)
      BY <2>3, <2>6, <2>8 DEF Sound, Seen
    <3>5. Sound(e, i, u)
      BY <2>4, <2>6, <2>8, <3>3 DEF Sound, Seen
    <3> QED
      BY <2>2, <2>8, <3>4, <3>5 DEF SoundPlan
  <2>9. CASE e.kind \in {"create", "mkdir"}
    <3>1. Sound(e, i, s)
      BY <2>3, <2>6, <2>9 DEF Sound, Seen
    <3>2. e.kind = "create" => At(v, i) \in Contents(e)
      <4>1. SUFFICES ASSUME e.kind = "create" PROVE At(v, i) \in Contents(e)
        OBVIOUS
      <4>2. v = SetNames(w, i, w.names[e.path], e.path, NoObj)
        BY <1>1, <2>1, <2>6, <4>1, ApplyBinds
      <4>3. v.names[i] = w.names[e.path]
        BY <1>3, <4>2, TwoNamesMove
      <4> QED
        BY <2>6, <2>7, <4>1, <4>3 DEF At, Contents
    <3>3. Sound(e, i, u)
      BY <2>4, <2>6, <2>9, <3>2 DEF Sound, Seen
    <3> QED
      BY <2>2, <2>9, <3>1, <3>3 DEF SoundPlan
  <2>10. CASE e.kind = "move"
    <3>1. e.path # e.dest /\ e.pre # "absent"
      BY <1>1, <1>3, <2>10
    <3>2. /\ v.names[e.path] = w.names[i] /\ v.names[i] = w.names[i]
          /\ w.names[i] # NoObj /\ At(w, i) = e.pre /\ At(v, e.dest) = "absent"
      <4>1. CASE x = "move_back"
        <5>1. v = SetNames(w, e.path, w.names[e.dest], e.dest, NoObj)
          BY <1>1, <2>1, <4>1, ApplyBinds
        <5>2. /\ v.names[e.path] = w.names[e.dest] /\ v.names[e.dest] = NoObj
              /\ v.names[i] = w.names[i]
          BY <1>3, <3>1, <5>1, TwoNamesMove
        <5> QED
          BY <2>6, <2>10, <4>1, <5>2 DEF SameObject, At
      <4>2. CASE x = "drop_destination"
        <5>1. v = SetName(w, e.dest, NoObj)
          BY <1>1, <2>1, <4>2, ApplyBinds
        <5>2. v.names[e.path] = w.names[e.path] /\ v.names[e.dest] = NoObj
              /\ v.names[i] = w.names[i]
          BY <1>3, <3>1, <5>1, OneNameMoves
        <5> QED
          BY <2>6, <2>10, <4>2, <5>2 DEF SameObject, At
      <4>3. CASE x = "relink"
        <5>1. v = SetName(w, e.path, w.names[i])
          BY <1>1, <2>1, <4>3, ApplyBinds
        <5>2. v.names[e.path] = w.names[i] /\ v.names[e.dest] = w.names[e.dest]
              /\ v.names[i] = w.names[i]
          BY <1>3, <3>1, <5>1, OneNameMoves
        <5>3. w.names[i] # NoObj
          BY <2>6, <2>10, <3>1, <4>3 DEF At
        <5>4. At(v, e.dest) = "absent"
          BY <2>6, <2>7, <2>10, <4>3, <5>2 DEF At
        <5> QED
          BY <2>6, <2>10, <4>3, <5>2, <5>3, <5>4
      <4> QED
        BY <2>6, <2>10, <4>1, <4>2, <4>3
    <3>3. SameObject(v, i, e.path) /\ At(v, e.path) = e.pre
      BY <2>7, <3>2 DEF SameObject, At
    <3>4. Sound(e, i, s)
      BY <2>3, <2>6, <2>10 DEF Sound, Seen
    <3>5. At(v, i) \in Contents(e)
      BY <2>7, <3>2 DEF At, Contents
    <3>6. Sound(e, i, u) /\ u.op = "drop"
      BY <2>4, <2>6, <2>10, <3>1, <3>2, <3>3, <3>5 DEF Sound, Seen
    <3> QED
      BY <2>2, <3>4, <3>6 DEF SoundPlan
  <2> QED
    BY <2>6, <2>8, <2>9, <2>10
<1>7. \/ ops = <<>> \/ (\E x : ops = <<x>>) \/ \E x, z : ops = <<x, z>>
  BY DEF Choice
<1> QED
  BY <1>1, <1>2, <1>4, <1>5, <1>6, <1>7 DEF WellBound

(* What a rollback plan expects of effect i: a sound plan, which is empty  *)
(* only where nothing was done; and an open effect with nothing planned,   *)
(* behind which nothing stands, is not on disk.                            *)
SoundFor(prog, w, j, planned, i) ==
  /\ SoundPlan(prog[i], i, planned[i])
  /\ planned[i] = <<>> => j[i] # "done"
  /\ planned[i] = <<>> /\ j[i] \notin Unwound /\ (\A k \in Effects : k > i => j[k] \in Unwound) =>
       Idle(prog[i], w, i)

\* The plan that is being made, down from the last effect to effect m + 1.
SoundTo(prog, w, j, c, m) ==
  /\ PlannedTo(w, c, m)
  /\ ~c.halt =>
       /\ c.j = [i \in Effects |-> c.j[i]]
       /\ \A i \in Effects : i <= m => c.j[i] = j[i]
       /\ \A i \in Effects : i > m => SoundFor(prog, w, j, c.steps, i)
       /\ (\A i \in Effects : i > m => j[i] \in Unwound) => c.world = w

\* One more effect is decided.
LEMMA PlanStepSound ==
  ASSUME NEW prog, \A i \in Effects : WellFormed(prog[i]), Compiles(prog),
         NEW w, NEW j, NEW c, NEW k \in Effects, SoundTo(prog, w, j, c, N + 1 - k)
  PROVE  SoundTo(prog, w, j, PlanStep(prog, c, k), N - k)
<1>1. PICK i : i = N + 1 - k
  OBVIOUS
<1>2. i \in Effects /\ N - k = i - 1 /\ k \in Nat
  BY <1>1, NAssumption DEF Effects
<1>3. PICK d : d = ClassifyEffect(prog, c.world, c.j, i)
  OBVIOUS
<1>4. PICK b : b = BindSteps(prog, c.world, i, EffectSlots(prog, i), d.ops)
  OBVIOUS
<1>5. PlannedTo(w, PlanStep(prog, c, k), N - k)
  BY PlanStepClears DEF SoundTo
<1>6. CASE c.halt
  BY <1>5, <1>6 DEF PlanStep, SoundTo
<1>7. CASE ~c.halt
  <2>1. PICK e : e = PlanStep(prog, c, k)
    OBVIOUS
  <2>2. /\ e.world = b.world /\ e.halt = d.halt
        /\ e.steps = [c.steps EXCEPT ![i] = b.steps]
        /\ e.j = [c.j EXCEPT ![i] = IF c.j[i] = "pending" THEN c.j[i] ELSE "undone"]
    BY <1>1, <1>3, <1>4, <1>7, <2>1 DEF PlanStep
  <2>3. /\ Solid(c.world) /\ c.steps = [x \in Effects |-> c.steps[x]]
        /\ c.j = [x \in Effects |-> c.j[x]]
        /\ \A x \in Effects : x <= i => c.j[x] = j[x]
        /\ \A x \in Effects : x > i => SoundFor(prog, w, j, c.steps, x)
        /\ (\A x \in Effects : x > i => j[x] \in Unwound) => c.world = w
    BY <1>1, <1>7 DEF SoundTo, PlannedTo
  <2>4. SUFFICES ASSUME ~d.halt PROVE SoundTo(prog, w, j, e, i - 1)
    BY <1>2, <1>5, <2>1, <2>2 DEF SoundTo
  <2>5. c.j[i] = j[i] /\ WellFormed(prog[i])
        /\ (prog[i].kind = "move" => prog[i].path # prog[i].dest)
    <3>1. \A x \in Effects : prog[x].kind = "move" => prog[x].path # prog[x].dest
      BY DEF Compiles
    <3>2. i <= i
      BY <1>2 DEF Effects
    <3> QED
      BY <1>2, <2>3, <3>1, <3>2
  <2>6. /\ SoundPlan(prog[i], i, b.steps)
        /\ b.steps = <<>> => j[i] # "done"
        /\ b.steps = <<>> /\ j[i] \notin Unwound => Idle(prog[i], c.world, i)
        /\ j[i] \in Unwound => b.world = c.world
    <3>1. CASE j[i] \in Unwound
      <4>1. d.ops = <<>>
        BY <1>3, <2>4, <2>5, <3>1, UnwoundChoice
      <4>2. b.steps = <<>> /\ b.world = c.world
        BY <1>4, <4>1, BoundNothing
      <4> QED
        BY <3>1, <4>2 DEF SoundPlan, Unwound
    <3>2. CASE j[i] \notin Unwound
      <4>1. Choice(prog[i], c.world, j[i], i, d.ops)
        BY <1>3, <2>4, <2>5, <3>2, ClassifiedChoice
      <4>2. PICK ops : ops = d.ops
        OBVIOUS
      <4>3. PICK wi : wi = c.world
        OBVIOUS
      <4>4. PICK st : st = j[i]
        OBVIOUS
      <4>5. Solid(wi) /\ Choice(prog[i], wi, st, i, ops)
        BY <2>3, <4>1, <4>2, <4>3, <4>4
      <4>6. b = BindSteps(prog, wi, i, EffectSlots(prog, i), ops)
        BY <1>4, <4>2, <4>3
      <4>7. WellBound(prog[i], b, wi, st, i)
        BY <1>2, <2>5, <4>5, <4>6, BoundSound
      <4> QED
        BY <3>2, <4>3, <4>4, <4>7 DEF WellBound
    <3> QED
      BY <3>1, <3>2
  <2>7. /\ e.steps[i] = b.steps /\ \A x \in Effects \ {i} : e.steps[x] = c.steps[x]
        /\ e.j = [x \in Effects |-> e.j[x]] /\ \A x \in Effects \ {i} : e.j[x] = c.j[x]
    BY <1>2, <2>2, <2>3
  <2>8. \A x \in Effects : /\ x <= i - 1 => x # i /\ x <= i
                           /\ x > i - 1 => x = i \/ x > i
    BY <1>2 DEF Effects
  <2>9. SoundFor(prog, w, j, e.steps, i)
    BY <2>3, <2>6, <2>7 DEF SoundFor
  <2>10. ASSUME NEW x \in Effects, x > i - 1 PROVE SoundFor(prog, w, j, e.steps, x)
    <3>1. CASE x = i
      BY <2>9, <3>1
    <3>2. CASE x # i
      BY <2>3, <2>7, <2>8, <2>10, <3>2 DEF SoundFor
    <3> QED
      BY <3>1, <3>2
  <2>11. ASSUME \A x \in Effects : x > i - 1 => j[x] \in Unwound PROVE e.world = w
    <3>1. i > i - 1 /\ \A x \in Effects : x > i => x > i - 1
      BY <1>2 DEF Effects
    <3> QED
      BY <1>2, <2>2, <2>3, <2>6, <2>11, <3>1
  <2>12. PlannedTo(w, e, i - 1)
    BY <1>2, <1>5, <2>1
  <2>13. \A x \in Effects : x <= i - 1 => e.j[x] = j[x]
    BY <2>3, <2>7, <2>8
  <2> QED
    BY <2>7, <2>10, <2>11, <2>12, <2>13 DEF SoundTo
<1> QED
  BY <1>6, <1>7

(* Whatever a rollback plan does, each of its steps expects what is on     *)
(* disk when the steps before it have been taken (_rollback_plan).         *)
LEMMA RollbackPlanSound ==
  ASSUME NEW prog, \A i \in Effects : WellFormed(prog[i]), Compiles(prog),
         NEW w, Solid(w), NEW j \in [Effects -> JournalStates],
         ~RollbackPlan(prog, w, j).halt, NEW n \in Effects
  PROVE  SoundFor(prog, w, j, RollbackPlan(prog, w, j).steps, n)
<1>1. PICK c : c = PlanCursor(prog, w, j)
  OBVIOUS
<1> DEFINE S == {k \in Nat : k <= N => SoundTo(prog, w, j, c[k], N - k)}
<1>2. 0 \in S
  <2>1. c[0] = PlanStart(w, j)
    BY <1>1, CursorMoves
  <2>2. \A i \in Effects : ~(i > N - 0)
    BY NAssumption DEF Effects
  <2>3. SoundTo(prog, w, j, PlanStart(w, j), N - 0)
    BY <2>2 DEF PlanStart, SoundTo, PlannedTo, NoSteps
  <2> QED
    BY <2>1, <2>3
<1>3. ASSUME NEW k \in Nat, k \in S PROVE k + 1 \in S
  <2>1. SUFFICES ASSUME k + 1 <= N PROVE SoundTo(prog, w, j, c[k + 1], N - (k + 1))
    OBVIOUS
  <2>2. k + 1 \in Effects /\ k = (k + 1) - 1 /\ N + 1 - (k + 1) = N - k /\ k <= N
    BY <2>1, NAssumption DEF Effects
  <2>3. SoundTo(prog, w, j, c[k], N - k)
    BY <1>3, <2>2
  <2>4. c[k + 1] = PlanStep(prog, c[k], k + 1)
    BY <1>1, <2>2, CursorMoves
  <2>5. PICK m : m = k + 1
    OBVIOUS
  <2> QED
    BY <2>2, <2>3, <2>4, <2>5, PlanStepSound
<1>4. N \in S
  <2> HIDE DEF S
  <2> QED
    BY <1>2, <1>3, NAssumption, SetInduction
<1>5. SoundTo(prog, w, j, RollbackPlan(prog, w, j), 0)
  BY <1>1, <1>4, NAssumption, PlanIsCursor
<1>6. n > 0
  BY DEF Effects
<1> QED
  BY <1>5, <1>6 DEF SoundTo

-----------------------------------------------------------------------------
(* The steps that matter to what a rollback restores.                      *)

\* A step that leaves the files and the journal alone.
Calm ==
  /\ UNCHANGED <<program, world, outside, touched, journals>>
  /\ pc' = "apply" => UNCHANGED <<pc, stage, active>>
  /\ pc' = "plan" => pc = "plan" /\ UNCHANGED <<plan, steps, stage, active>>
  /\ pc' = "plan" /\ plan' = "rollback" => UNCHANGED state \/ \A i \in Effects : ~Due(i)
  /\ plan' = "rollback" => plan = "rollback"

\* A protocol step, but an opened undo, is calm.
LEMMA QuietCalm ==
  ASSUME EngineInv, QuietStep, \A i \in Effects : ~PersistUndoStarted(i),
         UNCHANGED files, Rest
  PROVE  Calm
<1>1. Fitting
  BY LeaseFits, PlanFits, ExecuteFits DEF QuietStep, EngineInv
<1>2. UNCHANGED <<program, world, outside, touched, steps, stage>>
  BY DEF files, Rest, bounded, outsider
<1>3. pc # "apply" /\ pc' # "apply"
  BY <1>1, QuietElsewhere DEF Fitting, vars, process
<1>4. journals' = journals
  BY DEF QuietStep, Acquire, Resolve, ResolveNothing, ResolveHalted, ResolveActive, Reconcile,
       ReconcileAppendRegistration, ReconcileBindRegistration, ReconcileAppendSettlement,
       ReconcileBindSettlement, ReconcileDone, ApproveTopology, Release, PersistRollingBack,
       PersistRolledBack, PersistHalt, DetachActive, AppendRegistration,
       BindRegistration, BeginApplying, FinishApplying, VerifyCommittedSurface, DecideCommit,
       AppendSettlement, BindSettlement, PrepareTransaction, Goto, store, vars, SetState,
       BindRegistrationDigest, BindSettlementDigest, Publish
<1>5. /\ plan' = "rollback" => plan = "rollback"
      /\ pc = "plan" /\ pc' = "plan" => PersistRollingBack \/ PersistRolledBack
  BY DEF QuietStep, Acquire, Resolve, ResolveNothing, ResolveHalted, ResolveActive, Reconcile,
       ReconcileAppendRegistration, ReconcileBindRegistration, ReconcileAppendSettlement,
       ReconcileBindSettlement, ReconcileDone, ApproveTopology, Release, PersistRollingBack,
       PersistRolledBack, PersistHalt, DetachActive, AppendRegistration,
       BindRegistration, BeginApplying, FinishApplying, VerifyCommittedSurface, DecideCommit,
       AppendSettlement, BindSettlement, PrepareTransaction, Goto, process
<1>6. ASSUME pc' = "plan"
      PROVE  /\ pc = "plan" /\ UNCHANGED <<plan, active>>
             /\ plan' = "rollback" => \A i \in Effects : ~Due(i)
  <2>1. pc = "plan" /\ plan' = plan
    BY <1>1, <1>6 DEF Fitting
  <2>2. CASE PersistRollingBack
    BY <2>1, <2>2 DEF PersistRollingBack, SetState, Due
  <2>3. CASE PersistRolledBack
    BY <2>1, <2>3 DEF PersistRolledBack, Due, Unwound
  <2> QED
    BY <1>5, <1>6, <2>1, <2>2, <2>3
<1> QED
  BY <1>2, <1>3, <1>4, <1>5, <1>6 DEF Calm

\* The other steps of effect i.
EffectStep(i) ==
  \/ EStartEffect(i) \/ ApplyEffect(i) \/ EFinishEffect(i)
  \/ Quiet(PersistUndoStarted(i)) \/ EPersistUndone(i)
  \/ AuthorizeStep(i) \/ MutateStep(i) \/ ConfirmStep(i) \/ PowerCut(i)

\* Every step is one of these.
LEMMA EngineCases ==
  ASSUME EngineInv, [ENext]_evars
  PROVE  Calm \/ EClassify \/ (\E i \in Effects : EffectStep(i)) \/ Outside
<1>0. ASSUME pc' \in {"idle", "reconcile"}, UNCHANGED <<program, world, outside, touched, journals>>,
             plan' = "none" \/ plan' = plan
      PROVE  Calm
  BY <1>0 DEF Calm
<1>1. CASE \/ Quiet(Acquire) \/ Quiet(Resolve) \/ Quiet(Reconcile) \/ Quiet(ApproveTopology)
           \/ Quiet(Release) \/ \E t \in Txns : EPrepareTransaction(t)
  <2>1. QuietStep /\ UNCHANGED files /\ Rest
    BY <1>1 DEF Quiet, QuietStep, EPrepareTransaction
  <2>2. pc # "plan"
    BY <1>1 DEF Quiet, EPrepareTransaction, Acquire, Resolve, ResolveNothing, ResolveHalted,
       ResolveActive, Reconcile, ReconcileAppendRegistration, ReconcileBindRegistration,
       ReconcileAppendSettlement, ReconcileBindSettlement, ReconcileDone, ApproveTopology,
       Release, PrepareTransaction
  <2> QED
    BY <2>1, <2>2, QuietCalm DEF PersistUndoStarted
<1>3. CASE ERunPlan
  <2>1. CASE Quiet(PersistRollingBack) \/ Quiet(PersistRolledBack) \/ EPersistHalt \/ Quiet(DetachActive)
    <3>1. QuietStep /\ UNCHANGED files /\ Rest
      BY <2>1 DEF Quiet, QuietStep, EPersistHalt
    <3>2. journals' = journals
      BY <2>1 DEF Quiet, EPersistHalt, PersistRollingBack, PersistRolledBack, PersistHalt,
                  DetachActive, SetState
    <3>3. ASSUME NEW i \in Effects PROVE ~PersistUndoStarted(i)
      <4>1. SUFFICES ASSUME PersistUndoStarted(i) PROVE FALSE
        OBVIOUS
      <4>2. pc = "plan" /\ journals[active][i] \in {"started", "done"}
            /\ journals' = [journals EXCEPT ![active][i] = "undo_started"]
        BY <4>1 DEF PersistUndoStarted, SetJournal
      <4>3. active \in Txns /\ journals \in [Txns -> Journals]
        BY <4>2, ActiveRecord DEF EngineInv, ProtocolInv, ControlInv, TypeOK
      <4>4. journals'[active][i] = "undo_started"
        BY <4>2, <4>3 DEF Journals
      <4> QED
        BY <3>2, <4>2, <4>4
    <3> QED
      BY <3>1, <3>3, QuietCalm
  <2>2. CASE EReachDetach
    BY <1>0, <2>2 DEF EReachDetach, ReachDetach, Quiet, files, Rest, bounded, outsider, Goto, store
  <2>3. ASSUME NEW i \in Effects, RefuseStep(i) \/ DenyStep(i) \/ EscapeStep(i)
        PROVE  Calm
    BY <1>0, <2>3 DEF RefuseStep, DenyStep, EscapeStep, PersistHalt, Crash, Forget, Rest, bounded, outsider, store
  <2> QED
    BY <1>3, <2>1, <2>2, <2>3 DEF ERunPlan, EffectStep
<1>4. CASE EExecute
  <2>1. CASE \/ Quiet(AppendRegistration) \/ Quiet(BindRegistration) \/ Quiet(BeginApplying)
             \/ Quiet(FinishApplying) \/ EVerifyCommittedSurface \/ Quiet(DecideCommit)
             \/ Quiet(AppendSettlement) \/ Quiet(BindSettlement)
    <3>1. QuietStep /\ UNCHANGED files /\ Rest
      BY <2>1 DEF Quiet, QuietStep, EVerifyCommittedSurface
    <3>2. pc # "plan"
      BY <2>1 DEF Quiet, EVerifyCommittedSurface, AppendRegistration, BindRegistration,
                  BeginApplying, FinishApplying, DecideCommit, AppendSettlement, BindSettlement,
                  VerifyCommittedSurface
    <3> QED
      BY <3>1, <3>2, QuietCalm DEF PersistUndoStarted
  <2> QED
    BY <1>4, <2>1 DEF EExecute, EffectStep
<1>5. CASE ECaughtFailure \/ ECrash
  BY <1>0, <1>5
     DEF ECaughtFailure, CaughtFailure, Goto, ToStage, Rest, bounded, outsider, ECrash,
         Killed, Crash, Forget, store
<1>6. CASE UNCHANGED evars
  BY <1>6 DEF evars, vars, store, process, files, bounded, outsider, Calm
<1> QED
  BY <1>1, <1>3, <1>4, <1>5, <1>6 DEF ENext, EProgress, EEnvironment, EffectStep

\* A record that may still be rolled back was so before.
LEMMA LiveKept ==
  ASSUME ControlInv, [Next]_vars, Live'
  PROVE  Live
<1>1. SUFFICES ASSUME NEW t \in Txns, state[t] \in {"halted", "committed"}
               PROVE  state'[t] \in {"halted", "committed"}
  BY DEF Live
<1>2. CASE UNCHANGED record
  BY <1>1, <1>2 DEF record
<1>3. CASE PersistRollingBack \/ PersistRolledBack \/ PersistHalt
  <2>1. active \in Txns /\ state[active] # "halted" /\ state \in [Txns -> TransactionStates \cup {"none"}]
    BY <1>3 DEF ControlInv, PointMatchesState, Working, TypeOK, PersistRollingBack,
                PersistRolledBack, PersistHalt
  <2> QED
    BY <1>1, <1>3, <2>1 DEF PersistRollingBack, PersistRolledBack, PersistHalt, SetState
<1>4. CASE \E i \in Effects : \/ PersistUndoStarted(i) \/ PersistUndone(i)
                              \/ StartEffect(i) \/ FinishEffect(i)
  BY <1>1, <1>4 DEF PersistUndoStarted, PersistUndone, StartEffect, FinishEffect, SetJournal
<1>5. CASE BeginApplying \/ FinishApplying \/ DecideCommit
  <2>1. active \in Txns /\ state[active] \in {"prepared", "applying", "applied"}
        /\ state \in [Txns -> TransactionStates \cup {"none"}]
    BY <1>5 DEF ControlInv, PointMatchesState, Working, TypeOK, BeginApplying, FinishApplying, DecideCommit
  <2> QED
    BY <1>1, <1>5, <2>1 DEF BeginApplying, FinishApplying, DecideCommit, SetState
<1>6. ASSUME NEW u \in Txns, PrepareTransaction(u) PROVE state'[t] \in {"halted", "committed"}
  <2>1. state \in [Txns -> TransactionStates \cup {"none"}]
    BY DEF ControlInv, TypeOK
  <2> QED
    BY <1>1, <1>6, <2>1 DEF PrepareTransaction
<1> QED
  BY <1>2, <1>3, <1>4, <1>5, <1>6, RecordSteps

-----------------------------------------------------------------------------
(* The order of the record.                                                *)

\* The effects before an open one are done, those behind it are unwound.
LEMMA OpenedIs ==
  ASSUME NEW j \in Journals, Stacked(j), NEW k \in Effects, j[k] \in Open
  PROVE  /\ Opened(j, k)
         /\ \A i \in Effects : j[i] \in Open => i = k
<1>1. ASSUME NEW i \in Effects PROVE (i < k => j[i] = "done") /\ (i > k => j[i] \in Unwound)
  <2>1. j[k] \notin Unwound /\ j[k] # "done"
    BY DEF Open, Unwound
  <2>2. i > k => k < i
    BY DEF Effects
  <2> QED
    BY <2>1, <2>2 DEF Stacked
<1>2. ASSUME NEW i \in Effects, j[i] \in Open PROVE i = k
  <2>1. i < k \/ i > k \/ i = k
    BY DEF Effects
  <2> QED
    BY <1>1, <1>2, <2>1 DEF Open, Unwound
<1> QED
  BY <1>1, <1>2 DEF Opened

\* One entry of a journal moves on.
LEMMA StackedMoves ==
  ASSUME NEW j \in Journals, Stacked(j), NEW i \in Effects, NEW s \in JournalStates,
         \/ s = "started" /\ \A k \in Effects : k < i => j[k] = "done"
         \/ s \in {"done", "undo_started"} /\ j[i] \notin Unwound,
         s # "done" => \A k \in Effects : k > i => j[k] \in Unwound
  PROVE  Stacked([j EXCEPT ![i] = s])
<1>1. SUFFICES ASSUME NEW m \in Effects, NEW k \in Effects, m < k,
                      [j EXCEPT ![i] = s][k] \notin Unwound
               PROVE  [j EXCEPT ![i] = s][m] = "done"
  BY DEF Stacked
<1>2. m # k
  BY <1>1 DEF Effects
<1>3. CASE k = i
  BY <1>1, <1>2, <1>3 DEF Stacked, Journals
<1>4. CASE k # i
  <2>1. j[k] \notin Unwound /\ j[m] = "done"
    BY <1>1, <1>4 DEF Stacked, Journals
  <2>2. m = i => k > i
    BY <1>1 DEF Effects
  <2> QED
    BY <2>1, <2>2 DEF Journals
<1> QED
  BY <1>3, <1>4

\* An effect that is undone leaves the others.
LEMMA StackedUndone ==
  ASSUME NEW j \in Journals, Stacked(j), NEW i \in Effects, 
         \A k \in Effects : k > i => j[k] \in Unwound
  PROVE  Stacked([j EXCEPT ![i] = "undone"])
<1>1. SUFFICES ASSUME NEW m \in Effects, NEW k \in Effects, m < k,
                      [j EXCEPT ![i] = "undone"][k] \notin Unwound
               PROVE  [j EXCEPT ![i] = "undone"][m] = "done"
  BY DEF Stacked
<1>2. k # i
  BY <1>1 DEF Journals, Unwound
<1>3. j[k] \notin Unwound /\ j[m] = "done"
  BY <1>1, <1>2 DEF Stacked, Journals
<1>4. m = i => k > i
  BY <1>1 DEF Effects
<1> QED
  BY <1>3, <1>4 DEF Journals

\* At first nothing is begun.
LEMMA ShapeInit == EInit => RecordShape
<1> SUFFICES ASSUME EInit PROVE RecordShape
  OBVIOUS
<1>1. /\ Compiles(program) /\ pc = "idle"
      /\ \A t \in Txns : journals[t] = [i \in Effects |-> "pending"]
  BY DEF EInit, Init
<1> QED
  BY <1>1 DEF RecordShape, Stacked, Unwound

\* Entry i of the journal of the transaction moves on.
LEMMA RecordsIs ==
  ASSUME ProtocolInv, active \in Txns, NEW i \in Effects, NEW s \in JournalStates,
         SetJournal(active, i, s)
  PROVE  /\ journals[active] \in Journals
         /\ journals'[active] = [journals[active] EXCEPT ![i] = s]
         /\ journals'[active] \in Journals /\ journals'[active][i] = s
         /\ \A k \in Effects \ {i} : journals'[active][k] = journals[active][k]
         /\ \A t \in Txns : t = active
<1>1. journals \in [Txns -> Journals] /\ journals' = [journals EXCEPT ![active][i] = s]
  BY DEF ProtocolInv, ControlInv, TypeOK, SetJournal
<1>2. journals'[active] = [journals[active] EXCEPT ![i] = s] /\ journals[active] \in Journals
  BY <1>1
<1> QED
  BY <1>2, OneTransaction DEF Journals

\* RecordShape is inductive.
LEMMA ShapeStep ==
  ASSUME EngineInv, RecordShape, [ENext]_evars
  PROVE  RecordShape'
<1>0. [Next]_vars /\ ProtocolInv /\ EngineInv'
  BY EngineStep, EngineInvStep DEF EngineInv
<1>1. program' = program
  <2>1. ASSUME NEW i \in Effects, EffectStep(i) PROVE program' = program
    <3>1. CASE ApplyEffect(i)
      BY <3>1, ApplyEffectFiles DEF EngineInv, FilesInv, FilesOf
    <3>2. CASE MutateStep(i)
      BY <3>2, MutateFiles DEF EngineInv, FilesInv
    <3> QED
      BY <2>1, <3>1, <3>2 DEF EffectStep, EStartEffect, EFinishEffect, Quiet, EPersistUndone, AuthorizeStep,
         ConfirmStep, PowerCut, ToStage, files, Work, Forget
  <2>2. EClassify => program' = program
    BY DEF EClassify, EClassifyTerminal, EClassifyHalt, EClassifyCommitted, EClassifyRollback, Planned
  <2>3. Outside => program' = program
    BY OutsideFiles DEF EngineInv, FilesInv
  <2> QED
    BY <2>1, <2>2, <2>3, EngineCases DEF Calm
<1>2. SUFFICES ASSUME TRUE
               PROVE  /\ \A t \in Txns : Stacked(journals'[t])
                      /\ pc' = "plan" /\ plan' = "rollback" =>
                           stage' = "authorize" \/ \E i \in Effects : Due(i)'
  BY <1>1 DEF RecordShape
<1>3. CASE Calm
  <2>1. pc' = "plan" /\ plan' = "rollback" /\ stage' # "authorize" => \E i \in Effects : Due(i)'
    BY <1>3 DEF Calm, RecordShape, Due
  <2> QED
    BY <1>3, <2>1 DEF Calm, RecordShape
<1>4. CASE EClassify
  BY <1>4 DEF EClassify, EClassifyTerminal, EClassifyHalt, EClassifyCommitted, EClassifyRollback, Planned,
     ClassifyTerminal, ClassifyHalt, ClassifyCommitted, ClassifyRollback, Adopt, store, RecordShape
<1>5. CASE Outside
  <2>1. UNCHANGED <<pc, plan, stage, steps, active, state, journals>>
    BY <1>5, OutsideFiles DEF EngineInv, FilesInv, vars
  <2> QED
    BY <2>1 DEF RecordShape, Due
<1>6. ASSUME NEW i \in Effects, EffectStep(i)
      PROVE  /\ \A t \in Txns : Stacked(journals'[t])
             /\ pc' = "plan" /\ plan' = "rollback" =>
                  stage' = "authorize" \/ \E k \in Effects : Due(k)'
  <2>1. CASE EStartEffect(i) \/ EFinishEffect(i)
    <3>1. active \in Txns /\ pc' # "plan"
      BY <1>0, <2>1, ActiveRecord DEF EStartEffect, EFinishEffect, StartEffect, FinishEffect, Goto
    <3>2. PICK j : j = journals[active]
      OBVIOUS
    <3>3. CASE EStartEffect(i)
      <4>1. SetJournal(active, i, "started") /\ j[i] = "pending"
            /\ \A k \in Effects : k < i => j[k] = "done"
        BY <3>2, <3>3 DEF EStartEffect, StartEffect
      <4>2. /\ j \in Journals /\ journals'[active] = [j EXCEPT ![i] = "started"]
            /\ \A t \in Txns : t = active
        BY <1>0, <3>1, <3>2, <4>1, RecordsIs DEF JournalStates
      <4>3. Stacked(j)
        BY <3>1, <3>2 DEF RecordShape
      <4>4. \A k \in Effects : k > i => j[k] \in Unwound
        BY <4>1, <4>3 DEF Stacked, Effects
      <4>5. Stacked([j EXCEPT ![i] = "started"])
        BY <4>1, <4>2, <4>3, <4>4, StackedMoves DEF JournalStates
      <4> QED
        BY <3>1, <4>2, <4>5
    <3>4. CASE EFinishEffect(i)
      <4>1. SetJournal(active, i, "done") /\ j[i] = "started"
        BY <3>2, <3>4 DEF EFinishEffect, FinishEffect
      <4>2. /\ j \in Journals /\ journals'[active] = [j EXCEPT ![i] = "done"]
            /\ \A t \in Txns : t = active
        BY <1>0, <3>1, <3>2, <4>1, RecordsIs DEF JournalStates
      <4>3. Stacked(j)
        BY <3>1, <3>2 DEF RecordShape
      <4>5. Stacked([j EXCEPT ![i] = "done"])
        BY <4>1, <4>2, <4>3, StackedMoves DEF JournalStates, Unwound
      <4> QED
        BY <3>1, <4>2, <4>5
    <3> QED
      BY <2>1, <3>3, <3>4
  <2>2. CASE Quiet(PersistUndoStarted(i)) \/ EPersistUndone(i)
    <3>1. active \in Txns /\ pc = "plan"
      BY <1>0, <2>2, ActiveRecord DEF Quiet, EPersistUndone, PersistUndoStarted, PersistUndone
    <3>2. PICK j : j = journals[active]
      OBVIOUS
    <3>3. PICK s \in {"undo_started", "undone"} :
            /\ SetJournal(active, i, s) /\ RollbackCursor(j, i) /\ plan = "rollback"
            /\ s = "undo_started" => j[i] # "undo_started"
            /\ s = "undone" => steps[i] = <<>>
      BY <2>2, <3>2 DEF Quiet, EPersistUndone, PersistUndoStarted, PersistUndone
    <3>4. /\ j \in Journals /\ journals'[active] = [j EXCEPT ![i] = s]
          /\ \A t \in Txns : t = active
      BY <1>0, <3>1, <3>2, <3>3, RecordsIs DEF JournalStates
    <3>5. Stacked(j) /\ j[i] \notin Unwound /\ \A k \in Effects : k > i => j[k] \in Unwound
      BY <3>1, <3>2, <3>3 DEF RecordShape, RollbackCursor
    <3>6. Stacked([j EXCEPT ![i] = s])
      BY <3>3, <3>4, <3>5, StackedMoves, StackedUndone DEF JournalStates
    <3>7. ASSUME NEW k \in Effects, Due(k) PROVE FALSE
      <4>1. RollbackCursor(j, k) /\ j[k] = "undo_started" /\ steps[k] # <<>>
        BY <3>2, <3>3, <3>7 DEF Due
      <4>2. k = i
        <5>1. ~(k > i) /\ ~(i > k)
          BY <3>5, <4>1 DEF RollbackCursor
        <5> QED
          BY <5>1 DEF Effects
      <4> QED
        BY <3>3, <4>1, <4>2
    <3>8. stage' = "authorize"
      BY <2>2, <3>1, <3>3, <3>7 DEF RecordShape, Quiet, EPersistUndone, files
    <3> QED
      BY <3>4, <3>6, <3>8
  <2>3. CASE ApplyEffect(i)
    <3>1. pc = "apply" /\ UNCHANGED vars
      BY <2>3, ApplyEffectFiles DEF EngineInv, FilesInv, FilesOf
    <3> QED
      BY <3>1 DEF vars, RecordShape
  <2>4. CASE AuthorizeStep(i) \/ MutateStep(i) \/ ConfirmStep(i)
    <3>1. Due(i) /\ UNCHANGED vars /\ (steps' = steps \/ stage' = "authorize")
      BY <2>4, MutateFiles DEF EngineInv, FilesInv, AuthorizeStep, ConfirmStep, Work
    <3>2. UNCHANGED <<pc, plan, active, state, journals>>
      BY <3>1 DEF vars
    <3>3. steps' = steps => Due(i)'
      BY <3>1, <3>2 DEF Due
    <3> QED
      BY <3>1, <3>2, <3>3 DEF RecordShape
  <2>5. CASE PowerCut(i)
    BY <2>5 DEF PowerCut, Killed, Crash, RecordShape, store
  <2> QED
    BY <1>6, <2>1, <2>2, <2>3, <2>4, <2>5 DEF EffectStep
<1> QED
  BY <1>3, <1>4, <1>5, <1>6, EngineCases

-----------------------------------------------------------------------------
(* The steps of a rollback plan stay sound.                                *)

\* Classification plans what it finds.
LEMMA ClassifiedSound ==
  ASSUME EngineInv, RecordShape, EClassify, pc' = "plan", plan' = "rollback"
  PROVE  /\ active \in Txns /\ UNCHANGED <<program, world, outside, touched, journals, active, state>>
         /\ stage' = "authorize"
         /\ \A i \in Effects : SoundFor(program, world, journals[active], steps', i)
<1>1. EClassifyRollback
  BY DEF EClassify, EClassifyTerminal, EClassifyHalt, EClassifyCommitted,
         ClassifyTerminal, ClassifyHalt, ClassifyCommitted, Adopt
<1>2. PICK p : /\ p = RollbackPlan(program, world, journals[active])
               /\ ~p.halt /\ steps' = p.steps /\ stage' = "authorize"
               /\ UNCHANGED <<program, world, outside, touched, journals, active, state>>
               /\ pc = "classify"
  BY <1>1 DEF EClassifyRollback, ClassifyRollback, Adopt, Planned, Rest, bounded, outsider, store
<1>3. active \in Txns /\ journals[active] \in Journals
  BY <1>2, ActiveRecord DEF EngineInv, ProtocolInv, ControlInv, TypeOK
<1>4. /\ Solid(world) /\ Compiles(program) /\ \A i \in Effects : WellFormed(program[i])
      /\ journals[active] \in [Effects -> JournalStates]
  BY <1>3 DEF EngineInv, FilesInv, ProgramOK, RecordShape, Journals
<1>5. PICK prog, w, j : prog = program /\ w = world /\ j = journals[active]
  OBVIOUS
<1>6. \A i \in Effects : SoundFor(prog, w, j, RollbackPlan(prog, w, j).steps, i)
  BY <1>2, <1>4, <1>5, RollbackPlanSound
<1> QED
  BY <1>2, <1>3, <1>5, <1>6

\* What is left of a plan of an effect when its first step is confirmed.
LEMMA SoundTail ==
  ASSUME NEW e, NEW i, NEW q, SoundPlan(e, i, q), q # <<>>
  PROVE  SoundPlan(e, i, Tail(q))
<1>1. CASE q = <<q[1]>>
  <2>0. PICK x : x = q[1]
    OBVIOUS
  <2>1. Tail(<<x>>) = <<>>
    OBVIOUS
  <2> QED
    BY <1>1, <2>0, <2>1 DEF SoundPlan
<1>2. CASE /\ q = <<q[1], q[2]>> /\ Sound(e, i, q[1]) /\ Sound(e, i, q[2])
           /\ e.kind = "move" => q[2].op = "drop"
  <2>1. PICK r : r = <<q[2]>>
    OBVIOUS
  <2>2. PICK x, y : x = q[1] /\ y = q[2]
    OBVIOUS
  <2>4. Tail(<<x, y>>) = <<y>> /\ <<y>>[1] = y
    OBVIOUS
  <2>3. r = <<r[1]>> /\ Sound(e, i, r[1]) /\ (e.kind = "move" => r[1].op = "drop")
    BY <1>2, <2>1, <2>2, <2>4
  <2> QED
    BY <1>2, <2>1, <2>2, <2>3, <2>4 DEF SoundPlan
<1> QED
  BY <1>1, <1>2 DEF SoundPlan

\* SoundInv is inductive.
LEMMA SoundStep ==
  ASSUME EngineInv, RecordShape, SoundInv, [ENext]_evars
  PROVE  SoundInv'
<1>1. SUFFICES ASSUME pc' = "plan", plan' = "rollback", NEW i \in Effects
               PROVE  /\ SoundPlan(program'[i], i, steps'[i])
                      /\ journals'[active'][i] = "done" => steps'[i] # <<>>
  BY DEF SoundInv
<1>2. CASE Calm
  BY <1>1, <1>2 DEF Calm, SoundInv
<1>3. CASE EClassify
  BY <1>1, <1>3, ClassifiedSound DEF SoundFor
<1>4. CASE Outside
  BY <1>1, <1>4, OutsideFiles DEF EngineInv, FilesInv, vars, SoundInv
<1>5. ASSUME NEW k \in Effects, EffectStep(k)
      PROVE  /\ SoundPlan(program'[i], i, steps'[i])
             /\ journals'[active'][i] = "done" => steps'[i] # <<>>
  <2>1. CASE EStartEffect(k) \/ EFinishEffect(k) \/ PowerCut(k)
    BY <1>1, <2>1 DEF EStartEffect, EFinishEffect, StartEffect, FinishEffect, Goto,
                      PowerCut, Killed, Crash
  <2>2. CASE ApplyEffect(k)
    <3>1. pc = "apply" /\ UNCHANGED vars
      BY <2>2, ApplyEffectFiles DEF EngineInv, FilesInv, FilesOf
    <3> QED
      BY <1>1, <3>1 DEF vars
  <2>3. CASE Quiet(PersistUndoStarted(k)) \/ EPersistUndone(k)
    <3>1. active \in Txns /\ pc = "plan" /\ plan = "rollback" /\ UNCHANGED <<program, steps, active>>
          /\ ProtocolInv
      BY <2>3, ActiveRecord DEF EngineInv, Quiet, EPersistUndone, PersistUndoStarted, PersistUndone,
         files, SetJournal
    <3>3. PICK s \in {"undo_started", "undone"} : SetJournal(active, k, s)
      BY <2>3 DEF Quiet, EPersistUndone, PersistUndoStarted, PersistUndone
    <3>4. /\ journals'[active][k] = s
          /\ \A m \in Effects \ {k} : journals'[active][m] = journals[active][m]
      BY <3>1, <3>3, RecordsIs DEF JournalStates
    <3>5. journals'[active][i] = "done" => journals[active][i] = "done"
      BY <3>3, <3>4
    <3> QED
      BY <3>1, <3>5 DEF SoundInv
  <2>4. CASE AuthorizeStep(k) \/ MutateStep(k)
    <3>1. UNCHANGED <<program, steps>> /\ UNCHANGED vars
      BY <2>4, MutateFiles DEF EngineInv, FilesInv, AuthorizeStep, Work
    <3> QED
      BY <1>1, <3>1 DEF vars, SoundInv
  <2>5. CASE ConfirmStep(k)
    <3>1. UNCHANGED <<program>> /\ UNCHANGED vars /\ Due(k)
      BY <2>5 DEF ConfirmStep
    <3>2. UNCHANGED <<program, pc, plan, active, state, journals>>
      BY <3>1 DEF vars
    <3>3. CASE steps' = steps
      BY <1>1, <3>2, <3>3 DEF SoundInv
    <3>4. CASE steps' = [steps EXCEPT ![k] = Tail(@)]
      <4>1. steps[k] # <<>> /\ journals[active][k] # "done"
        BY <1>1, <3>1, <3>2 DEF Due
      <4>2. /\ steps'[k] = Tail(steps[k])
            /\ \A m \in Effects \ {k} : steps'[m] = steps[m]
        BY <3>4 DEF EngineInv, FilesInv
      <4>3. SoundPlan(program[k], k, Tail(steps[k]))
        BY <1>1, <3>2, <4>1, SoundTail DEF SoundInv
      <4> QED
        BY <1>1, <3>2, <4>1, <4>2, <4>3 DEF SoundInv
    <3> QED
      BY <2>5, <3>3, <3>4 DEF ConfirmStep
  <2> QED
    BY <1>5, <2>1, <2>2, <2>3, <2>4, <2>5 DEF EffectStep
<1> QED
  BY <1>2, <1>3, <1>4, <1>5, EngineCases

-----------------------------------------------------------------------------
(* How a change of some names keeps what is known of all of them.          *)

\* Every effect has the shape of its variant.
Formed(prog) == \A i \in Effects : WellFormed(prog[i])

\* Effect k is open, and nothing is in the scratch slots behind it.
Top(w, j, k) ==
  /\ Opened(j, k)
  /\ \A i \in Effects : i > k => w.names[i] = NoObj

\* Every name outside S leads where it did.
SameElse(v, w, S) == \A s \in Named \ S : w.names[s] = v.names[s]

\* The names of effects and paths.
LEMMA NamesAre ==
  ASSUME NEW prog, Formed(prog), NEW k \in Effects
  PROVE  /\ prog[k].path \in Paths /\ prog[k].dest \in Paths
         /\ prog[k].kind # "move" => prog[k].dest = prog[k].path
         /\ Touches(prog[k]) = {prog[k].path, prog[k].dest}
         /\ prog[k].path # k /\ prog[k].dest # k
         /\ HoldersOf(prog) \subseteq Named /\ Movers(prog) \subseteq Effects
         /\ HoldersOf(prog) \cap Movers(prog) = {}
         /\ Paths \subseteq Named /\ Effects \subseteq Named
<1>1. \A i \in Effects : i \notin Paths
  BY SlotsApart
<1>2. WellFormed(prog[k])
  BY DEF Formed
<1> QED
  BY <1>1, <1>2 DEF WellFormed, Touches, HoldersOf, Movers, Named

\* An effect that is not a move is at work on its path and scratch slot.
LEMMA OwnNamesMove ==
  ASSUME NEW prog, Formed(prog), NEW v, NEW w, NEW j, NEW k \in Effects \ Movers(prog),
         Top(v, j, k), NamesOK(prog, v, j), SameElse(v, w, {k, prog[k].path}),
         \/ w.names[k] \in {NoObj, v.names[k], v.names[prog[k].path]}
         \/ Unused(v, w.names[k]),
         w.names[prog[k].path] \in {NoObj, v.names[k], v.names[prog[k].path]},
         w.names[k] = w.names[prog[k].path] => w.names[k] = NoObj
  PROVE  NamesOK(prog, w, j)
<1>1. PICK p : p = prog[k].path
  OBVIOUS
<1>2. /\ p \in Paths /\ HoldersOf(prog) \subseteq Named /\ Movers(prog) \subseteq Effects
      /\ HoldersOf(prog) \cap Movers(prog) = {} /\ k \in HoldersOf(prog) /\ p \in HoldersOf(prog)
      /\ Paths \subseteq Named /\ Effects \subseteq Named /\ p # k /\ k \notin Paths
      /\ k \notin Movers(prog) /\ p \notin Movers(prog) /\ p \notin Effects
  BY <1>1, NamesAre, SlotsApart DEF HoldersOf
<1>3. \A s \in Named \ {k, p} : w.names[s] = v.names[s]
  BY <1>1 DEF SameElse
<1>4. \A i \in Movers(prog) : w.names[i] = v.names[i] /\ j[i] \notin Open
  <2>1. ASSUME NEW i \in Movers(prog) PROVE j[i] \notin Open
    <3>1. i < k \/ i > k
      BY <1>2 DEF Effects
    <3> QED
      BY <1>2, <3>1 DEF Top, Opened, Open, Unwound
  <2> QED
    BY <1>2, <1>3, <2>1
<1>5. \A s, u \in HoldersOf(prog) : s # u /\ v.names[s] = v.names[u] => v.names[s] = NoObj
  BY <1>4 DEF NamesOK, Distinct, SplitBy
<1>6. \A s \in Named : Unused(v, w.names[k]) => v.names[s] # w.names[k]
  BY DEF Unused, Named
<1>7. Distinct(prog, w, j)
  <2>1. ASSUME NEW s \in HoldersOf(prog), NEW u \in HoldersOf(prog), s # u,
               w.names[s] = w.names[u], w.names[s] # NoObj
        PROVE  FALSE
    <3>1. CASE s \notin {k, p} /\ u \notin {k, p}
      BY <1>2, <1>3, <1>5, <2>1, <3>1
    <3>2. ASSUME NEW a \in HoldersOf(prog), a \notin {k, p}, w.names[a] # NoObj
          PROVE  w.names[a] # w.names[k] /\ w.names[a] # w.names[p]
      BY <1>1, <1>2, <1>3, <1>5, <1>6, <3>2
    <3> QED
      BY <1>1, <2>1, <3>1, <3>2
  <2> QED
    BY <2>1 DEF Distinct
<1>8. \A i \in Effects : LastAnchor(prog, w, i) => LastAnchor(prog, v, i)
  BY <1>4 DEF LastAnchor
<1>9. Anchoring(prog, w, j)
  <2>1. SUFFICES ASSUME NEW i \in Effects, LastAnchor(prog, w, i)
                 PROVE  /\ \A s \in Paths : w.names[s] = w.names[i] => s \in Home(prog, j, i)
                        /\ \A m \in Effects \ Movers(prog) : w.names[m] = w.names[i] =>
                             m > i /\ prog[m].path \in Home(prog, j, i)
    BY DEF Anchoring
  <2>2. /\ i \in Movers(prog) /\ w.names[i] = v.names[i] /\ v.names[i] # NoObj
        /\ \A s \in Paths : v.names[s] = v.names[i] => s \in Home(prog, j, i)
        /\ \A m \in Effects \ Movers(prog) : v.names[m] = v.names[i] =>
             m > i /\ prog[m].path \in Home(prog, j, i)
    BY <1>4, <1>8, <2>1 DEF LastAnchor, NamesOK, Anchoring
  <2>3. k > i
    BY <1>2, <2>2 DEF Top, Effects
  <2>4. ASSUME NEW s \in Paths, w.names[s] = w.names[i] PROVE s \in Home(prog, j, i)
    BY <1>1, <1>2, <1>3, <2>2, <2>4
  <2>5. ASSUME NEW m \in Effects \ Movers(prog), w.names[m] = w.names[i]
        PROVE  m > i /\ prog[m].path \in Home(prog, j, i)
    <3>1. CASE m = k
      <4>1. w.names[k] \in {v.names[k], v.names[p]}
        BY <1>1, <1>2, <1>6, <2>2, <2>5, <3>1
      <4> QED
        BY <1>1, <1>2, <2>2, <2>3, <2>5, <3>1, <4>1
    <3>2. CASE m # k
      BY <1>2, <1>3, <2>2, <2>5, <3>2
    <3> QED
      BY <3>1, <3>2
  <2> QED
    BY <2>4, <2>5
<1>10. Chained(prog, w) /\ DoneAnchored(prog, w, j)
  BY <1>4 DEF NamesOK, Chained, DoneAnchored
<1> QED
  BY <1>7, <1>9, <1>10 DEF NamesOK

\* The anchor of an open move is the last that names its object.
LEMMA TopIsLast ==
  ASSUME NEW prog, Formed(prog), NEW v, NEW j, NEW k \in Movers(prog), Top(v, j, k),
         Anchoring(prog, v, j)
  PROVE  /\ k \in Effects /\ j[k] \in Open /\ Home(prog, j, k) = Touches(prog[k])
         /\ \A i \in Movers(prog) : j[i] \in Open => i = k
         /\ \A i \in Movers(prog) : v.names[i] # NoObj => i = k \/ i < k
         /\ v.names[k] # NoObj =>
              /\ \A s \in HoldersOf(prog) : v.names[s] = v.names[k] => s \in Touches(prog[k])
              /\ \A s \in Effects \ Movers(prog) : v.names[s] # v.names[k]
<1>1. k \in Effects /\ j[k] \in Open /\ j[k] # "done"
  BY DEF Movers, Top, Opened, Open
<1>2. Home(prog, j, k) = Touches(prog[k])
  BY <1>1 DEF Home
<1>3. ASSUME NEW i \in Movers(prog)
      PROVE  (j[i] \in Open => i = k) /\ (v.names[i] # NoObj => i = k \/ i < k)
  <2>1. i \in Effects /\ (i < k \/ i = k \/ i > k)
    BY <1>1 DEF Movers, Effects
  <2> QED
    BY <2>1 DEF Top, Opened, Open, Unwound
<1>4. ASSUME v.names[k] # NoObj
      PROVE  /\ \A s \in HoldersOf(prog) : v.names[s] = v.names[k] => s \in Touches(prog[k])
             /\ \A s \in Effects \ Movers(prog) : v.names[s] # v.names[k]
  <2>1. LastAnchor(prog, v, k)
    <3>1. \A m \in Movers(prog) : m > k => v.names[m] = NoObj
      BY DEF Movers, Top
    <3> QED
      BY <1>4, <3>1 DEF LastAnchor
  <2>2. \A s \in Effects \ Movers(prog) : v.names[s] # v.names[k]
    BY <1>1, <1>4, <2>1 DEF Anchoring, Top
  <2> QED
    BY <1>1, <1>2, <2>1, <2>2 DEF Anchoring, HoldersOf
<1> QED
  BY <1>1, <1>2, <1>3, <1>4

\* An object that may be at both paths of a move still may if the anchors stay.
LEMMA SplitKept ==
  ASSUME NEW prog, NEW v, NEW w, NEW j, NEW i \in Movers(prog), NEW o,
         \A m \in Movers(prog) : w.names[m] = v.names[m], SplitBy(prog, v, j, i, o)
  PROVE  SplitBy(prog, w, j, i, o)
BY DEF SplitBy, Unanchored

(* The paths of an open move are freed, or given the object of its anchor, *)
(* or the one no anchor names that is at one of them: the move is taken    *)
(* back, or a power cut splits its rename.                                 *)
LEMMA PathsSpread ==
  ASSUME NEW prog, Formed(prog), NEW v, NEW w, NEW j, NEW k \in Movers(prog),
         Top(v, j, k), NamesOK(prog, v, j), SameElse(v, w, Touches(prog[k])),
         NEW o, Unanchored(prog, v, o), o = NoObj \/ v.names[k] # NoObj,
         \E x \in Touches(prog[k]) : o \in {NoObj, v.names[x]},
         \A s \in Touches(prog[k]) : w.names[s] \in {NoObj, o, v.names[s], v.names[k]}
  PROVE  NamesOK(prog, w, j)
<1>1. /\ k \in Effects /\ j[k] \in Open /\ Home(prog, j, k) = Touches(prog[k])
      /\ \A i \in Movers(prog) : j[i] \in Open => i = k
      /\ \A i \in Movers(prog) : v.names[i] # NoObj => i = k \/ i < k
      /\ v.names[k] # NoObj =>
           /\ \A s \in HoldersOf(prog) : v.names[s] = v.names[k] => s \in Touches(prog[k])
           /\ \A s \in Effects \ Movers(prog) : v.names[s] # v.names[k]
  BY TopIsLast DEF NamesOK
<1>2. /\ HoldersOf(prog) \subseteq Named /\ Movers(prog) \subseteq Effects
      /\ HoldersOf(prog) \cap Movers(prog) = {} /\ Touches(prog[k]) \subseteq Paths
      /\ Paths \subseteq Named /\ Effects \subseteq Named
      /\ \A i \in Effects : i \notin Paths
      /\ Effects \ Movers(prog) \subseteq HoldersOf(prog)
      /\ Touches(prog[k]) \subseteq HoldersOf(prog)
  BY <1>1, NamesAre, SlotsApart DEF HoldersOf
<1>3. \A i \in Effects : w.names[i] = v.names[i]
  BY <1>2 DEF SameElse
<1>4. \A s \in HoldersOf(prog) : w.names[s] # NoObj =>
        \/ w.names[s] = v.names[s]
        \/ w.names[s] \in {o, v.names[k]} /\ s \in Touches(prog[k])
  BY <1>2 DEF SameElse
<1>5. Distinct(prog, w, j)
  <2>1. SUFFICES ASSUME NEW s \in HoldersOf(prog), NEW u \in HoldersOf(prog), s # u,
                        w.names[s] = w.names[u], w.names[s] # NoObj
                 PROVE  \E i \in Movers(prog) : /\ SplitBy(prog, w, j, i, w.names[s])
                                                /\ s \in Touches(prog[i]) /\ u \in Touches(prog[i])
    BY DEF Distinct
  <2>2. CASE w.names[s] = v.names[k]
    <3>1. s \in Touches(prog[k]) /\ u \in Touches(prog[k])
      BY <1>1, <1>4, <2>1, <2>2
    <3>2. SplitBy(prog, w, j, k, w.names[s])
      BY <1>1, <1>3, <2>1, <2>2 DEF SplitBy
    <3> QED
      BY <3>1, <3>2
  <2>3. CASE v.names[s] = v.names[u] /\ v.names[s] = w.names[s]
    <3>1. PICK i \in Movers(prog) : /\ SplitBy(prog, v, j, i, v.names[s])
                                    /\ s \in Touches(prog[i]) /\ u \in Touches(prog[i])
      BY <2>1, <2>3 DEF NamesOK, Distinct
    <3>2. SplitBy(prog, w, j, i, w.names[s])
      BY <1>2, <1>3, <2>3, <3>1, SplitKept
    <3> QED
      BY <3>1, <3>2
  <2>4. CASE w.names[s] = o /\ o # v.names[k]
             /\ (v.names[s] # w.names[s] \/ v.names[u] # w.names[u])
    <3>1. PICK x \in Touches(prog[k]) : o = v.names[x]
      BY <2>1, <2>4
    <3>2. ASSUME NEW y \in HoldersOf(prog), w.names[y] = o PROVE y \in Touches(prog[k])
      <4>1. CASE v.names[y] = w.names[y] /\ y # x
        <5>1. PICK i \in Movers(prog) : j[i] \in Open /\ y \in Touches(prog[i])
          BY <1>2, <2>1, <2>4, <3>1, <3>2, <4>1 DEF NamesOK, Distinct, SplitBy
        <5> QED
          BY <1>1, <5>1
      <4>2. CASE v.names[y] # w.names[y]
        BY <1>4, <2>1, <2>4, <3>2, <4>2
      <4> QED
        BY <4>1, <4>2
    <3>3. SplitBy(prog, w, j, k, o)
      BY <1>1, <1>2, <1>3, <2>1, <2>4 DEF SplitBy, Unanchored
    <3> QED
      BY <2>1, <2>4, <3>2, <3>3
  <2> QED
    BY <1>4, <2>1, <2>2, <2>3, <2>4
<1>6. Anchoring(prog, w, j)
  <2>1. SUFFICES ASSUME NEW i \in Effects, LastAnchor(prog, w, i)
                 PROVE  /\ \A s \in Paths : w.names[s] = w.names[i] => s \in Home(prog, j, i)
                        /\ \A m \in Effects \ Movers(prog) : w.names[m] = w.names[i] =>
                             m > i /\ prog[m].path \in Home(prog, j, i)
    BY DEF Anchoring
  <2>2. /\ i \in Movers(prog) /\ w.names[i] = v.names[i] /\ v.names[i] # NoObj
        /\ i # k => v.names[i] # v.names[k]
        /\ LastAnchor(prog, v, i)
    BY <1>1, <1>2, <1>3, <2>1 DEF LastAnchor, Effects
  <2>3. /\ \A s \in Paths : v.names[s] = v.names[i] => s \in Home(prog, j, i)
        /\ \A m \in Effects \ Movers(prog) : v.names[m] = v.names[i] =>
             m > i /\ prog[m].path \in Home(prog, j, i)
    BY <2>2 DEF NamesOK, Anchoring
  <2>4. ASSUME NEW s \in Paths, w.names[s] = w.names[i] PROVE s \in Home(prog, j, i)
    <3>1. s \in HoldersOf(prog)
      BY DEF HoldersOf
    <3>2. o # v.names[i]
      BY <2>2 DEF Unanchored
    <3> QED
      BY <1>1, <1>4, <2>2, <2>3, <2>4, <3>1, <3>2
  <2> QED
    BY <1>3, <2>2, <2>3, <2>4
<1>7. Chained(prog, w) /\ DoneAnchored(prog, w, j)
  BY <1>2, <1>3 DEF NamesOK, Chained, DoneAnchored
<1> QED
  BY <1>5, <1>6, <1>7 DEF NamesOK

(* A move renames from one of its paths to the other, free one: what is    *)
(* moved is the object of its anchor, or one that no anchor names.         *)
LEMMA PathsRenamed ==
  ASSUME NEW prog, Formed(prog), NEW v, NEW w, NEW j, NEW k \in Movers(prog),
         Top(v, j, k), NamesOK(prog, v, j),
         NEW s \in Touches(prog[k]), NEW u \in Touches(prog[k]), s # u,
         SameElse(v, w, {s, u}), v.names[u] = NoObj,
         w.names[s] = NoObj, w.names[u] = v.names[s],
         v.names[s] = v.names[k] \/ Unanchored(prog, v, v.names[s])
  PROVE  NamesOK(prog, w, j)
<1>1. /\ k \in Effects /\ j[k] \in Open /\ Home(prog, j, k) = Touches(prog[k])
      /\ \A i \in Movers(prog) : j[i] \in Open => i = k
      /\ \A i \in Movers(prog) : v.names[i] # NoObj => i = k \/ i < k
  BY TopIsLast DEF NamesOK
<1>2. /\ HoldersOf(prog) \subseteq Named /\ Movers(prog) \subseteq Effects
      /\ HoldersOf(prog) \cap Movers(prog) = {} /\ Touches(prog[k]) \subseteq Paths
      /\ Touches(prog[k]) = {s, u}
      /\ Paths \subseteq Named /\ Effects \subseteq Named
      /\ \A i \in Effects : i \notin Paths
      /\ Effects \ Movers(prog) \subseteq HoldersOf(prog) /\ Paths \subseteq HoldersOf(prog)
  BY <1>1, NamesAre, SlotsApart DEF HoldersOf
<1>3. \A i \in Effects : w.names[i] = v.names[i]
  BY <1>2 DEF SameElse
<1>4. CASE v.names[s] = v.names[k] \/ v.names[s] = NoObj
  <2>1. PICK o : o = NoObj /\ Unanchored(prog, v, o)
    BY DEF Unanchored
  <2>2. \A x \in Touches(prog[k]) : w.names[x] \in {NoObj, o, v.names[x], v.names[k]}
    BY <1>2, <1>4
  <2>3. SameElse(v, w, Touches(prog[k])) /\ \E x \in Touches(prog[k]) : o \in {NoObj, v.names[x]}
    BY <1>2, <2>1
  <2> QED
    BY <2>1, <2>2, <2>3, PathsSpread
<1>5. CASE Unanchored(prog, v, v.names[s]) /\ v.names[s] # NoObj
  <2>1. \A i \in Movers(prog) : v.names[i] # v.names[s]
    BY <1>5 DEF Unanchored
  <2>2. Distinct(prog, w, j)
    <3>1. SUFFICES ASSUME NEW a \in HoldersOf(prog), NEW b \in HoldersOf(prog), a # b,
                          w.names[a] = w.names[b], w.names[a] # NoObj
                   PROVE  FALSE
      BY DEF Distinct
    <3>2. PICK a1, b1 : /\ a1 \in HoldersOf(prog) /\ b1 \in HoldersOf(prog) /\ a1 # b1
                        /\ v.names[a1] = v.names[b1] /\ v.names[a1] # NoObj
                        /\ (a1 \notin {s, u} \/ b1 \notin {s, u})
      <4>1. CASE a = u
        BY <1>2, <3>1, <4>1 DEF SameElse
      <4>2. CASE b = u
        BY <1>2, <3>1, <4>2 DEF SameElse
      <4>3. CASE a # u /\ b # u
        BY <1>2, <3>1, <4>3 DEF SameElse
      <4> QED
        BY <4>1, <4>2, <4>3
    <3>3. PICK i \in Movers(prog) : /\ j[i] \in Open
                                    /\ a1 \in Touches(prog[i]) /\ b1 \in Touches(prog[i])
      BY <3>2 DEF NamesOK, Distinct, SplitBy
    <3> QED
      BY <1>1, <1>2, <3>2, <3>3
  <2>3. Anchoring(prog, w, j)
    <3>1. SUFFICES ASSUME NEW i \in Effects, LastAnchor(prog, w, i)
                   PROVE  /\ \A x \in Paths : w.names[x] = w.names[i] => x \in Home(prog, j, i)
                          /\ \A m \in Effects \ Movers(prog) : w.names[m] = w.names[i] =>
                               m > i /\ prog[m].path \in Home(prog, j, i)
      BY DEF Anchoring
    <3>2. /\ i \in Movers(prog) /\ w.names[i] = v.names[i] /\ v.names[i] # NoObj
          /\ LastAnchor(prog, v, i)
      BY <1>2, <1>3, <3>1 DEF LastAnchor
    <3>3. /\ \A x \in Paths : v.names[x] = v.names[i] => x \in Home(prog, j, i)
          /\ \A m \in Effects \ Movers(prog) : v.names[m] = v.names[i] =>
               m > i /\ prog[m].path \in Home(prog, j, i)
      BY <3>2 DEF NamesOK, Anchoring
    <3>4. ASSUME NEW x \in Paths, w.names[x] = w.names[i] PROVE v.names[x] = v.names[i]
      BY <1>2, <2>1, <3>2, <3>4 DEF SameElse
    <3> QED
      BY <1>3, <3>2, <3>3, <3>4
  <2>4. Chained(prog, w) /\ DoneAnchored(prog, w, j)
    BY <1>2, <1>3 DEF NamesOK, Chained, DoneAnchored
  <2> QED
    BY <2>2, <2>3, <2>4 DEF NamesOK
<1> QED
  BY <1>4, <1>5

\* The anchor of an open move is removed: its object is live at most at the source.
LEMMA AnchorDropped ==
  ASSUME NEW prog, Formed(prog), NEW v, NEW w, NEW j, NEW k \in Movers(prog),
         Top(v, j, k), NamesOK(prog, v, j), SameElse(v, w, {k}), w.names[k] = NoObj,
         v.names[k] # NoObj => v.names[prog[k].dest] # v.names[k],
         v.names[prog[k].path] # v.names[prog[k].dest] \/ v.names[prog[k].path] = NoObj
  PROVE  NamesOK(prog, w, j)
<1>1. /\ k \in Effects /\ j[k] \in Open
      /\ \A i \in Movers(prog) : j[i] \in Open => i = k
      /\ \A i \in Movers(prog) : v.names[i] # NoObj => i = k \/ i < k
      /\ v.names[k] # NoObj =>
           /\ \A s \in HoldersOf(prog) : v.names[s] = v.names[k] => s \in Touches(prog[k])
           /\ \A s \in Effects \ Movers(prog) : v.names[s] # v.names[k]
  BY TopIsLast DEF NamesOK
<1>2. /\ HoldersOf(prog) \subseteq Named /\ Movers(prog) \subseteq Effects
      /\ HoldersOf(prog) \cap Movers(prog) = {}
      /\ Touches(prog[k]) = {prog[k].path, prog[k].dest}
      /\ Paths \subseteq Named /\ Effects \subseteq Named
      /\ \A i \in Effects : i \notin Paths
      /\ Effects \ Movers(prog) \subseteq HoldersOf(prog) /\ Paths \subseteq HoldersOf(prog)
  BY <1>1, NamesAre, SlotsApart DEF HoldersOf
<1>3. /\ \A s \in HoldersOf(prog) : w.names[s] = v.names[s]
      /\ \A s \in Movers(prog) \ {k} : w.names[s] = v.names[s]
  BY <1>2 DEF SameElse
<1>4. Distinct(prog, w, j)
  <2>1. SUFFICES ASSUME NEW s \in HoldersOf(prog), NEW u \in HoldersOf(prog), s # u,
                        w.names[s] = w.names[u], w.names[s] # NoObj
                 PROVE  FALSE
    BY DEF Distinct
  <2>2. PICK i \in Movers(prog) : /\ j[i] \in Open
                                  /\ s \in Touches(prog[i]) /\ u \in Touches(prog[i])
    BY <1>3, <2>1 DEF NamesOK, Distinct, SplitBy
  <2>3. i = k /\ {s, u} = {prog[k].path, prog[k].dest}
    BY <1>1, <1>2, <2>1, <2>2
  <2> QED
    BY <1>3, <2>1, <2>2, <2>3
<1>5. Anchoring(prog, w, j)
  <2>1. SUFFICES ASSUME NEW i \in Effects, LastAnchor(prog, w, i)
                 PROVE  /\ \A s \in Paths : w.names[s] = w.names[i] => s \in Home(prog, j, i)
                        /\ \A m \in Effects \ Movers(prog) : w.names[m] = w.names[i] =>
                             m > i /\ prog[m].path \in Home(prog, j, i)
    BY DEF Anchoring
  <2>2. /\ i \in Movers(prog) /\ i # k /\ i < k /\ w.names[i] = v.names[i] /\ v.names[i] # NoObj
        /\ \A m \in Movers(prog) \ {k} : m > i => v.names[m] # v.names[i]
    BY <1>1, <1>3, <2>1 DEF LastAnchor
  <2>3. CASE v.names[i] # v.names[k]
    <3>1. LastAnchor(prog, v, i)
      BY <2>2, <2>3 DEF LastAnchor
    <3> QED
      BY <1>2, <1>3, <2>2, <3>1 DEF NamesOK, Anchoring
  <2>4. CASE v.names[i] = v.names[k]
    <3>1. prog[k].path = prog[i].dest
      <4>1. \A m \in Movers(prog) : i < m /\ m < k => v.names[m] # v.names[i]
        BY <1>1, <2>2 DEF Effects
      <4> QED
        BY <2>2, <2>4, <4>1 DEF NamesOK, Chained
    <3>2. prog[k].path \in Home(prog, j, i)
      BY <2>2, <3>1 DEF Top, Opened, Home
    <3>3. ASSUME NEW s \in Paths, w.names[s] = w.names[i] PROVE s = prog[k].path
      BY <1>1, <1>2, <1>3, <2>2, <2>4, <3>3
    <3>4. \A m \in Effects \ Movers(prog) : w.names[m] # w.names[i]
      BY <1>1, <1>2, <1>3, <2>2, <2>4
    <3> QED
      BY <3>2, <3>3, <3>4
  <2> QED
    BY <2>3, <2>4
<1>6. Chained(prog, w)
  <2>1. SUFFICES ASSUME NEW i \in Movers(prog), NEW m \in Movers(prog), i < m,
                        w.names[i] = w.names[m], w.names[i] # NoObj,
                        \A n \in Movers(prog) : i < n /\ n < m => w.names[n] # w.names[i]
                 PROVE  prog[m].path = prog[i].dest
    BY DEF Chained
  <2>2. /\ i # k /\ m # k /\ v.names[i] = v.names[m] /\ v.names[i] # NoObj /\ m < k
        /\ w.names[i] = v.names[i]
    BY <1>1, <1>3, <2>1
  <2>3. \A n \in Movers(prog) : i < n /\ n < m => n # k
    BY <1>2, <2>2 DEF Effects
  <2>4. \A n \in Movers(prog) : i < n /\ n < m => v.names[n] # v.names[i]
    BY <1>3, <2>1, <2>2, <2>3
  <2> QED
    BY <2>1, <2>2, <2>4 DEF NamesOK, Chained
<1>7. DoneAnchored(prog, w, j)
  BY <1>1, <1>3 DEF NamesOK, DoneAnchored, Open
<1> QED
  BY <1>4, <1>5, <1>6, <1>7 DEF NamesOK

\* No two names that hold objects lead to one.
NoneShared(prog, w) ==
  \A s, u \in HoldersOf(prog) : s # u /\ w.names[s] = w.names[u] => w.names[s] = NoObj

\* A move links its anchor to the object at its source.
LEMMA AnchorMade ==
  ASSUME NEW prog, Formed(prog), NEW v, NEW w, NEW j, NEW k \in Movers(prog),
         Top(v, j, k), NamesOK(prog, v, j), SameElse(v, w, {k}), v.names[k] = NoObj,
         w.names[k] = v.names[prog[k].path], w.names[k] # NoObj,
         NoneShared(prog, v)
  PROVE  NamesOK(prog, w, j)
<1>1. /\ k \in Effects /\ j[k] \in Open /\ Home(prog, j, k) = Touches(prog[k])
      /\ \A i \in Movers(prog) : v.names[i] # NoObj => i = k \/ i < k
  BY TopIsLast DEF NamesOK
<1>2. /\ HoldersOf(prog) \subseteq Named /\ Movers(prog) \subseteq Effects
      /\ HoldersOf(prog) \cap Movers(prog) = {}
      /\ Touches(prog[k]) = {prog[k].path, prog[k].dest}
      /\ Paths \subseteq Named /\ Effects \subseteq Named
      /\ \A i \in Effects : i \notin Paths
      /\ Effects \ Movers(prog) \subseteq HoldersOf(prog) /\ Paths \subseteq HoldersOf(prog)
      /\ prog[k].path \in Paths
  BY <1>1, NamesAre, SlotsApart DEF HoldersOf
<1>3. /\ \A s \in HoldersOf(prog) : w.names[s] = v.names[s]
      /\ \A s \in Movers(prog) \ {k} : w.names[s] = v.names[s]
  BY <1>2 DEF SameElse
<1>4. Distinct(prog, w, j)
  BY <1>3 DEF NoneShared, Distinct
<1>5. \A i \in Movers(prog) : i < k /\ LastAnchor(prog, w, i) => LastAnchor(prog, v, i)
  BY <1>3 DEF LastAnchor
<1>6. Anchoring(prog, w, j)
  <2>1. SUFFICES ASSUME NEW i \in Effects, LastAnchor(prog, w, i)
                 PROVE  /\ \A s \in Paths : w.names[s] = w.names[i] => s \in Home(prog, j, i)
                        /\ \A m \in Effects \ Movers(prog) : w.names[m] = w.names[i] =>
                             m > i /\ prog[m].path \in Home(prog, j, i)
    BY DEF Anchoring
  <2>2. CASE i = k
    <3>1. \A s \in HoldersOf(prog) : w.names[s] = w.names[i] => s = prog[k].path
      BY <1>2, <1>3, <2>2 DEF NoneShared
    <3>2. prog[k].path \notin Effects
      BY <1>2
    <3> QED
      BY <1>1, <1>2, <2>2, <3>1, <3>2
  <2>3. CASE i # k
    <3>1. i \in Movers(prog) /\ i < k /\ w.names[i] = v.names[i]
      BY <1>1, <1>3, <2>1, <2>3 DEF LastAnchor
    <3>2. LastAnchor(prog, v, i)
      BY <1>5, <2>1, <3>1
    <3> QED
      BY <1>2, <1>3, <3>1, <3>2 DEF NamesOK, Anchoring
  <2> QED
    BY <2>2, <2>3
<1>7. Chained(prog, w)
  <2>1. SUFFICES ASSUME NEW i \in Movers(prog), NEW m \in Movers(prog), i < m,
                        w.names[i] = w.names[m], w.names[i] # NoObj,
                        \A n \in Movers(prog) : i < n /\ n < m => w.names[n] # w.names[i]
                 PROVE  prog[m].path = prog[i].dest
    BY DEF Chained
  <2>2. i # k /\ i < k /\ w.names[i] = v.names[i]
    <3>1. i = k => v.names[m] = NoObj /\ m # k
      BY <1>1, <1>2, <2>1 DEF Top, Effects
    <3>2. i # k
      BY <1>3, <2>1, <3>1
    <3> QED
      BY <1>1, <1>3, <2>1, <3>2
  <2>3. CASE m = k
    <3>1. \A n \in Movers(prog) : n > i => v.names[n] # v.names[i]
      <4>1. SUFFICES ASSUME NEW n \in Movers(prog), n > i, v.names[n] = v.names[i] PROVE FALSE
        OBVIOUS
      <4>2. n # k /\ n < k
        BY <1>1, <2>1, <2>2, <4>1
      <4>3. w.names[n] = v.names[n] /\ i < n
        BY <1>2, <1>3, <4>1, <4>2 DEF Effects
      <4> QED
        BY <2>1, <2>2, <2>3, <4>1, <4>2, <4>3
    <3>2. LastAnchor(prog, v, i)
      BY <2>1, <2>2, <3>1 DEF LastAnchor
    <3>3. prog[k].path \in Home(prog, j, i)
      BY <1>2, <2>1, <2>2, <2>3, <3>2 DEF NamesOK, Anchoring
    <3>4. j[i] = "done"
      BY <1>2, <2>2 DEF Top, Opened
    <3> QED
      BY <2>3, <3>3, <3>4 DEF Home
  <2>4. CASE m # k
    <3>1. v.names[i] = v.names[m] /\ m < k
      BY <1>1, <1>3, <2>1, <2>2, <2>4
    <3>2. \A n \in Movers(prog) : i < n /\ n < m => v.names[n] # v.names[i]
      BY <1>1, <1>2, <1>3, <2>1, <2>2, <3>1 DEF Effects
    <3> QED
      BY <2>1, <2>2, <3>1, <3>2 DEF NamesOK, Chained
  <2> QED
    BY <2>3, <2>4
<1>8. DoneAnchored(prog, w, j)
  BY <1>1, <1>3 DEF NamesOK, DoneAnchored, Open
<1> QED
  BY <1>4, <1>6, <1>7, <1>8 DEF NamesOK

\* The outside writer removes what is at a path, or puts a new object there.
LEMMA PathMeddled ==
  ASSUME NEW prog, Formed(prog), NEW v, NEW w, NEW j, NamesOK(prog, v, j),
         NEW p \in Paths, SameElse(v, w, {p}),
         w.names[p] \in {NoObj, v.names[p]} \/ Unused(v, w.names[p])
  PROVE  NamesOK(prog, w, j)
<1>1. /\ HoldersOf(prog) \subseteq Named /\ Movers(prog) \subseteq Effects
      /\ HoldersOf(prog) \cap Movers(prog) = {}
      /\ Paths \subseteq Named /\ Effects \subseteq Named /\ p \notin Effects
      /\ Paths \subseteq HoldersOf(prog)
  BY SlotsApart DEF HoldersOf, Movers, Named
<1>2. \A s \in Named : s # p => w.names[s] = v.names[s]
  BY DEF SameElse
<1>3. \A i \in Effects : w.names[i] = v.names[i]
  BY <1>1, <1>2
<1>4. \/ w.names[p] \in {NoObj, v.names[p]}
      \/ \A s \in Named : v.names[s] # w.names[p]
  BY DEF Unused, Named
<1>5. Distinct(prog, w, j)
  <2>1. SUFFICES ASSUME NEW s \in HoldersOf(prog), NEW u \in HoldersOf(prog), s # u,
                        w.names[s] = w.names[u], w.names[s] # NoObj
                 PROVE  \E i \in Movers(prog) : /\ SplitBy(prog, w, j, i, w.names[s])
                                                /\ s \in Touches(prog[i]) /\ u \in Touches(prog[i])
    BY DEF Distinct
  <2>2. v.names[s] = v.names[u] /\ v.names[s] = w.names[s]
    BY <1>1, <1>2, <1>4, <2>1
  <2>3. PICK i \in Movers(prog) : /\ SplitBy(prog, v, j, i, v.names[s])
                                  /\ s \in Touches(prog[i]) /\ u \in Touches(prog[i])
    BY <2>1, <2>2 DEF NamesOK, Distinct
  <2>4. SplitBy(prog, w, j, i, w.names[s])
    BY <1>1, <1>3, <2>2, <2>3, SplitKept
  <2> QED
    BY <2>3, <2>4
<1>6. Anchoring(prog, w, j)
  <2>1. SUFFICES ASSUME NEW i \in Effects, LastAnchor(prog, w, i)
                 PROVE  /\ \A s \in Paths : w.names[s] = w.names[i] => s \in Home(prog, j, i)
                        /\ \A m \in Effects \ Movers(prog) : w.names[m] = w.names[i] =>
                             m > i /\ prog[m].path \in Home(prog, j, i)
    BY DEF Anchoring
  <2>2. LastAnchor(prog, v, i) /\ w.names[i] = v.names[i] /\ v.names[i] # NoObj
    BY <1>1, <1>3, <2>1 DEF LastAnchor
  <2>3. ASSUME NEW s \in Paths, w.names[s] = w.names[i] PROVE v.names[s] = v.names[i]
    BY <1>1, <1>2, <1>4, <2>2, <2>3
  <2> QED
    BY <1>3, <2>2, <2>3 DEF NamesOK, Anchoring
<1>7. Chained(prog, w) /\ DoneAnchored(prog, w, j)
  BY <1>1, <1>3 DEF NamesOK, Chained, DoneAnchored
<1> QED
  BY <1>5, <1>6, <1>7 DEF NamesOK

\* An effect is begun, or its undo; or it is undone.
LEMMA NamesUndone ==
  ASSUME NEW prog, NEW w, NEW j, NEW f, NEW k \in Effects, NamesOK(prog, w, j),
         \A i \in Effects \ {k} : f[i] = j[i],
         f[k] # "done", f[k] \in Open \/ w.names[k] = NoObj
  PROVE  NamesOK(prog, w, f)
<1>1. Movers(prog) \subseteq Effects
  BY DEF Movers
<1>2. Distinct(prog, w, f)
  <2>1. SUFFICES ASSUME NEW s \in HoldersOf(prog), NEW u \in HoldersOf(prog), s # u,
                        w.names[s] = w.names[u], w.names[s] # NoObj
                 PROVE  \E i \in Movers(prog) : /\ SplitBy(prog, w, f, i, w.names[s])
                                                /\ s \in Touches(prog[i]) /\ u \in Touches(prog[i])
    BY DEF Distinct
  <2>2. PICK i \in Movers(prog) : /\ SplitBy(prog, w, j, i, w.names[s])
                                  /\ s \in Touches(prog[i]) /\ u \in Touches(prog[i])
    BY <2>1 DEF NamesOK, Distinct
  <2>3. f[i] \in Open
    BY <1>1, <2>2 DEF SplitBy
  <2> QED
    BY <2>2, <2>3 DEF SplitBy
<1>3. \A i \in Effects : Home(prog, j, i) \subseteq Home(prog, f, i)
  BY DEF Home, Touches
<1>4. Anchoring(prog, w, f)
  BY <1>3 DEF NamesOK, Anchoring
<1>5. DoneAnchored(prog, w, f)
  BY <1>1 DEF NamesOK, DoneAnchored
<1> QED
  BY <1>2, <1>4, <1>5 DEF NamesOK

\* An open effect is done.
LEMMA NamesDone ==
  ASSUME NEW prog, Formed(prog), NEW w, NEW j, NEW f, NEW k \in Effects, NamesOK(prog, w, j),
         Top(w, j, k), \A i \in Effects \ {k} : f[i] = j[i], f[k] = "done",
         NoneShared(prog, w),
         k \in Movers(prog) => w.names[k] # NoObj /\ w.names[prog[k].path] # w.names[k]
  PROVE  NamesOK(prog, w, f)
<1>1. Movers(prog) \subseteq Effects /\ Paths \subseteq HoldersOf(prog)
      /\ Effects \ Movers(prog) \subseteq HoldersOf(prog)
      /\ Touches(prog[k]) = {prog[k].path, prog[k].dest}
      /\ \A i \in Effects : i \notin Paths
  BY NamesAre, SlotsApart DEF HoldersOf
<1>2. Distinct(prog, w, f)
  BY DEF NoneShared, Distinct
<1>3. Anchoring(prog, w, f)
  <2>1. SUFFICES ASSUME NEW i \in Effects, LastAnchor(prog, w, i)
                 PROVE  /\ \A s \in Paths : w.names[s] = w.names[i] => s \in Home(prog, f, i)
                        /\ \A m \in Effects \ Movers(prog) : w.names[m] = w.names[i] =>
                             m > i /\ prog[m].path \in Home(prog, f, i)
    BY DEF Anchoring
  <2>2. CASE i = k
    <3>1. k \in Movers(prog)
      BY <2>1, <2>2 DEF LastAnchor
    <3>2. /\ w.names[k] # NoObj
          /\ \A s \in HoldersOf(prog) : w.names[s] = w.names[k] => s \in Touches(prog[k])
          /\ \A s \in Effects \ Movers(prog) : w.names[s] # w.names[k]
      BY <3>1, TopIsLast DEF NamesOK
    <3> QED
      BY <1>1, <2>2, <3>1, <3>2 DEF Home
  <2>3. CASE i # k
    BY <2>1, <2>3 DEF NamesOK, Anchoring, Home
  <2> QED
    BY <2>2, <2>3
<1>4. Chained(prog, w) /\ DoneAnchored(prog, w, f)
  BY <1>1 DEF NamesOK, DoneAnchored
<1> QED
  BY <1>2, <1>3, <1>4 DEF NamesOK

-----------------------------------------------------------------------------
(* What the system calls do to the names of an effect.                     *)

(* A settlement operation that was possible, in world v; the one after it  *)
(* is w.                                                                   *)
Operated(v, w, e, k, op) ==
  /\ w.inode = v.inode
  /\ op = "exchange" =>
       /\ v.names[e.path] # NoObj /\ v.names[k] # NoObj /\ SameElse(v, w, {k, e.path})
       /\ w.names[e.path] = v.names[k] /\ w.names[k] = v.names[e.path]
  /\ op = "take" =>
       /\ v.names[e.path] # NoObj /\ v.names[k] = NoObj /\ SameElse(v, w, {k, e.path})
       /\ w.names[k] = v.names[e.path] /\ w.names[e.path] = NoObj
  /\ op = "restore" =>
       /\ v.names[k] # NoObj /\ v.names[e.path] = NoObj /\ SameElse(v, w, {k, e.path})
       /\ w.names[e.path] = v.names[k] /\ w.names[k] = NoObj
  /\ op = "move_back" =>
       /\ v.names[e.dest] # NoObj /\ v.names[e.path] = NoObj
       /\ SameElse(v, w, {e.path, e.dest})
       /\ w.names[e.path] = v.names[e.dest] /\ w.names[e.dest] = NoObj
  /\ op = "relink" =>
       /\ v.names[k] # NoObj /\ v.names[e.path] = NoObj /\ SameElse(v, w, {e.path})
       /\ w.names[e.path] = v.names[k]
  /\ op = "drop_destination" => SameElse(v, w, {e.dest}) /\ w.names[e.dest] = NoObj
  /\ op = "rmdir_live" => SameElse(v, w, {e.path}) /\ w.names[e.path] = NoObj
  /\ op = "drop" => /\ v.names[k] # NoObj /\ SameElse(v, w, {k}) /\ w.names[k] = NoObj

\* What settle.py does in each of its cells.
LEMMA OperatedIs ==
  ASSUME NEW prog, Formed(prog), NEW v, Solid(v), NEW k \in Effects, NEW op \in SettlementOps,
         op = "move_back" => prog[k].path # prog[k].dest, Possible(prog, v, op, k)
  PROVE  Operated(v, Apply(prog, v, op, k), prog[k], k, op)
<1>1. PICK e : e = prog[k]
  OBVIOUS
<1>2. PICK w : w = Apply(prog, v, op, k)
  OBVIOUS
<1>3. /\ e.path \in Named /\ e.dest \in Named /\ k \in Named /\ e.path # k /\ e.dest # k
  BY <1>1, NamesAre
<1>4. /\ op \in {"exchange", "drop", "take", "restore", "move_back", "relink",
                 "drop_destination", "rmdir_live"}
      /\ w.inode = v.inode
  BY <1>2, SettlementOpsAre, ApplyInodes
<1>5. CASE op = "exchange"
  <2>1. w = SetNames(v, e.path, v.names[k], k, v.names[e.path])
    BY <1>1, <1>2, <1>5, ApplyBinds
  <2>2. w.names[e.path] = v.names[k] /\ w.names[k] = v.names[e.path]
        /\ \A s \in Named \ {e.path, k} : w.names[s] = v.names[s]
    BY <1>3, <2>1, TwoNamesMove
  <2>3. v.names[e.path] # NoObj /\ v.names[k] # NoObj
    BY <1>1, <1>5 DEF Possible, Free
  <2> QED
    BY <1>1, <1>2, <1>4, <1>5, <2>2, <2>3 DEF Operated, SameElse
<1>6. CASE op = "take"
  <2>1. w = SetNames(v, k, v.names[e.path], e.path, NoObj)
    BY <1>1, <1>2, <1>6, ApplyBinds
  <2>2. w.names[k] = v.names[e.path] /\ w.names[e.path] = NoObj
        /\ \A s \in Named \ {k, e.path} : w.names[s] = v.names[s]
    BY <1>3, <2>1, TwoNamesMove
  <2>3. v.names[e.path] # NoObj /\ v.names[k] = NoObj
    BY <1>1, <1>6 DEF Possible, Free
  <2> QED
    BY <1>1, <1>2, <1>4, <1>6, <2>2, <2>3 DEF Operated, SameElse
<1>7. CASE op = "restore"
  <2>1. w = SetNames(v, e.path, v.names[k], k, NoObj)
    BY <1>1, <1>2, <1>7, ApplyBinds
  <2>2. w.names[e.path] = v.names[k] /\ w.names[k] = NoObj
        /\ \A s \in Named \ {e.path, k} : w.names[s] = v.names[s]
    BY <1>3, <2>1, TwoNamesMove
  <2>3. v.names[k] # NoObj /\ v.names[e.path] = NoObj
    BY <1>1, <1>7 DEF Possible, Free
  <2> QED
    BY <1>1, <1>2, <1>4, <1>7, <2>2, <2>3 DEF Operated, SameElse
<1>8. CASE op = "move_back"
  <2>1. w = SetNames(v, e.path, v.names[e.dest], e.dest, NoObj)
    BY <1>1, <1>2, <1>8, ApplyBinds
  <2>2. w.names[e.path] = v.names[e.dest] /\ w.names[e.dest] = NoObj
        /\ \A s \in Named \ {e.path, e.dest} : w.names[s] = v.names[s]
    BY <1>1, <1>3, <1>8, <2>1, TwoNamesMove
  <2>3. v.names[e.dest] # NoObj /\ v.names[e.path] = NoObj
    BY <1>1, <1>8 DEF Possible, Free
  <2> QED
    BY <1>1, <1>2, <1>4, <1>8, <2>2, <2>3 DEF Operated, SameElse
<1>9. CASE op = "relink"
  <2>1. w = SetName(v, e.path, v.names[k])
    BY <1>1, <1>2, <1>9, ApplyBinds
  <2>2. w.names[e.path] = v.names[k] /\ \A s \in Named \ {e.path} : w.names[s] = v.names[s]
    BY <1>3, <2>1, OneNameMoves
  <2>3. v.names[k] # NoObj /\ v.names[e.path] = NoObj
    BY <1>1, <1>9 DEF Possible, Free
  <2> QED
    BY <1>1, <1>2, <1>4, <1>9, <2>2, <2>3 DEF Operated, SameElse
<1>10. CASE op = "drop_destination"
  <2>1. w = SetName(v, e.dest, NoObj)
    BY <1>1, <1>2, <1>10, ApplyBinds
  <2>2. w.names[e.dest] = NoObj /\ \A s \in Named \ {e.dest} : w.names[s] = v.names[s]
    BY <1>3, <2>1, OneNameMoves
  <2> QED
    BY <1>1, <1>2, <1>4, <1>10, <2>2 DEF Operated, SameElse
<1>11. CASE op = "rmdir_live"
  <2>1. w = SetName(v, e.path, NoObj)
    BY <1>1, <1>2, <1>11, ApplyBinds
  <2>2. w.names[e.path] = NoObj /\ \A s \in Named \ {e.path} : w.names[s] = v.names[s]
    BY <1>3, <2>1, OneNameMoves
  <2> QED
    BY <1>1, <1>2, <1>4, <1>11, <2>2 DEF Operated, SameElse
<1>12. CASE op = "drop"
  <2>1. w = SetName(v, k, NoObj)
    BY <1>1, <1>2, <1>12, ApplyBinds
  <2>2. w.names[k] = NoObj /\ \A s \in Named \ {k} : w.names[s] = v.names[s]
    BY <1>3, <2>1, OneNameMoves
  <2>3. v.names[k] # NoObj
    BY <1>12 DEF Possible, Free
  <2> QED
    BY <1>1, <1>2, <1>4, <1>12, <2>2, <2>3 DEF Operated, SameElse
<1> QED
  BY <1>4, <1>5, <1>6, <1>7, <1>8, <1>9, <1>10, <1>11, <1>12

-----------------------------------------------------------------------------
(* The system calls of execution, by what they do.                         *)

\* No object changes but the one effect k is building.
InodesKept(k) == \A o \in Objects \ {k} : world'.inode[o] = world.inode[o]

\* The staging file or work directory of effect k is made.
WorkBuild(k) ==
  /\ program[k].kind \in {"create", "replace", "mkdir"}
  /\ stage = "begin" /\ stage' \in {"building", "built"}
  /\ world.names[k] = NoObj /\ world'.names[k] = k /\ SameElse(world, world', {k})
  /\ InodesKept(k)

\* It gets its content and its mode.
WorkWrite(k) ==
  /\ program[k].kind \in {"create", "replace", "mkdir"}
  /\ stage \in {"building", "built"} /\ stage' \in {"built", "ready"}
  /\ stage' = "ready" => world'.inode[k] = program[k].post
  /\ world'.names = world.names /\ InodesKept(k)

\* A second name is given to the source of a move.
WorkLink(k) ==
  /\ program[k].kind = "move" /\ stage = "begin" /\ stage' = "linked"
  /\ world.names[k] = NoObj /\ world.names[program[k].path] # NoObj
  /\ world'.names[k] = world.names[program[k].path] /\ SameElse(world, world', {k})
  /\ world'.inode = world.inode

\* The anchor is compared with the state that was declared.
WorkCheck(k) ==
  /\ program[k].kind = "move" /\ stage = "linked" /\ stage' \in {"ready", "refusing"}
  /\ world' = world

\* The one system call of an effect that changes live paths.
WorkLand(k) ==
  LET e == program[k] IN
  /\ stage = (IF e.kind = "delete" THEN "begin" ELSE "ready") /\ stage' = "landed"
  /\ world'.inode = world.inode
  /\ e.kind \in {"create", "mkdir"} =>
       /\ world.names[k] # NoObj /\ world.names[e.path] = NoObj
       /\ world'.names[k] = NoObj /\ world'.names[e.path] = world.names[k]
       /\ SameElse(world, world', {k, e.path})
  /\ e.kind = "delete" =>
       /\ world.names[k] = NoObj /\ world.names[e.path] # NoObj
       /\ world'.names[k] = world.names[e.path] /\ world'.names[e.path] = NoObj
       /\ SameElse(world, world', {k, e.path})
  /\ e.kind = "replace" =>
       /\ world.names[e.path] # NoObj
       /\ world'.names[k] = world.names[e.path] /\ world'.names[e.path] = world.names[k]
       /\ SameElse(world, world', {k, e.path})
  /\ e.kind = "move" =>
       /\ world.names[e.path] # NoObj /\ world.names[e.dest] = NoObj
       /\ world'.names[e.dest] = world.names[e.path] /\ world'.names[e.path] = NoObj
       /\ SameElse(world, world', {e.path, e.dest})

\* What it has done is compared with what it is for.
WorkVerify(k) ==
  /\ stage = "landed" /\ world' = world
  /\ \/ stage' = "verified" /\ Landed(k)
     \/ stage' = "undoing" /\ program[k].kind \in {"replace", "delete", "move"}

\* The scratch entry of an effect that refuses to go on is removed.
WorkWithdraw(k) ==
  /\ stage = "refusing" /\ stage' = "failed" /\ world'.inode = world.inode
  /\ world'.names[k] = NoObj /\ SameElse(world, world', {k})

\* What was landed is put back at once.
WorkUndo(k) ==
  /\ stage = "undoing" /\ stage' = "failed"
  /\ \/ /\ program[k].kind = "replace" /\ world.names[program[k].path] = k
        /\ Operated(world, world', program[k], k, "exchange")
     \/ program[k].kind = "delete" /\ Operated(world, world', program[k], k, "restore")
     \/ program[k].kind = "move" /\ Operated(world, world', program[k], k, "move_back")

\* A system call fails and nothing changes.
WorkFail(k) ==
  /\ world' = world
  /\ stage' = "failed" \/ (program[k].kind \in {"create", "mkdir"} /\ stage' = "refusing" /\ stage = "ready")

\* One system call of effect k, by what it does to names and objects.
WorkStep(k) ==
  \/ WorkBuild(k) \/ WorkWrite(k) \/ WorkLink(k) \/ WorkCheck(k) \/ WorkLand(k)
  \/ WorkVerify(k) \/ WorkWithdraw(k) \/ WorkUndo(k) \/ WorkFail(k)

\* A system call of an effect is one of these.
LEMMA WorkSteps ==
  ASSUME EngineInv, RecordShape, WorkInv, NEW k \in Effects, ApplyEffect(k)
  PROVE  WorkStep(k)
<1>0. Solid(world) /\ Formed(program) /\ StageInv
      /\ (program[k].kind = "move" => program[k].path # program[k].dest)
  <2>1. \A i \in Effects : program[i].kind = "move" => program[i].path # program[i].dest
    BY DEF RecordShape, Compiles
  <2> QED
    BY <2>1 DEF EngineInv, FilesInv, ProgramOK, Formed
<1>1. PICK e : e = program[k]
  OBVIOUS
<1>2. /\ e.path \in Named /\ e.dest \in Named /\ k \in Named /\ e.path # k /\ e.dest # k
      /\ k \in Objects /\ (e.kind = "move" => e.path # e.dest)
  BY <1>0, <1>1, NamesAre, SlotsApart
<1>3. CASE CreateStaging(k) \/ MakeWork(k)
  <2>1. PICK st : /\ e.kind \in {"create", "replace", "mkdir"} /\ stage = "begin"
                  /\ stage' \in {"building", "built"} /\ Free(world, k)
                  /\ world' = NewObject(world, k, k, st)
    BY <1>1, <1>3 DEF CreateStaging, MakeWork, Applying, Work, Built, NewObject
  <2>2. world'.names = [world.names EXCEPT ![k] = k] /\ world'.inode = [world.inode EXCEPT ![k] = st]
    BY <1>0, <2>1, NewObjectIs
  <2>3. /\ world'.names[k] = k /\ SameElse(world, world', {k}) /\ InodesKept(k)
    BY <1>0, <1>2, <2>2 DEF Solid, SameElse, InodesKept
  <2> QED
    BY <1>1, <2>1, <2>3 DEF WorkStep, WorkBuild, Free
<1>4. CASE WriteStaging(k) \/ SetMode(k)
  <2>1. CASE WriteStaging(k)
    <3>1. /\ stage = "building" /\ stage' = "built" /\ e.kind \in {"create", "replace", "mkdir"}
          /\ world' = SetInode(world, k, Raw[e.post])
      BY <1>0, <1>1, <2>1 DEF WriteStaging, StageInv, Applying, Work, SetInode
    <3>2. world'.names = world.names /\ InodesKept(k)
      BY <1>0, <1>2, <3>1 DEF Solid, SetInode, InodesKept
    <3> QED
      BY <1>1, <3>1, <3>2 DEF WorkStep, WorkWrite
  <2>2. CASE SetMode(k)
    <3>1. /\ stage = "built" /\ stage' = "ready" /\ e.kind \in {"create", "replace", "mkdir"}
          /\ world' = SetInode(world, k, e.post)
      BY <1>0, <1>1, <2>2 DEF SetMode, StageInv, Applying, Work, SetInode
    <3>2. world'.names = world.names /\ InodesKept(k) /\ world'.inode[k] = e.post
      BY <1>0, <1>2, <3>1 DEF Solid, SetInode, InodesKept
    <3> QED
      BY <1>1, <3>1, <3>2 DEF WorkStep, WorkWrite
  <2> QED
    BY <1>4, <2>1, <2>2
<1>5. CASE LinkAnchor(k)
  <2>1. CASE world' = world /\ stage' = "failed"
    BY <2>1 DEF WorkStep, WorkFail
  <2>2. CASE ~(world' = world /\ stage' = "failed")
    <3>1. /\ e.kind = "move" /\ stage = "begin" /\ stage' = "linked"
          /\ world.names[k] = NoObj /\ world.names[e.path] # NoObj
          /\ world' = SetName(world, k, world.names[e.path])
      BY <1>1, <1>5, <2>2 DEF LinkAnchor, Applying, Work, Free, SetName
    <3>2. world'.names[k] = world.names[e.path] /\ SameElse(world, world', {k})
      BY <1>0, <1>2, <3>1, OneNameMoves DEF SameElse
    <3>3. world'.inode = world.inode
      BY <1>0, <3>1, NamesOnly
    <3> QED
      BY <1>1, <3>1, <3>2, <3>3 DEF WorkStep, WorkLink
  <2> QED
    BY <2>1, <2>2
<1>6. CASE CheckAnchor(k)
  <2>1. /\ stage = "linked" /\ stage' \in {"ready", "refusing"} /\ world' = world
        /\ pc = "apply" /\ journals[active][k] = "started"
    BY <1>6 DEF CheckAnchor, Applying, Work
  <2>2. program[k].kind = "move"
    BY <2>1 DEF WorkInv, WorkNames, Movers
  <2> QED
    BY <2>1, <2>2 DEF WorkStep, WorkCheck
<1>7. CASE Land(k)
  <2>1. stage = IF e.kind = "delete" THEN "begin" ELSE "ready"
    BY <1>1, <1>7 DEF Land, ReadyToLand, Applying
  <2>2. CASE e.kind \in {"create", "mkdir"}
    <3>1. \/ world' = world /\ stage' = "refusing"
          \/ /\ world.names[k] # NoObj /\ world.names[e.path] = NoObj /\ stage' = "landed"
             /\ world' = Rename(world, k, e.path)
      BY <1>1, <1>7, <2>2 DEF Land, Work, Free
    <3>2. CASE world' = world /\ stage' = "refusing"
      BY <1>1, <2>1, <2>2, <3>2 DEF WorkStep, WorkFail
    <3>3. CASE /\ world.names[k] # NoObj /\ world.names[e.path] = NoObj /\ stage' = "landed"
               /\ world' = Rename(world, k, e.path)
      <4>1. world' = SetNames(world, e.path, world.names[k], k, NoObj)
        BY <3>3 DEF Rename, SetNames
      <4>2. world'.names[e.path] = world.names[k] /\ world'.names[k] = NoObj
            /\ \A s \in Named \ {e.path, k} : world'.names[s] = world.names[s]
        BY <1>0, <1>2, <4>1, TwoNamesMove
      <4>3. world'.inode = world.inode
        BY <1>0, <4>1, NamesOnly
      <4> QED
        BY <1>1, <2>1, <2>2, <3>3, <4>2, <4>3 DEF WorkStep, WorkLand, SameElse
    <3> QED
      BY <3>1, <3>2, <3>3
  <2>3. CASE e.kind = "delete"
    <3>1. \/ world' = world /\ stage' = "failed"
          \/ /\ world.names[e.path] # NoObj /\ world.names[k] = NoObj /\ stage' = "landed"
             /\ world' = Rename(world, e.path, k)
      BY <1>1, <1>7, <2>3 DEF Land, Work, Free
    <3>2. CASE world' = world /\ stage' = "failed"
      BY <3>2 DEF WorkStep, WorkFail
    <3>3. CASE /\ world.names[e.path] # NoObj /\ world.names[k] = NoObj /\ stage' = "landed"
               /\ world' = Rename(world, e.path, k)
      <4>1. world' = SetNames(world, k, world.names[e.path], e.path, NoObj)
        BY <3>3 DEF Rename, SetNames
      <4>2. world'.names[k] = world.names[e.path] /\ world'.names[e.path] = NoObj
            /\ \A s \in Named \ {k, e.path} : world'.names[s] = world.names[s]
        BY <1>0, <1>2, <4>1, TwoNamesMove
      <4>3. world'.inode = world.inode
        BY <1>0, <4>1, NamesOnly
      <4> QED
        BY <1>1, <2>1, <2>3, <3>3, <4>2, <4>3 DEF WorkStep, WorkLand, SameElse
    <3> QED
      BY <3>1, <3>2, <3>3
  <2>4. CASE e.kind = "move"
    <3>1. \/ world' = world /\ stage' = "failed"
          \/ /\ world.names[e.path] # NoObj /\ world.names[e.dest] = NoObj /\ stage' = "landed"
             /\ world' = Rename(world, e.path, e.dest)
      BY <1>1, <1>7, <2>4 DEF Land, Work, Free
    <3>2. CASE world' = world /\ stage' = "failed"
      BY <3>2 DEF WorkStep, WorkFail
    <3>3. CASE /\ world.names[e.path] # NoObj /\ world.names[e.dest] = NoObj /\ stage' = "landed"
               /\ world' = Rename(world, e.path, e.dest)
      <4>1. world' = SetNames(world, e.dest, world.names[e.path], e.path, NoObj)
        BY <3>3 DEF Rename, SetNames
      <4>2. world'.names[e.dest] = world.names[e.path] /\ world'.names[e.path] = NoObj
            /\ \A s \in Named \ {e.dest, e.path} : world'.names[s] = world.names[s]
        BY <1>0, <1>2, <2>4, <4>1, TwoNamesMove
      <4>3. world'.inode = world.inode
        BY <1>0, <4>1, NamesOnly
      <4> QED
        BY <1>1, <2>1, <2>4, <3>3, <4>2, <4>3 DEF WorkStep, WorkLand, SameElse
    <3> QED
      BY <3>1, <3>2, <3>3
  <2>5. CASE e.kind = "replace"
    <3>1. \/ world' = world /\ stage' = "failed"
          \/ /\ world.names[e.path] # NoObj /\ stage' = "landed"
             /\ world' = Apply(program, world, "exchange", k)
      BY <1>1, <1>7, <2>5 DEF Land, Work, Free
    <3>2. CASE world' = world /\ stage' = "failed"
      BY <3>2 DEF WorkStep, WorkFail
    <3>3. CASE /\ world.names[e.path] # NoObj /\ stage' = "landed"
               /\ world' = Apply(program, world, "exchange", k)
      <4>1. world' = SetNames(world, e.path, world.names[k], k, world.names[e.path])
        BY <1>0, <1>1, <3>3, ApplyBinds
      <4>2. world'.names[e.path] = world.names[k] /\ world'.names[k] = world.names[e.path]
            /\ \A s \in Named \ {e.path, k} : world'.names[s] = world.names[s]
        BY <1>0, <1>2, <4>1, TwoNamesMove
      <4>3. world'.inode = world.inode
        BY <1>0, <4>1, NamesOnly
      <4> QED
        BY <1>1, <2>1, <2>5, <3>3, <4>2, <4>3 DEF WorkStep, WorkLand, SameElse
    <3> QED
      BY <3>1, <3>2, <3>3
  <2>6. e.kind \in {"create", "mkdir", "delete", "move", "replace"}
    BY <1>0, <1>1 DEF Formed, WellFormed, Kinds
  <2> QED
    BY <2>2, <2>3, <2>4, <2>5, <2>6
<1>8. CASE Verify(k)
  <2>1. /\ stage = "landed" /\ world' = world
        /\ \/ stage' = "failed"
           \/ stage' = "verified" /\ Landed(k)
           \/ stage' = "undoing" /\ e.kind \notin {"create", "mkdir"}
    BY <1>1, <1>8 DEF Verify, Applying, Work
  <2>2. e.kind \in {"create", "mkdir", "delete", "move", "replace"}
    BY <1>0, <1>1 DEF Formed, WellFormed, Kinds
  <2> QED
    BY <1>1, <2>1, <2>2 DEF WorkStep, WorkVerify, WorkFail
<1>9. CASE Withdraw(k)
  <2>1. stage = "refusing" /\ stage' = "failed" /\ world' = SetName(world, k, NoObj)
    BY <1>9 DEF Withdraw, Applying, Work, Unlink, SetName
  <2>2. world'.names[k] = NoObj /\ SameElse(world, world', {k})
    BY <1>0, <1>2, <2>1, OneNameMoves DEF SameElse
  <2>3. world'.inode = world.inode
    BY <1>0, <2>1, NamesOnly
  <2> QED
    BY <2>1, <2>2, <2>3 DEF WorkStep, WorkWithdraw
<1>10. CASE UndoLanding(k)
  <2>1. CASE world' = world /\ stage' = "failed"
    BY <2>1 DEF WorkStep, WorkFail
  <2>2. CASE ~(world' = world /\ stage' = "failed")
    <3>1. stage = "undoing" /\ e.kind \in {"replace", "delete", "move"}
      BY <1>0, <1>1, <1>10 DEF UndoLanding, Applying, StageInv
    <3>2. CASE e.kind = "replace"
      <4>1. /\ Possible(program, world, "exchange", k) /\ world.names[e.path] = k
            /\ stage' = "failed" /\ world' = Apply(program, world, "exchange", k)
        BY <1>1, <1>10, <2>2, <3>2 DEF UndoLanding, Work
      <4>2. Operated(world, world', program[k], k, "exchange")
        BY <1>0, <4>1, SettlementOpsAre, OperatedIs
      <4> QED
        BY <1>1, <3>1, <3>2, <4>1, <4>2 DEF WorkStep, WorkUndo
    <3>3. CASE e.kind = "delete"
      <4>1. /\ Possible(program, world, "restore", k)
            /\ stage' = "failed" /\ world' = Apply(program, world, "restore", k)
        BY <1>1, <1>10, <2>2, <3>3 DEF UndoLanding, Work
      <4>2. Operated(world, world', program[k], k, "restore")
        BY <1>0, <4>1, SettlementOpsAre, OperatedIs
      <4> QED
        BY <1>1, <3>1, <3>3, <4>1, <4>2 DEF WorkStep, WorkUndo
    <3>4. CASE e.kind = "move"
      <4>1. /\ Possible(program, world, "move_back", k)
            /\ stage' = "failed" /\ world' = Apply(program, world, "move_back", k)
        BY <1>1, <1>10, <2>2, <3>4 DEF UndoLanding, Work
      <4>2. Operated(world, world', program[k], k, "move_back")
        BY <1>0, <1>1, <1>2, <3>4, <4>1, SettlementOpsAre, OperatedIs
      <4> QED
        BY <1>1, <3>1, <3>4, <4>1, <4>2 DEF WorkStep, WorkUndo
    <3> QED
      BY <3>1, <3>2, <3>3, <3>4
  <2> QED
    BY <2>1, <2>2
<1> QED
  BY <1>3, <1>4, <1>5, <1>6, <1>7, <1>8, <1>9, <1>10 DEF ApplyEffect

-----------------------------------------------------------------------------
(* The names of the effect that is being applied.                          *)

\* The open effect of a live transaction is on top of the others.
LEMMA OpenTop ==
  ASSUME EngineInv, RecordShape, active \in Txns, NEW k \in Effects,
         journals[active][k] \in Open
  PROVE  /\ Formed(program) /\ Solid(world) /\ Top(world, journals[active], k)
         /\ \A i \in Effects : journals[active][i] \in Open => i = k
         /\ \A t \in Txns : t = active
         /\ program[k].kind = "move" => program[k].path # program[k].dest
         /\ k \notin Movers(program) => program[k].kind # "move"
         /\ k \in Movers(program) => program[k].kind = "move"
<1>1. journals[active] \in Journals /\ Stacked(journals[active])
  BY DEF EngineInv, ProtocolInv, ControlInv, TypeOK, RecordShape
<1>2. Opened(journals[active], k) /\ \A i \in Effects : journals[active][i] \in Open => i = k
  BY <1>1, OpenedIs
<1>3. \A i \in Effects : i > k => world.names[i] = NoObj
  BY <1>2 DEF Opened, EngineInv, FilesInv, ClearInv, Free
<1>4. Formed(program) /\ Solid(world)
  BY DEF EngineInv, FilesInv, ProgramOK, Formed
<1>5. program[k].kind = "move" => program[k].path # program[k].dest
  BY DEF RecordShape, Compiles
<1>6. \A t \in Txns : t = active
  BY OneTransaction
<1> QED
  BY <1>2, <1>3, <1>4, <1>5, <1>6 DEF Top, Movers

\* While files are being applied the transaction is live and nothing is shared.
LEMMA ApplyFacts ==
  ASSUME EngineInv, CommitInv, RecordShape, AnchorInv, NEW k \in Effects, pc = "apply",
         journals[active][k] = "started"
  PROVE  /\ active \in Txns /\ Live
         /\ NamesOK(program, world, journals[active]) /\ WorkNames(k)
         /\ FreshUnused(world, outside) /\ MakersClear(program, world, journals[active])
         /\ NoneShared(program, world) /\ plan = "none"
         /\ stage = "begin" => Unused(world, k)
<1>1. active \in Txns /\ (\A t \in Txns : t = active) /\ state[active] = "applying"
  BY ActiveRecord DEF EngineInv
<1>2. Live
  BY <1>1 DEF Live
<1>3. Apart(world)
  BY DEF CommitInv, ApartInv, Early, Forward
<1>4. NoneShared(program, world)
  BY <1>3 DEF NoneShared, Apart, Holders, HoldersOf, Movers
<1>5. stage = "begin" => Unused(world, k)
  BY <1>1 DEF CommitInv, UnusedInv, Early, Forward, Applying, Nowhere, Unused, Named
<1>6. plan = "none"
  BY DEF EngineInv, ProtocolInv, PointInv
<1> QED
  BY <1>1, <1>2, <1>4, <1>5, <1>6 DEF AnchorInv, NamesInv, WorkInv

\* A system call keeps the names in order, and fits the next one.
LEMMA WorkNamesKept ==
  ASSUME NEW k \in Effects, NEW j, Formed(program), Top(world, j, k),
         NamesOK(program, world, j), WorkNames(k), NoneShared(program, world),
         stage = "begin" => Unused(world, k), j[k] = "started", program' = program,
         program[k].kind = "move" => program[k].path # program[k].dest,
         WorkStep(k)
  PROVE  NamesOK(program, world', j) /\ WorkNames(k)'
<1>1. PICK e : e = program[k]
  OBVIOUS
<1>2. /\ e.path \in Paths /\ e.dest \in Paths /\ (e.kind # "move" => e.dest = e.path)
      /\ e.path \in Named /\ e.dest \in Named /\ k \in Named
      /\ Touches(e) = {e.path, e.dest} /\ e.path # k /\ e.dest # k
      /\ (e.kind = "move" => e.path # e.dest)
      /\ HoldersOf(program) \subseteq Named /\ Movers(program) \subseteq Named
  BY <1>1, NamesAre
<1>3. /\ k \in Movers(program) <=> e.kind = "move"
      /\ e.kind # "move" => k \in HoldersOf(program) /\ k \in Effects \ Movers(program)
      /\ e.path \in HoldersOf(program) /\ e.dest \in HoldersOf(program)
      /\ k # NoObj
  BY <1>1, <1>2, SlotsApart DEF Movers, HoldersOf
<1>4. PICK w : w = world'
  OBVIOUS
<1>5. ASSUME NEW o, Unanchored(program, world, o), \A i \in Movers(program) : w.names[i] = world.names[i]
      PROVE  Unanchored(program, w, o)
  BY <1>5 DEF Unanchored
<1>6. CASE WorkBuild(k)
  <2>1. /\ e.kind \in {"create", "replace", "mkdir"} /\ stage = "begin"
        /\ stage' \in {"building", "built"} /\ w.names[k] = k /\ SameElse(world, w, {k})
    BY <1>1, <1>4, <1>6 DEF WorkBuild
  <2>2. w.names[e.path] = world.names[e.path] /\ SameElse(world, w, {k, e.path})
        /\ Unused(world, w.names[k]) /\ w.names[k] # w.names[e.path]
    BY <1>2, <2>1 DEF SameElse, Unused
  <2>3. NamesOK(program, w, j)
    BY <1>1, <1>3, <2>1, <2>2, OwnNamesMove
  <2> QED
    BY <1>1, <1>3, <1>4, <2>1, <2>3 DEF WorkNames, BuildingNames
<1>7. CASE WorkWrite(k)
  <2>1. /\ e.kind \in {"create", "replace", "mkdir"} /\ stage \in {"building", "built"}
        /\ stage' \in {"built", "ready"} /\ (stage' = "ready" => w.inode[k] = e.post)
        /\ w.names = world.names
    BY <1>1, <1>4, <1>7 DEF WorkWrite
  <2>2. NamesOK(program, w, j)
    BY <2>1 DEF NamesOK, Distinct, SplitBy, Unanchored, Anchoring, LastAnchor, Chained,
                DoneAnchored
  <2>3. w.names[k] = k
    BY <1>1, <1>3, <2>1 DEF WorkNames, BuildingNames
  <2> QED
    BY <1>1, <1>3, <1>4, <2>1, <2>2, <2>3 DEF WorkNames, BuildingNames
<1>8. CASE WorkLink(k)
  <2>1. /\ e.kind = "move" /\ stage' = "linked" /\ world.names[k] = NoObj
        /\ world.names[e.path] # NoObj /\ w.names[k] = world.names[e.path]
        /\ SameElse(world, w, {k})
    BY <1>1, <1>4, <1>8 DEF WorkLink
  <2>2. NamesOK(program, w, j)
    BY <1>1, <1>3, <2>1, AnchorMade
  <2>3. world.names[e.dest] # world.names[e.path]
    BY <1>2, <1>3, <2>1 DEF NoneShared
  <2>4. w.names[e.path] = w.names[k] /\ w.names[e.dest] # w.names[k] /\ w.names[k] # NoObj
    BY <1>2, <2>1, <2>3 DEF SameElse
  <2> QED
    BY <1>1, <1>3, <1>4, <2>1, <2>2, <2>4 DEF WorkNames, MovingNames
<1>9. CASE WorkCheck(k)
  <2>1. e.kind = "move" /\ stage = "linked" /\ stage' \in {"ready", "refusing"} /\ world' = world
    BY <1>1, <1>9 DEF WorkCheck
  <2> QED
    BY <1>1, <1>3, <2>1 DEF WorkNames, MovingNames, Unanchored
<1>10. CASE WorkLand(k)
  <2>0. stage = (IF e.kind = "delete" THEN "begin" ELSE "ready") /\ stage' = "landed"
    BY <1>1, <1>10 DEF WorkLand
  <2>1. CASE e.kind # "move"
    <3>1. e.kind \in {"create", "mkdir", "delete", "replace"}
      BY <1>1, <2>1 DEF Formed, WellFormed, Kinds
    <3>2. /\ SameElse(world, w, {k, e.path})
          /\ w.names[k] \in {NoObj, world.names[e.path]} /\ w.names[e.path] \in {NoObj, world.names[k]}
          /\ \/ w.names[k] = NoObj \/ w.names[e.path] = NoObj
             \/ w.names[k] = world.names[e.path] /\ w.names[e.path] = world.names[k]
          /\ e.kind \in {"create", "mkdir"} => w.names[k] = NoObj
      BY <1>1, <1>4, <1>10, <3>1 DEF WorkLand
    <3>3. w.names[k] = w.names[e.path] => w.names[k] = NoObj
      BY <1>2, <1>3, <2>1, <3>2 DEF NoneShared
    <3>4. NamesOK(program, w, j)
      BY <1>1, <1>3, <2>1, <3>2, <3>3, OwnNamesMove
    <3> QED
      BY <1>1, <1>3, <1>4, <2>0, <2>1, <3>2, <3>4 DEF WorkNames, BuildingNames, MakesEntry, Free
  <2>2. CASE e.kind = "move"
    <3>1. /\ world.names[e.path] # NoObj /\ world.names[e.dest] = NoObj
          /\ w.names[e.dest] = world.names[e.path] /\ w.names[e.path] = NoObj
          /\ SameElse(world, w, {e.path, e.dest})
      BY <1>1, <1>4, <1>10, <2>2 DEF WorkLand
    <3>2. /\ world.names[e.path] = world.names[k] \/ Unanchored(program, world, world.names[e.path])
          /\ world.names[k] # NoObj
      BY <1>1, <1>3, <2>0, <2>2 DEF WorkNames, MovingNames
    <3>3. NamesOK(program, w, j)
      BY <1>1, <1>2, <1>3, <2>2, <3>1, <3>2, PathsRenamed
    <3>4. \A i \in Movers(program) : w.names[i] = world.names[i]
      BY <1>2, <3>1, SlotsApart DEF SameElse, Movers
    <3>5. /\ w.names[e.dest] = w.names[k] \/ Unanchored(program, w, w.names[e.dest])
          /\ w.names[e.path] # w.names[k] /\ w.names[k] # NoObj
      BY <1>3, <1>5, <2>2, <3>1, <3>2, <3>4
    <3> QED
      BY <1>1, <1>3, <1>4, <2>0, <2>2, <3>3, <3>5 DEF WorkNames, MovingNames, MakesEntry
  <2> QED
    BY <2>1, <2>2
<1>11. CASE WorkVerify(k)
  <2>1. stage = "landed" /\ stage' \in {"verified", "undoing"} /\ world' = world
    BY <1>11 DEF WorkVerify
  <2> QED
    BY <1>1, <1>3, <2>1 DEF WorkNames, MovingNames, BuildingNames, Unanchored, MakesEntry, Free
<1>12. CASE WorkWithdraw(k)
  <2>1. /\ stage = "refusing" /\ stage' = "failed" /\ w.names[k] = NoObj
        /\ SameElse(world, w, {k})
    BY <1>4, <1>12 DEF WorkWithdraw
  <2>2. CASE e.kind = "move"
    <3>1. world.names[e.dest] # world.names[k]
      BY <1>1, <1>3, <2>1, <2>2 DEF WorkNames, MovingNames
    <3>2. world.names[e.path] # world.names[e.dest] \/ world.names[e.path] = NoObj
      BY <1>1, <1>2, <1>3, <2>2 DEF NoneShared
    <3>3. NamesOK(program, w, j)
      BY <1>1, <1>3, <1>4, <2>1, <2>2, <3>1, <3>2, AnchorDropped
    <3> QED
      BY <1>1, <1>3, <1>4, <2>1, <2>2, <3>3 DEF WorkNames, MovingNames, BuildingNames
  <2>3. CASE e.kind # "move"
    <3>1. SameElse(world, w, {k, e.path}) /\ w.names[e.path] = world.names[e.path]
      BY <1>2, <2>1 DEF SameElse
    <3>2. NamesOK(program, w, j)
      BY <1>1, <1>3, <2>1, <2>3, <3>1, OwnNamesMove
    <3> QED
      BY <1>1, <1>3, <1>4, <2>1, <2>3, <3>2 DEF WorkNames, MovingNames, BuildingNames
  <2> QED
    BY <2>2, <2>3
<1>13. CASE WorkUndo(k)
  <2>0. stage = "undoing" /\ stage' = "failed"
    BY <1>13 DEF WorkUndo
  <2>1. NamesOK(program, w, j)
    <3>1. CASE e.kind = "move"
      <4>1. /\ world.names[e.dest] # NoObj /\ world.names[e.path] = NoObj
            /\ w.names[e.path] = world.names[e.dest] /\ w.names[e.dest] = NoObj
            /\ SameElse(world, w, {e.dest, e.path})
        BY <1>1, <1>4, <1>13, <3>1 DEF WorkUndo, Operated, SameElse
      <4>2. world.names[e.dest] = world.names[k] \/ Unanchored(program, world, world.names[e.dest])
        BY <1>1, <1>3, <2>0, <3>1 DEF WorkNames, MovingNames
      <4> QED
        BY <1>1, <1>2, <1>3, <3>1, <4>1, <4>2, PathsRenamed
    <3>2. CASE e.kind # "move"
      <4>1. /\ SameElse(world, w, {k, e.path})
            /\ w.names[e.path] \in {NoObj, world.names[k]}
            /\ \/ w.names[k] = NoObj
               \/ w.names[k] = world.names[e.path] /\ w.names[e.path] = world.names[k]
        BY <1>1, <1>4, <1>13, <3>2 DEF WorkUndo, Operated
      <4>2. w.names[k] = w.names[e.path] => w.names[k] = NoObj
        BY <1>2, <1>3, <3>2, <4>1 DEF NoneShared
      <4> QED
        BY <1>1, <1>3, <3>2, <4>1, <4>2, OwnNamesMove
    <3> QED
      BY <3>1, <3>2
  <2> QED
    BY <1>4, <2>0, <2>1 DEF WorkNames, MovingNames, BuildingNames
<1>14. CASE WorkFail(k)
  <2>1. world' = world /\ (stage' = "failed" \/ (e.kind # "move" /\ stage' = "refusing"))
    BY <1>1, <1>14 DEF WorkFail
  <2> QED
    BY <1>1, <1>3, <2>1 DEF WorkNames, MovingNames, BuildingNames
<1> QED
  BY <1>6, <1>7, <1>8, <1>9, <1>10, <1>11, <1>12, <1>13, <1>14 DEF WorkStep

-----------------------------------------------------------------------------
(* A system call of an effect keeps every name accounted for.              *)

\* A system call of the effect that is being applied keeps AnchorInv.
LEMMA ApplyAnchor ==
  ASSUME EngineInv, CommitInv, RecordShape, AnchorInv, NEW k \in Effects, ApplyEffect(k)
  PROVE  AnchorInv'
<1>1. /\ pc = "apply" /\ journals[active][k] = "started"
      /\ UNCHANGED <<vars, program, steps, bounded>> /\ OthersKept(world, world', k)
  BY ApplyEffectFiles DEF EngineInv, FilesInv, FilesOf
<1>2. active \in Txns
  BY <1>1, ActiveRecord DEF EngineInv
<1>3. /\ Formed(program) /\ Solid(world) /\ Top(world, journals[active], k)
      /\ \A i \in Effects : journals[active][i] \in Open => i = k
      /\ \A t \in Txns : t = active
      /\ program[k].kind = "move" => program[k].path # program[k].dest
  BY <1>1, <1>2, OpenTop DEF Open
<1>4. /\ Live /\ NamesOK(program, world, journals[active]) /\ WorkNames(k)
      /\ FreshUnused(world, outside) /\ MakersClear(program, world, journals[active])
      /\ NoneShared(program, world) /\ plan = "none"
      /\ stage = "begin" => Unused(world, k)
  BY <1>1, ApplyFacts
<1>5. WorkStep(k)
  BY WorkSteps DEF AnchorInv
<1>6. NamesOK(program, world', journals[active]) /\ WorkNames(k)'
  BY <1>1, <1>3, <1>4, <1>5, WorkNamesKept
<1>7. FreshUnused(world', outside)
  <2>1. Apart(world) /\ (Applying(k, "begin") => Nowhere(k)) /\ BuildInv
    BY <1>1, <1>2 DEF CommitInv, ApartInv, UnusedInv, Early, Forward
  <2>2. \A s \in Named : \/ world'.names[s] = NoObj \/ world'.names[s] = k
                         \/ \E r \in Named : world'.names[s] = world.names[r]
    BY <2>1, ApplyContained DEF EngineInv, FilesInv, AppliedBy, Contained
  <2>3. ASSUME NEW n \in (N + outside + 1)..(N + MaxOutside), NEW s \in Named, world'.names[s] = n
        PROVE  FALSE
    <3>1. outside \in Nat /\ N \in Nat /\ MaxOutside \in Nat
      BY BoundsAssumption, NAssumption DEF EngineInv, FilesInv
    <3>2. n > k /\ n \in 1..(N + MaxOutside)
      BY <3>1 DEF Effects
    <3>3. n # NoObj /\ n # k
      BY <3>1, <3>2, NamesAssumption DEF Objects, Effects
    <3> QED
      BY <1>4, <2>2, <2>3, <3>3 DEF FreshUnused, Unused, Named
  <2> QED
    BY <2>3 DEF FreshUnused, Unused, Named
<1>8. MakersClear(program, world', journals[active])
  BY <1>1, <1>4 DEF MakersClear, OthersKept, Free
<1>9. NamesInv'
  BY <1>1, <1>3, <1>6, <1>7, <1>8 DEF NamesInv, bounded, outsider, vars, store
<1>10. WorkInv'
  BY <1>1, <1>3, <1>6 DEF WorkInv, vars, store, process, Open
<1>11. UndoInv'
  BY <1>1, <1>4 DEF UndoInv, vars, process
<1> QED
  BY <1>9, <1>10, <1>11 DEF AnchorInv

-----------------------------------------------------------------------------
(* What is known of the effect whose record, or whose undoing, moves.      *)

\* A state of an effect in the record moves.
LEMMA RecordsForward ==
  ASSUME EngineInv, RecordShape, NEW k \in Effects, EStartEffect(k) \/ EFinishEffect(k)
  PROVE  /\ active \in Txns /\ \A t \in Txns : t = active
         /\ UNCHANGED <<program, world, steps, outside, touched, active, state>>
         /\ plan = "none" /\ plan' = "none" /\ stage' = "begin"
         /\ \A i \in Effects \ {k} : journals'[active][i] = journals[active][i]
         /\ EStartEffect(k) => /\ pc' = "apply" /\ journals'[active][k] = "started"
                               /\ journals[active][k] = "pending"
                               /\ \A i \in Effects : i < k => journals[active][i] = "done"
         /\ EFinishEffect(k) => /\ pc = "apply" /\ pc' = "effects" /\ stage = "verified"
                                /\ journals[active][k] = "started"
                                /\ journals'[active][k] = "done"
<1>1. active \in Txns /\ \A t \in Txns : t = active
  BY ActiveRecord DEF EngineInv, EStartEffect, EFinishEffect, StartEffect, FinishEffect
<1>2. plan = "none"
  BY DEF EngineInv, ProtocolInv, PointInv, EStartEffect, EFinishEffect, StartEffect, FinishEffect
<1>3. CASE EStartEffect(k)
  <2>1. SetJournal(active, k, "started") /\ pc = "effects" /\ journals[active][k] = "pending"
        /\ \A i \in Effects : i < k => journals[active][i] = "done"
    BY <1>3 DEF EStartEffect, StartEffect
  <2>2. /\ journals'[active][k] = "started"
        /\ \A i \in Effects \ {k} : journals'[active][i] = journals[active][i]
    BY <1>1, <2>1, RecordsIs DEF EngineInv, JournalStates
  <2>3. /\ UNCHANGED <<program, world, steps, outside, touched, active, state, plan>>
        /\ pc' = "apply" /\ stage' = "begin" /\ ~EFinishEffect(k)
    BY <1>3, <2>1 DEF EStartEffect, EFinishEffect, FinishEffect, StartEffect, SetJournal, Goto,
                      ToStage, Rest, bounded, outsider
  <2> QED
    BY <1>1, <1>2, <2>1, <2>2, <2>3
<1>4. CASE EFinishEffect(k)
  <2>1. SetJournal(active, k, "done") /\ pc = "apply" /\ journals[active][k] = "started"
        /\ stage = "verified"
    BY <1>4 DEF EFinishEffect, FinishEffect
  <2>2. /\ journals'[active][k] = "done"
        /\ \A i \in Effects \ {k} : journals'[active][i] = journals[active][i]
    BY <1>1, <2>1, RecordsIs DEF EngineInv, JournalStates
  <2>3. /\ UNCHANGED <<program, world, steps, outside, touched, active, state, plan>>
        /\ pc' = "effects" /\ stage' = "begin" /\ ~EStartEffect(k)
    BY <1>4, <2>1 DEF EStartEffect, EFinishEffect, FinishEffect, StartEffect, SetJournal, Goto,
                      ToStage, Rest, bounded, outsider
  <2> QED
    BY <1>1, <1>2, <2>1, <2>2, <2>3
<1> QED
  BY <1>3, <1>4

\* The two steps of the record that open and close the undo of an effect.
LEMMA RecordsBackward ==
  ASSUME EngineInv, RecordShape, NEW k \in Effects,
         Quiet(PersistUndoStarted(k)) \/ EPersistUndone(k)
  PROVE  /\ active \in Txns /\ \A t \in Txns : t = active
         /\ UNCHANGED <<program, world, steps, outside, touched, active, state, pc, plan, stage>>
         /\ pc = "plan" /\ plan = "rollback" /\ stage = "authorize" /\ Live
         /\ RollbackCursor(journals[active], k)
         /\ \A i \in Effects \ {k} : journals'[active][i] = journals[active][i]
         /\ Quiet(PersistUndoStarted(k)) => /\ journals[active][k] \in {"started", "done"}
                                            /\ journals'[active][k] = "undo_started"
         /\ EPersistUndone(k) => /\ steps[k] = <<>> /\ journals[active][k] = "undo_started"
                                 /\ journals'[active][k] = "undone"
<1>1. /\ pc = "plan" /\ plan = "rollback" /\ state[active] = "rolling_back"
      /\ RollbackCursor(journals[active], k)
      /\ UNCHANGED <<program, world, steps, outside, touched, active, state, pc, plan, stage>>
  BY DEF Quiet, EPersistUndone, PersistUndoStarted, PersistUndone, SetJournal, process, files,
         Rest, bounded, outsider
<1>2. active \in Txns /\ (\A t \in Txns : t = active) /\ Live
  BY <1>1, ActiveRecord DEF EngineInv, Live
<1>3. PICK s \in {"undo_started", "undone"} :
        /\ SetJournal(active, k, s)
        /\ s = "undo_started" => journals[active][k] \in {"started", "done"}
        /\ s = "undone" => steps[k] = <<>> /\ journals[active][k] = "undo_started"
        /\ Quiet(PersistUndoStarted(k)) => s = "undo_started"
        /\ EPersistUndone(k) => s = "undone"
  BY DEF Quiet, EPersistUndone, PersistUndoStarted, PersistUndone
<1>4. /\ journals'[active][k] = s
      /\ \A i \in Effects \ {k} : journals'[active][i] = journals[active][i]
  BY <1>2, <1>3, RecordsIs DEF EngineInv, JournalStates
<1>5. ASSUME NEW i \in Effects, Due(i) PROVE FALSE
  <2>1. RollbackCursor(journals[active], i) /\ journals[active][i] = "undo_started" /\ steps[i] # <<>>
    BY <1>1, <1>5 DEF Due
  <2>2. ~(i > k) /\ ~(k > i)
    BY <1>1, <2>1 DEF RollbackCursor
  <2>3. i = k
    BY <2>2 DEF Effects
  <2> QED
    BY <1>3, <2>1, <2>3
<1>6. stage = "authorize"
  BY <1>1, <1>5 DEF RecordShape
<1> QED
  BY <1>1, <1>2, <1>3, <1>4, <1>6

\* The step that is due undoes the effect whose undo is open, as it should.
LEMMA DueSound ==
  ASSUME EngineInv, RecordShape, SoundInv, NEW k \in Effects, Due(k), plan = "rollback"
  PROVE  /\ pc = "plan" /\ active \in Txns /\ (\A t \in Txns : t = active) /\ Live
         /\ journals[active][k] = "undo_started"
         /\ Sound(program[k], k, Step(k))
         /\ program[k].kind = "move" /\ Step(k).op # "drop" => steps[k] # <<Step(k)>>
<1>1. /\ pc = "plan" /\ state[active] = "rolling_back" /\ journals[active][k] = "undo_started"
      /\ steps[k] # <<>>
  BY DEF Due
<1>2. active \in Txns /\ (\A t \in Txns : t = active) /\ Live
  BY <1>1, ActiveRecord DEF EngineInv, Live
<1>3. PICK q : q = steps[k]
  OBVIOUS
<1>4. SoundPlan(program[k], k, q)
  BY <1>1, <1>3 DEF SoundInv
<1>5. /\ Sound(program[k], k, Step(k))
      /\ program[k].kind = "move" /\ Step(k).op # "drop" => steps[k] # <<Step(k)>>
  <2>1. CASE q = <<q[1]>> /\ Sound(program[k], k, q[1]) /\ (program[k].kind = "move" => q[1].op = "drop")
    <3>1. PICK x : x = q[1]
      OBVIOUS
    <3>2. Step(k) = x
      <4>1. Head(<<x>>) = x
        OBVIOUS
      <4> QED
        BY <1>3, <2>1, <3>1, <4>1 DEF Step
    <3> QED
      BY <2>1, <3>1, <3>2
  <2>2. CASE q = <<q[1], q[2]>> /\ Sound(program[k], k, q[1])
    <3>1. PICK x : x = q[1]
      OBVIOUS
    <3>2. PICK y : y = q[2]
      OBVIOUS
    <3>3. Step(k) = x
      <4>1. Head(<<x, y>>) = x
        OBVIOUS
      <4> QED
        BY <1>3, <2>2, <3>1, <3>2, <4>1 DEF Step
    <3>4. <<x, y>> # <<x>>
      OBVIOUS
    <3> QED
      BY <1>3, <2>2, <3>1, <3>2, <3>3, <3>4
  <2> QED
    BY <1>1, <1>3, <1>4, <2>1, <2>2 DEF SoundPlan
<1> QED
  BY <1>1, <1>2, <1>5

\* One effect at a time is taken back.
LEMMA DueAlone ==
  ASSUME NEW i \in Effects, NEW k \in Effects, Due(i), Due(k), plan = "rollback"
  PROVE  i = k
<1>1. ~(i > k) /\ ~(k > i)
  BY DEF Due, RollbackCursor
<1> QED
  BY <1>1 DEF Effects

\* What executing the step that is due does.
LEMMA MutateIs ==
  ASSUME EngineInv, RecordShape, SoundInv, NEW k \in Effects, MutateStep(k), plan = "rollback"
  PROVE  /\ Due(k) /\ stage = "mutate" /\ UNCHANGED <<vars, program, steps, bounded>>
         /\ OthersKept(world, world', k) /\ Solid(world')
         /\ \/ world' = world /\ stage' = "reconsider"
            \/ /\ stage' = "confirm" /\ Possible(program, world, Step(k).op, k)
               /\ Operated(world, world', program[k], k, Step(k).op)
<1>1. /\ Due(k) /\ stage = "mutate" /\ UNCHANGED <<vars, program, steps, bounded>>
      /\ OthersKept(world, world', k) /\ Solid(world')
  BY MutateFiles DEF EngineInv, FilesInv, MutateStep
<1>2. CASE Possible(program, world, Step(k).op, k)
  <2>1. world' = Apply(program, world, Step(k).op, k) /\ stage' = "confirm"
    BY <1>2 DEF MutateStep, Work
  <2>2. Sound(program[k], k, Step(k))
    BY <1>1, DueSound
  <2>3. /\ Formed(program) /\ Solid(world)
        /\ (program[k].kind = "move" => program[k].path # program[k].dest)
    BY DEF EngineInv, FilesInv, ProgramOK, Formed, RecordShape, Compiles
  <2>4. program[k].kind \in {"create", "mkdir", "delete", "move", "replace"}
    BY <2>3 DEF Formed, WellFormed, Kinds
  <2>5. /\ Step(k).op \in SettlementOps
        /\ Step(k).op = "move_back" => program[k].path # program[k].dest
    BY <2>2, <2>3, <2>4, SettlementOpsAre DEF Sound
  <2>6. Operated(world, world', program[k], k, Step(k).op)
    BY <1>2, <2>1, <2>3, <2>5, OperatedIs
  <2> QED
    BY <1>1, <1>2, <2>1, <2>6
<1>3. CASE ~Possible(program, world, Step(k).op, k)
  BY <1>1, <1>3 DEF MutateStep, Work
<1> QED
  BY <1>2, <1>3

-----------------------------------------------------------------------------
(* The names stay accounted for.                                           *)

\* Beginning an effect and recording it as done keep AnchorInv.
LEMMA FinishAnchor ==
  ASSUME EngineInv, CommitInv, RecordShape, AnchorInv, Live' => Live,
         NEW k \in Effects, EStartEffect(k) \/ EFinishEffect(k)
  PROVE  AnchorInv'
<1>1. /\ active \in Txns /\ \A t \in Txns : t = active
      /\ UNCHANGED <<program, world, steps, outside, touched, active, state>>
      /\ plan = "none" /\ plan' = "none" /\ stage' = "begin"
      /\ \A i \in Effects \ {k} : journals'[active][i] = journals[active][i]
      /\ EStartEffect(k) => /\ pc' = "apply" /\ journals'[active][k] = "started"
                            /\ journals[active][k] = "pending"
      /\ EFinishEffect(k) => /\ pc = "apply" /\ pc' = "effects" /\ stage = "verified"
                             /\ journals[active][k] = "started"
                             /\ journals'[active][k] = "done"
  BY RecordsForward
<1>2. Formed(program)
  BY DEF EngineInv, FilesInv, ProgramOK, Formed
<1>3. Live => NamesOK(program, world, journals'[active])
  <2>1. CASE EStartEffect(k)
    BY <1>1, <2>1, NamesUndone DEF AnchorInv, NamesInv, Open
  <2>2. CASE EFinishEffect(k)
    <3>1. /\ NamesOK(program, world, journals[active]) /\ WorkNames(k)
          /\ NoneShared(program, world)
      BY <1>1, <2>2, ApplyFacts
    <3>2. Top(world, journals[active], k)
      BY <1>1, <2>2, OpenTop DEF Open
    <3>3. k \in Movers(program) =>
            world.names[k] # NoObj /\ world.names[program[k].path] # world.names[k]
      BY <1>1, <2>2, <3>1 DEF WorkNames, MovingNames
    <3> QED
      BY <1>1, <1>2, <2>2, <3>1, <3>2, <3>3, NamesDone
  <2> QED
    BY <2>1, <2>2
<1>4. Live => MakersClear(program, world, journals'[active])
  <2>1. ASSUME Live, NEW i \in Effects, journals'[active][i] = "done", MakesEntry(program[i])
        PROVE  Free(world, i)
    <3>1. CASE journals[active][i] = "done"
      BY <1>1, <2>1, <3>1 DEF AnchorInv, NamesInv, MakersClear
    <3>2. CASE journals[active][i] # "done"
      <4>1. i = k /\ EFinishEffect(k)
        BY <1>1, <2>1, <3>2
      <4> QED
        BY <1>1, <2>1, <4>1, ApplyFacts DEF WorkNames
    <3> QED
      BY <3>1, <3>2
  <2> QED
    BY <2>1 DEF MakersClear
<1>5. NamesInv'
  BY <1>1, <1>3, <1>4 DEF NamesInv, AnchorInv
<1>6. WorkInv'
  BY <1>1 DEF WorkInv, WorkNames, MovingNames, BuildingNames
<1>7. UndoInv'
  BY <1>1 DEF UndoInv
<1> QED
  BY <1>5, <1>6, <1>7 DEF AnchorInv

\* Opening and closing the undo of an effect keep AnchorInv.
LEMMA UndoneAnchor ==
  ASSUME EngineInv, RecordShape, AnchorInv,
         NEW k \in Effects, Quiet(PersistUndoStarted(k)) \/ EPersistUndone(k)
  PROVE  AnchorInv'
<1>1. /\ active \in Txns /\ \A t \in Txns : t = active
      /\ UNCHANGED <<program, world, steps, outside, touched, active, state, pc, plan, stage>>
      /\ pc = "plan" /\ plan = "rollback" /\ stage = "authorize" /\ Live
      /\ \A i \in Effects \ {k} : journals'[active][i] = journals[active][i]
      /\ Quiet(PersistUndoStarted(k)) => journals'[active][k] = "undo_started"
      /\ EPersistUndone(k) => steps[k] = <<>> /\ journals'[active][k] = "undone"
  BY RecordsBackward
<1>2. EPersistUndone(k) => world.names[k] = NoObj
  <2>1. ASSUME NEW x PROVE <<x>> # <<>>
    OBVIOUS
  <2>2. ASSUME NEW x, NEW y PROVE <<x, y>> # <<>>
    OBVIOUS
  <2> QED
    BY <1>1, <2>1, <2>2 DEF EngineInv, FilesInv, PlanInv, Clearing, Free
<1>3. NamesOK(program, world, journals'[active])
  BY <1>1, <1>2, NamesUndone DEF AnchorInv, NamesInv, Open
<1>4. MakersClear(program, world, journals'[active])
  BY <1>1 DEF AnchorInv, NamesInv, MakersClear
<1> QED
  BY <1>1, <1>3, <1>4 DEF AnchorInv, NamesInv, WorkInv, UndoInv

(* The step that is authorized finds the names it was planned for          *)
(* (AuthorizeStep compares the joint observation), and confirming it keeps *)
(* AnchorInv.                                                              *)
LEMMA AuthorizeAnchor ==
  ASSUME EngineInv, RecordShape, SoundInv, AnchorInv, NEW k \in Effects,
         AuthorizeStep(k) \/ ConfirmStep(k)
  PROVE  AnchorInv'
<1>1. /\ UNCHANGED <<program, world, outside, touched, journals, active, state, pc, plan>>
      /\ pc = "plan" /\ Due(k)
  BY DEF AuthorizeStep, ConfirmStep, Work, Due, Rest, bounded, outsider, vars, store
<1>2. Live' <=> Live
  BY <1>1 DEF Live
<1>3. NamesInv' /\ WorkInv'
  BY <1>1, <1>2 DEF AnchorInv, NamesInv, WorkInv
<1>4. UndoInv'
  <2>1. CASE ConfirmStep(k)
    BY <2>1 DEF ConfirmStep, UndoInv
  <2>2. CASE AuthorizeStep(k) /\ plan = "rollback"
    <3>1. steps' = steps /\ AsExpected(k) /\ stage' = "mutate"
      BY <2>2 DEF AuthorizeStep, Work
    <3>2. ASSUME NEW i \in Movers(program), Due(i)'
          PROVE  UndoingNames(i)'
      <4>1. Due(i) /\ i \in Effects
        BY <1>1, <3>1, <3>2 DEF Due, Movers
      <4>2. i = k
        BY <1>1, <2>2, <4>1, DueAlone
      <4>3. Sound(program[k], k, Step(k))
        BY <1>1, <2>2, DueSound
      <4>4. program[k].kind = "move"
        BY <3>2, <4>2 DEF Movers
      <4>5. PICK e : e = program[k]
        OBVIOUS
      <4>6. PICK s : s = Step(k)
        OBVIOUS
      <4>7. s.slots = {e.path, e.dest, k} /\ Joint(program, world, s.slots) = s.before
        BY <3>1, <4>3, <4>5, <4>6 DEF Sound, Touches, AsExpected
      <4>8. /\ \A x \in {e.path, e.dest, k} : s.before.states[x] = At(world, x)
            /\ \A x, y \in {e.path, e.dest, k} : <<x, y>> \in s.before.same <=> SameObject(world, x, y)
        <5>1. PICK S : S = {e.path, e.dest, k}
          OBVIOUS
        <5>2. s.before.states = [x \in S |-> At(world, x)]
              /\ s.before.same = {x \in S \X S : SameObject(world, x[1], x[2])}
          BY <4>7, <5>1 DEF Joint
        <5>3. \A x \in S : s.before.states[x] = At(world, x)
          BY <5>2
        <5>4. \A x, y \in S : <<x, y>> \in s.before.same <=> SameObject(world, x, y)
          BY <5>2
        <5> QED
          BY <5>1, <5>3, <5>4
      <4>9. s.op = "move_back" => /\ world.names[e.dest] = world.names[k]
                                   /\ world.names[k] # NoObj
        BY <4>3, <4>4, <4>5, <4>6, <4>8 DEF Sound, SameObject
      <4>10. s.op = "relink" => world.names[e.dest] # world.names[k] \/ world.names[k] = NoObj
        <5>1. s.op = "relink" => At(world, e.dest) = "absent"
          BY <4>3, <4>4, <4>5, <4>6, <4>8 DEF Sound
        <5>2. Solid(world) /\ e.dest \in Named
          BY <4>5, NamesAre DEF EngineInv, FilesInv, ProgramOK, Formed
        <5> QED
          BY <5>1, <5>2, FreeIsAbsent DEF Free
      <4>11. s.op = "drop" => /\ world.names[e.dest] # world.names[k] \/ world.names[k] = NoObj
                              /\ world.names[e.path] = world.names[k]
        BY <4>3, <4>4, <4>5, <4>6, <4>8 DEF Sound, SameObject, At
      <4> QED
        BY <1>1, <3>1, <4>2, <4>5, <4>6, <4>9, <4>10, <4>11 DEF UndoingNames, Step
    <3> QED
      BY <1>1, <3>1, <3>2 DEF UndoInv
  <2> QED
    BY <1>1, <2>1, <2>2 DEF UndoInv
<1> QED
  BY <1>3, <1>4 DEF AnchorInv

\* Executing the step that is due keeps AnchorInv.
LEMMA MutateAnchor ==
  ASSUME EngineInv, RecordShape, SoundInv, AnchorInv, NEW k \in Effects, MutateStep(k)
  PROVE  AnchorInv'
<1>1. /\ Due(k) /\ UNCHANGED <<vars, program, steps, bounded>> /\ OthersKept(world, world', k)
      /\ stage' \in {"confirm", "reconsider"} /\ pc = "plan"
  BY MutateFiles DEF EngineInv, FilesInv, Due
<1>2. WorkInv' /\ (plan # "rollback" \/ stage' = "reconsider" => UndoInv')
  BY <1>1 DEF WorkInv, UndoInv, vars, process
<1>3. CASE plan # "rollback"
  <2>1. active \in Txns /\ state[active] = "committed"
    BY <1>1, <1>3, ActiveRecord DEF EngineInv, ProtocolInv, PointInv, Due
  <2>2. ~Live'
    BY <1>1, <2>1 DEF Live, vars
  <2> QED
    BY <1>2, <1>3, <2>2 DEF AnchorInv, NamesInv
<1>4. CASE plan = "rollback" /\ world' = world /\ stage' = "reconsider"
  BY <1>1, <1>2, <1>4 DEF AnchorInv, NamesInv, Live, vars, bounded, outsider
<1>5. CASE /\ plan = "rollback" /\ stage' = "confirm" /\ stage = "mutate"
            /\ Operated(world, world', program[k], k, Step(k).op)
  <2>1. /\ active \in Txns /\ (\A t \in Txns : t = active) /\ Live
        /\ journals[active][k] = "undo_started" /\ Sound(program[k], k, Step(k))
    BY <1>1, <1>5, DueSound
  <2>2. /\ stage = "mutate" /\ Operated(world, world', program[k], k, Step(k).op)
    BY <1>5
  <2>3. /\ Formed(program) /\ Solid(world) /\ Top(world, journals[active], k)
        /\ \A i \in Effects : journals[active][i] \in Open => i = k
        /\ program[k].kind = "move" => program[k].path # program[k].dest
    BY <2>1, OpenTop DEF Open
  <2>4. PICK e, w, j, op : e = program[k] /\ w = world' /\ j = journals[active] /\ op = Step(k).op
    OBVIOUS
  <2>5. /\ NamesOK(program, world, j) /\ FreshUnused(world, outside)
        /\ MakersClear(program, world, j)
    BY <2>1, <2>4 DEF AnchorInv, NamesInv
  <2>6. /\ e.path \in Paths /\ e.dest \in Paths /\ (e.kind # "move" => e.dest = e.path)
        /\ e.path \in Named /\ e.dest \in Named /\ k \in Named
        /\ Touches(e) = {e.path, e.dest} /\ e.path # k /\ e.dest # k
        /\ e.kind \in {"create", "mkdir", "delete", "move", "replace"}
        /\ Movers(program) \subseteq Effects
    <3>1. e.kind \in {"create", "mkdir", "delete", "move", "replace"}
      BY <2>3, <2>4 DEF Formed, WellFormed, Kinds
    <3> QED
      BY <2>3, <2>4, <3>1, NamesAre
  <2>7. /\ k \in Movers(program) <=> e.kind = "move"
        /\ e.kind # "move" => k \in HoldersOf(program) /\ k \in Effects \ Movers(program)
        /\ e.path \in HoldersOf(program)
    BY <2>4, <2>6 DEF Movers, HoldersOf
  <2>8. NamesOK(program, w, j)
    <3>1. CASE e.kind # "move"
      <4>1. op \in {"exchange", "take", "restore", "rmdir_live", "drop"}
        BY <2>1, <2>4, <2>6, <3>1 DEF Sound
      <4>2. /\ SameElse(world, w, {k, e.path})
            /\ w.names[k] \in {NoObj, world.names[k], world.names[e.path]}
            /\ w.names[e.path] \in {NoObj, world.names[k], world.names[e.path]}
            /\ \/ w.names[k] = NoObj \/ w.names[e.path] = NoObj
               \/ w.names[k] = world.names[e.path] /\ w.names[e.path] = world.names[k]
        BY <2>2, <2>4, <2>6, <4>1 DEF Operated, SameElse
      <4>3. world.names[k] = world.names[e.path] => world.names[k] = NoObj
        <5>1. ASSUME world.names[k] = world.names[e.path], world.names[k] # NoObj PROVE FALSE
          <6>1. PICK i \in Movers(program) : j[i] \in Open
            BY <2>5, <2>6, <2>7, <3>1, <5>1 DEF NamesOK, Distinct, SplitBy
          <6> QED
            BY <2>3, <2>4, <2>6, <2>7, <3>1, <6>1
        <5> QED
          BY <5>1
      <4> QED
        BY <2>3, <2>4, <2>5, <2>7, <3>1, <4>2, <4>3, OwnNamesMove
    <3>2. CASE e.kind = "move"
      <4>1. op \in {"move_back", "relink", "drop_destination", "drop"}
        BY <2>1, <2>4, <3>2 DEF Sound
      <4>2. UndoingNames(k)
        BY <1>1, <1>5, <2>2, <2>7, <3>2 DEF AnchorInv, UndoInv
      <4>3. CASE op = "move_back"
        <5>1. /\ world.names[e.path] = NoObj /\ SameElse(world, w, {e.dest, e.path})
              /\ w.names[e.path] = world.names[e.dest] /\ w.names[e.dest] = NoObj
          BY <2>2, <2>4, <4>3 DEF Operated, SameElse
        <5>2. world.names[e.dest] = world.names[k] \/ Unanchored(program, world, world.names[e.dest])
          BY <2>4, <4>2, <4>3 DEF UndoingNames
        <5>3. /\ e.dest \in Touches(program[k]) /\ e.path \in Touches(program[k])
              /\ e.dest # e.path /\ k \in Movers(program) /\ Top(world, j, k)
          BY <2>3, <2>4, <2>6, <2>7, <3>2
        <5> QED
          BY <2>3, <2>5, <5>1, <5>2, <5>3, PathsRenamed
      <4>4. CASE op \in {"relink", "drop_destination"}
        <5>0. PICK o : o = NoObj /\ Unanchored(program, world, o)
          BY DEF Unanchored
        <5>1. /\ SameElse(world, w, Touches(e))
              /\ \A s \in Touches(e) : w.names[s] \in {NoObj, o, world.names[s], world.names[k]}
              /\ \E x \in Touches(e) : o \in {NoObj, world.names[x]}
          BY <2>2, <2>4, <2>6, <4>4, <5>0 DEF Operated, SameElse
        <5> QED
          BY <2>3, <2>4, <2>5, <2>7, <3>2, <5>0, <5>1, PathsSpread
      <4>5. CASE op = "drop"
        <5>1. SameElse(world, w, {k}) /\ w.names[k] = NoObj
          BY <2>2, <2>4, <4>5 DEF Operated
        <5>2. world.names[k] # NoObj => world.names[e.dest] # world.names[k]
          BY <2>4, <4>2, <4>5 DEF UndoingNames
        <5>3. world.names[e.path] # world.names[e.dest] \/ world.names[e.path] = NoObj
          BY <2>4, <4>2, <4>5 DEF UndoingNames
        <5> QED
          BY <2>3, <2>4, <2>5, <2>7, <3>2, <5>1, <5>2, <5>3, AnchorDropped
      <4> QED
        BY <4>1, <4>3, <4>4, <4>5
    <3> QED
      BY <3>1, <3>2
  <2>9. FreshUnused(w, outside)
    <3>1. op \in {"exchange", "take", "restore", "rmdir_live", "drop", "move_back", "relink",
                  "drop_destination"}
      BY <2>1, <2>4, <2>6 DEF Sound
    <3>2. ASSUME NEW s \in Named
          PROVE  w.names[s] = NoObj \/ \E r \in Named : w.names[s] = world.names[r]
      BY <2>2, <2>4, <2>6, <3>1 DEF Operated, SameElse
    <3>3. ASSUME NEW n \in (N + outside + 1)..(N + MaxOutside) PROVE n # NoObj
      <4>1. outside \in Nat /\ N \in Nat /\ MaxOutside \in Nat
        BY BoundsAssumption, NAssumption DEF EngineInv, FilesInv
      <4>2. n \in 1..(N + MaxOutside)
        BY <4>1
      <4> QED
        BY <4>2, NamesAssumption DEF Objects
    <3> QED
      BY <2>5, <3>2, <3>3 DEF FreshUnused, Unused, Named
  <2>10. MakersClear(program, w, j)
    BY <1>1, <2>1, <2>4, <2>5 DEF MakersClear, OthersKept, Free
  <2>11. UndoInv'
    <3>1. \A i \in Movers(program) : Due(i)' => i = k
      BY <1>1, <1>5, DueAlone DEF Due, Movers, vars, store, process
    <3>2. ASSUME k \in Movers(program), op = "move_back" PROVE BackNames(k)'
      <4>1. world.names[e.dest] = world.names[k] \/ Unanchored(program, world, world.names[e.dest])
        BY <1>1, <1>5, <2>2, <2>4, <3>2 DEF AnchorInv, UndoInv, UndoingNames
      <4>2. SameElse(world, w, {e.path, e.dest}) /\ w.names[e.path] = world.names[e.dest]
        BY <2>2, <2>4, <3>2 DEF Operated
      <4>5. world.names[k] # NoObj
        BY <1>1, <1>5, <2>2, <2>4, <3>2 DEF AnchorInv, UndoInv, UndoingNames
      <4>3. \A i \in Effects : w.names[i] = world.names[i]
        BY <2>6, <4>2, SlotsApart DEF SameElse, Named
      <4>4. w.names[e.path] = w.names[k] \/ Unanchored(program, w, w.names[e.path])
        BY <2>6, <4>1, <4>2, <4>3 DEF Unanchored
      <4> QED
        BY <1>1, <2>4, <2>6, <4>3, <4>4, <4>5 DEF BackNames
    <3>3. k \in Movers(program) /\ op # "move_back" => BackNames(k)'
      BY <1>1, <2>4 DEF BackNames, Step
    <3> QED
      BY <1>1, <1>5, <2>4, <3>1, <3>2, <3>3 DEF UndoInv
  <2> QED
    BY <1>1, <1>2, <2>1, <2>4, <2>8, <2>9, <2>10, <2>11 DEF AnchorInv, NamesInv, vars, bounded, outsider
<1> QED
  BY <1>1, <1>3, <1>4, <1>5, MutateIs

(* What a power cut may leave of a rename: the object of the anchor, or    *)
(* one that no anchor names and that was moved in its place.               *)
LEMMA CutMoves ==
  ASSUME EngineInv, RecordShape, AnchorInv, Live, NEW k \in Movers(program), NEW s, NEW u, NEW o,
         CutLeaves(k, s, u, o)
  PROVE  /\ o # NoObj /\ world.names[k] # NoObj
         /\ o # world.names[k] => o = world.names[u] /\ Unanchored(program, world, o)
<1>1. PICK e : e = program[k]
  OBVIOUS
<1>2. /\ o # NoObj /\ o = world.names[IF s \in touched THEN u ELSE k] /\ k \in Effects
      /\ \/ Applying(k, "landed") /\ s = e.path /\ u = e.dest
         \/ Due(k) /\ stage = "confirm" /\ Step(k).op = "move_back" /\ s = e.dest /\ u = e.path
  BY <1>1 DEF CutLeaves, Unflushed, Movers
<1>3. world.names[k] # NoObj /\ (world.names[u] = world.names[k] \/ Unanchored(program, world, world.names[u]))
  <2>1. CASE Applying(k, "landed") /\ u = e.dest
    BY <1>1, <1>2, <2>1 DEF AnchorInv, WorkInv, WorkNames, MovingNames, Applying
  <2>2. CASE Due(k) /\ stage = "confirm" /\ Step(k).op = "move_back" /\ u = e.path
    <3>1. plan = "rollback"
      <4>1. active \in Txns
        BY <2>2, ActiveRecord DEF EngineInv, Due
      <4> QED
        BY <2>2, <4>1 DEF Due, Live, EngineInv, ProtocolInv, PointInv
    <3> QED
      BY <1>1, <2>2, <3>1 DEF AnchorInv, UndoInv, BackNames
  <2> QED
    BY <1>2, <2>1, <2>2
<1> QED
  BY <1>2, <1>3

(* A power cut that leaves each name of a rename as before or as after it  *)
(* keeps AnchorInv.                                                        *)
LEMMA PowerCutAnchor ==
  ASSUME EngineInv, RecordShape, AnchorInv, NEW k \in Effects, PowerCut(k)
  PROVE  AnchorInv'
<1>0. PICK s, u, o : CutLeaves(k, s, u, o)
  BY PowerCutFiles DEF EngineInv, FilesInv
<1>1. /\ pc' = "idle" /\ plan' = "none"
      /\ UNCHANGED <<program, outside, touched, active, state, journals>>
      /\ \A i \in Effects : world'.names[i] = world.names[i]
      /\ program[k].kind = "move" /\ pc \in {"apply", "plan"}
      /\ \/ journals[active][k] = "started"
         \/ Due(k)
  BY <1>0, PowerCutFiles
     DEF EngineInv, FilesInv, CutLeaves, PowerCut, Killed, Crash, Forget, store, outsider, Unflushed,
         Applying, Due
<1>2. WorkInv' /\ UndoInv'
  BY <1>1 DEF WorkInv, UndoInv
<1>3. active \in Txns /\ (\A t \in Txns : t = active)
  BY <1>1, ActiveRecord DEF EngineInv
<1>4. Live' <=> Live
  BY <1>1 DEF Live
<1>5. CASE ~Live
  BY <1>2, <1>4, <1>5 DEF AnchorInv, NamesInv
<1>6. CASE Live
  <2>1. journals[active][k] \in Open
    BY <1>1, <1>3, <1>6 DEF Due, Live, EngineInv, ProtocolInv, PointInv, Open
  <2>2. /\ Formed(program) /\ Solid(world) /\ Top(world, journals[active], k)
        /\ k \in Movers(program) /\ program[k].path # program[k].dest
    BY <1>1, <1>3, <2>1, OpenTop DEF Movers
  <2>3. PICK e, w, j : e = program[k] /\ w = world' /\ j = journals[active]
    OBVIOUS
  <2>4. Touches(e) \subseteq Named /\ s \in Touches(e) /\ u \in Touches(e) /\ k \in Named
        /\ Touches(e) = {s, u} /\ s \in Paths /\ u \in Paths
    BY <1>0, <2>2, <2>3, NamesAre, SlotsApart DEF CutLeaves, Named
  <2>5. /\ w.names[s] \in {NoObj, o, world.names[s]} /\ w.names[u] \in {NoObj, o, world.names[u]}
        /\ \A n \in Named \ {s, u} : w.names[n] = world.names[n]
        /\ o # NoObj /\ o \in {world.names[u], world.names[k]}
    BY <1>0, <2>3 DEF CutLeaves
  <2>6. /\ world.names[k] # NoObj
        /\ o # world.names[k] => o = world.names[u] /\ Unanchored(program, world, o)
    BY <1>0, <1>3, <1>6, <2>2, CutMoves
  <2>7. PICK m : m = IF o = world.names[k] THEN NoObj ELSE o
    OBVIOUS
  <2>8. /\ SameElse(world, w, Touches(e)) /\ Unanchored(program, world, m)
        /\ \E x \in Touches(e) : m \in {NoObj, world.names[x]}
        /\ \A x \in Touches(e) : w.names[x] \in {NoObj, m, world.names[x], world.names[k]}
    BY <2>4, <2>5, <2>6, <2>7 DEF SameElse, Unanchored
  <2>9. NamesOK(program, w, j)
    BY <1>3, <1>6, <2>2, <2>3, <2>6, <2>8, PathsSpread DEF AnchorInv, NamesInv
  <2>10. FreshUnused(w, outside)
    <3>1. ASSUME NEW x \in Named
          PROVE  w.names[x] = NoObj \/ \E r \in Named : w.names[x] = world.names[r]
      BY <2>4, <2>5
    <3>2. ASSUME NEW n \in (N + outside + 1)..(N + MaxOutside) PROVE n # NoObj
      <4>1. outside \in Nat /\ N \in Nat /\ MaxOutside \in Nat
        BY BoundsAssumption, NAssumption DEF EngineInv, FilesInv
      <4>2. n \in 1..(N + MaxOutside)
        BY <4>1
      <4> QED
        BY <4>2, NamesAssumption DEF Objects
    <3> QED
      BY <1>6, <3>1, <3>2 DEF AnchorInv, NamesInv, FreshUnused, Unused, Named
  <2>11. MakersClear(program, w, j)
    BY <1>1, <1>3, <1>6, <2>3 DEF AnchorInv, NamesInv, MakersClear, Free
  <2> QED
    BY <1>1, <1>2, <1>3, <2>3, <2>9, <2>10, <2>11 DEF AnchorInv, NamesInv
<1> QED
  BY <1>5, <1>6

(* Whether path x leads where anchor k does is not changed for the worse   *)
(* from v to w.                                                            *)
HeldApart(prog, v, w, k, x) ==
  /\ v.names[x] # v.names[k] \/ v.names[k] = NoObj =>
       w.names[x] # w.names[k] \/ w.names[k] = NoObj
  /\ v.names[x] = v.names[k] \/ Unanchored(prog, v, v.names[x]) =>
       w.names[x] = w.names[k] \/ Unanchored(prog, w, w.names[x])

\* The conditions on an open move's names hold whatever happens at a path.
LEMMA MeddledNames ==
  ASSUME NEW v, NEW w, NEW prog, Formed(prog), NEW p \in Paths, SameElse(v, w, {p}),
         w.names[p] \in {NoObj, v.names[p]} \/ Unused(v, w.names[p]),
         NEW k \in Movers(prog), NEW x \in Paths
  PROVE  HeldApart(prog, v, w, k, x)
<1>1. \A i \in Movers(prog) : w.names[i] = v.names[i] /\ i \in Effects
  BY SlotsApart DEF SameElse, Movers, Named
<1>2. k \in Named
  BY <1>1, SlotsApart
<1>3. CASE x = p /\ w.names[p] # v.names[p]
  <2>1. w.names[p] = NoObj \/ Unused(v, w.names[p])
    BY <1>3
  <2>2. Unanchored(prog, w, w.names[x])
    BY <1>1, <1>3, <2>1 DEF Unanchored, Unused
  <2>3. w.names[x] # w.names[k] \/ w.names[k] = NoObj
    BY <1>1, <1>3, <2>1 DEF Unused
  <2> QED
    BY <1>1, <2>2, <2>3 DEF HeldApart
<1>4. CASE ~(x = p /\ w.names[p] # v.names[p])
  <2>1. w.names[x] = v.names[x]
    BY <1>4 DEF SameElse, Named
  <2> QED
    BY <1>1, <2>1 DEF Unanchored, HeldApart
<1> QED
  BY <1>3, <1>4

\* The outside writer makes new objects only, and keeps AnchorInv.
LEMMA OutsideAnchor ==
  ASSUME EngineInv, CommitInv, RecordShape, SoundInv, AnchorInv, Outside
  PROVE  AnchorInv'
<1>1. PICK p : Meddled(p)
  BY Meddling DEF EngineInv, FilesInv
<1>2. /\ p \in Paths /\ outside < MaxOutside /\ outside' = outside + 1
      /\ UNCHANGED <<program, stage, steps, pc, plan, active, state, journals>>
      /\ \A s \in Named \ {p} : world'.names[s] = world.names[s]
      /\ world'.names[p] \in {NoObj, world.names[p], N + outside + 1}
  BY <1>1 DEF Meddled, vars
<1>3. Formed(program) /\ Solid(world)
  BY DEF EngineInv, FilesInv, ProgramOK, Formed
<1>4. PICK w : w = world'
  OBVIOUS
<1>5. SameElse(world, w, {p})
  BY <1>2, <1>4 DEF SameElse
<1>6. Live' <=> Live
  BY <1>2 DEF Live
<1>7. \A i \in Effects : w.names[i] = world.names[i]
  BY <1>2, <1>4, SlotsApart DEF Named
<1>8. Live => w.names[p] \in {NoObj, world.names[p]} \/ Unused(world, w.names[p])
  <2>1. outside \in Nat /\ N \in Nat /\ MaxOutside \in Nat
    BY BoundsAssumption, NAssumption DEF EngineInv, FilesInv
  <2>2. N + outside + 1 \in (N + outside + 1)..(N + MaxOutside)
    BY <1>2, <2>1
  <2> QED
    BY <1>2, <1>4, <2>2 DEF AnchorInv, NamesInv, FreshUnused
<1>9. NamesInv'
  <2>1. SUFFICES ASSUME Live PROVE NamesInv'
    BY <1>6 DEF NamesInv
  <2>2. \A t \in Txns : NamesOK(program, w, journals[t])
    BY <1>2, <1>3, <1>5, <1>8, <2>1, PathMeddled DEF AnchorInv, NamesInv
  <2>3. \A t \in Txns : MakersClear(program, w, journals[t])
    BY <1>7, <2>1 DEF AnchorInv, NamesInv, MakersClear, Free
  <2>4. FreshUnused(w, outside + 1)
    <3>1. outside \in Nat /\ N \in Nat /\ MaxOutside \in Nat
      BY BoundsAssumption, NAssumption DEF EngineInv, FilesInv
    <3>2. ASSUME NEW n \in (N + (outside + 1) + 1)..(N + MaxOutside), NEW s \in Named
          PROVE  w.names[s] # n
      <4>1. /\ n \in (N + outside + 1)..(N + MaxOutside) /\ n # N + outside + 1
            /\ n \in 1..(N + MaxOutside)
        BY <3>1, <3>2
      <4>2. n # NoObj
        BY <4>1, NamesAssumption DEF Objects
      <4>3. world.names[s] # n
        BY <2>1, <4>1 DEF AnchorInv, NamesInv, FreshUnused, Unused, Named
      <4> QED
        BY <1>2, <1>4, <4>1, <4>2, <4>3
    <3> QED
      BY <3>2 DEF FreshUnused, Unused, Named
  <2> QED
    BY <1>2, <1>4, <2>2, <2>3, <2>4 DEF NamesInv
<1>10. ASSUME NEW k \in Movers(program), Live
       PROVE  /\ w.names[k] = world.names[k]
              /\ \A x \in Paths :
                   world.names[x] # world.names[k] \/ world.names[k] = NoObj =>
                     w.names[x] # w.names[k] \/ w.names[k] = NoObj
              /\ \A x \in Paths :
                   world.names[x] = world.names[k] \/ Unanchored(program, world, world.names[x]) =>
                     w.names[x] = w.names[k] \/ Unanchored(program, w, w.names[x])
  <2>1. k \in Effects
    BY <1>10 DEF Movers
  <2>2. w.names[p] \in {NoObj, world.names[p]} \/ Unused(world, w.names[p])
    BY <1>8, <1>10
  <2>3. \A x \in Paths : HeldApart(program, world, w, k, x)
    BY <1>2, <1>3, <1>5, <2>2, <1>10, MeddledNames
  <2> QED
    BY <1>7, <2>1, <2>3 DEF HeldApart
<1>11. WorkInv'
  <2>1. ASSUME pc = "apply", NEW k \in Effects, journals[active][k] = "started"
        PROVE  WorkNames(k)'
    <3>1. /\ active \in Txns /\ Live /\ NamesOK(program, world, journals[active]) /\ WorkNames(k)
          /\ \A i \in Effects : journals[active][i] \in Open => i = k
      BY <2>1, ApplyFacts, OpenTop DEF Open
    <3>2. PICK e : e = program[k]
      OBVIOUS
    <3>3. e.path \in Paths /\ e.dest \in Paths
      BY <1>3, <3>2, NamesAre
    <3>4. CASE k \in Movers(program)
      <4>1. MovingNames(k)'
        BY <1>2, <1>4, <1>10, <3>1, <3>2, <3>3, <3>4 DEF WorkNames, MovingNames
      <4> QED
        BY <1>2, <1>4, <1>7, <3>1, <3>4, <4>1 DEF WorkNames, Free
    <3>5. CASE k \notin Movers(program)
      <4>1. world.names[k] = k => world.names[p] # k
        <5>1. ASSUME world.names[k] = k, world.names[p] = k PROVE FALSE
          <6>1. k \in HoldersOf(program) /\ p \in HoldersOf(program) /\ k # p /\ k # NoObj
            BY <1>2, <3>5, SlotsApart DEF HoldersOf
          <6>2. PICK i \in Movers(program) : journals[active][i] \in Open
            BY <3>1, <5>1, <6>1 DEF NamesOK, Distinct, SplitBy
          <6> QED
            BY <3>1, <3>5, <6>2 DEF Movers
        <5> QED
          BY <5>1
      <4>2. N + outside + 1 # k
        <5>1. outside \in Nat /\ N \in Nat
          BY NAssumption DEF EngineInv, FilesInv
        <5> QED
          BY <5>1 DEF Effects
      <4>3. world.names[k] = k => w.inode[k] = world.inode[k]
        BY <1>1, <1>4, <4>1, <4>2, SlotsApart DEF Meddled
      <4> QED
        BY <1>2, <1>4, <1>7, <3>1, <3>5, <4>3 DEF WorkNames, BuildingNames, Free
    <3> QED
      BY <3>4, <3>5
  <2> QED
    BY <1>2, <2>1 DEF WorkInv
<1>12. UndoInv'
  <2>1. ASSUME plan = "rollback", NEW k \in Movers(program), Due(k)
        PROVE  /\ stage = "mutate" => UndoingNames(k)'
               /\ stage = "confirm" => BackNames(k)'
    <3>1. k \in Effects
      BY DEF Movers
    <3>2. Live
      BY <2>1, <3>1, DueSound
    <3>3. /\ stage = "mutate" => UndoingNames(k)
          /\ stage = "confirm" => BackNames(k)
      BY <2>1 DEF AnchorInv, UndoInv
    <3>4. PICK e : e = program[k]
      OBVIOUS
    <3>5. e.path \in Paths /\ e.dest \in Paths
      BY <1>3, <3>1, <3>4, NamesAre
    <3>6. world.names[e.path] # world.names[e.dest] \/ world.names[e.path] = NoObj =>
            w.names[e.path] # w.names[e.dest] \/ w.names[e.path] = NoObj
      <4>1. \A x \in Paths : x # p => w.names[x] = world.names[x]
        BY <1>2, <1>4 DEF Named
      <4>2. \/ w.names[p] \in {NoObj, world.names[p]}
            \/ \A x \in Paths : world.names[x] # w.names[p]
        BY <1>8, <3>2 DEF Unused
      <4>3. e.path # e.dest
        BY <2>1, <3>1, <3>4 DEF RecordShape, Compiles, Movers
      <4> QED
        BY <3>5, <4>1, <4>2, <4>3
    <3>7. stage = "mutate" => UndoingNames(k)'
      BY <1>2, <1>4, <1>10, <2>1, <3>2, <3>3, <3>4, <3>5, <3>6 DEF UndoingNames, Step
    <3>8. stage = "confirm" => BackNames(k)'
      BY <1>2, <1>4, <1>10, <2>1, <3>2, <3>3, <3>4, <3>5 DEF BackNames, Step
    <3> QED
      BY <3>7, <3>8
  <2>2. \A k \in Movers(program) : Due(k)' => Due(k)
    BY <1>2 DEF Due
  <2> QED
    BY <1>2, <2>1, <2>2 DEF UndoInv
<1> QED
  BY <1>9, <1>11, <1>12 DEF AnchorInv

\* A step that touches neither files nor journals keeps AnchorInv.
LEMMA CalmAnchor ==
  ASSUME RecordShape, AnchorInv, Live' => Live, Calm
  PROVE  AnchorInv'
<1>1. NamesInv'
  BY DEF Calm, AnchorInv, NamesInv
<1>2. WorkInv'
  BY DEF Calm, AnchorInv, WorkInv, WorkNames, MovingNames, BuildingNames
<1>3. UndoInv'
  <2>1. ASSUME plan' = "rollback", NEW k \in Movers(program), Due(k)', stage' \in {"mutate", "confirm"}
        PROVE  /\ stage' = "mutate" => UndoingNames(k)'
               /\ stage' = "confirm" => BackNames(k)'
    <3>1. /\ pc = "plan" /\ plan = "rollback" /\ UNCHANGED <<program, world, steps, stage, active, journals>>
      BY <2>1 DEF Calm, Due
    <3>2. UNCHANGED state
      BY <2>1, <3>1 DEF Calm, Due, RecordShape
    <3>3. Due(k)
      BY <2>1, <3>1, <3>2 DEF Due, Calm
    <3> QED
      BY <2>1, <3>1, <3>3 DEF AnchorInv, UndoInv, UndoingNames, BackNames, Step
  <2> QED
    BY <2>1 DEF UndoInv, Calm
<1> QED
  BY <1>1, <1>2, <1>3 DEF AnchorInv

\* Classification only plans, and keeps AnchorInv.
LEMMA ClassifyAnchor ==
  ASSUME AnchorInv, Live' => Live, EClassify
  PROVE  AnchorInv'
<1>1. /\ UNCHANGED <<program, world, outside, journals>> /\ stage' = "authorize" /\ pc' = "plan"
  BY DEF EClassify, EClassifyTerminal, EClassifyHalt, EClassifyCommitted, EClassifyRollback, Planned,
     ClassifyTerminal, ClassifyHalt, ClassifyCommitted, ClassifyRollback, Adopt, store, Rest, bounded,
     outsider
<1> QED
  BY <1>1 DEF AnchorInv, NamesInv, WorkInv, UndoInv

\* AnchorInv is inductive.
LEMMA AnchorStep ==
  ASSUME EngineInv, CommitInv, RecordShape, SoundInv, AnchorInv, [ENext]_evars
  PROVE  AnchorInv'
<1>1. Live' => Live
  BY EngineStep, LiveKept DEF EngineInv, ProtocolInv
<1>2. ASSUME NEW k \in Effects, EffectStep(k) PROVE AnchorInv'
  BY <1>1, <1>2, ApplyAnchor, FinishAnchor, UndoneAnchor, AuthorizeAnchor, MutateAnchor,
     PowerCutAnchor DEF EffectStep
<1> QED
  BY <1>1, <1>2, EngineCases, CalmAnchor, ClassifyAnchor, OutsideAnchor

-----------------------------------------------------------------------------
\* At first every path names its own object and nothing else is named.
LEMMA AnchorInit == EInit => AnchorInv /\ SoundInv
<1> SUFFICES ASSUME EInit PROVE AnchorInv /\ SoundInv
  OBVIOUS
<1>1. EngineInv
  BY EngineInvInit
<1>2. /\ pc = "idle" /\ plan = "none" /\ stage = "begin" /\ world = InitialWorld(program)
      /\ outside = 0 /\ \A t \in Txns : journals[t] = [i \in Effects |-> "pending"]
  BY DEF EInit, Init
<1>3. Declared(program) \subseteq Paths
  BY <1>1 DEF EngineInv, FilesInv, ProgramOK, WellFormed, Declared
<1>4. /\ \A s \in Named : world.names[s] \in {s, NoObj}
      /\ \A s \in Named : world.names[s] # NoObj => s \in Paths
  BY <1>2, <1>3 DEF InitialWorld, Named
<1>5. \A i \in Effects : world.names[i] = NoObj
  BY <1>4, SlotsApart
<1>6. \A t \in Txns : NamesOK(program, world, journals[t])
  <2>1. Distinct(program, world, [i \in Effects |-> "pending"])
    BY <1>4 DEF Distinct, HoldersOf, Movers, Named
  <2>2. /\ Anchoring(program, world, [i \in Effects |-> "pending"])
        /\ Chained(program, world) /\ DoneAnchored(program, world, [i \in Effects |-> "pending"])
    BY <1>5 DEF Anchoring, LastAnchor, Chained, DoneAnchored, Movers
  <2> QED
    BY <1>2, <2>1, <2>2 DEF NamesOK
<1>7. FreshUnused(world, outside)
  <2>1. ASSUME NEW n \in (N + outside + 1)..(N + MaxOutside)
        PROVE  n \notin Paths /\ n # NoObj
    BY <1>2, <2>1, NamesAssumption, NAssumption, BoundsAssumption DEF Objects
  <2> QED
    BY <1>4, <2>1 DEF FreshUnused, Unused, Named
<1>8. \A t \in Txns : MakersClear(program, world, journals[t])
  BY <1>2, <1>5 DEF MakersClear, Free
<1> QED
  BY <1>2, <1>6, <1>7, <1>8 DEF AnchorInv, NamesInv, WorkInv, UndoInv, SoundInv

\* What is known before anything is said about the content of a path.
AnchorSafe == EngineInv /\ CommitInv /\ RecordShape /\ SoundInv /\ AnchorInv

\* AnchorSafe is inductive.
LEMMA AnchorSafeStep ==
  ASSUME AnchorSafe, [ENext]_evars
  PROVE  AnchorSafe'
BY EngineInvStep, CommitStep, ShapeStep, SoundStep, AnchorStep DEF AnchorSafe

\* AnchorSafe holds in every reachable state.
LEMMA AnchorAlways == ESpec => []AnchorSafe
<1>1. EInit => AnchorSafe
  BY EngineInvInit, CommitInit, ShapeInit, AnchorInit DEF AnchorSafe
<1>2. AnchorSafe /\ [ENext]_evars => AnchorSafe'
  BY AnchorSafeStep
<1> QED
  BY <1>1, <1>2, PTL DEF ESpec

-----------------------------------------------------------------------------
(* What is below an effect at a path.                                      *)

\* The first of a set of effects is one of them, and none is before it.
LEMMA FirstIs ==
  ASSUME NEW S \in SUBSET Effects, S # {}
  PROVE  First(S) \in S /\ \A k \in S : First(S) <= k
<1> DEFINE Bounded(n) == \A T \in SUBSET (1..n) : T = {} \/ \E m \in T : \A k \in T : m <= k
           Good == {n \in Nat : Bounded(n)}
<1>1. 0 \in Good
  OBVIOUS
<1>2. ASSUME NEW n \in Nat, n \in Good PROVE n + 1 \in Good
  <2>1. ASSUME NEW T \in SUBSET (1..(n + 1)), T # {}
        PROVE  \E m \in T : \A k \in T : m <= k
    <3>1. CASE T \ {n + 1} = {}
      <4>1. n + 1 \in T /\ \A k \in T : k = n + 1
        BY <2>1, <3>1
      <4> QED
        BY <4>1
    <3>2. CASE T \ {n + 1} # {}
      <4>1. T \ {n + 1} \in SUBSET (1..n)
        OBVIOUS
      <4>2. PICK m \in T \ {n + 1} : \A k \in T \ {n + 1} : m <= k
        BY <1>2, <3>2, <4>1
      <4>3. m <= n + 1
        BY <2>1, <4>2
      <4> QED
        BY <4>2, <4>3
    <3> QED
      BY <3>1, <3>2
  <2> QED
    BY <2>1
<1> HIDE DEF Good
<1>3. N \in Good
  BY <1>1, <1>2, NAssumption, SetInduction
<1>4. \E m \in S : \A k \in S : m <= k
  BY <1>3 DEF Good, Effects
<1> QED
  BY <1>4 DEF First

(* The last effect below k on a path leaves what k expects there, and if   *)
(* there is none k expects what was there at first.                        *)
LEMMA Continuity ==
  ASSUME NEW prog, Compiles(prog), NEW k \in Effects, NEW x \in Touches(prog[k])
  PROVE  StateLeft(prog, Under(prog, k, x), x) = PreAt(prog[k], x)
<1>1. PICK S : S = Under(prog, k, x)
  OBVIOUS
<1>2. S \in SUBSET Effects /\ k \in Occurrences(prog, x)
  BY <1>1 DEF Under, Occurrences
<1>3. CASE S = {}
  <2>1. PICK f : f = First(Occurrences(prog, x))
    OBVIOUS
  <2>2. f \in Occurrences(prog, x) /\ \A i \in Occurrences(prog, x) : f <= i
    BY <1>2, <2>1, FirstIs DEF Occurrences
  <2>3. f = k
    BY <1>1, <1>2, <1>3, <2>2 DEF Under, Occurrences, Effects
  <2> QED
    BY <1>1, <1>3, <2>1, <2>3 DEF StateLeft, Initial
<1>4. CASE S # {}
  <2>1. PICK m : m = Last(S)
    OBVIOUS
  <2>2. m \in S /\ \A i \in S : m >= i
    BY <1>2, <1>4, <2>1, LastIs
  <2>3. /\ m \in Effects /\ m < k /\ x \in Touches(prog[m]) \cap Touches(prog[k])
        /\ \A i \in Occurrences(prog, x) : i <= m \/ i >= k
    BY <1>1, <2>2 DEF Under, Occurrences, Effects
  <2>4. PostAt(prog[m], x) = PreAt(prog[k], x)
    BY <2>3 DEF Compiles
  <2> QED
    BY <1>1, <1>4, <2>1, <2>4 DEF StateLeft
<1> QED
  BY <1>3, <1>4

-----------------------------------------------------------------------------
(* What stands at a path.                                                  *)

\* A move has two paths.
MovesApart(prog) == \A i \in Effects : prog[i].kind = "move" => prog[i].path # prog[i].dest

\* Where nothing is left, no name is.
LEMMA AbsentMeansFree ==
  ASSUME NEW prog, Formed(prog), NEW w, NEW S \in SUBSET Effects, NEW x \in Paths,
         \A m \in S : x \in Touches(prog[m]), StateLeft(prog, S, x) = "absent"
  PROVE  NameLeft(prog, w, S, x) = NoObj
<1>1. CASE S = {}
  BY <1>1 DEF StateLeft, NameLeft, InitialWorld
<1>2. CASE S # {}
  <2>1. PICK m : m = Last(S)
    OBVIOUS
  <2>2. m \in S
    BY <1>2, <2>1, LastIs
  <2>3. WellFormed(prog[m]) /\ PostAt(prog[m], x) = "absent"
    BY <1>2, <2>1, <2>2 DEF Formed, StateLeft
  <2>4. Leaves(prog, w, m, x) = NoObj
    BY <2>3 DEF WellFormed, PostAt, Leaves
  <2> QED
    BY <1>2, <2>1, <2>4 DEF NameLeft
<1> QED
  BY <1>1, <1>2

\* Standing depends on the names of the effects it stands on.
LEMMA IsKept ==
  ASSUME NEW prog, NEW v, NEW w, NEW S \in SUBSET Effects, NEW x, NEW o,
         \A m \in S : w.names[m] = v.names[m], Is(prog, v, S, x, o)
  PROVE  Is(prog, w, S, x, o)
<1>1. NameLeft(prog, w, S, x) = NameLeft(prog, v, S, x)
  <2>1. S # {} => Last(S) \in S
    BY LastIs
  <2> QED
    BY <2>1 DEF NameLeft, Leaves
<1> QED
  BY <1>1 DEF Is

(* A path stands as long as its name, its state and the names below it are *)
(* kept.                                                                   *)
LEMMA StandsKept ==
  ASSUME NEW prog, NEW v, NEW w, NEW S \in SUBSET Effects, NEW x,
         \A m \in S : w.names[m] = v.names[m], w.names[x] = v.names[x], At(w, x) = At(v, x),
         Stands(prog, v, S, x)
  PROVE  Stands(prog, w, S, x)
BY IsKept DEF Stands

\* What an effect begins with at its paths.
LEMMA StandsBelow ==
  ASSUME NEW prog, Compiles(prog), NEW w, NEW k \in Effects, NEW x \in Touches(prog[k])
  PROVE  Stands(prog, w, Under(prog, k, x), x) <=>
           At(w, x) = PreAt(prog[k], x) /\ Is(prog, w, Under(prog, k, x), x, w.names[x])
BY Continuity DEF Stands

\* A path that is free stands where the effect begins with an absent path.
LEMMA FreeStands ==
  ASSUME NEW prog, Formed(prog), Compiles(prog), NEW w, NEW k \in Effects,
         NEW x \in Touches(prog[k]), PreAt(prog[k], x) = "absent", w.names[x] = NoObj
  PROVE  Stands(prog, w, Under(prog, k, x), x)
<1>1. StateLeft(prog, Under(prog, k, x), x) = "absent"
  BY Continuity
<1>2. x \in Paths
  BY DEF Formed, WellFormed
<1>3. Under(prog, k, x) \in SUBSET Effects /\ \A m \in Under(prog, k, x) : x \in Touches(prog[m])
  BY DEF Under
<1>4. NameLeft(prog, w, Under(prog, k, x), x) = NoObj
  BY <1>1, <1>2, <1>3, AbsentMeansFree
<1> QED
  BY <1>1, <1>4 DEF Stands, Is, At

\* A destination that is as it was before the move is free.
LEMMA StandsFree ==
  ASSUME NEW prog, Compiles(prog), NEW w, Solid(w), NEW k \in Effects,
         NEW x \in Touches(prog[k]) \cap Named, PreAt(prog[k], x) = "absent",
         Stands(prog, w, Under(prog, k, x), x)
  PROVE  w.names[x] = NoObj
BY StandsBelow, FreeIsAbsent DEF Free

(* A step at the names of the open effect leaves every other path, and     *)
(* what the effects that are done have kept, as it was.                    *)
LEMMA PathsLocal ==
  ASSUME NEW prog, Formed(prog), NEW v, NEW w, NEW j, NEW k \in Effects, Opened(j, k),
         NEW exempt, PathsOK(prog, v, j, exempt),
         \A s \in Named \ {k, prog[k].path, prog[k].dest} :
           w.names[s] = v.names[s] /\ At(w, s) = At(v, s),
         \A x \in Touches(prog[k]) \ exempt : OpenAt(prog, w, k, x)
  PROVE  PathsOK(prog, w, j, exempt)
<1>1. /\ \A i \in Effects : (i < k => j[i] = "done") /\ (i > k => j[i] \in Unwound)
      /\ j[k] \in Open
  BY DEF Opened
<1>2. \A i \in Effects : j[i] \in Open => i = k
  BY <1>1 DEF Open, Unwound, Effects
<1>3. \A i \in Effects : j[i] = "done" => i < k
  BY <1>1 DEF Open, Unwound, Effects
<1>4. \A i \in Effects \ {k} : w.names[i] = v.names[i] /\ At(w, i) = At(v, i)
  BY NamesAre, SlotsApart
<1>5. ASSUME NEW i \in Effects, j[i] \in Open, NEW x \in Touches(prog[i]) \ exempt
      PROVE  OpenAt(prog, w, i, x)
  BY <1>2, <1>5
<1>6. ASSUME NEW x \in Declared(prog) \ exempt,
             \A i \in Effects : x \in Touches(prog[i]) => j[i] \notin Open
      PROVE  Stands(prog, w, DoneOn(prog, j, x), x)
  <2>1. Stands(prog, v, DoneOn(prog, j, x), x)
    BY <1>6 DEF PathsOK
  <2>2. DoneOn(prog, j, x) \in SUBSET Effects /\ \A m \in DoneOn(prog, j, x) : m # k
    BY <1>1 DEF DoneOn, Open
  <2>3. x \notin Touches(prog[k]) /\ x \in Paths
    BY <1>1, <1>6 DEF Declared, Formed, WellFormed
  <2>4. w.names[x] = v.names[x] /\ At(w, x) = At(v, x)
    BY <2>3, SlotsApart DEF Named, Touches
  <2> QED
    BY <1>4, <2>1, <2>2, <2>4, StandsKept
<1>7. ASSUME NEW i \in Effects, j[i] = "done", prog[i].kind \in {"replace", "delete", "move"},
             prog[i].path \notin exempt
      PROVE  Kept(prog, w, i)
  <2>1. Kept(prog, v, i)
    BY <1>7 DEF PathsOK
  <2>2. i # k /\ i < k
    BY <1>3, <1>7 DEF Effects
  <2>3. PICK S : S = Under(prog, i, prog[i].path)
    OBVIOUS
  <2>4. S \in SUBSET Effects /\ \A m \in S : m # k
    BY <2>2, <2>3 DEF Under, Effects
  <2>5. Is(prog, w, S, prog[i].path, w.names[i])
    BY <1>4, <2>1, <2>2, <2>3, <2>4, IsKept DEF Kept
  <2> QED
    BY <1>4, <2>1, <2>2, <2>3, <2>5 DEF Kept
<1> QED
  BY <1>5, <1>6, <1>7 DEF PathsOK

\* What the variants of effects say about their paths.
LEMMA EffectIs ==
  ASSUME NEW prog, Formed(prog), MovesApart(prog), NEW k \in Effects, NEW e, e = prog[k]
  PROVE  /\ e.kind \in {"create", "mkdir", "delete", "move", "replace"}
         /\ e.path \in Paths /\ e.dest \in Paths /\ Touches(e) = {e.path, e.dest}
         /\ e.path \in Named /\ e.dest \in Named /\ k \in Named /\ k # e.path /\ k # e.dest
         /\ e.kind # "move" => e.dest = e.path
         /\ e.kind = "move" => e.dest # e.path
         /\ PreAt(e, e.path) = e.pre /\ PostAt(e, e.path) = e.post
         /\ e.kind = "move" => PreAt(e, e.dest) = "absent" /\ PostAt(e, e.dest) = e.pre
         /\ e.pre = "absent" <=> e.kind \in {"create", "mkdir"}
         /\ e.post = "absent" <=> e.kind \in {"delete", "move"}
<1>1. WellFormed(e) /\ (e.kind = "move" => e.dest # e.path)
  BY DEF Formed, MovesApart
<1>2. e.kind \in {"create", "mkdir", "delete", "move", "replace"}
  BY <1>1 DEF WellFormed, Kinds
<1> QED
  BY <1>1, <1>2, SlotsApart DEF WellFormed, Touches, PreAt, PostAt, Named

\* What is done on a path, while effect k is open, lies below it.
LEMMA DoneBelow ==
  ASSUME NEW prog, NEW j, NEW k \in Effects, NEW x \in Touches(prog[k]),
         \A i \in Effects : (i < k => j[i] = "done") /\ (i > k => j[i] \in Unwound)
  PROVE  /\ j[k] # "done" => DoneOn(prog, j, x) = Under(prog, k, x)
         /\ j[k] = "done" => DoneOn(prog, j, x) = Under(prog, k, x) \cup {k}
                             /\ Last(DoneOn(prog, j, x)) = k
<1>1. \A i \in Effects : i < k \/ i = k \/ i > k
  BY DEF Effects
<1>2. \A i \in Effects : i > k => j[i] # "done"
  BY DEF Unwound
<1>3. j[k] # "done" => DoneOn(prog, j, x) = Under(prog, k, x)
  BY <1>1, <1>2 DEF DoneOn, Under, Effects
<1>4. j[k] = "done" => DoneOn(prog, j, x) = Under(prog, k, x) \cup {k}
  BY <1>1, <1>2 DEF DoneOn, Under, Effects
<1>5. ASSUME j[k] = "done" PROVE Last(DoneOn(prog, j, x)) = k
  <2>1. PICK S : S = DoneOn(prog, j, x)
    OBVIOUS
  <2>2. S \in SUBSET Effects /\ k \in S /\ \A i \in S : i <= k
    BY <1>1, <1>4, <1>5, <2>1 DEF Under, Effects
  <2>3. Last(S) \in S /\ Last(S) >= k
    BY <2>2, LastIs
  <2>4. Last(S) <= k
    BY <2>2, <2>3
  <2> QED
    BY <2>1, <2>2, <2>3, <2>4 DEF Effects
<1> QED
  BY <1>3, <1>4, <1>5

\* Beginning an effect opens its paths as they stand.
LEMMA PathsBegun ==
  ASSUME NEW prog, Formed(prog), Compiles(prog), MovesApart(prog), NEW w, Solid(w), NEW j, NEW f,
         NEW k \in Effects, NEW exempt, PathsOK(prog, w, j, exempt),
         j[k] = "pending", f[k] = "started", \A i \in Effects \ {k} : f[i] = j[i],
         \A i \in Effects : (i < k => j[i] = "done") /\ (i > k => j[i] \in Unwound),
         w.names[k] = NoObj
  PROVE  /\ PathsOK(prog, w, f, exempt)
         /\ \A x \in Touches(prog[k]) \ exempt : Stands(prog, w, Under(prog, k, x), x)
<1>1. PICK e : e = prog[k]
  OBVIOUS
<1>2. /\ e.kind \in {"create", "mkdir", "delete", "move", "replace"}
      /\ Touches(e) = {e.path, e.dest} /\ e.dest \in Named
      /\ e.kind = "move" => e.dest # e.path /\ PreAt(e, e.dest) = "absent"
      /\ e.kind # "move" => e.dest = e.path
  BY <1>1, EffectIs
<1>3. \A i \in Effects : j[i] \notin Open
  BY DEF Open, Unwound, Effects
<1>4. ASSUME NEW x \in Touches(prog[k]) \ exempt
      PROVE  Stands(prog, w, Under(prog, k, x), x)
  <2>1. x \in Declared(prog)
    BY DEF Declared
  <2>2. Stands(prog, w, DoneOn(prog, j, x), x)
    BY <1>3, <1>4, <2>1 DEF PathsOK
  <2> QED
    BY <2>2, DoneBelow
<1>5. ASSUME NEW i \in Effects, f[i] \in Open, NEW x \in Touches(prog[i]) \ exempt
      PROVE  OpenAt(prog, w, i, x)
  <2>1. i = k
    BY <1>3, <1>5
  <2>2. Stands(prog, w, Under(prog, k, x), x)
    BY <1>4, <1>5, <2>1
  <2>3. e.kind = "move" /\ x = e.dest => Free(w, x)
    BY <1>1, <1>2, <1>5, <2>1, <2>2, StandsFree DEF Free
  <2> QED
    BY <1>1, <1>2, <2>1, <2>2, <2>3 DEF OpenAt, Free
<1>6. ASSUME NEW x \in Declared(prog) \ exempt,
             \A i \in Effects : x \in Touches(prog[i]) => f[i] \notin Open
      PROVE  Stands(prog, w, DoneOn(prog, f, x), x)
  <2>1. DoneOn(prog, f, x) = DoneOn(prog, j, x)
    BY DEF DoneOn
  <2> QED
    BY <1>3, <1>6, <2>1 DEF PathsOK
<1>7. ASSUME NEW i \in Effects, f[i] = "done", prog[i].kind \in {"replace", "delete", "move"},
             prog[i].path \notin exempt
      PROVE  Kept(prog, w, i)
  BY <1>7 DEF PathsOK
<1> QED
  BY <1>4, <1>5, <1>6, <1>7 DEF PathsOK

\* An effect that is on disk when it is recorded as done is what stands.
LEMMA PathsFinished ==
  ASSUME NEW prog, Formed(prog), Compiles(prog), MovesApart(prog), NEW w, Solid(w), NEW j, NEW f,
         NEW k \in Effects, NEW exempt, PathsOK(prog, w, j, exempt),
         Opened(j, k), f[k] = "done", \A i \in Effects \ {k} : f[i] = j[i],
         \A x \in Touches(prog[k]) \ exempt : High(prog, w, k, x)
  PROVE  PathsOK(prog, w, f, exempt)
<1>1. PICK e : e = prog[k]
  OBVIOUS
<1>2. /\ e.kind \in {"create", "mkdir", "delete", "move", "replace"}
      /\ Touches(e) = {e.path, e.dest}
      /\ e.kind # "move" => e.dest = e.path
      /\ e.kind = "move" => e.dest # e.path
      /\ PostAt(e, e.path) = e.post
      /\ e.kind = "move" => PostAt(e, e.dest) = e.pre
      /\ e.post = "absent" <=> e.kind \in {"delete", "move"}
  BY <1>1, EffectIs
<1>3. /\ \A i \in Effects : (i < k => j[i] = "done") /\ (i > k => j[i] \in Unwound)
      /\ \A i \in Effects : (i < k => f[i] = "done") /\ (i > k => f[i] \in Unwound)
      /\ j[k] \in Open
  BY DEF Opened, Effects
<1>4. \A i \in Effects : f[i] \notin Open
  BY <1>3 DEF Open, Unwound, Effects
<1>5. ASSUME NEW x \in Touches(prog[k]) \ exempt
      PROVE  Stands(prog, w, DoneOn(prog, f, x), x)
  <2>1. PICK S : S = DoneOn(prog, f, x)
    OBVIOUS
  <2>2. Last(S) = k /\ S # {}
    <3>1. x \in Touches(prog[k])
      BY <1>5
    <3>2. f[k] = "done" => DoneOn(prog, f, x) = Under(prog, k, x) \cup {k}
                           /\ Last(DoneOn(prog, f, x)) = k
      <4>1. \A i \in Effects : (i < k => f[i] = "done") /\ (i > k => f[i] \in Unwound)
        BY <1>3
      <4> QED
        BY <3>1, <4>1, DoneBelow
    <3> QED
      BY <2>1, <3>2
  <2>3. High(prog, w, k, x)
    BY <1>5
  <2>4. At(w, x) = PostAt(e, x)
    BY <1>1, <1>2, <1>5, <2>3 DEF High, Free, At
  <2>5. RewrittenIn(prog, x) \/ w.names[x] = Leaves(prog, w, k, x)
    BY <1>1, <1>2, <1>5, <2>3 DEF High, Free, Leaves
  <2> QED
    BY <1>1, <2>1, <2>2, <2>4, <2>5 DEF Stands, StateLeft, Is, NameLeft
<1>6. ASSUME NEW x \in Declared(prog) \ exempt,
             \A i \in Effects : x \in Touches(prog[i]) => f[i] \notin Open
      PROVE  Stands(prog, w, DoneOn(prog, f, x), x)
  <2>1. CASE x \in Touches(prog[k])
    BY <1>5, <1>6, <2>1
  <2>2. CASE x \notin Touches(prog[k])
    <3>1. DoneOn(prog, f, x) = DoneOn(prog, j, x)
      BY <2>2 DEF DoneOn
    <3>2. \A i \in Effects : x \in Touches(prog[i]) => j[i] \notin Open
      BY <1>6, <2>2
    <3> QED
      BY <1>6, <3>1, <3>2 DEF PathsOK
  <2> QED
    BY <2>1, <2>2
<1>7. ASSUME NEW i \in Effects, f[i] = "done", prog[i].kind \in {"replace", "delete", "move"},
             prog[i].path \notin exempt
      PROVE  Kept(prog, w, i)
  <2>1. CASE i = k
    <3>1. High(prog, w, k, e.path)
      BY <1>1, <1>2, <1>7, <2>1
    <3> QED
      BY <1>1, <1>7, <2>1, <3>1 DEF High
  <2>2. CASE i # k
    BY <1>7, <2>2 DEF PathsOK
  <2> QED
    BY <2>1, <2>2
<1> QED
  BY <1>4, <1>6, <1>7 DEF PathsOK

\* An effect with nothing left to do about it, recorded as undone.
LEMMA PathsUnwound ==
  ASSUME NEW prog, NEW w, NEW j, NEW f, NEW k \in Effects, NEW exempt,
         PathsOK(prog, w, j, exempt), Opened(j, k), f[k] = "undone",
         \A i \in Effects \ {k} : f[i] = j[i],
         \A x \in Touches(prog[k]) \ exempt : Stands(prog, w, Under(prog, k, x), x)
  PROVE  PathsOK(prog, w, f, exempt)
<1>1. /\ \A i \in Effects : (i < k => j[i] = "done") /\ (i > k => j[i] \in Unwound)
      /\ \A i \in Effects : (i < k => f[i] = "done") /\ (i > k => f[i] \in Unwound)
      /\ j[k] \in Open
  BY DEF Opened, Effects
<1>2. \A i \in Effects : f[i] \notin Open
  BY <1>1 DEF Open, Unwound, Effects
<1>3. ASSUME NEW x \in Declared(prog) \ exempt
      PROVE  Stands(prog, w, DoneOn(prog, f, x), x)
  <2>1. CASE x \in Touches(prog[k])
    <3>1. DoneOn(prog, f, x) = Under(prog, k, x)
      BY <1>1, <2>1, DoneBelow
    <3> QED
      BY <1>3, <2>1, <3>1
  <2>2. CASE x \notin Touches(prog[k])
    <3>1. DoneOn(prog, f, x) = DoneOn(prog, j, x)
      BY <1>1, <2>2 DEF DoneOn
    <3>2. \A i \in Effects : x \in Touches(prog[i]) => j[i] \notin Open
      BY <1>2, <2>2
    <3> QED
      BY <1>3, <3>1, <3>2 DEF PathsOK
  <2> QED
    BY <2>1, <2>2
<1>4. ASSUME NEW i \in Effects, f[i] = "done", prog[i].kind \in {"replace", "delete", "move"},
             prog[i].path \notin exempt
      PROVE  Kept(prog, w, i)
  BY <1>4 DEF PathsOK
<1> QED
  BY <1>2, <1>3, <1>4 DEF PathsOK

\* An undo that is opened: of an effect that was done, which is on disk.
LEMMA PathsReopened ==
  ASSUME NEW prog, Formed(prog), Compiles(prog), MovesApart(prog), NEW w, Solid(w), NEW j, NEW f,
         NEW k \in Effects, NEW exempt, PathsOK(prog, w, j, exempt), NamesOK(prog, w, j),
         MakersClear(prog, w, j), j[k] = "done", f[k] = "undo_started",
         \A i \in Effects \ {k} : f[i] = j[i],
         \A i \in Effects : (i < k => j[i] = "done") /\ (i > k => j[i] \in Unwound),
         \A i \in Effects : i > k => w.names[i] = NoObj
  PROVE  PathsOK(prog, w, f, exempt)
<1>1. PICK e : e = prog[k]
  OBVIOUS
<1>2. /\ e.kind \in {"create", "mkdir", "delete", "move", "replace"}
      /\ Touches(e) = {e.path, e.dest} /\ e.path \in Named
      /\ e.path \in Paths
      /\ e.kind # "move" => e.dest = e.path
      /\ e.kind = "move" => e.dest # e.path
      /\ PostAt(e, e.path) = e.post
      /\ e.kind = "move" => PostAt(e, e.dest) = e.pre
      /\ e.post = "absent" <=> e.kind \in {"delete", "move"}
  BY <1>1, EffectIs
<1>3. \A i \in Effects : j[i] \notin Open
  BY DEF Open, Unwound, Effects
<1>4. ASSUME NEW i \in Effects, f[i] \in Open, NEW x \in Touches(prog[i]) \ exempt
      PROVE  OpenAt(prog, w, i, x)
  <2>1. i = k
    BY <1>3, <1>4
  <2>2. x \in Touches(e) /\ x \notin exempt /\ x \in Declared(prog)
    BY <1>1, <1>4, <2>1 DEF Declared
  <2>3. PICK S : S = DoneOn(prog, j, x)
    OBVIOUS
  <2>4. Stands(prog, w, S, x) /\ Last(S) = k /\ S # {}
    <3>1. Stands(prog, w, S, x)
      BY <1>3, <2>2, <2>3 DEF PathsOK
    <3>2. j[k] = "done" => DoneOn(prog, j, x) = Under(prog, k, x) \cup {k}
                           /\ Last(DoneOn(prog, j, x)) = k
      BY <1>1, <2>2, DoneBelow
    <3> QED
      BY <2>3, <3>1, <3>2
  <2>5. At(w, x) = PostAt(e, x) /\ (RewrittenIn(prog, x) \/ w.names[x] = Leaves(prog, w, k, x))
    BY <1>1, <2>4 DEF Stands, StateLeft, Is, NameLeft
  <2>6. e.kind \in {"replace", "delete", "move"} /\ x = e.path => Kept(prog, w, k)
    BY <1>1, <2>2 DEF PathsOK
  <2>7. CASE e.kind # "move"
    <3>1. x = e.path
      BY <1>2, <2>2, <2>7
    <3>2. e.kind \in {"create", "mkdir"} => Free(w, k)
      BY <1>1 DEF MakersClear, MakesEntry
    <3>3. e.kind = "delete" => Free(w, x)
      BY <1>2, <2>5, <3>1, FreeIsAbsent
    <3>4. High(prog, w, k, x)
      BY <1>1, <1>2, <2>5, <2>6, <2>7, <3>1, <3>2, <3>3 DEF High, Leaves
    <3> QED
      BY <1>1, <2>1, <2>7, <3>4 DEF OpenAt
  <2>8. CASE e.kind = "move"
    <3>1. k \in Movers(prog) /\ w.names[k] # NoObj
      BY <1>1, <2>8 DEF Movers, NamesOK, DoneAnchored
    <3>2. CASE x = e.path
      BY <1>1, <1>2, <2>1, <2>6, <2>8, <3>1, <3>2 DEF OpenAt, Kept
    <3>3. CASE x = e.dest
      <4>1. LastAnchor(prog, w, k)
        BY <3>1 DEF LastAnchor, Movers
      <4>2. w.names[e.path] # w.names[k]
        BY <1>1, <1>2, <2>8, <4>1 DEF NamesOK, Anchoring, Home
      <4> QED
        BY <1>1, <1>2, <2>1, <2>8, <3>1, <3>3, <4>2 DEF OpenAt
    <3> QED
      BY <1>2, <2>2, <3>2, <3>3
  <2> QED
    BY <2>7, <2>8
<1>5. ASSUME NEW x \in Declared(prog) \ exempt,
             \A i \in Effects : x \in Touches(prog[i]) => f[i] \notin Open
      PROVE  Stands(prog, w, DoneOn(prog, f, x), x)
  <2>1. x \notin Touches(prog[k])
    BY <1>5 DEF Open
  <2>2. DoneOn(prog, f, x) = DoneOn(prog, j, x)
    BY <2>1 DEF DoneOn
  <2> QED
    BY <1>3, <1>5, <2>2 DEF PathsOK
<1>6. ASSUME NEW i \in Effects, f[i] = "done", prog[i].kind \in {"replace", "delete", "move"},
             prog[i].path \notin exempt
      PROVE  Kept(prog, w, i)
  BY <1>6 DEF PathsOK
<1> QED
  BY <1>4, <1>5, <1>6 DEF PathsOK

\* What the compiler has seen to, and what a world always is.
LEMMA Compiled ==
  ASSUME EngineInv, RecordShape
  PROVE  /\ Formed(program) /\ Compiles(program) /\ MovesApart(program) /\ Solid(world)
BY DEF EngineInv, FilesInv, ProgramOK, Formed, RecordShape, Compiles, MovesApart

\* Beginning an effect and recording it as done keep RestoreInv.
LEMMA ForwardRestore ==
  ASSUME AnchorSafe, RestoreInv, NEW k \in Effects, EStartEffect(k) \/ EFinishEffect(k)
  PROVE  RestoreInv'
<1>1. /\ active \in Txns /\ \A t \in Txns : t = active
      /\ UNCHANGED <<program, world, steps, outside, touched, active, state>>
      /\ plan = "none" /\ plan' = "none" /\ stage' = "begin"
      /\ \A i \in Effects \ {k} : journals'[active][i] = journals[active][i]
      /\ EStartEffect(k) => /\ pc' = "apply" /\ journals'[active][k] = "started"
                            /\ journals[active][k] = "pending"
                            /\ \A i \in Effects : i < k => journals[active][i] = "done"
      /\ EFinishEffect(k) => /\ pc = "apply" /\ pc' = "effects" /\ stage = "verified"
                             /\ journals[active][k] = "started"
                             /\ journals'[active][k] = "done"
  BY RecordsForward DEF AnchorSafe
<1>2. /\ Formed(program) /\ Compiles(program) /\ MovesApart(program) /\ Solid(world)
  BY Compiled DEF AnchorSafe
<1>3. Live' <=> Live
  BY <1>1 DEF Live
<1>4. PICK j, f : j = journals[active] /\ f = journals'[active]
  OBVIOUS
<1>5. j \in Journals /\ Stacked(j)
  BY <1>1, <1>4 DEF AnchorSafe, RecordShape, EngineInv, ProtocolInv, ControlInv, TypeOK
<1>6. SettlingInv'
  BY <1>1 DEF SettlingInv
<1>7. CASE EStartEffect(k)
  <2>1. Live
    <3>1. state[active] = "applying" /\ pc = "effects"
      BY <1>7 DEF AnchorSafe, EngineInv, ProtocolInv, ControlInv, PointMatchesState, Working,
                  EStartEffect, StartEffect
    <3> QED
      BY <1>1, <3>1 DEF Live
  <2>2. \A i \in Effects : (i < k => j[i] = "done") /\ (i > k => j[i] \in Unwound)
    BY <1>1, <1>4, <1>5, <1>7 DEF Stacked
  <2>3. world.names[k] = NoObj
    BY <1>1, <1>7 DEF AnchorSafe, EngineInv, FilesInv, ClearInv, Unwound, Free
  <2>4. /\ PathsOK(program, world, f, touched)
        /\ \A x \in Touches(program[k]) \ touched : Stands(program, world, Under(program, k, x), x)
    <3>1. PathsOK(program, world, j, touched)
      BY <1>1, <1>4, <2>1 DEF RestoreInv, PathsInv
    <3> QED
      BY <1>1, <1>2, <1>4, <1>7, <2>2, <2>3, <3>1, PathsBegun
  <2>5. PathsInv'
    BY <1>1, <1>4, <2>4 DEF PathsInv
  <2>6. ApplyingInv'
    <3>1. \A i \in Effects : journals'[active'][i] = "started" => i = k
      BY <1>1, <1>4, <2>2 DEF Unwound, Effects
    <3> QED
      BY <1>1, <2>4, <3>1 DEF ApplyingInv, ApplyingAt
  <2> QED
    BY <1>6, <2>5, <2>6 DEF RestoreInv
<1>8. CASE EFinishEffect(k)
  <2>1. Live
    BY <1>1, <1>8, ApplyFacts DEF AnchorSafe
  <2>2. PathsOK(program, world, j, touched) /\ Opened(j, k)
    BY <1>1, <1>4, <1>5, <1>8, <2>1, OpenedIs DEF RestoreInv, PathsInv, Open
  <2>3. \A x \in Touches(program[k]) \ touched : High(program, world, k, x)
    BY <1>1, <1>8 DEF RestoreInv, ApplyingInv, ApplyingAt
  <2>4. PathsOK(program, world, f, touched)
    BY <1>1, <1>2, <1>4, <1>8, <2>2, <2>3, PathsFinished
  <2>5. PathsInv' /\ ApplyingInv'
    BY <1>1, <1>4, <1>8, <2>4 DEF PathsInv, ApplyingInv
  <2> QED
    BY <1>6, <2>5 DEF RestoreInv
<1> QED
  BY <1>7, <1>8

(* Opening the undo of an effect, and closing it when no step is left, keep*)
(* RestoreInv.                                                             *)
LEMMA BackwardRestore ==
  ASSUME AnchorSafe, RestoreInv, NEW k \in Effects,
         Quiet(PersistUndoStarted(k)) \/ EPersistUndone(k)
  PROVE  RestoreInv'
<1>1. /\ active \in Txns /\ \A t \in Txns : t = active
      /\ UNCHANGED <<program, world, steps, outside, touched, active, state, pc, plan, stage>>
      /\ pc = "plan" /\ plan = "rollback" /\ stage = "authorize" /\ Live
      /\ RollbackCursor(journals[active], k)
      /\ \A i \in Effects \ {k} : journals'[active][i] = journals[active][i]
      /\ Quiet(PersistUndoStarted(k)) => /\ journals[active][k] \in {"started", "done"}
                                         /\ journals'[active][k] = "undo_started"
      /\ EPersistUndone(k) => /\ steps[k] = <<>> /\ journals[active][k] = "undo_started"
                              /\ journals'[active][k] = "undone"
  BY RecordsBackward DEF AnchorSafe
<1>2. /\ Formed(program) /\ Compiles(program) /\ MovesApart(program) /\ Solid(world)
  BY Compiled DEF AnchorSafe
<1>4. PICK j, f : j = journals[active] /\ f = journals'[active]
  OBVIOUS
<1>5. j \in Journals /\ Stacked(j) /\ PathsOK(program, world, j, touched)
      /\ NamesOK(program, world, j) /\ MakersClear(program, world, j)
  BY <1>1, <1>4 DEF AnchorSafe, RecordShape, EngineInv, ProtocolInv, ControlInv, TypeOK,
                    RestoreInv, PathsInv, AnchorInv, NamesInv
<1>6. /\ \A i \in Effects : (i < k => j[i] = "done") /\ (i > k => j[i] \in Unwound)
      /\ j[k] \notin Unwound
  BY <1>1, <1>4, <1>5 DEF RollbackCursor, Stacked
<1>7. \A i \in Effects : f[i] \in Open => i = k
  BY <1>1, <1>4, <1>6 DEF Open, Unwound, Effects
<1>8. ApplyingInv'
  BY <1>1 DEF ApplyingInv
<1>9. PathsInv' /\ SettlingInv'
  <2>1. CASE Quiet(PersistUndoStarted(k))
    <3>1. CASE j[k] = "started"
      <4>1. PathsOK(program, world, f, touched)
        <5>1. Opened(j, k) /\ \A i \in Effects : (j[i] \in Open <=> f[i] \in Open) /\ (j[i] = "done" <=> f[i] = "done")
          BY <1>1, <1>4, <1>6, <2>1, <3>1 DEF Opened, Open
        <5>2. \A x : DoneOn(program, f, x) = DoneOn(program, j, x)
          BY <5>1 DEF DoneOn
        <5> QED
          BY <1>5, <5>1, <5>2 DEF PathsOK
      <4>2. steps[k] = <<>> => Settled(k)
        BY <1>1, <1>4, <3>1 DEF RestoreInv, SettlingInv, Open
      <4> QED
        BY <1>1, <1>4, <1>7, <4>1, <4>2 DEF PathsInv, SettlingInv, LastDone, Settled
    <3>2. CASE j[k] = "done"
      <4>1. \A i \in Effects : i > k => world.names[i] = NoObj
        BY <1>1, <1>4, <1>6 DEF AnchorSafe, EngineInv, FilesInv, ClearInv, Free
      <4>2. PathsOK(program, world, f, touched)
        BY <1>1, <1>2, <1>4, <1>5, <1>6, <2>1, <3>2, <4>1, PathsReopened
      <4>3. steps[k] # <<>>
        BY <1>1, <1>4, <3>2 DEF AnchorSafe, SoundInv
      <4> QED
        BY <1>1, <1>4, <1>7, <4>2, <4>3 DEF PathsInv, SettlingInv, LastDone, Settled
    <3> QED
      BY <1>1, <1>4, <2>1, <3>1, <3>2
  <2>2. CASE EPersistUndone(k)
    <3>1. Opened(j, k)
      BY <1>1, <1>4, <1>6, <2>2 DEF Opened, Open
    <3>2. \A x \in Touches(program[k]) \ touched : Stands(program, world, Under(program, k, x), x)
      BY <1>1, <2>2 DEF RestoreInv, SettlingInv, Settled, Open
    <3>3. PathsOK(program, world, f, touched)
      BY <1>1, <1>4, <1>5, <2>2, <3>1, <3>2, PathsUnwound
    <3>4. \A i \in Effects : f[i] \notin Open
      BY <1>1, <1>4, <1>7, <2>2 DEF Open
    <3> QED
      BY <1>1, <1>4, <3>3, <3>4 DEF PathsInv, SettlingInv
  <2> QED
    BY <2>1, <2>2
<1> QED
  BY <1>8, <1>9 DEF RestoreInv

\* Nothing is left to do about an open effect that is not on disk.
LEMMA IdleSettles ==
  ASSUME Formed(program), Compiles(program), MovesApart(program), Solid(world),
         NEW k \in Effects, Idle(program[k], world, k),
         \A x \in Touches(program[k]) \ touched : OpenAt(program, world, k, x)
  PROVE  Settled(k)
<1>1. PICK e : e = program[k]
  OBVIOUS
<1>2. /\ e.kind \in {"create", "mkdir", "delete", "move", "replace"}
      /\ Touches(e) = {e.path, e.dest} /\ k \in Named /\ e.dest \in Named
      /\ e.kind # "move" => e.dest = e.path
      /\ e.kind = "move" => e.dest # e.path /\ PreAt(e, e.dest) = "absent"
      /\ e.pre = "absent" <=> e.kind \in {"create", "mkdir"}
  BY <1>1, EffectIs
<1>3. At(world, k) = "absent" /\ Free(world, k)
  BY <1>2, FreeIsAbsent DEF Idle
<1>4. ASSUME NEW x \in Touches(program[k]) \ touched
      PROVE  Stands(program, world, Under(program, k, x), x)
  <2>1. OpenAt(program, world, k, x)
    BY <1>4
  <2>2. CASE e.kind # "move"
    <3>1. x = e.path
      BY <1>1, <1>2, <2>2
    <3>2. ~High(program, world, k, x)
      BY <1>1, <1>2, <1>3, <2>2, <3>1 DEF High, Kept, Idle
    <3> QED
      BY <1>1, <2>1, <2>2, <3>2 DEF OpenAt
  <2>3. CASE e.kind = "move" /\ x = e.path
    BY <1>1, <1>3, <2>1, <2>3 DEF OpenAt, Free
  <2>4. CASE e.kind = "move" /\ x = e.dest
    <3>1. world.names[x] = NoObj
      BY <1>1, <1>2, <2>4, FreeIsAbsent DEF Idle, Free
    <3>2. PreAt(program[k], x) = "absent" /\ x \in Touches(program[k])
      BY <1>1, <1>2, <2>4
    <3> QED
      BY <3>1, <3>2, FreeStands
  <2> QED
    BY <1>1, <1>2, <2>2, <2>3, <2>4
<1> QED
  BY <1>3, <1>4 DEF Settled

(* Classification plans no step for an open effect only where there is     *)
(* nothing to restore.                                                     *)
LEMMA ClassifyRestore ==
  ASSUME AnchorSafe, RestoreInv, EClassify, Live' => Live
  PROVE  RestoreInv'
<1>1. /\ UNCHANGED <<program, world, outside, touched, journals>> /\ stage' = "authorize" /\ pc' = "plan"
  BY DEF EClassify, EClassifyTerminal, EClassifyHalt, EClassifyCommitted, EClassifyRollback, Planned,
     ClassifyTerminal, ClassifyHalt, ClassifyCommitted, ClassifyRollback, Adopt, store, Rest, bounded,
     outsider
<1>2. PathsInv' /\ ApplyingInv'
  BY <1>1 DEF RestoreInv, PathsInv, ApplyingInv
<1>3. SettlingInv'
  <2>1. SUFFICES ASSUME plan' = "rollback", NEW k \in Effects, journals'[active'][k] \in Open,
                        steps'[k] = <<>>
                 PROVE  Settled(k)'
    BY <1>1 DEF SettlingInv, LastDone
  <2>2. /\ active \in Txns /\ UNCHANGED <<active, state>>
        /\ \A i \in Effects : SoundFor(program, world, journals[active], steps', i)
    BY <1>1, <2>1, ClassifiedSound DEF AnchorSafe
  <2>3. PICK j : j = journals[active]
    OBVIOUS
  <2>4. Opened(j, k)
    BY <1>1, <2>1, <2>2, <2>3, OpenedIs
       DEF AnchorSafe, RecordShape, EngineInv, ProtocolInv, ControlInv, TypeOK
  <2>5. /\ j[k] \notin Unwound /\ \A i \in Effects : i > k => j[i] \in Unwound
    BY <2>4 DEF Opened, Open, Unwound
  <2>6. Idle(program[k], world, k)
    BY <2>1, <2>2, <2>3, <2>5 DEF SoundFor
  <2>7. Live
    <3>1. state[active] \notin {"halted", "committed"}
      <4>1. AuthorityOf(active) = "classify" /\ state[active] # "committed"
        BY <1>1, <2>1 DEF EClassify, EClassifyTerminal, EClassifyHalt, EClassifyCommitted,
           EClassifyRollback, ClassifyTerminal, ClassifyHalt, ClassifyCommitted, ClassifyRollback, Adopt
      <4> QED
        BY <4>1 DEF AuthorityOf, Authority
    <3>2. \A t \in Txns : t = active
      BY <2>2, OneTransaction
    <3> QED
      BY <3>1, <3>2 DEF Live
  <2>8. \A x \in Touches(program[k]) \ touched : OpenAt(program, world, k, x)
    BY <1>1, <2>1, <2>2, <2>3, <2>7 DEF RestoreInv, PathsInv, PathsOK
  <2>9. Settled(k)
    BY <2>6, <2>8, IdleSettles, Compiled DEF AnchorSafe
  <2> QED
    BY <1>1, <2>9 DEF Settled
<1> QED
  BY <1>2, <1>3 DEF RestoreInv

\* What the observation an authorization repeats has seen.
LEMMA ExpectedIs ==
  ASSUME Formed(program), NEW k \in Effects, Sound(program[k], k, Step(k)), AsExpected(k),
         NEW e, e = program[k], NEW s, s = Step(k)
  PROVE  Seen(s, e, world, k, s.op)
<1>1. s.slots = {e.path, e.dest, k} /\ Joint(program, world, s.slots) = s.before
  BY DEF Sound, Touches, AsExpected
<1>2. PICK S : S = {e.path, e.dest, k}
  OBVIOUS
<1>3. s.before.states = [x \in S |-> At(world, x)]
      /\ s.before.same = {x \in S \X S : SameObject(world, x[1], x[2])}
  BY <1>1, <1>2 DEF Joint
<1>4. \A x \in S : s.before.states[x] = At(world, x)
  BY <1>3
<1>5. \A x, y \in S : <<x, y>> \in s.before.same <=> SameObject(world, x, y)
  BY <1>3
<1> QED
  BY <1>1, <1>2, <1>4, <1>5 DEF Seen, Sound

\* A step that is authorized finds what it is for.
LEMMA AuthorizedIs ==
  ASSUME Formed(program), Compiles(program), MovesApart(program), Solid(world),
         NEW k \in Effects, Sound(program[k], k, Step(k)), AsExpected(k),
         \A x \in Touches(program[k]) \ touched : OpenAt(program, world, k, x)
  PROVE  Authorized(k)
<1>1. (\E e : e = program[k]) /\ (\E s : s = Step(k))
  OBVIOUS
<1>e. PICK e : e = program[k]
  BY <1>1
<1>s. PICK s : s = Step(k)
  BY <1>1
<1>2. /\ e.kind \in {"create", "mkdir", "delete", "move", "replace"}
      /\ Touches(e) = {e.path, e.dest} /\ k \in Named /\ e.dest \in Named /\ e.path \in Named
      /\ e.kind # "move" => e.dest = e.path
      /\ e.kind = "move" => e.dest # e.path
      /\ e.pre = "absent" <=> e.kind \in {"create", "mkdir"}
  BY <1>e, EffectIs
<1>3. /\ \A x \in {e.path, e.dest, k} : s.before.states[x] = At(world, x)
      /\ \A x, y \in {e.path, e.dest, k} : <<x, y>> \in s.before.same <=> SameObject(world, x, y)
  <2>1. Seen(s, e, world, k, s.op)
    BY <1>e, <1>s, ExpectedIs
  <2> QED
    BY <2>1 DEF Seen
<1>4. CASE e.kind # "move"
  BY <1>e, <1>s, <1>3, <1>4 DEF Authorized
<1>5. CASE e.kind = "move"
  <2>1. s.op = "relink" => Free(world, e.dest)
    BY <1>e, <1>s, <1>2, <1>3, <1>5, FreeIsAbsent DEF Sound
  <2>2. s.op = "drop" => /\ world.names[e.path] = world.names[k] /\ At(world, e.path) = e.pre
                         /\ At(world, e.dest) # e.pre /\ At(world, k) = e.pre
    BY <1>e, <1>s, <1>3, <1>5 DEF Sound, SameObject, At
  <2>3. s.op = "drop" /\ e.dest \notin touched => Free(world, e.dest)
    <3>1. SUFFICES ASSUME s.op = "drop", e.dest \notin touched PROVE Free(world, e.dest)
      OBVIOUS
    <3>2. OpenAt(program, world, k, e.dest)
      BY <1>e, <1>s, <1>2, <3>1
    <3>3. world.names[e.dest] # world.names[k]
      BY <2>2, <3>1 DEF At
    <3> QED
      BY <1>e, <1>s, <1>2, <1>5, <2>2, <3>1, <3>2, <3>3 DEF OpenAt
  <2> QED
    BY <1>e, <1>s, <1>5, <2>1, <2>2, <2>3 DEF Authorized
<1> QED
  BY <1>4, <1>5

(* An authorized step finds what it was planned for; a confirmed one has   *)
(* done its part.                                                          *)
LEMMA AuthorizeRestore ==
  ASSUME AnchorSafe, RestoreInv, NEW k \in Effects, AuthorizeStep(k) \/ ConfirmStep(k)
  PROVE  RestoreInv'
<1>1. /\ UNCHANGED <<program, world, outside, touched, journals, active, state, pc, plan>>
      /\ pc = "plan" /\ Due(k)
  BY DEF AuthorizeStep, ConfirmStep, Work, Due, Rest, bounded, outsider, vars, store
<1>2. Live' <=> Live
  BY <1>1 DEF Live
<1>3. PathsInv' /\ ApplyingInv'
  BY <1>1, <1>2 DEF RestoreInv, PathsInv, ApplyingInv
<1>4. SettlingInv'
  <2>1. SUFFICES ASSUME plan = "rollback", NEW i \in Effects, journals[active][i] \in Open
                 PROVE  /\ (steps[i] = <<>> \/ LastDone(i))' => Settled(i)'
                        /\ Due(i)' /\ stage' = "mutate" => Authorized(i)'
    BY <1>1 DEF SettlingInv
  <2>2. /\ active \in Txns /\ (\A t \in Txns : t = active) /\ Live
        /\ journals[active][k] = "undo_started"
        /\ Sound(program[k], k, Step(k))
    BY <1>1, <2>1, DueSound DEF AnchorSafe
  <2>3. i = k
    BY <2>1, <2>2, OpenTop DEF AnchorSafe, Open
  <2>4. steps[k] # <<>>
    BY <1>1 DEF Due
  <2>5. CASE AuthorizeStep(k)
    <3>1. steps' = steps /\ stage' = "mutate" /\ AsExpected(k)
      BY <2>5 DEF AuthorizeStep, Work
    <3>2. \A x \in Touches(program[k]) \ touched : OpenAt(program, world, k, x)
      BY <2>2 DEF RestoreInv, PathsInv, PathsOK, Open
    <3>3. Authorized(k)
      BY <2>2, <3>1, <3>2, AuthorizedIs, Compiled DEF AnchorSafe
    <3> QED
      BY <1>1, <2>3, <2>4, <3>1, <3>3 DEF LastDone, Authorized, Step
  <2>6. CASE ConfirmStep(k)
    <3>1. stage = "confirm" /\ \/ steps' = [steps EXCEPT ![k] = Tail(@)] /\ stage' = "authorize"
                               \/ steps' = steps /\ stage' = "reconsider"
      BY <2>6 DEF ConfirmStep
    <3>2. CASE steps' = steps /\ stage' = "reconsider"
      BY <2>3, <2>4, <3>2 DEF LastDone
    <3>3. CASE steps' = [steps EXCEPT ![k] = Tail(@)] /\ stage' = "authorize"
      <4>1. steps'[k] = Tail(steps[k])
        BY <3>3 DEF AnchorSafe, EngineInv, FilesInv
      <4>2. steps'[k] = <<>> => steps[k] = <<Step(k)>>
        <5>1. ASSUME NEW x PROVE <<x>> # <<>>
          OBVIOUS
        <5> QED
          BY <1>1, <4>1, <5>1, DueSteps DEF AnchorSafe, EngineInv, FilesInv
      <4>3. steps'[k] = <<>> => Settled(k)
        BY <1>1, <2>1, <2>3, <3>1, <4>2 DEF RestoreInv, SettlingInv, LastDone
      <4> QED
        BY <1>1, <2>3, <3>3, <4>3 DEF LastDone, Settled
    <3> QED
      BY <3>1, <3>2, <3>3
  <2> QED
    BY <2>5, <2>6
<1> QED
  BY <1>3, <1>4 DEF RestoreInv

\* A step that touches neither files nor journals keeps RestoreInv.
LEMMA CalmRestore ==
  ASSUME RecordShape, RestoreInv, Live' => Live, Calm
  PROVE  RestoreInv'
<1>1. PathsInv'
  BY DEF Calm, RestoreInv, PathsInv
<1>2. ApplyingInv'
  BY DEF Calm, RestoreInv, ApplyingInv, ApplyingAt
<1>3. SettlingInv'
  <2>1. SUFFICES ASSUME pc' = "plan", plan' = "rollback", NEW k \in Effects,
                        journals'[active'][k] \in Open
                 PROVE  /\ (steps[k] = <<>> \/ LastDone(k))' => Settled(k)'
                        /\ Due(k)' /\ stage' = "mutate" => Authorized(k)'
    BY DEF SettlingInv
  <2>2. /\ pc = "plan" /\ plan = "rollback"
        /\ UNCHANGED <<program, world, touched, steps, stage, active, journals>>
        /\ UNCHANGED state \/ \A i \in Effects : ~Due(i)
    BY <2>1 DEF Calm
  <2>3. stage' \in {"mutate", "confirm"} /\ Due(k)' => Due(k)
    BY <2>1, <2>2 DEF Due, RecordShape
  <2> QED
    BY <2>1, <2>2, <2>3 DEF RestoreInv, SettlingInv, LastDone, Settled, Authorized, Step
<1> QED
  BY <1>1, <1>2, <1>3 DEF RestoreInv

(* A power cut may lose one half of a rename, but never the anchor:        *)
(* RestoreInv is kept.                                                     *)
LEMMA PowerCutRestore ==
  ASSUME AnchorSafe, RestoreInv, NEW k \in Effects, PowerCut(k)
  PROVE  RestoreInv'
<1>0. PICK s, u, o : CutLeaves(k, s, u, o)
  BY PowerCutFiles DEF AnchorSafe, EngineInv, FilesInv
<1>1. /\ pc' = "idle" /\ plan' = "none" /\ Solid(world')
      /\ UNCHANGED <<program, outside, touched, active, state, journals>>
      /\ program[k].kind = "move" /\ k \in Movers(program) /\ pc \in {"apply", "plan"}
      /\ Due(k) \/ journals[active][k] = "started"
  BY <1>0, PowerCutFiles
     DEF AnchorSafe, EngineInv, FilesInv, CutLeaves, PowerCut, Killed, Crash, Forget, store,
         outsider, Unflushed, Applying, Due, Movers
<1>2. ApplyingInv' /\ SettlingInv'
  BY <1>1 DEF ApplyingInv, SettlingInv
<1>3. active \in Txns /\ (\A t \in Txns : t = active)
  BY <1>1, ActiveRecord DEF AnchorSafe, EngineInv
<1>4. Live' <=> Live
  BY <1>1 DEF Live
<1>5. CASE ~Live
  BY <1>2, <1>4, <1>5 DEF RestoreInv, PathsInv
<1>6. CASE Live
  <2>1. journals[active][k] \in Open
    BY <1>1, <1>3, <1>6 DEF Due, Live, AnchorSafe, EngineInv, ProtocolInv, PointInv, Open
  <2>2. Formed(program) /\ Compiles(program) /\ MovesApart(program) /\ Solid(world)
    BY Compiled DEF AnchorSafe
  <2>3. PICK e, w, j, source, destination :
          /\ e = program[k] /\ w = world' /\ j = journals[active]
          /\ source = program[k].path /\ destination = program[k].dest
    OBVIOUS
  <2>4. /\ source \in Named /\ destination \in Named /\ Touches(e) = {source, destination}
        /\ source # destination /\ k \in Named /\ k # source /\ k # destination
        /\ PreAt(e, source) = e.pre /\ e.pre # "absent"
    BY <1>1, <2>2, <2>3, EffectIs
  <2>5. /\ world.names[k] # NoObj /\ w.names[k] = world.names[k]
        /\ o # world.names[k] => o = world.names[u]
    BY <1>0, <1>1, <1>3, <1>6, <2>3, <2>4, CutMoves DEF AnchorSafe, CutLeaves
  <2>6. /\ {s, u} = {source, destination} /\ o # NoObj
        /\ o = world.names[IF s \in touched THEN u ELSE k]
        /\ w.names[s] \in IF Free(world, s) THEN {NoObj, o} ELSE {world.names[s]}
        /\ w.names[u] \in IF world.names[u] = o THEN {NoObj, o} ELSE {world.names[u]}
    BY <1>0, <2>3, <2>4 DEF CutLeaves
  <2>7. \A n \in Named \ {source, destination} : w.names[n] = world.names[n]
    BY <1>0, <2>3, <2>6 DEF CutLeaves
  <2>8. w.inode = world.inode
    BY <1>0, <2>3 DEF CutLeaves
  <2>9. \A n \in Named \ {source, destination} : At(w, n) = At(world, n)
    BY <2>7, <2>8 DEF At
  <2>10. Opened(j, k)
    BY <1>3, <2>1, <2>3, OpenedIs
       DEF AnchorSafe, RecordShape, EngineInv, ProtocolInv, ControlInv, TypeOK
  <2>11. PathsOK(program, world, j, touched)
    BY <1>3, <1>6, <2>3 DEF RestoreInv, PathsInv
  <2>12. ASSUME NEW x \in Touches(program[k]) \ touched
         PROVE  OpenAt(program, w, k, x)
    <3>1. OpenAt(program, world, k, x)
      BY <2>1, <2>3, <2>11 DEF PathsOK
    <3>2. CASE x = source
      <4>1. Is(program, world, Under(program, k, x), x, world.names[k])
        BY <1>1, <2>3, <2>5, <3>1, <3>2 DEF OpenAt, Free
      <4>2. /\ Under(program, k, x) \in SUBSET Effects
            /\ \A m \in Under(program, k, x) : w.names[m] = world.names[m]
        <5>1. \A m \in Effects : m \in Named /\ m # source /\ m # destination
          BY <2>2, <2>3, NamesAre, SlotsApart
        <5> QED
          BY <2>7, <5>1 DEF Under
      <4>3. Is(program, w, Under(program, k, x), x, world.names[k])
        BY <4>1, <4>2, IsKept
      <4> QED
        BY <1>1, <2>3, <2>4, <2>5, <3>2, <4>3 DEF OpenAt
    <3>3. CASE x = destination
      <4>1. /\ destination \notin touched
            /\ \/ Free(world, destination) \/ world.names[destination] = world.names[k]
               \/ world.names[source] # world.names[k]
        BY <1>1, <2>3, <2>12, <3>1, <3>3 DEF OpenAt
      <4>2. \/ Free(w, destination) \/ w.names[destination] = world.names[k]
            \/ w.names[source] # world.names[k]
        <5>1. CASE s = destination /\ u = source
          BY <2>6, <4>1, <5>1 DEF Free
        <5>2. CASE s = source /\ u = destination /\ source \in touched
          BY <2>5, <2>6, <4>1, <5>2 DEF Free
        <5>3. CASE s = source /\ u = destination /\ source \notin touched
          <6>1. stage = "landed" /\ pc = "apply" /\ journals[active][k] = "started"
            BY <1>0, <2>3, <2>4, <5>3 DEF CutLeaves, Unflushed, Applying
          <6>2. ApplyingAt(k, destination)
            BY <2>3, <2>4, <4>1, <6>1 DEF RestoreInv, ApplyingInv
          <6>3. world.names[destination] = world.names[k]
            BY <1>1, <2>3, <5>3, <6>1, <6>2 DEF ApplyingAt
          <6> QED
            BY <2>6, <4>1, <5>3, <6>3 DEF Free
        <5> QED
          BY <2>4, <2>6, <5>1, <5>2, <5>3
      <4> QED
        BY <1>1, <2>3, <2>4, <2>5, <3>3, <4>2 DEF OpenAt
    <3> QED
      BY <2>3, <2>4, <2>12, <3>2, <3>3
  <2>13. PathsOK(program, w, j, touched)
    BY <2>2, <2>3, <2>7, <2>9, <2>10, <2>11, <2>12, PathsLocal
  <2> QED
    BY <1>1, <1>2, <1>3, <2>3, <2>13 DEF RestoreInv, PathsInv
<1> QED
  BY <1>5, <1>6

(* Every step that takes back an effect other than a move leaves its path  *)
(* as the effects before it left it.                                       *)
LEMMA PathRestored ==
  ASSUME NEW prog, Formed(prog), Compiles(prog), MovesApart(prog), NEW v, NEW w, NEW k \in Effects,
         NEW e, e = prog[k], e.kind # "move", NEW op, NEW s, s.op = op, Sound(e, k, s),
         Operated(v, w, e, k, op), OpenAt(prog, v, k, e.path),
         At(v, e.path) = s.before.states[e.path]
  PROVE  Stands(prog, w, Under(prog, k, e.path), e.path)
<1>1. /\ e.kind \in {"create", "mkdir", "delete", "replace"}
      /\ e.path \in Touches(prog[k]) /\ e.path \in Named /\ k \in Named /\ k # e.path
      /\ PreAt(prog[k], e.path) = e.pre
      /\ e.pre = "absent" <=> e.kind \in {"create", "mkdir"}
  BY EffectIs
<1>2. PICK x : x = e.path
  OBVIOUS
<1>3. PICK S : S = Under(prog, k, x)
  OBVIOUS
<1>4. /\ S \in SUBSET Effects /\ k \notin S
      /\ \A m \in S : m \in Named /\ m # x /\ m # k
  BY <1>1, <1>2, <1>3, NamesAre, SlotsApart DEF Under, Effects
<1>5. /\ Stands(prog, v, S, x) <=> At(v, x) = e.pre /\ Is(prog, v, S, x, v.names[x])
      /\ Stands(prog, w, S, x) <=> At(w, x) = e.pre /\ Is(prog, w, S, x, w.names[x])
  BY <1>1, <1>2, <1>3, StandsBelow
<1>6. Stands(prog, v, S, x) \/ High(prog, v, k, x)
  BY <1>2, <1>3 DEF OpenAt
<1>7. w.inode = v.inode
  BY DEF Operated
<1>8. ASSUME w.names[x] = NoObj, e.kind \in {"create", "mkdir"} PROVE Stands(prog, w, S, x)
  BY <1>1, <1>2, <1>3, <1>8, FreeStands
<1>9. ASSUME SameElse(v, w, {k}), Stands(prog, v, S, x) PROVE Stands(prog, w, S, x)
  <2>1. /\ \A m \in S : w.names[m] = v.names[m]
        /\ w.names[x] = v.names[x]
    BY <1>1, <1>2, <1>4, <1>9 DEF SameElse
  <2>2. At(w, x) = At(v, x)
    BY <1>7, <2>1 DEF At
  <2> QED
    BY <1>4, <1>9, <2>1, <2>2, StandsKept
<1>10. ASSUME SameElse(v, w, {k, x}), w.names[x] = v.names[k], Kept(prog, v, k)
       PROVE  Stands(prog, w, S, x)
  <2>1. Is(prog, v, S, x, v.names[k]) /\ At(v, k) = e.pre
    BY <1>2, <1>3, <1>10 DEF Kept
  <2>2. \A m \in S : w.names[m] = v.names[m]
    BY <1>4, <1>10 DEF SameElse
  <2>3. Is(prog, w, S, x, w.names[x])
    BY <1>4, <1>10, <2>1, <2>2, IsKept
  <2>4. At(w, x) = e.pre
    BY <1>7, <1>10, <2>1 DEF At
  <2> QED
    BY <1>5, <2>3, <2>4
<1>11. CASE op = "drop"
  <2>1. v.names[k] # NoObj /\ SameElse(v, w, {k})
    BY <1>11 DEF Operated
  <2>2. CASE ~High(prog, v, k, x)
    BY <1>2, <1>3, <1>6, <1>9, <2>1, <2>2
  <2>3. CASE High(prog, v, k, x)
    <3>1. e.kind = "replace" /\ At(v, x) = e.post
      BY <1>1, <1>11, <2>1, <2>3 DEF High, Sound, Free
    <3>2. e.pre = e.post
      BY <1>2, <1>11, <3>1 DEF Sound
    <3>3. RewrittenIn(prog, x)
      BY <1>2, <3>1, <3>2 DEF RewrittenIn
    <3>4. w.names[x] = v.names[x]
      BY <1>1, <1>2, <2>1 DEF SameElse
    <3>5. At(w, x) = e.pre
      BY <1>7, <3>1, <3>2, <3>4 DEF At
    <3> QED
      BY <1>2, <1>3, <1>5, <3>3, <3>5 DEF Is
  <2> QED
    BY <2>2, <2>3
<1>12. CASE op \in {"take", "rmdir_live"}
  <2>1. w.names[x] = NoObj /\ e.kind \in {"create", "mkdir"}
    BY <1>1, <1>2, <1>12 DEF Operated, Sound
  <2> QED
    BY <1>2, <1>3, <1>8, <2>1
<1>13. CASE op \in {"exchange", "restore"}
  <2>1. SameElse(v, w, {k, x}) /\ w.names[x] = v.names[k]
    BY <1>2, <1>13 DEF Operated
  <2>2. ~Stands(prog, v, S, x)
    <3>1. CASE op = "exchange"
      BY <1>1, <1>2, <1>5, <3>1 DEF Sound
    <3>2. CASE op = "restore"
      <4>1. v.names[x] = NoObj /\ e.kind = "delete"
        BY <1>1, <1>2, <3>2 DEF Operated, Sound
      <4> QED
        BY <1>1, <1>5, <4>1 DEF At
    <3> QED
      BY <1>13, <3>1, <3>2
  <2>3. Kept(prog, v, k)
    BY <1>1, <1>6, <1>13, <2>2 DEF High, Sound
  <2> QED
    BY <1>2, <1>3, <1>10, <2>1, <2>3
<1> QED
  BY <1>1, <1>11, <1>12, <1>13 DEF Sound

(* A step that takes back a move leaves its paths within what an open move *)
(* may look like; the drop of the anchor leaves them as they were.         *)
LEMMA MoveRestored ==
  ASSUME NEW prog, Formed(prog), Compiles(prog), MovesApart(prog), NEW v, NEW w, NEW k \in Effects,
         NEW e, e = prog[k], e.kind = "move",
         NEW op \in {"move_back", "relink", "drop_destination", "drop"},
         Operated(v, w, e, k, op), NEW x \in Touches(e), OpenAt(prog, v, k, x),
         op \in {"relink", "drop"} /\ x = e.dest => Free(v, x),
         op = "drop" /\ x = e.path => v.names[x] = v.names[k] /\ At(v, x) = e.pre
  PROVE  /\ OpenAt(prog, w, k, x)
         /\ op = "drop" => Stands(prog, w, Under(prog, k, x), x)
<1>1. /\ e.path \in Named /\ e.dest \in Named /\ k \in Named /\ k # e.path /\ k # e.dest
      /\ e.dest # e.path /\ Touches(e) = {e.path, e.dest}
      /\ PreAt(e, e.path) = e.pre /\ PreAt(e, e.dest) = "absent" /\ e.pre # "absent"
  BY EffectIs
<1>2. PICK S : S = Under(prog, k, x)
  OBVIOUS
<1>3. /\ S \in SUBSET Effects
      /\ \A m \in S : m \in Named /\ m # e.path /\ m # e.dest /\ m # k
  BY <1>2, NamesAre, SlotsApart DEF Under, Effects
<1>4. /\ Stands(prog, v, S, x) <=> At(v, x) = PreAt(e, x) /\ Is(prog, v, S, x, v.names[x])
      /\ Stands(prog, w, S, x) <=> At(w, x) = PreAt(e, x) /\ Is(prog, w, S, x, w.names[x])
  BY <1>2, StandsBelow
<1>5. \A m \in S : w.names[m] = v.names[m]
  BY <1>3 DEF Operated, SameElse
<1>6. w.inode = v.inode
  BY DEF Operated
<1>7. CASE x = e.path
  <2>1. \/ Stands(prog, v, S, x) /\ Free(v, k)
        \/ v.names[k] # NoObj /\ Is(prog, v, S, x, v.names[k])
    BY <1>2, <1>7 DEF OpenAt
  <2>2. ASSUME v.names[k] # NoObj, Is(prog, v, S, x, v.names[k]), w.names[k] = v.names[k]
        PROVE  OpenAt(prog, w, k, x)
    <3>1. Is(prog, w, S, x, w.names[k])
      BY <1>3, <1>5, <2>2, IsKept
    <3> QED
      BY <1>1, <1>2, <1>7, <2>2, <3>1 DEF OpenAt
  <2>3. CASE op \in {"move_back", "relink"}
    <3>1. v.names[x] = NoObj /\ w.names[k] = v.names[k]
      BY <1>1, <1>7, <2>3 DEF Operated, SameElse
    <3>2. ~Stands(prog, v, S, x)
      BY <1>1, <1>4, <1>7, <3>1 DEF At
    <3> QED
      BY <2>1, <2>2, <2>3, <3>1, <3>2
  <2>4. CASE op = "drop_destination"
    <3>1. w.names[k] = v.names[k] /\ w.names[x] = v.names[x]
      BY <1>1, <1>7, <2>4 DEF Operated, SameElse
    <3>2. At(w, x) = At(v, x)
      BY <1>6, <3>1 DEF At
    <3>3. ASSUME Stands(prog, v, S, x), Free(v, k) PROVE OpenAt(prog, w, k, x)
      <4>1. Stands(prog, w, S, x)
        BY <1>3, <1>5, <3>1, <3>2, <3>3, StandsKept
      <4>2. Free(w, k)
        BY <3>1, <3>3 DEF Free
      <4> QED
        BY <1>1, <1>2, <1>7, <4>1, <4>2 DEF OpenAt
    <3> QED
      BY <2>1, <2>2, <2>4, <3>1, <3>3
  <2>5. CASE op = "drop"
    <3>1. /\ v.names[k] # NoObj /\ w.names[k] = NoObj /\ w.names[x] = v.names[x]
          /\ v.names[x] = v.names[k] /\ At(v, x) = e.pre
      BY <1>1, <1>7, <2>5 DEF Operated, SameElse
    <3>2. Is(prog, v, S, x, w.names[x])
      BY <2>1, <3>1 DEF Free
    <3>3. Is(prog, w, S, x, w.names[x])
      BY <1>3, <1>5, <3>2, IsKept
    <3>4. At(w, x) = e.pre
      BY <1>6, <3>1 DEF At
    <3>5. Stands(prog, w, S, x)
      BY <1>1, <1>4, <1>7, <3>3, <3>4
    <3> QED
      BY <1>1, <1>2, <1>7, <3>1, <3>5 DEF OpenAt, Free
  <2> QED
    BY <2>3, <2>4, <2>5
<1>8. CASE x = e.dest
  <2>1. Free(w, x)
    BY <1>1, <1>8 DEF Operated, SameElse, Free
  <2>2. OpenAt(prog, w, k, x)
    BY <1>1, <1>8, <2>1 DEF OpenAt
  <2>3. Stands(prog, w, S, x)
    <3>1. x \in Touches(prog[k]) /\ PreAt(prog[k], x) = "absent" /\ w.names[x] = NoObj
      BY <1>1, <1>8, <2>1 DEF Free
    <3> QED
      BY <1>2, <3>1, FreeStands
  <2> QED
    BY <1>2, <2>2, <2>3
<1> QED
  BY <1>1, <1>7, <1>8

(* Executing the step that is due keeps RestoreInv: the last one restores  *)
(* the path.                                                               *)
LEMMA MutateRestore ==
  ASSUME AnchorSafe, RestoreInv, NEW k \in Effects, MutateStep(k)
  PROVE  RestoreInv'
<1>1. /\ Due(k) /\ UNCHANGED <<vars, program, steps, bounded>> /\ OthersKept(world, world', k)
      /\ stage' \in {"confirm", "reconsider"} /\ pc = "plan"
  BY MutateFiles DEF AnchorSafe, EngineInv, FilesInv, Due
<1>2. /\ UNCHANGED <<program, steps, touched, active, state, journals, pc, plan>>
  BY <1>1 DEF vars, bounded, outsider
<1>3. ApplyingInv'
  BY <1>1, <1>2 DEF ApplyingInv
<1>4. CASE plan # "rollback"
  <2>1. active \in Txns /\ state[active] = "committed"
    BY <1>1, <1>4, ActiveRecord DEF AnchorSafe, EngineInv, ProtocolInv, PointInv, Due
  <2>2. ~Live'
    BY <1>2, <2>1 DEF Live
  <2> QED
    BY <1>2, <1>3, <1>4, <2>2 DEF RestoreInv, PathsInv, SettlingInv
<1>5. CASE plan = "rollback"
  <2>1. /\ active \in Txns /\ (\A t \in Txns : t = active) /\ Live
        /\ journals[active][k] = "undo_started" /\ Sound(program[k], k, Step(k))
        /\ program[k].kind = "move" /\ Step(k).op # "drop" => steps[k] # <<Step(k)>>
    BY <1>1, <1>5, DueSound DEF AnchorSafe
  <2>2. /\ stage = "mutate" /\ Solid(world')
        /\ \/ world' = world /\ stage' = "reconsider"
           \/ stage' = "confirm" /\ Operated(world, world', program[k], k, Step(k).op)
    BY <1>5, MutateIs DEF AnchorSafe
  <2>3. Formed(program) /\ Compiles(program) /\ MovesApart(program) /\ Solid(world)
    BY Compiled DEF AnchorSafe
  <2>4. \A i \in Effects : journals[active][i] \in Open => i = k
    BY <2>1, OpenTop DEF AnchorSafe, Open
  <2>5. steps[k] # <<>> /\ Live'
    BY <1>1, <1>2, <2>1 DEF Due, Live
  <2>6. CASE world' = world /\ stage' = "reconsider"
    <3>1. PathsInv'
      BY <1>2, <2>6 DEF RestoreInv, PathsInv, Live
    <3>2. SettlingInv'
      BY <1>2, <2>4, <2>5, <2>6 DEF SettlingInv, LastDone
    <3> QED
      BY <1>3, <3>1, <3>2 DEF RestoreInv
  <2>7. CASE stage' = "confirm" /\ Operated(world, world', program[k], k, Step(k).op)
    <3>1. PICK e : e = program[k]
      OBVIOUS
    <3>2. PICK w : w = world'
      OBVIOUS
    <3>3. PICK j : j = journals[active]
      OBVIOUS
    <3>4. PICK s : s = Step(k)
      OBVIOUS
    <3>5. /\ Touches(e) = {e.path, e.dest} /\ e.path \in Touches(e)
          /\ (e.kind # "move" => e.dest = e.path) /\ (e.kind = "move" => e.dest # e.path)
      BY <2>3, <3>1, EffectIs
    <3>6. Authorized(k) /\ PathsOK(program, world, j, touched)
      BY <1>1, <1>5, <2>1, <2>2, <3>3 DEF RestoreInv, SettlingInv, PathsInv, Open
    <3>7. \A x \in Touches(program[k]) \ touched : OpenAt(program, world, k, x)
      BY <2>1, <3>3, <3>6 DEF PathsOK, Open
    <3>8. /\ Operated(world, w, e, k, s.op) /\ Sound(e, k, s)
      BY <2>1, <2>7, <3>1, <3>2, <3>4
    <3>9. ASSUME e.kind # "move", NEW x \in Touches(program[k]) \ touched
          PROVE  Stands(program, w, Under(program, k, x), x)
      <4>1. x = e.path /\ OpenAt(program, world, k, e.path)
        BY <3>1, <3>5, <3>7, <3>9
      <4>2. At(world, e.path) = s.before.states[e.path]
        BY <3>1, <3>4, <3>6, <3>9, <4>1 DEF Authorized
      <4> QED
        BY <2>3, <3>1, <3>8, <3>9, <4>1, <4>2, PathRestored
    <3>10. ASSUME e.kind = "move", NEW x \in Touches(program[k]) \ touched
           PROVE  /\ OpenAt(program, w, k, x)
                  /\ s.op = "drop" => Stands(program, w, Under(program, k, x), x)
      <4>1. s.op \in {"move_back", "relink", "drop_destination", "drop"}
        BY <3>8, <3>10 DEF Sound
      <4>2. /\ s.op \in {"relink", "drop"} /\ x = e.dest => Free(world, x)
            /\ s.op = "drop" /\ x = e.path => world.names[x] = world.names[k] /\ At(world, x) = e.pre
        BY <3>1, <3>4, <3>6, <3>10 DEF Authorized
      <4>3. x \in Touches(e) /\ OpenAt(program, world, k, x)
        BY <3>1, <3>7, <3>10
      <4> QED
        BY <2>3, <3>1, <3>8, <3>10, <4>1, <4>2, <4>3, MoveRestored
    <3>11. ASSUME NEW x \in Touches(program[k]) \ touched
           PROVE  OpenAt(program, w, k, x)
      <4>1. CASE e.kind # "move"
        BY <3>1, <3>9, <4>1 DEF OpenAt
      <4> QED
        BY <3>10, <4>1
    <3>12. \A i \in Named \ {k, program[k].path, program[k].dest} :
              w.names[i] = world.names[i] /\ At(w, i) = At(world, i)
      <4>1. w.inode = world.inode
        BY <3>8 DEF Operated
      <4>2. \A i \in Named \ {k, e.path, e.dest} : w.names[i] = world.names[i]
        <5>1. s.op \in {"exchange", "drop", "take", "restore", "rmdir_live", "move_back", "relink",
                        "drop_destination"}
          <6>1. e.kind \in {"create", "mkdir", "delete", "move", "replace"}
            BY <2>3, <3>1, EffectIs
          <6> QED
            BY <3>8, <6>1 DEF Sound
        <5> QED
          BY <3>8, <5>1 DEF Operated, SameElse
      <4> QED
        BY <3>1, <4>1, <4>2 DEF At
    <3>13. Opened(j, k)
      BY <2>1, <3>3, OpenedIs
         DEF AnchorSafe, RecordShape, EngineInv, ProtocolInv, ControlInv, TypeOK, Open
    <3>14. PathsOK(program, w, j, touched)
      BY <2>3, <3>6, <3>11, <3>12, <3>13, PathsLocal
    <3>15. PathsInv'
      BY <1>2, <2>1, <3>2, <3>3, <3>14 DEF PathsInv
    <3>16. LastDone(k)' => Settled(k)'
      <4>1. SUFFICES ASSUME steps[k] = <<Step(k)>> PROVE Settled(k)'
        BY <1>2 DEF LastDone, Step
      <4>2. e.kind = "move" => s.op = "drop" /\ Free(w, k)
        BY <2>1, <3>1, <3>4, <3>8, <4>1 DEF Operated, Free
      <4>3. \A x \in Touches(program[k]) \ touched : Stands(program, w, Under(program, k, x), x)
        BY <3>9, <3>10, <4>2
      <4> QED
        BY <1>2, <3>1, <3>2, <4>2, <4>3 DEF Settled
    <3>17. SettlingInv'
      BY <1>2, <2>4, <2>5, <2>7, <3>16 DEF SettlingInv
    <3> QED
      BY <1>3, <3>15, <3>17 DEF RestoreInv
  <2> QED
    BY <2>2, <2>6, <2>7
<1> QED
  BY <1>4, <1>5

(* Building a staging entry changes nothing outside its own slot; the other *)
(* steps of an effect change no object.                                     *)
LEMMA WorkElse ==
  ASSUME Formed(program), MovesApart(program), Solid(world), NEW k \in Effects, WorkStep(k),
         stage = "begin" => Unused(world, k),
         stage \in {"building", "built"} => \A s \in Named \ {k} : world.names[s] # k
  PROVE  /\ \A s \in Named \ {k, program[k].path, program[k].dest} :
              world'.names[s] = world.names[s] /\ At(world', s) = At(world, s)
         /\ WorkBuild(k) \/ WorkWrite(k) =>
              \A s \in Named \ {k} : world'.names[s] = world.names[s] /\ At(world', s) = At(world, s)
<1>1. /\ program[k].path \in Named /\ program[k].dest \in Named /\ k \in Named
      /\ program[k].kind \in {"create", "mkdir", "delete", "move", "replace"}
  BY EffectIs
<1>2. ASSUME WorkBuild(k) \/ WorkWrite(k), NEW s \in Named \ {k}
      PROVE  world'.names[s] = world.names[s] /\ At(world', s) = At(world, s)
  <2>1. world'.names[s] = world.names[s] /\ world.names[s] # k
    BY <1>2 DEF WorkBuild, WorkWrite, SameElse, Unused, Named
  <2>2. world.names[s] # NoObj => world.names[s] \in Objects
    BY DEF Solid
  <2> QED
    BY <1>2, <2>1, <2>2 DEF WorkBuild, WorkWrite, InodesKept, At
<1>3. ASSUME ~(WorkBuild(k) \/ WorkWrite(k)), NEW s \in Named \ {k, program[k].path, program[k].dest}
      PROVE  world'.names[s] = world.names[s] /\ At(world', s) = At(world, s)
  <2>1. world'.inode = world.inode
    BY <1>3 DEF WorkStep, WorkLink, WorkCheck, WorkLand, WorkVerify, WorkWithdraw, WorkUndo,
                WorkFail, Operated
  <2>2. world'.names[s] = world.names[s]
    BY <1>1, <1>3 DEF WorkStep, WorkLink, WorkCheck, WorkLand, WorkVerify, WorkWithdraw, WorkUndo,
                WorkFail, Operated, SameElse
  <2> QED
    BY <2>1, <2>2 DEF At
<1> QED
  BY <1>2, <1>3

(* A system call of an effect other than a move takes its path from what   *)
(* the effects before it left to what it is for, or back.                  *)
LEMMA WorkMade ==
  ASSUME Formed(program), Compiles(program), MovesApart(program), Solid(world), NEW k \in Effects,
         program' = program, program[k].kind # "move", WorkStep(k), BuildingNames(k),
         WorkBuild(k) \/ WorkWrite(k) =>
           \A s \in Named \ {k} : world'.names[s] = world.names[s] /\ At(world', s) = At(world, s),
         NEW x \in Touches(program[k]), ApplyingAt(k, x), OpenAt(program, world, k, x)
  PROVE  ApplyingAt(k, x)' /\ OpenAt(program, world', k, x)
<1>1. PICK e : e = program[k]
  OBVIOUS
<1>2. PICK w : w = world'
  OBVIOUS
<1>3. /\ e.kind \in {"create", "mkdir", "delete", "replace"}
      /\ x = e.path /\ x \in Named /\ k \in Named /\ k # x
      /\ PreAt(e, x) = e.pre /\ e.dest = e.path
      /\ e.pre = "absent" <=> e.kind \in {"create", "mkdir"}
  BY <1>1, EffectIs
<1>4. PICK S : S = Under(program, k, x)
  OBVIOUS
<1>5. /\ S \in SUBSET Effects /\ \A m \in S : m \in Named /\ m # x /\ m # k
  BY <1>3, <1>4, NamesAre, SlotsApart DEF Under, Effects
<1>6. /\ Stands(program, world, S, x) <=>
           At(world, x) = e.pre /\ Is(program, world, S, x, world.names[x])
      /\ Stands(program, w, S, x) <=> At(w, x) = e.pre /\ Is(program, w, S, x, w.names[x])
  BY <1>1, <1>3, <1>4, StandsBelow
<1>7. SUFFICES /\ stage' \in {"begin", "building", "built", "linked", "ready", "refusing"} =>
                    Stands(program, w, S, x)
               /\ stage' \in {"landed", "undoing", "verified"} => High(program, w, k, x)
               /\ Stands(program, w, S, x) \/ High(program, w, k, x)
  BY <1>1, <1>2, <1>3, <1>4, <1>7 DEF ApplyingAt, OpenAt
<1>8. /\ stage \in {"begin", "building", "built", "linked", "ready", "refusing"} =>
           Stands(program, world, S, x)
      /\ stage \in {"landed", "undoing", "verified"} => High(program, world, k, x)
      /\ Stands(program, world, S, x) \/ High(program, world, k, x)
  BY <1>1, <1>4, <1>3 DEF ApplyingAt, OpenAt
<1>9. ASSUME Stands(program, world, S, x), w.names[x] = world.names[x], At(w, x) = At(world, x),
             \A m \in S : w.names[m] = world.names[m]
      PROVE  Stands(program, w, S, x)
  BY <1>5, <1>9, StandsKept
<1>10. CASE WorkBuild(k) \/ WorkWrite(k)
  <2>1. stage \in {"begin", "building", "built"} /\ stage' \in {"building", "built", "ready"}
    BY <1>10 DEF WorkBuild, WorkWrite
  <2>2. Stands(program, w, S, x)
    BY <1>2, <1>3, <1>5, <1>8, <1>9, <1>10, <2>1
  <2> QED
    BY <2>1, <2>2
<1>11. CASE WorkLand(k)
  <2>1. /\ stage \in {"begin", "ready"} /\ stage' = "landed" /\ w.inode = world.inode
        /\ SameElse(world, w, {k, x}) /\ Stands(program, world, S, x)
        /\ e.kind # "delete" => stage = "ready"
    BY <1>1, <1>2, <1>3, <1>8, <1>11 DEF WorkLand
  <2>2. \A m \in S : w.names[m] = world.names[m]
    BY <1>5, <2>1 DEF SameElse
  <2>3. ASSUME w.names[k] = world.names[x] PROVE Kept(program, w, k)
    <3>1. Is(program, w, S, x, w.names[k])
      BY <1>5, <1>6, <2>1, <2>2, <2>3, IsKept
    <3>2. At(w, k) = e.pre
      BY <1>6, <2>1, <2>3 DEF At
    <3> QED
      BY <1>1, <1>3, <1>4, <3>1, <3>2 DEF Kept
  <2>4. e.kind # "delete" => world.names[k] = k /\ world.inode[k] = e.post /\ k # NoObj
    BY <1>1, <2>1, SlotsApart DEF BuildingNames
  <2>5. CASE e.kind \in {"create", "mkdir"}
    <3>1. w.names[x] = k /\ w.names[k] = NoObj
      BY <1>1, <1>2, <1>3, <1>11, <2>4, <2>5 DEF WorkLand
    <3>2. At(w, x) = e.post
      BY <2>1, <2>4, <2>5, <3>1 DEF At
    <3>3. High(program, w, k, x)
      BY <1>1, <1>3, <2>5, <3>1, <3>2 DEF High, Free
    <3> QED
      BY <2>1, <3>3
  <2>6. CASE e.kind = "replace"
    <3>1. w.names[x] = k /\ w.names[k] = world.names[x]
      BY <1>1, <1>2, <1>3, <1>11, <2>4, <2>6 DEF WorkLand
    <3>2. At(w, x) = e.post
      BY <2>1, <2>4, <2>6, <3>1 DEF At
    <3>3. High(program, w, k, x)
      BY <1>1, <1>3, <2>3, <2>6, <3>1, <3>2 DEF High
    <3> QED
      BY <2>1, <3>3
  <2>7. CASE e.kind = "delete"
    <3>1. w.names[x] = NoObj /\ w.names[k] = world.names[x]
      BY <1>1, <1>2, <1>3, <1>11, <2>7 DEF WorkLand
    <3>2. High(program, w, k, x)
      BY <1>1, <1>3, <2>3, <2>7, <3>1 DEF High, Free
    <3> QED
      BY <2>1, <3>2
  <2> QED
    BY <1>3, <2>5, <2>6, <2>7
<1>12. CASE WorkVerify(k)
  BY <1>2, <1>8, <1>12 DEF WorkVerify
<1>13. CASE WorkWithdraw(k)
  <2>1. /\ w.names[x] = world.names[x] /\ w.inode = world.inode /\ stage' = "failed"
        /\ \A m \in S : w.names[m] = world.names[m]
        /\ stage = "refusing"
    BY <1>2, <1>3, <1>5, <1>13 DEF WorkWithdraw, SameElse
  <2>2. At(w, x) = At(world, x)
    BY <2>1 DEF At
  <2> QED
    BY <1>8, <1>9, <2>1, <2>2
<1>14. CASE WorkUndo(k)
  <2>1. /\ stage = "undoing" /\ stage' = "failed" /\ e.kind \in {"replace", "delete"}
        /\ w.inode = world.inode
        /\ SameElse(world, w, {k, x}) /\ w.names[x] = world.names[k]
    BY <1>1, <1>2, <1>3, <1>14 DEF WorkUndo, Operated
  <2>2. Is(program, world, S, x, world.names[k]) /\ At(world, k) = e.pre
    BY <1>1, <1>3, <1>4, <1>8, <2>1 DEF High, Kept
  <2>3. \A m \in S : w.names[m] = world.names[m]
    BY <1>5, <2>1 DEF SameElse
  <2>4. Is(program, w, S, x, w.names[x])
    BY <1>5, <2>1, <2>2, <2>3, IsKept
  <2>5. At(w, x) = e.pre
    BY <2>1, <2>2 DEF At
  <2> QED
    BY <1>6, <2>1, <2>4, <2>5
<1>15. CASE WorkFail(k)
  BY <1>2, <1>8, <1>15 DEF WorkFail
<1> QED
  BY <1>1, <1>3, <1>10, <1>11, <1>12, <1>13, <1>14, <1>15 DEF WorkStep, WorkLink, WorkCheck

\* A system call of a move keeps its paths within what it may look like.
LEMMA WorkMoved ==
  ASSUME Formed(program), Compiles(program), MovesApart(program), Solid(world), NEW k \in Effects,
         UNCHANGED <<program, touched>>, program[k].kind = "move", WorkStep(k), MovingNames(k),
         program[k].path \notin touched => ApplyingAt(k, program[k].path),
         NEW x \in Touches(program[k]), ApplyingAt(k, x), OpenAt(program, world, k, x)
  PROVE  ApplyingAt(k, x)' /\ OpenAt(program, world', k, x)
<1>1. PICK e : e = program[k]
  OBVIOUS
<1>2. PICK w : w = world'
  OBVIOUS
<1>3. /\ e.path \in Named /\ e.dest \in Named /\ k \in Named /\ k # e.path /\ k # e.dest
      /\ e.dest # e.path /\ Touches(e) = {e.path, e.dest} /\ e.kind = "move"
      /\ PreAt(e, e.path) = e.pre /\ PreAt(e, e.dest) = "absent" /\ e.pre # "absent"
  BY <1>1, EffectIs
<1>4. PICK S : S = Under(program, k, x)
  OBVIOUS
<1>5. S \in SUBSET Effects /\ \A m \in S : m \in Named /\ m # e.path /\ m # e.dest /\ m # k
  BY <1>1, <1>4, NamesAre, SlotsApart DEF Under, Effects
<1>6. /\ Stands(program, world, S, x) <=>
           At(world, x) = PreAt(e, x) /\ Is(program, world, S, x, world.names[x])
      /\ Stands(program, w, S, x) <=> At(w, x) = PreAt(e, x) /\ Is(program, w, S, x, w.names[x])
  BY <1>1, <1>4, StandsBelow
<1>7. w.inode = world.inode /\ \A m \in S : w.names[m] = world.names[m]
  BY <1>1, <1>2, <1>3, <1>5 DEF WorkStep, WorkBuild, WorkWrite, WorkLink, WorkCheck, WorkLand,
     WorkVerify, WorkWithdraw, WorkUndo, WorkFail, Operated, SameElse
<1>8. ASSUME w.names[x] = world.names[x], Stands(program, world, S, x)
      PROVE  Stands(program, w, S, x)
  <2>1. At(w, x) = At(world, x)
    BY <1>7, <1>8 DEF At
  <2> QED
    BY <1>5, <1>7, <1>8, <2>1, StandsKept
<1>9. ASSUME NEW o, Is(program, world, S, x, o) PROVE Is(program, w, S, x, o)
  BY <1>5, <1>7, <1>9, IsKept
<1>10. CASE x = e.path
  <2>1. /\ stage \in {"begin", "building", "built", "linked", "ready", "refusing"} =>
             Stands(program, world, S, x)
        /\ stage \in {"linked", "ready"} => world.names[k] = world.names[x]
        /\ stage \in {"landed", "undoing"} => world.names[x] = NoObj
        /\ \/ Stands(program, world, S, x) /\ world.names[k] = NoObj
           \/ world.names[k] # NoObj /\ Is(program, world, S, x, world.names[k])
    BY <1>1, <1>3, <1>4, <1>10 DEF ApplyingAt, OpenAt, Free
  <2>2. SUFFICES /\ stage' \in {"begin", "building", "built", "linked", "ready", "refusing"} =>
                      Stands(program, w, S, x)
                 /\ stage' \in {"linked", "ready"} => w.names[k] = w.names[x]
                 /\ stage' \in {"landed", "undoing"} => w.names[x] = NoObj
                 /\ stage' = "verified" => /\ w.names[x] = NoObj
                                           /\ Is(program, w, S, x, w.names[k])
                 /\ \/ Stands(program, w, S, x) /\ w.names[k] = NoObj
                    \/ w.names[k] # NoObj /\ Is(program, w, S, x, w.names[k])
    BY <1>1, <1>2, <1>3, <1>4, <1>10, <2>2 DEF ApplyingAt, OpenAt, High, Kept, Free
  <2>3. world.names[x] = NoObj => ~Stands(program, world, S, x)
    BY <1>3, <1>6, <1>10 DEF At
  <2>4. CASE WorkLink(k)
    <3>1. /\ stage = "begin" /\ stage' = "linked" /\ w.names[k] = world.names[x]
          /\ w.names[x] = world.names[x] /\ world.names[x] # NoObj
      BY <1>1, <1>2, <1>3, <1>10, <2>4 DEF WorkLink, SameElse
    <3>2. Stands(program, w, S, x)
      BY <1>8, <2>1, <3>1
    <3>3. Is(program, w, S, x, w.names[k])
      BY <1>6, <3>1, <3>2
    <3> QED
      BY <3>1, <3>2, <3>3
  <2>5. CASE WorkCheck(k) \/ WorkFail(k)
    BY <1>1, <1>2, <1>3, <2>1, <2>5 DEF WorkCheck, WorkFail
  <2>6. CASE WorkLand(k)
    <3>1. /\ stage = "ready" /\ stage' = "landed" /\ w.names[k] = world.names[k]
          /\ w.names[x] = NoObj
      BY <1>1, <1>2, <1>3, <1>10, <2>6 DEF WorkLand, SameElse
    <3>2. world.names[k] # NoObj
      BY <1>1, <3>1 DEF MovingNames
    <3>3. Is(program, world, S, x, world.names[k])
      BY <2>1, <3>2
    <3> QED
      BY <1>9, <3>1, <3>2, <3>3
  <2>7. CASE WorkVerify(k)
    BY <1>2, <2>1, <2>3, <2>7 DEF WorkVerify
  <2>8. CASE WorkWithdraw(k)
    <3>1. /\ stage = "refusing" /\ stage' = "failed" /\ w.names[k] = NoObj
          /\ w.names[x] = world.names[x]
      BY <1>1, <1>2, <1>3, <1>10, <2>8 DEF WorkWithdraw, SameElse
    <3> QED
      BY <1>8, <2>1, <3>1
  <2>9. CASE WorkUndo(k)
    <3>1. /\ stage = "undoing" /\ stage' = "failed" /\ w.names[k] = world.names[k]
      BY <1>1, <1>2, <1>3, <2>9 DEF WorkUndo, Operated, SameElse
    <3>2. Is(program, w, S, x, w.names[k]) /\ w.names[k] # NoObj
      BY <1>9, <2>1, <2>3, <3>1
    <3> QED
      BY <3>1, <3>2
  <2> QED
    BY <1>1, <1>3, <2>4, <2>5, <2>6, <2>7, <2>8, <2>9 DEF WorkStep, WorkBuild, WorkWrite
<1>11. CASE x = e.dest
  <2>1. /\ stage \in {"begin", "building", "built", "linked", "ready", "refusing"} =>
             Stands(program, world, S, x)
        /\ \/ world.names[x] = NoObj
           \/ /\ world.names[k] # NoObj
              /\ world.names[x] = world.names[k] \/ world.names[e.path] # world.names[k]
        /\ stage \in {"landed", "undoing"} /\ e.path \notin touched =>
             world.names[x] = world.names[k]
        /\ stage = "ready" /\ e.path \notin touched => world.names[k] = world.names[e.path]
    BY <1>1, <1>3, <1>4, <1>11 DEF ApplyingAt, OpenAt, Free
  <2>2. SUFFICES /\ stage' \in {"begin", "building", "built", "linked", "ready", "refusing"} =>
                      Stands(program, w, S, x)
                 /\ stage' = "verified" => /\ w.names[x] = w.names[k] /\ At(w, x) = e.pre
                 /\ stage' \in {"landed", "undoing"} /\ e.path \notin touched =>
                      w.names[x] = w.names[k]
                 /\ \/ w.names[x] = NoObj
                    \/ /\ w.names[k] # NoObj
                       /\ w.names[x] = w.names[k] \/ w.names[e.path] # w.names[k]
    BY <1>1, <1>2, <1>3, <1>4, <1>11, <2>2 DEF ApplyingAt, OpenAt, High, Free
  <2>3. Stands(program, world, S, x) => world.names[x] = NoObj
    <3>1. x \in Touches(program[k]) \cap Named /\ PreAt(program[k], x) = "absent"
      BY <1>1, <1>3, <1>11
    <3> QED
      BY <1>4, <3>1, StandsFree
  <2>4. CASE WorkLink(k)
    <3>1. stage = "begin" /\ stage' = "linked" /\ w.names[x] = world.names[x]
      BY <1>1, <1>2, <1>3, <1>11, <2>4 DEF WorkLink, SameElse
    <3>2. Stands(program, w, S, x)
      BY <1>8, <2>1, <3>1
    <3> QED
      BY <2>1, <2>3, <3>1, <3>2
  <2>5. CASE WorkCheck(k) \/ WorkFail(k)
    BY <1>1, <1>2, <1>3, <2>1, <2>5 DEF WorkCheck, WorkFail
  <2>6. CASE WorkLand(k)
    <3>1. /\ stage = "ready" /\ stage' = "landed" /\ w.names[k] = world.names[k]
          /\ w.names[e.path] = NoObj /\ w.names[x] = world.names[e.path]
      BY <1>1, <1>2, <1>3, <1>11, <2>6 DEF WorkLand, SameElse
    <3>2. world.names[k] # NoObj
      BY <1>1, <3>1 DEF MovingNames
    <3> QED
      BY <2>1, <3>1, <3>2
  <2>7. CASE WorkVerify(k)
    <3>1. /\ w = world /\ stage = "landed" /\ stage' \in {"verified", "undoing"}
          /\ stage' = "verified" => Landed(k)
      BY <1>2, <2>7 DEF WorkVerify
    <3>2. Landed(k) => world.names[x] = world.names[k] /\ At(world, x) = e.pre
      BY <1>1, <1>3, <1>11 DEF Landed, SameObject
    <3> QED
      BY <2>1, <3>1, <3>2
  <2>8. CASE WorkWithdraw(k)
    <3>1. /\ stage = "refusing" /\ stage' = "failed" /\ w.names[x] = world.names[x]
      BY <1>1, <1>2, <1>3, <1>11, <2>8 DEF WorkWithdraw, SameElse
    <3> QED
      BY <2>1, <2>3, <3>1
  <2>9. CASE WorkUndo(k)
    <3>1. stage' = "failed" /\ w.names[x] = NoObj
      BY <1>1, <1>2, <1>3, <1>11, <2>9 DEF WorkUndo, Operated
    <3> QED
      BY <3>1
  <2> QED
    BY <1>1, <1>3, <2>4, <2>5, <2>6, <2>7, <2>8, <2>9 DEF WorkStep, WorkBuild, WorkWrite
<1> QED
  BY <1>1, <1>3, <1>10, <1>11

\* A system call of the effect that is being applied keeps RestoreInv.
LEMMA ApplyRestore ==
  ASSUME AnchorSafe, RestoreInv, NEW k \in Effects, ApplyEffect(k)
  PROVE  RestoreInv'
<1>1. /\ pc = "apply" /\ journals[active][k] = "started"
      /\ UNCHANGED <<vars, program, steps, bounded>>
  BY ApplyEffectFiles DEF AnchorSafe, EngineInv, FilesInv, FilesOf
<1>2. UNCHANGED <<program, steps, touched, active, state, journals, pc, plan>>
  BY <1>1 DEF vars, bounded, outsider
<1>3. /\ active \in Txns /\ Live /\ WorkNames(k) /\ plan = "none"
      /\ stage = "begin" => Unused(world, k)
  BY <1>1, ApplyFacts DEF AnchorSafe
<1>4. /\ \A i \in Effects : journals[active][i] \in Open => i = k
      /\ \A t \in Txns : t = active
  BY <1>1, <1>3, OpenTop DEF AnchorSafe, Open
<1>5. Formed(program) /\ Compiles(program) /\ MovesApart(program) /\ Solid(world)
  BY Compiled DEF AnchorSafe
<1>6. WorkStep(k)
  BY WorkSteps DEF AnchorSafe, AnchorInv
<1>7. PICK j : j = journals[active]
  OBVIOUS
<1>8. PathsOK(program, world, j, touched) /\ Opened(j, k)
  BY <1>1, <1>3, <1>7, OpenedIs
     DEF RestoreInv, PathsInv, AnchorSafe, RecordShape, EngineInv, ProtocolInv, ControlInv, TypeOK,
         Open
<1>9. \A x \in Touches(program[k]) \ touched : OpenAt(program, world, k, x) /\ ApplyingAt(k, x)
  BY <1>1, <1>7, <1>8 DEF PathsOK, RestoreInv, ApplyingInv, Open
<1>10. /\ \A s \in Named \ {k, program[k].path, program[k].dest} :
            world'.names[s] = world.names[s] /\ At(world', s) = At(world, s)
       /\ WorkBuild(k) \/ WorkWrite(k) =>
            \A s \in Named \ {k} : world'.names[s] = world.names[s] /\ At(world', s) = At(world, s)
  <2>1. stage \in {"building", "built"} => \A s \in Named \ {k} : world.names[s] # k
    BY <1>1 DEF AnchorSafe, CommitInv, BuildInv, Applying
  <2> QED
    BY <1>3, <1>5, <1>6, <2>1, WorkElse
<1>11. ASSUME NEW x \in Touches(program[k]) \ touched
       PROVE  ApplyingAt(k, x)' /\ OpenAt(program, world', k, x)
  <2>1. CASE program[k].kind # "move"
    <3>1. BuildingNames(k)
      BY <1>3, <2>1 DEF WorkNames, Movers
    <3> QED
      BY <1>2, <1>5, <1>6, <1>9, <1>10, <2>1, <3>1, WorkMade
  <2>2. CASE program[k].kind = "move"
    <3>1. MovingNames(k)
      BY <1>3, <2>2 DEF WorkNames, Movers
    <3>2. program[k].path \notin touched => ApplyingAt(k, program[k].path)
      BY <1>9 DEF Touches
    <3> QED
      BY <1>2, <1>5, <1>6, <1>9, <2>2, <3>1, <3>2, WorkMoved
  <2> QED
    BY <2>1, <2>2
<1>12. PathsOK(program, world', j, touched)
  BY <1>5, <1>8, <1>10, <1>11, PathsLocal
<1>13. PathsInv'
  BY <1>2, <1>4, <1>7, <1>12 DEF PathsInv
<1>14. ApplyingInv'
  BY <1>2, <1>4, <1>11 DEF ApplyingInv, Open
<1>15. SettlingInv'
  BY <1>1, <1>2 DEF SettlingInv
<1> QED
  BY <1>13, <1>14, <1>15 DEF RestoreInv

(* What the outside writer changes at path p: the name, and the state of    *)
(* what was there.  Another name is affected only if it leads there too.    *)
ChangedAt(v, w, p) ==
  /\ SameElse(v, w, {p})
  /\ w.names[p] \in {NoObj, v.names[p]} \/ Unused(v, w.names[p])
  /\ \A s \in Named \ {p} : v.names[s] # v.names[p] \/ v.names[s] = NoObj => At(w, s) = At(v, s)

\* That is what the outside writer does.
LEMMA OutsideChange ==
  ASSUME EngineInv, AnchorInv, Live, NEW p, Meddled(p)
  PROVE  ChangedAt(world, world', p)
<1>1. /\ outside \in Nat /\ N \in Nat /\ MaxOutside \in Nat /\ outside < MaxOutside
  BY BoundsAssumption, NAssumption DEF Meddled, EngineInv, FilesInv
<1>2. Unused(world, N + outside + 1)
  <2>1. N + outside + 1 \in (N + outside + 1)..(N + MaxOutside)
    BY <1>1
  <2> QED
    BY <2>1 DEF AnchorInv, NamesInv, FreshUnused
<1>3. SameElse(world, world', {p})
  BY DEF Meddled, SameElse
<1>4. world'.names[p] \in {NoObj, world.names[p]} \/ Unused(world, world'.names[p])
  BY <1>2 DEF Meddled
<1>5. ASSUME NEW s \in Named \ {p}, world.names[s] # world.names[p] \/ world.names[s] = NoObj
      PROVE  At(world', s) = At(world, s)
  <2>1. world'.names[s] = world.names[s]
    BY <1>5 DEF Meddled
  <2>2. world.names[s] # NoObj => world.names[s] \in Objects
    BY <1>5 DEF EngineInv, FilesInv, Solid
  <2>3. world.names[s] # N + outside + 1
    BY <1>2, <1>5 DEF Unused, Named
  <2>4. world.names[s] # NoObj => world'.inode[world.names[s]] = world.inode[world.names[s]]
    BY <1>5, <2>2, <2>3 DEF Meddled
  <2> QED
    BY <2>1, <2>4 DEF At
<1> QED
  BY <1>3, <1>4, <1>5 DEF ChangedAt

\* Which names share what is at the path: those of an open move.
LEMMA SharedWith ==
  ASSUME NEW prog, Formed(prog), NEW v, NEW w, NEW j, Distinct(prog, v, j), NEW p \in Paths,
         ChangedAt(v, w, p), NEW s \in HoldersOf(prog) \ {p}
  PROVE  /\ w.names[s] = v.names[s]
         /\ \/ At(w, s) = At(v, s)
            \/ \E m \in Movers(prog) : /\ SplitBy(prog, v, j, m, v.names[s])
                                       /\ v.names[s] = v.names[p] /\ v.names[s] # NoObj
                                       /\ s \in Touches(prog[m]) /\ p \in Touches(prog[m])
<1>1. s \in Named /\ p \in HoldersOf(prog)
  BY SlotsApart DEF HoldersOf, Named
<1>2. w.names[s] = v.names[s]
  BY <1>1 DEF ChangedAt, SameElse
<1>3. CASE v.names[s] # v.names[p] \/ v.names[s] = NoObj
  BY <1>1, <1>2, <1>3 DEF ChangedAt
<1>4. CASE v.names[s] = v.names[p] /\ v.names[s] # NoObj
  BY <1>1, <1>2, <1>4 DEF Distinct
<1> QED
  BY <1>3, <1>4

(* What is said of a path holds as long as the path, the slot and the      *)
(* names of the effects are as they were.                                  *)
LEMMA HighKept ==
  ASSUME NEW prog, Formed(prog), NEW v, NEW w, NEW k \in Effects, NEW x,
         \A m \in Effects : w.names[m] = v.names[m],
         w.names[x] = v.names[x], At(w, x) = At(v, x),
         prog[k].kind # "move" => At(w, k) = At(v, k), High(prog, v, k, x)
  PROVE  High(prog, w, k, x)
<1>1. Under(prog, k, prog[k].path) \in SUBSET Effects
  BY DEF Under
<1>2. Kept(prog, v, k) => Kept(prog, w, k)
  <2>1. SUFFICES ASSUME Kept(prog, v, k) PROVE Kept(prog, w, k)
    OBVIOUS
  <2>2. Is(prog, v, Under(prog, k, prog[k].path), prog[k].path, v.names[k])
    BY <2>1 DEF Kept
  <2>3. Is(prog, w, Under(prog, k, prog[k].path), prog[k].path, v.names[k])
    BY <1>1, <2>2, IsKept
  <2> QED
    BY <2>1, <2>3 DEF Kept
<1> QED
  BY <1>2 DEF High, Free

(* The other paths are as they were, for each of the three things said of  *)
(* them.                                                                   *)
LEMMA PathsMeddled ==
  ASSUME NEW prog, Formed(prog), MovesApart(prog), NEW v, NEW w, NEW j, NamesOK(prog, v, j),
         \A i, m \in Effects : j[i] \in Open /\ j[m] \in Open => i = m,
         NEW exempt, PathsOK(prog, v, j, exempt), NEW p \in Paths, ChangedAt(v, w, p)
  PROVE  PathsOK(prog, w, j, exempt \cup {p})
<1>1. \A m \in Effects : w.names[m] = v.names[m] /\ m \in Named /\ m # p
  BY SlotsApart DEF ChangedAt, SameElse
<1>2. /\ Distinct(prog, v, j) /\ Movers(prog) \subseteq Effects /\ Paths \subseteq Named
      /\ Paths \subseteq HoldersOf(prog)
  BY DEF NamesOK, Movers, Named, HoldersOf
<1>3. ASSUME NEW i \in Effects, prog[i].kind # "move" PROVE At(w, i) = At(v, i)
  <2>1. i \in HoldersOf(prog) \ {p} /\ i \notin Paths
    BY <1>1, <1>3, SlotsApart DEF HoldersOf, Movers
  <2>2. \A m \in Movers(prog) : i \notin Touches(prog[m])
    BY <1>2, <2>1, NamesAre
  <2>s. PICK s : s = i
    OBVIOUS
  <2>3. /\ w.names[s] = v.names[s]
        /\ \/ At(w, s) = At(v, s)
           \/ \E m \in Movers(prog) : /\ SplitBy(prog, v, j, m, v.names[s])
                                      /\ v.names[s] = v.names[p] /\ v.names[s] # NoObj
                                      /\ s \in Touches(prog[m]) /\ p \in Touches(prog[m])
    <3>1. s \in HoldersOf(prog) \ {p} /\ Distinct(prog, v, j)
      BY <1>2, <2>1, <2>s
    <3> QED
      BY <3>1, SharedWith
  <2> QED
    BY <2>2, <2>s, <2>3
<1>4. ASSUME NEW x \in Paths \ {p}
      PROVE  /\ w.names[x] = v.names[x]
             /\ \/ At(w, x) = At(v, x)
                \/ \E m \in Movers(prog) : /\ j[m] \in Open /\ v.names[m] # NoObj
                                           /\ v.names[x] = v.names[p] /\ v.names[x] # NoObj
                                           /\ x \in Touches(prog[m]) /\ p \in Touches(prog[m])
  <2>1. x \in HoldersOf(prog) \ {p}
    BY <1>2
  <2> QED
    BY <1>2, <2>1, SharedWith DEF SplitBy
<1>5. ASSUME NEW S \in SUBSET Effects, NEW x \in Paths \ {p}, At(w, x) = At(v, x), Stands(prog, v, S, x)
      PROVE  Stands(prog, w, S, x)
  BY <1>1, <1>4, <1>5, StandsKept
<1>6. ASSUME NEW k \in Effects, j[k] \in Open, NEW x \in Touches(prog[k]) \ (exempt \cup {p})
      PROVE  OpenAt(prog, w, k, x)
  <2>1. OpenAt(prog, v, k, x) /\ x \in Paths \ {p}
    BY <1>6 DEF PathsOK, Formed, WellFormed
  <2>2. PICK e : e = prog[k]
    OBVIOUS
  <2>3. PICK S : S = Under(prog, k, x)
    OBVIOUS
  <2>4. S \in SUBSET Effects
    BY <2>3 DEF Under
  <2>5. w.names[x] = v.names[x] /\ w.names[k] = v.names[k]
    BY <1>1, <1>4, <2>1
  <2>6. v.names[k] = NoObj \/ e.kind # "move" => At(w, x) = At(v, x)
    BY <1>2, <1>4, <1>6, <2>1, <2>2 DEF Movers
  <2>7. CASE e.kind # "move"
    <3>1. At(w, x) = At(v, x)
      BY <2>6, <2>7
    <3>2. Stands(prog, v, S, x) => Stands(prog, w, S, x)
      BY <1>5, <2>1, <2>4, <3>1
    <3>3. High(prog, v, k, x) => High(prog, w, k, x)
      BY <1>1, <1>3, <2>2, <2>5, <2>7, <3>1, HighKept
    <3> QED
      BY <2>1, <2>2, <2>3, <2>7, <3>2, <3>3 DEF OpenAt
  <2>8. CASE e.kind = "move"
    <3>1. Stands(prog, v, S, x) /\ Free(v, k) => Stands(prog, w, S, x) /\ Free(w, k)
      BY <1>5, <2>1, <2>4, <2>5, <2>6 DEF Free
    <3>2. Is(prog, v, S, x, v.names[k]) => Is(prog, w, S, x, w.names[k])
      BY <1>1, <2>4, <2>5, IsKept
    <3>3. v.names[k] # NoObj /\ v.names[e.path] # v.names[k] => w.names[e.path] # w.names[k]
      <4>1. e.path \in Paths
        BY <2>2, NamesAre
      <4>2. CASE e.path = p
        BY <1>1, <2>5, <4>2 DEF ChangedAt, Unused, Named
      <4>3. CASE e.path # p
        BY <1>4, <2>5, <4>1, <4>3
      <4> QED
        BY <4>2, <4>3
    <3>4. CASE x = e.path
      <4>1. e.path # e.dest
        BY <2>2, <2>8 DEF MovesApart
      <4> QED
        BY <2>1, <2>2, <2>3, <2>5, <2>8, <3>1, <3>2, <3>4, <4>1 DEF OpenAt
    <3>5. CASE x = e.dest
      <4>1. e.path # e.dest
        BY <2>2, <2>8 DEF MovesApart
      <4> QED
        BY <2>1, <2>2, <2>5, <2>8, <3>3, <3>5, <4>1 DEF OpenAt, Free
    <3> QED
      BY <1>6, <2>2, <3>4, <3>5 DEF Touches
  <2> QED
    BY <2>7, <2>8
<1>7. ASSUME NEW x \in Declared(prog) \ (exempt \cup {p}),
             \A k \in Effects : x \in Touches(prog[k]) => j[k] \notin Open
      PROVE  Stands(prog, w, DoneOn(prog, j, x), x)
  <2>1. x \in Paths \ {p} /\ DoneOn(prog, j, x) \in SUBSET Effects
    BY <1>7 DEF Declared, Formed, WellFormed, DoneOn
  <2>2. Stands(prog, v, DoneOn(prog, j, x), x)
    BY <1>7 DEF PathsOK
  <2>3. At(w, x) = At(v, x)
    BY <1>2, <1>4, <1>7, <2>1
  <2> QED
    BY <1>5, <2>1, <2>2, <2>3
<1>8. ASSUME NEW k \in Effects, j[k] = "done", prog[k].kind \in {"replace", "delete", "move"},
             prog[k].path \notin exempt \cup {p}
      PROVE  Kept(prog, w, k)
  <2>1. Kept(prog, v, k)
    BY <1>8 DEF PathsOK
  <2>2. Under(prog, k, prog[k].path) \in SUBSET Effects
    BY DEF Under
  <2>3. Is(prog, w, Under(prog, k, prog[k].path), prog[k].path, w.names[k])
    BY <1>1, <2>1, <2>2, IsKept DEF Kept
  <2> QED
    BY <1>3, <2>1, <2>3 DEF Kept
<1> QED
  BY <1>6, <1>7, <1>8 DEF PathsOK

\* A transaction that is being rolled back may be.
LEMMA RollbackLive ==
  ASSUME EngineInv, pc = "plan", plan = "rollback"
  PROVE  active \in Txns /\ (\A t \in Txns : t = active) /\ Live
<1>1. active \in Txns /\ (\A t \in Txns : t = active)
  BY ActiveRecord DEF EngineInv
<1>2. state[active] \notin {"halted", "committed"}
  BY DEF EngineInv, ProtocolInv, PointInv, ControlInv, PointMatchesState, Working
<1> QED
  BY <1>1, <1>2 DEF Live

(* What the outside writer does at a path leaves the other paths as they    *)
(* were found, kept or restored.                                            *)
LEMMA OutsideRestore ==
  ASSUME AnchorSafe, RestoreInv, Outside
  PROVE  RestoreInv'
<1>1. PICK p : Meddled(p)
  BY Meddling DEF AnchorSafe, EngineInv, FilesInv
<1>2. /\ p \in Paths /\ touched' = touched \cup {p}
      /\ UNCHANGED <<program, stage, steps, pc, plan, active, state, journals>>
  BY <1>1 DEF Meddled, vars
<1>3. Formed(program) /\ Compiles(program) /\ MovesApart(program) /\ Solid(world)
  BY Compiled DEF AnchorSafe
<1>4. PICK w : w = world'
  OBVIOUS
<1>5. Live' <=> Live
  BY <1>2 DEF Live
<1>6. Live => ChangedAt(world, w, p)
  BY <1>1, <1>4, OutsideChange DEF AnchorSafe
<1>7. ASSUME NEW t \in Txns, NEW i \in Effects, NEW m \in Effects,
             journals[t][i] \in Open, journals[t][m] \in Open
      PROVE  i = m
  <2>1. journals[t] \in Journals /\ Stacked(journals[t])
    BY DEF AnchorSafe, RecordShape, EngineInv, ProtocolInv, ControlInv, TypeOK
  <2> QED
    BY <1>7, <2>1, OpenedIs
<1>8. PathsInv'
  <2>1. SUFFICES ASSUME Live, NEW t \in Txns PROVE PathsOK(program, w, journals[t], touched \cup {p})
    BY <1>2, <1>4, <1>5 DEF PathsInv
  <2>2. NamesOK(program, world, journals[t]) /\ PathsOK(program, world, journals[t], touched)
    BY <2>1 DEF AnchorSafe, AnchorInv, NamesInv, RestoreInv, PathsInv
  <2>3. PICK j : j = journals[t]
    OBVIOUS
  <2>4. \A i, m \in Effects : j[i] \in Open /\ j[m] \in Open => i = m
    BY <1>7, <2>3
  <2> QED
    BY <1>2, <1>3, <1>6, <2>1, <2>2, <2>3, <2>4, PathsMeddled
<1>9. ASSUME Live PROVE \A m \in Effects : w.names[m] = world.names[m]
  BY <1>2, <1>6, <1>9, SlotsApart DEF ChangedAt, SameElse
<1>10. ASSUME Live, NEW k \in Effects, journals[active][k] \in Open, active \in Txns,
              NEW x \in HoldersOf(program) \ {p}
       PROVE  /\ w.names[x] = world.names[x]
              /\ \/ At(w, x) = At(world, x)
                 \/ /\ k \in Movers(program) /\ world.names[k] # NoObj
                    /\ world.names[x] = world.names[p] /\ world.names[x] # NoObj
                    /\ x \in Touches(program[k]) /\ p \in Touches(program[k])
  <2>1. PICK j : j = journals[active]
    OBVIOUS
  <2>2. Distinct(program, world, j)
    BY <1>10, <2>1 DEF AnchorSafe, AnchorInv, NamesInv, NamesOK
  <2>3. /\ w.names[x] = world.names[x]
        /\ \/ At(w, x) = At(world, x)
           \/ \E m \in Movers(program) : /\ SplitBy(program, world, j, m, world.names[x])
                                         /\ world.names[x] = world.names[p] /\ world.names[x] # NoObj
                                         /\ x \in Touches(program[m]) /\ p \in Touches(program[m])
    <3>1. /\ Formed(program) /\ ChangedAt(world, w, p) /\ p \in Paths
          /\ x \in HoldersOf(program) \ {p}
      BY <1>2, <1>3, <1>6, <1>10
    <3> QED
      BY <2>2, <3>1, SharedWith
  <2>4. \A m \in Movers(program) : j[m] \in Open => m = k
    BY <1>7, <1>10, <2>1 DEF Movers
  <2> QED
    BY <2>3, <2>4 DEF SplitBy
<1>11. ASSUME Live, NEW k \in Effects, journals[active][k] \in Open, active \in Txns,
              program[k].kind # "move"
       PROVE  At(w, k) = At(world, k)
  <2>1. k \in HoldersOf(program) \ {p} /\ k \notin Movers(program)
    BY <1>2, <1>11, SlotsApart DEF HoldersOf, Movers
  <2> QED
    BY <1>10, <1>11, <2>1
<1>12. \A k \in Effects : Touches(program[k]) \subseteq Paths /\ Touches(program[k]) \subseteq HoldersOf(program)
  BY <1>3 DEF Formed, WellFormed, HoldersOf
<1>13. ASSUME Live, NEW k \in Effects, NEW x \in Touches(program[k]), At(w, x) = At(world, x),
              w.names[x] = world.names[x], Stands(program, world, Under(program, k, x), x)
       PROVE  Stands(program, w, Under(program, k, x), x)
  <2>1. Under(program, k, x) \in SUBSET Effects
    BY DEF Under
  <2> QED
    BY <1>9, <1>13, <2>1, StandsKept
<1>14. ApplyingInv'
  <2>1. SUFFICES ASSUME pc = "apply", NEW k \in Effects, journals[active][k] = "started",
                        NEW x \in Touches(program[k]) \ (touched \cup {p})
                 PROVE  ApplyingAt(k, x)'
    BY <1>2 DEF ApplyingInv
  <2>2. active \in Txns /\ Live /\ NoneShared(program, world)
    BY <2>1, ApplyFacts DEF AnchorSafe
  <2>3. ApplyingAt(k, x)
    BY <2>1 DEF RestoreInv, ApplyingInv
  <2>4. x \in HoldersOf(program) \ {p} /\ p \in HoldersOf(program)
    BY <1>2, <1>12, <2>1 DEF HoldersOf
  <2>5. w.names[x] = world.names[x] /\ At(w, x) = At(world, x)
    BY <1>10, <2>1, <2>2, <2>4 DEF NoneShared, Open
  <2>6. w.names[k] = world.names[k] /\ \A m \in Effects : w.names[m] = world.names[m]
    BY <1>9, <2>2
  <2>7. program[k].kind # "move" => At(w, k) = At(world, k)
    BY <1>11, <2>1, <2>2 DEF Open
  <2>8. Stands(program, world, Under(program, k, x), x) => Stands(program, w, Under(program, k, x), x)
    BY <1>13, <2>1, <2>2, <2>5
  <2>9. High(program, world, k, x) => High(program, w, k, x)
    BY <1>3, <2>5, <2>6, <2>7, HighKept
  <2> QED
    BY <1>2, <1>4, <2>3, <2>5, <2>6, <2>8, <2>9 DEF ApplyingAt, Free
<1>15. SettlingInv'
  <2>1. SUFFICES ASSUME pc = "plan", plan = "rollback", NEW k \in Effects,
                        journals[active][k] \in Open
                 PROVE  /\ (steps[k] = <<>> \/ LastDone(k)) => Settled(k)'
                        /\ Due(k) /\ stage = "mutate" => Authorized(k)'
    <3>1. \A k \in Effects : (LastDone(k)' <=> LastDone(k)) /\ (Due(k)' <=> Due(k))
      BY <1>2 DEF LastDone, Due, Step
    <3> QED
      BY <1>2, <2>1, <3>1 DEF SettlingInv
  <2>2. active \in Txns /\ Live
    BY <2>1, RollbackLive DEF AnchorSafe
  <2>3. /\ steps[k] = <<>> \/ LastDone(k) => Settled(k)
        /\ Due(k) /\ stage = "mutate" => Authorized(k)
    BY <2>1 DEF RestoreInv, SettlingInv
  <2>4. PICK e : e = program[k]
    OBVIOUS
  <2>5. /\ Touches(program[k]) = {e.path, e.dest} /\ e.path \in Paths /\ e.dest \in Paths
        /\ w.names[k] = world.names[k]
    BY <1>3, <1>9, <2>2, <2>4, NamesAre
  <2>6. ASSUME NEW x \in Touches(program[k]) \ {p}
        PROVE  /\ w.names[x] = world.names[x]
               /\ \/ At(w, x) = At(world, x)
                  \/ /\ e.kind = "move" /\ world.names[k] # NoObj
                     /\ world.names[x] = world.names[p] /\ world.names[x] # NoObj
                     /\ p \in Touches(program[k])
    <3>1. x \in HoldersOf(program) \ {p}
      BY <1>12, <2>6
    <3> QED
      BY <1>10, <2>1, <2>2, <2>4, <3>1 DEF Movers
  <2>7. Settled(k) => Settled(k)'
    <3>1. SUFFICES ASSUME Settled(k) PROVE Settled(k)'
      OBVIOUS
    <3>2. ASSUME NEW x \in Touches(program[k]) \ (touched \cup {p})
          PROVE  Stands(program, w, Under(program, k, x), x)
      <4>1. Stands(program, world, Under(program, k, x), x)
        BY <3>1, <3>2 DEF Settled
      <4>2. w.names[x] = world.names[x] /\ At(w, x) = At(world, x)
        BY <2>4, <2>6, <3>1, <3>2 DEF Settled, Free
      <4> QED
        BY <1>13, <2>2, <3>2, <4>1, <4>2
    <3> QED
      BY <1>2, <1>4, <2>5, <3>1, <3>2 DEF Settled, Free
  <2>8. ASSUME Due(k), stage = "mutate" PROVE Authorized(k)'
    <3>1. Authorized(k)
      BY <2>3, <2>8
    <3>2. k \in Movers(program) /\ Step(k).op = "drop" =>
            world.names[e.path] # world.names[e.dest] \/ world.names[e.path] = NoObj
      BY <2>1, <2>4, <2>8 DEF AnchorSafe, AnchorInv, UndoInv, UndoingNames
    <3>3. e.kind # "move" /\ e.path \notin touched \cup {p} => At(w, e.path) = At(world, e.path)
      BY <2>5, <2>6
    <3>4. e.dest \notin touched \cup {p} => w.names[e.dest] = world.names[e.dest]
      BY <2>5, <2>6
    <3>5. ASSUME e.kind = "move", Step(k).op = "drop", e.path \notin touched \cup {p}
          PROVE  w.names[e.path] = world.names[e.path] /\ At(w, e.path) = At(world, e.path)
      <4>1. p = e.dest => world.names[e.path] # world.names[p] \/ world.names[e.path] = NoObj
        BY <2>4, <3>2, <3>5 DEF Movers
      <4> QED
        BY <2>5, <2>6, <3>5, <4>1
    <3> QED
      BY <1>2, <1>4, <2>4, <2>5, <3>1, <3>3, <3>4, <3>5 DEF Authorized, Step, Free
  <2> QED
    BY <2>3, <2>7, <2>8
<1> QED
  BY <1>8, <1>14, <1>15 DEF RestoreInv

\* At first every path is as it is declared to be.
LEMMA RestoreInit == EInit => RestoreInv
<1> SUFFICES ASSUME EInit PROVE RestoreInv
  OBVIOUS
<1>1. /\ pc = "idle" /\ plan = "none" /\ world = InitialWorld(program)
      /\ \A t \in Txns : journals[t] = [i \in Effects |-> "pending"]
  BY DEF EInit, Init
<1>2. Declared(program) \subseteq Paths
  BY EngineInvInit DEF EngineInv, FilesInv, ProgramOK, WellFormed, Declared
<1>3. ApplyingInv /\ SettlingInv
  BY <1>1 DEF ApplyingInv, SettlingInv
<1>4. ASSUME NEW t \in Txns PROVE PathsOK(program, world, journals[t], touched)
  <2>1. \A k \in Effects : journals[t][k] = "pending"
    BY <1>1
  <2>2. ASSUME NEW x \in Declared(program)
        PROVE  Stands(program, world, DoneOn(program, journals[t], x), x)
    <3>1. DoneOn(program, journals[t], x) = {}
      BY <2>1 DEF DoneOn
    <3>2. At(world, x) = Initial(program, x)
      <4>1. x \in Named /\ x \in Objects /\ x # NoObj
        BY <1>2, NamesAssumption DEF Named, Objects
      <4> QED
        BY <1>1, <4>1 DEF InitialWorld, At, Named
    <3> QED
      BY <1>1, <3>1, <3>2 DEF Stands, StateLeft, Is, NameLeft
  <2> QED
    BY <2>1, <2>2 DEF PathsOK, Open
<1> QED
  BY <1>3, <1>4 DEF RestoreInv, PathsInv

\* RestoreInv is inductive relative to AnchorSafe.
LEMMA RestoreStep ==
  ASSUME AnchorSafe, RestoreInv, [ENext]_evars
  PROVE  RestoreInv'
<1>1. Live' => Live
  BY LiveKept, EngineStep DEF AnchorSafe, EngineInv, ProtocolInv
<1>2. CASE Calm
  BY <1>1, <1>2, CalmRestore DEF AnchorSafe
<1>3. CASE EClassify
  BY <1>1, <1>3, ClassifyRestore
<1>4. CASE Outside
  BY <1>4, OutsideRestore
<1>5. CASE \E i \in Effects : EffectStep(i)
  <2>1. PICK k \in Effects : EffectStep(k)
    BY <1>5
  <2>2. CASE EStartEffect(k) \/ EFinishEffect(k)
    BY <2>2, ForwardRestore
  <2>3. CASE ApplyEffect(k)
    BY <2>3, ApplyRestore
  <2>4. CASE Quiet(PersistUndoStarted(k)) \/ EPersistUndone(k)
    BY <2>4, BackwardRestore
  <2>5. CASE AuthorizeStep(k) \/ ConfirmStep(k)
    BY <2>5, AuthorizeRestore
  <2>6. CASE MutateStep(k)
    BY <2>6, MutateRestore
  <2>7. CASE PowerCut(k)
    BY <2>7, PowerCutRestore
  <2> QED
    BY <2>1, <2>2, <2>3, <2>4, <2>5, <2>6, <2>7 DEF EffectStep
<1> QED
  BY <1>2, <1>3, <1>4, <1>5, EngineCases DEF AnchorSafe

\* Both invariants hold in every reachable state.
LEMMA RestoreAlways == ESpec => [](AnchorSafe /\ RestoreInv)
<1>1. EInit => RestoreInv
  BY RestoreInit
<1>2. AnchorSafe /\ RestoreInv /\ [ENext]_evars => RestoreInv'
  BY RestoreStep
<1> QED
  BY <1>1, <1>2, AnchorAlways, PTL DEF ESpec

(* When every effect is unwound, what stands at a path is what was there   *)
(* first.                                                                  *)
LEMMA RestoredIs ==
  ASSUME AnchorSafe, RestoreInv
  PROVE  RollbackRestores
<1> SUFFICES ASSUME NEW t \in Txns, state[t] = "rolled_back", NEW x \in Declared(program) \ touched
             PROVE  /\ At(world, x) = Initial(program, x)
                    /\ Rewritten(x) \/ world.names[x] = InitialWorld(program).names[x]
  BY DEF RollbackRestores
<1>1. \A i \in Effects : journals[t][i] \in Unwound
  BY DEF AnchorSafe, EngineInv, ProtocolInv, RecordInv, JournalsReachable, ReachableJournal,
     RolledBackLanguage, LastState, Unwound
<1>2. Live
  BY OneTransaction DEF Live
<1>3. PathsOK(program, world, journals[t], touched)
  BY <1>2 DEF RestoreInv, PathsInv
<1>4. /\ \A i \in Effects : journals[t][i] \notin Open
      /\ DoneOn(program, journals[t], x) = {}
  BY <1>1 DEF Unwound, Open, DoneOn
<1>5. Stands(program, world, {}, x)
  BY <1>3, <1>4 DEF PathsOK
<1> QED
  BY <1>5 DEF Stands, StateLeft, Is, NameLeft, RewrittenIn, Rewritten

(* A transaction that is rolled back leaves every path that the outside    *)
(* writer did not change as it was before, the very same object in its     *)
(* initial state, through every failure, crash, power cut and repeated     *)
(* recovery (variants.py, settle.py); for every compiled specification and *)
(* every number of effects, kills and outside changes.                     *)
THEOREM RollbackHolds == ESpec => []RollbackRestores
<1>1. AnchorSafe /\ RestoreInv => RollbackRestores
  BY RestoredIs
<1> QED
  BY <1>1, RestoreAlways, PTL
=============================================================================
