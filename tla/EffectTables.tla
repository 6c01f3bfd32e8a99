---------------------------- MODULE EffectTables ----------------------------
(***************************************************************************)
(* The decisions of recovery about what is on disk, as pure operators over *)
(* a world (core/recovery/variants.py and classifier.py): what each effect *)
(* variant does about a joint observation of its live paths and its        *)
(* scratch slot, the plan those decisions add up to, and the settlement    *)
(* operations the plan is made of (coordinator/effects/settle.py).         *)
(*                                                                         *)
(* A world names objects.  A slot is a live path or the scratch slot of an *)
(* effect (staging, tombstone, anchor, work), written as the effect's      *)
(* index; names[s] is the object at slot s and inode[o] its state, so two  *)
(* hard links share one state.  A state is what a fingerprint tells apart: *)
(* "absent", a file state (content, mode and length together), "dir" (a    *)
(* directory of the declared mode) or "scaffold" (one still at 0700).      *)
(* stuffed holds the directories with a child the specification does not   *)
(* declare.  Symbolic links and unreadable entries are left out.           *)
(***************************************************************************)
EXTENDS RecoveryJournal, Sequences, FiniteSets

CONSTANTS
  Paths,                  \* live paths a specification may declare
  Parent,                 \* path -> a path, or a directory that always exists
  NoObj,                  \* the name is free
  Prefixes,               \* file state -> states a partly written copy may have
  Raw                     \* file state -> all bytes written, mode still 0600

Kinds == {"replace", "create", "delete", "move", "mkdir"}

(* An effect is [kind, path, dest, pre, post]; dest is path but for a      *)
(* move, whose source_pre is its pre.                                      *)
Touches(e) == {e.path, e.dest}

PreAt(e, p) == IF e.kind = "move" /\ p = e.dest THEN "absent" ELSE e.pre

PostAt(e, p) == IF e.kind = "move" /\ p = e.dest THEN e.pre ELSE e.post

\* What a variant has no field for is fixed, and its type fixes the rest.
WellFormed(e) ==
  /\ e.kind \in Kinds /\ Touches(e) \subseteq Paths
  /\ e.kind # "move" => e.dest = e.path
  /\ e.pre = "absent" <=> e.kind \in {"create", "mkdir"}
  /\ e.post = "absent" <=> e.kind \in {"delete", "move"}
  /\ e.kind = "mkdir" => e.post = "dir"
  /\ "dir" \in {e.pre, e.post} => e.kind = "mkdir"

Occurrences(prog, p) == {i \in Effects : p \in Touches(prog[i])}

First(S) == CHOOSE i \in S : \A k \in S : i <= k
Last(S) == CHOOSE i \in S : \A k \in S : i >= k

Declared(prog) == UNION {Touches(prog[i]) : i \in Effects}
Initial(prog, p) == PreAt(prog[First(Occurrences(prog, p))], p)
Final(prog, p) == PostAt(prog[Last(Occurrences(prog, p))], p)

(* What the compiler demands of an effect order: every path's timeline is  *)
(* continuous, nothing exists beneath a path that is not a directory, and  *)
(* a directory is created before anything beneath it is touched.           *)
Compiles(prog) ==
  /\ \A i, k \in Effects : \A p \in Touches(prog[i]) \cap Touches(prog[k]) :
       i < k /\ (\A m \in Occurrences(prog, p) : m <= i \/ m >= k)
         => PostAt(prog[i], p) = PreAt(prog[k], p)
  /\ \A i \in Effects : prog[i].kind = "move" => prog[i].path # prog[i].dest
  /\ \A p \in Declared(prog) : Parent[p] \in Declared(prog) =>
       /\ Initial(prog, Parent[p]) # "dir" => Initial(prog, p) = "absent"
       /\ Final(prog, Parent[p]) # "dir" => Final(prog, p) = "absent"
       /\ \A i \in Occurrences(prog, Parent[p]) : prog[i].kind = "mkdir" =>
            \A k \in Occurrences(prog, p) : i < k

-----------------------------------------------------------------------------
(* Observation.                                                            *)

At(w, s) == IF w.names[s] = NoObj THEN "absent" ELSE w.inode[w.names[s]]

SameObject(w, a, b) == w.names[a] # NoObj /\ w.names[a] = w.names[b]

\* Work directories live outside the project tree.
SlotParent(prog, s) ==
  IF s \in Paths THEN Parent[s]
  ELSE IF prog[s].kind = "mkdir" THEN NoObj ELSE Parent[prog[s].path]

Children(prog, w, p) ==
  {s \in Paths \cup Effects : SlotParent(prog, s) = p /\ w.names[s] # NoObj}

EmptyDirectory(prog, w, s) ==
  w.names[s] \notin w.stuffed /\ (s \in Paths => Children(prog, w, s) = {})

(* What authorization compares: the states, the identity relations, the    *)
(* undeclared children and the occupancy.  Identities themselves are       *)
(* tokens of one observation pass and are not compared.                    *)
Joint(prog, w, slots) ==
  [states |-> [s \in slots |-> At(w, s)],
   same |-> {x \in slots \X slots : SameObject(w, x[1], x[2])},
   unmodeled |-> {s \in slots : w.names[s] \in w.stuffed},
   occupied |-> [p \in slots \cap Paths |-> Children(prog, w, p)]]

EffectSlots(prog, i) == Touches(prog[i]) \cup {i}

\* The build relation is read only while the effect is started.
PartlyBuilt(prog, w, j, i) ==
  /\ j[i] = "started" /\ prog[i].kind \in {"create", "replace"}
  /\ prog[i].kind = "replace" => At(w, prog[i].path) = prog[i].pre
  /\ At(w, i) \in Prefixes[prog[i].post]

EntryClass(st, pre, post, prefix) ==
  IF st = "absent" THEN "absent"
  ELSE IF st = pre THEN "pre"
  ELSE IF st = post THEN "post"
  ELSE IF prefix THEN "prefix"
  ELSE "external"

-----------------------------------------------------------------------------
(* Decisions.  A table is a set of rows; no matching row is a halt.        *)

Halt == [halt |-> TRUE, refused |-> FALSE, ops |-> <<>>]
Undo(ops) == [halt |-> FALSE, refused |-> FALSE, ops |-> ops]
Refuse(ops) == [halt |-> FALSE, refused |-> TRUE, ops |-> ops]

Decide(rows, key) ==
  IF \E r \in rows : key \in r[1] THEN (CHOOSE r \in rows : key \in r[1])[2] ELSE Halt

On(j, live, scratch, decision) == <<j \X live \X scratch, decision>>

\* Mutant: once the new file is live, whatever was displaced is dropped.
BugReplaceRows ==
  {On({"started"}, {"pre"}, {"absent"}, Undo(<<>>)),
   On({"started"}, {"pre"}, {"prefix", "post"}, Undo(<<"drop">>)),
   On({"started", "done", "undo_started"}, {"post"}, {"pre", "external"}, Undo(<<"drop">>)),
   On({"undo_started"}, {"pre"}, {"post"}, Undo(<<"drop">>)),
   On({"undo_started"}, {"pre"}, {"absent"}, Undo(<<>>))}

ReplaceRows ==
  {On({"started"}, {"pre"}, {"absent"}, Undo(<<>>)),
   On({"started"}, {"pre"}, {"prefix", "post"}, Undo(<<"drop">>)),
   On({"started"}, {"post"}, {"external"}, Refuse(<<"exchange", "drop">>)),
   On({"started", "done", "undo_started"}, {"post"}, {"pre"}, Undo(<<"exchange", "drop">>)),
   On({"undo_started"}, {"pre"}, {"post"}, Undo(<<"drop">>)),
   On({"undo_started"}, {"pre"}, {"absent"}, Undo(<<>>))}

\* pre = post: the live entry must be it, the staging entry may be.
NoopReplaceRows ==
  {On({"started", "undo_started"}, {"pre"}, {"absent"}, Undo(<<>>)),
   On({"started"}, {"pre"}, {"prefix"}, Undo(<<"drop">>)),
   On({"started", "done", "undo_started"}, {"pre"}, {"pre"}, Undo(<<"drop">>))}

CreateRows ==
  {On({"started", "undo_started"}, {"absent"}, {"absent"}, Undo(<<>>)),
   On({"started"}, {"absent"}, {"prefix", "post"}, Undo(<<"drop">>)),
   On({"undo_started"}, {"absent"}, {"post"}, Undo(<<"drop">>)),
   On({"started", "done", "undo_started"}, {"post"}, {"absent"}, Undo(<<"take", "drop">>)),
   On({"started"}, {"post", "external"}, {"prefix", "post"}, Refuse(<<"drop">>)),
   On({"started"}, {"external"}, {"absent"}, Refuse(<<>>))}

\* Mutant: a delete that had not begun its rename is not expected.
BugDeleteRows ==
  {On({"undo_started"}, {"pre"}, {"absent"}, Undo(<<>>)),
   On({"started", "done", "undo_started"}, {"absent"}, {"pre"}, Undo(<<"restore">>))}

DeleteRows ==
  {On({"started", "undo_started"}, {"pre"}, {"absent"}, Undo(<<>>)),
   On({"started", "done", "undo_started"}, {"absent"}, {"pre"}, Undo(<<"restore">>))}

FileDecision(prog, w, j, i) ==
  LET e == prog[i]
      live == EntryClass(At(w, e.path), e.pre, e.post, FALSE)
      scratch == EntryClass(At(w, i), e.pre, e.post, PartlyBuilt(prog, w, j, i))
      rows == CASE e.kind = "replace" /\ e.pre # e.post -> ReplaceRows
                [] e.kind = "replace" /\ e.pre = e.post -> NoopReplaceRows
                [] e.kind = "create" -> CreateRows
                [] e.kind = "delete" -> DeleteRows
  IN Decide(rows, <<j[i], live, scratch>>)

\* Which of source and destination is the anchor's object.
Anchored(w, e, i) ==
  {end \in {"source", "destination"} :
     SameObject(w, i, IF end = "source" THEN e.path ELSE e.dest)}

Open == {"started", "undo_started"}

MoveDecision(prog, w, j, i) ==
  LET e == prog[i]
      class(s) == EntryClass(At(w, s), e.pre, e.pre, FALSE)
      is(source, destination, anchor) ==
        <<class(e.path), class(e.dest), class(i)>> = <<source, destination, anchor>>
      with(ends) == ends \subseteq Anchored(w, e, i)
  IN CASE is("absent", "pre", "pre") /\ with({"destination"}) -> Undo(<<"move_back", "drop">>)
       [] j[i] \in Open /\ is("pre", "absent", "absent") -> Undo(<<>>)
       [] j[i] \in Open /\ is("pre", "absent", "pre") /\ with({"source"}) -> Undo(<<"drop">>)
       [] j[i] \in Open /\ is("pre", "pre", "pre") /\ with({"source", "destination"})
            -> Undo(<<"drop_destination", "drop">>)
       [] j[i] \in Open /\ is("absent", "absent", "pre") -> Undo(<<"relink", "drop">>)
       [] j[i] \in Open /\ is("pre", "external", "pre") /\ with({"source"}) -> Refuse(<<"drop">>)
       [] OTHER -> Halt

DirectoryDecision(prog, w, j, i) ==
  LET e == prog[i]
      live == EntryClass(At(w, e.path), "absent", e.post, FALSE)
      work == EntryClass(At(w, i), "absent", e.post, FALSE)
      workIsOurs == work = "post" \/ (At(w, i) = "scaffold" /\ w.names[i] \notin w.stuffed)
      same == SameObject(w, e.path, i)
      emptyLive == EmptyDirectory(prog, w, e.path)
      emptyWork == EmptyDirectory(prog, w, i)
  IN CASE live = "post" /\ work = "absent" /\ emptyLive -> Undo(<<"rmdir_live">>)
       [] j[i] \in Open /\ live = "absent" /\ work = "absent" -> Undo(<<>>)
       [] j[i] \in Open /\ live = "absent" /\ workIsOurs /\ emptyWork -> Undo(<<"drop">>)
       [] j[i] \in Open /\ live = "post" /\ workIsOurs /\ same /\ emptyLive /\ emptyWork
            -> Undo(<<"drop", "rmdir_live">>)
       [] j[i] \in Open /\ live \in {"post", "external"} /\ workIsOurs /\ ~same /\ emptyWork
            -> Refuse(<<"drop">>)
       [] OTHER -> Halt

(* A pending or undone effect must stand at the frontier of its paths: the *)
(* state the last effect still standing on the path leaves behind.         *)
Frontier(prog, j, p) ==
  LET standing == {i \in Occurrences(prog, p) : j[i] \notin Unwound}
  IN IF standing = {} THEN Initial(prog, p) ELSE PostAt(prog[Last(standing)], p)

AtFrontier(prog, w, j, i) ==
  \A p \in Touches(prog[i]) : At(w, p) = Frontier(prog, j, p)

ClassifyEffect(prog, w, j, i) ==
  CASE j[i] = "pending" ->
         IF At(w, i) # "absent" THEN Halt
         ELSE IF AtFrontier(prog, w, j, i) THEN Undo(<<>>) ELSE Refuse(<<>>)
    [] j[i] = "undone" ->
         IF At(w, i) = "absent" /\ AtFrontier(prog, w, j, i) THEN Undo(<<>>) ELSE Halt
    [] j[i] \notin Unwound /\ prog[i].kind = "move" -> MoveDecision(prog, w, j, i)
    [] j[i] \notin Unwound /\ prog[i].kind = "mkdir" -> DirectoryDecision(prog, w, j, i)
    [] j[i] \notin Unwound /\ prog[i].kind \notin {"move", "mkdir"} ->
         FileDecision(prog, w, j, i)

-----------------------------------------------------------------------------
(* The settlement operations.  One that is not Possible is a system call   *)
(* that fails (EEXIST, ENOENT, ENOTEMPTY).                                 *)

Rename(w, a, b) == [w EXCEPT !.names[b] = w.names[a], !.names[a] = NoObj]
Unlink(w, s) == [w EXCEPT !.names[s] = NoObj]

\* Mutant: the live name is removed in place of the scratch name.
BugDropScratch(prog, w, i) == Unlink(w, prog[i].path)

DropScratch(prog, w, i) == Unlink(w, i)

Apply(prog, w, op, i) ==
  LET e == prog[i]
  IN CASE op = "exchange" ->
            [w EXCEPT !.names[e.path] = w.names[i], !.names[i] = w.names[e.path]]
       [] op = "take" -> Rename(w, e.path, i)
       [] op = "restore" -> Rename(w, i, e.path)
       [] op = "move_back" -> Rename(w, e.dest, e.path)
       [] op = "relink" -> [w EXCEPT !.names[e.path] = w.names[i]]
       [] op = "drop_destination" -> Unlink(w, e.dest)
       [] op = "rmdir_live" -> Unlink(w, e.path)
       [] op = "drop" -> DropScratch(prog, w, i)

Free(w, s) == w.names[s] = NoObj

(* The cells of settle.py: what may be done about each kind of effect.     *)
Cells ==
  [replace |-> {"exchange", "drop"}, create |-> {"take", "drop"},
   delete |-> {"restore", "drop"},
   move |-> {"move_back", "relink", "drop_destination", "drop"},
   mkdir |-> {"rmdir_live", "drop"}]

Possible(prog, w, op, i) ==
  LET e == prog[i]
  IN CASE op = "exchange" -> ~Free(w, e.path) /\ ~Free(w, i)
       [] op = "take" -> ~Free(w, e.path) /\ Free(w, i)
       [] op = "restore" -> ~Free(w, i) /\ Free(w, e.path)
       [] op = "move_back" -> ~Free(w, e.dest) /\ Free(w, e.path)
       [] op = "relink" -> ~Free(w, i) /\ Free(w, e.path)
       [] op = "drop_destination" -> ~Free(w, e.dest)
       [] op = "rmdir_live" -> At(w, e.path) = "dir" /\ EmptyDirectory(prog, w, e.path)
       [] op = "drop" -> ~Free(w, i) /\ EmptyDirectory(prog, w, i)

-----------------------------------------------------------------------------
(* Plans.  Every mutating step carries the joint observation it expects    *)
(* before and after it, read off the projected world (_bind_effect_steps). *)

BindSteps(prog, w, i, slots, ops) ==
  LET world[k \in 0..Len(ops)] ==
        IF k = 0 THEN w ELSE Apply(prog, world[k - 1], ops[k], i)
  IN [steps |-> [k \in 1..Len(ops) |->
                   [op |-> ops[k], slots |-> slots,
                    before |-> Joint(prog, world[k - 1], slots),
                    after |-> Joint(prog, world[k], slots)]],
      world |-> world[Len(ops)]]

NoSteps == [i \in Effects |-> <<>>]

(* _rollback_plan: from the last effect to the first, each classified in   *)
(* the world and with the journals its successors' steps leave behind.     *)
RollbackPlan(prog, w, j) ==
  LET cursor[k \in 0..N] ==
        IF k = 0
        THEN [world |-> w, j |-> j, halt |-> FALSE, refused |-> FALSE, steps |-> NoSteps]
        ELSE LET c == cursor[k - 1]
                 i == N + 1 - k
                 d == ClassifyEffect(prog, c.world, c.j, i)
                 bound == BindSteps(prog, c.world, i, EffectSlots(prog, i), d.ops)
             IN IF c.halt THEN c
                ELSE [world |-> bound.world,
                      j |-> [c.j EXCEPT ![i] = IF @ = "pending" THEN @ ELSE "undone"],
                      halt |-> d.halt,
                      refused |-> c.refused \/ d.refused,
                      steps |-> [c.steps EXCEPT ![i] = bound.steps]]
  IN cursor[N]

\* Mutant: an entry that an interrupted cleanup has removed is missed.
BugCleanupDecision(prog, w, i) ==
  IF prog[i].kind \in {"create", "mkdir"} /\ At(w, i) = "absent" THEN Undo(<<>>)
  ELSE IF prog[i].kind \in {"create", "mkdir"} \/ At(w, i) # prog[i].pre THEN Halt
  ELSE Undo(<<"drop">>)

(* _committed_plan: the complete final surface, then each scratch slot on  *)
(* its own (classify_committed_cleanup).                                   *)
CleanupDecision(prog, w, i) ==
  IF At(w, i) = "absent" THEN Undo(<<>>)
  ELSE IF prog[i].kind \in {"create", "mkdir"} \/ At(w, i) # prog[i].pre THEN Halt
  ELSE Undo(<<"drop">>)

CommittedPlan(prog, w) ==
  [halt |-> \/ \E p \in Declared(prog) : At(w, p) # Final(prog, p)
            \/ \E i \in Effects : CleanupDecision(prog, w, i).halt,
   steps |-> [i \in Effects |->
                BindSteps(prog, w, i, {i}, CleanupDecision(prog, w, i).ops).steps]]
=============================================================================
