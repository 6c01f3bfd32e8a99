----------------------------- MODULE PlanReducer -----------------------------
(***************************************************************************)
(* The projection of recovery plans: what classification observes, the     *)
(* steps it emits (core/recovery/variants.py, classifier.py), and the      *)
(* reducer that runs them over the observation before any of them is run   *)
(* over the files (core/recovery/reducer.py, snapshot.py).  A step the     *)
(* reducer does not accept is a ProtocolError in the middle of a recovery. *)
(*                                                                         *)
(* EffectTables computes plans with Apply, what the system calls do to the *)
(* files; here the steps rewrite observed entries, as the code's do, so    *)
(* that the two can be compared.  Slots are those of EffectTables.  Left   *)
(* out: the runtime types of the values, PreserveExternal, which changes   *)
(* nothing, and the evidence of a diagnostic besides its journals.         *)
(***************************************************************************)
EXTENDS EffectTables

Seqs == INSTANCE SequencesExt

Slots(prog) == Declared(prog) \cup Effects

\* ObservedEntry; the object is the identity, a token of one observation.
ObservedAt(w, s) ==
  [state |-> At(w, s), object |-> w.names[s],
   unmodeled |-> w.names[s] # NoObj /\ w.names[s] \in w.stuffed]

AbsentEntry == [state |-> "absent", object |-> NoObj, unmodeled |-> FALSE]

IsDirectory(e) == e.state \in {"dir", "scaffold"}

TopologyChildren(prog, p) == {s \in Slots(prog) : SlotParent(prog, s) = p}

(* Where the observation says how a staged file compares with what is      *)
(* being built, and nowhere else (_construction_relation_required).        *)
RelationRequired(prog, entries, j, i) ==
  LET e == prog[i] IN
  /\ j[i] = "started" /\ entries[i].state # "absent" /\ ~IsDirectory(entries[i])
  /\ \/ e.kind = "create"
     \/ e.kind = "replace" /\ entries[e.path].state = e.pre

Relation(prog, entries, j, i) ==
  IF ~RelationRequired(prog, entries, j, i) THEN "none"
  ELSE IF entries[i].state \in Prefixes[prog[i].post] THEN "strict_prefix" ELSE "other"

(* build_recovery_snapshot, of a record and a world.                       *)
Snapshot(prog, w, st, decision, j) ==
  LET entries == [s \in Slots(prog) |-> ObservedAt(w, s)] IN
  [state |-> st, decision |-> decision, journals |-> j, active |-> TRUE,
   result |-> "none", diagnostic |-> <<>>, entries |-> entries,
   relations |-> [i \in Effects |-> Relation(prog, entries, j, i)]]

\* Scratch entries stand beside the path they serve; every path is in the root.
TopologyHolds(prog) ==
  /\ \A i \in Effects : prog[i].kind # "mkdir" =>
       SlotParent(prog, i) = SlotParent(prog, prog[i].path)
  /\ \A p \in Declared(prog) : Parent[p] \in Paths => Parent[Parent[p]] \notin Paths

\* The checks of the factory that a projection could fail.
Constructible(prog, s) ==
  /\ TopologyHolds(prog)
  /\ \A i \in Effects :
       (s.relations[i] # "none") <=> RelationRequired(prog, s.entries, s.journals, i)
  /\ (s.result # "none") <=> (s.state = "rolled_back")
  /\ (s.diagnostic # <<>>) <=> (s.state = "halted")
  /\ \A d \in Seqs!ToSet(s.diagnostic) : d.decision = s.decision /\ d.journals = s.journals

-----------------------------------------------------------------------------
(* Joint observations: entries, build relation of the scratch slot, and    *)
(* the occupancy of the directories among the entries.                     *)

OccupancyOf(prog, entries, parents, unmodeled) ==
  [p \in parents |-> [children |-> {c \in TopologyChildren(prog, p) :
                                      entries[c].state # "absent"},
                      unmodeled |-> unmodeled[p]]]

OccupiedParents(prog, entries, slots) ==
  {s \in slots : IsDirectory(entries[s]) /\ TopologyChildren(prog, s) # {}}

JointEntries(prog, s, i, slots) ==
  LET parents == OccupiedParents(prog, s.entries, slots \ {i}) IN
  [entries |-> [x \in slots |-> s.entries[x]], relation |-> s.relations[i],
   occupancy |-> OccupancyOf(prog, s.entries, parents,
                             [p \in parents |-> s.entries[p].unmodeled])]

(* The entries a step promises (variants.py: _transform, _remove_scratch). *)
MovedEntries(e, i, op, entries) ==
  LET move(from, to) == [entries EXCEPT ![to] = entries[from], ![from] = AbsentEntry] IN
  CASE op = "exchange" ->
         [entries EXCEPT ![e.path] = entries[i], ![i] = entries[e.path]]
    [] op = "take" -> move(e.path, i)
    [] op = "restore" -> move(i, e.path)
    [] op = "move_back" -> move(e.dest, e.path)
    [] op = "relink" -> [entries EXCEPT ![e.path] = entries[i]]
    [] op = "drop_destination" -> [entries EXCEPT ![e.dest] = AbsentEntry]
    [] op = "rmdir_live" -> [entries EXCEPT ![e.path] = AbsentEntry]
    [] op = "drop" -> [entries EXCEPT ![i] = AbsentEntry]

PromisedAfter(e, i, op, before) ==
  [before EXCEPT !.entries = MovedEntries(e, i, op, @), !.relation = "none"]

\* A decision's steps: each starts from what the one before it promises.
ProvisionalSteps(prog, s, i, slots, ops) ==
  LET joint[k \in 0..Len(ops)] ==
        IF k = 0 THEN JointEntries(prog, s, i, slots)
        ELSE LET before == joint[k - 1] IN PromisedAfter(prog[i], i, ops[k], before)
  IN  [k \in 1..Len(ops) |->
         [type |-> IF ops[k] = "drop" THEN "remove_scratch" ELSE "transform",
          effect |-> i, before |-> joint[k - 1], after |-> joint[k]]]

-----------------------------------------------------------------------------
(* The reducer.                                                            *)

Rejected == [rejected |-> TRUE]
IsRejected(s) == s = Rejected

\* Mutant: a build relation stays when the effect is not being built any more.
BugNormalizedRelations(prog, s) == s.relations

NormalizedRelations(prog, s) ==
  [i \in Effects |->
     IF RelationRequired(prog, s.entries, s.journals, i) THEN s.relations[i] ELSE "none"]

(* _rebuild.                                                               *)
Rebuild(prog, s) ==
  LET normal == [s EXCEPT !.relations = NormalizedRelations(prog, s)] IN
  IF Constructible(prog, normal) THEN normal ELSE Rejected

TransactionEdges ==
  {<<st, "rolling_back">> : st \in {"prepared", "applying", "applied"}}
    \cup {<<"rolling_back", "rolled_back">>}
    \cup {<<st, "halted">> : st \in TransactionStates \ {"halted"}}

TransitionTransaction(prog, s, step) ==
  IF /\ step.from = s.state /\ <<step.from, step.to>> \in TransactionEdges
     /\ (step.result # "none") <=> (step.to = "rolled_back")
     /\ (step.diagnostic # <<>>) <=> (step.to = "halted")
     /\ \A d \in Seqs!ToSet(step.diagnostic) : d.pre_halt = step.from
  THEN Rebuild(prog, [s EXCEPT !.state = step.to, !.result = step.result,
                               !.diagnostic = step.diagnostic])
  ELSE Rejected

EffectEdges == {<<"started", "undo_started">>, <<"done", "undo_started">>,
                <<"undo_started", "undone">>}

TransitionEffect(prog, s, step) ==
  IF s.journals[step.effect] = step.from /\ <<step.from, step.to>> \in EffectEdges
  THEN Rebuild(prog, [s EXCEPT !.journals[step.effect] = step.to])
  ELSE Rejected

\* The parents of an occupancy are still directories in the observation.
Recomputable(prog, s, parents) ==
  \A p \in parents : IsDirectory(s.entries[p]) /\ TopologyChildren(prog, p) # {}

Coverage(prog, i, joint) ==
  /\ DOMAIN joint.entries = EffectSlots(prog, i)
  /\ DOMAIN joint.occupancy =
       OccupiedParents(prog, joint.entries, EffectSlots(prog, i) \ {i})

ScratchOnlyCoverage(prog, s, i, joint) ==
  /\ DOMAIN joint.entries = {i} /\ joint.occupancy = <<>>
  /\ s.state = "committed" /\ s.decision = "committed" /\ s.journals[i] = "done"
  /\ prog[i].kind \in {"replace", "delete", "move"}

\* No entry is made up, and no directory with something in it goes.
TransfersEntries(step) ==
  \A x \in DOMAIN step.after.entries :
    \/ step.after.entries[x] = AbsentEntry
    \/ \E y \in DOMAIN step.before.entries : step.before.entries[y] = step.after.entries[x]

RemovesEmpty(prog, step) ==
  prog[step.effect].kind = "mkdir" =>
    \A x \in DOMAIN step.before.entries :
      /\ step.before.entries[x] # AbsentEntry
      /\ \A y \in DOMAIN step.after.entries : step.after.entries[y] # step.before.entries[x]
      => /\ IsDirectory(step.before.entries[x]) /\ ~step.before.entries[x].unmodeled
         /\ x \in DOMAIN step.before.occupancy => step.before.occupancy[x].children = {}

\* Parents keep what is known of undeclared children; the rest is recomputed.
OccupancyCurrent(prog, entries, joint) ==
  joint.occupancy =
    OccupancyOf(prog, entries, DOMAIN joint.occupancy,
                [p \in DOMAIN joint.occupancy |-> joint.occupancy[p].unmodeled])

RemovesItsScratch(step) ==
  LET i == step.effect IN
  /\ step.before.entries[i] # AbsentEntry
  /\ step.after.entries = [step.before.entries EXCEPT ![i] = AbsentEntry]
  /\ step.after.relation = "none"

(* _transform_effect_tuple and _remove_scratch.                            *)
Mutate(prog, s, step) ==
  LET slots == DOMAIN step.after.entries
      merged == [x \in DOMAIN s.entries |->
                   IF x \in slots THEN step.after.entries[x] ELSE s.entries[x]]
      projected == [s EXCEPT !.entries = merged,
                             !.relations[step.effect] = step.after.relation]
  IN  IF /\ \/ Coverage(prog, step.effect, step.before)
            \/ /\ step.type = "remove_scratch"
               /\ ScratchOnlyCoverage(prog, s, step.effect, step.before)
         /\ DOMAIN step.after.entries = DOMAIN step.before.entries
         /\ DOMAIN step.after.occupancy = DOMAIN step.before.occupancy
         /\ Recomputable(prog, s, DOMAIN step.before.occupancy)
         /\ JointEntries(prog, s, step.effect, slots) = step.before
         /\ TransfersEntries(step) /\ RemovesEmpty(prog, step)
         /\ \A p \in DOMAIN step.after.occupancy :
              step.after.occupancy[p].unmodeled = step.before.occupancy[p].unmodeled
         /\ OccupancyCurrent(prog, merged, step.after)
         /\ step.type = "remove_scratch" => RemovesItsScratch(step)
      THEN Rebuild(prog, projected)
      ELSE Rejected

Detach(prog, s) ==
  IF s.active /\ s.state \in TerminalStates
  THEN Rebuild(prog, [s EXCEPT !.active = FALSE])
  ELSE Rejected

(* _apply_step.                                                            *)
Reduce(prog, s, step) ==
  IF IsRejected(s) THEN Rejected
  ELSE CASE step.type = "transaction" -> TransitionTransaction(prog, s, step)
         [] step.type = "effect" -> TransitionEffect(prog, s, step)
         [] step.type \in {"transform", "remove_scratch"} -> Mutate(prog, s, step)
         [] step.type = "detach" -> Detach(prog, s)

-----------------------------------------------------------------------------
(* The plan, projected as it is made.                                      *)

\* _bind_effect_steps: each step is bound to the cursor and run over it.
RunBound(prog, s, provisional) ==
  LET bind(c, step) ==
        [step EXCEPT !.before = JointEntries(prog, c, step.effect, DOMAIN step.before.entries)]
      run(c, step) ==
        IF \/ IsRejected(c)
           \/ ~Recomputable(prog, c, DOMAIN step.before.occupancy)
        THEN Rejected ELSE Reduce(prog, c, bind(c, step))
  IN  Seqs!FoldLeft(run, s, provisional)

Journalled(i, from, to) == [type |-> "effect", effect |-> i, from |-> from, to |-> to]

(* _reverse_effect_steps: the undo is opened before the first mutation and *)
(* closed after the last.                                                  *)
ReverseEffect(prog, s, i, ops) ==
  LET j == s.journals[i]
      opened == IF j \in {"started", "done"}
                THEN Reduce(prog, s, Journalled(i, j, "undo_started")) ELSE s
      undone == RunBound(prog, opened, ProvisionalSteps(prog, s, i, EffectSlots(prog, i), ops))
  IN  IF j \in Unwound THEN undone
      ELSE Reduce(prog, undone, Journalled(i, "undo_started", "undone"))

TransactionStep(from, to, outcome, diagnostic) ==
  [type |-> "transaction", from |-> from, to |-> to, result |-> outcome,
   diagnostic |-> diagnostic]
DetachStep == [type |-> "detach"]

\* ops[i] is what was decided about effect i.
ProjectRollback(prog, s, ops, outcome) ==
  LET begun == IF s.state = "rolling_back" THEN s
               ELSE Reduce(prog, s, TransactionStep(s.state, "rolling_back", "none", <<>>))
      cursor[k \in 0..N] ==
        IF k = 0 THEN begun
        ELSE LET c == cursor[k - 1] IN
             IF IsRejected(c) THEN Rejected
             ELSE ReverseEffect(prog, c, N + 1 - k, ops[N + 1 - k])
      ended == Reduce(prog, cursor[N],
                      TransactionStep("rolling_back", "rolled_back", outcome, <<>>))
  IN  Reduce(prog, ended, DetachStep)

ProjectCleanup(prog, s, ops) ==
  LET cursor[k \in 0..N] ==
        IF k = 0 THEN s
        ELSE LET c == cursor[k - 1] IN
             IF IsRejected(c) THEN Rejected
             ELSE RunBound(prog, c, ProvisionalSteps(prog, c, k, {k}, ops[k]))
  IN  Reduce(prog, cursor[N], DetachStep)

(* _halt_plan: one transition, whose diagnostic repeats the durable record *)
(* and not the projection that was reached.                                *)
ProjectHalt(prog, s) ==
  Reduce(prog, s, TransactionStep(s.state, "halted", "none",
    <<[pre_halt |-> s.state, decision |-> s.decision, journals |-> s.journals]>>))
=============================================================================
