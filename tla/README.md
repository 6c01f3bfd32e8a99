# atoms: a verification project in TLA+

`atoms` changes many files on disk as one recoverable transaction.  A caller
submits a `TransactionSpec` (the paths it expects to find, the paths it leaves,
a list of effects); the engine records its plan in a metadata store, registers
the transaction on a public chain of entries, applies the effects, decides,
publishes the outcome and cleans up.  After a crash the next process that takes
the project lock finishes, undoes or halts what it finds.

The models here follow the Python sources under `python/src/atoms`.  Every
definition that stands for code is listed with its lines in `PROJECT.json`
("map"); paths below are relative to `python/src/atoms` unless they start with
`docs/`, `python/` or `README.md`, which are the repository's own.

## 1. Inventory of the system

| Component | State it keeps | Operations | Talks to |
|---|---|---|---|
| Transaction execution (`coordinator/execute.py`, `prepare.py`, `commit.py`) | none of its own | admit, capture, prepare, register, apply each effect, verify, decide, settle, clean up; roll back on a caught failure | store, chain, effect executors |
| Recovery (`coordinator/recover.py`, `transitions.py`, `core/recovery/authorization.py`) | none of its own | resolve on every lease: reconcile store and chain, re-approve, observe, classify, run the plan step by step, each mutation authorized against a fresh observation | store, chain, classification, executors |
| Classification (`core/recovery/journal.py`, `variants.py`, `classifier.py`, `plan.py`) | pure | journal languages, decision tables of five effect variants, rollback and cleanup plans | recovery |
| Plan reducer and snapshots (`core/recovery/reducer.py`, `snapshot.py`, `diagnostics.py`) | pure | projection of a plan on the observed world, validation, diagnostics | classification |
| Effect executors (`coordinator/effects/*`) | scratch entries beside the live paths | create, replace, delete, move, mkdir; their undo and cleanup | project files |
| Metadata store (`store/schema.py`, `connection.py`, `records.py`) | transaction records, effect journals, `active` row, lifecycle rows; triggers | one SQLite transaction per update | everybody under the lock |
| Project chain (`chain/*`) | `.#~chain/`: content-addressed entries and one staging leaf | validate, repair the staging leaf, append | recovery, execution, commands |
| Blobs and workspaces (`store/blobs.py`, `workspace.py`, `coordinator/capture.py`, `lease.py`) | blob files, staging and work directories | capture, promote, reclaim | store, execution |
| Leases and lock (`coordinator/root.py`, `fs/lock.py`) | `flock` on `<metadata_root>/lock` | acquire, release | every command |
| Root lifecycle (`coordinator/lifecycle.py`, `commands.py`) | lifecycle row, root operation row with a phase, `.#~root-claim` | register, replicate, fork, resume, grant, migrate | store, chain, two locks |
| Specification compiler (`core/compiler.py`, `timeline.py`, `effects.py`) | pure | legality of an effect order | admission, recovery |
| Volume binding and probes (`fs/binding.py`, `volume.py`, `probe.py`, `approval.py`, `topology.py`) | cached certification | probe, certify, approve, diff | leases |
| Traversal, observation, audit (`fs/resolve.py`, `observe.py`, `audit.py`, `linux.py`) | descriptor tables | open, observe, mutate | executors, recovery |
| Canonical encoding (`core/canonical.py`, `identifiers.py`, `paths.py`) | pure | encode, decode | all |

What makes it hard: the store, the chain and the project files are three
substrates without a common commit, and a process may die between any two
updates of any of them; recovery is itself interrupted; a power cut keeps any
part of what was not flushed; an outside writer (a sync client, an editor)
changes the live paths whenever it likes.  What runs concurrently *inside* one
metadata root is little: the project lock admits one process at a time.  But a
project root can be claimed from several metadata roots, each with a lock of its
own, and the commands that make a root meet there with no common lock.

What correctness means, by component: the record, the journal and the chain
never contradict each other, and recovery can always reconcile them (protocol);
a transaction that is rolled back leaves no trace and a committed one leaves its
final surface (effects); nothing the outside writer put there is lost (effects);
recovery halts only where it must, and the plan it makes is one the reducer and
the executors accept (classification); every entry is published once and what is
relied on survives a power cut (chain); what inspection accepts is a chain, and
commands keep it one (chain); one metadata root at most becomes writable, and a
finished copy is what was asked for (root creation); a record is never without
the bytes it names, and no kill makes a store unusable (blobs and store).

## 2. The modules

```text
   AtomicOutcome                 the promise
        ^ refines (proved)
   TxnProtocol  ----- RecoveryJournal ----- JournalScan --.
        ^ each action has one of it as a conjunct          } MCScanners
   EffectEngine ----- EffectTables      ChainHistory -----'
                          ^                  |
                     PlanReducer       ChainInspection

   ChainDirectory                what TxnProtocol's "append an entry" is made of
   BlobStore -> StoreDatabase -> MetadataTree
                                 what its "prepare" is made of
   RootCreation -> RootRows      before there is a root to run transactions in
```

**RecoveryJournal** — the journal vectors of a transaction
(`core/recovery/journal.py`): the languages of each transaction state as
"which journal state may follow which", and the authority decision that comes
before every classification.

**JournalScan** — the loops of `journal.py` as they are written, with their
phase counter, as a state machine over every vector; `ScansAgree` compares them
with the relations the other modules use.

**TxnProtocol** — one record per transaction, the `active` row, the chain and
the lock holder's program counter.  Each SQLite transaction and each chain
publication is one action; `Crash` may fall between any two of them.  Forward
execution is `PrepareTransaction`, `AppendRegistration`, `BindRegistration`,
`BeginApplying`, `StartEffect`, `FinishEffect`, `FinishApplying`,
`VerifyCommittedSurface`, `DecideCommit`, `AppendSettlement`, `BindSettlement`;
a caught failure (`CaughtFailure`) goes to the same reconciliation and plan as a
new lease does, as `_roll_back` does.  Recovery is `Resolve*`, `Reconcile*`,
`ApproveTopology` / `AssemblyHalt`, `Classify*`, the persisted plan steps and
`DetachActive`.  The triggers of `store/schema.py` are the action formula
`Triggers`.  A chain entry's digest is its position; `0` is `NULL`.  The files
are abstract: whether an effect applies and what classification finds there are
nondeterministic.

**AtomicOutcome** — the promise: one open transaction at a time, announced
before it is decided, decided once, published once and truthfully, closed after
that.

**EffectTables** — the five effects as data, the timeline rules of the compiler,
observation, the decision table of each variant (`variants.py`), the rollback
and the cleanup plan (`classifier.py`) and what each mutation of a plan does
(`settle.py`).

**PlanReducer** — the same plans as the code projects them: classification emits
steps that say which observed entries they start from and which they promise,
and `reducer.py` runs them over the snapshot, checking each.  `EffectTables`
computes what the system calls do to files; here entries move between slots of
an observation.  `PlansProject` says the two agree, object for object, in every
state classification is reached in.

**EffectEngine** — `TxnProtocol` with the files in it.  A world is a function
from names (live paths and one scratch slot per effect) to objects, and from
objects to contents.  Applying an effect is a sequence of steps, one per system
call that changes a name, a content or a mode; a plan step is authorized,
executed and confirmed in three actions, as `run_plan` does, so that the outside
writer can step in between.  A step that finds the files changed is refused
(`RefuseStep`, `PLAN_PRECONDITION_CHANGED`), also where the system call has just
failed; one that the operating system denies with the files unchanged is
`DenyStep` (`MUTATION_DENIED`), which any due mutation may meet, in a rollback or
a cleanup; any other failure escapes (`EscapeStep`).  `PowerCut` falls between
the rename of a cross-directory move, or of its undo, and the flushes of its two
directories: each of the two names persists or does not, on its own.  What was
renamed is what the anchor names, or what the outside writer has put in its place
after the anchor was checked; a name the writer has changed since the rename is
taken to be flushed by the writer.  Contents are model values: a declared file state, some of its bytes (`Prefixes`), all its bytes at
the mode of a staging file (`Raw`), or a content nobody declares.

**ChainDirectory** — `.#~chain` as files: names and bytes as the kernel shows
them and as the disk holds them, appended to by `append_entry` system call by
system call, validated and repaired by every lease.  An envelope is modelled by
the sequence of entries that leads to it, since its digest commits to that.
What a power cut leaves follows `python/tests/persistence_model.py`: each name
and each file's bytes persist on their own, surely when flushed; a commit of the
store flushes no directory.  Write-back may happen at any moment.  The branches
of `_finish` and `append_entry` for an existing destination cannot be reached
under the lock and are left out.

**ChainInspection**, **ChainHistory** — the passes of `chain/inspect.py` as
operators on the rows of a scanned directory, in the order the code makes them;
and a history that intents, transactions and recovery extend through the gates
of `commands.py` while leaves are lost or turn up from a copy.  Digests are
numbers, as the passes go through them in ascending order.  Initial states are a
registered root, up to three leaves nobody put in order, and a directory in
which two copies fulfilled the one intent.  `CYCLE` cannot occur in a scanned
directory, where a name has one row (the comment in `_linearize` says so).

**MetadataTree**, **StoreDatabase**, **BlobStore** — the metadata root.
`MetadataTree` has its directory entries and files in memory and on disk, the
system calls on them and what a power cut leaves; `StoreDatabase` what
`open_store` does with `atoms.db` in whatever state it finds it; `BlobStore` the
reclamation at each lease entry, workspaces, capture, promotion and the one
store transaction that prepares a record.  SQLite is external: a COMMIT is
atomic and durable.  A txid is the number of the attempt: 128 random bits that
repeat are not modelled.  An I/O error has the effect of a kill.

**RootRows**, **RootCreation** — the two rows that say what a root is, with the
CHECKs and triggers of the schema as predicates on them; and the commands that
make a root (`register_root`, `replicate_root`, `fork_root`, `resume_fork_root`,
`grant_read_serviceability`, `migrate_root_to_lifecycle_v3`), as processes over
several metadata roots ("carriers") and one project root.  A process takes one
step per system call or store transaction that others can tell apart.  The tree
is a function from leaves to contents; the entries a replica copies are one
leaf.

**TxnProperties**, **EngineProperties**, **ChainProperties**,
**RootProperties**, **BlobProperties** hold the properties;
**MCTxnProtocol**, **MCEffectEngine**, **MCRootCreation** the small instances,
and **MCScanners** runs `JournalScan` and `ChainHistory` side by side.

Theorems are in **TxnProtocol_proofs**, **EffectEngine_proofs**,
**EngineRollback_proofs**, **EngineInterference_proofs**, **RootCreation_proofs**,
**BlobStore_proofs**, **ChainDirectory_proofs** and **Scanners_proofs**
(section 4).

## 3. The runs

| Run | What it checks | Bounds |
|---|---|---|
| `scanners` | `ScansAgree`, `InspectionAgrees`, `CommandsKeepChain` | every vector of five states over four effects: longer than any difference between two adjacent-pair rules can need; six entries, two transactions, one leaf lost or misplaced, after any of the initial histories |
| `txn_protocol` | `TypeOK`, `JournalsReachable`, `DecisionMatchesState`, `Reconcilable`, `LedgerTruthful`, `DetachedIsSettled`, `TriggersSilent`, `ImplementsAtomicOutcome`, `Settles` | two transactions of three effects, so that one follows another and there is a first, a middle and a last effect; two crashes, so that recovery itself is interrupted |
| `engine_effects` | `RollbackRestores`, `CommitInstalls`, `ScratchCleared`, `FinishedWorkVerifies`, `HaltsExplained`, `PlansProject`, `CommitCarriesThrough` | every pair of file effects over two paths in two directories and two contents, and a directory with a file in it; two kills or power cuts |
| `engine_outside` | `ForeignContentSurvives`, `EngineSettles` | every single effect, one caught failure, one kill and one outside write, edit, removal or undeclared child, in any order |
| `chain_append` | `ReliedSurvives`, `CutLeavesChain`, `KillsAreHarmless`, `PublishedOnce`, `LeaseIsClean`, `DemandIsMet` | a registration, a settlement and an intent; two kills and a power cut |
| `root_creation` | `OneWritableCarrier`, `ClaimNamesOperation`, `CopyIsFaithful`, `FinishedRootIsRegistered`, `InvalidMeansDamage`, `ForeignFilesStay`, `CompletionIsFinal`, `CommandsEnd` | two processes, two carriers, one file, which a fork overrides; three commands among two registers, a replicate, a fork, its resumption, a grant and a migration; the source moves once; one kill or outside change |
| `blob_store` | `RecordsSurvive`, `NeverInvalid`, `ActiveHasItsSlot`, `NothingStranded`, `ReclamationEnds` | two transactions over two contents, so that they share one, both or none; two kills, so that reclamation is interrupted; a power cut |
| `txn_journal_claim`, `claim_unset_mode`, `claim_commit`, `claim_one_carrier`, `claim_resume` | one statement of the repository each, which the code does not keep: section 6 | the smallest instance that shows it |

Deadlock is checked but where the system really stops: `scanners` (the vector
is read, the entries are used up), and the runs of `MCRootCreation` (callers ask
for nothing more).  One mutant of the code per property (`Bug...` definitions,
"mutants" in `PROJECT.json`) shows that the property can fail.

What the passing runs show:

- *Protocol.* Whatever the crashes, `_derive_reconciliation` never meets a
  contradiction (`Reconcilable`), a crash between publishing an entry and
  binding its digest never leads to a second entry, and every settlement carries
  the outcome of its record (`LedgerTruthful`); a transaction leaves the active
  slot only when both its entries are published and bound (`DetachedIsSettled`);
  and no update is ever refused by a trigger (`TriggersSilent`).
- *Effects.* A rollback puts back the very objects it found, not copies, and
  leaves no scratch entry; a commit stands through interrupted cleanup, and is
  carried through unless somebody changes the files or a removal is denied; what
  the outside writer wrote with an undeclared content is never lost, except at
  the destination of a half-persisted move, or by a power cut right after a
  rename that carried it along (section 6).
- *Plans.* Whenever classification is reached, its plan has an executor cell for
  each step, the reducer takes it to the last one, and what it ends with is what
  the files end with.
- *Halts.* `HaltsExplained` lists the four situations in which classification
  plans a halt although nobody interfered.  It is the precise form of a claim
  that does not hold without exceptions, and any fifth situation in which
  classification plans one would violate it.  Halts that `run_plan` records in
  the middle of a plan are not its subject: `PLAN_PRECONDITION_CHANGED` and
  `MUTATION_DENIED`, of which `CommitCarriesThrough` speaks for committed
  transactions.
- *Chain.* Kills alone never harm the chain.  A power cut harms it only if a
  lease went on from names or bytes a killed process had not flushed
  (`neglected`).  `inspect_scan` accepts exactly the directories whose leaves
  are one chain with every reference resolved, and though submission judges
  `fulfills` before the outcome is known, no command makes a chain malformed.
- *Store.* In every state between two calls the database a record is in, and the
  leaf of every blob row, would survive a power cut; what captures, kills and
  power cuts leave is always a store the next lease opens; and a lease that is
  handed out has reclaimed all that no record names.
- *Root creation.* But for the race of section 6, no two carriers end up
  writable; a finished copy is the source at the head its request names,
  whichever commands were killed, resumed or overtaken; and no two commands wait
  for each other, since a destination's lock is only tried.

**Fairness.** `FairSpec` and `FairESpec` ask weak fairness of the lock holder's
own progress and of taking leases: nothing happens in this system unless some
process runs a command, and the code of one process is sequential.  They ask
nothing of crashes, callers, outside writers or write-back.  `FairCSpec` does the
same for the chain and `FairBSpec` for a lease and a transaction that has begun.
`RSpec` asks it of each process that runs a command, separately: a blocked
`flock` is not enabled and a free one is taken at last.  Crashes are bounded;
this is what "crashes cease" means in the liveness properties.

**Other bounds.** `MaxCrashes` bounds crashes and escaping exceptions, `MaxKills`
kills and power cuts (of `ChainDirectory` and `BlobStore`: kills), `MaxCuts`
power cuts there, `MaxOutside` the outside writer, `MaxAttempts` transactions
begun, `MaxEntries` leaves ever written, `MaxHead` the commits of a copy's
source, `MaxFaults` kills and outside changes, `MaxCommands` the commands
callers start.  Each intent of `ChainDirectory` is appended once.

## 4. What is proved

For every number of effects, every set of transactions and every bound on
crashes (`NAssumption`, `TxnAssumption`, `CrashAssumption` only), TLAPS
checks:

| Theorem | States |
|---|---|
| `TypeCorrect` | `Spec => []TypeOK` |
| `JournalsStayReachable`, `DecisionStable` | the journal language and the commit decision |
| `AlwaysReconcilable`, `LedgerIsTruthful`, `DetachedSettled` | the chain against the store |
| `TriggersNeverFire` | `Spec => TriggersSilent` |
| `ProtocolKeepsPromise` | `Spec => ImplementsAtomicOutcome` |

and for one transaction of any number of effects over any paths and contents,
one slot per effect (`OneTransaction`, `NamesAssumption`), every set of
specifications whose effects are `WellFormed` (`ProgramsAssumption`; what the
effect types of `core/effects.py` give), and every bound on kills and outside
changes (`BoundsAssumption`, `OutsideAssumption`):

| Theorem | States |
|---|---|
| `ScratchHolds` | `ESpec => []ScratchCleared` |
| `CommitHolds` | `ESpec => []CommitInstalls` |
| `FinishedWorkHolds` | `ESpec => []FinishedWorkVerifies` |
| `RollbackHolds` | `ESpec => []RollbackRestores` |
| `ForeignContentHolds` | `ESpec => ForeignContentSurvives` |
| `CommitCarries` | `ESpec => CommitCarriesThrough`: a committed transaction is halted only after a change from outside or where a removal is denied |

and for every set of processes, metadata roots, requests, paths, overrides and
payloads and every bound on commands, faults and heads (`CreationBounds`,
`CreationValues`, `ClaimValues`, `ContentValues`):

| Theorem | States |
|---|---|
| `OneWritableHolds` | `RSpec => []OneWritableCarrier` |
| `ClaimNamesHolds` | `RSpec => []ClaimNamesOperation` |
| `CompletionHolds` | `RSpec => CompletionIsFinal` |
| `SchemaHolds` | every row satisfies the CHECKs of the schema, in every reachable state |
| `CopyHolds` | `RSpec => []CopyIsFaithful` |
| `FinishedHolds` | `RSpec => []FinishedRootIsRegistered` |
| `ForeignHolds` | `RSpec => ForeignFilesStay` |
| `DamageHolds` | `RSpec => InvalidMeansDamage` |

and for every set of contents and every bound on transactions, kills and power
cuts (`BlobBounds` only):

| Theorem | States |
|---|---|
| `RecordsHold` | `BSpec => []RecordsSurvive` |
| `NoneRefused` | `BSpec => []NeverInvalid` |
| `SlotHolds` | `BSpec => []ActiveHasItsSlot` |
| `NothingIsStranded` | `BSpec => []NothingStranded` |

and for every set of entries the database may demand and every bound on kills
and power cuts (`EntryAssumption`, `ChainBounds`):

| Theorem | States |
|---|---|
| `ReliedHolds` | `CSpec => []ReliedSurvives` |
| `CutHolds` | `CSpec => []CutLeavesChain` |
| `KillsHold` | `CSpec => []KillsAreHarmless` |
| `OnceHolds` | `CSpec => []PublishedOnce` |
| `CleanHolds` | `CSpec => []LeaseIsClean` |

and for every number of effects (`NAssumption`), and every set of transactions
and every bound on entries and outside changes (`HistoryBounds`):

| Theorem | States |
|---|---|
| `ScansHold` | `ScanSpec => []ScansAgree` |
| `InspectionHolds` | `HSpec => []InspectionAgrees` |
| `CommandsHold` | `HSpec => CommandsKeepChain` |

**The protocol.** The inductive invariant comes in three layers, each needing
the ones before.

1. `ControlInv` (`TxnProtocol_proofs`): types, and what the program counter says
   of the active record's state.  A crash forgets the program counter, so that
   everything durable has to be stated of the record alone.
2. `RecordInv`: the journal is in the language of its state, halted records
   keeping the state they halted in.  The language for `rolling_back` must be
   wider than the one `journal.py` accepts: it contains an opened undo with
   pending effects behind it (section 6, first finding).
3. `LedgerInv`: `DurableLedger` (at most one entry of each
   kind, registration first, a settlement only with the outcome of its record,
   everything outside the active slot settled) and `ProcessLedger` (what the
   program counter says of the chain: at "bind" the registration is published
   and not bound, and so on).  `LedgerTruthful` alone is not inductive: that no
   second settlement is appended follows from where the process is.

The refinement proof (at the end of `TxnProtocol_proofs`) maps `outcome` to the state column
with halts looked through, `ledger` to the chain without digests, and `busy` to
the active row; each protocol action is one step of `AtomicOutcome` or a stutter.
Every action of the engine has an action of the protocol as a conjunct or leaves
its variables alone.  That is how the engine is composed and says nothing of the
code; the lemma `EngineStep` records it, and by it the invariants of
`TxnProtocol` are used in the proofs about the engine.

**Scratch slots.** `ScratchCleared` has to know of each plan how it ends, so its
invariant (`EngineInv`) speaks of plans before they are run.

1. `EffectTables` alone: every row of the decision tables that is not a halt
   ends in an operation that empties the effect's slot, or finds it absent
   (`Emptying`, `TablesEmpty`); binding the operations one after the other
   promises just that in the last `after` observation (`BoundClears`); and a
   rollback plan, made from the last effect to the first in the world that its
   successors' steps leave, never touches the slot of an effect still to come
   (`PlannedTo`).
2. `ClearInv`, `PlanInv`, `StageInv`: the slot of an effect that is pending or
   undone is free; one whose steps are all confirmed is free; and a system call
   or a plan step moves no slot but its own (`OthersKept`), live paths and
   outside writes being names of another kind.  A promise is kept when it is
   confirmed against the disk (`ConfirmStepFiles`), whatever the outside writer
   did meanwhile.
3. `OrderInv`, `PointInv`: at most one effect is begun and not done, and a record
   is committed whenever a cleanup plan runs.

Two of its lemmas go through definitions by recursion, for which no induction
theorem can be cited: `SetInduction` derives induction for sets of numbers from
the pigeon hole principle, and `PlanIsCursor` and `BindUnfolds` unfold the
recursive functions of the plans.

**What a commit promises.** `CommitInstalls` and `FinishedWorkVerifies` have one
invariant, `CommitInv`, beside `EngineInv`.

1. `ApartInv`: while a run goes forward, and from the decision on, no two names
   that objects are moved between (`Holders`: every live path and every scratch
   slot but an anchor, which is a second name by design) lead to one object.
   Without it an edit of one path, by an effect or from outside, could change
   another.  That it is kept needs `UnusedInv` and `BuildInv` (a staged object
   is nowhere before it is made, and nowhere else while it is built; so is what
   the outside writer writes next) and `Contained` (a system call of an effect
   changes its own three names and its own object).
2. `DoneInv`: an effect, once verified, leaves its result and its scratch slot
   to stand (`Standing`), on each of its paths until a later effect has begun
   there (`Latest`).  The last effect of each path is the one whose result
   `verify_committed_surface` expects, so it accepts.  The exception is the case
   `MovedObjectGone`: after a move the anchor and the destination name one
   object only until a later effect touches the destination.  The run
   `claim_commit` (section 3) refutes the property without it.
3. `InstallInv`: the files are as verification saw them when the decision is
   taken, since no step but an outside write comes between (`RecordMoves`: a run
   goes from preparation to the decision without a break, and a broken run never
   goes on forwards).
4. `DropInv`: a cleanup plan consists of removals of scratch names
   (`CleanupDrops`), so that it changes no live path, however often it is
   interrupted, and a committed record has no rename left to flush
   (`PowerCutCommit`).

**What a rollback restores.** (`EngineRollback_proofs`.)  `RollbackRestores` says
that the very object that was at a path is there again, so that its invariant has
to follow objects through moves that are done, undone and half persisted, and
describe every world that a recovery killed at any step, any number of times, can
leave.  It is stated of every record that may still be rolled back (`Live`), in
two layers beside `EngineInv` and `CommitInv`.

1. `SoundInv` is about plans.  What a row of a decision table says of the joint
   observation it was taken in (`ReplaceRowsChoose`, `MoveChoice` and so on) is
   carried through binding (`WellBound`) to each step that is due (`Sound`); an
   authorization that finds the observation repeated therefore knows what it is
   about to take back.  `RecordShape` is the discipline of the journal: effects
   are begun in order and unwound in the reverse order, so that one effect is
   open (`Opened`).
2. `AnchorInv` is about names, and with it no object is lost and no undo takes
   the wrong one.  Two names that hold objects lead to one object only if they
   are the paths of the move that is open (`Distinct`: `relink`, or a power cut
   between two directories, `SplitBy`).  The object that a power cut has split is
   the anchor's, or one that no anchor names (`Unanchored`), where the rename
   carried along what the outside writer had put at the source.  The last anchor of an object finds it where that
   move put it, or in the scratch slot of a later effect (`Anchoring`), and the
   anchors of an object moved twice are those of consecutive moves (`Chained`).
   None of these is inductive without the others: that a `drop` of an anchor
   does no harm needs to know which anchor is now the last, and where it points.
   `WorkInv` and `UndoInv` are the same between the system calls of an effect
   and between authorization and execution, where an outside write may come.
   The effect is taken through `WorkStep` and `Operated`, which say what each of
   its system calls does to names and objects.
3. `RestoreInv` is about what is at a path: a path without an open effect
   `Stands` as the last done effect has left it; a path of the open one does, or
   shows the effect (`High`, `OpenAt`), which may be all that is known once a
   rename is half persisted; and a done effect has `Kept` what it displaced.
   `SettlingInv` says that an open effect with no step left has nothing left to
   do, which is what `EPersistUndone` records.  Paths that the outside writer has
   changed are exempt one by one; that its write at one path changes no other is
   `Distinct` again (`SharedWith`).
4. `PathsLocal`, `PathsBegun`, `PathsFinished`, `PathsReopened` and
   `PathsUnwound` pass the condition on paths from one journal to the next:
   the timelines that `Compiles` asks for are continuous, so what the effects
   below leave is what the next one begins with (`Continuity`).  When every
   effect is unwound, what stands is what was there at first (`RestoredIs`).

The exemption of `Rewritten` is exact: where a file is replaced by its own
content the copy may stay (section 6, point 10).

**What somebody else wrote.** (`EngineInterference_proofs`.)
`ForeignContentSurvives` is about the step that takes the last name of an object
the outside writer made or edited, whenever it wrote: `ForeignInv`, beside
`AnchorInv`, says for each system call that removes a name why it is not that one
(`NothingLost`).

1. Execution withdraws its own scratch entry only.  A staging file and a work
   directory are the effect's own until they land (`OwnStaging`,
   `OwnDirectories`), because the outside writer reaches live paths; the anchor
   of a move that refuses to go on may name a file that was written to, but that
   file is live as well (`AnchorsSpare`).  This relates one effect to an outside
   write between two of its system calls.
2. A plan removes in three ways.  A `drop` was authorized against an observation
   in which the scratch file is empty of news (its content is declared, or the
   beginning of one: `Contents`, in `Sound`; the state before, for a cleanup:
   `CleanupInv`) or is live under another name; a `drop_destination`, against one
   in which the anchor names the same object; an `rmdir_live` removes a
   directory.  `RemovalInv` carries this from authorization to execution, past an
   outside write in between: a write on the destination is the exemption of the
   property, and an edit that reaches the scratch file goes through a live name,
   which the file then has (`OutsideRemoval`).
3. Every other system call moves names and loses none (`WorkKeepsNames`,
   `OperatedNames`), and what has no name is written to by nobody
   (`SurvivalKept`).  A power cut leaves the anchor, so that it takes the last
   name of no file but one that was renamed in place of the anchored one, and of
   that file it may (`PowerCutNames`).  This is the one step the property
   excepts (`CutAway`).

**What a decision is carried through.** (The same module.)  `CommitCarries` says
that a committed transaction is halted in two cases only: the outside writer has
changed a live path, or the operating system denies a removal of the cleanup
(`DenyStep`).  The first disjunct is of the state, the second of the step that
halts, so that a denial excuses no other halt.  `CarryInv` relates what execution
has left to what cleanup plans and then finds.

1. `ResidueInv`: from `verify_committed_surface` on, a scratch slot holds what
   was there before, in the kinds of effect that keep it, or nothing; so that
   `classify_committed_cleanup` has a row for it (`CommittedAuthority`), in the
   first recovery and in any later one.
2. `FollowInv`: each step of cleanup expects what is in its slot and promises an
   empty one (`CleanupPlanned`, `SlotJoint`), and other slots are not its
   business; so that it is authorized and confirmed.
3. `DecisionInv`: a plan to halt can then only be made for a transaction that is
   not committed (`DecidedIs`).  `HaltsHow` lists the steps that halt, and
   `CarriedStep` excludes all but a denial.

**Root creation.** The argument about claim and rows has two layers, the one
about the tree three more.

1. `RInv` holds whatever happens outside.  It says what each program point of a
   command knows: which kind of request runs there (`RequestFits`), that it
   holds the lock of its carrier from the lease on (`HoldsLock`), and what the
   carrier's row then contains (`RowFits`) — so a command may rely on the row it
   read, because nobody else can change it.  `RowSound` adds that the row fits
   the CHECKs and that its request was asked for by somebody; `ClaimSound` the
   same of the claim.  One lemma (`Bystanders`) shows once that a step of one
   command disturbs none of this for another, and each action then shows its own
   frame.  `SchemaHolds` and `CompletionHolds` follow from what a step can do to
   a row (`RowAdvances`).
2. `OwnerInv` is `raced \/ touched \/ Core`.  Between carriers there is no lock,
   and `OneWritableCarrier` is far from inductive: nothing about two writable
   rows says how a second one was kept out.  `Core` calls a carrier an owner from
   the moment its operation is recorded, and says that there is at most one
   (`OneOwner`); that everybody who looks can see it, by a claim that names its
   row or by a published chain (`OwnerShows`); and what the commands about to
   change claim or rows have established (`ClaimShows`: who fills the claim is
   alone with a torn one, who stamps a row has the claim in its name, who
   completes has removed it).  A new owner can only arise at `stamp`, where the
   claim is its own, so that no other owner shows.  The second disjunct is where
   the argument would fail: a register that looked for a chain before it was
   there (`raced`).
3. `CopyInv` holds whatever happens outside, too: a root is made by one copy at
   most, ever (`OneCopy`).  Every copy begins by putting the root there together
   with its claim, and that happens once (`Before`); from then on a claim, a row
   or a command that names a copy names this one.  The claim stays until the
   copy is done (`Pending`), which keeps every register out (`KeptOut`); and the
   source cannot move under a command that copies from it (`Holding`).
4. `CopyTreeInv` is `touched \/ CopyTree`: while the copy is made, each leaf
   holds one of a few contents (`Possible`), and the genesis of a fork is there
   only after every override.  `Working` says how far the command at work has
   come: what it has passed is as it should be.  That one command's leaf stays
   behind it is not a matter of locks alone: the source's lock is released
   between two attempts of a copy, and a second command may go on with the same
   row, so that all of this has to follow from the row and not from who wrote
   the tree.  When the row is proved, the tree is `Final`, and stays so.
   `CopyIsFaithful` is the last phase of this.
5. `RegisterTreeInv` is `raced \/ touched \/ RegisterTree`: a root that nobody
   owns is empty, and one that is registered has its genesis, staged or
   published, and nothing else.

`DamageHolds` then goes through every place that raises `RootOperationInvalid`
and every trigger: under these invariants the condition contradicts what the
program point knows, or one of the residues named in the property lies there.

**Blobs and the store.** `BInv` (`BlobStore_proofs`) says of every program point
what is in memory *and* what is on disk, as a power cut may follow anywhere.
None of the four properties is inductive alone.

1. `DatabaseFits`: `atoms.db` and its mode are on disk before it has bytes, so
   that what a power cut leaves of it is a file `open_store` takes or repairs.
2. `LeavesFit`: the name of a leaf leads to durable bytes, on disk as in memory.
   It holds of the leaves no record names too, as promotion adopts them and
   reclamation verifies them.
3. `SlotsFit`: a record's work directory is on disk and its staging gone.
4. `TransactionFits` carries these facts towards the commit: what was captured
   is durable (`Secured`) before it is published, and published on disk before
   the record is committed; the staging is gone before the commit as well.
5. `ReclaimFits`: the list that reclamation works down covers every workspace
   and every leaf that no record names, and nothing else — hence, with the list
   empty, `NothingStranded`.

The steps of the directories are factored out: `Linked`, `Renamed`, `Flushed`,
`Cut` and so on say what a call does to the names on disk, and `DiskMoves` that
whatever reaches the disk is as it was there or as it is in memory.

**The chain directory.** `CInv` (`ChainDirectory_proofs`) has to hold wherever a
power cut may follow, and a power cut takes what is only in memory.

1. `Entries` and `Files`: a published name stands for a sequence of distinct
   demands, and its file holds that entry.  What is on disk is published with
   the same file.
2. `OnDiskUnlessNeglected`: only the name published *last* can be missing from
   the disk, unless a kill after the link was followed by another append:
   `neglected` is the exact exemption, and the theorem shows there is no other.
3. `Chain`: the published entries are the beginnings of one tip.  None of the
   properties follows without it: that the entry of the holder is new — and so
   that no append publishes twice — needs that whatever is published is a
   beginning of the tip it validated.
4. `Record` and `Work`: what the store relies on is published, and what the
   holder of the lease has in hand at each program point: the entry it
   validated is still the tip, and its staged file has a name of its own.

**The scans.** (`Scanners_proofs`.)

1. `ScanInv`: a scan that has not refused has read a beginning in its language
   (`Accepted`), and its phase is a function of the symbol it read last.
2. `InspectionIsChain` has nothing of the history in it: it holds of every
   directory that can be scanned (`Scanned`: finitely many names, none of them
   the null digest).  `Walk` and `Threads` are recursive functions;
   `WalkUnfolds` and `ThreadsAre` say what they are, by `SetInduction` (see
   *Scratch slots* above), and the least of a set of digests exists for the same
   reason (`MinIs`).  In a line no leaf stands twice (`LineOnce`), because each
   names the one before; so a line through every leaf is as long as there are
   leaves, and the passes over the linkage see one genesis, one successor each
   and no orphan (`LineLinkage`) and walk just that line (`WalkIsOrder`).  The
   walk of any directory with a genesis is a line (`WalkLine`), so that what
   passes is an order.  The pass over the classes looks back only, while a chain
   asks the same of every pair: `ReferringIsFaultless`, `FaultlessIsReferring`.
3. `ChainGrows`: a chain with an entry that `Fits` is a chain.  `HistoryInv`
   carries what the gates established to the step that writes: a row without a
   registration has an unused txid, and fulfills an intent that is there and not
   fulfilled; one with a registration fulfills what that says.  It survives
   because nothing is appended for another transaction while a row is active,
   and a registration does not change what is fulfilled (`FulfilledStays`).

Only model-checked: liveness (`Settles`, `EngineSettles`, `DemandIsMet`,
`ReclamationEnds`, `CommandsEnd`), which needs ENABLED; and what is said of the
classification itself: that it plans a halt for a reason (`HaltsExplained`; that
it plans none for a committed transaction is part of `CommitCarries`) and that a plan's own account agrees with the
tables (`PlansProject`).

## 5. How the code maps to the model: points to know

- An exception that escapes to the caller leaves the same durable state as a
  crash and is the same action.
- Approval of the topology is a nondeterministic answer (`AssemblyHalt`).
- Whether the operating system denies a mutation is one too (`DenyStep`).
- A power cut after a rename whose result is not as promised is not modelled:
  while `apply` takes such a move back (`move.py:66-82`), or once `_require_result`
  has refused that of a `move_back` (`settle.py:169`), before any flush.  Both
  need a change from outside between two system calls.
- `ChainDirectory` holds a lease's chain against the digest that is owed
  (`Agrees`).  That earlier digests are in the chain, and a settlement after its
  registration (`recover.py:166-171`, `217-233`), is `Reconcilable` of
  `TxnProtocol`.
- Blobs are not in `EffectEngine`: a preimage blob is verified by the classifier
  and no undo cell copies one back, as every undo works with the retained
  object.  That what a record names is there is what `BlobStore` is about.
- Symbolic links and unreadable entries are left out of `EffectTables`; for the
  tables they are contents like others.
- A chain directory in a halted record's project is not repaired: `resolve`
  raises before it touches the staging leaf.  `ChainDirectory` leaves halts to
  `TxnProtocol`.
- `RootCreation` keeps no durability: what a command writes into a root is
  flushed before the row says so, and what a power cut does to names and bytes
  is the subject of `EffectEngine`, `ChainDirectory` and `BlobStore`.  The
  destination of a copy is taken with its lock already tried; the rows of one
  operation are one record, as the schema pairs them.
- An operation id is drawn at random; the models draw the least that is in use
  nowhere, and a txid is never drawn twice.

## 6. Disagreements between the code and what the repository says of it

Each of the first five is shown by a run.

1. **An interrupted rollback can lock the project** (`txn_journal_claim`).
   Rolling back an `applying` record persists `UNDO_STARTED` for the last begun
   effect while later ones are `PENDING`; `_reverse_language` (`journal.py:114`)
   rejects that vector, so that a crash there makes the next recovery halt.
2. **A staged file without its mode** (`claim_unset_mode`).  `build_staged_file`
   writes the bytes and sets the mode in two calls; a failure between them leaves
   an entry no table row knows, and recovery halts.
3. **A move whose destination is replaced never commits** (`claim_commit`).
   `verify_committed_surface` holds the destination of every move against the
   anchor, also when a later effect replaced it.
4. **Two metadata roots can claim one root** (`claim_one_carrier`), although
   `commands.py:628` says they cannot: the claim excludes others only while it
   exists, and a register that looked for a chain before the first one published
   it goes on after the first one is done.
5. **An interrupted fork cannot always be resumed** (`claim_resume`), although
   `docs/protocol.md:56-58` says so: a file that was created and not yet written
   is neither absent nor what the snapshot says.

The following are exceptions named in the properties, with the same models.

6. A late write to a move's destination is lost: undoing a half-persisted move
   unlinks the destination by name after authorization
   (`ForeignContentSurvives`; the repository's `README.md:65`).
   So may be a file put at a move's source after its anchor was checked: the
   rename carries it along with no second name, and a power cut before the two
   flushes (`move.py:52-85`) can take its last one; recovery then relinks the
   original (`CutAway`).
7. An entry published by a process killed before the directory flush is bound,
   and its transaction detached, without one (`neglected`;
   `docs/protocol.md:152-153`).
8. A prefix left by a kill is unattributable once a first recovery persisted
   `UNDO_STARTED` and was killed (`recover.py:552` reads the build relation only
   while the journal says `STARTED`).
9. A partly written replacement that equals the old file is classified `PRE`
   before the prefix relation is asked (`variants.py:173`).
10. Undoing a replace whose pre and post are equal keeps the new object, which
    an earlier move's anchor does not name (`variants.py:353`).
11. With a later effect `UNDONE` and an earlier one on the same path
    `UNDO_STARTED` and taken back on disk, `_at_frontier` (`variants.py:1399`)
    expects the earlier effect's post state and recovery halts.
12. `_classify_pending` (`variants.py:1414`) can record
    `EXTERNAL_DRIFT_PRESERVED` although nothing outside changed.
13. A file an outside writer made with exactly the content the transaction was
    about to create is taken for its own and removed on rollback
    (`variants.py:673`).
14. `_finish` (`append.py:107`) publishes a survivor without flushing its bytes,
    which the killed process may not have done either; a power cut after the
    directory flush then leaves a name with other bytes (`neglected` in
    `FinishSurvivor`).
15. A register on one carrier removes the staged genesis of a fork in progress
    on another: its lease drops what lies at the staging leaf before it looks at
    the claim (`Residue` in `InvalidMeansDamage`).
16. Two registers with the same request run by two processes, or a cold grant or
    a migration run twice at once: the later one is refused by a trigger
    (`trg_root_operation_phase_transition`, `trg_root_lifecycle_insert_gate`)
    and not as a repetition of what is done.

Noticed beside the models: the work directory of a terminal transaction is never
removed (`docs/protocol.md:152-154` says it is); a claim torn by a kill makes
every later register refuse, as intended, and only a hand can remove it; the
table of leases in `docs/protocol.md` does not match `coordinator/root.py`.

## 7. Not modelled, and why

- Pure reads (`read_path_state`, `capture_states`, `read_chain`) and checks of
  path overlap: they change nothing, and fail before any lock.
- Byte formats (`core/canonical.py`, the encoding in `chain/model.py`, decoding of
  rows in `store/records.py`): without state.
- The staged entry that a detached inspection reports, and the evidence and
  wording of diagnostics.
- `fs/`: probes, volume binding, approval and topology are sequences of system
  calls whose answers are inputs (`AssemblyHalt`, a refused command); descriptor
  bookkeeping (`fs/audit.py`, `coordinator/descriptors.py`) is out of sight of
  every property.
- The private sibling `.#~<id>.root-claim` of a claim that a power cut leaves:
  nothing reads it.
- The certification harness under `python/tools/`.
- The composition of `ChainDirectory` with `TxnProtocol`, an append refining
  `Publish` with what a power cut may take back: each is checked with the other's
  interface (`DemandEntry` and `Bind`), and their product is beyond TLC.
- Next to prove: `HaltsExplained` of the engine.
