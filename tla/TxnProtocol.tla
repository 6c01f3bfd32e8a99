---------------------------- MODULE TxnProtocol ----------------------------
(***************************************************************************)
(* The transaction protocol of atoms.coordinator: forward execution        *)
(* (execute.py, commit.py), recovery on lease entry (recover.py), the plan *)
(* steps it persists (transitions.py) and the project chain entries that   *)
(* make the outcome public.                                                *)
(*                                                                         *)
(* Durable state is the metadata store (one record per transaction and the *)
(* `active' row) and the chain.  Every store transaction and every chain   *)
(* publication is one action, and a crash may fall between any two.  The   *)
(* project lock (fs/lock.py) lets one process at a time run any of this,   *)
(* so there is one program counter.                                        *)
(*                                                                         *)
(* The project files are abstract here: whether an effect applies, and     *)
(* what classification finds on disk, are nondeterministic.  EffectEngine  *)
(* extends this module and makes both precise.                             *)
(*                                                                         *)
(* A chain entry's digest is modelled by its position in the chain, 0      *)
(* being the store's NULL.  An exception that escapes to the caller leaves *)
(* the same durable state as a crash at that point and is the same action. *)
(***************************************************************************)
EXTENDS RecoveryJournal, Sequences

CONSTANTS Txns,           \* transaction identities
          NoTxn,          \* the empty `active' row
          MaxCrashes      \* bound on the number of crashes

ASSUME TxnAssumption == NoTxn \notin Txns
ASSUME CrashAssumption == MaxCrashes \in Nat

VARIABLES
  active,                 \* the store's `active' row
  state,                  \* transaction_record.state, "none" when no row
  committed,              \* transaction_record.committed
  journals,               \* effect.journal_state, by effect index
  rollback_result,        \* transaction_record.rollback_result
  pre_halt_state,         \* halt_diagnostic.pre_halt_state
  assembly_halt,          \* transaction_record.assembly_halt is set
  registration_digest,
  settlement_digest,
  chain,                  \* the entries of .#~chain, genesis left out
  pc,                     \* what the lock holder does next, "idle": no holder
  origin,                 \* "resolve" or "execute": who runs the plan
  plan,                   \* disposition of the plan being run
  refused,                \* the rollback plan preserves external drift
  crashes

store == <<active, state, committed, journals, rollback_result, pre_halt_state,
           assembly_halt, registration_digest, settlement_digest>>
process == <<pc, origin, plan, refused>>
vars == <<active, state, committed, journals, rollback_result, pre_halt_state,
          assembly_halt, registration_digest, settlement_digest, chain,
          pc, origin, plan, refused, crashes>>

-----------------------------------------------------------------------------
Outcomes == {"committed", "rolled_back"}

RegisteredEntry(t) ==
  [kind |-> "registered", txid |-> t, registration |-> 0, outcome |-> "none"]

SettledEntry(t, registration, outcome) ==
  [kind |-> "settled", txid |-> t, registration |-> registration, outcome |-> outcome]

Entries == [kind : {"registered", "settled"}, txid : Txns,
            registration : Nat, outcome : Outcomes \cup {"none"}]

Registrations(t) ==
  {d \in 1..Len(chain) : chain[d].kind = "registered" /\ chain[d].txid = t}
Settlements(t) ==
  {d \in 1..Len(chain) : chain[d].kind = "settled" /\ chain[d].txid = t}

AtMostOne(S) == \A a, b \in S : a = b

-----------------------------------------------------------------------------
(* _derive_reconciliation: what must be appended or backfilled so that the *)
(* record and the chain agree; "invalid" is ChainStateInvalid.             *)

\* Mutant: any state is an outcome.
BugTerminalOutcome(t) == state[t]

TerminalOutcome(t) == IF state[t] \in TerminalStates THEN state[t] ELSE "none"

CommittedHalt(t) == state[t] = "halted" /\ pre_halt_state[t] = "committed"

RegistrationWindow(t) == state[t] = "prepared" /\ AllAre(journals[t], "pending")

\* Mutant: the chain is not searched for an entry published before a crash.
BugRegistrationAction(t) ==
  IF registration_digest[t] # 0 THEN "none" ELSE "append"

RegistrationAction(t) ==
  CASE ~AtMostOne(Registrations(t)) -> "invalid"
    [] AtMostOne(Registrations(t)) /\ registration_digest[t] # 0 ->
         IF registration_digest[t] \in Registrations(t) THEN "none" ELSE "invalid"
    [] AtMostOne(Registrations(t)) /\ registration_digest[t] = 0 ->
         IF ~RegistrationWindow(t) THEN "invalid"
         ELSE IF Registrations(t) = {} THEN "append" ELSE "backfill"

BoundSettlementAgrees(t) ==
  /\ settlement_digest[t] \in Settlements(t)
  /\ chain[settlement_digest[t]].registration = registration_digest[t]
  /\ TerminalOutcome(t) # "none" \/ CommittedHalt(t)
  /\ chain[settlement_digest[t]].outcome =
       IF CommittedHalt(t) THEN "committed" ELSE TerminalOutcome(t)

UnboundSettlementAgrees(t) ==
  \A d \in Settlements(t) :
    chain[d] = SettledEntry(t, registration_digest[t], TerminalOutcome(t))

SettlementAction(t) ==
  CASE ~AtMostOne(Settlements(t)) -> "invalid"
    [] AtMostOne(Settlements(t)) /\ settlement_digest[t] # 0 ->
         IF BoundSettlementAgrees(t) THEN "none" ELSE "invalid"
    [] AtMostOne(Settlements(t)) /\ settlement_digest[t] = 0 ->
         IF TerminalOutcome(t) = "none"
         THEN IF Settlements(t) = {} THEN "none" ELSE "invalid"
         ELSE IF ~UnboundSettlementAgrees(t) THEN "invalid"
         ELSE IF Settlements(t) = {} THEN "append" ELSE "backfill"

-----------------------------------------------------------------------------
Init ==
  /\ active = NoTxn
  /\ state = [t \in Txns |-> "none"]
  /\ committed = [t \in Txns |-> "uncommitted"]
  /\ journals = [t \in Txns |-> [i \in Effects |-> "pending"]]
  /\ rollback_result = [t \in Txns |-> "none"]
  /\ pre_halt_state = [t \in Txns |-> "none"]
  /\ assembly_halt = [t \in Txns |-> FALSE]
  /\ registration_digest = [t \in Txns |-> 0]
  /\ settlement_digest = [t \in Txns |-> 0]
  /\ chain = <<>>
  /\ pc = "idle" /\ origin = "resolve" /\ plan = "none" /\ refused = FALSE
  /\ crashes = 0

Goto(next) == pc' = next /\ UNCHANGED <<origin, plan, refused, crashes>>

SetState(t, s) ==
  /\ state' = [state EXCEPT ![t] = s]
  /\ UNCHANGED <<active, committed, journals, rollback_result, pre_halt_state,
                 assembly_halt, registration_digest, settlement_digest, chain>>

SetJournal(t, i, s) ==
  /\ journals' = [journals EXCEPT ![t][i] = s]
  /\ UNCHANGED <<active, state, committed, rollback_result, pre_halt_state,
                 assembly_halt, registration_digest, settlement_digest, chain>>

BindRegistrationDigest(t, d) ==
  /\ registration_digest' = [registration_digest EXCEPT ![t] = d]
  /\ UNCHANGED <<active, state, committed, journals, rollback_result,
                 pre_halt_state, assembly_halt, settlement_digest, chain>>

BindSettlementDigest(t, d) ==
  /\ settlement_digest' = [settlement_digest EXCEPT ![t] = d]
  /\ UNCHANGED <<active, state, committed, journals, rollback_result,
                 pre_halt_state, assembly_halt, registration_digest, chain>>

Publish(entry) == chain' = Append(chain, entry) /\ UNCHANGED store

-----------------------------------------------------------------------------
(* Lease entry and resolve().  A record whose reconciliation is "invalid"  *)
(* has no enabled action here: ChainStateInvalid ends every lease entry,   *)
(* and the invariant Reconcilable says it never happens.                   *)

Acquire ==
  /\ pc = "idle"
  /\ pc' = "resolve" /\ origin' = "resolve" /\ plan' = "none" /\ refused' = FALSE
  /\ UNCHANGED <<store, chain, crashes>>

ReconcilableRecord(t) ==
  /\ RegistrationAction(t) # "invalid"
  /\ SettlementAction(t) # "invalid"

ResolveNothing ==
  /\ pc = "resolve" /\ active = NoTxn
  /\ Goto("ready") /\ UNCHANGED <<store, chain>>

\* TransactionHalted is raised before anything is reconciled.
ResolveHalted ==
  /\ pc = "resolve" /\ active # NoTxn
  /\ ReconcilableRecord(active)
  /\ state[active] = "halted" \/ assembly_halt[active]
  /\ Goto("idle") /\ UNCHANGED <<store, chain>>

ResolveActive ==
  /\ pc = "resolve" /\ active # NoTxn
  /\ ReconcilableRecord(active)
  /\ state[active] # "halted" /\ ~assembly_halt[active]
  /\ Goto("reconcile") /\ UNCHANGED <<store, chain>>

(* _perform_reconciliation.  Between an append and the binding of its      *)
(* digest nobody else appends, so the digest the code holds is the one a   *)
(* second derivation would backfill.                                       *)
ReconcileAppendRegistration ==
  /\ pc = "reconcile" /\ RegistrationAction(active) = "append"
  /\ Publish(RegisteredEntry(active)) /\ UNCHANGED <<process, crashes>>

ReconcileBindRegistration ==
  /\ pc = "reconcile" /\ RegistrationAction(active) = "backfill"
  /\ \E d \in Registrations(active) : BindRegistrationDigest(active, d)
  /\ UNCHANGED <<process, crashes>>

ReconcileAppendSettlement ==
  /\ pc = "reconcile" /\ RegistrationAction(active) = "none"
  /\ SettlementAction(active) = "append"
  /\ Publish(SettledEntry(active, registration_digest[active], TerminalOutcome(active)))
  /\ UNCHANGED <<process, crashes>>

\* Mutant: resolve() does not backfill a settlement published before a crash.
BugReconcileBindSettlement ==
  /\ pc = "reconcile" /\ origin = "execute" /\ RegistrationAction(active) = "none"
  /\ SettlementAction(active) = "backfill"
  /\ \E d \in Settlements(active) : BindSettlementDigest(active, d)
  /\ UNCHANGED <<process, crashes>>

ReconcileBindSettlement ==
  /\ pc = "reconcile" /\ RegistrationAction(active) = "none"
  /\ SettlementAction(active) = "backfill"
  /\ \E d \in Settlements(active) : BindSettlementDigest(active, d)
  /\ UNCHANGED <<process, crashes>>

ReconcileDone ==
  /\ pc = "reconcile"
  /\ RegistrationAction(active) = "none" /\ SettlementAction(active) = "none"
  /\ Goto(IF plan # "none" THEN "detach"
          ELSE IF origin = "resolve" THEN "approve" ELSE "classify")
  /\ UNCHANGED <<store, chain>>

\* The rooted directories still match the durable approval evidence, or not.
ApproveTopology ==
  /\ pc = "approve" /\ Goto("classify") /\ UNCHANGED <<store, chain>>

AssemblyHalt ==
  /\ pc = "approve"
  /\ assembly_halt' = [assembly_halt EXCEPT ![active] = TRUE]
  /\ UNCHANGED <<active, state, committed, journals, rollback_result,
                 pre_halt_state, registration_digest, settlement_digest, chain>>
  /\ Goto("idle")

-----------------------------------------------------------------------------
(* classify_recovery.                                                      *)

AuthorityOf(t) == Authority(state[t], committed[t], journals[t], active = t)

Adopt(disposition, drift) ==
  /\ pc' = "plan" /\ plan' = disposition /\ refused' = drift
  /\ UNCHANGED <<store, chain, origin, crashes>>

ClassifyTerminal ==
  /\ pc = "classify" /\ AuthorityOf(active) = "detach"
  /\ Adopt("detach", FALSE)

\* The journal is illegal, or what is on disk cannot be attributed.
ClassifyHalt ==
  /\ pc = "classify" /\ AuthorityOf(active) \in {"halt", "classify"}
  /\ Adopt("halt", FALSE)

ClassifyCommitted ==
  /\ pc = "classify" /\ AuthorityOf(active) = "classify"
  /\ state[active] = "committed"
  /\ Adopt("cleanup", FALSE)

ClassifyRollback(drift) ==
  /\ pc = "classify" /\ AuthorityOf(active) = "classify"
  /\ state[active] # "committed"
  /\ Adopt("rollback", drift)

-----------------------------------------------------------------------------
(* run_plan: one store transaction per transition step.  The file          *)
(* mutations between them do not touch this module's state.                *)

PersistRollingBack ==
  /\ pc = "plan" /\ plan = "rollback"
  /\ state[active] \in {"prepared", "applying", "applied"}
  /\ SetState(active, "rolling_back") /\ UNCHANGED <<process, crashes>>

PersistUndoStarted(i) ==
  /\ pc = "plan" /\ plan = "rollback" /\ state[active] = "rolling_back"
  /\ RollbackCursor(journals[active], i)
  /\ journals[active][i] \in {"started", "done"}
  /\ SetJournal(active, i, "undo_started") /\ UNCHANGED <<process, crashes>>

PersistUndone(i) ==
  /\ pc = "plan" /\ plan = "rollback" /\ state[active] = "rolling_back"
  /\ RollbackCursor(journals[active], i)
  /\ journals[active][i] = "undo_started"
  /\ SetJournal(active, i, "undone") /\ UNCHANGED <<process, crashes>>

PersistRolledBack ==
  /\ pc = "plan" /\ plan = "rollback" /\ state[active] = "rolling_back"
  /\ \A i \in Effects : journals[active][i] \in Unwound
  /\ state' = [state EXCEPT ![active] = "rolled_back"]
  /\ rollback_result' =
       [rollback_result EXCEPT ![active] =
          IF refused THEN "external_drift_preserved" ELSE "restored"]
  /\ UNCHANGED <<active, committed, journals, pre_halt_state, assembly_halt,
                 registration_digest, settlement_digest, chain, process, crashes>>

\* A file mutation may be due: the cursor effect is open, or cleanup runs.
MutationDue ==
  \/ plan = "cleanup"
  \/ /\ plan = "rollback" /\ state[active] = "rolling_back"
     /\ \E i \in Effects : RollbackCursor(journals[active], i)
                           /\ journals[active][i] = "undo_started"

\* A halt plan from classification, or authorization refusing a mutation.
PersistHalt ==
  /\ pc = "plan"
  /\ plan = "halt" \/ MutationDue
  /\ state' = [state EXCEPT ![active] = "halted"]
  /\ pre_halt_state' = [pre_halt_state EXCEPT ![active] = state[active]]
  /\ UNCHANGED <<active, committed, journals, rollback_result, assembly_halt,
                 registration_digest, settlement_digest, chain>>
  /\ pc' = "idle" /\ plan' = "none" /\ UNCHANGED <<origin, refused, crashes>>

\* At DetachActive the settlement is reconciled first (_reconcile_settlement).
ReachDetach ==
  /\ pc = "plan"
  /\ plan \in {"detach", "cleanup"} \/ (plan = "rollback" /\ state[active] = "rolled_back")
  /\ Goto("reconcile") /\ UNCHANGED <<store, chain>>

\* Mutant: a rolled back record is detached before its settlement.
BugDetachActive ==
  /\ pc = "plan" /\ state[active] \in TerminalStates
  /\ active' = NoTxn
  /\ UNCHANGED <<state, committed, journals, rollback_result, pre_halt_state,
                 assembly_halt, registration_digest, settlement_digest, chain>>
  /\ pc' = "idle" /\ plan' = "none" /\ UNCHANGED <<origin, refused, crashes>>

DetachActive ==
  /\ pc = "detach"
  /\ registration_digest[active] # 0 /\ settlement_digest[active] # 0
  /\ active' = NoTxn
  /\ UNCHANGED <<state, committed, journals, rollback_result, pre_halt_state,
                 assembly_halt, registration_digest, settlement_digest, chain>>
  /\ pc' = IF origin = "resolve" THEN "ready" ELSE "idle"
  /\ plan' = "none" /\ UNCHANGED <<origin, refused, crashes>>

-----------------------------------------------------------------------------
(* _run_under_lease and finalize_commit.                                   *)

Release == pc = "ready" /\ Goto("idle") /\ UNCHANGED <<store, chain>>

PrepareTransaction(t) ==
  /\ pc = "ready" /\ active = NoTxn /\ state[t] = "none"
  /\ active' = t
  /\ state' = [state EXCEPT ![t] = "prepared"]
  /\ UNCHANGED <<committed, journals, rollback_result, pre_halt_state,
                 assembly_halt, registration_digest, settlement_digest, chain>>
  /\ pc' = "register" /\ origin' = "execute" /\ UNCHANGED <<plan, refused, crashes>>

\* Mutant: the digest of the registration is not stored.
BugAppendRegistration ==
  /\ pc = "register"
  /\ Publish(RegisteredEntry(active)) /\ Goto("begin")

AppendRegistration ==
  /\ pc = "register"
  /\ Publish(RegisteredEntry(active)) /\ Goto("bind")

\* Mutant: the digest of the registration is not stored.
BugBindRegistration == pc = "bind" /\ Goto("begin") /\ UNCHANGED <<store, chain>>

BindRegistration ==
  /\ pc = "bind"
  /\ BindRegistrationDigest(active, Len(chain)) /\ Goto("begin")

BeginApplying ==
  /\ pc = "begin" /\ SetState(active, "applying") /\ Goto("effects")

\* Mutant: an effect is begun before its predecessors are done.
BugStartEffect(i) ==
  /\ pc = "effects" /\ journals[active][i] = "pending"
  /\ SetJournal(active, i, "started") /\ Goto("apply")

StartEffect(i) ==
  /\ pc = "effects" /\ journals[active][i] = "pending"
  /\ \A k \in Effects : k < i => journals[active][k] = "done"
  /\ SetJournal(active, i, "started") /\ Goto("apply")

FinishEffect(i) ==
  /\ pc = "apply" /\ journals[active][i] = "started"
  /\ SetJournal(active, i, "done") /\ Goto("effects")

FinishApplying ==
  /\ pc = "effects" /\ AllAre(journals[active], "done")
  /\ SetState(active, "applied") /\ Goto("verify")

\* Mutant: the settlement is published without the decision.
BugVerifyCommittedSurface == pc = "verify" /\ Goto("settle") /\ UNCHANGED <<store, chain>>

VerifyCommittedSurface ==
  /\ pc = "verify" /\ Goto("commit") /\ UNCHANGED <<store, chain>>

\* Any failure inside the try block; finalize_commit is outside it.
CaughtFailure ==
  /\ pc \in {"register", "bind", "begin", "effects", "apply", "verify"}
  /\ Goto("reconcile") /\ UNCHANGED <<store, chain>>

\* Mutant: the decision column is left alone.
BugDecideCommit == pc = "commit" /\ SetState(active, "committed") /\ Goto("settle")

DecideCommit ==
  /\ pc = "commit"
  /\ committed' = [committed EXCEPT ![active] = "committed"]
  /\ state' = [state EXCEPT ![active] = "committed"]
  /\ UNCHANGED <<active, journals, rollback_result, pre_halt_state, assembly_halt,
                 registration_digest, settlement_digest, chain>>
  /\ Goto("settle")

AppendSettlement ==
  /\ pc = "settle"
  /\ Publish(SettledEntry(active, registration_digest[active], "committed"))
  /\ Goto("bindset")

BindSettlement ==
  /\ pc = "bindset"
  /\ BindSettlementDigest(active, Len(chain)) /\ Goto("classify")

Crash ==
  /\ pc # "idle" /\ crashes < MaxCrashes
  /\ pc' = "idle" /\ plan' = "none" /\ crashes' = crashes + 1
  /\ UNCHANGED <<store, chain, origin, refused>>

-----------------------------------------------------------------------------
Resolve == ResolveNothing \/ ResolveHalted \/ ResolveActive

Reconcile ==
  \/ ReconcileAppendRegistration \/ ReconcileBindRegistration
  \/ ReconcileAppendSettlement \/ ReconcileBindSettlement
  \/ ReconcileDone

Classify ==
  \/ ClassifyTerminal \/ ClassifyHalt \/ ClassifyCommitted
  \/ \E drift \in BOOLEAN : ClassifyRollback(drift)

RunPlan ==
  \/ PersistRollingBack \/ PersistRolledBack \/ PersistHalt
  \/ \E i \in Effects : PersistUndoStarted(i) \/ PersistUndone(i)
  \/ ReachDetach \/ DetachActive

Execute ==
  \/ AppendRegistration \/ BindRegistration \/ BeginApplying
  \/ \E i \in Effects : StartEffect(i) \/ FinishEffect(i)
  \/ FinishApplying \/ VerifyCommittedSurface \/ DecideCommit
  \/ AppendSettlement \/ BindSettlement

\* What the lock holder does by itself, and the lease entry that starts it.
Progress == Acquire \/ Resolve \/ Reconcile \/ ApproveTopology \/ Classify \/ RunPlan \/ Execute

\* What the callers and the environment may or may not do.
Environment ==
  \/ \E t \in Txns : PrepareTransaction(t)
  \/ Release \/ AssemblyHalt \/ CaughtFailure \/ Crash

Next == Progress \/ Environment

Spec == Init /\ [][Next]_vars

FairSpec == Spec /\ WF_vars(Progress)
-----------------------------------------------------------------------------
(* The schema's triggers (store/schema.py), as what they demand of an      *)
(* update.  A refused update is an sqlite3.IntegrityError, which no caller *)
(* survives; they are not guards of the actions above, and TriggersSilent  *)
(* says that none of them ever fires.                                      *)

WriteOnce(t) ==
  /\ registration_digest[t] # 0 => registration_digest'[t] = registration_digest[t]
  /\ settlement_digest[t] # 0 => settlement_digest'[t] = settlement_digest[t]

RegistrationWindowGate(t) ==
  registration_digest'[t] # registration_digest[t] => RegistrationWindow(t)

DepartureGate(t) ==
  state[t] = "prepared" /\ state'[t] # "prepared" => registration_digest[t] # 0

JournalStartGate(t) ==
  (\E i \in Effects : journals[t][i] = "pending" /\ journals'[t][i] = "started")
    => state[t] = "applying" /\ registration_digest[t] # 0

SettlementGate(t) ==
  settlement_digest'[t] # settlement_digest[t]
    => registration_digest[t] # 0 /\ state[t] \in TerminalStates

ActiveGate ==
  active' # active =>
    \/ active = NoTxn
    \/ /\ active' = NoTxn
       /\ state[active] \in TerminalStates /\ ~assembly_halt[active]
       /\ registration_digest[active] # 0 /\ settlement_digest[active] # 0

AssemblyHaltFreezes(t) ==
  assembly_halt[t] =>
    /\ assembly_halt'[t] /\ state'[t] = state[t] /\ committed'[t] = committed[t]
    /\ journals'[t] = journals[t] /\ rollback_result'[t] = rollback_result[t]
    /\ registration_digest'[t] = registration_digest[t]
    /\ settlement_digest'[t] = settlement_digest[t]

Triggers ==
  /\ ActiveGate
  /\ \A t \in Txns :
       /\ WriteOnce(t) /\ RegistrationWindowGate(t) /\ DepartureGate(t)
       /\ JournalStartGate(t) /\ SettlementGate(t) /\ AssemblyHaltFreezes(t)

=============================================================================
