-------------------------- MODULE TxnProtocol_proofs --------------------------
(***************************************************************************)
(* Proofs, for every number of effects, set of transactions and number of  *)
(* crashes, about TxnProtocol.                                             *)
(*                                                                         *)
(* The first part is about the record: types, control and the directions   *)
(* a state and a journal take.  The second is about the chain: that the    *)
(* record and the chain can always be reconciled, that the chain is        *)
(* truthful, that a transaction leaves the active slot settled, that no    *)
(* trigger of the schema ever fires, and that the protocol implements      *)
(* AtomicOutcome.  It rests on LedgerInv, what a crash at any point leaves *)
(* behind.                                                                 *)
(***************************************************************************)
EXTENDS TxnProperties, SequenceTheorems, TLAPS

-----------------------------------------------------------------------------
(* Every store column, the chain and the process state keep their type     *)
(* through every action of the coordinator and every crash.                *)

\* The initial values have their types.
LEMMA InitTypeOK == Init => TypeOK
<1> SUFFICES ASSUME Init PROVE TypeOK
  OBVIOUS
<1>1. active \in Txns \cup {NoTxn} /\ pc \in ProgramPoints
      /\ origin \in {"resolve", "execute"}
      /\ plan \in {"none", "halt", "detach", "cleanup", "rollback"}
      /\ refused \in BOOLEAN
  BY DEF Init, ProgramPoints
<1>2. crashes \in 0..MaxCrashes
  BY CrashAssumption DEF Init
<1>3. journals \in [Txns -> Journals]
  BY DEF Init, Journals, JournalStates
<1>4. chain \in Seq(Entries)
  BY DEF Init
<1>5. state \in [Txns -> TransactionStates \cup {"none"}]
      /\ committed \in [Txns -> CommitDecisions]
      /\ rollback_result \in [Txns -> RollbackResults \cup {"none"}]
      /\ pre_halt_state \in [Txns -> TransactionStates \cup {"none"}]
  BY DEF Init, CommitDecisions
<1>6. assembly_halt \in [Txns -> BOOLEAN]
      /\ registration_digest \in [Txns -> Nat] /\ settlement_digest \in [Txns -> Nat]
  BY DEF Init
<1> QED
  BY <1>1, <1>2, <1>3, <1>4, <1>5, <1>6 DEF TypeOK

\* A journal entry of one record is replaced by another one.
LEMMA JournalType ==
  ASSUME TypeOK, NEW t \in Txns, NEW i \in Effects, NEW s \in JournalStates,
         SetJournal(t, i, s)
  PROVE  journals' \in [Txns -> Journals]
<1>1. [journals[t] EXCEPT ![i] = s] \in Journals
  BY DEF TypeOK, Journals
<1> QED
  BY <1>1 DEF TypeOK, SetJournal

\* What is published is an entry.
LEMMA RegisteredType ==
  ASSUME TypeOK, NEW t \in Txns, Publish(RegisteredEntry(t))
  PROVE  chain' \in Seq(Entries)
<1>1. RegisteredEntry(t) \in Entries
  BY DEF RegisteredEntry, Entries
<1> QED
  BY <1>1 DEF TypeOK, Publish

\* A published settlement is an entry of the chain.
LEMMA SettledType ==
  ASSUME TypeOK, NEW t \in Txns, NEW r \in Nat, NEW o \in Outcomes \cup {"none"},
         Publish(SettledEntry(t, r, o))
  PROVE  chain' \in Seq(Entries)
<1>1. SettledEntry(t, r, o) \in Entries
  BY DEF SettledEntry, Entries
<1> QED
  BY <1>1 DEF TypeOK, Publish

(* The lock holder works on a transaction at every point but these.        *)
Working == pc \notin {"idle", "resolve", "ready"}

(* The active transaction exists and is not halted while it is worked on,  *)
(* and execution is at the point its state says.                           *)
ActiveKnown == active # NoTxn => active \in Txns /\ state[active] # "none"

PointMatchesState ==
  /\ Working => active \in Txns /\ state[active] \notin {"none", "halted"}
  /\ pc \in {"register", "bind", "begin"} => state[active] = "prepared"
  /\ pc \in {"effects", "apply"} => state[active] = "applying"
  /\ pc \in {"verify", "commit"} => state[active] = "applied"
  /\ pc \in {"settle", "bindset"} => state[active] = "committed"

(* A halted record has halted in a state that can be resumed or cleaned.   *)
HaltRecorded ==
  \A t \in Txns : state[t] = "halted" => pre_halt_state[t] \notin {"none", "halted"}

ControlInv == TypeOK /\ ActiveKnown /\ PointMatchesState /\ HaltRecorded

(* ControlInv is inductive: no invariant about journals or the chain is    *)
(* needed to know that the process and the record it works on move         *)
(* together.                                                               *)
LEMMA ControlStep ==
  ASSUME ControlInv, [Next]_vars
  PROVE  ControlInv'
<1> USE DEF ControlInv, TypeOK, ActiveKnown, PointMatchesState, HaltRecorded,
            Working, ProgramPoints
<1>1. CASE Acquire \/ Resolve \/ Release
  BY <1>1 DEF Acquire, Resolve, ResolveNothing, ResolveHalted, ResolveActive,
              Release, Goto, store
<1>2. CASE Reconcile
  <2>1. CASE ReconcileAppendRegistration
    <3>1. chain' \in Seq(Entries)
      BY <2>1, RegisteredType DEF ReconcileAppendRegistration
    <3> QED
      BY <2>1, <3>1 DEF ReconcileAppendRegistration, Publish, store, process
  <2>2. CASE ReconcileBindRegistration
    BY <2>2 DEF ReconcileBindRegistration, BindRegistrationDigest, process, Registrations
  <2>3. CASE ReconcileAppendSettlement
    <3>1. chain' \in Seq(Entries)
      BY <2>3, SettledType
         DEF ReconcileAppendSettlement, TerminalOutcome, TerminalStates, Outcomes
    <3> QED
      BY <2>3, <3>1 DEF ReconcileAppendSettlement, Publish, store, process
  <2>4. CASE ReconcileBindSettlement
    BY <2>4 DEF ReconcileBindSettlement, BindSettlementDigest, process, Settlements
  <2>5. CASE ReconcileDone
    BY <2>5 DEF ReconcileDone, Goto, store
  <2> QED
    BY <1>2, <2>1, <2>2, <2>3, <2>4, <2>5 DEF Reconcile
<1>3. CASE ApproveTopology \/ AssemblyHalt
  BY <1>3 DEF ApproveTopology, AssemblyHalt, Goto, store
<1>4. CASE Classify
  BY <1>4 DEF Classify, ClassifyTerminal, ClassifyHalt, ClassifyCommitted,
              ClassifyRollback, Adopt, store
<1>5. CASE RunPlan
  <2>1. CASE PersistRollingBack
    BY <2>1 DEF PersistRollingBack, SetState, process, TransactionStates
  <2>2. CASE PersistRolledBack
    BY <2>2 DEF PersistRolledBack, process, TransactionStates, RollbackResults
  <2>3. CASE PersistHalt
    BY <2>3 DEF PersistHalt, TransactionStates
  <2>4. ASSUME NEW i \in Effects, PersistUndoStarted(i) \/ PersistUndone(i)
        PROVE  ControlInv'
    <3>1. journals' \in [Txns -> Journals]
      BY <2>4, JournalType DEF PersistUndoStarted, PersistUndone, JournalStates
    <3> QED
      BY <2>4, <3>1 DEF PersistUndoStarted, PersistUndone, SetJournal, process
  <2>5. CASE ReachDetach \/ DetachActive
    BY <2>5 DEF ReachDetach, DetachActive, Goto, store
  <2> QED
    BY <1>5, <2>1, <2>2, <2>3, <2>4, <2>5 DEF RunPlan
<1>6. CASE Execute
  <2>1. CASE AppendRegistration
    <3>1. chain' \in Seq(Entries)
      BY <2>1, RegisteredType DEF AppendRegistration
    <3> QED
      BY <2>1, <3>1 DEF AppendRegistration, Publish, store, Goto
  <2>2. CASE BindRegistration
    BY <2>2 DEF BindRegistration, BindRegistrationDigest, Goto
  <2>3. CASE BeginApplying \/ FinishApplying
    BY <2>3 DEF BeginApplying, FinishApplying, SetState, Goto, TransactionStates
  <2>4. ASSUME NEW i \in Effects, StartEffect(i) \/ FinishEffect(i)
        PROVE  ControlInv'
    <3>1. journals' \in [Txns -> Journals]
      BY <2>4, JournalType DEF StartEffect, FinishEffect, JournalStates
    <3> QED
      BY <2>4, <3>1 DEF StartEffect, FinishEffect, SetJournal, Goto
  <2>5. CASE VerifyCommittedSurface
    BY <2>5 DEF VerifyCommittedSurface, Goto, store
  <2>6. CASE DecideCommit
    BY <2>6 DEF DecideCommit, Goto, TransactionStates, CommitDecisions
  <2>7. CASE AppendSettlement
    <3>1. chain' \in Seq(Entries)
      BY <2>7, SettledType DEF AppendSettlement, Outcomes
    <3> QED
      BY <2>7, <3>1 DEF AppendSettlement, Publish, store, Goto
  <2>8. CASE BindSettlement
    BY <2>8 DEF BindSettlement, BindSettlementDigest, Goto
  <2> QED
    BY <1>6, <2>1, <2>2, <2>3, <2>4, <2>5, <2>6, <2>7, <2>8 DEF Execute
<1>7. CASE \E t \in Txns : PrepareTransaction(t)
  BY <1>7 DEF PrepareTransaction, TransactionStates
<1>8. CASE CaughtFailure \/ Crash
  BY <1>8, CrashAssumption DEF CaughtFailure, Crash, Goto, store
<1>9. CASE UNCHANGED vars
  BY <1>9 DEF vars
<1> QED
  BY <1>1, <1>2, <1>3, <1>4, <1>5, <1>6, <1>7, <1>8, <1>9 DEF Next, Progress, Environment

\* No process is at work at first, and no record is there.
LEMMA ControlInit == Init => ControlInv
BY InitTypeOK
   DEF Init, ControlInv, ActiveKnown, PointMatchesState, HaltRecorded, Working

(* The process, the record it works on and the types of both, in every     *)
(* reachable state.                                                        *)
THEOREM ControlInvariant == Spec => []ControlInv
BY ControlInit, ControlStep, PTL DEF Spec

(* The type invariant of the coordinator's store, chain and process state  *)
(* (store/schema.py, coordinator).                                         *)
THEOREM TypeCorrect == Spec => []TypeOK
<1>1. ControlInv => TypeOK
  BY DEF ControlInv
<1> QED
  BY <1>1, ControlInvariant, PTL

-----------------------------------------------------------------------------
(* The journal vectors and the commit decision.                            *)

record == <<state, committed, journals, pre_halt_state>>

\* A step that changes a record is one of the store transactions.
LEMMA RecordSteps ==
  ASSUME [Next]_vars
  PROVE  \/ UNCHANGED record
         \/ PersistRollingBack \/ PersistRolledBack \/ PersistHalt
         \/ \E i \in Effects : \/ PersistUndoStarted(i) \/ PersistUndone(i)
                               \/ StartEffect(i) \/ FinishEffect(i)
         \/ BeginApplying \/ FinishApplying \/ DecideCommit
         \/ \E t \in Txns : PrepareTransaction(t)
<1> USE DEF record, store
<1>1. CASE Acquire \/ Resolve \/ Release \/ Classify
  BY <1>1 DEF Acquire, Resolve, ResolveNothing, ResolveHalted, ResolveActive,
              Release, Goto, Classify, ClassifyTerminal, ClassifyHalt,
              ClassifyCommitted, ClassifyRollback, Adopt
<1>2. CASE Reconcile
  BY <1>2 DEF Reconcile, ReconcileAppendRegistration, ReconcileBindRegistration,
              ReconcileAppendSettlement, ReconcileBindSettlement, ReconcileDone,
              Publish, BindRegistrationDigest, BindSettlementDigest
<1>3. CASE ApproveTopology \/ AssemblyHalt \/ CaughtFailure \/ Crash
  BY <1>3 DEF ApproveTopology, AssemblyHalt, CaughtFailure, Crash
<1>4. CASE RunPlan
  BY <1>4 DEF RunPlan, ReachDetach, DetachActive
<1>5. CASE Execute
  BY <1>5 DEF Execute, AppendRegistration, BindRegistration, VerifyCommittedSurface,
              AppendSettlement, BindSettlement, Publish, BindRegistrationDigest,
              BindSettlementDigest
<1>6. CASE UNCHANGED vars
  BY <1>6 DEF vars
<1> QED
  BY <1>1, <1>2, <1>3, <1>4, <1>5, <1>6 DEF Next, Progress, Environment

\* An opened undo: what stands around the cursor allows it.
LEMMA UndoNeighbours ==
  ASSUME NEW j \in Journals, NEW i \in Effects, NEW s \in {"undo_started", "undone"},
         Neighbours(j, RollingBackFollows), RollbackCursor(j, i)
  PROVE  Neighbours([j EXCEPT ![i] = s], RollingBackFollows)
BY NAssumption DEF Journals, JournalStates, Neighbours, RollingBackFollows, Nothing,
                   RollbackCursor, Unwound, Effects

\* An effect is begun behind finished ones, or finished.
LEMMA ForwardNeighbours ==
  ASSUME NEW j \in Journals, NEW i \in Effects, ForwardLanguage(j),
         NEW s \in {"started", "done"},
         \/ s = "started" /\ j[i] = "pending" /\ \A k \in Effects : k < i => j[k] = "done"
         \/ s = "done" /\ j[i] = "started"
  PROVE  ForwardLanguage([j EXCEPT ![i] = s])
BY NAssumption DEF Journals, JournalStates, ForwardLanguage, Neighbours,
                   ForwardFollows, Nothing, Effects

\* What a rollback starts from, and what it ends in.
LEMMA RollbackEnds ==
  ASSUME NEW j \in Journals
  PROVE  /\ AllAre(j, "pending") => ForwardLanguage(j)
         /\ AllAre(j, "done") => ForwardLanguage(j)
         /\ ForwardLanguage(j) => Neighbours(j, RollingBackFollows)
         /\ Neighbours(j, RollingBackFollows) /\ (\A i \in Effects : j[i] \in Unwound)
              => RolledBackLanguage(j)
BY NAssumption DEF Journals, JournalStates, AllAre, ForwardLanguage, Neighbours,
                   ForwardFollows, RollingBackFollows, RolledBackLanguage,
                   RolledBackFollows, Unwound, Nothing, Effects

RecordInv == JournalsReachable /\ DecisionMatchesState

\* No record is there at first.
LEMMA RecordInit == Init => RecordInv
BY DEF Init, RecordInv, JournalsReachable, DecisionMatchesState, ReachableJournal,
       LastState, AllAre

\* Every step moves the journal within the language of the state it leads to.
LEMMA RecordStep ==
  ASSUME ControlInv, RecordInv, [Next]_vars
  PROVE  RecordInv'
<1> USE DEF RecordInv, ControlInv, PointMatchesState, Working, LastState
<1>0. journals \in [Txns -> Journals] /\ journals' \in [Txns -> Journals]
      /\ state \in [Txns -> TransactionStates \cup {"none"}]
      /\ committed \in [Txns -> CommitDecisions]
      /\ pre_halt_state \in [Txns -> TransactionStates \cup {"none"}]
  BY ControlStep DEF TypeOK
<1>1. CASE UNCHANGED record
  BY <1>1 DEF record, JournalsReachable, DecisionMatchesState
<1>2. CASE PersistRollingBack
  BY <1>0, <1>2, RollbackEnds
     DEF PersistRollingBack, SetState, JournalsReachable, DecisionMatchesState,
         ReachableJournal
<1>3. CASE PersistRolledBack
  BY <1>0, <1>3, RollbackEnds
     DEF PersistRolledBack, JournalsReachable, DecisionMatchesState, ReachableJournal
<1>4. CASE PersistHalt
  BY <1>0, <1>4 DEF PersistHalt, JournalsReachable, DecisionMatchesState
<1>5. ASSUME NEW i \in Effects, PersistUndoStarted(i) \/ PersistUndone(i)
      PROVE  RecordInv'
  <2>1. PICK s \in {"undo_started", "undone"} :
          journals' = [journals EXCEPT ![active][i] = s]
    BY <1>5 DEF PersistUndoStarted, PersistUndone, SetJournal
  <2>2. /\ active \in Txns /\ state[active] = "rolling_back"
        /\ RollbackCursor(journals[active], i)
        /\ UNCHANGED <<state, committed, pre_halt_state>>
    BY <1>5 DEF PersistUndoStarted, PersistUndone, SetJournal
  <2>3. journals'[active] = [journals[active] EXCEPT ![i] = s]
        /\ \A t \in Txns \ {active} : journals'[t] = journals[t]
    BY <1>0, <2>1, <2>2
  <2>4. Neighbours(journals'[active], RollingBackFollows)
    <3>1. Neighbours(journals[active], RollingBackFollows) /\ journals[active] \in Journals
      BY <1>0, <2>2 DEF JournalsReachable, ReachableJournal
    <3>2. Neighbours([journals[active] EXCEPT ![i] = s], RollingBackFollows)
      BY <2>2, <3>1, UndoNeighbours
    <3> QED
      BY <2>3, <3>2
  <2> QED
    BY <2>2, <2>3, <2>4 DEF JournalsReachable, DecisionMatchesState, ReachableJournal
<1>6. ASSUME NEW i \in Effects, StartEffect(i) \/ FinishEffect(i)
      PROVE  RecordInv'
  <2>1. PICK s \in {"started", "done"} :
          /\ journals' = [journals EXCEPT ![active][i] = s]
          /\ \/ s = "started" /\ StartEffect(i)
             \/ s = "done" /\ FinishEffect(i)
    BY <1>6 DEF StartEffect, FinishEffect, SetJournal
  <2>2. /\ active \in Txns /\ state[active] = "applying"
        /\ UNCHANGED <<state, committed, pre_halt_state>>
    BY <1>6 DEF StartEffect, FinishEffect, SetJournal
  <2>3. journals'[active] = [journals[active] EXCEPT ![i] = s]
        /\ \A t \in Txns \ {active} : journals'[t] = journals[t]
    BY <1>0, <2>1, <2>2
  <2>4. ForwardLanguage(journals'[active])
    BY <1>0, <2>1, <2>2, <2>3, ForwardNeighbours
       DEF StartEffect, FinishEffect, JournalsReachable, ReachableJournal
  <2> QED
    BY <2>2, <2>3, <2>4 DEF JournalsReachable, DecisionMatchesState, ReachableJournal
<1>7. CASE BeginApplying \/ FinishApplying
  BY <1>0, <1>7, RollbackEnds
     DEF BeginApplying, FinishApplying, SetState, JournalsReachable,
         DecisionMatchesState, ReachableJournal
<1>8. CASE DecideCommit
  BY <1>0, <1>8 DEF DecideCommit, JournalsReachable, DecisionMatchesState, ReachableJournal
<1>9. ASSUME NEW t \in Txns, PrepareTransaction(t)
      PROVE  RecordInv'
  BY <1>0, <1>9
     DEF PrepareTransaction, JournalsReachable, DecisionMatchesState, ReachableJournal
<1> QED
  BY <1>1, <1>2, <1>3, <1>4, <1>5, <1>6, <1>7, <1>8, <1>9, RecordSteps

(* Whatever the order of execution, failure, crash and recovery, a         *)
(* record's journal is in the language of its state: effects are begun in  *)
(* order, undone in reverse order, all done when committed, none standing  *)
(* when rolled back.                                                       *)
THEOREM JournalsStayReachable == Spec => []JournalsReachable
<1>1. ControlInv /\ RecordInv /\ [Next]_vars => RecordInv'
  BY RecordStep
<1>2. RecordInv => JournalsReachable
  BY DEF RecordInv
<1> QED
  BY <1>1, <1>2, RecordInit, ControlInvariant, PTL DEF Spec

(* The commit decision and the state column never disagree.                *)
THEOREM DecisionStable == Spec => []DecisionMatchesState
<1>1. ControlInv /\ RecordInv /\ [Next]_vars => RecordInv'
  BY RecordStep
<1>2. RecordInv => DecisionMatchesState
  BY DEF RecordInv
<1> QED
  BY <1>1, <1>2, RecordInit, ControlInvariant, PTL DEF Spec

-----------------------------------------------------------------------------
(* The inductive invariant.                                                *)

\* One entry of a kind per transaction; a bound digest names that entry.
OneEntryEach ==
  \A t \in Txns :
    /\ AtMostOne(Registrations(t)) /\ AtMostOne(Settlements(t))
    /\ registration_digest[t] # 0 => registration_digest[t] \in Registrations(t)
    /\ settlement_digest[t] # 0 => settlement_digest[t] \in Settlements(t)

\* A record without a bound registration has done nothing yet.
RegisteredFirst ==
  \A t \in Txns :
    /\ registration_digest[t] = 0 => state[t] \in {"none", "prepared"}
    /\ state[t] = "none" => registration_digest[t] = 0 /\ Registrations(t) = {}

\* A settlement is published for the bound registration and the outcome only.
SettledByOutcome ==
  \A t \in Txns : \A d \in Settlements(t) :
    /\ registration_digest[t] # 0 /\ registration_digest[t] < d
    /\ LastState(t) \in TerminalStates
    /\ chain[d] = SettledEntry(t, registration_digest[t], LastState(t))

\* A halt after the decision keeps the settlement; none follows a rollback.
HaltIsSettledOrOpen ==
  \A t \in Txns : state[t] = "halted" =>
    /\ pre_halt_state[t] # "rolled_back"
    /\ pre_halt_state[t] = "committed" => settlement_digest[t] # 0

\* Only the active transaction may be unfinished, frozen or halted.
OthersAreSettled ==
  \A t \in Txns : t # active /\ state[t] # "none" =>
    /\ state[t] \in TerminalStates
    /\ registration_digest[t] # 0 /\ settlement_digest[t] # 0

FrozenStaysActive ==
  \A t \in Txns : assembly_halt[t] => t = active /\ pc \in {"idle", "resolve"}

\* What the process knows about the chain at each point.
PointMatchesLedger ==
  /\ pc = "register" => registration_digest[active] = 0 /\ Registrations(active) = {}
  /\ pc = "bind" => registration_digest[active] = 0 /\ Len(chain) \in Registrations(active)
  /\ Working /\ pc \notin {"register", "bind", "reconcile"} => registration_digest[active] # 0
  /\ pc \in {"settle", "bindset"} => settlement_digest[active] = 0
  /\ pc = "settle" => Settlements(active) = {}
  /\ pc = "bindset" => Len(chain) \in Settlements(active)

\* What the plan being run knows about the record and its settlement.
PlanMatchesRecord ==
  /\ plan # "none" => pc \in {"plan", "reconcile", "detach"}
  /\ pc \in {"approve", "classify", "detach"} /\ state[active] \in TerminalStates
       => settlement_digest[active] # 0
  /\ pc = "plan" /\ state[active] = "committed" => settlement_digest[active] # 0
  /\ pc = "plan" /\ plan = "detach" => state[active] = "rolled_back"
  /\ pc = "plan" /\ plan = "halt" => state[active] # "rolled_back"
  /\ pc = "plan" /\ plan = "cleanup" => state[active] = "committed"
  /\ pc \in {"reconcile", "detach"} /\ plan # "none" => state[active] \in TerminalStates
  /\ pc = "detach" => plan # "none"

\* The part that a crash does not touch, and the part that speaks of the process.
DurableLedger ==
  OneEntryEach /\ RegisteredFirst /\ SettledByOutcome /\ HaltIsSettledOrOpen /\ OthersAreSettled

ProcessLedger == FrozenStaysActive /\ PointMatchesLedger /\ PlanMatchesRecord

LedgerInv == DurableLedger /\ ProcessLedger

Known == ControlInv /\ RecordInv /\ LedgerInv

\* The active record and the chain agree, and at most one entry is missing.
LEMMA KnownReconcilable ==
  ASSUME Known, active # NoTxn
  PROVE  /\ ReconcilableRecord(active)
         /\ ~(RegistrationAction(active) = "append" /\ SettlementAction(active) = "append")
<1> USE DEF Known
<1>1. active \in Txns /\ state[active] # "none"
  BY DEF ControlInv, ActiveKnown
<1>2. AtMostOne(Registrations(active)) /\ AtMostOne(Settlements(active))
  BY <1>1 DEF LedgerInv, DurableLedger, OneEntryEach
<1>3. registration_digest[active] = 0 => RegistrationWindow(active)
  BY <1>1 DEF LedgerInv, DurableLedger, RegisteredFirst, RecordInv, JournalsReachable,
              ReachableJournal, LastState, RegistrationWindow
<1>4. RegistrationAction(active) # "invalid"
  BY <1>1, <1>2, <1>3 DEF RegistrationAction, LedgerInv, DurableLedger, OneEntryEach
<1>5. settlement_digest[active] # 0 => BoundSettlementAgrees(active)
  <2> DEFINE d == settlement_digest[active]
  <2> SUFFICES ASSUME d # 0 PROVE BoundSettlementAgrees(active)
    OBVIOUS
  <2>1. d \in Settlements(active)
    BY <1>1 DEF LedgerInv, DurableLedger, OneEntryEach
  <2>2. /\ LastState(active) \in TerminalStates
        /\ chain[d] = SettledEntry(active, registration_digest[active], LastState(active))
    BY <1>1, <2>1 DEF LedgerInv, DurableLedger, SettledByOutcome
  <2>3. chain[d].registration = registration_digest[active]
        /\ chain[d].outcome = LastState(active)
    BY <2>2 DEF SettledEntry
  <2>4. /\ TerminalOutcome(active) # "none" \/ CommittedHalt(active)
        /\ LastState(active) = IF CommittedHalt(active) THEN "committed"
                               ELSE TerminalOutcome(active)
    BY <1>1, <2>2 DEF LedgerInv, DurableLedger, HaltIsSettledOrOpen, LastState, TerminalOutcome,
                      CommittedHalt, TerminalStates
  <2> QED
    BY <2>1, <2>3, <2>4 DEF BoundSettlementAgrees
<1>6. settlement_digest[active] = 0 /\ TerminalOutcome(active) = "none"
        => Settlements(active) = {}
  BY <1>1 DEF LedgerInv, DurableLedger, SettledByOutcome, HaltIsSettledOrOpen, LastState,
              TerminalOutcome, TerminalStates
<1>7. TerminalOutcome(active) # "none" => UnboundSettlementAgrees(active)
  BY <1>1 DEF LedgerInv, DurableLedger, SettledByOutcome, LastState, TerminalOutcome, TerminalStates,
              UnboundSettlementAgrees
<1>8. SettlementAction(active) # "invalid"
  BY <1>2, <1>5, <1>6, <1>7 DEF SettlementAction
<1>9. RegistrationAction(active) = "append" => SettlementAction(active) # "append"
  BY <1>2, <1>3, <1>4 DEF RegistrationAction, SettlementAction, RegistrationWindow,
                          TerminalOutcome, TerminalStates
<1> QED
  BY <1>4, <1>8, <1>9 DEF ReconcilableRecord

-----------------------------------------------------------------------------
(* How an append changes the two sets of entries.                          *)

\* Appending a registration adds one, of this transaction alone.
LEMMA AppendedRegistration ==
  ASSUME chain \in Seq(Entries), NEW t \in Txns, chain' = Append(chain, RegisteredEntry(t))
  PROVE  /\ Len(chain') = Len(chain) + 1 /\ Len(chain) \in Nat
         /\ \A d \in 1..Len(chain) : chain'[d] = chain[d]
         /\ Registrations(t)' = Registrations(t) \cup {Len(chain')}
         /\ \A u \in Txns \ {t} : Registrations(u)' = Registrations(u)
         /\ \A u \in Txns : Settlements(u)' = Settlements(u)
<1> DEFINE n == Len(chain)
<1>1. /\ n \in Nat /\ Len(chain') = n + 1
      /\ \A d \in 1..n : chain'[d] = chain[d]
      /\ chain'[n + 1] = RegisteredEntry(t)
  BY DEF RegisteredEntry
<1>2. 1..(n + 1) = (1..n) \cup {n + 1} /\ n + 1 \notin 1..n
  BY <1>1
<1>3. chain'[n + 1].kind = "registered" /\ chain'[n + 1].txid = t
  BY <1>1 DEF RegisteredEntry
<1> QED
  BY <1>1, <1>2, <1>3 DEF Registrations, Settlements

\* Appending a settlement adds one, of this transaction alone.
LEMMA AppendedSettlement ==
  ASSUME chain \in Seq(Entries), NEW t \in Txns, NEW r, NEW o,
         chain' = Append(chain, SettledEntry(t, r, o))
  PROVE  /\ Len(chain') = Len(chain) + 1 /\ Len(chain) \in Nat
         /\ \A d \in 1..Len(chain) : chain'[d] = chain[d]
         /\ chain'[Len(chain')] = SettledEntry(t, r, o)
         /\ Settlements(t)' = Settlements(t) \cup {Len(chain')}
         /\ \A u \in Txns \ {t} : Settlements(u)' = Settlements(u)
         /\ \A u \in Txns : Registrations(u)' = Registrations(u)
<1> DEFINE n == Len(chain)
<1>1. /\ n \in Nat /\ Len(chain') = n + 1
      /\ \A d \in 1..n : chain'[d] = chain[d]
      /\ chain'[n + 1] = SettledEntry(t, r, o)
  BY DEF SettledEntry
<1>2. 1..(n + 1) = (1..n) \cup {n + 1} /\ n + 1 \notin 1..n
  BY <1>1
<1>3. chain'[n + 1].kind = "settled" /\ chain'[n + 1].txid = t
  BY <1>1 DEF SettledEntry
<1> QED
  BY <1>1, <1>2, <1>3 DEF Registrations, Settlements

\* A chain that is left alone keeps its entries.
LEMMA SameEntries ==
  ASSUME UNCHANGED chain
  PROVE  \A t \in Txns : /\ Registrations(t)' = Registrations(t)
                         /\ Settlements(t)' = Settlements(t)
BY DEF Registrations, Settlements

-----------------------------------------------------------------------------
(* What the decisions of the code say about the record.                    *)

(* What each answer of _derive_reconciliation about a registration         *)
(* presupposes.                                                            *)
LEMMA RegistrationActions ==
  ASSUME NEW t \in Txns
  PROVE  /\ RegistrationAction(t) = "none" => registration_digest[t] # 0
         /\ RegistrationAction(t) \in {"append", "backfill"}
              => registration_digest[t] = 0 /\ RegistrationWindow(t)
         /\ RegistrationAction(t) = "append" => Registrations(t) = {}
BY DEF RegistrationAction

\* What each answer of _derive_reconciliation about a settlement presupposes.
LEMMA SettlementActions ==
  ASSUME NEW t \in Txns
  PROVE  /\ SettlementAction(t) = "none" /\ state[t] \in TerminalStates
              => settlement_digest[t] # 0
         /\ SettlementAction(t) \in {"append", "backfill"}
              => /\ settlement_digest[t] = 0 /\ state[t] \in TerminalStates
                 /\ TerminalOutcome(t) = state[t]
         /\ SettlementAction(t) = "append" => Settlements(t) = {}
BY DEF SettlementAction, TerminalOutcome, TerminalStates

\* A rolled back record is detached and nothing else.
LEMMA AuthorityOverTerminal ==
  ASSUME RecordInv, ControlInv, active \in Txns
  PROVE  state[active] = "rolled_back" <=> AuthorityOf(active) = "detach"
<1>1. committed[active] \in CommitDecisions
  BY DEF ControlInv, TypeOK
<1>2. state[active] = "rolled_back" =>
        committed[active] = "uncommitted" /\ RolledBackLanguage(journals[active])
  BY <1>1 DEF RecordInv, JournalsReachable, DecisionMatchesState, LastState,
              ReachableJournal, CommitDecisions
<1> QED
  BY <1>2 DEF AuthorityOf, Authority, CompatibleCommitDecision, LegalJournalLanguage,
              TerminalStates

\* A step that leaves the store and the chain alone keeps what is durable.
LEMMA DurableStutter ==
  ASSUME DurableLedger, UNCHANGED <<store, chain>>
  PROVE  DurableLedger'
BY SameEntries DEF DurableLedger, store, OneEntryEach, RegisteredFirst, SettledByOutcome,
                   HaltIsSettledOrOpen, OthersAreSettled, LastState

-----------------------------------------------------------------------------
(* The durable part is kept.                                               *)

\* At every point of work the active record is there and not halted.
LEMMA AtWork ==
  ASSUME ControlInv, Working
  PROVE  active \in Txns /\ state[active] \notin {"none", "halted"}
BY DEF ControlInv, PointMatchesState

\* Publishing a registration keeps the ledger in order: it is the first.
LEMMA PublishRegistration ==
  ASSUME Known, active \in Txns, state[active] # "none", registration_digest[active] = 0,
         Registrations(active) = {}, Publish(RegisteredEntry(active))
  PROVE  DurableLedger'
<1> USE DEF Known, ControlInv, LedgerInv, DurableLedger, Publish, store
<1>1. /\ Len(chain') = Len(chain) + 1 /\ Len(chain) \in Nat
      /\ \A d \in 1..Len(chain) : chain'[d] = chain[d]
      /\ Registrations(active)' = Registrations(active) \cup {Len(chain')}
      /\ \A u \in Txns \ {active} : Registrations(u)' = Registrations(u)
      /\ \A u \in Txns : Settlements(u)' = Settlements(u)
  BY AppendedRegistration DEF TypeOK
<1>2. OneEntryEach'
  BY <1>1 DEF OneEntryEach, AtMostOne
<1>3. RegisteredFirst'
  BY <1>1 DEF RegisteredFirst
<1>4. \A t \in Txns : \A d \in Settlements(t) : d \in 1..Len(chain)
  BY DEF Settlements
<1>5. SettledByOutcome'
  BY <1>1, <1>4 DEF SettledByOutcome, LastState
<1>6. HaltIsSettledOrOpen' /\ OthersAreSettled'
  BY DEF HaltIsSettledOrOpen, OthersAreSettled
<1> QED
  BY <1>2, <1>3, <1>5, <1>6

(* Publishing a settlement keeps the ledger in order: it is the first, and *)
(* it carries the state of the record.                                     *)
LEMMA PublishSettlement ==
  ASSUME Known, active \in Txns, state[active] \in TerminalStates,
         registration_digest[active] # 0, Settlements(active) = {},
         Publish(SettledEntry(active, registration_digest[active], state[active]))
  PROVE  DurableLedger'
<1> USE DEF Known, ControlInv, LedgerInv, DurableLedger, Publish, store
<1>1. /\ Len(chain') = Len(chain) + 1 /\ Len(chain) \in Nat
      /\ \A d \in 1..Len(chain) : chain'[d] = chain[d]
      /\ chain'[Len(chain')] =
           SettledEntry(active, registration_digest[active], state[active])
      /\ Settlements(active)' = Settlements(active) \cup {Len(chain')}
      /\ \A u \in Txns \ {active} : Settlements(u)' = Settlements(u)
      /\ \A u \in Txns : Registrations(u)' = Registrations(u)
  BY AppendedSettlement DEF TypeOK
<1>2. OneEntryEach'
  BY <1>1 DEF OneEntryEach, AtMostOne
<1>3. RegisteredFirst'
  BY <1>1 DEF RegisteredFirst
<1>4. \A t \in Txns : \A d \in Settlements(t) \cup Registrations(t) : d \in 1..Len(chain)
  BY DEF Settlements, Registrations
<1>5. registration_digest[active] < Len(chain')
  BY <1>1, <1>4 DEF OneEntryEach
<1>6. LastState(active) = state[active] /\ \A t \in Txns : LastState(t)' = LastState(t)
  BY DEF LastState, TerminalStates
<1>7. SettledByOutcome'
  BY <1>1, <1>4, <1>5, <1>6 DEF SettledByOutcome
<1>8. HaltIsSettledOrOpen' /\ OthersAreSettled'
  BY DEF HaltIsSettledOrOpen, OthersAreSettled
<1> QED
  BY <1>2, <1>3, <1>7, <1>8

\* Binding the digest of a published registration keeps the ledger in order.
LEMMA BindRegistrationKeeps ==
  ASSUME Known, active \in Txns, registration_digest[active] = 0,
         state[active] # "none",
         NEW d \in Registrations(active), BindRegistrationDigest(active, d)
  PROVE  DurableLedger'
<1> USE DEF Known, ControlInv, TypeOK, LedgerInv, DurableLedger, BindRegistrationDigest
<1>1. d # 0
  BY DEF Registrations
<1>2. Settlements(active) = {}
  BY DEF SettledByOutcome
<1>3. OneEntryEach'
  BY SameEntries DEF OneEntryEach
<1>4. RegisteredFirst'
  BY <1>1, SameEntries DEF RegisteredFirst
<1>5. SettledByOutcome'
  BY <1>2, SameEntries DEF SettledByOutcome, LastState
<1>6. HaltIsSettledOrOpen' /\ OthersAreSettled'
  BY <1>1 DEF HaltIsSettledOrOpen, OthersAreSettled
<1> QED
  BY <1>3, <1>4, <1>5, <1>6

\* Binding the digest of a published settlement keeps the ledger in order.
LEMMA BindSettlementKeeps ==
  ASSUME Known, active \in Txns,
         NEW d \in Settlements(active), BindSettlementDigest(active, d)
  PROVE  DurableLedger'
<1> USE DEF Known, ControlInv, TypeOK, LedgerInv, DurableLedger, BindSettlementDigest
<1>1. d # 0
  BY DEF Settlements
<1>2. OneEntryEach'
  BY SameEntries DEF OneEntryEach
<1>3. RegisteredFirst' /\ SettledByOutcome'
  BY SameEntries DEF RegisteredFirst, SettledByOutcome, LastState
<1>4. HaltIsSettledOrOpen' /\ OthersAreSettled'
  BY <1>1 DEF HaltIsSettledOrOpen, OthersAreSettled
<1> QED
  BY <1>2, <1>3, <1>4

\* A store transaction on the active record, the chain and digests left alone.
LEMMA StateChangeKeeps ==
  ASSUME Known, Working,
         UNCHANGED <<active, registration_digest, settlement_digest, chain>>,
         NEW s \in TransactionStates, state' = [state EXCEPT ![active] = s],
         \/ pre_halt_state' = pre_halt_state /\ s # "halted"
         \/ /\ s = "halted" /\ state[active] # "rolled_back"
            /\ state[active] = "committed" => settlement_digest[active] # 0
            /\ pre_halt_state' = [pre_halt_state EXCEPT ![active] = state[active]],
         s = "halted" \/ state[active] \notin TerminalStates,
         registration_digest[active] # 0
  PROVE  DurableLedger'
<1> USE DEF Known, ControlInv, TypeOK, LedgerInv, DurableLedger
<1>1. active \in Txns /\ state[active] \notin {"none", "halted"}
  BY AtWork
<1>2. OneEntryEach'
  BY SameEntries DEF OneEntryEach
<1>3. RegisteredFirst'
  BY <1>1, SameEntries DEF RegisteredFirst, TransactionStates
<1>4. \A t \in Txns \ {active} : LastState(t)' = LastState(t)
  BY <1>1 DEF LastState
<1>5. Settlements(active) = {} \/ LastState(active)' = LastState(active)
  BY <1>1 DEF SettledByOutcome, LastState
<1>6. SettledByOutcome'
  <2> SUFFICES ASSUME NEW t \in Txns, NEW d \in Settlements(t)
               PROVE  /\ registration_digest[t] # 0 /\ registration_digest[t] < d
                      /\ LastState(t)' \in TerminalStates
                      /\ chain[d] = SettledEntry(t, registration_digest[t], LastState(t)')
    BY SameEntries DEF SettledByOutcome, SettledEntry
  <2>1. LastState(t)' = LastState(t)
    BY <1>4, <1>5
  <2> QED
    BY <2>1 DEF SettledByOutcome
<1>7. HaltIsSettledOrOpen'
  BY <1>1 DEF HaltIsSettledOrOpen
<1>8. OthersAreSettled'
  BY <1>1 DEF OthersAreSettled
<1> QED
  BY <1>2, <1>3, <1>6, <1>7, <1>8

\* Every step keeps what the store and the chain say of each other.
LEMMA DurableStep ==
  ASSUME Known, [Next]_vars
  PROVE  DurableLedger'
<1> USE DEF Known
<1>0. DurableLedger
  BY DEF LedgerInv
<1>1. CASE UNCHANGED <<store, chain>>
  BY <1>0, <1>1, DurableStutter
<1>2. CASE Acquire \/ Resolve \/ Release \/ ApproveTopology \/ Classify \/ CaughtFailure \/ Crash
  BY <1>1, <1>2 DEF Acquire, Resolve, ResolveNothing, ResolveHalted, ResolveActive, Release,
                    ApproveTopology, Classify, ClassifyTerminal, ClassifyHalt,
                    ClassifyCommitted, ClassifyRollback, Adopt, CaughtFailure, Crash
<1>3. CASE AssemblyHalt
  BY <1>0, <1>3, SameEntries
     DEF AssemblyHalt, DurableLedger, OneEntryEach, RegisteredFirst, SettledByOutcome,
         HaltIsSettledOrOpen, OthersAreSettled, LastState
<1>4. CASE Reconcile
  <2> SUFFICES ASSUME pc = "reconcile" PROVE DurableLedger'
    BY <1>4 DEF Reconcile, ReconcileAppendRegistration, ReconcileBindRegistration,
                ReconcileAppendSettlement, ReconcileBindSettlement, ReconcileDone
  <2>0. active \in Txns /\ state[active] \notin {"none", "halted"}
    BY AtWork DEF Working
  <2>1. CASE ReconcileAppendRegistration
    BY <2>0, <2>1, RegistrationActions, PublishRegistration DEF ReconcileAppendRegistration
  <2>2. CASE ReconcileBindRegistration
    BY <2>0, <2>2, RegistrationActions, BindRegistrationKeeps DEF ReconcileBindRegistration
  <2>3. CASE ReconcileAppendSettlement
    BY <2>0, <2>3, RegistrationActions, SettlementActions, PublishSettlement
       DEF ReconcileAppendSettlement
  <2>4. CASE ReconcileBindSettlement
    BY <2>0, <2>4, BindSettlementKeeps DEF ReconcileBindSettlement
  <2>5. CASE ReconcileDone
    BY <1>1, <2>5 DEF ReconcileDone
  <2> QED
    BY <1>4, <2>1, <2>2, <2>3, <2>4, <2>5 DEF Reconcile
<1>5. CASE RunPlan
  <2>1. CASE PersistRollingBack \/ PersistRolledBack
    BY <2>1, StateChangeKeeps
       DEF PersistRollingBack, PersistRolledBack, SetState, Working, TransactionStates,
           TerminalStates, LedgerInv, ProcessLedger, PointMatchesLedger
  <2>2. CASE PersistHalt
    <3>1. state[active] # "rolled_back"
      BY <2>2 DEF PersistHalt, MutationDue, LedgerInv, ProcessLedger, PlanMatchesRecord
    <3>2. state[active] = "committed" => settlement_digest[active] # 0
      BY <2>2 DEF PersistHalt, LedgerInv, ProcessLedger, PlanMatchesRecord
    <3>3. Working /\ registration_digest[active] # 0
      BY <2>2 DEF PersistHalt, Working, LedgerInv, ProcessLedger, PointMatchesLedger
    <3> QED
      BY <2>2, <3>1, <3>2, <3>3, StateChangeKeeps DEF PersistHalt, TransactionStates
  <2>3. ASSUME NEW i \in Effects, PersistUndoStarted(i) \/ PersistUndone(i)
        PROVE  DurableLedger'
    BY <1>0, <2>3, SameEntries
       DEF PersistUndoStarted, PersistUndone, SetJournal, DurableLedger, OneEntryEach,
           RegisteredFirst, SettledByOutcome, HaltIsSettledOrOpen, OthersAreSettled, LastState
  <2>4. CASE ReachDetach
    BY <1>1, <2>4 DEF ReachDetach
  <2>5. CASE DetachActive
    <3>1. state[active] \in TerminalStates
      BY <2>5 DEF DetachActive, LedgerInv, ProcessLedger, PlanMatchesRecord
    <3> QED
      BY <1>0, <2>5, <3>1, SameEntries
         DEF DetachActive, DurableLedger, OneEntryEach, RegisteredFirst, SettledByOutcome,
             HaltIsSettledOrOpen, OthersAreSettled, LastState
  <2> QED
    BY <1>5, <2>1, <2>2, <2>3, <2>4, <2>5 DEF RunPlan
<1>6. CASE Execute
  <2>1. CASE AppendRegistration
    <3>1. Working /\ registration_digest[active] = 0 /\ Registrations(active) = {}
      BY <2>1 DEF AppendRegistration, Working, LedgerInv, ProcessLedger, PointMatchesLedger
    <3> QED
      BY <2>1, <3>1, AtWork, PublishRegistration DEF AppendRegistration
  <2>2. CASE BindRegistration
    <3>1. /\ Working /\ registration_digest[active] = 0
          /\ Len(chain) \in Registrations(active)
      BY <2>2 DEF BindRegistration, Working, LedgerInv, ProcessLedger, PointMatchesLedger
    <3> QED
      BY <2>2, <3>1, AtWork, BindRegistrationKeeps DEF BindRegistration
  <2>3. CASE BeginApplying \/ FinishApplying \/ DecideCommit
    <3>1. Working /\ registration_digest[active] # 0 /\ state[active] \notin TerminalStates
      BY <2>3 DEF BeginApplying, FinishApplying, DecideCommit, Working, LedgerInv,
                  ProcessLedger, PointMatchesLedger, ControlInv, PointMatchesState,
                  TerminalStates
    <3> QED
      BY <2>3, <3>1, StateChangeKeeps
         DEF BeginApplying, FinishApplying, DecideCommit, SetState, TransactionStates
  <2>4. ASSUME NEW i \in Effects, StartEffect(i) \/ FinishEffect(i)
        PROVE  DurableLedger'
    BY <1>0, <2>4, SameEntries
       DEF StartEffect, FinishEffect, SetJournal, DurableLedger, OneEntryEach,
           RegisteredFirst, SettledByOutcome, HaltIsSettledOrOpen, OthersAreSettled, LastState
  <2>5. CASE VerifyCommittedSurface
    BY <1>1, <2>5 DEF VerifyCommittedSurface
  <2>6. CASE AppendSettlement
    <3>1. /\ Working /\ registration_digest[active] # 0 /\ Settlements(active) = {}
          /\ state[active] = "committed"
      BY <2>6 DEF AppendSettlement, Working, LedgerInv, ProcessLedger, PointMatchesLedger,
                  ControlInv, PointMatchesState
    <3> QED
      BY <2>6, <3>1, AtWork, PublishSettlement DEF AppendSettlement, TerminalStates
  <2>7. CASE BindSettlement
    <3>1. Working /\ Len(chain) \in Settlements(active)
      BY <2>7 DEF BindSettlement, Working, LedgerInv, ProcessLedger, PointMatchesLedger
    <3> QED
      BY <2>7, <3>1, AtWork, BindSettlementKeeps DEF BindSettlement
  <2> QED
    BY <1>6, <2>1, <2>2, <2>3, <2>4, <2>5, <2>6, <2>7 DEF Execute
<1>7. ASSUME NEW t \in Txns, PrepareTransaction(t)
      PROVE  DurableLedger'
  <2>1. Settlements(t) = {}
    BY <1>0, <1>7 DEF PrepareTransaction, DurableLedger, SettledByOutcome, RegisteredFirst
  <2> QED
    BY <1>0, <1>7, <2>1, SameEntries, TxnAssumption
       DEF PrepareTransaction, DurableLedger, OneEntryEach, RegisteredFirst,
           SettledByOutcome, HaltIsSettledOrOpen, OthersAreSettled, LastState,
           ControlInv, TypeOK
<1>8. CASE UNCHANGED vars
  BY <1>1, <1>8 DEF vars, store
<1> QED
  BY <1>2, <1>3, <1>4, <1>5, <1>6, <1>7, <1>8 DEF Next, Progress, Environment

-----------------------------------------------------------------------------
(* The part that speaks of the process is kept.                            *)

\* The chain below a settlement point has no settlement yet.
LEMMA OpenIsUnsettled ==
  ASSUME Known, Working, state[active] \notin TerminalStates
  PROVE  Settlements(active) = {} /\ settlement_digest[active] = 0
<1>1. active \in Txns /\ LastState(active) = state[active]
  BY AtWork DEF Known, LastState
<1>2. Settlements(active) = {}
  BY <1>1 DEF Known, LedgerInv, DurableLedger, SettledByOutcome
<1> QED
  BY <1>1, <1>2 DEF Known, LedgerInv, DurableLedger, OneEntryEach

\* Every step keeps what the process knows of the chain.
LEMMA ProcessStep ==
  ASSUME Known, [Next]_vars
  PROVE  ProcessLedger'
<1> USE DEF Known, LedgerInv, ProcessLedger, PlanMatchesRecord, PointMatchesLedger,
            FrozenStaysActive, Working
<1>0. Working => active \in Txns /\ state[active] \notin {"none", "halted"}
  BY AtWork
<1>00. /\ state \in [Txns -> TransactionStates \cup {"none"}]
       /\ registration_digest \in [Txns -> Nat] /\ settlement_digest \in [Txns -> Nat]
       /\ assembly_halt \in [Txns -> BOOLEAN]
       /\ active \in Txns \cup {NoTxn}
  BY DEF ControlInv, TypeOK
<1>1. CASE Acquire \/ Resolve \/ Release \/ CaughtFailure \/ Crash
  BY <1>1, TxnAssumption
     DEF Acquire, Resolve, ResolveNothing, ResolveHalted, ResolveActive, Release,
         CaughtFailure, Crash, Goto, store
<1>2. CASE ApproveTopology \/ AssemblyHalt
  BY <1>0, <1>00, <1>2 DEF ApproveTopology, AssemblyHalt, Goto, store
<1>3. CASE Classify
  <2>1. pc = "classify" /\ UNCHANGED <<store, chain>> /\ pc' = "plan"
    BY <1>3 DEF Classify, ClassifyTerminal, ClassifyHalt, ClassifyCommitted,
                ClassifyRollback, Adopt
  <2>2. plan' = "detach" => state[active] = "rolled_back"
    BY <1>0, <1>3, <2>1, AuthorityOverTerminal
       DEF Classify, ClassifyTerminal, ClassifyHalt, ClassifyCommitted,
           ClassifyRollback, Adopt
  <2>3. plan' = "halt" => state[active] # "rolled_back"
    BY <1>0, <1>3, <2>1, AuthorityOverTerminal
       DEF Classify, ClassifyTerminal, ClassifyHalt, ClassifyCommitted,
           ClassifyRollback, Adopt
  <2>4. plan' = "cleanup" => state[active] = "committed"
    BY <1>3 DEF Classify, ClassifyTerminal, ClassifyHalt, ClassifyCommitted,
                ClassifyRollback, Adopt
  <2> QED
    BY <2>1, <2>2, <2>3, <2>4 DEF store, TerminalStates
<1>4. CASE Reconcile
  <2>1. CASE ReconcileDone
    BY <1>0, <2>1, RegistrationActions, SettlementActions
       DEF ReconcileDone, Goto, store
  <2>2. CASE ReconcileAppendRegistration \/ ReconcileAppendSettlement
    BY <2>2 DEF ReconcileAppendRegistration, ReconcileAppendSettlement, Publish, process,
                store
  <2>3. CASE ReconcileBindRegistration \/ ReconcileBindSettlement
    BY <2>3 DEF ReconcileBindRegistration, ReconcileBindSettlement,
                BindRegistrationDigest, BindSettlementDigest, process
  <2> QED
    BY <1>4, <2>1, <2>2, <2>3 DEF Reconcile
<1>5. CASE RunPlan
  <2>1. CASE PersistRollingBack \/ PersistRolledBack
    BY <1>0, <1>00, <2>1
       DEF PersistRollingBack, PersistRolledBack, SetState, process, TerminalStates
  <2>2. CASE PersistHalt \/ DetachActive
    BY <2>2 DEF PersistHalt, DetachActive
  <2>3. ASSUME NEW i \in Effects, PersistUndoStarted(i) \/ PersistUndone(i)
        PROVE  ProcessLedger'
    BY <2>3 DEF PersistUndoStarted, PersistUndone, SetJournal, process
  <2>4. CASE ReachDetach
    BY <2>4 DEF ReachDetach, Goto, store, TerminalStates
  <2> QED
    BY <1>5, <2>1, <2>2, <2>3, <2>4 DEF RunPlan
<1>6. CASE Execute
  <2>1. CASE AppendRegistration
    <3>1. active \in Txns /\ chain \in Seq(Entries)
      BY <1>0, <2>1 DEF AppendRegistration, ControlInv, TypeOK
    <3>2. (Len(chain) \in Registrations(active))'
      BY <2>1, <3>1, AppendedRegistration DEF AppendRegistration, Publish, store
    <3> QED
      BY <2>1, <3>2 DEF AppendRegistration, Publish, Goto, store
  <2>2. CASE BindRegistration
    <3>1. Len(chain) # 0
      BY <1>0, <2>2 DEF BindRegistration, Registrations
    <3> QED
      BY <1>0, <1>00, <2>2, <3>1 DEF BindRegistration, BindRegistrationDigest, Goto
  <2>3. CASE BeginApplying \/ FinishApplying
    BY <1>0, <1>00, <2>3 DEF BeginApplying, FinishApplying, SetState, Goto
  <2>4. ASSUME NEW i \in Effects, StartEffect(i) \/ FinishEffect(i)
        PROVE  ProcessLedger'
    BY <2>4 DEF StartEffect, FinishEffect, SetJournal, Goto
  <2>5. CASE VerifyCommittedSurface
    BY <2>5 DEF VerifyCommittedSurface, Goto, store
  <2>6. CASE DecideCommit
    <3>1. Settlements(active) = {} /\ settlement_digest[active] = 0
      BY <2>6, OpenIsUnsettled DEF DecideCommit, ControlInv, PointMatchesState, TerminalStates
    <3> QED
      BY <1>0, <2>6, <3>1, SameEntries DEF DecideCommit, Goto
  <2>7. CASE AppendSettlement
    <3>1. active \in Txns /\ chain \in Seq(Entries)
      BY <1>0, <2>7 DEF AppendSettlement, ControlInv, TypeOK
    <3>2. (Len(chain) \in Settlements(active))'
      BY <2>7, <3>1, AppendedSettlement DEF AppendSettlement, Publish, store
    <3> QED
      BY <2>7, <3>2 DEF AppendSettlement, Publish, Goto, store
  <2>8. CASE BindSettlement
    <3>1. Len(chain) # 0
      BY <1>0, <2>8 DEF BindSettlement, Settlements
    <3> QED
      BY <1>0, <1>00, <2>8, <3>1 DEF BindSettlement, BindSettlementDigest, Goto
  <2> QED
    BY <1>6, <2>1, <2>2, <2>3, <2>4, <2>5, <2>6, <2>7, <2>8 DEF Execute
<1>7. ASSUME NEW t \in Txns, PrepareTransaction(t)
      PROVE  ProcessLedger'
  <2>1. registration_digest[t] = 0 /\ Registrations(t) = {}
    BY <1>7 DEF PrepareTransaction, DurableLedger, RegisteredFirst
  <2>2. \A u \in Txns : ~assembly_halt[u]
    BY <1>7 DEF PrepareTransaction
  <2> QED
    BY <1>00, <1>7, <2>1, <2>2, SameEntries DEF PrepareTransaction
<1>8. CASE UNCHANGED vars
  BY <1>8, SameEntries DEF vars, Registrations, Settlements
<1> QED
  BY <1>1, <1>2, <1>3, <1>4, <1>5, <1>6, <1>7, <1>8 DEF Next, Progress, Environment

-----------------------------------------------------------------------------
(* The theorems.                                                           *)

\* Nothing is recorded or published at first.
LEMMA KnownInit == Init => Known
<1> SUFFICES ASSUME Init PROVE LedgerInv
  BY ControlInit, RecordInit DEF Known
<1>1. \A t \in Txns : Registrations(t) = {} /\ Settlements(t) = {}
  BY DEF Init, Registrations, Settlements
<1>2. DurableLedger
  BY <1>1 DEF Init, DurableLedger, OneEntryEach, RegisteredFirst, SettledByOutcome,
              HaltIsSettledOrOpen, OthersAreSettled, AtMostOne
<1>3. ProcessLedger
  BY DEF Init, ProcessLedger, FrozenStaysActive, PointMatchesLedger, PlanMatchesRecord,
         Working
<1> QED
  BY <1>2, <1>3 DEF LedgerInv

\* The invariant is inductive.
LEMMA KnownStep ==
  ASSUME Known, [Next]_vars
  PROVE  Known'
BY ControlStep, RecordStep, DurableStep, ProcessStep DEF Known, LedgerInv

(* The inductive invariant of the protocol: what the store, the chain and  *)
(* the process know of each other at every point, a crash included.        *)
THEOREM KnownInvariant == Spec => []Known
BY KnownInit, KnownStep, PTL DEF Spec

(* _derive_reconciliation never raises ChainStateInvalid and never has two *)
(* entries to append, whatever the point of the crash.                     *)
THEOREM AlwaysReconcilable == Spec => []Reconcilable
<1>1. Known => Reconcilable
  BY KnownReconcilable DEF Reconcilable
<1> QED
  BY <1>1, KnownInvariant, PTL

(* The chain carries each registration and each settlement once, the       *)
(* settlement behind the registration it names, with the record's outcome. *)
THEOREM LedgerIsTruthful == Spec => []LedgerTruthful
<1>1. Known => LedgerTruthful
  <2> SUFFICES ASSUME Known, NEW t \in Txns
               PROVE  /\ AtMostOne(Registrations(t)) /\ AtMostOne(Settlements(t))
                      /\ \A d \in Settlements(t) :
                           /\ chain[d].registration \in Registrations(t)
                           /\ chain[d].registration < d
                           /\ chain[d].outcome \in Outcomes
                           /\ chain[d].outcome = LastState(t)
    BY DEF LedgerTruthful
  <2> USE DEF Known, LedgerInv, DurableLedger
  <2>1. AtMostOne(Registrations(t)) /\ AtMostOne(Settlements(t))
    BY DEF OneEntryEach
  <2>2. ASSUME NEW d \in Settlements(t)
        PROVE  /\ chain[d].registration \in Registrations(t) /\ chain[d].registration < d
               /\ chain[d].outcome \in Outcomes /\ chain[d].outcome = LastState(t)
    <3>1. /\ registration_digest[t] # 0 /\ registration_digest[t] < d
          /\ LastState(t) \in TerminalStates
          /\ chain[d] = SettledEntry(t, registration_digest[t], LastState(t))
      BY <2>2 DEF SettledByOutcome
    <3>2. chain[d].registration = registration_digest[t] /\ chain[d].outcome = LastState(t)
      BY <3>1 DEF SettledEntry
    <3> QED
      BY <3>1, <3>2 DEF OneEntryEach, Outcomes, TerminalStates
  <2> QED
    BY <2>1, <2>2
<1> QED
  BY <1>1, KnownInvariant, PTL

(* A transaction that left the active slot is terminal, with both chain    *)
(* entries published and bound.                                            *)
THEOREM DetachedSettled == Spec => []DetachedIsSettled
<1>1. Known => DetachedIsSettled
  BY DEF Known, LedgerInv, DurableLedger, OneEntryEach, OthersAreSettled, DetachedIsSettled
<1> QED
  BY <1>1, KnownInvariant, PTL

-----------------------------------------------------------------------------
(* The triggers of the schema.                                             *)

\* While the process works, nothing is frozen.
LEMMA NothingFrozen ==
  ASSUME Known, Working
  PROVE  \A t \in Txns : ~assembly_halt[t]
BY DEF Known, LedgerInv, ProcessLedger, FrozenStaysActive, Working

\* No update of a step violates a trigger.
LEMMA TriggersStep ==
  ASSUME Known, [Next]_vars
  PROVE  [Triggers]_vars
<1> USE DEF Known, Triggers, WriteOnce, RegistrationWindowGate, DepartureGate,
            JournalStartGate, SettlementGate, ActiveGate, AssemblyHaltFreezes
<1>0. /\ state \in [Txns -> TransactionStates \cup {"none"}]
      /\ registration_digest \in [Txns -> Nat] /\ settlement_digest \in [Txns -> Nat]
      /\ journals \in [Txns -> Journals] /\ assembly_halt \in [Txns -> BOOLEAN]
  BY DEF ControlInv, TypeOK
<1>1. CASE UNCHANGED store
  BY <1>1 DEF store
<1>2. CASE \/ Acquire \/ Resolve \/ Release \/ ApproveTopology \/ Classify \/ CaughtFailure
           \/ Crash
  BY <1>1, <1>2 DEF Acquire, Resolve, ResolveNothing, ResolveHalted, ResolveActive, Release,
                    ApproveTopology, Classify, ClassifyTerminal, ClassifyHalt,
                    ClassifyCommitted, ClassifyRollback, Adopt, CaughtFailure, Crash
<1>3. CASE AssemblyHalt
  BY <1>0, <1>3 DEF AssemblyHalt
<1>4. CASE Reconcile
  <2>0. Working /\ active \in Txns
    BY <1>4, AtWork
       DEF Working, Reconcile, ReconcileAppendRegistration, ReconcileBindRegistration,
           ReconcileAppendSettlement, ReconcileBindSettlement, ReconcileDone
  <2>1. CASE \/ ReconcileAppendRegistration \/ ReconcileAppendSettlement \/ ReconcileDone
    BY <1>1, <2>1 DEF ReconcileAppendRegistration, ReconcileAppendSettlement,
                      ReconcileDone, Publish
  <2>2. CASE ReconcileBindRegistration
    BY <1>0, <2>0, <2>2, RegistrationActions, NothingFrozen
       DEF ReconcileBindRegistration, BindRegistrationDigest
  <2>3. CASE ReconcileBindSettlement
    BY <1>0, <2>0, <2>3, RegistrationActions, SettlementActions, NothingFrozen
       DEF ReconcileBindSettlement, BindSettlementDigest
  <2> QED
    BY <1>4, <2>1, <2>2, <2>3 DEF Reconcile
<1>5. CASE RunPlan
  <2>0. Working /\ active \in Txns
    BY <1>5, AtWork
       DEF Working, RunPlan, PersistRollingBack, PersistRolledBack, PersistHalt,
           PersistUndoStarted, PersistUndone, ReachDetach, DetachActive
  <2>1. registration_digest[active] # 0
    BY <1>5 DEF Working, RunPlan, PersistRollingBack, PersistRolledBack, PersistHalt,
                PersistUndoStarted, PersistUndone, ReachDetach, DetachActive,
                LedgerInv, ProcessLedger, PointMatchesLedger
  <2>2. CASE PersistRollingBack \/ PersistRolledBack \/ PersistHalt
    BY <1>0, <2>0, <2>1, <2>2, NothingFrozen
       DEF PersistRollingBack, PersistRolledBack, PersistHalt, SetState
  <2>3. ASSUME NEW i \in Effects, PersistUndoStarted(i) \/ PersistUndone(i)
        PROVE  Triggers
    <3>1. PICK s \in {"undo_started", "undone"} : SetJournal(active, i, s)
      BY <2>3 DEF PersistUndoStarted, PersistUndone
    <3>2. \A t \in Txns, k \in Effects :
            journals'[t][k] = journals[t][k] \/ journals'[t][k] = s
      BY <1>0, <2>0, <3>1 DEF SetJournal, Journals
    <3> QED
      BY <2>0, <3>1, <3>2, NothingFrozen DEF SetJournal
  <2>4. CASE ReachDetach
    BY <1>1, <2>4 DEF ReachDetach
  <2>5. CASE DetachActive
    BY <2>0, <2>5, NothingFrozen
       DEF DetachActive, LedgerInv, ProcessLedger, PlanMatchesRecord
  <2> QED
    BY <1>5, <2>2, <2>3, <2>4, <2>5 DEF RunPlan
<1>6. CASE Execute
  <2>0. Working /\ active \in Txns
    BY <1>6, AtWork
       DEF Working, Execute, AppendRegistration, BindRegistration, BeginApplying,
           StartEffect, FinishEffect, FinishApplying, VerifyCommittedSurface,
           DecideCommit, AppendSettlement, BindSettlement
  <2>1. CASE AppendRegistration \/ VerifyCommittedSurface \/ AppendSettlement
    BY <1>1, <2>1 DEF AppendRegistration, VerifyCommittedSurface, AppendSettlement, Publish
  <2>2. CASE BindRegistration
    <3>1. registration_digest[active] = 0 /\ state[active] = "prepared"
      BY <2>2 DEF BindRegistration, LedgerInv, ProcessLedger, PointMatchesLedger,
                  ControlInv, PointMatchesState
    <3>2. RegistrationWindow(active)
      BY <2>0, <3>1 DEF RecordInv, JournalsReachable, ReachableJournal, LastState,
                        RegistrationWindow
    <3> QED
      BY <1>0, <2>0, <2>2, <3>1, <3>2, NothingFrozen
         DEF BindRegistration, BindRegistrationDigest
  <2>3. CASE BeginApplying \/ FinishApplying \/ DecideCommit
    <3>1. registration_digest[active] # 0
      BY <2>3 DEF BeginApplying, FinishApplying, DecideCommit, Working, LedgerInv,
                  ProcessLedger, PointMatchesLedger
    <3> QED
      BY <1>0, <2>0, <2>3, <3>1, NothingFrozen
         DEF BeginApplying, FinishApplying, DecideCommit, SetState
  <2>4. ASSUME NEW i \in Effects, StartEffect(i) \/ FinishEffect(i)
        PROVE  Triggers
    <3>1. registration_digest[active] # 0 /\ state[active] = "applying"
      BY <2>4 DEF StartEffect, FinishEffect, Working, LedgerInv, ProcessLedger,
                  PointMatchesLedger, ControlInv, PointMatchesState
    <3>2. \A t \in Txns \ {active} : journals'[t] = journals[t]
      BY <1>0, <2>0, <2>4 DEF StartEffect, FinishEffect, SetJournal
    <3> QED
      BY <2>0, <2>4, <3>1, <3>2, NothingFrozen DEF StartEffect, FinishEffect, SetJournal
  <2>5. CASE BindSettlement
    <3>1. /\ settlement_digest[active] = 0 /\ registration_digest[active] # 0
          /\ state[active] = "committed"
      BY <2>5 DEF BindSettlement, Working, LedgerInv, ProcessLedger, PointMatchesLedger,
                  ControlInv, PointMatchesState
    <3> QED
      BY <1>0, <2>0, <2>5, <3>1, NothingFrozen
         DEF BindSettlement, BindSettlementDigest, TerminalStates
  <2> QED
    BY <1>6, <2>1, <2>2, <2>3, <2>4, <2>5 DEF Execute
<1>7. ASSUME NEW t \in Txns, PrepareTransaction(t)
      PROVE  Triggers
  <2>1. \A u \in Txns : ~assembly_halt[u]
    BY <1>7 DEF PrepareTransaction, LedgerInv, ProcessLedger, FrozenStaysActive
  <2> QED
    BY <1>0, <1>7, <2>1 DEF PrepareTransaction
<1>8. CASE UNCHANGED vars
  BY <1>8
<1> QED
  BY <1>2, <1>3, <1>4, <1>5, <1>6, <1>7, <1>8 DEF Next, Progress, Environment

(* No update the coordinator attempts, in any order of execution, failure, *)
(* crash and recovery, is one that a trigger of store/schema.py aborts.    *)
THEOREM TriggersNeverFire == Spec => TriggersSilent
<1>1. Known /\ [Next]_vars => [Triggers]_vars
  BY TriggersStep
<1> QED
  BY <1>1, KnownInvariant, PTL DEF Spec, TriggersSilent

-----------------------------------------------------------------------------
(* The protocol implements AtomicOutcome.                                 *)

\* The outcomes that the refinement shows.
outcomes == [t \in Txns |-> OutcomeOf(t)]

-----------------------------------------------------------------------------
(* The public ledger, read off the chain.                                  *)

\* The ledger has an entry for every entry of the chain.
LEMMA LedgerType ==
  ASSUME chain \in Seq(Entries)
  PROVE  /\ LedgerOf \in Seq(Txns \X (Outcomes \cup {"none", "registered"}))
         /\ Len(LedgerOf) = Len(chain)
<1>1. Len(chain) \in Nat /\ \A d \in 1..Len(chain) : chain[d] \in Entries
  OBVIOUS
<1>2. \A d \in 1..Len(chain) : LedgerOf[d] \in Txns \X (Outcomes \cup {"none", "registered"})
  BY <1>1 DEF LedgerOf, Entries
<1> QED
  BY <1>1, <1>2 DEF LedgerOf

\* What the ledger announces is what the chain has an entry for.
LEMMA AnnouncedMeans ==
  ASSUME chain \in Seq(Entries), NEW t \in Txns
  PROVE  /\ Promise!Announced(t, "registered") <=> Registrations(t) # {}
         /\ \A o \in Outcomes :
              Promise!Announced(t, o) <=> \E d \in Settlements(t) : chain[d].outcome = o
<1>1. Len(chain) \in Nat /\ Len(LedgerOf) = Len(chain)
      /\ \A d \in 1..Len(chain) : chain[d] \in Entries
  BY LedgerType
<1>2. ASSUME NEW d \in 1..Len(chain)
      PROVE  /\ LedgerOf[d] = <<t, "registered">>
                  <=> chain[d].kind = "registered" /\ chain[d].txid = t
             /\ \A o \in Outcomes :
                  LedgerOf[d] = <<t, o>>
                    <=> /\ chain[d].kind = "settled" /\ chain[d].txid = t
                        /\ chain[d].outcome = o
  BY <1>1 DEF LedgerOf, Entries, Outcomes
<1> QED
  BY <1>1, <1>2 DEF Promise!Announced, Registrations, Settlements

\* Appending to the chain appends to the ledger.
LEMMA LedgerAppend ==
  ASSUME chain \in Seq(Entries), NEW e \in Entries, chain' = Append(chain, e)
  PROVE  LedgerOf' = Append(LedgerOf,
                       <<e.txid, IF e.kind = "registered" THEN "registered" ELSE e.outcome>>)
<1> DEFINE n == Len(chain)
           a == <<e.txid, IF e.kind = "registered" THEN "registered" ELSE e.outcome>>
<1>1. /\ n \in Nat /\ Len(chain') = n + 1 /\ chain'[n + 1] = e
      /\ \A d \in 1..n : chain'[d] = chain[d]
  OBVIOUS
<1>2. LedgerOf \in Seq(Txns \X (Outcomes \cup {"none", "registered"})) /\ Len(LedgerOf) = n
  BY LedgerType
<1>3. LedgerOf' \in Seq(Txns \X (Outcomes \cup {"none", "registered"}))
      /\ Len(LedgerOf') = n + 1
  <2>1. \A d \in 1..(n + 1) : chain'[d] \in Entries
    BY <1>1
  <2>2. \A d \in 1..(n + 1) : (LedgerOf')[d] \in Txns \X (Outcomes \cup {"none", "registered"})
    BY <1>1, <2>1 DEF LedgerOf, Entries
  <2> QED
    BY <1>1, <2>2 DEF LedgerOf
<1>4. a \in Txns \X (Outcomes \cup {"none", "registered"})
  BY DEF Entries
<1>5. \A d \in 1..(n + 1) : (LedgerOf')[d] = Append(LedgerOf, a)[d]
  BY <1>1, <1>2, <1>4 DEF LedgerOf
<1>6. Append(LedgerOf, a) \in Seq(Txns \X (Outcomes \cup {"none", "registered"}))
      /\ Len(Append(LedgerOf, a)) = n + 1
  BY <1>2, <1>4
<1> QED
  BY <1>3, <1>5, <1>6, SeqEqual

-----------------------------------------------------------------------------
(* One step of the protocol.                                               *)

\* The outcome of a record, by its last state.
LEMMA OutcomeMeans ==
  ASSUME Known, NEW t \in Txns
  PROVE  /\ OutcomeOf(t) = "none" <=> state[t] = "none"
         /\ OutcomeOf(t) \in Outcomes <=> state[t] # "none" /\ LastState(t) \in TerminalStates
         /\ OutcomeOf(t) \in Outcomes => OutcomeOf(t) = LastState(t)
         /\ OutcomeOf(t) \in Outcomes \cup {"none", "open"}
BY DEF Known, ControlInv, HaltRecorded, OutcomeOf, Outcomes, TerminalStates, LastState

\* A step that keeps the outcomes, the chain and the slot is a stutter.
LEMMA PromiseStutter ==
  ASSUME UNCHANGED <<outcomes, chain, active>>
  PROVE  UNCHANGED Promise!avars
BY DEF outcomes, Promise!avars, LedgerOf

\* Preparing a transaction opens it.
LEMMA OpenStep ==
  ASSUME Known, NEW t \in Txns, PrepareTransaction(t)
  PROVE  Promise!Open(t)
<1> USE DEF PrepareTransaction
<1>1. OutcomeOf(t) = "none" /\ OutcomeOf(t)' = "open"
  BY DEF Known, ControlInv, TypeOK, OutcomeOf, LastState, TerminalStates
<1>2. \A u \in Txns \ {t} : OutcomeOf(u)' = OutcomeOf(u)
  BY DEF Known, ControlInv, TypeOK, OutcomeOf, LastState
<1>3. outcomes' = [outcomes EXCEPT ![t] = "open"]
  BY <1>1, <1>2 DEF outcomes
<1>4. UNCHANGED LedgerOf
  BY DEF LedgerOf
<1> QED
  BY <1>1, <1>3, <1>4 DEF Promise!Open, outcomes

\* A record that is kept keeps its outcome.
LEMMA SameOutcomes ==
  ASSUME UNCHANGED <<state, pre_halt_state>>
  PROVE  UNCHANGED outcomes
BY DEF outcomes, OutcomeOf, LastState

\* Publishing its registration registers it.
LEMMA RegisterStep ==
  ASSUME Known, active \in Txns, state[active] = "prepared", Registrations(active) = {},
         Publish(RegisteredEntry(active))
  PROVE  Promise!Register(active)
<1> USE DEF Known, ControlInv, TypeOK, Publish, store
<1>1. outcomes[active] = "open"
  BY DEF outcomes, OutcomeOf, LastState, TerminalStates
<1>2. UNCHANGED <<outcomes, active>>
  BY SameOutcomes
<1>3. ~Promise!Announced(active, "registered")
  BY AnnouncedMeans
<1>4. RegisteredEntry(active) \in Entries
  BY DEF RegisteredEntry, Entries
<1>5. LedgerOf' = Append(LedgerOf, <<active, "registered">>)
  BY <1>4, LedgerAppend DEF RegisteredEntry
<1> QED
  BY <1>1, <1>2, <1>3, <1>5 DEF Promise!Register, outcomes

\* Publishing its settlement announces its outcome.
LEMMA PublishStep ==
  ASSUME Known, active \in Txns, state[active] \in TerminalStates,
         Settlements(active) = {}, NEW r \in Nat,
         Publish(SettledEntry(active, r, state[active]))
  PROVE  Promise!PublishOutcome(active)
<1> USE DEF Known, ControlInv, TypeOK, Publish, store
<1>1. outcomes[active] = state[active] /\ state[active] \in Outcomes
  BY DEF outcomes, OutcomeOf, LastState, TerminalStates, Outcomes
<1>2. UNCHANGED <<outcomes, active>>
  BY SameOutcomes
<1>3. \A o \in Outcomes : ~Promise!Announced(active, o)
  BY AnnouncedMeans
<1>4. SettledEntry(active, r, state[active]) \in Entries
  BY <1>1 DEF SettledEntry, Entries
<1>5. LedgerOf' = Append(LedgerOf, <<active, state[active]>>)
  BY <1>4, LedgerAppend DEF SettledEntry
<1> QED
  BY <1>1, <1>2, <1>3, <1>5 DEF Promise!PublishOutcome, Promise!Decided, Outcomes, outcomes

\* Reaching a terminal state decides the outcome.
LEMMA DecideStep ==
  ASSUME Known, active \in Txns, state[active] \notin TerminalStates \cup {"none", "halted"},
         registration_digest[active] # 0, NEW o \in Outcomes,
         state' = [state EXCEPT ![active] = o],
         UNCHANGED <<active, pre_halt_state, chain>>
  PROVE  Promise!Decide(active, o)
<1> USE DEF Known, ControlInv, TypeOK
<1>1. outcomes[active] = "open"
  BY DEF outcomes, OutcomeOf, LastState
<1>2. OutcomeOf(active)' = o /\ \A u \in Txns \ {active} : OutcomeOf(u)' = OutcomeOf(u)
  BY DEF OutcomeOf, LastState, Outcomes, TerminalStates
<1>3. outcomes' = [outcomes EXCEPT ![active] = o]
  BY <1>2 DEF outcomes
<1>4. Promise!Announced(active, "registered")
  BY AnnouncedMeans DEF LedgerInv, DurableLedger, OneEntryEach
<1>5. UNCHANGED LedgerOf
  BY DEF LedgerOf
<1> QED
  BY <1>1, <1>3, <1>4, <1>5 DEF Promise!Decide, outcomes

\* Detaching the record closes the transaction.
LEMMA CloseStep ==
  ASSUME Known, DetachActive
  PROVE  Promise!Close(active)
<1> USE DEF Known, ControlInv, TypeOK, DetachActive
<1>1. active \in Txns /\ state[active] \in TerminalStates
  BY AtWork DEF Working, LedgerInv, ProcessLedger, PlanMatchesRecord
<1>2. outcomes[active] = LastState(active) /\ LastState(active) \in Outcomes
  BY <1>1 DEF outcomes, OutcomeOf, LastState, TerminalStates, Outcomes
<1>3. settlement_digest[active] \in Settlements(active)
  BY <1>1 DEF LedgerInv, DurableLedger, OneEntryEach
<1>4. chain[settlement_digest[active]].outcome = LastState(active)
  <2>1. chain[settlement_digest[active]] =
          SettledEntry(active, registration_digest[active], LastState(active))
    BY <1>1, <1>3 DEF LedgerInv, DurableLedger, SettledByOutcome
  <2> QED
    BY <2>1 DEF SettledEntry
<1>5. Promise!Announced(active, LastState(active))
  BY <1>1, <1>2, <1>3, <1>4, AnnouncedMeans
<1>6. UNCHANGED <<outcomes, LedgerOf>>
  BY SameOutcomes DEF LedgerOf
<1> QED
  BY <1>2, <1>5, <1>6 DEF Promise!Close, Promise!Decided, Outcomes, outcomes

\* A change of state that decides nothing.
LEMMA UndecidedStep ==
  ASSUME Known, active \in Txns, state[active] \notin {"none", "halted"},
         UNCHANGED <<active, chain>>,
         \/ /\ UNCHANGED pre_halt_state /\ state[active] \notin TerminalStates
            /\ \E s \in {"applying", "applied", "rolling_back"} :
                 state' = [state EXCEPT ![active] = s]
         \/ /\ state' = [state EXCEPT ![active] = "halted"]
            /\ pre_halt_state' = [pre_halt_state EXCEPT ![active] = state[active]]
  PROVE  UNCHANGED Promise!avars
<1> USE DEF Known, ControlInv, TypeOK
<1>1. OutcomeOf(active)' = OutcomeOf(active)
  BY DEF OutcomeOf, LastState, TerminalStates
<1>2. \A u \in Txns \ {active} : OutcomeOf(u)' = OutcomeOf(u)
  BY DEF OutcomeOf, LastState
<1>3. UNCHANGED outcomes
  BY <1>1, <1>2 DEF outcomes
<1> QED
  BY <1>3, PromiseStutter

(* Every step of the protocol is one of the abstract specification, or a   *)
(* stutter.                                                                *)
LEMMA PromiseStep ==
  ASSUME Known, [Next]_vars
  PROVE  [Promise!ANext]_Promise!avars
<1> USE DEF Known
<1>0. registration_digest \in [Txns -> Nat]
  BY DEF ControlInv, TypeOK
<1>1. CASE UNCHANGED <<state, pre_halt_state, chain, active>>
  BY <1>1, SameOutcomes, PromiseStutter
<1>2. CASE \/ Acquire \/ Resolve \/ Release \/ ApproveTopology \/ AssemblyHalt \/ Classify
           \/ CaughtFailure \/ Crash
  BY <1>1, <1>2 DEF Acquire, Resolve, ResolveNothing, ResolveHalted, ResolveActive, Release,
                    ApproveTopology, AssemblyHalt, Classify, ClassifyTerminal,
                    ClassifyHalt, ClassifyCommitted, ClassifyRollback, Adopt,
                    CaughtFailure, Crash, store
<1>3. CASE Reconcile
  <2>0. active \in Txns
    BY <1>3, AtWork
       DEF Working, Reconcile, ReconcileAppendRegistration, ReconcileBindRegistration,
           ReconcileAppendSettlement, ReconcileBindSettlement, ReconcileDone
  <2>1. CASE ReconcileAppendRegistration
    <3>1. Promise!Register(active)
      BY <2>0, <2>1, RegistrationActions, RegisterStep
         DEF ReconcileAppendRegistration, RegistrationWindow
    <3> QED
      BY <2>0, <3>1 DEF Promise!ANext
  <2>2. CASE ReconcileAppendSettlement
    <3>1. Promise!PublishOutcome(active)
      BY <1>0, <2>0, <2>2, SettlementActions, PublishStep DEF ReconcileAppendSettlement
    <3> QED
      BY <2>0, <3>1 DEF Promise!ANext
  <2>3. CASE ReconcileBindRegistration \/ ReconcileBindSettlement \/ ReconcileDone
    BY <1>1, <2>3 DEF ReconcileBindRegistration, ReconcileBindSettlement, ReconcileDone,
                      BindRegistrationDigest, BindSettlementDigest, store
  <2> QED
    BY <1>3, <2>1, <2>2, <2>3 DEF Reconcile
<1>4. CASE RunPlan
  <2>0. /\ Working /\ active \in Txns /\ state[active] \notin {"none", "halted"}
        /\ registration_digest[active] # 0
    BY <1>4, AtWork
       DEF Working, RunPlan, PersistRollingBack, PersistRolledBack, PersistHalt,
           PersistUndoStarted, PersistUndone, ReachDetach, DetachActive,
           LedgerInv, ProcessLedger, PointMatchesLedger
  <2>1. CASE PersistRollingBack \/ PersistHalt
    BY <2>0, <2>1, UndecidedStep DEF PersistRollingBack, PersistHalt, SetState, TerminalStates
  <2>2. CASE PersistRolledBack
    <3>1. Promise!Decide(active, "rolled_back")
      BY <2>0, <2>2, DecideStep DEF PersistRolledBack, TerminalStates, Outcomes
    <3> QED
      BY <2>0, <3>1 DEF Promise!ANext, Promise!Decided
  <2>3. CASE \/ ReachDetach
             \/ \E i \in Effects : PersistUndoStarted(i) \/ PersistUndone(i)
    BY <1>1, <2>3 DEF ReachDetach, PersistUndoStarted, PersistUndone, SetJournal, store
  <2>4. CASE DetachActive
    BY <2>0, <2>4, CloseStep DEF Promise!ANext
  <2> QED
    BY <1>4, <2>1, <2>2, <2>3, <2>4 DEF RunPlan
<1>5. CASE Execute
  <2>0. Working /\ active \in Txns /\ state[active] \notin {"none", "halted"}
    BY <1>5, AtWork
       DEF Working, Execute, AppendRegistration, BindRegistration, BeginApplying,
           StartEffect, FinishEffect, FinishApplying, VerifyCommittedSurface,
           DecideCommit, AppendSettlement, BindSettlement
  <2>1. CASE AppendRegistration
    <3>1. Promise!Register(active)
      BY <2>0, <2>1, RegisterStep
         DEF AppendRegistration, ControlInv, PointMatchesState, LedgerInv, ProcessLedger,
             PointMatchesLedger
    <3> QED
      BY <2>0, <3>1 DEF Promise!ANext
  <2>2. CASE BeginApplying \/ FinishApplying
    BY <2>0, <2>2, UndecidedStep
       DEF BeginApplying, FinishApplying, SetState, ControlInv, PointMatchesState,
           TerminalStates
  <2>3. CASE \/ BindRegistration \/ VerifyCommittedSurface \/ BindSettlement
             \/ \E i \in Effects : StartEffect(i) \/ FinishEffect(i)
    BY <1>1, <2>3 DEF BindRegistration, VerifyCommittedSurface, BindSettlement, StartEffect,
                      FinishEffect, SetJournal, BindRegistrationDigest,
                      BindSettlementDigest, store
  <2>4. CASE DecideCommit
    <3>1. state[active] = "applied" /\ registration_digest[active] # 0
      BY <2>0, <2>4 DEF DecideCommit, ControlInv, PointMatchesState, LedgerInv,
                        ProcessLedger, PointMatchesLedger, Working
    <3>2. Promise!Decide(active, "committed")
      BY <2>0, <2>4, <3>1, DecideStep DEF DecideCommit, TerminalStates, Outcomes
    <3> QED
      BY <2>0, <3>2 DEF Promise!ANext, Promise!Decided
  <2>5. CASE AppendSettlement
    <3>1. state[active] = "committed" /\ Settlements(active) = {}
      BY <2>5 DEF AppendSettlement, ControlInv, PointMatchesState, LedgerInv,
                  ProcessLedger, PointMatchesLedger
    <3>2. Promise!PublishOutcome(active)
      BY <1>0, <2>0, <2>5, <3>1, PublishStep DEF AppendSettlement, TerminalStates
    <3> QED
      BY <2>0, <3>2 DEF Promise!ANext
  <2> QED
    BY <1>5, <2>1, <2>2, <2>3, <2>4, <2>5 DEF Execute
<1>6. ASSUME NEW t \in Txns, PrepareTransaction(t)
      PROVE  [Promise!ANext]_Promise!avars
  BY <1>6, OpenStep DEF Promise!ANext
<1>7. CASE UNCHANGED vars
  BY <1>1, <1>7 DEF vars
<1> QED
  BY <1>2, <1>3, <1>4, <1>5, <1>6, <1>7 DEF Next, Progress, Environment

\* The protocol begins where the abstract specification does.
LEMMA PromiseInit == Init => Promise!AInit
<1> SUFFICES ASSUME Init PROVE Promise!AInit
  OBVIOUS
<1>1. outcomes = [t \in Txns |-> "none"]
  <2>1. \A t \in Txns : OutcomeOf(t) = "none"
    BY DEF Init, OutcomeOf, LastState, TerminalStates
  <2> QED
    BY <2>1 DEF outcomes
<1>2. LedgerOf = <<>>
  BY DEF Init, LedgerOf
<1> QED
  BY <1>1, <1>2 DEF Init, Promise!AInit, outcomes

(* The protocol implements AtomicOutcome: one open transaction at a time,  *)
(* registered before it is decided, decided once, published once and       *)
(* truthfully, closed only then (execute.py, commit.py, recover.py).       *)
THEOREM ProtocolKeepsPromise == Spec => ImplementsAtomicOutcome
<1>1. Known /\ [Next]_vars => [Promise!ANext]_Promise!avars
  BY PromiseStep
<1> QED
  BY <1>1, PromiseInit, KnownInvariant, PTL
     DEF Spec, ImplementsAtomicOutcome, Promise!ASpec

=============================================================================
