--------------------------- MODULE TxnProperties ---------------------------
(***************************************************************************)
(* What TxnProtocol guarantees: the invariants, the action property about  *)
(* the store's triggers, the liveness of recovery, and the refinement      *)
(* mapping under which the protocol implements AtomicOutcome.              *)
(***************************************************************************)
EXTENDS TxnProtocol

ProgramPoints ==
  {"idle", "resolve", "ready", "reconcile", "approve", "classify", "plan",
   "detach", "register", "bind", "begin", "effects", "apply", "verify",
   "commit", "settle", "bindset"}

\* Every store column, the chain and the process state keep their type.
TypeOK ==
  /\ active \in Txns \cup {NoTxn}
  /\ state \in [Txns -> TransactionStates \cup {"none"}]
  /\ committed \in [Txns -> CommitDecisions]
  /\ journals \in [Txns -> Journals]
  /\ rollback_result \in [Txns -> RollbackResults \cup {"none"}]
  /\ pre_halt_state \in [Txns -> TransactionStates \cup {"none"}]
  /\ assembly_halt \in [Txns -> BOOLEAN]
  /\ registration_digest \in [Txns -> Nat]
  /\ settlement_digest \in [Txns -> Nat]
  /\ chain \in Seq(Entries)
  /\ pc \in ProgramPoints
  /\ origin \in {"resolve", "execute"}
  /\ plan \in {"none", "halt", "detach", "cleanup", "rollback"}
  /\ refused \in BOOLEAN
  /\ crashes \in 0..MaxCrashes

-----------------------------------------------------------------------------
(* A halted record keeps the state it halted in.                           *)
LastState(t) == IF state[t] = "halted" THEN pre_halt_state[t] ELSE state[t]

(* The journal vectors a rollback passes through: the forward vectors, the *)
(* reverse ones, and an opened undo that still has pending effects behind. *)
RollingBackFollows ==
  [Nothing EXCEPT !["done"] = JournalStates,
                  !["started"] = {"pending"},
                  !["undo_started"] = {"undone", "pending"},
                  !["undone"] = {"undone", "pending"},
                  !["pending"] = {"pending"}]

ReachableJournal(s, j) ==
  /\ s \in {"none", "prepared"} => AllAre(j, "pending")
  /\ s = "applying" => ForwardLanguage(j)
  /\ s \in {"applied", "committed"} => AllAre(j, "done")
  /\ s = "rolling_back" => Neighbours(j, RollingBackFollows)
  /\ s = "rolled_back" => RolledBackLanguage(j)
  /\ s # "halted"

(* Whatever the interleaving of execution, failure, crash and recovery,    *)
(* the journal of every record stays in the language of its state: effects *)
(* were begun in order and are undone in reverse order, a committed record *)
(* has every effect done and a rolled back one has none standing (the      *)
(* order of the store transactions in execute.py, commit.py and            *)
(* transitions.py).                                                        *)
JournalsReachable == \A t \in Txns : ReachableJournal(LastState(t), journals[t])

(* The commit decision column and the state column never disagree: set     *)
(* together by finalize_commit, never revisited by recovery.               *)
DecisionMatchesState ==
  \A t \in Txns : committed[t] = "committed" <=> LastState(t) = "committed"

(* Reconciliation is always possible and unambiguous: whatever the point   *)
(* of the crash, _derive_reconciliation finds neither a contradiction      *)
(* between the active record and the chain (ChainStateInvalid, which would *)
(* lock the project for good) nor two entries to append (the ProtocolError *)
(* in _perform_reconciliation).                                            *)
Reconcilable ==
  active # NoTxn =>
    /\ ReconcilableRecord(active)
    /\ ~(RegistrationAction(active) = "append" /\ SettlementAction(active) = "append")

(* The chain tells the truth about every transaction, and once: a crash    *)
(* between publishing an entry and binding its digest never leads to a     *)
(* second registration or settlement; a settlement stands behind the       *)
(* registration it names and carries the outcome of the record.            *)
LedgerTruthful ==
  \A t \in Txns :
    /\ AtMostOne(Registrations(t)) /\ AtMostOne(Settlements(t))
    /\ \A d \in Settlements(t) :
         /\ chain[d].registration \in Registrations(t) /\ chain[d].registration < d
         /\ chain[d].outcome \in Outcomes /\ chain[d].outcome = LastState(t)

(* A transaction that left the active slot is finished: terminal, and both *)
(* its chain entries published and bound (persist_detach and the delete    *)
(* gate of the schema agree).                                              *)
DetachedIsSettled ==
  \A t \in Txns : t # active /\ state[t] # "none" =>
    /\ state[t] \in TerminalStates
    /\ registration_digest[t] \in Registrations(t)
    /\ settlement_digest[t] \in Settlements(t)

(* No store update the coordinator ever attempts is refused by a trigger   *)
(* of the schema, in any order of failure, crash and recovery.             *)
TriggersSilent == [][Triggers]_vars

(* Once a transaction is active it leaves the active slot or is halted:    *)
(* recovery never starves or livelocks, given that leases keep being taken *)
(* and that crashes cease.                                                 *)
Settles ==
  \A t \in Txns :
    active = t ~> (active # t \/ state[t] = "halted" \/ assembly_halt[t])

-----------------------------------------------------------------------------
(* The refinement mapping onto AtomicOutcome.                              *)

OutcomeOf(t) ==
  CASE state[t] = "none" -> "none"
    [] LastState(t) \in TerminalStates -> LastState(t)
    [] state[t] # "none" /\ LastState(t) \notin TerminalStates -> "open"

LedgerOf ==
  [d \in 1..Len(chain) |->
     <<chain[d].txid,
       IF chain[d].kind = "registered" THEN "registered" ELSE chain[d].outcome>>]

Promise ==
  INSTANCE AtomicOutcome WITH outcome <- [t \in Txns |-> OutcomeOf(t)],
                              ledger <- LedgerOf, busy <- active

(* The protocol implements AtomicOutcome: one open transaction at a time,  *)
(* registered before it is decided, decided once, published once and       *)
(* truthfully, closed only then.                                           *)
ImplementsAtomicOutcome == Promise!ASpec

-----------------------------------------------------------------------------
(* What journal.py and its tests say of the vectors recovery may meet:     *)
(* every record that resolve() classifies carries a vector of the language *)
(* of its state, so that the authority "halt" is never reached.            *)
RecoveryAcceptsItsOwnJournals ==
  pc = "classify" => LegalJournalLanguage(state[active], journals[active])
=============================================================================
