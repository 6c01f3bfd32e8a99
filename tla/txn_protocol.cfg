\* Two transactions of three effects, two crashes anywhere.
CONSTANTS
  N = 3
  Txns = {t1, t2}
  NoTxn = NoTxn
  MaxCrashes = 2
SPECIFICATION FairSpec
INVARIANTS
  TypeOK
  JournalsReachable
  DecisionMatchesState
  Reconcilable
  LedgerTruthful
  DetachedIsSettled
PROPERTIES
  TriggersSilent
  ImplementsAtomicOutcome
  Settles
