CONSTANTS
  N = 2
  Txns = {t1}
  NoTxn = NoTxn
  MaxCrashes = 1
SPECIFICATION Spec
INVARIANTS
  RecoveryAcceptsItsOwnJournals
