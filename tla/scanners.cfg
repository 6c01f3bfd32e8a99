\* Every vector of five journal states over four effects; every history of up
\* to six entries and two transactions, with one change from outside the lock.
CONSTANTS
  N = 4
  Txids = {t, u}
  MaxEntries = 6
  MaxOutside = 1
SPECIFICATION MCSpec
INVARIANTS
  ScansAgree
  InspectionAgrees
PROPERTIES
  CommandsKeepChain
CHECK_DEADLOCK FALSE
