SPECIFICATION RSpec
CONSTANTS
  Procs = {p1, p2}
  m1 = m1  m2 = m2  g1 = g1  g2 = g2
  Carriers = {m1, m2}
  Paths = {a}
  Overridden = {a}
  Payloads = {g1, g2}
  Override = Override  Foreign = Foreign  Absent = Absent  Torn = Torn
  History = History  Staging = Staging
  Source = Source  Nobody = Nobody  Nothing = Nothing
  Requests <- Registers
  MaxHead = 1
  MaxFaults = 0
  MaxCommands = 2
INVARIANT TwoCannotClaimOneRoot
CHECK_DEADLOCK FALSE
