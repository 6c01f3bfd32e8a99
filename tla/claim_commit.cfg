\* A file is moved, then replaced.
CONSTANTS
  N = 2
  Txns = {t1}
  NoTxn = NoTxn
  MaxCrashes = 0
  MaxKills = 0
  MaxOutside = 0
  OutsideStates = {}
  p = p
  q = q
  r = r
  a = a
  b = b
  part = part
  rawb = rawb
  drift = drift
  Top = Top
  Attic = Attic
  NoObj = NoObj
  Paths <- ThreePaths
  Parent <- ParentOf
  Programs <- MoveThenReplace
  Raw <- RawIsFinished
  Prefixes <- DistinctPrefixes
SPECIFICATION ESpec
INVARIANTS
  FinishedWorkCommits
