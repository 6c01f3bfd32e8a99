\* All pairs of file effects and a directory with a file in it, two kills or power cuts, no outside writer.
CONSTANTS
  N = 2
  Txns = {t1}
  NoTxn = NoTxn
  MaxCrashes = 2
  MaxKills = 2
  MaxOutside = 0
  OutsideStates = {}
  p = p
  q = q
  r = r
  a = a
  b = b
  part = part
  rawb = rawb
  drift = drift
  Top = Top
  Attic = Attic
  NoObj = NoObj
  Paths <- ThreePaths
  Parent <- ParentOf
  Programs <- AllPrograms
  Raw <- RawOf
  Prefixes <- PrefixesOf
SPECIFICATION ESpec
INVARIANTS
  RollbackRestores
  CommitInstalls
  ScratchCleared
  FinishedWorkVerifies
  HaltsExplained
  PlansProject
PROPERTIES
  CommitCarriesThrough
