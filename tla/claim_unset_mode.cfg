\* A failure between the last byte of a staged file and its mode.
CONSTANTS
  N = 1
  Txns = {t1}
  NoTxn = NoTxn
  MaxCrashes = 0
  MaxKills = 0
  MaxOutside = 0
  OutsideStates = {}
  p = p
  q = q
  r = r
  a = a
  b = b
  part = part
  rawb = rawb
  drift = drift
  Top = Top
  Attic = Attic
  NoObj = NoObj
  Paths <- ThreePaths
  Parent <- ParentOf
  Programs <- ReplaceAlone
  Raw <- RawOf
  Prefixes <- DistinctPrefixes
SPECIFICATION ESpec
INVARIANTS
  ConvergesWithoutInterference
