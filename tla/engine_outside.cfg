\* Every single effect, a failure and a kill, one outside change at any moment.
CONSTANTS
  N = 1
  Txns = {t1}
  NoTxn = NoTxn
  MaxCrashes = 2
  MaxKills = 1
  MaxOutside = 1
  OutsideStates = {a, drift}
  p = p
  q = q
  r = r
  a = a
  b = b
  part = part
  rawb = rawb
  drift = drift
  Top = Top
  Attic = Attic
  NoObj = NoObj
  Paths <- ThreePaths
  Parent <- ParentOf
  Programs <- SinglePrograms
  Raw <- RawOf
  Prefixes <- PrefixesOf
SPECIFICATION FairESpec
PROPERTIES
  ForeignContentSurvives
  EngineSettles
