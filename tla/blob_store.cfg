\* Two transactions over two contents, two kills and a power cut.
CONSTANTS
  Digests = {a, b}
  MaxAttempts = 2
  MaxKills = 2
  MaxCuts = 1
SPECIFICATION FairBSpec
INVARIANTS
  RecordsSurvive
  NeverInvalid
  ActiveHasItsSlot
  NothingStranded
PROPERTIES
  ReclamationEnds
