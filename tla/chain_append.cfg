\* Two demands of a record and one intent, two kills and a power cut.
CONSTANTS
  Genesis = Genesis
  Demands = {registered, settled}
  Intents = {intent}
  Nobody = Nobody
  MaxKills = 2
  MaxCuts = 1
SPECIFICATION FairCSpec
INVARIANTS
  ReliedSurvives
  CutLeavesChain
  KillsAreHarmless
  PublishedOnce
  LeaseIsClean
PROPERTIES
  DemandIsMet
