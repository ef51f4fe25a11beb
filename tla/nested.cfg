SPECIFICATION Spec
CONSTANTS
  Item <- NestedItem
  top = "m"
  Class <- NestedClass
  items <- NestedItems
  Pitched = {}
  InitArg <- NestedInit
  Rules <- NestedRules
  Sup = 5
  Vec <- DistributionVector
  Distros <- WidthMid
  Wanted = 1000
  Candidate <- Layouts
INVARIANTS FindsAllTimelines SpacesDisjoint
