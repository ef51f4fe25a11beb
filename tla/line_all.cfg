SPECIFICATION Spec
CONSTANTS
  Item <- LineItem
  top = "s"
  Class <- LineClass
  items <- LineItems
  Pitched = {"a"}
  InitArg <- LineInit
  Rules <- LineRules
  Sup = 6
  Vec <- DistributionVector
  Distros <- AllValues
  Wanted = 1000
  Candidate <- Layouts
INVARIANTS SolutionSound
PROPERTIES ChoiceSplits
