SPECIFICATION Spec
CONSTANTS
  Item <- LineItem
  top = "s"
  Class <- LineClass
  items <- LineItems
  Pitched = {"a"}
  InitArg <- LineInit
  Rules <- LineRules
  Sup = 6
  Vec <- DistributionVector
  Distros <- Randomised
  Wanted = 2
  Candidate <- Layouts
PROPERTIES ImplementsSolver
