SPECIFICATION Spec
CONSTANTS
  Item <- LineItem
  top = "s"
  Class <- LineClass
  items <- LineItems
  Pitched = {"a"}
  InitArg <- LineInitFixed
  Rules <- LineRules
  Sup = 6
  Vec <- DistributionVector
  Distros <- AllOrders
  Wanted = 2
  Candidate <- Layouts
INVARIANTS  VisitsLeftToRight
