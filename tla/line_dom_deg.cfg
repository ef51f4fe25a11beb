SPECIFICATION Spec
CONSTANTS
  Item <- LineItem
  top = "s"
  Class <- LineClass
  items <- LineItems
  Pitched = {"a"}
  InitArg <- LineInit
  Rules <- LineRules
  Sup = 6
  Vec <- DistributionVector
  Distros <- DomDeg
  Wanted = 1
  Candidate <- Layouts
INVARIANTS VisitsSmallestDomainFirst
