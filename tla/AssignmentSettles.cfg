SPECIFICATION FairSpec
CONSTANTS
  Profile = {p1, p2}
  Dotted = {}
  Namespace = {n1, n2}
  Label = {l1, l2}
  Precedence <- MCPrecedence
  Instant <- MCInstant
  Specs <- MCSpecs
  NoLabel = NoLabel
  Malformed = Malformed
  Absent = Absent
  Blank = {}
  Objects <- NameTwoLabelsOrEmpty
  Labellings <- AllLabelled
  UserOps = {"create", "edit", "delete", "open"}
  Deployments = {TRUE, FALSE}
  MaxChanges = 3
  MaxFaults = 1
  p1 = p1
  n1 = n1
  n2 = n2
  l1 = l1
  l2 = l2
  s1 = s1
PROPERTIES
  DeletionCompletes
  NamedGetTheirProfile
  BestHoldsInTheEnd
CHECK_DEADLOCK FALSE
