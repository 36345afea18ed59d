SPECIFICATION OperatorSpec
CONSTANTS
  Profile = {p1, p2}
  Dotted = {}
  Namespace = {n1}
  Label = {l1, l2}
  Precedence <- MCPrecedence
  Instant <- MCInstant
  Specs <- MCSpecs
  NoLabel = NoLabel
  Malformed = Malformed
  Absent = Absent
  Blank = {}
  Objects <- NameLabelOrEmpty
  Labellings <- AllLabelled
  UserOps = {"create", "edit", "delete", "open", "close"}
  Deployments = {TRUE}
  MaxChanges = 3
  MaxFaults = 1
  p1 = p1
  n1 = n1
  l1 = l1
  l2 = l2
  s1 = s1
  s2 = s2
INVARIANT OperatorTypeOK
PROPERTIES
  AimsFollow
  AimsGoWithProfile
CHECK_DEADLOCK FALSE
