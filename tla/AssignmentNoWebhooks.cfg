SPECIFICATION FairSpec
CONSTANTS
  Profile = {p1, p2}
  Dotted = {}
  Namespace = {n1}
  Label = {l1, l2}
  Precedence <- MCPrecedence
  Instant <- MCInstant
  Specs <- MCSpecs
  NoLabel = NoLabel
  Malformed = Malformed
  Absent = Absent
  Blank = {}
  Objects <- TwoLabels
  Labellings <- AllLabelled
  UserOps = {"create"}
  Deployments = {FALSE}
  MaxChanges = 2
  MaxFaults = 0
  p1 = p1
  n1 = n1
  n2 = n2
  l1 = l1
  l2 = l2
  s1 = s1
PROPERTY BestHoldsAnyhow
CHECK_DEADLOCK FALSE
