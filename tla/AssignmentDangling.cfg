SPECIFICATION FairSpec
CONSTANTS
  Profile = {p1, p2}
  Dotted = {}
  Namespace = {n1}
  Label = {l1, l2}
  Precedence <- MCPrecedence
  Instant <- MCInstant
  Specs <- MCSpecs
  NoLabel = NoLabel
  Malformed = Malformed
  Absent = Absent
  Blank = {}
  Objects <- EitherNameOrLabel
  Labellings <- NoneOrBoth
  UserOps = {"create", "delete", "relabel"}
  Deployments = {TRUE}
  MaxChanges = 3
  MaxFaults = 0
  p1 = p1
  n1 = n1
  n2 = n2
  l1 = l1
  l2 = l2
  s1 = s1
PROPERTY NoDanglingLabel
CHECK_DEADLOCK FALSE
