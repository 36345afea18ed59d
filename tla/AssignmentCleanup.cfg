SPECIFICATION Spec
CONSTANTS
  Profile = {p1, p2}
  Dotted = {}
  Namespace = {n1, n2}
  Label = {l1, l2}
  Precedence <- MCPrecedence
  Instant <- MCInstant
  Specs <- MCSpecs
  NoLabel = NoLabel
  Malformed = Malformed
  Absent = Absent
  Blank = {l2}
  Objects <- NamesLabelsOrEmpty
  Labellings <- NoneOrAll
  UserOps = {"create", "edit", "delete", "relabel", "open", "close"}
  Deployments = {TRUE}
  MaxChanges = 3
  MaxFaults = 1
  p1 = p1
  n1 = n1
  n2 = n2
  l1 = l1
  l2 = l2
  s1 = s1
INVARIANT TypeOK
PROPERTIES
  CleanupLeavesNoLabel
CHECK_DEADLOCK FALSE
