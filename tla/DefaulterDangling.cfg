SPECIFICATION Spec
CONSTANTS
  Profile = {p1, p2}
  Dotted <- NoDotted
  n1 = n1
  l1 = l1
  s1 = s1
  Namespace <- MCNamespace
  Label <- MCLabel
  Precedence <- MCPrecedence
  Instant <- MCInstant
  Specs <- MCSpecs
  NoLabel = NoLabel
  Malformed = Malformed
  Absent = Absent
  MaxDrift = 0
  DriftSize = 0
INVARIANT DanglingLabelReplaced
