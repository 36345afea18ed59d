SPECIFICATION Spec
CONSTANTS
  Profile = {p1, p2, p3}
  Dotted = {p3}
  n1 = n1
  l1 = l1
  s1 = s1
  Namespace <- MCNamespace
  Label <- MCLabel
  Precedence <- MCPrecedence
  Instant <- MCInstant
  Specs <- MCSpecs
  NoLabel = NoLabel
  Malformed = Malformed
  Absent = Absent
  MaxDrift = 1
  DriftSize = 2
SYMMETRY ProfileSymmetry
INVARIANTS
  TypeOK
  NameSelectorWins
  OnlyMatchingOrHeld
  HighestPrecedenceWins
  CleanReviewAdmitted
  AgreesWithReview
PROPERTY ImplementsPolicy
