SPECIFICATION Spec
CONSTANTS
  Profile = {p1, p2}
  Stem <- OwnStems
  Foreign <- Unnumbered
  Value = {s1, s2}
  Contents <- GrowingContents
  UserObject <- PlainEmptyOrOwn
  Others = {"user", "serviceaccount"}
  NoLabel = NoLabel
  EmptyLabel = EmptyLabel
  NoIndex = NoIndex
  Panics = Panics
  Absent = Absent
  MaxSpecs = 1
  MaxChanges = 2
  MaxFaults = 0
  p1 = p1
  s1 = s1
  s2 = s2
  x = x
  y = y
INVARIANT TypeOK
PROPERTIES
  CleanPassEnforces
  CleanPassCleans
  CleanPassCreatesRanges
  UnmanagedKept
