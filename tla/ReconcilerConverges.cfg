SPECIFICATION FairSpec
CONSTANTS
  Profile = {p1, p2}
  Stem <- SharedStem
  Foreign <- PanicOrNumber
  Value = {s1, s2}
  Contents <- PairContents
  UserObject <- PlainOrOwn
  Others = {"user", "serviceaccount"}
  NoLabel = NoLabel
  EmptyLabel = EmptyLabel
  NoIndex = NoIndex
  Panics = Panics
  Absent = Absent
  MaxSpecs = 2
  MaxChanges = 1
  MaxFaults = 1
  p1 = p1
  s1 = s1
  s2 = s2
  x = x
  y = y
PROPERTIES
  Convergence
  RangesFollow
