SPECIFICATION FairSpec
CONSTANTS
  Profile = {p1}
  Stem <- OwnStems
  Foreign <- Unnumbered
  Value = {s1, s2}
  Contents <- SteadyRangeContents
  UserObject <- Plain
  Others = {"user"}
  NoLabel = NoLabel
  EmptyLabel = EmptyLabel
  NoIndex = NoIndex
  Panics = Panics
  Absent = Absent
  MaxSpecs = 2
  MaxChanges = 1
  MaxFaults = 0
  p1 = p1
  s1 = s1
  s2 = s2
  x = x
  y = y
PROPERTY RangesConverge
