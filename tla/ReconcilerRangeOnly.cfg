SPECIFICATION Spec
CONSTANTS
  Profile = {p1}
  Stem <- OwnStems
  Foreign <- NoForeign
  Value = {s1, s2}
  Contents <- RangeOnlyContents
  UserObject <- Nobodys
  Others = {"user"}
  NoLabel = NoLabel
  EmptyLabel = EmptyLabel
  NoIndex = NoIndex
  Panics = Panics
  Absent = Absent
  MaxSpecs = 1
  MaxChanges = 0
  MaxFaults = 0
  p1 = p1
  s1 = s1
  s2 = s2
  x = x
  y = y
PROPERTY WantedRangesKept
