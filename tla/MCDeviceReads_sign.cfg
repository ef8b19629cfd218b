SPECIFICATION Spec
CONSTANTS
  Scenes = {"status"}
  Child = {c1, c2}
  NoProgram = NoProgram
  Output <- MCOutput
  Reader = {s1}
  Rules <- MCRules
  Sizes <- MCSizes
  Temperatures <- MCTemperatures
  Offsets <- MCOffsets
  LastTime = 0
  NaN = NaN
  Feature <- MCFeature
  Unknown = "unknown"
  Values = {v1}
  NoValue = NoValue
  Client = {q1, q2}
  Watcher = {w1}
  Day = 2
  Days = 2
  Shifts <- MCShifts
  Undefined = Undefined
  Unparsable = Unparsable
  Path = {d1, d2}
  Types = {"ethernet", "loopback"}
  Changes = 2
  Lister = {l1}
  Null = Null
INVARIANTS
  TemperatureIsSigned
CHECK_DEADLOCK FALSE
