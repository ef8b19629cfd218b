\* All scenes.  One unit of LastTime is what a request can take.
SPECIFICATION FairSpec
CONSTANTS
  Scenes = {"child", "status", "config", "syslog", "devices"}
  Child = {c1, c2}
  NoProgram = NoProgram
  Output <- MCOutput
  Reader = {s1}
  Rules <- MCRules
  Sizes <- MCSizes
  Temperatures = {45}
  Offsets = {1}
  LastTime = 1
  NaN = NaN
  Feature <- MCFeature
  Unknown = "unknown"
  Values = {v1}
  NoValue = NoValue
  Client = {q1, q2}
  Watcher = {w1}
  Day = 2
  Days = 2
  Shifts <- MCShifts
  Undefined = Undefined
  Unparsable = Unparsable
  Path = {d1, d2}
  Types = {"ethernet", "loopback"}
  Changes = 1
  Lister = {l1}
  Null = Null
INVARIANTS
  TypeOK
  StreamsAreOutput
  StatusIsCurrent
  StatusNeedsEveryProgram
  ShownAsItWas
  SetTookEffect
  ListsAreCoherent
  FailsByLossOnly
PROPERTIES
  ImplementsShellCall
  ExitIsAnswered
CHECK_DEADLOCK FALSE
