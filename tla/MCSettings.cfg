CONSTANTS
  authentication = authentication
  metadata = metadata
  Key = {authentication, metadata}
  Metadata = metadata
  KeyOrder <- MCKeyOrder
  Auth = authentication
  Field = {name}
  Data = {text}
  Unset = Unset
  Same = Same
  Default = Default
  ApiRequest = {r1, r2}
  CliRequest = {c1}
  Absent = Absent
  NoCall = NoCall
SPECIFICATION FairSpec
INVARIANTS
  TypeOK
  ServerReadsItsWrites
  ResetIsComplete
PROPERTIES
  UnforcedKeeps
  EveryRequestEnds
