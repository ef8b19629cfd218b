CONSTANTS
  authentication = authentication
  metadata = metadata
  Key = {authentication, metadata}
  Metadata = metadata
  KeyOrder <- MCKeyOrder
  Auth = authentication
  Field = {name, location}
  Data = {text}
  Unset = Unset
  Same = Same
  Default = Default
  ApiRequest = {r1}
  CliRequest = {}
  Absent = Absent
  NoCall = NoCall
SPECIFICATION Spec
PROPERTY UpdateKeepsOtherFields
