\* GeneratedReport is what "Generate and download" says: expected to be violated.
CONSTANTS
  Request = {r1, r2}
  Serial = TRUE
  Prompt = TRUE
SPECIFICATION Spec
INVARIANT GeneratedReport
