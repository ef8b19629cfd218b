\* A unit that takes longer than a second to start: FreshReport is expected to be violated.
CONSTANTS
  Request = {r1, r2}
  Serial = TRUE
  Prompt = FALSE
SPECIFICATION Spec
INVARIANT FreshReport
