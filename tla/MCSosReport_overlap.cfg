CONSTANTS
  Request = {r1, r2}
  Serial = FALSE
  Prompt = TRUE
SPECIFICATION Spec
INVARIANT WholeReport
