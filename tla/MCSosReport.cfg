CONSTANTS
  Request = {r1, r2}
  Serial = TRUE
  Prompt = TRUE
SPECIFICATION FairSpec
INVARIANTS
  FreshReport
  WholeReport
PROPERTY EveryRequestEnds
