CONSTANTS
  A = A
  B = B
  C = C
  D = D
  Elsewhere = Elsewhere
  Missing = Missing
  Child <- Four
  Values <- MCValues
  Inputs <- MCInputs
  Unlimited = 99
  Limits = {0, 1, 2}
  None = None
SPECIFICATION FairSpec
CHECK_DEADLOCK FALSE
INVARIANTS
  FlowAndCut
  VerdictFollowsCapacity
  ReasonNamesTheCulprit
PROPERTY
  Returns
