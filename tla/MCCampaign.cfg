CONSTANTS
  t1 = t1
  t2 = t2
  report = report
  whole = whole
  reduced = reduced
  deletion = deletion
  control = control
  Junk = Junk
  None = None
  Tests <- MCTests
  Variants <- MCVariants
  Probes <- MCProbes
  Stride = 2
  BudgetTest = 2
  BudgetIncident = 1
  Inputs = {1}
  Codes = {1, 2}
  Servers <- MCServers
  Reply <- MCReply
  Asks <- MCAsks
  MaxAttempts = 2
  MaxSittings = 2
SPECIFICATION FairSpec
CHECK_DEADLOCK FALSE
INVARIANTS
  AsksOnlyWhatIsMissing
  CarriesOverFirst
PROPERTIES
  ReadsAsOneRun
  SittingEnds
