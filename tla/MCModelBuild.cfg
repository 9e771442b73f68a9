CONSTANTS
  a = a
  b = b
  r = r
  q = q
  Base = Base
  Special = Special
  Demand = Demand
  None = None
  Parts <- MCParts
  Reqs <- MCReqs
  PartNames <- MCNames
  Owners <- MCOwners
  Subject <- MCSubject
  Sources <- MCSources
  Shipped = 2
  Requested <- MCRequested
  Order <- MCOrder
  MaxEdits = 2
SPECIFICATION Spec
CHECK_DEADLOCK FALSE
INVARIANTS
  BuildsWhatItMeans
PROPERTY
  EditMovesOneLiteral
