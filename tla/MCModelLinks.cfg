CONSTANTS
  None = None
  Prelude <- Full
  Declarations <- More
  MaxLength = 13
SPECIFICATION Spec
CHECK_DEADLOCK FALSE
INVARIANT
  RelationsAnswer
PROPERTY
  LinksAreStable
