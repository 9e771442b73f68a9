CONSTANTS
  Root = Root
  A = A
  A1 = A1
  B = B
  t1 = t1
  t2 = t2
  Shipped <- MCShipped
  ShippedKids <- MCShippedKids
  ShippedKind <- MCShippedKind
  Texts = {t1}
  ShippedText = t1
  MaxFresh = 2
  Indices <- MCIndices
  MaxDepth = 2
  MaxActs = 2
  NoPage = NoPage
  None = None
SPECIFICATION Spec
INVARIANTS
  IsTree
  NothingLost
  NumbersOutline
  MarkupIsServed
PROPERTIES
  DoneAsShown
  RestKeepsOrder
