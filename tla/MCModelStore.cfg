CONSTANTS
  Ops = {o1, o2}
  Subs = {s1, s2}
  capacity = capacity
  divisor = divisor
  derived = derived
  Literals <- MCLiterals
  Editable = {capacity, divisor}
  Requested <- MCRequested
  Values <- MCValues
  Texts <- MCTexts
  Shipped <- MCShipped
  MaxVersion = 3
SPECIFICATION FairSpec
INVARIANTS
  PublisherNeverStops
  PinnedModelUnchanged
  VersionNamesModel
  OnlyEditableLiteralsMove
PROPERTIES
  ImplementsFeed
  CaughtUp
  LeaverReleased
