CONSTANTS
  Sources = {model}
  Fetches = 2
  MaxVersion = 3
  MaxDrops = 1
  MaxFailures = 1
  MaxWakes = 1
  MaxDrags = 2
  None = None
SPECIFICATION FairSpec
CHECK_DEADLOCK FALSE
PROPERTIES
  NeverGoesBack
  DragOwnsMarkup
  FollowsWhatItHears
  StreamsComeBack
