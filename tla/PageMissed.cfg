CONSTANTS
  Sources = {model}
  Fetches = 1
  MaxVersion = 2
  MaxDrops = 0
  MaxFailures = 0
  MaxWakes = 0
  MaxDrags = 0
  None = None
SPECIFICATION FairSpec
CHECK_DEADLOCK FALSE
PROPERTY ReflectsEveryChange
