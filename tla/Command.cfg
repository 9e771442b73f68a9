CONSTANT ContainerGrace = 10
SPECIFICATION FairCommand
CHECK_DEADLOCK FALSE
INVARIANTS
  NothingLeftRunning
  DependenciesOutlive
  StopFitsGrace
  StatusSaysWhy
PROPERTY
  ExitsInTheEnd
