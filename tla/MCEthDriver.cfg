CONSTANTS
  Groups = {g1, g2, g3}
  MaxGroups = 2
  MaxJoins = 2
  Wrap = 4
  Modes = {"100full", "10half"}
  DefaultMode = "100full"
  Faults = TRUE
  EarlyJoins = FALSE
SPECIFICATION Spec
INVARIANTS
  TypeOK
  EnabledIsRunning
  FilterMatchesGroups
PROPERTIES
  ModeChangesStopped
  ImplementsLinkDriver
