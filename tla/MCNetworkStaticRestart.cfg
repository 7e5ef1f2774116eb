CONSTANTS
  Modes = {FALSE}
  StaticGateway = "static"
  CanFail = {}
  LinkFlaps = FALSE
  AppRestarts = TRUE
SPECIFICATION Spec
PROPERTIES
  ConnectedIsEnabled
