CONSTANTS
  Modes = {TRUE, FALSE}
  StaticGateway = "static"
  CanFail = {"PACKET_POOL", "IP_INSTANCE", "DNS_ENABLED", "DHCP_ENABLED"}
  LinkFlaps = TRUE
  AppRestarts = TRUE
SPECIFICATION Spec
INVARIANTS
  TypeOK
  IpImpliesLink
  DriverIsInitialized
  LeaseIsRemembered
PROPERTIES
  UsesLinkDriver
  LossIsAnnounced
  StableLinkConnects
  LeasedIsEnabled
  GatewayIsResolver
