--------------------------- MODULE NetworkThread ----------------------------
(***************************************************************************)
(* The network thread of src/src/Stm32NetX.cpp: it creates the services,   *)
(* then watches the link and the address of the interface for ever, keeps  *)
(* the flags HAS_LINK and HAS_IP for the application, and (re)starts DHCP  *)
(* or sets the static address while there is none.                         *)
(*                                                                         *)
(* It shares the interface with three others: the IP thread, which         *)
(* initialises the driver when the IP instance was created; the thread of  *)
(* the DHCP client, which sets address and gateway when an answer of the   *)
(* server arrives; and the application, which waits for HAS_IP and calls   *)
(* NetX::restart().  Each call of NetX is one step, since NetX runs it     *)
(* under a mutex; the calls of the threads interleave freely.              *)
(*                                                                         *)
(* The PHY is "up" or "down" and may change at any time when LinkFlaps.    *)
(* The driver is seen through its link state only; EthDriver has the rest. *)
(***************************************************************************)
EXTENDS Naturals, Sequences

CONSTANTS
  Modes,          \* the values getConfig()->dhcp may have
  StaticGateway,  \* getConfig()->gateway_address: NONE or "static"
  CanFail,        \* the services whose creation may fail
  LinkFlaps,      \* whether the cable may be pulled and plugged
  AppRestarts     \* whether the application calls restart()

NONE == "none"    \* the address 0.0.0.0

ASSUME ConfigAssumption ==
  /\ Modes \subseteq BOOLEAN
  /\ StaticGateway \in {NONE, "static"}
  /\ LinkFlaps \in BOOLEAN /\ AppRestarts \in BOOLEAN

VARIABLES
  pc,         \* where networkThread() is
  created,    \* how many services it has tried to create
  flags,      \* NetX::flags
  ipState,    \* its local variable ipState
  resolvers,  \* the addresses given to Dns::serverAdd
  cfgDhcp,    \* getConfig()->dhcp
  phy,        \* the link status bit of the PHY
  ipThread,   \* how far the IP thread is with initialising the driver
  driver,     \* nx_driver_information_state
  address,    \* nx_interface_ip_address: NONE, "lease" or "static"
  gateway,    \* nx_ip_gateway_address: NONE, "router" or "static"
  dhcp,       \* nx_dhcp_state
  record,     \* nx_dhcp_ip_address is not zero in the interface record
  mail,       \* the server's answer waiting in the DHCP socket
  app         \* where the application is

threadVars == <<pc, created, flags, ipState, resolvers>>
dhcpVars   == <<dhcp, record, mail>>
envVars    == <<cfgDhcp, phy>>
vars == <<threadVars, envVars, ipThread, driver, address, gateway,
          dhcpVars, app>>

\* networkThread() creates the services in this order.
Services == <<"PACKET_POOL", "IP_INSTANCE", "ARP_ENABLED", "ICMP_ENABLED",
              "UDP_ENABLED", "TCP_ENABLED", "DNS_ENABLED", "DHCP_ENABLED">>

ServiceNames == {Services[i] : i \in 1..Len(Services)}
Flags        == ServiceNames \union {"LINK", "IP"}
Reconfiguring == {"enable", "dhcpStop", "dhcpReinitialize", "dhcpStart",
                  "staticAddress", "staticGateway"}
ThreadSteps  == {"create", "awaitInit", "link", "address", "ipSet", "sleep"}
                  \union Reconfiguring
Restarting   == {"stop", "disable", "clearAddress", "clearGateway"}

TypeOK ==
  /\ pc \in ThreadSteps
  /\ created \in 0..Len(Services)
  /\ flags \in SUBSET Flags
  /\ ipState \in {"UNKNOWN", "UNSET", "SET"}
  /\ resolvers \in SUBSET {NONE, "router", "static"}
  /\ cfgDhcp \in BOOLEAN
  /\ phy \in {"up", "down"}
  /\ ipThread \in {"none", "start", "initialize", "enable", "loop"}
  /\ driver \in {"NOT_INITIALIZED", "INITIALIZED", "LINK_ENABLED"}
  /\ address \in {NONE, "lease", "static"}
  /\ gateway \in {NONE, "router", "static"}
  /\ dhcp \in {"NOT_STARTED", "INIT", "SELECTING", "REQUESTING",
               "SETTING", "BOUND"}
  /\ record \in BOOLEAN
  /\ mail \in {NONE, "offer", "ack", "nack"}
  /\ app \in {"idle", "await"} \union Restarting

Init ==
  /\ pc = "create" /\ created = 0 /\ flags = {} /\ ipState = "UNKNOWN"
  /\ resolvers = {}
  /\ cfgDhcp \in Modes
  /\ phy \in IF LinkFlaps THEN {"up", "down"} ELSE {"up"}
  /\ ipThread = "none" /\ driver = "NOT_INITIALIZED"
  /\ address = NONE /\ gateway = NONE
  /\ dhcp = "NOT_STARTED" /\ record = FALSE /\ mail = NONE
  /\ app = "idle"

\* nx_ip_protection is free: the IP thread holds it while it initialises.
IpMutexFree == ipThread \notin {"initialize", "enable"}

\* nx_dhcp_mutex is free: the DHCP thread holds it while it takes an answer.
DhcpMutexFree == dhcp # "SETTING"

\* flags.set() resumes the threads that wait for the flag.
SetFlag(f) ==
  /\ flags' = flags \union {f}
  /\ app' = IF f = "IP" /\ app = "await" THEN "idle" ELSE app
-----------------------------------------------------------------------------
(* The calls of NetX through IpInstance and Dns, each under a mutex.       *)
(* interfaceStatusCheck(NX_IP_LINK_ENABLED) asks the PHY; it fails without *)
(* an IP instance.                                                         *)
LinkStatus == phy = "up" /\ "IP_INSTANCE" \in flags

IpAddressSet(ip) ==
  /\ IpMutexFree
  /\ address' = ip

IpGatewayAddressClear ==
  /\ IpMutexFree
  /\ gateway' = NONE

(* A gateway must be in the network of the interface.  It is in the network *)
(* of the static address, and in that of no address, where every one is;   *)
(* it may not be in that of a lease, and the error is only logged.         *)
IpGatewayAddressSet(ip) ==
  /\ IpMutexFree
  /\ gateway' \in IF address = "lease" THEN {ip, gateway} ELSE {ip}

(* serverAdd only logs that there is no DNS client, or that it knows the   *)
(* server.                                                                 *)
ResolversAfterAdd(ip) ==
  IF "DNS_ENABLED" \in flags THEN resolvers \union {ip} ELSE resolvers

(* driverDirectCommand, for a command that leaves the driver as given. *)
DriverDirectCommand(state) ==
  /\ IpMutexFree
  /\ driver' = state
-----------------------------------------------------------------------------
(* The services.  The IP instance needs the packet pool, the others need   *)
(* the IP instance; a service that fails is not announced, and the thread  *)
(* goes on.  Creating the IP instance creates the IP thread.               *)
Needs(s) == IF s = "PACKET_POOL" THEN {}
            ELSE IF s = "IP_INSTANCE" THEN {"PACKET_POOL"}
            ELSE {"IP_INSTANCE"}

CreateService ==
  /\ pc = "create"
  /\ created < Len(Services)
  /\ created' = created + 1
  /\ LET s == Services[created + 1] IN
     \/ /\ Needs(s) \subseteq flags
        /\ SetFlag(s)
        /\ ipThread' = IF s = "IP_INSTANCE" THEN "start" ELSE ipThread
     \/ /\ s \in CanFail \/ ~(Needs(s) \subseteq flags)
        /\ UNCHANGED <<flags, app, ipThread>>
  /\ pc' = IF created' = Len(Services) THEN "awaitInit" ELSE pc
  /\ UNCHANGED <<ipState, resolvers, envVars, driver, address, gateway,
                 dhcpVars>>

(* interfaceStatusCheck(NX_IP_INITIALIZE_DONE) reads a flag the IP thread  *)
(* sets before it initialises the driver; without an IP instance the call  *)
(* fails at once and the assertion that it did not is the only reaction.   *)
AwaitInit ==
  /\ pc = "awaitInit"
  /\ ipThread \in {"initialize", "enable", "loop"} \/ "IP_INSTANCE" \notin flags
  /\ pc' = "link"
  /\ UNCHANGED <<created, flags, ipState, resolvers, envVars, ipThread, driver,
                 address, gateway, dhcpVars, app>>
-----------------------------------------------------------------------------
(* Mutant of LinkIsUp: the check does not take nx_ip_protection. *)
LinkIsUpUnprotected ==
  /\ pc = "link"
  /\ LinkStatus
  /\ SetFlag("LINK")
  /\ pc' = "address"
  /\ UNCHANGED <<created, ipState, resolvers, envVars, ipThread, driver,
                 address, gateway, dhcpVars>>

LinkIsUp ==
  /\ pc = "link"
  /\ IpMutexFree
  /\ LinkStatus
  /\ SetFlag("LINK")
  /\ pc' = "address"
  /\ UNCHANGED <<created, ipState, resolvers, envVars, ipThread, driver,
                 address, gateway, dhcpVars>>

(* Mutants of LinkIsDown: HAS_IP stays; nothing is cleared unless both     *)
(* flags were set; ipState stays.                                          *)
LinkIsDownKeepsIp ==
  /\ pc = "link"
  /\ IpMutexFree
  /\ ~LinkStatus
  /\ ipState' = "UNKNOWN"
  /\ flags' = flags \ {"LINK"}
  /\ UNCHANGED <<pc, created, resolvers, envVars, ipThread, driver, address,
                 gateway, dhcpVars, app>>

LinkIsDownBothFlags ==
  /\ pc = "link"
  /\ IpMutexFree
  /\ ~LinkStatus
  /\ ipState' = "UNKNOWN"
  /\ flags' = IF {"LINK", "IP"} \subseteq flags THEN flags \ {"LINK", "IP"}
                                                ELSE flags
  /\ UNCHANGED <<pc, created, resolvers, envVars, ipThread, driver, address,
                 gateway, dhcpVars, app>>

LinkIsDown ==
  /\ pc = "link"
  /\ IpMutexFree
  /\ ~LinkStatus
  /\ ipState' = "UNKNOWN"
  /\ flags' = flags \ {"LINK", "IP"}
  /\ UNCHANGED <<pc, created, resolvers, envVars, ipThread, driver, address,
                 gateway, dhcpVars, app>>
-----------------------------------------------------------------------------
AddressIsResolved ==
  /\ pc = "address"
  /\ address # NONE
  /\ pc' = "ipSet"
  /\ UNCHANGED <<created, flags, ipState, resolvers, envVars, ipThread, driver,
                 address, gateway, dhcpVars, app>>

(* The branch "Connected and IP set": the gateway of the moment becomes a  *)
(* resolver when the address is new; then HAS_IP, and sleep.               *)
IpSet ==
  /\ pc = "ipSet"
  /\ resolvers' = IF ipState # "SET" THEN ResolversAfterAdd(gateway) ELSE resolvers
  /\ ipState' = "SET"
  /\ SetFlag("IP")
  /\ pc' = "link"
  /\ UNCHANGED <<created, envVars, ipThread, driver, address, gateway,
                 dhcpVars>>

(* Mutant of AddressIsMissing: ipState is not cleared. *)
AddressIsMissingKeepsState ==
  /\ pc = "address"
  /\ address = NONE
  /\ flags' = flags \ {"IP"}
  /\ pc' = "enable"
  /\ UNCHANGED <<created, ipState, resolvers, envVars, ipThread, driver,
                 address, gateway, dhcpVars, app>>

AddressIsMissing ==
  /\ pc = "address"
  /\ address = NONE
  /\ flags' = flags \ {"IP"}
  /\ ipState' = "UNSET"
  /\ pc' = "enable"
  /\ UNCHANGED <<created, resolvers, envVars, ipThread, driver, address,
                 gateway, dhcpVars, app>>
-----------------------------------------------------------------------------
(* Mutant of DriverAfterEnable: the PHY is not asked. *)
DriverAfterEnableAnyhow ==
  IF driver = "INITIALIZED" THEN "LINK_ENABLED" ELSE driver

(* NX_LINK_ENABLE: _nx_driver_enable refuses when the driver is not        *)
(* initialised, is enabled already, or the PHY reports no link.            *)
DriverAfterEnable ==
  IF driver = "INITIALIZED" /\ phy = "up" THEN "LINK_ENABLED" ELSE driver

(* Mutant of DriverAfterDisable: the state below the one of an             *)
(* initialised driver.                                                     *)
DriverAfterDisableTooFar ==
  IF driver = "LINK_ENABLED" THEN "INITIALIZE_FAILED" ELSE driver

(* NX_LINK_DISABLE. *)
DriverAfterDisable ==
  IF driver = "LINK_ENABLED" THEN "INITIALIZED" ELSE driver

(* Mutant of EnableLink: the link is never enabled by the thread. *)
EnableLinkNever ==
  /\ pc = "enable"
  /\ pc' = "dhcpStop"
  /\ UNCHANGED <<created, flags, ipState, resolvers, envVars, ipThread, driver,
                 address, gateway, dhcpVars, app>>

EnableLink ==
  /\ pc = "enable"
  /\ DriverDirectCommand(DriverAfterEnable)
  /\ pc' = "dhcpStop"
  /\ UNCHANGED <<created, flags, ipState, resolvers, envVars, ipThread,
                 address, gateway, dhcpVars, app>>

(* Dhcp::stop(): the client forgets nothing, but takes no more answers;    *)
(* unbinding its socket drops those that wait.                             *)
StopDhcp ==
  /\ DhcpMutexFree
  /\ dhcp' = "NOT_STARTED"
  /\ mail' = IF dhcp = "NOT_STARTED" THEN mail ELSE NONE
  /\ UNCHANGED record

ThreadStopsDhcp ==
  /\ pc = "dhcpStop"
  /\ StopDhcp
  /\ pc' = IF cfgDhcp THEN "dhcpReinitialize" ELSE "staticAddress"
  /\ UNCHANGED <<created, flags, ipState, resolvers, envVars, ipThread, driver,
                 address, gateway, app>>

(* Mutant of ForgetLease: the record is wiped before it is compared. *)
ForgetLeaseTooEarly == record' = FALSE /\ UNCHANGED <<address, gateway>>

(* _nx_dhcp_interface_reinitialize: the address and the gateway are        *)
(* cleared only if they are those of the record, then the record is wiped. *)
ForgetLease ==
  /\ address' = IF record /\ address = "lease" THEN NONE ELSE address
  /\ gateway' = IF record /\ gateway = "router" THEN NONE ELSE gateway
  /\ record' = FALSE

ThreadReinitializesDhcp ==
  /\ pc = "dhcpReinitialize"
  /\ DhcpMutexFree
  /\ ForgetLease
  /\ dhcp' = "NOT_STARTED"
  /\ pc' = "dhcpStart"
  /\ UNCHANGED <<created, flags, ipState, resolvers, envVars, ipThread, driver,
                 mail, app>>

(* Dhcp::start(): an error that is only logged when there is no client. *)
ThreadStartsDhcp ==
  /\ pc = "dhcpStart"
  /\ DhcpMutexFree
  /\ dhcp' = IF dhcp = "NOT_STARTED" /\ "DHCP_ENABLED" \in flags
             THEN "INIT" ELSE dhcp
  /\ pc' = "staticAddress"
  /\ UNCHANGED <<created, flags, ipState, resolvers, envVars, ipThread, driver,
                 address, gateway, record, mail, app>>

(* "Set static ip": getConfig()->dhcp is read a second time. *)
SetStaticAddress ==
  /\ pc = "staticAddress"
  /\ \/ /\ cfgDhcp
        /\ pc' = "sleep"
        /\ UNCHANGED address
     \/ /\ ~cfgDhcp
        /\ IpAddressSet("static")
        /\ pc' = "staticGateway"
  /\ UNCHANGED <<created, flags, ipState, resolvers, envVars, ipThread, driver,
                 gateway, dhcpVars, app>>

SetStaticGateway ==
  /\ pc = "staticGateway"
  /\ IF StaticGateway = NONE THEN IpGatewayAddressClear
                             ELSE IpGatewayAddressSet(StaticGateway)
  /\ pc' = "sleep"
  /\ UNCHANGED <<created, flags, ipState, resolvers, envVars, ipThread, driver,
                 address, dhcpVars, app>>

(* The end of tx_thread_sleep(LIBSMART_STM32NETX_NETX_DHCP_WAIT_TIME).  The *)
(* other sleeps of the loop change nothing and are left out.               *)
WakeUp ==
  /\ pc = "sleep"
  /\ pc' = "link"
  /\ UNCHANGED <<created, flags, ipState, resolvers, envVars, ipThread, driver,
                 address, gateway, dhcpVars, app>>

ThreadNext ==
  \/ CreateService \/ AwaitInit
  \/ LinkIsUp \/ LinkIsDown
  \/ AddressIsResolved \/ IpSet \/ AddressIsMissing
  \/ EnableLink \/ ThreadStopsDhcp \/ ThreadReinitializesDhcp
  \/ ThreadStartsDhcp \/ SetStaticAddress \/ SetStaticGateway
  \/ WakeUp
-----------------------------------------------------------------------------
(* The IP thread, before its loop: under nx_ip_protection it announces the *)
(* end of the initialisation, initialises the driver and enables it.       *)
IpThreadInitializes ==
  /\ \/ /\ ipThread = "start" /\ ipThread' = "initialize"
        /\ UNCHANGED driver
     \/ /\ ipThread = "initialize" /\ ipThread' = "enable"
        /\ driver' = "INITIALIZED"
     \/ /\ ipThread = "enable" /\ ipThread' = "loop"
        /\ driver' = DriverAfterEnable
  /\ UNCHANGED <<threadVars, envVars, address, gateway, dhcpVars, app>>
-----------------------------------------------------------------------------
(* The DHCP client.  A frame passes when cable and driver allow it. *)
Reachable == phy = "up" /\ driver = "LINK_ENABLED"

(* The server answers what the client sent.  A client that is BOUND asks   *)
(* again to renew its lease.                                               *)
ServerAnswers(answer) ==
  /\ Reachable /\ mail = NONE
  /\ \/ dhcp = "SELECTING" /\ answer = "offer"
     \/ dhcp \in {"REQUESTING", "BOUND"} /\ answer \in {"ack", "nack"}
  /\ mail' = answer
  /\ UNCHANGED <<threadVars, envVars, ipThread, driver, address, gateway,
                 dhcp, record, app>>

DhcpDiscover ==
  /\ dhcp = "INIT"
  /\ dhcp' = "SELECTING"
  /\ UNCHANGED <<threadVars, envVars, ipThread, driver, address, gateway,
                 record, mail, app>>

DhcpOffer ==
  /\ dhcp = "SELECTING" /\ mail = "offer"
  /\ dhcp' = "REQUESTING"
  /\ record' = TRUE
  /\ mail' = NONE
  /\ UNCHANGED <<threadVars, envVars, ipThread, driver, address, gateway, app>>

(* An acknowledged request: first the address ... *)
DhcpAck ==
  /\ dhcp \in {"REQUESTING", "BOUND"} /\ mail = "ack"
  /\ dhcp' = "SETTING"
  /\ record' = TRUE
  /\ mail' = NONE
  /\ address' = "lease"
  /\ UNCHANGED <<threadVars, envVars, ipThread, driver, gateway, app>>

(* ... then the gateway, if the server named one. *)
DhcpAckGateway ==
  /\ dhcp = "SETTING"
  /\ dhcp' = "BOUND"
  /\ gateway' \in {"router", gateway}
  /\ UNCHANGED <<threadVars, envVars, ipThread, driver, address, record, mail,
                 app>>

(* A refused request: the client starts again. *)
DhcpNack ==
  /\ dhcp \in {"REQUESTING", "BOUND"} /\ mail = "nack"
  /\ mail' = NONE
  /\ dhcp' = "INIT"
  /\ ForgetLease
  /\ UNCHANGED <<threadVars, envVars, ipThread, driver, app>>

(* The lease ran out without an answer to the renewal. *)
LeaseExpires ==
  /\ dhcp = "BOUND" /\ mail = NONE
  /\ ~Reachable
  /\ dhcp' = "INIT"
  /\ ForgetLease
  /\ UNCHANGED <<threadVars, envVars, ipThread, driver, mail, app>>

DhcpNext ==
  \/ DhcpDiscover \/ DhcpOffer \/ DhcpAck \/ DhcpAckGateway \/ DhcpNack
  \/ LeaseExpires
-----------------------------------------------------------------------------
(* The application. *)
AppWaitsForIp ==
  /\ app = "idle" /\ "IP" \notin flags
  /\ app' = "await"
  /\ UNCHANGED <<threadVars, envVars, ipThread, driver, address, gateway,
                 dhcpVars>>

(* It may change the configuration, and calls restart() for that. *)
AppRestart ==
  /\ AppRestarts
  /\ app = "idle" /\ "IP_INSTANCE" \in flags
  /\ cfgDhcp' \in Modes
  /\ app' = "stop"
  /\ UNCHANGED <<threadVars, phy, ipThread, driver, address, gateway, dhcpVars>>

RestartStopsDhcp ==
  /\ app = "stop"
  /\ StopDhcp
  /\ app' = "disable"
  /\ UNCHANGED <<threadVars, envVars, ipThread, driver, address, gateway>>

RestartDisablesLink ==
  /\ app = "disable"
  /\ DriverDirectCommand(DriverAfterDisable)
  /\ app' = "clearAddress"
  /\ UNCHANGED <<threadVars, envVars, ipThread, address, gateway, dhcpVars>>

(* Mutant of RestartClearsAddress: the address stays. *)
RestartKeepsAddress ==
  /\ app = "clearAddress"
  /\ app' = "clearGateway"
  /\ UNCHANGED <<threadVars, envVars, ipThread, driver, address, gateway,
                 dhcpVars>>

RestartClearsAddress ==
  /\ app = "clearAddress"
  /\ IpAddressSet(NONE)
  /\ app' = "clearGateway"
  /\ UNCHANGED <<threadVars, envVars, ipThread, driver, gateway, dhcpVars>>

RestartClearsGateway ==
  /\ app = "clearGateway"
  /\ IpGatewayAddressClear
  /\ app' = "idle"
  /\ UNCHANGED <<threadVars, envVars, ipThread, driver, address, dhcpVars>>

RestartNext ==
  \/ RestartStopsDhcp \/ RestartDisablesLink
  \/ RestartClearsAddress \/ RestartClearsGateway

(* The cable. *)
LinkChanges ==
  /\ LinkFlaps
  /\ phy' = IF phy = "up" THEN "down" ELSE "up"
  /\ UNCHANGED <<threadVars, cfgDhcp, ipThread, driver, address, gateway,
                 dhcpVars, app>>

Next ==
  \/ ThreadNext
  \/ IpThreadInitializes
  \/ \E answer \in {"offer", "ack", "nack"} : ServerAnswers(answer)
  \/ DhcpNext
  \/ AppWaitsForIp \/ AppRestart \/ RestartNext
  \/ LinkChanges
-----------------------------------------------------------------------------
SafeSpec == Init /\ [][Next]_vars

(* The network thread cancels an attempt of the DHCP client that takes     *)
(* longer than its sleep.  So a lease needs a server that answers some     *)
(* attempt in time: if attempts that can reach it are made for ever, some  *)
(* are acknowledged while the thread sleeps.                               *)
PromptServer ==
  []<>(pc = "sleep" /\ dhcp # "NOT_STARTED" /\ Reachable)
    => []<><<pc = "sleep" /\ DhcpAck>>_vars

(* Each thread goes on: the others sleep or block in their loops, and a    *)
(* ThreadX mutex is handed to the thread that waits for it, so that no     *)
(* thread is overtaken for ever.                                           *)
Fairness ==
  /\ SF_vars(ThreadNext)
  /\ SF_vars(RestartNext)
  /\ WF_vars(IpThreadInitializes)
  /\ WF_vars(DhcpAckGateway)
  /\ WF_vars(LeaseExpires)
  /\ PromptServer

Spec == SafeSpec /\ Fairness
-----------------------------------------------------------------------------
(* An address is never announced without a link: whoever was woken by      *)
(* HAS_IP finds HAS_LINK set too, although both come and go in different   *)
(* branches of the loop.                                                   *)
IpImpliesLink == "IP" \in flags => "LINK" \in flags

(* The flag HAS_IP and the local ipState, which decides whether the        *)
(* resolver is announced again, never disagree between two steps.          *)
FlagMatchesState == "IP" \in flags <=> ipState = "SET"

(* The thread touches the driver, the DHCP client and the address only     *)
(* while it announces no address.                                          *)
ReconfiguresUnannounced == pc \in Reconfiguring => "IP" \notin flags

(* The IP thread at boot, the network thread and restart() use the driver  *)
(* as the one LinkDriver specifies, which EthDriver implements: between    *)
(* them they take it through its states only by its commands, and never    *)
(* believe it enabled when the PHY refused.                                *)
Link == INSTANCE LinkDriver

UsesLinkDriver == Link!Spec

(* The thread talks to the driver only after the IP thread initialised it, *)
(* although "initialised" is announced before that is done.                *)
DriverIsInitialized ==
  pc \in {"address", "ipSet"} \union Reconfiguring =>
    driver # "NOT_INITIALIZED" /\ ipThread = "loop"

(* An address the DHCP client has set is in its record as long as it is    *)
(* used: the next reinitialisation can remove it.                          *)
LeaseIsRemembered == address = "lease" => record

(* A link that is lost for good, or an address that is, is announced. *)
LossIsAnnounced ==
  /\ phy = "down" ~> phy = "up" \/ flags \intersect {"LINK", "IP"} = {}
  /\ address = NONE ~> address # NONE \/ "IP" \notin flags

(* When the link stays up, the application restarts no more and the server *)
(* refuses no more, an address is announced: the thread finds its way out  *)
(* of every state the interleavings can leave behind.                      *)
StableLinkConnects ==
  /\ <>[](phy = "up" /\ app \in {"idle", "await"} /\ "IP_INSTANCE" \in flags
            /\ (cfgDhcp => "DHCP_ENABLED" \in flags))
  /\ <>[][~DhcpNack]_vars
  => []<>("IP" \in flags)

(* "Connected and IP set" (Stm32NetX.cpp:176): an interface that is        *)
(* announced has its link enabled, or gets it enabled, or is announced no  *)
(* more.                                                                   *)
ConnectedIsEnabled ==
  "IP" \in flags /\ driver # "LINK_ENABLED" ~>
    driver = "LINK_ENABLED" \/ "IP" \notin flags

(* As long as DHCP is configured, an announced interface has its link      *)
(* enabled, or gets it, or is announced no more.                           *)
LeasedIsEnabled == []cfgDhcp => ConnectedIsEnabled

(* The gateway of an interface that stays connected is a resolver of the   *)
(* DNS client, however often it was cleared and set again before.          *)
GatewayIsResolver ==
  [](([]("IP" \in flags /\ gateway = "static") /\ "DNS_ENABLED" \in flags)
      => <>("static" \in resolvers))
=============================================================================
