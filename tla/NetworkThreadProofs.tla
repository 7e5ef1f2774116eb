------------------------ MODULE NetworkThreadProofs -------------------------
(***************************************************************************)
(* The safety of NetworkThread for every configuration: any set of modes,  *)
(* of services that may fail, with or without a fluttering cable and       *)
(* restarts.                                                               *)
(***************************************************************************)
EXTENDS NetworkThread, TLAPS

(* How far the boot is where the thread is: the thread passes "awaitInit"  *)
(* only with an IP thread that has begun to initialise, and passes its     *)
(* first link check only with one that has finished.                       *)
BootOrder ==
  /\ pc \notin {"create", "awaitInit"} /\ "IP_INSTANCE" \in flags =>
       ipThread \in {"initialize", "enable", "loop"}
  /\ pc \in {"address", "ipSet", "sleep"} \union Reconfiguring =>
       ipThread = "loop"
  /\ ipThread \in {"enable", "loop"} => driver # "NOT_INITIALIZED"

(* The round of the loop that may announce an address has seen the link. *)
LinkSeen ==
  pc \in {"address", "ipSet"} => "LINK" \in flags

(* During the boot nothing is announced. *)
BootUnannounced == pc \in {"create", "awaitInit"} => "IP" \notin flags

IInv ==
  /\ TypeOK
  /\ BootOrder
  /\ LinkSeen
  /\ BootUnannounced
  /\ IpImpliesLink
  /\ FlagMatchesState
  /\ ReconfiguresUnannounced
  /\ LeaseIsRemembered
-----------------------------------------------------------------------------
(* The service that is created next is one of the services. *)
LEMMA NextService ==
  ASSUME NEW i \in 0..Len(Services), i < Len(Services)
  PROVE  Services[i + 1] \in ServiceNames /\ i + 1 \in 0..Len(Services)
  BY DEF Services, ServiceNames

(* No service is named like the flags of the loop. *)
LEMMA ServicesAreOthers == "IP" \notin ServiceNames /\ "LINK" \notin ServiceNames
  BY DEF Services, ServiceNames

(* Forgetting the lease leaves no leased address behind. *)
LEMMA LeaseForgotten ==
  ASSUME TypeOK, LeaseIsRemembered, ForgetLease
  PROVE  /\ address' \in {NONE, "static"}
         /\ gateway' \in {NONE, "router", "static"}
         /\ record' \in BOOLEAN
  <1>1. CASE address = "lease"
    BY <1>1 DEF TypeOK, LeaseIsRemembered, ForgetLease
  <1>2. CASE address # "lease"
    BY <1>2 DEF TypeOK, ForgetLease
  <1>3. QED  BY <1>1, <1>2

(* The initial state satisfies the inductive invariant. *)
LEMMA InitIInv == Init => IInv
  <1> SUFFICES ASSUME Init PROVE IInv
    OBVIOUS
  <1>1. created \in 0..Len(Services)
    BY DEF Init, Services
  <1>2. TypeOK
    BY <1>1, ConfigAssumption
    DEF Init, TypeOK, ThreadSteps, Restarting
  <1>3. QED
    BY <1>2
    DEF Init, IInv, BootOrder, LinkSeen, BootUnannounced, IpImpliesLink,
        FlagMatchesState, ReconfiguresUnannounced, LeaseIsRemembered, Reconfiguring, NONE

(* The creation of a service preserves the inductive invariant. *)
LEMMA CreateIInv ==
  ASSUME IInv, CreateService
  PROVE  IInv'
  <1> DEFINE s == Services[created + 1]
  <1>1. s \in ServiceNames /\ created' \in 0..Len(Services)
    BY NextService DEF IInv, TypeOK, CreateService
  <1>2. /\ flags' = flags \union {s} \/ flags' = flags
        /\ app' = app
    BY <1>1, ServicesAreOthers DEF CreateService, SetFlag
  <1>3. /\ pc = "create" /\ pc' \in {"create", "awaitInit"}
        /\ ipThread' \in {"start", ipThread}
        /\ ipThread' = "start" => UNCHANGED driver
        /\ UNCHANGED <<ipState, resolvers, cfgDhcp, phy, driver, address, gateway,
                       dhcp, record, mail>>
    BY DEF CreateService, envVars, dhcpVars
  <1> HIDE DEF s
  <1>4. TypeOK'
    BY <1>1, <1>2, <1>3 DEF IInv, TypeOK, ThreadSteps, Flags
  <1>5. QED
    BY <1>1, <1>2, <1>3, <1>4, ServicesAreOthers
    DEF IInv, BootOrder, LinkSeen, BootUnannounced, IpImpliesLink,
        FlagMatchesState, ReconfiguresUnannounced, LeaseIsRemembered, Reconfiguring

(* The other steps of the thread do. *)
LEMMA LoopIInv ==
  ASSUME IInv, ThreadNext, ~CreateService
  PROVE  IInv'
  <1> USE DEF IInv, TypeOK, BootOrder, LinkSeen, BootUnannounced,
          IpImpliesLink, FlagMatchesState, ReconfiguresUnannounced, LeaseIsRemembered,
          ThreadSteps, Reconfiguring, Flags, IpMutexFree, DhcpMutexFree, SetFlag,
          envVars, dhcpVars, NONE
  <1>1. CASE AwaitInit          BY <1>1 DEF AwaitInit
  <1>2. CASE LinkIsUp           BY <1>2 DEF LinkIsUp, LinkStatus
  <1>3. CASE LinkIsDown         BY <1>3 DEF LinkIsDown, LinkStatus
  <1>4. CASE AddressIsResolved  BY <1>4 DEF AddressIsResolved
  <1>5. CASE IpSet              BY <1>5 DEF IpSet, ResolversAfterAdd
  <1>6. CASE AddressIsMissing   BY <1>6 DEF AddressIsMissing
  <1>7. CASE EnableLink
    BY <1>7 DEF EnableLink, DriverDirectCommand, DriverAfterEnable
  <1>8. CASE ThreadStopsDhcp    BY <1>8 DEF ThreadStopsDhcp, StopDhcp
  <1>9. CASE ThreadReinitializesDhcp
    BY <1>9, LeaseForgotten DEF ThreadReinitializesDhcp
  <1>10. CASE ThreadStartsDhcp  BY <1>10 DEF ThreadStartsDhcp
  <1>11. CASE SetStaticAddress
    BY <1>11 DEF SetStaticAddress, IpAddressSet
  <1>12. CASE SetStaticGateway
    BY <1>12, ConfigAssumption
    DEF SetStaticGateway, IpGatewayAddressSet, IpGatewayAddressClear
  <1>13. CASE WakeUp            BY <1>13 DEF WakeUp
  <1>14. QED
    BY <1>1, <1>2, <1>3, <1>4, <1>5, <1>6, <1>7, <1>8, <1>9, <1>10, <1>11,
       <1>12, <1>13 DEF ThreadNext

(* The steps of the DHCP client, its server and the IP thread do. *)
LEMMA DhcpIInv ==
  ASSUME IInv,
         IpThreadInitializes \/ DhcpNext
           \/ \E answer \in {"offer", "ack", "nack"} : ServerAnswers(answer)
  PROVE  IInv'
  <1> USE DEF IInv, TypeOK, BootOrder, LinkSeen, BootUnannounced,
          IpImpliesLink, FlagMatchesState, ReconfiguresUnannounced, LeaseIsRemembered,
          ThreadSteps, Reconfiguring, threadVars, envVars, dhcpVars, NONE
  <1>1. CASE IpThreadInitializes
    BY <1>1 DEF IpThreadInitializes, DriverAfterEnable
  <1>2. CASE \E answer \in {"offer", "ack", "nack"} : ServerAnswers(answer)
    BY <1>2 DEF ServerAnswers
  <1>3. CASE DhcpDiscover    BY <1>3 DEF DhcpDiscover
  <1>4. CASE DhcpOffer       BY <1>4 DEF DhcpOffer
  <1>5. CASE DhcpAck         BY <1>5 DEF DhcpAck
  <1>6. CASE DhcpAckGateway  BY <1>6 DEF DhcpAckGateway
  <1>7. CASE DhcpNack        BY <1>7, LeaseForgotten DEF DhcpNack
  <1>8. CASE LeaseExpires    BY <1>8, LeaseForgotten DEF LeaseExpires
  <1>9. QED
    BY <1>1, <1>2, <1>3, <1>4, <1>5, <1>6, <1>7, <1>8 DEF DhcpNext

(* The steps of the application and the cable do. *)
LEMMA AppIInv ==
  ASSUME IInv, AppWaitsForIp \/ AppRestart \/ RestartNext \/ LinkChanges
  PROVE  IInv'
  <1> USE DEF IInv, TypeOK, BootOrder, LinkSeen, BootUnannounced,
          IpImpliesLink, FlagMatchesState, ReconfiguresUnannounced, LeaseIsRemembered,
          Restarting, Reconfiguring, threadVars, envVars, dhcpVars, NONE
  <1>1. CASE AppWaitsForIp         BY <1>1 DEF AppWaitsForIp
  <1>2. CASE AppRestart            BY <1>2, ConfigAssumption DEF AppRestart
  <1>3. CASE RestartStopsDhcp      BY <1>3 DEF RestartStopsDhcp, StopDhcp
  <1>4. CASE RestartDisablesLink
    BY <1>4 DEF RestartDisablesLink, DriverDirectCommand, DriverAfterDisable
  <1>5. CASE RestartClearsAddress
    BY <1>5 DEF RestartClearsAddress, IpAddressSet
  <1>6. CASE RestartClearsGateway
    BY <1>6 DEF RestartClearsGateway, IpGatewayAddressClear
  <1>7. CASE LinkChanges           BY <1>7 DEF LinkChanges
  <1>8. QED
    BY <1>1, <1>2, <1>3, <1>4, <1>5, <1>6, <1>7 DEF RestartNext

(* Every step preserves the inductive invariant. *)
LEMMA NextIInv == IInv /\ [Next]_vars => IInv'
  <1> SUFFICES ASSUME IInv, [Next]_vars PROVE IInv'
    OBVIOUS
  <1>1. CASE UNCHANGED vars
    BY <1>1
    DEF vars, threadVars, envVars, dhcpVars, IInv, TypeOK, BootOrder, LinkSeen,
        BootUnannounced, IpImpliesLink, FlagMatchesState,
        ReconfiguresUnannounced, LeaseIsRemembered
  <1>2. CASE Next
    BY <1>2, CreateIInv, LoopIInv, DhcpIInv, AppIInv DEF Next
  <1>3. QED  BY <1>1, <1>2

(* The inductive invariant holds in every reachable state. *)
THEOREM Invariance == SafeSpec => []IInv
  BY InitIInv, NextIInv, PTL DEF SafeSpec
-----------------------------------------------------------------------------
(* The variables keep their types. *)
THEOREM TypeCorrect == SafeSpec => []TypeOK
  <1>1. IInv => TypeOK  BY DEF IInv
  <1>2. QED             BY <1>1, Invariance, PTL

(* What the flags announce is consistent: an address implies a link and    *)
(* agrees with ipState, and none is announced during a reconfiguration.    *)
THEOREM AnnouncementConsistent ==
  SafeSpec => [](IpImpliesLink /\ FlagMatchesState /\ ReconfiguresUnannounced)
  <1>1. IInv => IpImpliesLink /\ FlagMatchesState /\ ReconfiguresUnannounced
    BY DEF IInv
  <1>2. QED  BY <1>1, Invariance, PTL

(* The thread uses the driver only when it was initialised. *)
THEOREM DriverInitializedFirst == SafeSpec => []DriverIsInitialized
  <1>1. IInv => DriverIsInitialized
    BY DEF IInv, BootOrder, DriverIsInitialized
  <1>2. QED  BY <1>1, Invariance, PTL

(* The driver is used as LinkDriver specifies: what its commands leave is  *)
(* a step of LinkDriver or none.                                           *)
LEMMA CommandIsStep ==
  ASSUME TypeOK, UNCHANGED phy,
         driver' \in {driver, DriverAfterEnable, DriverAfterDisable}
  PROVE  [Link!Next]_Link!vars
  BY DEF TypeOK, DriverAfterEnable, DriverAfterDisable, Link!Next, Link!Enable,
         Link!Disable, Link!vars

LEMMA StepIsLinkStep ==
  ASSUME TypeOK, [Next]_vars
  PROVE  [Link!Next]_Link!vars
  <1>1. CASE EnableLink
    BY <1>1, CommandIsStep DEF EnableLink, DriverDirectCommand, envVars
  <1>2. CASE RestartDisablesLink
    BY <1>2, CommandIsStep DEF RestartDisablesLink, DriverDirectCommand, envVars
  <1>3. CASE IpThreadInitializes
    BY <1>3, CommandIsStep
    DEF TypeOK, IpThreadInitializes, envVars, DriverAfterEnable, DriverAfterDisable,
        Link!Next, Link!Initialize, Link!vars
  <1>4. CASE LinkChanges
    BY <1>4 DEF LinkChanges, Link!Next, Link!LinkChanges
  <1>5. CASE UNCHANGED <<driver, phy>>
    BY <1>5 DEF Link!vars
  <1>6. [Next]_vars => \/ EnableLink \/ RestartDisablesLink \/ IpThreadInitializes
                       \/ LinkChanges \/ UNCHANGED <<driver, phy>>
    BY DEF Next, vars, ThreadNext, CreateService, AwaitInit, LinkIsUp, LinkIsDown,
           AddressIsResolved, IpSet, AddressIsMissing, ThreadStopsDhcp,
           ThreadReinitializesDhcp, ThreadStartsDhcp, SetStaticAddress,
           SetStaticGateway, WakeUp, ServerAnswers, DhcpNext, DhcpDiscover, DhcpOffer,
           DhcpAck, DhcpAckGateway, DhcpNack, LeaseExpires, AppWaitsForIp, AppRestart,
           RestartNext, RestartStopsDhcp, RestartClearsAddress, RestartClearsGateway,
           envVars, threadVars
  <1>7. QED  BY <1>1, <1>2, <1>3, <1>4, <1>5, <1>6

(* Boot, thread and restart() use the driver as LinkDriver specifies it.   *)
THEOREM DriverUsedAsSpecified == SafeSpec => UsesLinkDriver
  <1>1. Init => Link!Init
    BY ConfigAssumption DEF Init, Link!Init
  <1>2. IInv /\ [Next]_vars => [Link!Next]_Link!vars
    BY StepIsLinkStep DEF IInv
  <1>3. QED  BY <1>1, <1>2, Invariance, PTL DEF SafeSpec, UsesLinkDriver, Link!Spec

(* The DHCP client can always take back the address it has set. *)
THEOREM LeaseRemembered == SafeSpec => []LeaseIsRemembered
  <1>1. IInv => LeaseIsRemembered  BY DEF IInv
  <1>2. QED                        BY <1>1, Invariance, PTL
=============================================================================
