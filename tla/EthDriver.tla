----------------------------- MODULE EthDriver ------------------------------
(***************************************************************************)
(* The commands of src/src/Driver/nx_stm32_eth_driver.c that change the    *)
(* state of the driver: NX_LINK_INITIALIZE, NX_LINK_ENABLE,                *)
(* NX_LINK_DISABLE, NX_LINK_MULTICAST_JOIN and NX_LINK_MULTICAST_LEAVE,    *)
(* with the functions of the HAL they call.  NetX gives one command at a   *)
(* time (nx_ip_protection), but the error interrupt of the DMA comes at    *)
(* any moment and writes gState too, so the HAL's start and stop are       *)
(* several steps.                                                          *)
(*                                                                         *)
(* A command that is refused changes nothing and is no action.             *)
(* NX_LINK_GET_STATUS and NX_INTERFACE_CAPABILITY_GET only read.  Sending  *)
(* is in TxRing, NX_LINK_DEFERRED_PROCESSING in DeferredEvents and RxRing. *)
(***************************************************************************)
EXTENDS Naturals, FiniteSets

CONSTANTS
  Groups,      \* multicast groups an application may join
  MaxGroups,   \* NX_MAX_MULTICAST_GROUPS
  MaxJoins,    \* bound on the joins of one group
  Wrap,        \* 2^32: a ULONG counter wraps there
  Modes,       \* the modes a PHY negotiates: speed and duplex
  DefaultMode, \* 100 Mbit/s, full duplex
  Faults,      \* whether the DMA may meet a fatal bus error
  EarlyJoins   \* whether groups are joined before the driver is initialised

ASSUME DriverAssumption ==
  /\ IsFiniteSet(Groups)
  /\ MaxGroups \in Nat /\ MaxJoins \in Nat \ {0}
  /\ Wrap \in Nat /\ Wrap > Cardinality(Groups)
  /\ DefaultMode \in Modes
  /\ "down" \notin Modes /\ "negotiating" \notin Modes
  /\ Faults \in BOOLEAN /\ EarlyJoins \in BOOLEAN

VARIABLES
  state,   \* nx_driver_information_state
  linkUp,  \* nx_ip_driver_link_up of the IP instance
  step,    \* where a command is that takes several steps
  gState,  \* eth_handle.gState
  dma,     \* the ST and SR bits: the DMA is told to run
  irq,     \* the interrupts of the DMA are enabled
  fault,   \* FBES, the fatal bus error; nothing clears it
  phy,     \* what nx_eth_phy_get_link_state returns
  mac,     \* speed and duplex mode of the MAC
  joined,  \* nx_ipv4_multicast_join_count of each group
  count,   \* nx_driver_information_multicast_count
  config,  \* FilterConfig
  filter   \* the filter register of the MAC

haltVars == <<step, gState, dma, irq, fault>>
mcVars   == <<joined, count, config, filter>>
vars     == <<state, linkUp, haltVars, phy, mac, mcVars>>

\* PassAllMulticast and BroadcastFilter.
Filters == [multicast : BOOLEAN, broadcast : BOOLEAN]

TypeOK ==
  /\ state \in {"NOT_INITIALIZED", "INITIALIZED", "LINK_ENABLED"}
  /\ step \in {"idle", "starting", "running", "stopping"}
  /\ gState \in {"READY", "BUSY", "STARTED", "ERROR"}
  /\ linkUp \in BOOLEAN /\ dma \in BOOLEAN /\ irq \in BOOLEAN
  /\ fault \in BOOLEAN
  /\ phy \in Modes \union {"down", "negotiating"}
  /\ mac \in Modes
  /\ joined \in [Groups -> 0..MaxJoins]
  /\ count \in 0..Wrap - 1
  /\ config \in Filters /\ filter \in Filters

(* After HAL_ETH_Init and NX_LINK_INTERFACE_ATTACH.  FilterConfig is a     *)
(* static variable without initialiser; the register is reset.             *)
Init ==
  /\ state = "NOT_INITIALIZED" /\ linkUp = FALSE
  /\ step = "idle" /\ gState = "READY"
  /\ dma = FALSE /\ irq = FALSE /\ fault = FALSE
  /\ phy \in Modes \union {"down", "negotiating"}
  /\ mac = DefaultMode
  /\ joined = [g \in Groups |-> 0] /\ count = 0
  /\ config = [multicast |-> FALSE, broadcast |-> FALSE]
  /\ filter = [multicast |-> FALSE, broadcast |-> TRUE]
-----------------------------------------------------------------------------
(* NX_LINK_INITIALIZE.  FilterConfig is set, the register is not. *)
Initialize ==
  /\ state = "NOT_INITIALIZED"
  /\ state' = "INITIALIZED"
  /\ count' = 0
  /\ config' = [multicast |-> FALSE, broadcast |-> TRUE]
  /\ UNCHANGED <<linkUp, haltVars, phy, mac, joined, filter>>

\* A PHY that negotiates still is taken for one in the default mode.
ModeOf(link) == IF link \in Modes THEN link ELSE DefaultMode

(* Mutant of EnableStarts: a link that is down is enabled. *)
EnableStartsAnyhow ==
  /\ step = "idle" /\ state = "INITIALIZED"
  /\ gState = "READY"
  /\ gState' = "BUSY"
  /\ mac' = ModeOf(phy)
  /\ step' = "starting"
  /\ UNCHANGED <<state, linkUp, dma, irq, fault, phy, mcVars>>

(* NX_LINK_ENABLE: the MAC gets the mode of the PHY and HAL_ETH_Start_IT   *)
(* begins.                                                                 *)
EnableStarts ==
  /\ step = "idle" /\ state = "INITIALIZED"
  /\ phy # "down"
  /\ gState = "READY"
  /\ gState' = "BUSY"
  /\ mac' = ModeOf(phy)
  /\ step' = "starting"
  /\ UNCHANGED <<state, linkUp, dma, irq, fault, phy, mcVars>>

(* Mutant of EnableIsIgnored: HAL_ETH_SetMACConfig does not refuse. *)
EnableSetsMode ==
  /\ step = "idle" /\ state = "INITIALIZED"
  /\ phy # "down"
  /\ gState # "READY"
  /\ mac' = ModeOf(phy)
  /\ state' = "LINK_ENABLED"
  /\ linkUp' = TRUE
  /\ UNCHANGED <<haltVars, phy, mcVars>>

(* Both HAL functions refuse in another state, but                         *)
(* _nx_driver_hardware_enable does not look at what they return.           *)
EnableIsIgnored ==
  /\ step = "idle" /\ state = "INITIALIZED"
  /\ phy # "down"
  /\ gState # "READY"
  /\ state' = "LINK_ENABLED"
  /\ linkUp' = TRUE
  /\ UNCHANGED <<haltVars, phy, mac, mcVars>>

(* HAL_ETH_Start_IT: the DMA runs, its interrupts are enabled ... *)
StartsDma ==
  /\ step = "starting"
  /\ dma' = TRUE /\ irq' = TRUE
  /\ step' = "running"
  /\ UNCHANGED <<state, linkUp, gState, fault, phy, mac, mcVars>>

(* ... and gState tells so; then the driver's own state does. *)
EnableEnds ==
  /\ step = "running"
  /\ gState' = "STARTED"
  /\ state' = "LINK_ENABLED"
  /\ linkUp' = TRUE
  /\ step' = "idle"
  /\ UNCHANGED <<dma, irq, fault, phy, mac, mcVars>>

(* NX_LINK_DISABLE calls HAL_ETH_Stop ... *)
DisableStops ==
  /\ step = "idle" /\ state = "LINK_ENABLED"
  /\ gState = "STARTED"
  /\ gState' = "BUSY"
  /\ step' = "stopping"
  /\ UNCHANGED <<state, linkUp, dma, irq, fault, phy, mac, mcVars>>

(* Mutant of DisableEnds: the DMA goes on. *)
DisableEndsRunning ==
  /\ step = "stopping"
  /\ gState' = "READY"
  /\ state' = "INITIALIZED"
  /\ linkUp' = FALSE
  /\ step' = "idle"
  /\ UNCHANGED <<dma, irq, fault, phy, mac, mcVars>>

(* ... which stops the DMA, but leaves its interrupts enabled. *)
DisableEnds ==
  /\ step = "stopping"
  /\ dma' = FALSE
  /\ gState' = "READY"
  /\ state' = "INITIALIZED"
  /\ linkUp' = FALSE
  /\ step' = "idle"
  /\ UNCHANGED <<irq, fault, phy, mac, mcVars>>

(* HAL_ETH_Stop refuses, and _nx_driver_hardware_disable does not look. *)
DisableIsIgnored ==
  /\ step = "idle" /\ state = "LINK_ENABLED"
  /\ gState # "STARTED"
  /\ state' = "INITIALIZED"
  /\ linkUp' = FALSE
  /\ UNCHANGED <<haltVars, phy, mac, mcVars>>
-----------------------------------------------------------------------------
\* The groups NetX has registered with the driver.
Registered == {g \in Groups : joined[g] > 0}

(* NetX asks the driver for the first join of a group only, and refuses it *)
(* when its table is full.                                                 *)
JoinAgain(g) ==
  /\ step = "idle"
  /\ joined[g] \in 1..MaxJoins - 1
  /\ joined' = [joined EXCEPT ![g] = @ + 1]
  /\ UNCHANGED <<state, linkUp, haltVars, phy, mac, count, config, filter>>

(* Mutant of Join: only the first group is counted. *)
JoinUncounted(g) ==
  /\ step = "idle"
  /\ state = "NOT_INITIALIZED" => EarlyJoins
  /\ joined[g] = 0
  /\ Cardinality(Registered) < MaxGroups
  /\ joined' = [joined EXCEPT ![g] = 1]
  /\ count' = IF config.multicast THEN count ELSE count + 1
  /\ config' = [config EXCEPT !.multicast = TRUE]
  /\ filter' = config'
  /\ UNCHANGED <<state, linkUp, haltVars, phy, mac>>

(* NX_LINK_MULTICAST_JOIN. *)
Join(g) ==
  /\ step = "idle"
  /\ state = "NOT_INITIALIZED" => EarlyJoins
  /\ joined[g] = 0
  /\ Cardinality(Registered) < MaxGroups
  /\ joined' = [joined EXCEPT ![g] = 1]
  /\ count' = IF count = Wrap - 1 THEN 0 ELSE count + 1
  /\ config' = [config EXCEPT !.multicast = TRUE]
  /\ filter' = config'
  /\ UNCHANGED <<state, linkUp, haltVars, phy, mac>>

(* Mutant of LeaveOnce: a group that was not joined is left. *)
LeaveUnjoined(g) ==
  /\ step = "idle"
  /\ joined[g] # 1
  /\ joined' = [joined EXCEPT ![g] = @ - 1]
  /\ UNCHANGED <<state, linkUp, haltVars, phy, mac, count, config, filter>>

LeaveOnce(g) ==
  /\ step = "idle"
  /\ joined[g] > 1
  /\ joined' = [joined EXCEPT ![g] = @ - 1]
  /\ UNCHANGED <<state, linkUp, haltVars, phy, mac, count, config, filter>>

(* NX_LINK_MULTICAST_LEAVE, when the last join of a group is undone. *)
Leave(g) ==
  /\ step = "idle"
  /\ joined[g] = 1
  /\ joined' = [joined EXCEPT ![g] = 0]
  /\ count' = IF count = 0 THEN Wrap - 1 ELSE count - 1
  /\ IF count' = 0
     THEN /\ config' = [config EXCEPT !.multicast = FALSE]
          /\ filter' = config'
     ELSE UNCHANGED <<config, filter>>
  /\ UNCHANGED <<state, linkUp, haltVars, phy, mac>>
-----------------------------------------------------------------------------
(* The hardware: the PHY finds, negotiates and loses the link; the DMA     *)
(* meets a fatal bus error, which halts it.                                *)
PhyChanges ==
  /\ phy' \in (Modes \union {"down", "negotiating"}) \ {phy}
  /\ UNCHANGED <<state, linkUp, haltVars, mac, mcVars>>

DmaFaults ==
  /\ Faults
  /\ dma /\ ~fault
  /\ fault' = TRUE
  /\ UNCHANGED <<state, linkUp, step, gState, dma, irq, phy, mac, mcVars>>

(* HAL_ETH_IRQHandler, for the fatal bus error. *)
IsrError ==
  /\ irq /\ fault
  /\ gState' = "ERROR"
  /\ irq' = FALSE
  /\ UNCHANGED <<state, linkUp, step, dma, fault, phy, mac, mcVars>>

Next ==
  \/ Initialize
  \/ EnableStarts \/ EnableIsIgnored \/ StartsDma \/ EnableEnds
  \/ DisableStops \/ DisableEnds \/ DisableIsIgnored
  \/ \E g \in Groups : JoinAgain(g) \/ Join(g) \/ LeaveOnce(g) \/ Leave(g)
  \/ PhyChanges \/ DmaFaults \/ IsrError

Spec == Init /\ [][Next]_vars
-----------------------------------------------------------------------------
(* Between two commands, and as long as the bus works, the link is enabled *)
(* exactly when MAC and DMA run and NetX is told so.  The driver keeps     *)
(* this in four places, three of which the HAL or the interrupt writes.    *)
EnabledIsRunning ==
  step = "idle" /\ ~fault =>
    /\ gState = IF state = "LINK_ENABLED" THEN "STARTED" ELSE "READY"
    /\ dma <=> state = "LINK_ENABLED"
    /\ linkUp <=> state = "LINK_ENABLED"
    /\ dma => irq

(* The driver's own counter, which nothing guards against underflow,       *)
(* counts the groups in the table of NetX, and the MAC takes multicast     *)
(* frames while there is one.  Broadcast frames, which ARP and DHCP need,  *)
(* always pass.                                                            *)
FilterMatchesGroups ==
  /\ state # "NOT_INITIALIZED" => count = Cardinality(Registered)
  /\ filter.multicast <=> Registered # {}
  /\ filter.broadcast

(* Speed and duplex mode of the MAC never change under a running DMA, not  *)
(* even when stop and start race with the error interrupt.                 *)
ModeChangesStopped == [][mac' # mac => ~dma]_vars

(* The commands, which take several steps and race with the interrupt and  *)
(* the cable, look to NetX as LinkDriver says: the link counts as enabled  *)
(* from the moment the PHY was asked.                                      *)
Link == INSTANCE LinkDriver WITH
  driver <- IF step \in {"starting", "running"} THEN "LINK_ENABLED" ELSE state,
  phy    <- IF phy = "down" THEN "down" ELSE "up"

ImplementsLinkDriver == Link!Spec
=============================================================================
