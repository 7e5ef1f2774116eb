--------------------------- MODULE DeferredEvents ---------------------------
(***************************************************************************)
(* The handshake between the Ethernet interrupt and the NetX IP helper     *)
(* thread, src/src/Driver/nx_stm32_eth_driver.c.                           *)
(*                                                                         *)
(* The DMA completes descriptors and latches the RS and TS bits of its     *)
(* status register.  HAL_ETH_IRQHandler turns a latched bit into a call of *)
(* HAL_ETH_RxCpltCallback or HAL_ETH_TxCpltCallback; a callback records    *)
(* the event in nx_driver_information_deferred_events and signals the IP   *)
(* thread, but only when no event was recorded before.  The IP thread      *)
(* takes its event flags, then the IP mutex, and calls the driver, which   *)
(* swaps the recorded events for zero and works the two rings off.         *)
(*                                                                         *)
(* What the rings hold is abstracted to counters: rxDone frames to read,   *)
(* txQueued packets the DMA owns, txDone packets to release.  RxRing       *)
(* implements rxDone in detail.  A frame read is put in the queue the IP   *)
(* thread itself works off at its next round (NetX keeps one such queue    *)
(* for IP and one for ARP, of the same shape; one is modelled).            *)
(*                                                                         *)
(* There is one core: a thread makes no step while the interrupt handler   *)
(* runs, whereas the DMA makes its steps at any time.                      *)
(***************************************************************************)
EXTENDS Naturals

CONSTANTS
  RxLimit,  \* packets of the pool that reception can occupy
  TxLimit   \* packets the transmit ring can hold

ASSUME LimitAssumption == RxLimit \in Nat /\ TxLimit \in Nat

VARIABLES
  rs,              \* ETH_DMASR_RS: receive status latched by the DMA
  ts,              \* ETH_DMASR_TS: transmit status latched by the DMA
  isr,             \* where HAL_ETH_IRQHandler is: "none", "rx" or "tx"
  deferredEvents,  \* nx_driver_information_deferred_events
  ipEvents,        \* the event flags group nx_ip_events
  ip,              \* where the IP thread is
  got,             \* ip_events, the IP thread's copy of the flags it took
  taken,           \* deferred_events, the driver's copy of what it swapped out
  mutex,           \* owner of nx_ip_protection: "free", "ip" or "app"
  rxDone,          \* completed frames not yet read
  rxQueue,         \* frames in nx_ip_deferred_received_packet's queue
  txQueued,        \* packets owned by the DMA
  txDone           \* transmitted packets not yet released

isrVars == <<rs, ts, isr>>
ipVars  == <<ip, got, taken, mutex>>
rxVars  == <<rxDone, rxQueue>>
txVars  == <<txQueued, txDone>>
vars == <<isrVars, deferredEvents, ipEvents, ipVars, rxVars, txVars>>

RECEIVED    == "PACKET_RECEIVED"     \* NX_DRIVER_DEFERRED_PACKET_RECEIVED
TRANSMITTED == "PACKET_TRANSMITTED"  \* NX_DRIVER_DEFERRED_PACKET_TRANSMITTED
DEFERRED    == "DRIVER_DEFERRED"     \* NX_IP_DRIVER_DEFERRED_EVENT
RECEIVE     == "IP_RECEIVE"          \* NX_IP_RECEIVE_EVENT
PERIODIC    == "PERIODIC"            \* any other flag of nx_ip_events

Events  == {RECEIVED, TRANSMITTED}
IpFlags == {DEFERRED, RECEIVE, PERIODIC}
IpSteps == {"wait", "lock", "process", "deferred",
            "release", "receive", "unlock"}

TypeOK ==
  /\ rs \in BOOLEAN /\ ts \in BOOLEAN
  /\ isr \in {"none", "rx", "tx"}
  /\ deferredEvents \in SUBSET Events
  /\ ipEvents \in SUBSET IpFlags
  /\ ip \in IpSteps
  /\ got \in SUBSET IpFlags
  /\ taken \in SUBSET Events
  /\ mutex \in {"free", "ip", "app"}
  /\ rxDone \in 0..RxLimit /\ rxQueue \in 0..RxLimit
  /\ txQueued \in 0..TxLimit /\ txDone \in 0..TxLimit

(* The driver was initialised and enabled; the IP thread enters its loop. *)
Init ==
  /\ rs = FALSE /\ ts = FALSE /\ isr = "none"
  /\ deferredEvents = {} /\ ipEvents = {}
  /\ ip = "wait" /\ got = {} /\ taken = {} /\ mutex = "free"
  /\ rxDone = 0 /\ rxQueue = 0 /\ txQueued = 0 /\ txDone = 0
-----------------------------------------------------------------------------
(* The DMA closes a descriptor: it clears OWN and latches the status bit. *)
(* A frame needs a packet of the pool, and queued frames keep theirs.     *)
RxComplete ==
  /\ rxDone + rxQueue < RxLimit
  /\ rxDone' = rxDone + 1
  /\ rs' = TRUE
  /\ UNCHANGED <<ts, isr, deferredEvents, ipEvents, ipVars, rxQueue, txVars>>

TxComplete ==
  /\ txQueued > 0
  /\ txQueued' = txQueued - 1
  /\ txDone' = txDone + 1
  /\ ts' = TRUE
  /\ UNCHANGED <<rs, isr, deferredEvents, ipEvents, ipVars, rxVars>>
-----------------------------------------------------------------------------
(* HAL_ETH_RxCpltCallback, HAL_ETH_TxCpltCallback: record the event; call  *)
(* _nx_ip_driver_deferred_processing when nothing was recorded before.     *)
CpltCallback(event) ==
  /\ deferredEvents' = deferredEvents \union {event}
  /\ ipEvents' = IF deferredEvents = {} THEN ipEvents \union {DEFERRED}
                                        ELSE ipEvents

IsrEnter ==
  /\ isr = "none"
  /\ rs \/ ts
  /\ isr' = "rx"
  /\ UNCHANGED <<rs, ts, deferredEvents, ipEvents, ipVars, rxVars, txVars>>

(* The "Packet received" part of HAL_ETH_IRQHandler. *)
IsrRx ==
  /\ isr = "rx"
  /\ isr' = "tx"
  /\ \/ /\ rs
        /\ rs' = FALSE
        /\ CpltCallback(RECEIVED)
     \/ /\ ~rs
        /\ UNCHANGED <<rs, deferredEvents, ipEvents>>
  /\ UNCHANGED <<ts, ipVars, rxVars, txVars>>

(* The "Packet transmitted" part of HAL_ETH_IRQHandler. *)
IsrTx ==
  /\ isr = "tx"
  /\ isr' = "none"
  /\ \/ /\ ts
        /\ ts' = FALSE
        /\ CpltCallback(TRANSMITTED)
     \/ /\ ~ts
        /\ UNCHANGED <<ts, deferredEvents, ipEvents>>
  /\ UNCHANGED <<rs, ipVars, rxVars, txVars>>
-----------------------------------------------------------------------------
(* Another thread or a timer sets some other flag of nx_ip_events. *)
RaisePeriodic ==
  /\ isr = "none"
  /\ ipEvents' = ipEvents \union {PERIODIC}
  /\ UNCHANGED <<isrVars, deferredEvents, ipVars, rxVars, txVars>>

(* Mutant of AppGetMutex: a NetX call does not wait for the mutex. *)
AppGetMutexUnprotected ==
  /\ isr = "none"
  /\ mutex' = "app"
  /\ UNCHANGED <<isrVars, deferredEvents, ipEvents, ip, got, taken, rxVars, txVars>>

(* A thread inside a NetX call holds nx_ip_protection; tx_mutex_put hands  *)
(* the mutex to the thread suspended on it.                                *)
AppGetMutex ==
  /\ isr = "none"
  /\ mutex = "free"
  /\ mutex' = "app"
  /\ UNCHANGED <<isrVars, deferredEvents, ipEvents, ip, got, taken, rxVars, txVars>>

(* Mutant of Send: a full ring is not reported busy. *)
SendUnchecked ==
  /\ isr = "none"
  /\ mutex = "app" \/ ip = "process"
  /\ txQueued' = txQueued + 1
  /\ UNCHANGED <<isrVars, deferredEvents, ipEvents, ipVars, rxVars, txDone>>

(* The driver's packet_send, called under nx_ip_protection by another      *)
(* thread or by the IP thread itself while it processes what it received.  *)
Send ==
  /\ isr = "none"
  /\ mutex = "app" \/ ip = "process"
  /\ txQueued + txDone < TxLimit
  /\ txQueued' = txQueued + 1
  /\ UNCHANGED <<isrVars, deferredEvents, ipEvents, ipVars, rxVars, txDone>>

AppPutMutex ==
  /\ isr = "none"
  /\ mutex = "app"
  /\ \/ ip = "lock" /\ mutex' = "ip" /\ ip' = "process"
     \/ ip # "lock" /\ mutex' = "free" /\ UNCHANGED ip
  /\ UNCHANGED <<isrVars, deferredEvents, ipEvents, got, taken, rxVars, txVars>>
-----------------------------------------------------------------------------
(* tx_event_flags_get(NX_IP_ALL_EVENTS, TX_OR_CLEAR) returns. *)
IpGetEvents ==
  /\ isr = "none"
  /\ ip = "wait"
  /\ ipEvents # {}
  /\ got' = ipEvents
  /\ ipEvents' = {}
  /\ ip' = "lock"
  /\ UNCHANGED <<isrVars, deferredEvents, taken, mutex, rxVars, txVars>>

IpGetMutex ==
  /\ isr = "none"
  /\ ip = "lock"
  /\ mutex = "free"
  /\ mutex' = "ip"
  /\ ip' = "process"
  /\ UNCHANGED <<isrVars, deferredEvents, ipEvents, got, taken, rxVars, txVars>>

(* Mutant of IpProcess: the loop continues after the receive event even    *)
(* when other events were taken with it.                                   *)
IpProcessReceiveOnly ==
  /\ isr = "none"
  /\ ip = "process"
  /\ rxQueue' = IF RECEIVE \in got THEN 0 ELSE rxQueue
  /\ ip' = IF DEFERRED \in got /\ RECEIVE \notin got THEN "deferred" ELSE "unlock"
  /\ UNCHANGED <<isrVars, deferredEvents, ipEvents, got, taken, mutex, rxDone, txVars>>

(* The IP thread works off the events it took: the queue of received       *)
(* frames, others, and the driver's deferred processing last.              *)
IpProcess ==
  /\ isr = "none"
  /\ ip = "process"
  /\ rxQueue' = IF RECEIVE \in got THEN 0 ELSE rxQueue
  /\ ip' = IF DEFERRED \in got THEN "deferred" ELSE "unlock"
  /\ UNCHANGED <<isrVars, deferredEvents, ipEvents, got, taken, mutex, rxDone, txVars>>

(* Mutant of IpSwapEvents: only the transmit bit is cleared. *)
IpSwapEventsTxOnly ==
  /\ isr = "none"
  /\ ip = "deferred"
  /\ taken' = deferredEvents
  /\ deferredEvents' = deferredEvents \ {TRANSMITTED}
  /\ ip' = "release"
  /\ UNCHANGED <<isrVars, ipEvents, got, mutex, rxVars, txVars>>

(* Mutant of IpSwapEvents: a transmit event hides a receive event. *)
IpSwapEventsElse ==
  /\ isr = "none"
  /\ ip = "deferred"
  /\ taken' = IF TRANSMITTED \in deferredEvents THEN {TRANSMITTED} ELSE deferredEvents
  /\ deferredEvents' = {}
  /\ ip' = "release"
  /\ UNCHANGED <<isrVars, ipEvents, got, mutex, rxVars, txVars>>

(* _nx_driver_deferred_processing between TX_DISABLE and TX_RESTORE. *)
IpSwapEvents ==
  /\ isr = "none"
  /\ ip = "deferred"
  /\ taken' = deferredEvents
  /\ deferredEvents' = {}
  /\ ip' = "release"
  /\ UNCHANGED <<isrVars, ipEvents, got, mutex, rxVars, txVars>>

(* HAL_ETH_ReleaseTxPacket, one packet; and the end of its loop.  The loop *)
(* also stops at a packet the DMA still owns, which may lie in front of    *)
(* one that is sent (see TxRing).                                          *)
IpReleasePacket ==
  /\ isr = "none"
  /\ ip = "release"
  /\ TRANSMITTED \in taken
  /\ txDone > 0
  /\ txDone' = txDone - 1
  /\ UNCHANGED <<isrVars, deferredEvents, ipEvents, ipVars, rxVars, txQueued>>

IpReleaseEnd ==
  /\ isr = "none"
  /\ ip = "release"
  /\ TRANSMITTED \in taken => txDone = 0 \/ txQueued > 0
  /\ ip' = "receive"
  /\ UNCHANGED <<isrVars, deferredEvents, ipEvents, got, taken, mutex, rxVars, txVars>>

(* _nx_driver_hardware_packet_received, one frame; and the end of its loop. *)
(* _nx_driver_transfer_to_netx queues the frame, and the first one queued   *)
(* signals the IP thread; a frame of an unknown type is released at once.   *)
IpReceivePacket ==
  /\ isr = "none"
  /\ ip = "receive"
  /\ RECEIVED \in taken
  /\ rxDone > 0
  /\ rxDone' = rxDone - 1
  /\ \/ /\ rxQueue' = rxQueue + 1
        /\ ipEvents' = IF rxQueue = 0 THEN ipEvents \union {RECEIVE} ELSE ipEvents
     \/ UNCHANGED <<rxQueue, ipEvents>>
  /\ UNCHANGED <<isrVars, deferredEvents, ipVars, txVars>>

IpReceiveEnd ==
  /\ isr = "none"
  /\ ip = "receive"
  /\ RECEIVED \in taken => rxDone = 0
  /\ ip' = "unlock"
  /\ UNCHANGED <<isrVars, deferredEvents, ipEvents, got, taken, mutex, rxVars, txVars>>

(* The top of the loop of _nx_ip_thread_entry: tx_mutex_put. *)
IpPutMutex ==
  /\ isr = "none"
  /\ ip = "unlock"
  /\ mutex' = "free"
  /\ ip' = "wait"
  /\ got' = {}
  /\ taken' = {}
  /\ UNCHANGED <<isrVars, deferredEvents, ipEvents, rxVars, txVars>>
-----------------------------------------------------------------------------
Dma == RxComplete \/ TxComplete
Isr == IsrEnter \/ IsrRx \/ IsrTx
App == RaisePeriodic \/ AppGetMutex \/ AppPutMutex \/ Send
Ip  == \/ IpGetEvents \/ IpGetMutex \/ IpProcess \/ IpSwapEvents
       \/ IpReleasePacket \/ IpReleaseEnd
       \/ IpReceivePacket \/ IpReceiveEnd \/ IpPutMutex

Next == Dma \/ Isr \/ App \/ Ip

(* A pending interrupt is taken, a ready thread gets the core and a thread *)
(* leaves the NetX call it is in.  The DMA and the timers promise nothing. *)
Fairness ==
  /\ WF_vars(Isr)
  /\ WF_vars(Ip)
  /\ WF_vars(AppPutMutex)

SafeSpec == Init /\ [][Next]_vars
Spec == SafeSpec /\ Fairness
-----------------------------------------------------------------------------
(* No lost wakeup and no redundant one: an event is recorded just while    *)
(* the IP thread has been signalled and has not swapped the events out.    *)
(* The callbacks signal only the first event, so a flag lost once would be *)
(* lost for ever.                                                          *)
EventsAreSignalled ==
  deferredEvents # {} <=>
    \/ DEFERRED \in ipEvents
    \/ ip \in {"lock", "process", "deferred"} /\ DEFERRED \in got

(* No forgotten frame: a completed frame always has a notice ahead of the  *)
(* reader, the latched bit, the recorded event or the running read loop.   *)
FramesAreNoticed ==
  rxDone > 0 =>
    \/ rs
    \/ RECEIVED \in deferredEvents
    \/ ip \in {"release", "receive"} /\ RECEIVED \in taken

(* No forgotten packet: likewise for a transmitted packet to release, or   *)
(* the DMA owns another packet, whose interrupt brings the loop back.      *)
PacketsAreNoticed ==
  txDone > 0 =>
    \/ ts
    \/ TRANSMITTED \in deferredEvents
    \/ ip = "release" /\ TRANSMITTED \in taken
    \/ txQueued > 0

(* The queue the frames go to is signalled once too, by its first frame:   *)
(* while it holds a frame the IP thread is on its way to it.               *)
QueueIsSignalled ==
  rxQueue > 0 =>
    \/ RECEIVE \in ipEvents
    \/ ip \in {"lock", "process"} /\ RECEIVE \in got

(* Nothing that waits is forgotten: each of the three stages between the   *)
(* DMA and NetX has a notice ahead of the loop that works it off.          *)
WorkIsNoticed == FramesAreNoticed /\ PacketsAreNoticed /\ QueueIsSignalled

(* The driver runs its deferred part under the IP mutex only, which is     *)
(* what keeps packet_send out of HAL_ETH_ReleaseTxPacket.                  *)
DeferredUnderMutex ==
  ip \in {"process", "deferred", "release", "receive", "unlock"} <=> mutex = "ip"

(* One interrupt is enough for frames: they are worked off as DeferredWork *)
(* promises, however interrupts, the swap of the events and the loops      *)
(* interleave.  For packets it is enough when the DMA owns no other: the   *)
(* loop leaves a sent packet only with an interrupt still to come.  That   *)
(* one is acted on as long as the read loop ends: frames of unknown type   *)
(* arriving faster than they are read keep the IP thread in                *)
(* _nx_driver_hardware_packet_received.                                    *)
Frames == INSTANCE DeferredWork WITH
  done    <- rxDone,
  event   <- rs \/ RECEIVED \in deferredEvents,
  working <- ip \in {"release", "receive"} /\ RECEIVED \in taken,
  ahead   <- FALSE

Transmissions == INSTANCE DeferredWork WITH
  done    <- txDone,
  event   <- ts \/ TRANSMITTED \in deferredEvents,
  working <- ip = "release" /\ TRANSMITTED \in taken,
  ahead   <- txQueued > 0

WorkIsServed ==
  /\ Frames!Spec
  /\ Transmissions!SafeSpec
  /\ []<>(ip = "wait") => Transmissions!Fairness
=============================================================================
