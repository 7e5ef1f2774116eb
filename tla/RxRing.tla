------------------------------- MODULE RxRing -------------------------------
(***************************************************************************)
(* Reception: the ring of DMA descriptors that HAL_ETH_ReadData and        *)
(* ETH_UpdateDescriptor of stm32f4xx_hal_eth.c work on, and the callbacks  *)
(* of src/src/Driver/nx_stm32_eth_driver.c that take the buffers from the  *)
(* packet pool and chain them.                                             *)
(*                                                                         *)
(* The DMA fills the descriptors it owns, one after the other; a frame     *)
(* takes one buffer, or two when it is longer than a buffer.  The IP       *)
(* thread, told by a deferred event (DeferredEvents), walks over the       *)
(* descriptors it got back, chains their buffers until a frame is          *)
(* complete, gives new buffers to the ring, delivers the frame and walks   *)
(* on.  The DMA goes on in the meantime, so each turn of the two loops is  *)
(* a step of its own.  Start and stop of the driver need the IP mutex and  *)
(* happen between two calls.                                               *)
(***************************************************************************)
EXTENDS Naturals, FiniteSets

CONSTANTS
  N,          \* ETH_RX_DESC_CNT
  Packets,    \* the packets of the pool
  NoPacket,   \* the null pointer
  MaxFrames   \* bound on the frames of the wire

ASSUME RingAssumption ==
  /\ N \in Nat /\ N >= 2
  /\ NoPacket \notin Packets
  /\ MaxFrames \in Nat

VARIABLES
  own,        \* descriptors with ETH_DMARXDESC_OWN
  first,      \* descriptors with ETH_DMARXDESC_FS
  last,       \* descriptors with ETH_DMARXDESC_LS
  buf,        \* BackupAddr0 of each descriptor
  desc2,      \* DESC2 of each descriptor, where the DMA writes
  content,    \* the frame whose data a packet brings to NetX, or 0
  dma,        \* the descriptor the DMA uses next
  arriving,   \* the frame that is in the middle of its reception, or 0
  nextFrame,  \* the next frame of the wire
  event,      \* NX_DRIVER_DEFERRED_PACKET_RECEIVED is recorded
  started,    \* the driver was started, and not stopped since
  halted,     \* gState is HAL_ETH_STATE_ERROR: the DMA met a fatal bus error
  dirty,      \* history: it was stopped while the ring was not at rest
  rd,         \* where the IP thread is
  idx,        \* RxDescIdx
  cnt,        \* desccnt of HAL_ETH_ReadData
  ready,      \* rxdataready of HAL_ETH_ReadData
  buildIdx,   \* RxBuildDescIdx
  buildCnt,   \* RxBuildDescCnt
  chain,      \* the packets linked from pRxStart
  pool,       \* free packets
  stack,      \* packets in the hands of NetX and the application
  delivered   \* the frames in the packet delivered last

dmaVars   == <<first, last, content, dma, arriving, nextFrame>>
readVars  == <<idx, cnt, ready>>
buildVars == <<buildIdx, buildCnt>>
bufVars   == <<buf, desc2>>
driverVars == <<started, halted, dirty>>
vars == <<own, dmaVars, bufVars, event, driverVars, rd, readVars, buildVars, chain,
          pool, stack, delivered>>

Descriptors == 0..N-1
Succ(d)     == IF d = N - 1 THEN 0 ELSE d + 1

TypeOK ==
  /\ own \in SUBSET Descriptors
  /\ first \in SUBSET Descriptors
  /\ last \in SUBSET Descriptors
  /\ buf \in [Descriptors -> Packets \union {NoPacket}]
  /\ desc2 \in [Descriptors -> Packets \union {NoPacket}]
  /\ content \in [Packets -> 0..MaxFrames]
  /\ dma \in Descriptors
  /\ arriving \in 0..MaxFrames
  /\ nextFrame \in 1..MaxFrames + 1
  /\ event \in BOOLEAN /\ ready \in BOOLEAN
  /\ started \in BOOLEAN /\ halted \in BOOLEAN /\ dirty \in BOOLEAN
  /\ rd \in {"idle", "scan", "build", "start"}
  /\ idx \in Descriptors /\ buildIdx \in Descriptors
  /\ cnt \in 0..N /\ buildCnt \in 0..N
  /\ chain \in SUBSET Packets /\ pool \in SUBSET Packets
  /\ stack \in SUBSET Packets
  /\ delivered \in SUBSET (0..MaxFrames)

(* ETH_DMARxDescListInit: every descriptor is owned by the DMA, without a  *)
(* buffer; reception starts later.                                         *)
Init ==
  /\ own = Descriptors /\ first = {} /\ last = {}
  /\ buf = [d \in Descriptors |-> NoPacket] /\ desc2 = buf
  /\ content = [p \in Packets |-> 0]
  /\ dma = 0 /\ arriving = 0 /\ nextFrame = 1
  /\ event = FALSE /\ rd = "idle"
  /\ started = FALSE /\ halted = FALSE /\ dirty = FALSE
  /\ idx = 0 /\ cnt = 0 /\ ready = FALSE
  /\ buildIdx = 0 /\ buildCnt = 0
  /\ chain = {} /\ pool = Packets /\ stack = {} /\ delivered = {}
-----------------------------------------------------------------------------
\* The DMA receives.
DmaRuns == started /\ ~halted

(* The DMA writes data into the buffer of its descriptor and gives it      *)
(* back.  The data ends the frame unless another buffer is needed and at   *)
(* hand; the end of a frame is signalled.                                  *)
DmaFills(isLast) ==
  /\ DmaRuns
  /\ dma \in own /\ desc2[dma] # NoPacket
  /\ arriving = 0 => nextFrame <= MaxFrames
  /\ Succ(dma) \notin own => isLast
  /\ LET frame == IF arriving = 0 THEN nextFrame ELSE arriving
     IN /\ content' = [content EXCEPT ![desc2[dma]] = frame]
        /\ arriving' = IF isLast THEN 0 ELSE frame
  /\ nextFrame' = IF arriving = 0 THEN nextFrame + 1 ELSE nextFrame
  /\ first' = IF arriving = 0 THEN first \union {dma} ELSE first \ {dma}
  /\ last' = IF isLast THEN last \union {dma} ELSE last \ {dma}
  /\ own' = own \ {dma}
  /\ dma' = Succ(dma)
  /\ event' = (event \/ isLast)
  /\ UNCHANGED <<bufVars, driverVars, rd, readVars, buildVars, chain, pool, stack,
                 delivered>>

(* The descriptor is still as ETH_DMARxDescListInit left it: to write to   *)
(* address 0 is a fatal bus error.  The DMA halts, the interrupt handler   *)
(* sets HAL_ETH_STATE_ERROR, and the driver has no way out of that.        *)
DmaHalts ==
  /\ DmaRuns
  /\ dma \in own /\ desc2[dma] = NoPacket
  /\ arriving = 0 => nextFrame <= MaxFrames
  /\ halted' = TRUE
  /\ UNCHANGED <<own, dmaVars, bufVars, event, started, dirty, rd, readVars,
                 buildVars, chain, pool, stack, delivered>>

(* A frame is lost: no descriptor is owned (RBU).  HAL_ETH_ErrorCallback   *)
(* has nothing to do for that error.                                       *)
DmaLoses ==
  /\ DmaRuns
  /\ dma \notin own
  /\ arriving = 0 /\ nextFrame <= MaxFrames
  /\ nextFrame' = nextFrame + 1
  /\ UNCHANGED <<own, first, last, content, dma, arriving, bufVars, event, driverVars,
                 rd, readVars, buildVars, chain, pool, stack, delivered>>
-----------------------------------------------------------------------------
(* _nx_driver_hardware_packet_received calls HAL_ETH_ReadData, which       *)
(* refuses unless gState is HAL_ETH_STATE_STARTED.                         *)
ReadBegin ==
  /\ rd = "idle" /\ event
  /\ event' = FALSE
  /\ rd' = IF DmaRuns THEN "scan" ELSE "idle"
  /\ UNCHANGED <<own, dmaVars, bufVars, driverVars, readVars, buildVars, chain, pool,
                 stack, delivered>>

\* Mutant of ScanGoesOn: a descriptor the DMA still owns is taken.
ScanGoesOnOwned == cnt < N - buildCnt /\ ~ready

\* The condition of the loop of HAL_ETH_ReadData.
ScanGoesOn == idx \notin own /\ cnt < N - buildCnt /\ ~ready

(* Mutant of Scan: the buffer stays with the descriptor. *)
ScanKeepsBuffer ==
  /\ rd = "scan" /\ ScanGoesOn
  /\ chain' = chain \union {desc2[idx]}
  /\ ready' = (idx \in last)
  /\ idx' = Succ(idx)
  /\ cnt' = cnt + 1
  /\ UNCHANGED <<own, dmaVars, bufVars, event, driverVars, rd, buildVars, pool, stack,
                 delivered>>

(* One turn: the buffer of a descriptor is chained (HAL_ETH_RxLinkCallback) *)
(* if it begins a frame or continues the one begun.                        *)
Scan ==
  /\ rd = "scan" /\ ScanGoesOn
  /\ IF idx \in first \/ chain # {}
     THEN /\ chain' = chain \union {desc2[idx]}
          /\ buf' = [buf EXCEPT ![idx] = NoPacket]
          /\ ready' = (idx \in last)
     ELSE UNCHANGED <<chain, buf, ready>>
  /\ idx' = Succ(idx)
  /\ cnt' = cnt + 1
  /\ UNCHANGED <<own, dmaVars, desc2, event, driverVars, rd, buildVars, pool,
                 stack, delivered>>

ScanEnd ==
  /\ rd = "scan" /\ ~ScanGoesOn
  /\ buildCnt' = buildCnt + cnt
  /\ cnt' = 0
  /\ rd' = "build"
  /\ UNCHANGED <<own, dmaVars, bufVars, event, driverVars, idx, ready, buildIdx, chain,
                 pool, stack, delivered>>
-----------------------------------------------------------------------------
\* Mutant of BuildGoesOn: the number of descriptors is not counted.
BuildGoesOnUncounted == buf[buildIdx] # NoPacket \/ pool # {}

\* The condition of the loop of ETH_UpdateDescriptor.
BuildGoesOn == buildCnt > 0 /\ (buf[buildIdx] # NoPacket \/ pool # {})

(* Mutant of Build: the DMA is not told of the new buffer. *)
BuildWithoutDesc2 ==
  /\ rd \in {"build", "start"} /\ BuildGoesOn
  /\ \/ /\ buf[buildIdx] # NoPacket
        /\ UNCHANGED <<buf, pool>>
     \/ /\ buf[buildIdx] = NoPacket
        /\ \E p \in pool : /\ buf' = [buf EXCEPT ![buildIdx] = p]
                           /\ pool' = pool \ {p}
  /\ own' = own \union {buildIdx}
  /\ buildIdx' = Succ(buildIdx)
  /\ buildCnt' = buildCnt - 1
  /\ UNCHANGED <<desc2, dmaVars, event, driverVars, rd, readVars, chain, stack,
                 delivered>>

(* One turn: the descriptor gets a buffer (HAL_ETH_RxAllocateCallback)     *)
(* unless it has one, and is given to the DMA.                             *)
Build ==
  /\ rd \in {"build", "start"} /\ BuildGoesOn
  /\ \/ /\ buf[buildIdx] # NoPacket
        /\ UNCHANGED <<bufVars, pool>>
     \/ /\ buf[buildIdx] = NoPacket
        /\ \E p \in pool : /\ buf' = [buf EXCEPT ![buildIdx] = p]
                           /\ desc2' = [desc2 EXCEPT ![buildIdx] = p]
                           /\ pool' = pool \ {p}
  /\ own' = own \union {buildIdx}
  /\ buildIdx' = Succ(buildIdx)
  /\ buildCnt' = buildCnt - 1
  /\ UNCHANGED <<dmaVars, event, driverVars, rd, readVars, chain, stack, delivered>>

(* HAL_ETH_ReadData returns a complete frame: _nx_driver_transfer_to_netx  *)
(* queues it, or releases it when its type is unknown; then it is called   *)
(* again.                                                                  *)
Deliver ==
  /\ rd = "build" /\ ~BuildGoesOn
  /\ ready
  /\ ready' = FALSE
  /\ delivered' = {content[p] : p \in chain}
  /\ content' = [p \in Packets |-> IF p \in chain THEN 0 ELSE content[p]]
  /\ chain' = {}
  /\ \/ stack' = stack \union chain /\ UNCHANGED pool
     \/ pool' = pool \union chain /\ UNCHANGED stack
  /\ rd' = "scan"
  /\ UNCHANGED <<own, first, last, dma, arriving, nextFrame, bufVars, event,
                 driverVars, idx, cnt, buildVars>>

(* Mutants of ReadEnd: the event is cleared after the work; the chain      *)
(* of an incomplete frame is dropped.                                      *)
ReadEndClearsEvent ==
  /\ rd = "build" /\ ~BuildGoesOn
  /\ ~ready
  /\ rd' = "idle"
  /\ event' = FALSE
  /\ UNCHANGED <<own, dmaVars, bufVars, driverVars, readVars, buildVars, chain,
                 pool, stack, delivered>>

ReadEndDropsChain ==
  /\ rd = "build" /\ ~BuildGoesOn
  /\ ~ready
  /\ rd' = "idle"
  /\ pool' = pool \union chain
  /\ chain' = {}
  /\ UNCHANGED <<own, dmaVars, bufVars, event, driverVars, readVars, buildVars, stack,
                 delivered>>

ReadEnd ==
  /\ rd = "build" /\ ~BuildGoesOn
  /\ ~ready
  /\ rd' = "idle"
  /\ UNCHANGED <<own, dmaVars, bufVars, event, driverVars, readVars, buildVars, chain,
                 pool, stack, delivered>>
-----------------------------------------------------------------------------
(* HAL_ETH_Start_IT builds descriptors, all that the pool has packets for, *)
(* then starts MAC and DMA.                                                *)
StartBegin ==
  /\ rd = "idle" /\ ~started
  /\ buildCnt' = N
  /\ rd' = "start"
  /\ UNCHANGED <<own, dmaVars, bufVars, event, driverVars, readVars, buildIdx, chain,
                 pool, stack, delivered>>

StartEnd ==
  /\ rd = "start" /\ ~BuildGoesOn
  /\ started' = TRUE
  /\ rd' = "idle"
  /\ UNCHANGED <<own, dmaVars, bufVars, event, halted, dirty, readVars, buildVars, chain, pool,
                 stack, delivered>>

\* A ring at rest: every frame is delivered, every descriptor built again.
AtRest == own = Descriptors /\ buildCnt = 0 /\ chain = {}

(* HAL_ETH_Stop: the DMA ends the frame it receives, and keeps its place   *)
(* in the ring.                                                            *)
Stop ==
  /\ rd = "idle" /\ DmaRuns
  /\ arriving = 0
  /\ started' = FALSE
  /\ dirty' = (dirty \/ ~AtRest)
  /\ UNCHANGED <<own, dmaVars, bufVars, event, halted, rd, readVars, buildVars,
                 chain, pool, stack, delivered>>
-----------------------------------------------------------------------------
(* NetX and the application release packets, and allocate packets from the *)
(* same pool to send, before the link is enabled as well as after.         *)
Release ==
  \E p \in stack :
    /\ stack' = stack \ {p}
    /\ pool' = pool \union {p}
    /\ UNCHANGED <<own, dmaVars, bufVars, event, driverVars, rd, readVars, buildVars,
                   chain, delivered>>

Allocate ==
  \E p \in pool :
    /\ pool' = pool \ {p}
    /\ stack' = stack \union {p}
    /\ UNCHANGED <<own, dmaVars, bufVars, event, driverVars, rd, readVars, buildVars,
                   chain, delivered>>

Read == ReadBegin \/ Scan \/ ScanEnd \/ Build \/ Deliver \/ ReadEnd \/ StartEnd

Next ==
  \/ \E isLast \in BOOLEAN : DmaFills(isLast)
  \/ DmaHalts \/ DmaLoses
  \/ Read
  \/ StartBegin \/ Stop
  \/ Release \/ Allocate

SafeSpec == Init /\ [][Next]_vars

(* The IP thread goes on, and the DMA ends a frame it has begun. *)
Spec ==
  /\ SafeSpec
  /\ WF_vars(Read) /\ WF_vars(StartBegin)
  /\ WF_vars(arriving # 0 /\ DmaFills(TRUE))

(* Moreover nobody holds packets for ever. *)
PoolSpec == Spec /\ SF_vars(stack # {} /\ Release)
-----------------------------------------------------------------------------
(* Every packet is in exactly one place: free, in the ring, in the chain   *)
(* or with NetX.  No buffer is leaked, and none is given away twice, so    *)
(* long as only a ring at rest is stopped.                                 *)
InRing == {buf[d] : d \in Descriptors} \ {NoPacket}

Conserved ==
  /\ pool \union InRing \union chain \union stack = Packets
  /\ \A d, e \in Descriptors : d # e /\ buf[d] = buf[e] => buf[d] = NoPacket
  /\ pool \intersect InRing = {} /\ pool \intersect chain = {}
  /\ pool \intersect stack = {} /\ InRing \intersect chain = {}
  /\ InRing \intersect stack = {} /\ chain \intersect stack = {}

PacketsConserved == ~dirty => Conserved

(* The DMA writes into the buffer its descriptor has, never to the stale   *)
(* address of one that was read, even when the driver is stopped at any    *)
(* moment and started with a pool that is empty: a descriptor that has no  *)
(* buffer then is not the DMA's, or has no address to write to.            *)
DmaWritesIntoRing == started => \A d \in own : desc2[d] = buf[d]

(* The way from a to b in the direction the ring is used. *)
Distance(a, b) == IF b >= a THEN b - a ELSE b + N - a

\* The descriptors that were read and wait to be built again.
Unbuilt == {d \in Descriptors : Distance(buildIdx, d) < buildCnt + cnt}

\* The descriptors the DMA can fill.
Armed == {d \in own : desc2[d] # NoPacket}

(* The descriptors that wait to be built end where the IP thread reads,    *)
(* and the DMA can fill none of them: the two ends of the ring never       *)
(* cross, also when a start has left descriptors unbuilt.                  *)
BuildsBehindDma ==
  ~dirty /\ started /\ rd # "start" =>
    /\ Unbuilt \intersect Armed = {}
    /\ buildCnt + cnt <= N
    /\ Distance(buildIdx, idx) \in {buildCnt + cnt, buildCnt + cnt - N}

(* The frames that wait: complete in the ring, or chained to be delivered. *)
Waiting ==
  {content[buf[d]] : d \in {e \in last \ own : buf[e] # NoPacket}}
    \union {content[p] : p \in {q \in chain : ready}}

(* The ring implements a queue of frames as long as only a ring at rest is *)
(* stopped: accepted frames are delivered once, in order, and eventually   *)
(* unless the DMA is halted.  One more than the ring has descriptors can   *)
(* wait: the one being delivered.                                          *)
Queue == INSTANCE FrameQueue WITH
  Capacity <- N + 1,
  seen <- IF arriving = 0 THEN nextFrame - 1 ELSE nextFrame - 2,
  queue <- Waiting

DeliversInOrder == Queue!Init /\ [][~dirty' => Queue!Next]_(Queue!vars)

DeliversAll ==
  /\ DeliversInOrder
  /\ []~(dirty \/ halted) => Queue!Fairness

(* The frames whose end the DMA has written and the IP thread has not read *)
(* are worked off as DeferredWork says: a frame that ends while the loops  *)
(* run is seen by them or has an event, unless the DMA is halted.          *)
Work == INSTANCE DeferredWork WITH
  done    <- Cardinality({d \in last \ own : buf[d] # NoPacket}),
  working <- rd \in {"scan", "build"},
  ahead   <- FALSE

EndsAreNoticed ==
  Work!Init /\ [][~dirty' /\ ~halted' => Work!Next]_(Work!vars)

FramesAreRead ==
  /\ EndsAreNoticed
  /\ []~(dirty \/ halted) => Work!Fairness

(* "This function chains all received packets before passing the first one *)
(* to NetXDuo stack" (nx_stm32_eth_driver.c:1953): what is chained was     *)
(* received, and is neither free nor with NetX since an earlier reading.   *)
ChainIsReceived == chain \intersect (pool \union stack) = {}

(* "so ETH DMA will be able to use these descriptors to receive next       *)
(* Packets" (stm32f4xx_hal_eth.c:1188): a ring without a descriptor for    *)
(* the DMA gets one.                                                       *)
ReceptionGoesOn == started /\ own = {} ~> own # {}
=============================================================================
