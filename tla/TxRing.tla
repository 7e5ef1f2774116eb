------------------------------- MODULE TxRing -------------------------------
(***************************************************************************)
(* Transmission: the ring of DMA descriptors that HAL_ETH_Transmit_IT,     *)
(* ETH_Prepare_Tx_Descriptors and HAL_ETH_ReleaseTxPacket of               *)
(* stm32f4xx_hal_eth.c work on, for the packets that                       *)
(* src/src/Driver/nx_stm32_eth_driver.c sends and releases.                *)
(*                                                                         *)
(* A packet is a chain of buffers and takes a descriptor for each.  They   *)
(* are given to the DMA one by one, the first one first, while the DMA     *)
(* runs: it may read the descriptors of a packet before the last one is    *)
(* prepared.  Packets are released when the interrupt of a sent frame has  *)
(* reached the IP thread (DeferredEvents).  Sending, releasing, starting   *)
(* and stopping need the IP mutex and exclude each other; the DMA needs    *)
(* none.                                                                   *)
(*                                                                         *)
(* Three things can go wrong between the HAL and the DMA.  The variables   *)
(* of history tell that they have happened; no guard reads them.           *)
(***************************************************************************)
EXTENDS Naturals, FiniteSets, SequencesExt

CONSTANTS
  N,           \* ETH_TX_DESC_CNT
  Packets,     \* packets that are sent
  NoPacket,    \* the null pointer
  MaxBuffers,  \* bound on the buffers of a packet
  MaxSends     \* bound on the packets sent

\* N is a power of two: the ring is indexed with a comparison and with a mask.
ASSUME RingAssumption ==
  /\ N \in Nat \ {0} /\ \E k \in 0..N : N = 2^k
  /\ NoPacket \notin Packets
  /\ MaxBuffers \in Nat \ {0} /\ MaxSends \in Nat

VARIABLES
  own,         \* descriptors with ETH_DMATXDESC_OWN
  first,       \* descriptors with ETH_DMATXDESC_FS
  last,        \* descriptors with ETH_DMATXDESC_LS
  data,        \* the packet and the number of its buffer in DESC2
  dma,         \* the descriptor the DMA uses next
  suspended,   \* the DMA found no descriptor: ETH_DMASR_TBUS
  frame,       \* the buffers of the frame the DMA is sending
  sent,        \* the frame sent last
  sentNumber,  \* the number of its send
  event,       \* NX_DRIVER_DEFERRED_PACKET_TRANSMITTED is recorded
  started,     \* gState is HAL_ETH_STATE_STARTED
  phase,       \* what is done under the mutex
  packet,      \* the packet that is prepared
  prepared,    \* its descriptors that are given to the DMA, in order
  address,     \* PacketAddress
  curTxDesc,   \* CurTxDesc
  inUse,       \* BuffersInUse
  releaseIdx,  \* releaseIndex
  idx,         \* idx of HAL_ETH_ReleaseTxPacket
  numOfBuf,    \* numOfBuf of HAL_ETH_ReleaseTxPacket
  held,        \* packets that the driver has accepted and not released
  size,        \* the buffers of each of them
  number,      \* the number of the send of each of them
  sends,       \* sends until now
  torn,        \* a packet was taken back after the DMA had read a part of it
  misread,     \* the DMA has read a descriptor before its LS was right
  unmarked     \* a packet that waits in the ring has lost its FS

descVars    == <<own, first, last, data>>
dmaVars     == <<dma, suspended, frame, sent, sentNumber>>
listVars    == <<address, curTxDesc, inUse, releaseIdx>>
releaseVars == <<idx, numOfBuf>>
packetVars  == <<held, size, number, sends>>
history     == <<torn, misread, unmarked>>
vars == <<descVars, dmaVars, event, started, phase, packet, prepared, listVars,
          releaseVars, packetVars, history>>

Descriptors == 0..N-1
Succ(d)     == IF d = N - 1 THEN 0 ELSE d + 1
Buffers     == Packets \X (1..MaxBuffers)

TypeOK ==
  /\ own \in SUBSET Descriptors
  /\ first \in SUBSET Descriptors /\ last \in SUBSET Descriptors
  /\ data \in [Descriptors -> Buffers \union {<<>>}]
  /\ dma \in Descriptors
  /\ suspended \in BOOLEAN /\ event \in BOOLEAN /\ started \in BOOLEAN
  /\ frame \in Seq(Buffers) /\ sent \in Seq(Buffers)
  /\ phase \in {"idle", "prepare", "release"}
  /\ packet \in Packets \union {NoPacket}
  /\ prepared \in Seq(Descriptors) /\ Len(prepared) <= N
  /\ address \in [Descriptors -> Packets \union {NoPacket}]
  /\ curTxDesc \in Descriptors /\ releaseIdx \in Descriptors /\ idx \in Descriptors
  /\ inUse \in 0..N*MaxSends /\ numOfBuf \in 0..N*MaxSends
  /\ held \in SUBSET Packets
  /\ size \in [Packets -> 0..MaxBuffers]
  /\ number \in [Packets -> 0..MaxSends]
  /\ sends \in 0..MaxSends /\ sentNumber \in 0..MaxSends
  /\ torn \in BOOLEAN /\ misread \in BOOLEAN /\ unmarked \in BOOLEAN

Init ==
  /\ own = {} /\ first = {} /\ last = {}
  /\ data = [d \in Descriptors |-> <<>>]
  /\ dma = 0 /\ suspended = FALSE /\ frame = <<>>
  /\ sent = <<>> /\ sentNumber = 0
  /\ event = FALSE /\ started = FALSE
  /\ phase = "idle" /\ packet = NoPacket /\ prepared = <<>>
  /\ address = [d \in Descriptors |-> NoPacket]
  /\ curTxDesc = 0 /\ inUse = 0 /\ releaseIdx = 0 /\ idx = 0 /\ numOfBuf = 0
  /\ held = {} /\ size = [p \in Packets |-> 0]
  /\ number = [p \in Packets |-> 0] /\ sends = 0
  /\ torn = FALSE /\ misread = FALSE /\ unmarked = FALSE
-----------------------------------------------------------------------------
\* "Current Tx Descriptor Owned by DMA: cannot be used by the application".
Busy(d) == d \in own \/ address[d] # NoPacket

\* The driver accepts packets when it is enabled, and no long chains.
Accepts(n) == started /\ n <= N /\ ~Busy(curTxDesc)

(* A packet is refused: the driver releases it.  *)
SendRefused ==
  /\ phase = "idle" /\ sends < MaxSends
  /\ \E p \in Packets \ held, n \in 1..MaxBuffers : ~Accepts(n)
  /\ sends' = sends + 1
  /\ UNCHANGED <<descVars, dmaVars, event, started, phase, packet, prepared,
                 listVars, releaseVars, held, size, number, history>>

(* A packet is accepted: its first descriptor is given to the DMA. *)
SendBegin ==
  /\ phase = "idle" /\ sends < MaxSends
  /\ \E p \in Packets \ held, n \in 1..MaxBuffers :
       /\ Accepts(n)
       /\ packet' = p
       /\ held' = held \union {p}
       /\ size' = [size EXCEPT ![p] = n]
       /\ number' = [number EXCEPT ![p] = sends + 1]
       /\ data' = [data EXCEPT ![curTxDesc] = <<p, 1>>]
  /\ sends' = sends + 1
  /\ first' = first \union {curTxDesc}
  /\ own' = own \union {curTxDesc}
  /\ prepared' = <<curTxDesc>>
  /\ phase' = "prepare"
  /\ UNCHANGED <<last, dmaVars, event, started, listVars, releaseVars, history>>

\* The descriptor that the next buffer needs.
NextDesc == Succ(Last(prepared))

(* Mutant of PrepareNext: a FS of an earlier packet stays. *)
PrepareNextKeepsFirst ==
  /\ phase = "prepare" /\ Len(prepared) < size[packet]
  /\ ~Busy(NextDesc)
  /\ last' = last \ {Last(prepared)}
  /\ data' = [data EXCEPT ![NextDesc] = <<packet, Len(prepared) + 1>>]
  /\ own' = own \union {NextDesc}
  /\ prepared' = Append(prepared, NextDesc)
  /\ UNCHANGED <<first, dmaVars, event, started, phase, packet, listVars,
                 releaseVars, packetVars, history>>

(* The next buffer gets the next descriptor. *)
PrepareNext ==
  /\ phase = "prepare" /\ Len(prepared) < size[packet]
  /\ ~Busy(NextDesc)
  /\ last' = last \ {Last(prepared)}
  /\ first' = first \ {NextDesc}
  /\ data' = [data EXCEPT ![NextDesc] = <<packet, Len(prepared) + 1>>]
  /\ own' = own \union {NextDesc}
  /\ prepared' = Append(prepared, NextDesc)
  /\ UNCHANGED <<dmaVars, event, started, phase, packet, listVars, releaseVars,
                 packetVars, history>>

(* Mutant of PrepareFails: the descriptors are not taken back. *)
PrepareFailsKeepsOwn ==
  /\ phase = "prepare" /\ Len(prepared) < size[packet]
  /\ Busy(NextDesc)
  /\ last' = last \ {Last(prepared)}
  /\ first' = first \ {NextDesc}
  /\ held' = held \ {packet}
  /\ size' = [size EXCEPT ![packet] = 0]
  /\ number' = [number EXCEPT ![packet] = 0]
  /\ packet' = NoPacket /\ prepared' = <<>> /\ phase' = "idle"
  /\ torn' = (torn \/ ~(ToSet(prepared) \subseteq own))
  /\ unmarked' = (unmarked \/ NextDesc \in own \intersect first)
  /\ UNCHANGED <<own, data, dmaVars, event, started, listVars, releaseVars,
                 sends, misread>>

(* The next descriptor is in use, but has lost its FS already: all are     *)
(* taken back, and the driver releases the packet.                         *)
PrepareFails ==
  /\ phase = "prepare" /\ Len(prepared) < size[packet]
  /\ Busy(NextDesc)
  /\ last' = last \ {Last(prepared)}
  /\ first' = first \ {NextDesc}
  /\ own' = own \ ToSet(prepared)
  /\ held' = held \ {packet}
  /\ size' = [size EXCEPT ![packet] = 0]
  /\ number' = [number EXCEPT ![packet] = 0]
  /\ packet' = NoPacket /\ prepared' = <<>> /\ phase' = "idle"
  /\ torn' = (torn \/ ~(ToSet(prepared) \subseteq own))
  /\ unmarked' = (unmarked \/ NextDesc \in own \intersect first)
  /\ UNCHANGED <<data, dmaVars, event, started, listVars, releaseVars, sends, misread>>

(* Mutants of PrepareEnd: a packet counts as one buffer; a suspended DMA is *)
(* not woken.                                                              *)
PrepareEndCountsOne ==
  /\ phase = "prepare" /\ Len(prepared) = size[packet]
  /\ last' = last \union {Last(prepared)}
  /\ address' = [address EXCEPT ![Last(prepared)] = packet]
  /\ curTxDesc' = NextDesc
  /\ inUse' = inUse + 1
  /\ suspended' = FALSE
  /\ packet' = NoPacket /\ prepared' = <<>> /\ phase' = "idle"
  /\ UNCHANGED <<own, first, data, dma, frame, sent, sentNumber, event, started,
                 releaseIdx, releaseVars, packetVars, history>>

PrepareEndWithoutPoll ==
  /\ phase = "prepare" /\ Len(prepared) = size[packet]
  /\ last' = last \union {Last(prepared)}
  /\ address' = [address EXCEPT ![Last(prepared)] = packet]
  /\ curTxDesc' = NextDesc
  /\ inUse' = inUse + Len(prepared)
  /\ packet' = NoPacket /\ prepared' = <<>> /\ phase' = "idle"
  /\ UNCHANGED <<own, first, data, dmaVars, event, started, releaseIdx,
                 releaseVars, packetVars, history>>

(* All buffers have a descriptor: the last one is marked and remembers the *)
(* packet, and a suspended DMA is woken.                                   *)
PrepareEnd ==
  /\ phase = "prepare" /\ Len(prepared) = size[packet]
  /\ last' = last \union {Last(prepared)}
  /\ address' = [address EXCEPT ![Last(prepared)] = packet]
  /\ curTxDesc' = NextDesc
  /\ inUse' = inUse + Len(prepared)
  /\ suspended' = FALSE
  /\ packet' = NoPacket /\ prepared' = <<>> /\ phase' = "idle"
  /\ UNCHANGED <<own, first, data, dma, frame, sent, sentNumber, event, started, releaseIdx,
                 releaseVars, packetVars, history>>
-----------------------------------------------------------------------------
\* The DMA looks at its descriptor.
DmaLooks == started /\ ~suspended

(* The DMA sends a buffer of a frame, which begins where FS is set; the    *)
(* end of a frame is signalled.                                            *)
DmaSends ==
  /\ DmaLooks /\ dma \in own
  /\ dma \in first \/ frame # <<>>
  /\ LET whole == IF dma \in first THEN <<data[dma]>>
                                   ELSE Append(frame, data[dma])
     IN IF dma \in last
        THEN /\ sent' = whole /\ frame' = <<>> /\ event' = TRUE
             /\ sentNumber' = number[whole[1][1]]
        ELSE frame' = whole /\ UNCHANGED <<sent, sentNumber, event>>
  /\ own' = own \ {dma}
  /\ dma' = Succ(dma)
  /\ misread' = \/ misread
                \/ /\ dma \in ToSet(prepared)
                   /\ dma \in last <=> data[dma][2] # size[packet]
  /\ UNCHANGED <<first, last, data, suspended, started, phase, packet, prepared,
                 listVars, releaseVars, packetVars, torn, unmarked>>

(* A frame without FS does not leave: the DMA closes its descriptors, and  *)
(* may signal the last one.                                                *)
DmaDrops ==
  /\ DmaLooks /\ dma \in own
  /\ dma \notin first /\ frame = <<>>
  /\ event' \in {event, event \/ dma \in last}
  /\ own' = own \ {dma}
  /\ dma' = Succ(dma)
  /\ UNCHANGED <<first, last, data, suspended, frame, sent, sentNumber, started,
                 phase, packet, prepared, listVars, releaseVars, packetVars, history>>

DmaSuspends ==
  /\ DmaLooks /\ dma \notin own
  /\ suspended' = TRUE
  /\ UNCHANGED <<descVars, dma, frame, sent, sentNumber, event, started, phase, packet,
                 prepared, listVars, releaseVars, packetVars, history>>
-----------------------------------------------------------------------------
(* HAL_ETH_ReleaseTxPacket looks at as many descriptors as are in use. *)
ReleaseBegin ==
  /\ phase = "idle" /\ event
  /\ event' = FALSE
  /\ numOfBuf' = inUse
  /\ idx' = releaseIdx
  /\ phase' = "release"
  /\ UNCHANGED <<descVars, dmaVars, started, packet, prepared, listVars, packetVars, history>>

(* Mutant of ReleaseSkips: the loop does not end. *)
ReleaseSkipsOn ==
  /\ phase = "release"
  /\ address[idx] = NoPacket
  /\ numOfBuf' = numOfBuf - 1
  /\ idx' = Succ(idx)
  /\ UNCHANGED <<descVars, dmaVars, event, started, phase, packet, prepared,
                 listVars, packetVars, history>>

(* One turn without a packet to release: the descriptor is not the last    *)
(* one of a packet.                                                        *)
ReleaseSkips ==
  /\ phase = "release" /\ numOfBuf > 0
  /\ address[idx] = NoPacket
  /\ numOfBuf' = numOfBuf - 1
  /\ idx' = Succ(idx)
  /\ UNCHANGED <<descVars, dmaVars, event, started, phase, packet, prepared,
                 listVars, packetVars, history>>

(* Mutant of ReleasePacket: OWN is not looked at. *)
ReleasePacketUnsent ==
  /\ phase = "release" /\ numOfBuf > 0
  /\ address[idx] # NoPacket
  /\ held' = held \ {address[idx]}
  /\ size' = [size EXCEPT ![address[idx]] = 0]
  /\ number' = [number EXCEPT ![address[idx]] = 0]
  /\ address' = [address EXCEPT ![idx] = NoPacket]
  /\ numOfBuf' = numOfBuf - 1
  /\ inUse' = numOfBuf'
  /\ idx' = Succ(idx)
  /\ releaseIdx' = idx'
  /\ UNCHANGED <<descVars, dmaVars, event, started, phase, packet, prepared,
                 curTxDesc, sends, history>>

(* One turn that releases the packet of the descriptor. *)
ReleasePacket ==
  /\ phase = "release" /\ numOfBuf > 0
  /\ address[idx] # NoPacket /\ idx \notin own
  /\ held' = held \ {address[idx]}
  /\ size' = [size EXCEPT ![address[idx]] = 0]
  /\ number' = [number EXCEPT ![address[idx]] = 0]
  /\ address' = [address EXCEPT ![idx] = NoPacket]
  /\ numOfBuf' = numOfBuf - 1
  /\ inUse' = numOfBuf'
  /\ idx' = Succ(idx)
  /\ releaseIdx' = idx'
  /\ UNCHANGED <<descVars, dmaVars, event, started, phase, packet, prepared,
                 curTxDesc, sends, history>>

(* The loop ends: all was looked at, or a packet is still being sent. *)
ReleaseEnd ==
  /\ phase = "release"
  /\ numOfBuf = 0 \/ (address[idx] # NoPacket /\ idx \in own)
  /\ phase' = "idle"
  /\ UNCHANGED <<descVars, dmaVars, event, started, packet, prepared, listVars,
                 releaseVars, packetVars, history>>
-----------------------------------------------------------------------------
(* HAL_ETH_Start_IT: the DMA looks at its descriptor again. *)
Start ==
  /\ phase = "idle" /\ ~started
  /\ started' = TRUE
  /\ suspended' = FALSE
  /\ UNCHANGED <<descVars, dma, frame, sent, sentNumber, event, phase, packet, prepared,
                 listVars, releaseVars, packetVars, history>>

(* HAL_ETH_Stop: the DMA ends the frame it sends, unless it has no         *)
(* descriptor for it, and keeps its place; the transmit FIFO is flushed.   *)
Stop ==
  /\ phase = "idle" /\ started
  /\ frame = <<>> \/ suspended
  /\ frame' = <<>>
  /\ started' = FALSE
  /\ UNCHANGED <<descVars, dma, suspended, sent, sentNumber, event, phase,
                 packet, prepared, listVars,
                 releaseVars, packetVars, history>>

Work == \/ PrepareNext \/ PrepareFails \/ PrepareEnd
        \/ ReleaseSkips \/ ReleasePacket \/ ReleaseEnd

Next ==
  \/ SendRefused \/ SendBegin
  \/ Work \/ ReleaseBegin
  \/ DmaSends \/ DmaDrops \/ DmaSuspends
  \/ Start \/ Stop

SafeSpec == Init /\ [][Next]_vars

(* The thread with the mutex goes on, the IP thread gets the mutex in the  *)
(* end, and the link is enabled often and long enough for frames to leave. *)
Spec ==
  /\ SafeSpec
  /\ WF_vars(Work) /\ SF_vars(ReleaseBegin)
  /\ SF_vars(Start) /\ SF_vars(DmaSends \/ DmaDrops)
-----------------------------------------------------------------------------
(* The packets the driver has are the one it prepares and those some       *)
(* descriptor remembers, each once: none is lost or released twice.        *)
Remembered == {address[d] : d \in Descriptors} \ {NoPacket}

HeldOnce ==
  /\ held = Remembered \union ({packet} \ {NoPacket})
  /\ packet \notin Remembered
  /\ \A d, e \in Descriptors :
       d # e /\ address[d] = address[e] => address[d] = NoPacket

(* The loop that releases covers every descriptor that remembers a packet, *)
(* whatever the counts of buffers have been.                               *)
Distance(a, b) == IF b >= a THEN b - a ELSE b + N - a

ReleaseCovers ==
  /\ (releaseIdx + inUse) % N = curTxDesc
  /\ \A d \in Descriptors :
       address[d] # NoPacket => Distance(releaseIdx, d) < inUse

(* The counts and addresses the driver keeps apart from the ring agree     *)
(* with it, although a count is written back only when a packet is         *)
(* released.                                                               *)
BooksBalance == HeldOnce /\ ReleaseCovers

(* "Determine if the packet has been transmitted"                          *)
(* (stm32f4xx_hal_eth.c:1469): no descriptor of a released packet is left  *)
(* with the DMA, which would send memory that others use.                  *)
ReleasedIsSent == \A d \in own : data[d][1] \in held

(* That holds for a DMA that reads descriptors at any time, as long as no  *)
(* packet is taken back of which it has read a part.                       *)
OnlyTornIsReused == ~torn => ReleasedIsSent

(* "Current Tx Descriptor Owned by DMA: cannot be used by the application" *)
(* (stm32f4xx_hal_eth.c:3114): the descriptors of a packet that waits keep *)
(* the mark of its first buffer, without which it does not leave.          *)
WaitingIsMarked == \A d \in own : data[d][2] = 1 => d \in first

(* What leaves is what was sent, the whole chain of a packet, in order: so *)
(* long as the marks the DMA has read were the final ones.  A packet that  *)
(* has lost its FS leaves nothing behind in the frames after it.           *)
SentIsWhole ==
  ~torn /\ ~misread /\ sent # <<>> =>
    \E p \in Packets, n \in 1..MaxBuffers : sent = [i \in 1..n |-> <<p, i>>]

\* Nothing has gone wrong between the HAL and the DMA.
Sound == ~torn /\ ~misread /\ ~unmarked

(* Every packet that is accepted is released in the end.  No single wakeup *)
(* does it: a packet prepared in the first descriptor of one that is sent  *)
(* but not released stops the releasing before that, until it is sent too. *)
AcceptedIsReleased ==
  \A p \in Packets : p \in held ~> p \notin held \/ ~Sound

(* Sending is a queue: accepted packets leave once, in order, eventually.  *)
(* A packet is accepted when its last descriptor is given to the DMA.  The *)
(* queue holds until something goes wrong between the HAL and the DMA.     *)
Waiting == {number[data[d][1]] : d \in {e \in own : data[e][2] = size[data[e][1]]}}

Unfinished == phase = "prepare" /\ Len(prepared) < size[packet]

Queue == INSTANCE FrameQueue WITH
  Capacity  <- N,
  MaxFrames <- MaxSends,
  seen      <- IF Unfinished THEN sends - 1 ELSE sends,
  queue     <- Waiting,
  delivered <- IF sent = <<>> THEN {} ELSE {sentNumber}

SendsInOrder ==
  /\ Queue!Init
  /\ [][Sound' => Queue!Next]_(Queue!vars)
  /\ []Sound => Queue!Fairness
=============================================================================
