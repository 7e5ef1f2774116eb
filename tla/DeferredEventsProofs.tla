------------------------ MODULE DeferredEventsProofs ------------------------
(***************************************************************************)
(* The handshake of DeferredEvents loses no wakeup, for any capacity of    *)
(* the rings.  The properties are proved together: that a frame is noticed *)
(* needs that a recorded event is signalled, and the other way round.      *)
(***************************************************************************)
EXTENDS DeferredEvents, TLAPS

(* A packet of the pool, or a slot of the ring, is counted once. *)
WithinLimits ==
  /\ rxDone + rxQueue <= RxLimit
  /\ txQueued + txDone <= TxLimit

(* The driver is signalled at most once for a batch of events, and called  *)
(* only by an IP thread that took the signal.                              *)
SignalledOnce ==
  /\ ip \in {"lock", "process", "deferred"} /\ DEFERRED \in got => DEFERRED \notin ipEvents
  /\ ip = "deferred" => DEFERRED \in got

(* The conjunction that every step preserves. *)
IInv ==
  /\ TypeOK
  /\ WithinLimits
  /\ SignalledOnce
  /\ DeferredUnderMutex
  /\ EventsAreSignalled
  /\ FramesAreNoticed
  /\ PacketsAreNoticed
  /\ QueueIsSignalled
-----------------------------------------------------------------------------
(* The initial state satisfies the inductive invariant. *)
LEMMA InitIInv == Init => IInv
  <1> SUFFICES ASSUME Init PROVE IInv
    OBVIOUS
  <1>1. TypeOK /\ WithinLimits
    <2>1. 0 \in 0..RxLimit /\ 0 \in 0..TxLimit /\ 0 + 0 <= RxLimit /\ 0 + 0 <= TxLimit
      BY LimitAssumption
    <2>2. TypeOK
      BY <2>1 DEF Init, TypeOK, Events, IpFlags, IpSteps
    <2>3. WithinLimits
      BY <2>1 DEF Init, WithinLimits
    <2>4. QED  BY <2>2, <2>3
  <1>2. SignalledOnce /\ DeferredUnderMutex /\ EventsAreSignalled
    BY DEF Init, SignalledOnce, DeferredUnderMutex, EventsAreSignalled
  <1>3. FramesAreNoticed /\ PacketsAreNoticed /\ QueueIsSignalled
    BY DEF Init, FramesAreNoticed, PacketsAreNoticed, QueueIsSignalled
  <1>4. QED  BY <1>1, <1>2, <1>3 DEF IInv

(* Steps of the DMA, the interrupt handler and the other threads preserve  *)
(* the inductive invariant.                                                *)
LEMMA EnvironmentIInv ==
  ASSUME IInv, Dma \/ Isr \/ App
  PROVE  IInv'
  <1> USE LimitAssumption
      DEF IInv, TypeOK, WithinLimits, SignalledOnce, DeferredUnderMutex, EventsAreSignalled,
          FramesAreNoticed, PacketsAreNoticed, QueueIsSignalled,
          Events, IpFlags, IpSteps, RECEIVED, TRANSMITTED, DEFERRED, RECEIVE, PERIODIC,
          isrVars, ipVars, rxVars, txVars
  <1>1. CASE RxComplete     BY <1>1 DEF RxComplete
  <1>2. CASE TxComplete     BY <1>2 DEF TxComplete
  <1>3. CASE IsrEnter       BY <1>3 DEF IsrEnter
  <1>4. CASE IsrRx          BY <1>4 DEF IsrRx, CpltCallback
  <1>5. CASE IsrTx          BY <1>5 DEF IsrTx, CpltCallback
  <1>6. CASE RaisePeriodic  BY <1>6 DEF RaisePeriodic
  <1>7. CASE AppGetMutex    BY <1>7 DEF AppGetMutex
  <1>8. CASE AppPutMutex    BY <1>8 DEF AppPutMutex
  <1>9. CASE Send           BY <1>9 DEF Send
  <1>10. QED
    BY <1>1, <1>2, <1>3, <1>4, <1>5, <1>6, <1>7, <1>8, <1>9 DEF Dma, Isr, App

(* Steps of the IP thread preserve the inductive invariant. *)
LEMMA IpIInv ==
  ASSUME IInv, Ip
  PROVE  IInv'
  <1> USE LimitAssumption
      DEF IInv, TypeOK, WithinLimits, SignalledOnce, DeferredUnderMutex, EventsAreSignalled,
          FramesAreNoticed, PacketsAreNoticed, QueueIsSignalled,
          Events, IpFlags, IpSteps, RECEIVED, TRANSMITTED, DEFERRED, RECEIVE, PERIODIC,
          isrVars, ipVars, rxVars, txVars
  <1>1. CASE IpGetEvents     BY <1>1 DEF IpGetEvents
  <1>2. CASE IpGetMutex      BY <1>2 DEF IpGetMutex
  <1>3. CASE IpProcess       BY <1>3 DEF IpProcess
  <1>4. CASE IpSwapEvents    BY <1>4 DEF IpSwapEvents
  <1>5. CASE IpReleasePacket BY <1>5 DEF IpReleasePacket
  <1>6. CASE IpReleaseEnd    BY <1>6 DEF IpReleaseEnd
  <1>7. CASE IpReceivePacket
    <2>1. CASE UNCHANGED <<rxQueue, ipEvents>>
      BY <1>7, <2>1 DEF IpReceivePacket
    <2>2. CASE /\ rxQueue' = rxQueue + 1
               /\ ipEvents' = IF rxQueue = 0 THEN ipEvents \union {RECEIVE} ELSE ipEvents
      BY <1>7, <2>2 DEF IpReceivePacket
    <2>3. QED  BY <1>7, <2>1, <2>2 DEF IpReceivePacket
  <1>8. CASE IpReceiveEnd    BY <1>8 DEF IpReceiveEnd
  <1>9. CASE IpPutMutex      BY <1>9 DEF IpPutMutex
  <1>10. QED
    BY <1>1, <1>2, <1>3, <1>4, <1>5, <1>6, <1>7, <1>8, <1>9 DEF Ip

(* The inductive invariant holds in every reachable state. *)
THEOREM Invariance == SafeSpec => []IInv
  <1>1. IInv /\ [Next]_vars => IInv'
    <2> SUFFICES ASSUME IInv, [Next]_vars PROVE IInv'
      OBVIOUS
    <2>1. CASE Dma \/ Isr \/ App  BY <2>1, EnvironmentIInv
    <2>2. CASE Ip                 BY <2>2, IpIInv
    <2>3. CASE UNCHANGED vars
      BY <2>3 DEF IInv, TypeOK, WithinLimits, SignalledOnce, DeferredUnderMutex, EventsAreSignalled,
                  FramesAreNoticed, PacketsAreNoticed,
                  QueueIsSignalled, vars, isrVars, ipVars, rxVars, txVars
    <2>4. QED  BY <2>1, <2>2, <2>3 DEF Next
  <1>2. QED  BY InitIInv, <1>1, PTL DEF SafeSpec

(* The variables keep their types. *)
THEOREM TypeCorrect == SafeSpec => []TypeOK
  BY Invariance, PTL DEF IInv

(* A recorded event has been signalled to the IP thread, and a signal      *)
(* stands for a recorded event.                                            *)
THEOREM NoLostWakeup == SafeSpec => []EventsAreSignalled
  BY Invariance, PTL DEF IInv

(* A completed frame has a notice ahead of the loop that works it off, and *)
(* so has a transmitted packet, if not one still to come from a packet     *)
(* that the DMA owns; a queued frame has its signal.                       *)
THEOREM NothingForgotten == SafeSpec => []WorkIsNoticed
  <1>1. IInv => WorkIsNoticed
    BY DEF IInv, WorkIsNoticed
  <1>2. QED  BY <1>1, Invariance, PTL

(* The deferred part of the driver runs under nx_ip_protection. *)
THEOREM DriverUnderMutex == SafeSpec => []DeferredUnderMutex
  BY Invariance, PTL DEF IInv
-----------------------------------------------------------------------------
(* One step of the handshake is one step of the work of DeferredWork, or   *)
(* none.  First what a step does to the four things DeferredWork knows,    *)
(* then which of its actions that is.                                      *)
FrameEvent  == rs \/ RECEIVED \in deferredEvents
FrameLoop   == ip \in {"release", "receive"} /\ RECEIVED \in taken
PacketEvent == ts \/ TRANSMITTED \in deferredEvents
PacketLoop  == ip = "release" /\ TRANSMITTED \in taken
PacketAhead == txQueued > 0

(* Frames: completing one records its event, swapping the events takes it, *)
(* and the loop ends when no frame is left.                                *)
LEMMA FramesStep ==
  ASSUME TypeOK, Next
  PROVE  Frames!Next \/ UNCHANGED Frames!vars
  <1> USE DEF FrameEvent, FrameLoop, Frames!Next, Frames!vars, isrVars, ipVars,
              rxVars, txVars, RECEIVED, TRANSMITTED
  <1>1. CASE RxComplete
    <2>1. rxDone' = rxDone + 1 /\ FrameEvent' /\ UNCHANGED FrameLoop
      BY <1>1 DEF RxComplete
    <2>2. QED  BY <2>1 DEF Frames!Complete
  <1>2. CASE IpSwapEvents /\ RECEIVED \in deferredEvents
    <2>1. /\ FrameEvent /\ ~FrameLoop /\ FrameLoop' /\ rxDone' = rxDone
          /\ FrameEvent' \in BOOLEAN
      BY <1>2 DEF IpSwapEvents
    <2>2. QED  BY <2>1 DEF Frames!Begin
  <1>3. CASE IpReceivePacket
    <2>1. /\ FrameLoop /\ rxDone > 0 /\ rxDone' = rxDone - 1
          /\ UNCHANGED <<FrameEvent, FrameLoop>>
      BY <1>3 DEF IpReceivePacket
    <2>2. QED  BY <2>1 DEF Frames!Take
  <1>4. CASE IpReceiveEnd /\ RECEIVED \in taken
    <2>1. /\ FrameLoop /\ rxDone = 0 /\ ~FrameLoop'
          /\ UNCHANGED <<rxDone, FrameEvent>>
      BY <1>4 DEF IpReceiveEnd
    <2>2. QED  BY <2>1 DEF Frames!End
  <1>5. CASE UNCHANGED <<rxDone, FrameEvent, FrameLoop>>
    BY <1>5
  <1>6. Dma \/ Isr => RxComplete \/ UNCHANGED <<rxDone, FrameEvent, FrameLoop>>
    BY DEF Dma, Isr, TxComplete, IsrEnter, IsrRx, IsrTx, CpltCallback, TypeOK
  <1>7. App => UNCHANGED <<rxDone, FrameEvent, FrameLoop>>
    BY DEF App, RaisePeriodic, AppGetMutex, AppPutMutex, Send
  <1>8. Ip => \/ IpSwapEvents /\ RECEIVED \in deferredEvents
              \/ IpReceivePacket
              \/ IpReceiveEnd /\ RECEIVED \in taken
              \/ UNCHANGED <<rxDone, FrameEvent, FrameLoop>>
    BY DEF Ip, IpGetEvents, IpGetMutex, IpProcess, IpSwapEvents, IpReleasePacket,
           IpReleaseEnd, IpReceiveEnd, IpPutMutex, TypeOK
  <1>9. QED  BY <1>1, <1>2, <1>3, <1>4, <1>5, <1>6, <1>7, <1>8 DEF Next

(* Transmitted packets: sending gives the DMA one, and the loop ends when  *)
(* no sent packet is left or the DMA owns another.                         *)
LEMMA TransmissionsStep ==
  ASSUME TypeOK, Next
  PROVE  Transmissions!Next \/ UNCHANGED Transmissions!vars
  <1> USE DEF PacketEvent, PacketLoop, PacketAhead, Transmissions!Next,
              Transmissions!vars, isrVars, ipVars, rxVars, txVars, RECEIVED, TRANSMITTED
  <1>1. CASE TxComplete
    <2>1. /\ txDone' = txDone + 1 /\ PacketEvent' /\ UNCHANGED PacketLoop
          /\ PacketAhead' \in BOOLEAN
      BY <1>1 DEF TxComplete
    <2>2. QED  BY <2>1 DEF Transmissions!Complete
  <1>2. CASE IpSwapEvents /\ TRANSMITTED \in deferredEvents
    <2>1. /\ PacketEvent /\ ~PacketLoop /\ PacketLoop' /\ txDone' = txDone
          /\ PacketEvent' \in BOOLEAN /\ UNCHANGED PacketAhead
      BY <1>2 DEF IpSwapEvents
    <2>2. QED  BY <2>1 DEF Transmissions!Begin
  <1>3. CASE IpReleasePacket
    <2>1. /\ PacketLoop /\ txDone > 0 /\ txDone' = txDone - 1
          /\ UNCHANGED <<PacketEvent, PacketLoop, PacketAhead>>
      BY <1>3 DEF IpReleasePacket
    <2>2. QED  BY <2>1 DEF Transmissions!Take
  <1>4. CASE IpReleaseEnd /\ TRANSMITTED \in taken
    <2>1. /\ PacketLoop
          /\ txDone = 0 \/ PacketAhead
          /\ ~PacketLoop' /\ UNCHANGED <<txDone, PacketEvent, PacketAhead>>
      BY <1>4 DEF IpReleaseEnd
    <2>2. QED  BY <2>1 DEF Transmissions!End
  <1>5. CASE Send
    <2>1. PacketAhead' /\ UNCHANGED <<txDone, PacketEvent, PacketLoop>>
      BY <1>5 DEF Send, TypeOK
    <2>2. QED  BY <2>1 DEF Transmissions!Give
  <1>6. CASE UNCHANGED <<txDone, PacketEvent, PacketLoop, PacketAhead>>
    BY <1>6
  <1>7. Dma \/ Isr =>
          TxComplete \/ UNCHANGED <<txDone, PacketEvent, PacketLoop, PacketAhead>>
    BY DEF Dma, Isr, RxComplete, IsrEnter, IsrRx, IsrTx, CpltCallback, TypeOK
  <1>8. App => Send \/ UNCHANGED <<txDone, PacketEvent, PacketLoop, PacketAhead>>
    BY DEF App, RaisePeriodic, AppGetMutex, AppPutMutex
  <1>9. Ip => \/ IpSwapEvents /\ TRANSMITTED \in deferredEvents
              \/ IpReleasePacket
              \/ IpReleaseEnd /\ TRANSMITTED \in taken
              \/ UNCHANGED <<txDone, PacketEvent, PacketLoop, PacketAhead>>
    BY DEF Ip, IpGetEvents, IpGetMutex, IpProcess, IpSwapEvents, IpReceivePacket,
           IpReleaseEnd, IpReceiveEnd, IpPutMutex, TypeOK
  <1>10. QED
    BY <1>1, <1>2, <1>3, <1>4, <1>5, <1>6, <1>7, <1>8, <1>9 DEF Next

(* Frames are worked off as DeferredWork allows: none is taken outside its *)
(* loop, an event is dropped only when it is acted on, and the loop is not *)
(* left with a frame that has no event.  This is the safety part of        *)
(* WorkIsServed for the received frames.                                   *)
THEOREM FramesServed == SafeSpec => Frames!SafeSpec
  <1>1. Init => Frames!Init
    BY DEF Init, Frames!Init
  <1>2. TypeOK /\ [Next]_vars => [Frames!Next]_(Frames!vars)
    <2>1. UNCHANGED vars => UNCHANGED Frames!vars
      BY DEF vars, isrVars, ipVars, rxVars, txVars, Frames!vars
    <2>2. QED  BY <2>1, FramesStep
  <1>3. QED  BY <1>1, <1>2, TypeCorrect, PTL DEF SafeSpec, Frames!SafeSpec

(* Likewise for the transmitted packets, except that the loop may leave    *)
(* some behind when the DMA owns another one, whose interrupt is to come.  *)
THEOREM TransmissionsServed == SafeSpec => Transmissions!SafeSpec
  <1>1. Init => Transmissions!Init
    BY DEF Init, Transmissions!Init
  <1>2. TypeOK /\ [Next]_vars => [Transmissions!Next]_(Transmissions!vars)
    <2>1. UNCHANGED vars => UNCHANGED Transmissions!vars
      BY DEF vars, isrVars, ipVars, rxVars, txVars, Transmissions!vars
    <2>2. QED  BY <2>1, TransmissionsStep
  <1>3. QED
    BY <1>1, <1>2, TypeCorrect, PTL DEF SafeSpec, Transmissions!SafeSpec
=============================================================================
