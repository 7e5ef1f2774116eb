----------------------------- MODULE FrameQueue -----------------------------
(***************************************************************************)
(* What reception promises NetX, src/src/Driver/nx_stm32_eth_driver.c:     *)
(* frames of the wire are accepted or lost, and the accepted ones are      *)
(* delivered once each, in the order of the wire.  Frames are numbered as  *)
(* they end on the wire.  RxRing shows that the descriptor ring keeps this *)
(* promise, and TxRing that packets NetX sends leave in the same way.      *)
(***************************************************************************)
EXTENDS Naturals, FiniteSets

CONSTANTS
  Capacity,  \* frames that can be accepted and not yet delivered
  MaxFrames  \* bound on the frames of the wire

VARIABLES
  seen,      \* frames that have ended on the wire
  queue,     \* accepted frames that are not delivered
  delivered  \* the frame delivered last, a set with at most one member

vars == <<seen, queue, delivered>>

Init == seen = 0 /\ queue = {} /\ delivered = {}

Accept ==
  /\ seen < MaxFrames
  /\ Cardinality(queue) < Capacity
  /\ seen' = seen + 1
  /\ queue' = queue \union {seen'}
  /\ UNCHANGED delivered

Lose ==
  /\ seen < MaxFrames
  /\ seen' = seen + 1
  /\ UNCHANGED <<queue, delivered>>

(* The frame that has waited longest. *)
Deliver ==
  \E f \in queue :
    /\ \A g \in queue : f <= g
    /\ delivered' = {f}
    /\ queue' = queue \ {f}
    /\ UNCHANGED seen

Next == Accept \/ Lose \/ Deliver

SafeSpec == Init /\ [][Next]_vars

Fairness == WF_vars(Deliver)

Spec == SafeSpec /\ Fairness
=============================================================================
