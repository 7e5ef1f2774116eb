---------------------------- MODULE DeferredWork ----------------------------
(***************************************************************************)
(* Where the models of the driver meet: work that the DMA completes and    *)
(* the IP thread does later, told by a deferred event.  DeferredEvents     *)
(* shows that interrupts, event flags and the IP thread deliver this for   *)
(* frames and for packets; RxRing shows that its loops rely on no more     *)
(* than this, and end early only when they are called again.               *)
(***************************************************************************)
EXTENDS Naturals

VARIABLES
  done,    \* what the DMA has completed and nobody has worked off
  event,   \* a deferred event tells of it
  working, \* the loop that works it off runs
  ahead    \* the DMA still has what the loop may wait for

vars == <<done, event, working, ahead>>

Init == done = 0 /\ event = FALSE /\ working = FALSE /\ ahead = FALSE

(* The DMA gets work to complete. *)
Give ==
  /\ ahead' = TRUE
  /\ UNCHANGED <<done, event, working>>

Complete ==
  /\ done' = done + 1
  /\ event' = TRUE
  /\ ahead' \in BOOLEAN
  /\ UNCHANGED working

(* The event is taken; one that is on its way already may stay. *)
Begin ==
  /\ event /\ ~working
  /\ working' = TRUE
  /\ event' \in BOOLEAN
  /\ UNCHANGED <<done, ahead>>

Take ==
  /\ working /\ done > 0
  /\ done' = done - 1
  /\ UNCHANGED <<event, working, ahead>>

(* The loop ends when nothing is left, or what is left has its event, or   *)
(* something is ahead whose completion tells of both.                      *)
End ==
  /\ working
  /\ done = 0 \/ event \/ ahead
  /\ working' = FALSE
  /\ UNCHANGED <<done, event, ahead>>

(* An event that finds nothing to do. *)
Discard ==
  /\ event /\ done = 0
  /\ event' = FALSE
  /\ UNCHANGED <<done, working, ahead>>

Next == Give \/ Complete \/ Begin \/ Take \/ End \/ Discard

SafeSpec == Init /\ [][Next]_vars

(* What is done and told of is worked on, and a loop that runs goes on. *)
Fairness == WF_vars(done > 0 /\ Begin) /\ WF_vars(Take \/ End)

Spec == SafeSpec /\ Fairness
=============================================================================
