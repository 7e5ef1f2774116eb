----------------------------- MODULE LinkDriver -----------------------------
(***************************************************************************)
(* What the driver promises about its link state, and what NetworkThread   *)
(* takes it for: each command is one step, and the link is enabled only    *)
(* when the PHY reports one.  EthDriver implements it.                     *)
(***************************************************************************)
VARIABLES
  driver,  \* the state of the driver
  phy      \* the link status of the PHY

vars == <<driver, phy>>

Init == driver = "NOT_INITIALIZED" /\ phy \in {"up", "down"}

Initialize ==
  /\ driver = "NOT_INITIALIZED"
  /\ driver' = "INITIALIZED"
  /\ UNCHANGED phy

Enable ==
  /\ driver = "INITIALIZED" /\ phy = "up"
  /\ driver' = "LINK_ENABLED"
  /\ UNCHANGED phy

Disable ==
  /\ driver = "LINK_ENABLED"
  /\ driver' = "INITIALIZED"
  /\ UNCHANGED phy

LinkChanges ==
  /\ phy' = IF phy = "up" THEN "down" ELSE "up"
  /\ UNCHANGED driver

Next == Initialize \/ Enable \/ Disable \/ LinkChanges

Spec == Init /\ [][Next]_vars
=============================================================================
