-------------------------- MODULE EthDriverProofs ---------------------------
(***************************************************************************)
(* EthDriver, for any PHY, any groups and any table size: what an enabled  *)
(* driver is, what its multicast counter counts, and that it implements    *)
(* LinkDriver.  The facts about the counter need that no group is joined   *)
(* before the driver is initialised.                                       *)
(***************************************************************************)
EXTENDS EthDriver, FiniteSetTheorems, TLAPS

(* How far each step of a command has come, and what only the bus error    *)
(* can spoil.                                                              *)
Steps ==
  /\ step \in {"starting", "running"} => state = "INITIALIZED"
  /\ step = "stopping" => state = "LINK_ENABLED"
  /\ step # "idle" => gState \in {"BUSY", "ERROR"}
  /\ gState = "READY" => ~dma
  /\ step = "starting" => ~dma
  /\ step # "idle" /\ ~fault => gState = "BUSY"
  /\ step \in {"running", "stopping"} /\ ~fault => dma /\ irq

(* The counter and the filter; the configuration of the driver agrees      *)
(* with the register once it is initialised.                               *)
Counted ==
  /\ state # "NOT_INITIALIZED" =>
       count = Cardinality(Registered) /\ config = filter
  /\ state = "NOT_INITIALIZED" => Registered = {}
  /\ filter.multicast <=> Registered # {}
  /\ filter.broadcast

IInv == TypeOK /\ Steps /\ EnabledIsRunning

(* The set of registered groups is finite, and the counter can count it. *)
LEMMA RegisteredFinite ==
  IsFiniteSet(Registered) /\ Cardinality(Registered) \in Nat
    /\ Cardinality(Registered) < Wrap
<1>1. Registered \subseteq Groups
  BY DEF Registered
<1>2. IsFiniteSet(Registered) /\ Cardinality(Registered) <= Cardinality(Groups)
  BY <1>1, FS_Subset, DriverAssumption
<1>3. Cardinality(Registered) \in Nat /\ Cardinality(Groups) \in Nat
  BY <1>2, FS_CardinalityType, DriverAssumption
<1> QED
  BY <1>2, <1>3, DriverAssumption

LEMMA ZeroCounts == 0 \in 0..Wrap - 1
BY FS_CardinalityType, DriverAssumption

LEMMA InitIInv == Init => IInv
<1> SUFFICES ASSUME Init PROVE IInv
  OBVIOUS
<1>1. TypeOK
  <2>1. config \in Filters /\ filter \in Filters
    BY DEF Init, Filters
  <2>2. joined \in [Groups -> 0..MaxJoins]
    BY DriverAssumption DEF Init
  <2> QED
    BY <2>1, <2>2, ZeroCounts, DriverAssumption DEF Init, TypeOK
<1>2. Steps /\ EnabledIsRunning
  BY DEF Init, Steps, EnabledIsRunning
<1> QED
  BY <1>1, <1>2 DEF IInv

(* One step per action. *)
LEMMA NextIInv == IInv /\ [Next]_vars => IInv'
<1> SUFFICES ASSUME IInv, [Next]_vars PROVE IInv'
  OBVIOUS
<1> USE DEF IInv
<1>1. CASE Initialize
  <2>1. TypeOK'
    BY <1>1, ZeroCounts DEF Initialize, TypeOK, Filters, haltVars
  <2>2. Steps' /\ EnabledIsRunning'
    BY <1>1 DEF Initialize, TypeOK, Steps, EnabledIsRunning, haltVars
  <2> QED
    BY <2>1, <2>2
<1>2. CASE EnableStarts
  BY <1>2, DriverAssumption
    DEF EnableStarts, ModeOf, TypeOK, Steps, EnabledIsRunning, mcVars
<1>3. CASE EnableIsIgnored
  BY <1>3 DEF EnableIsIgnored, TypeOK, Steps, EnabledIsRunning, haltVars, mcVars
<1>4. CASE StartsDma
  BY <1>4 DEF StartsDma, TypeOK, Steps, EnabledIsRunning, mcVars
<1>5. CASE EnableEnds
  BY <1>5 DEF EnableEnds, TypeOK, Steps, EnabledIsRunning, mcVars
<1>6. CASE DisableStops
  BY <1>6 DEF DisableStops, TypeOK, Steps, EnabledIsRunning, mcVars
<1>7. CASE DisableEnds
  BY <1>7 DEF DisableEnds, TypeOK, Steps, EnabledIsRunning, mcVars
<1>8. CASE DisableIsIgnored
  BY <1>8 DEF DisableIsIgnored, TypeOK, Steps, EnabledIsRunning, haltVars, mcVars
<1>9. ASSUME NEW g \in Groups, JoinAgain(g) \/ Join(g) \/ LeaveOnce(g) \/ Leave(g)
      PROVE  IInv'
  <2>1. joined' \in [Groups -> 0..MaxJoins]
    BY <1>9, DriverAssumption
      DEF JoinAgain, Join, LeaveOnce, Leave, TypeOK
  <2>2. count' \in 0..Wrap - 1
    BY <1>9, DriverAssumption
      DEF JoinAgain, Join, LeaveOnce, Leave, TypeOK
  <2>3. config' \in Filters /\ filter' \in Filters
    <3>1. ASSUME NEW b \in BOOLEAN PROVE [config EXCEPT !.multicast = b] \in Filters
      BY DEF TypeOK, Filters
    <3>2. UNCHANGED <<config, filter>> => config' \in Filters /\ filter' \in Filters
      BY DEF TypeOK
    <3>3. CASE JoinAgain(g) \/ LeaveOnce(g)
      BY <3>2, <3>3 DEF JoinAgain, LeaveOnce
    <3>4. CASE Join(g)
      BY <3>1, <3>4 DEF Join
    <3>5. CASE Leave(g)
      BY <3>1, <3>2, <3>5 DEF Leave
    <3> QED
      BY <1>9, <3>3, <3>4, <3>5
  <2>4. UNCHANGED <<state, linkUp, haltVars, phy, mac>>
    BY <1>9 DEF JoinAgain, Join, LeaveOnce, Leave
  <2>5. TypeOK'
    BY <2>1, <2>2, <2>3, <2>4 DEF TypeOK, haltVars
  <2>6. Steps' /\ EnabledIsRunning'
    BY <2>4 DEF Steps, EnabledIsRunning, haltVars
  <2> QED
    BY <2>5, <2>6
<1>10. CASE PhyChanges
  BY <1>10 DEF PhyChanges, TypeOK, Steps, EnabledIsRunning, haltVars, mcVars
<1>11. CASE DmaFaults
  BY <1>11 DEF DmaFaults, TypeOK, Steps, EnabledIsRunning, mcVars
<1>12. CASE IsrError
  BY <1>12 DEF IsrError, TypeOK, Steps, EnabledIsRunning, mcVars
<1>13. CASE UNCHANGED vars
  BY <1>13 DEF TypeOK, Steps, EnabledIsRunning, vars, haltVars, mcVars
<1> QED
  BY <1>1, <1>2, <1>3, <1>4, <1>5, <1>6, <1>7, <1>8, <1>9, <1>10, <1>11, <1>12,
     <1>13 DEF Next

(* The invariant holds in every reachable state. *)
THEOREM Invariance == Spec => []IInv
BY InitIInv, NextIInv, PTL DEF Spec

(* The state stays well typed; in particular the counter never leaves the  *)
(* range of its type.                                                      *)
THEOREM TypeCorrect == Spec => []TypeOK
BY Invariance, PTL DEF IInv

(* As long as the bus works, an enabled link has a running MAC and DMA,    *)
(* and a link that is not enabled has not, whatever the order of the       *)
(* commands and the moment the cable is pulled.                            *)
THEOREM EnabledRuns == Spec => []EnabledIsRunning
BY Invariance, PTL DEF IInv

(* HAL_ETH_SetMACConfig never writes the mode of a MAC that runs. *)
THEOREM ModeIsSafe == Spec => ModeChangesStopped
<1>1. IInv /\ [Next]_vars => [mac' # mac => ~dma]_vars
  <2> SUFFICES ASSUME IInv, [Next]_vars, mac' # mac PROVE ~dma
    OBVIOUS
  <2>1. EnableStarts
    BY DEF Next, vars, Initialize, EnableIsIgnored, StartsDma, EnableEnds,
           DisableStops, DisableEnds, DisableIsIgnored, JoinAgain, Join, LeaveOnce,
           Leave, PhyChanges, DmaFaults, IsrError
  <2> QED
    BY <2>1 DEF EnableStarts, IInv, Steps
<1> QED
  BY <1>1, Invariance, PTL DEF Spec, ModeChangesStopped
-----------------------------------------------------------------------------
LEMMA InitCounted == Init => Counted
<1> SUFFICES ASSUME Init PROVE Counted
  OBVIOUS
<1>1. Registered = {}
  BY DEF Init, Registered
<1> QED
  BY <1>1 DEF Init, Counted

(* What joins and leaves do to the set that is counted. *)
LEMMA JoinAdds ==
  ASSUME TypeOK, NEW g \in Groups, Join(g)
  PROVE  /\ Registered' = Registered \union {g}
         /\ Cardinality(Registered') = Cardinality(Registered) + 1
<1>1. g \notin Registered
  BY DEF Join, Registered
<1>2. \A h \in Groups : joined'[h] = IF h = g THEN 1 ELSE joined[h]
  BY DEF Join, TypeOK
<1>3. Registered' = Registered \union {g}
  BY <1>2 DEF Registered
<1>4. Cardinality(Registered \union {g}) = Cardinality(Registered) + 1
  BY <1>1, RegisteredFinite, FS_AddElement
<1> QED
  BY <1>3, <1>4

LEMMA LeaveRemoves ==
  ASSUME TypeOK, NEW g \in Groups, Leave(g)
  PROVE  /\ g \in Registered
         /\ Registered' = Registered \ {g}
         /\ Cardinality(Registered') = Cardinality(Registered) - 1
<1>1. g \in Registered
  BY DEF Leave, Registered
<1>2. \A h \in Groups : joined'[h] = IF h = g THEN 0 ELSE joined[h]
  BY DEF Leave, TypeOK
<1>3. Registered' = Registered \ {g}
  BY <1>2 DEF Registered
<1>4. Cardinality(Registered \ {g}) = Cardinality(Registered) - 1
  BY <1>1, RegisteredFinite, FS_RemoveElement
<1> QED
  BY <1>1, <1>3, <1>4

LEMMA AgainKeeps ==
  ASSUME TypeOK, NEW g \in Groups, JoinAgain(g) \/ LeaveOnce(g)
  PROVE  Registered' = Registered
<1>1. joined[g] > 0 /\ joined'[g] > 0
  BY DEF JoinAgain, LeaveOnce, TypeOK
<1>2. \A h \in Groups : h # g => joined'[h] = joined[h]
  BY DEF JoinAgain, LeaveOnce, TypeOK
<1> QED
  BY <1>1, <1>2 DEF Registered

LEMMA NextCounted ==
  ASSUME ~EarlyJoins
  PROVE  IInv /\ Counted /\ [Next]_vars => Counted'
<1> SUFFICES ASSUME TypeOK, Steps, Counted, [Next]_vars PROVE Counted'
  BY DEF IInv
<1>1. CASE Initialize
  <2>1. Registered = {} /\ Registered' = {}
    BY <1>1 DEF Initialize, Counted, Registered
  <2>2. filter = [multicast |-> FALSE, broadcast |-> TRUE]
    BY <2>1 DEF Counted, TypeOK, Filters
  <2>3. Cardinality(Registered') = 0
    BY <2>1, FS_EmptySet
  <2> QED
    BY <1>1, <2>1, <2>2, <2>3 DEF Initialize, Counted
<1>2. ASSUME NEW g \in Groups, Join(g) PROVE Counted'
  <2>1. state # "NOT_INITIALIZED" /\ state' = state
    BY <1>2 DEF Join
  <2>2. count' = Cardinality(Registered) + 1
    <3>1. Cardinality(Registered') < Wrap
      <4>1. Registered' \subseteq Groups
        BY DEF Registered
      <4>2. Cardinality(Registered') <= Cardinality(Groups)
        BY <4>1, FS_Subset, DriverAssumption
      <4>3. Cardinality(Registered') \in Nat /\ Cardinality(Groups) \in Nat
        BY <4>1, FS_Subset, FS_CardinalityType, DriverAssumption
      <4> QED
        BY <4>2, <4>3, DriverAssumption
    <3>2. Cardinality(Registered') = Cardinality(Registered) + 1
      BY <1>2, JoinAdds
    <3>3. count' = IF count = Wrap - 1 THEN 0 ELSE count + 1
      BY <1>2 DEF Join
    <3>4. count = Cardinality(Registered)
      BY <2>1 DEF Counted
    <3> QED
      BY <3>1, <3>2, <3>3, <3>4, RegisteredFinite, DriverAssumption
  <2>3. /\ config' = [config EXCEPT !.multicast = TRUE]
        /\ filter' = config'
        /\ config = filter
    BY <1>2, <2>1 DEF Join, Counted
  <2>4. filter'.multicast /\ filter'.broadcast
    BY <2>3 DEF Counted, TypeOK, Filters
  <2>5. Registered' # {}
    BY <1>2, JoinAdds
  <2> QED
    BY <1>2, <2>1, <2>2, <2>3, <2>4, <2>5, JoinAdds DEF Counted
<1>3. ASSUME NEW g \in Groups, Leave(g) PROVE Counted'
  <2>1. state # "NOT_INITIALIZED" /\ state' = state
    BY <1>3, LeaveRemoves DEF Leave, Counted
  <2>2. Cardinality(Registered) > 0
    BY <1>3, LeaveRemoves, RegisteredFinite, FS_EmptySet
  <2>3. count' = Cardinality(Registered')
    <3>1. Cardinality(Registered') = Cardinality(Registered) - 1
      BY <1>3, LeaveRemoves
    <3>2. count' = IF count = 0 THEN Wrap - 1 ELSE count - 1
      BY <1>3 DEF Leave
    <3>3. count = Cardinality(Registered)
      BY <2>1 DEF Counted
    <3> QED
      BY <2>2, <3>1, <3>2, <3>3, RegisteredFinite
  <2>4. IsFiniteSet(Registered')
    BY <1>3, LeaveRemoves, RegisteredFinite, FS_RemoveElement
  <2>5. count' = 0 <=> Registered' = {}
    BY <2>3, <2>4, FS_EmptySet
  <2>6. CASE count' = 0
    <3>1. /\ config' = [config EXCEPT !.multicast = FALSE]
          /\ filter' = config'
          /\ config = filter
      BY <1>3, <2>1, <2>6 DEF Leave, Counted
    <3>2. ~filter'.multicast /\ filter'.broadcast
      BY <3>1 DEF Counted, TypeOK, Filters
    <3> QED
      BY <2>1, <2>3, <2>5, <2>6, <3>1, <3>2 DEF Counted
  <2>7. CASE count' # 0
    BY <1>3, <2>1, <2>3, <2>5, <2>7, LeaveRemoves DEF Leave, Counted
  <2> QED
    BY <2>6, <2>7
<1>4. ASSUME NEW g \in Groups, JoinAgain(g) \/ LeaveOnce(g) PROVE Counted'
  BY <1>4, AgainKeeps DEF JoinAgain, LeaveOnce, Counted
<1>5. CASE
    \/ EnableStarts \/ EnableIsIgnored \/ StartsDma \/ EnableEnds
    \/ DisableStops \/ DisableEnds \/ DisableIsIgnored
    \/ PhyChanges \/ DmaFaults \/ IsrError
    \/ UNCHANGED vars
  <2>1. UNCHANGED mcVars
    BY <1>5 DEF EnableStarts, EnableIsIgnored, StartsDma, EnableEnds, DisableStops,
      DisableEnds, DisableIsIgnored, PhyChanges, DmaFaults, IsrError, vars
  <2>2. state' = "NOT_INITIALIZED" <=> state = "NOT_INITIALIZED"
    BY <1>5 DEF EnableStarts, EnableIsIgnored, StartsDma, EnableEnds, DisableStops,
      DisableEnds, DisableIsIgnored, PhyChanges, DmaFaults, IsrError, vars,
      Steps, haltVars
  <2>3. Registered' = Registered /\ UNCHANGED <<count, config, filter>>
    BY <2>1 DEF Registered, mcVars
  <2> QED
    BY <2>2, <2>3 DEF Counted
<1> QED
  BY <1>1, <1>2, <1>3, <1>4, <1>5 DEF Next

(* The counter that is never guarded against underflow needs no guard: it  *)
(* counts the groups of NetX, and the filter of the MAC follows it.        *)
THEOREM FilterCorrect ==
  ASSUME ~EarlyJoins
  PROVE  Spec => []FilterMatchesGroups
<1>1. Spec => []Counted
  <2>1. Init => Counted
    BY InitCounted
  <2>2. IInv /\ Counted /\ [Next]_vars => Counted'
    BY NextCounted
  <2> QED
    BY <2>1, <2>2, Invariance, PTL DEF Spec
<1>2. Counted => FilterMatchesGroups
  BY DEF Counted, FilterMatchesGroups
<1> QED
  BY <1>1, <1>2, PTL
-----------------------------------------------------------------------------
LEMMA LinkInit == Init => Link!Init
BY DriverAssumption DEF Init, Link!Init

LEMMA LinkNext == IInv /\ [Next]_vars => [Link!Next]_(Link!vars)
<1> SUFFICES ASSUME IInv, [Next]_vars PROVE [Link!Next]_(Link!vars)
  OBVIOUS
<1> USE DEF IInv, Link!vars
<1>1. CASE Initialize
  <2>1. step = "idle"
    BY <1>1 DEF Initialize, TypeOK, Steps
  <2> QED
    BY <1>1, <2>1 DEF Initialize, Link!Next, Link!Initialize, haltVars
<1>2. CASE EnableStarts \/ EnableIsIgnored
  BY <1>2 DEF EnableStarts, EnableIsIgnored, Link!Next, Link!Enable, haltVars
<1>3. CASE StartsDma \/ EnableEnds \/ DisableStops
  BY <1>3 DEF StartsDma, EnableEnds, DisableStops, Steps
<1>4. CASE DisableEnds \/ DisableIsIgnored
  BY <1>4 DEF DisableEnds, DisableIsIgnored, Steps, Link!Next, Link!Disable,
              haltVars
<1>5. ASSUME NEW g \in Groups, JoinAgain(g) \/ Join(g) \/ LeaveOnce(g) \/ Leave(g)
      PROVE  UNCHANGED Link!vars
  BY <1>5 DEF JoinAgain, Join, LeaveOnce, Leave, haltVars
<1>6. CASE PhyChanges
  BY <1>6 DEF PhyChanges, Link!Next, Link!LinkChanges, haltVars
<1>7. CASE DmaFaults \/ IsrError \/ UNCHANGED vars
  BY <1>7 DEF DmaFaults, IsrError, vars, haltVars
<1> QED
  BY <1>1, <1>2, <1>3, <1>4, <1>5, <1>6, <1>7 DEF Next

(* The driver implements the atomic commands that NetworkThread assumes:   *)
(* initial states map to initial states, every step to a step or to none.  *)
THEOREM DriverImplementsLink == Spec => ImplementsLinkDriver
BY LinkInit, LinkNext, Invariance, PTL DEF Spec, ImplementsLinkDriver, Link!Spec
=============================================================================
