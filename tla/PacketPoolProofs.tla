------------------------- MODULE PacketPoolProofs --------------------------
(***************************************************************************)
(* The packet pool, for every set of threads, objects and packets.         *)
(*                                                                         *)
(* Waiting.  The suspension list is changed by a thread that begins to     *)
(* wait, by one that releases a packet and by the timer interrupt; between *)
(* the moment a thread is taken from the list and the moment it gets its   *)
(* packet it is in no list at all.                                         *)
(*                                                                         *)
(* Ownership.  A packet goes from hand to hand: the pool, a variable of a  *)
(* call, another packet's link, an object, what NetX holds, and back.      *)
(* Every step moves at most two packets, each from one place to another    *)
(* that loses what it had; so no packet is ever in two places.             *)
(*                                                                         *)
(* Chains.  Follow, SumAlong and Left are defined by recursion; what they  *)
(* are is shown by counting up from one number to another (CountingUp).    *)
(* Packets that are linked one behind the other form a sequence without    *)
(* repetition (ChainInjective), and that is what Follow yields             *)
(* (FollowIsChain).  A chain is complete when it is as PacketPool's Whole  *)
(* says.  The helpers of _nx_packet_data_append keep it so: the list of    *)
(* new packets grows packet by packet (CollectFirst, CollectList), linked  *)
(* behind a complete chain it makes it ready (LinkReady), and the data     *)
(* makes a ready chain complete again (FillDone).  OffsetMoved is the last *)
(* step of _nx_packet_copy.                                                *)
(***************************************************************************)
EXTENDS PacketPool, Integers, SequenceTheorems, FiniteSetTheorems, TLAPS

(* Records of calls have the fields of Idle, whatever they hold. *)
IsCall(c) == DOMAIN c = DOMAIN Idle

Shape ==
  /\ DOMAIN call = Callers
  /\ \A t \in Callers : IsCall(call[t])

InHand(t) == \E u \in Callers : call[u].pc = "give" /\ call[u].to = {t}

(* The suspension list: nobody is in it twice, whoever is in it is         *)
(* suspended and can be timed out, and a packet is free only when it is    *)
(* empty.                                                                  *)
WaitingList ==
  /\ suspended \in Seq(Threads)
  /\ \A i, j \in 1..Len(suspended) : suspended[i] = suspended[j] => i = j
  /\ cleanup = ToSet(suspended)
  /\ suspended # <<>> => available = <<>>
  /\ \A t \in cleanup : call[t].pc = "suspended"

(* A suspended thread that has left the list is about to get its packet. *)
LeftIsServed ==
  \A t \in Threads :
    call[t].pc = "suspended" => t \in cleanup \/ InHand(t)

(* Who has a packet to give has disabled preemption, and the thread it is  *)
(* for still waits and cannot be timed out any more.                       *)
GivesToWaiting ==
  \A u \in Callers :
    call[u].pc = "give" =>
      /\ noPreempt = {u}
      /\ \E t \in Threads \ cleanup :
           call[u].to = {t} /\ call[t].pc = "suspended"

IInv == Shape /\ WaitingList /\ LeftIsServed /\ GivesToWaiting
-----------------------------------------------------------------------------
(* Sequences without repetition.                                           *)
NoneTwice(s) == \A i, j \in 1..Len(s) : s[i] = s[j] => i = j

LEMMA ElementsOfAppend ==
  ASSUME NEW S, NEW s \in Seq(S), NEW e \in S, NoneTwice(s), e \notin ToSet(s)
  PROVE  /\ Append(s, e) \in Seq(S)
         /\ ToSet(Append(s, e)) = ToSet(s) \cup {e}
         /\ NoneTwice(Append(s, e))
  BY DEF NoneTwice, ToSet

LEMMA ElementsOfTail ==
  ASSUME NEW S, NEW s \in Seq(S), s # <<>>, NoneTwice(s)
  PROVE  /\ Tail(s) \in Seq(S) /\ Head(s) \in ToSet(s)
         /\ ToSet(Tail(s)) = ToSet(s) \ {Head(s)}
         /\ NoneTwice(Tail(s))
  <1>1. /\ Len(s) \in Nat \ {0} /\ Head(s) = s[1]
        /\ Tail(s) \in Seq(S) /\ Len(Tail(s)) = Len(s) - 1
        /\ DOMAIN Tail(s) = 1..Len(Tail(s))
        /\ \A i \in 1..Len(Tail(s)) : Tail(s)[i] = s[i + 1]
    BY HeadTailProperties, EmptySeq, LenProperties
  <1>2. ToSet(Tail(s)) = ToSet(s) \ {Head(s)}
    <2>1. ASSUME NEW x \in ToSet(Tail(s)) PROVE x \in ToSet(s) \ {Head(s)}
      <3>1. PICK i \in 1..Len(Tail(s)) : x = Tail(s)[i]
        BY <1>1, <2>1 DEF ToSet
      <3>2. i + 1 \in 1..Len(s) /\ x = s[i + 1] /\ i + 1 # 1
        BY <1>1, <3>1
      <3>3. s[i + 1] # s[1]
        BY <1>1, <3>2 DEF NoneTwice
      <3>4. QED  BY <1>1, <3>2, <3>3 DEF ToSet
    <2>2. ASSUME NEW x \in ToSet(s), x # Head(s) PROVE x \in ToSet(Tail(s))
      <3>1. PICK i \in 1..Len(s) : x = s[i]
        BY <2>2 DEF ToSet
      <3>2. i - 1 \in 1..Len(Tail(s)) /\ x = Tail(s)[i - 1]
        BY <1>1, <2>2, <3>1
      <3>3. QED  BY <1>1, <3>2 DEF ToSet
    <2>3. QED  BY <2>1, <2>2
  <1>3. NoneTwice(Tail(s))
    <2>1. SUFFICES ASSUME NEW i \in 1..Len(Tail(s)), NEW j \in 1..Len(Tail(s)),
                          Tail(s)[i] = Tail(s)[j]
                   PROVE  i = j
      BY DEF NoneTwice
    <2>2. i + 1 \in 1..Len(s) /\ j + 1 \in 1..Len(s) /\ s[i + 1] = s[j + 1]
      BY <1>1, <2>1
    <2>3. QED  BY <2>2 DEF NoneTwice
  <1>4. Head(s) \in ToSet(s)
    BY <1>1 DEF ToSet
  <1>5. QED  BY <1>1, <1>2, <1>3, <1>4

LEMMA ElementsOfRemoveFirst ==
  ASSUME NEW S, NEW s \in Seq(S), NEW e \in ToSet(s), NoneTwice(s)
  PROVE  /\ RemoveFirst(s, e) \in Seq(S)
         /\ ToSet(RemoveFirst(s, e)) = ToSet(s) \ {e}
         /\ NoneTwice(RemoveFirst(s, e))
  <1>1. PICK k \in 1..Len(s) : s[k] = e
    BY DEF ToSet
  <1>2. {i \in 1..Len(s) : s[i] = e} = {k}
    BY <1>1 DEF NoneTwice
  <1> DEFINE r == RemoveAt(s, k)
  <1>3. RemoveFirst(s, e) = r
    BY <1>1, <1>2 DEF RemoveFirst, SelectInSeq, Min
  <1>4. /\ r \in Seq(S) /\ Len(r) = Len(s) - 1
        /\ \A i \in 1..Len(r) : r[i] = IF i < k THEN s[i] ELSE s[i + 1]
    <2> DEFINE a == SubSeq(s, 1, k - 1)
               b == SubSeq(s, k + 1, Len(s))
    <2>1. /\ a \in Seq(S) /\ Len(a) = k - 1
          /\ \A i \in 1..k-1 : a[i] = s[i]
      BY SubSeqProperties
    <2>2. /\ b \in Seq(S) /\ Len(b) = Len(s) - k
          /\ \A i \in 1..Len(s)-k : b[i] = s[k + i]
      BY SubSeqProperties
    <2> HIDE DEF a, b
    <2>3. /\ a \o b \in Seq(S) /\ Len(a \o b) = Len(a) + Len(b)
          /\ \A i \in 1..Len(a) + Len(b) :
               (a \o b)[i] = IF i <= Len(a) THEN a[i] ELSE b[i - Len(a)]
      BY <2>1, <2>2, ConcatProperties
    <2>4. r = a \o b
      BY DEF RemoveAt, a, b
    <2> HIDE DEF r
    <2>5. Len(r) = Len(s) - 1
      <3>1. Len(s) \in Nat /\ (k - 1) + (Len(s) - k) = Len(s) - 1
        BY LenProperties
      <3>2. Len(r) = Len(a) + Len(b)
        BY <2>3, <2>4, Zenon
      <3>3. QED  BY <2>1, <2>2, <3>1, <3>2
    <2>6. ASSUME NEW i \in 1..Len(r)
          PROVE  r[i] = IF i < k THEN s[i] ELSE s[i + 1]
      <3>1. r[i] = IF i <= k - 1 THEN a[i] ELSE b[i - (k - 1)]
        BY <2>1, <2>2, <2>3, <2>4, <2>5, <2>6
      <3>2. CASE i < k
        BY <2>1, <3>1, <3>2
      <3>3. CASE ~(i < k)
        <4>1. i - (k - 1) \in 1..Len(s)-k
          BY <2>5, <3>3
        <4>2. b[i - (k - 1)] = s[i + 1]
          BY <2>2, <4>1
        <4>3. QED  BY <3>1, <3>3, <4>2
      <3>4. QED  BY <3>2, <3>3
    <2>7. QED  BY <2>3, <2>4, <2>5, <2>6
  <1> HIDE DEF r
  <1>5. ToSet(r) = ToSet(s) \ {e}
    <2>1. ASSUME NEW x \in ToSet(r) PROVE x \in ToSet(s) \ {e}
      <3>1. PICK i \in 1..Len(r) : x = r[i]
        BY <1>4, <2>1 DEF ToSet
      <3>2. PICK j \in 1..Len(s) : x = s[j] /\ j # k
        BY <1>4, <3>1
      <3>3. QED  BY <1>1, <3>2 DEF ToSet, NoneTwice
    <2>2. ASSUME NEW x \in ToSet(s), x # e PROVE x \in ToSet(r)
      <3>1. PICK i \in 1..Len(s) : x = s[i] /\ i # k
        BY <1>1, <2>2 DEF ToSet
      <3>2. PICK j \in 1..Len(r) : x = r[j]
        <4>1. CASE i < k
          BY <1>4, <3>1, <4>1
        <4>2. CASE i > k
          <5>1. i - 1 \in 1..Len(r) /\ r[i - 1] = s[i]
            BY <1>4, <3>1, <4>2
          <5>2. QED  BY <3>1, <5>1
        <4>3. QED  BY <3>1, <4>1, <4>2
      <3>3. QED  BY <1>4, <3>2 DEF ToSet
    <2>3. QED  BY <2>1, <2>2
  <1>6. NoneTwice(r)
    <2>1. SUFFICES ASSUME NEW i \in 1..Len(r), NEW j \in 1..Len(r), r[i] = r[j]
                   PROVE  i = j
      BY DEF NoneTwice
    <2>2. \A m \in 1..Len(r) :
            /\ m \in 1..Len(s) /\ m + 1 \in 1..Len(s)
            /\ m < k => r[m] = s[m]
            /\ ~(m < k) => r[m] = s[m + 1]
      BY <1>4
    <2>3. CASE i < k /\ j < k
      BY <2>1, <2>2, <2>3 DEF NoneTwice
    <2>4. CASE i < k /\ ~(j < k)
      <3>1. s[i] = s[j + 1] /\ i \in 1..Len(s) /\ j + 1 \in 1..Len(s)
        BY <2>1, <2>2, <2>4
      <3>2. i = j + 1
        BY <3>1 DEF NoneTwice
      <3>3. QED  BY <2>4, <3>2
    <2>5. CASE ~(i < k) /\ j < k
      <3>1. s[i + 1] = s[j] /\ i + 1 \in 1..Len(s) /\ j \in 1..Len(s)
        BY <2>1, <2>2, <2>5
      <3>2. i + 1 = j
        BY <3>1 DEF NoneTwice
      <3>3. QED  BY <2>5, <3>2
    <2>6. CASE ~(i < k) /\ ~(j < k)
      <3>1. s[i + 1] = s[j + 1] /\ i + 1 \in 1..Len(s) /\ j + 1 \in 1..Len(s)
        BY <2>1, <2>2, <2>6
      <3>2. i + 1 = j + 1
        BY <3>1 DEF NoneTwice
      <3>3. QED  BY <3>2
    <2>7. QED  BY <2>3, <2>4, <2>5, <2>6
  <1>7. QED  BY <1>3, <1>4, <1>5, <1>6
-----------------------------------------------------------------------------
(* Where a call is when it goes on, wherever its packets are.              *)
Runnable(c) == c.pc \notin {"suspended", "give"}

LEMMA IdleIsCall == IsCall(Idle) /\ Runnable(Idle)
  BY DEF IsCall, Idle, Runnable

(* A release goes on with the next packet, or the call is over. *)
LEMMA ReleasingIsCall ==
  ASSUME NEW c, IsCall(c), NEW p
  PROVE  IsCall(Releasing(c, p)) /\ Runnable(Releasing(c, p))
  BY IdleIsCall DEF IsCall, Idle, Releasing, Runnable

LEMMA AbandonedIsCall ==
  ASSUME NEW c, IsCall(c)
  PROVE  IsCall(Abandoned(c)) /\ Runnable(Abandoned(c))
  <1>1. /\ IsCall([c EXCEPT !.list = NoPacket])
        /\ IsCall([c EXCEPT !.target = NoPacket])
    BY DEF IsCall
  <1>2. QED  BY <1>1, IdleIsCall, ReleasingIsCall DEF Abandoned

LEMMA OnwardIsCall ==
  ASSUME NEW c, IsCall(c)
  PROVE  IsCall(Onward(c)) /\ Runnable(Onward(c))
  <1>1. IsCall([c EXCEPT !.free = NoPacket, !.to = {}])
    BY DEF IsCall
  <1>2. QED
    BY <1>1, IdleIsCall, ReleasingIsCall, AbandonedIsCall DEF Onward
-----------------------------------------------------------------------------
LEMMA InitIInv == Init => IInv
  <1> SUFFICES ASSUME Init PROVE IInv
    OBVIOUS
  <1>1. \A t \in Callers : call[t] = Idle
    BY DEF Init
  <1>2. Shape
    BY <1>1 DEF Init, Shape, IsCall
  <1>3. WaitingList
    BY DEF Init, WaitingList, ToSet
  <1>4. LeftIsServed /\ GivesToWaiting
    BY <1>1 DEF LeftIsServed, GivesToWaiting, Idle, Callers
  <1>5. QED  BY <1>2, <1>3, <1>4 DEF IInv

(* A thread that goes on disturbs nobody who waits. *)
LEMMA RunsOn ==
  ASSUME IInv, NEW t \in Callers, Runnable(call[t]),
         NEW c, IsCall(c), Runnable(c), Goes(t, c), UNCHANGED queueVars,
         suspended # <<>> => available' = available
  PROVE  IInv'
  <1>1. /\ UNCHANGED <<suspended, cleanup, noPreempt>>
        /\ DOMAIN call' = Callers /\ call'[t] = c
        /\ \A u \in Callers : u # t => call'[u] = call[u]
    BY DEF queueVars, Goes, IInv, Shape
  <1>2. Shape'
    BY <1>1 DEF IInv, Shape, IsCall
  <1>3. WaitingList'
    BY <1>1 DEF IInv, WaitingList, Runnable, ToSet, Callers
  <1>4. LeftIsServed'
    BY <1>1 DEF IInv, LeftIsServed, InHand, Runnable, Callers
  <1>5. GivesToWaiting'
    BY <1>1 DEF IInv, GivesToWaiting, Runnable, Callers
  <1>6. QED  BY <1>2, <1>3, <1>4, <1>5 DEF IInv

(* Nor does a step that is no part of a call. *)
LEMMA CallsUnchanged ==
  ASSUME IInv, UNCHANGED <<queueVars, call>>,
         suspended # <<>> => available' = available
  PROVE  IInv'
  <1>1. UNCHANGED <<suspended, cleanup, noPreempt, call>>
    BY DEF queueVars
  <1>2. Shape'
    BY <1>1 DEF IInv, Shape
  <1>3. WaitingList'
    BY <1>1 DEF IInv, WaitingList, ToSet
  <1>4. LeftIsServed'
    BY <1>1 DEF IInv, LeftIsServed, InHand
  <1>5. GivesToWaiting'
    BY <1>1 DEF IInv, GivesToWaiting
  <1>6. QED  BY <1>2, <1>3, <1>4, <1>5 DEF IInv

(* While a thread runs that gives nothing, nobody gives. *)
LEMMA NobodyGives ==
  ASSUME IInv, NEW t \in Callers, Runs(t), call[t].pc # "give"
  PROVE  \A u \in Callers : call[u].pc # "give"
  BY DEF IInv, GivesToWaiting, Runs

(* A thread that finds no packet joins the list. *)
LEMMA SuspendStep ==
  ASSUME IInv, NEW t \in Threads, Runs(t), Runnable(call[t]),
         NEW c, IsCall(c), Suspend(t, c)
  PROVE  IInv'
  <1>1. t \in Callers
    BY DEF Callers
  <1>2. /\ available = <<>> /\ available' = available /\ noPreempt' = noPreempt
        /\ suspended' = Append(suspended, t) /\ cleanup' = cleanup \cup {t}
    BY DEF Suspend
  <1>3. /\ DOMAIN call' = Callers
        /\ IsCall(call'[t]) /\ call'[t].pc = "suspended"
        /\ \A u \in Callers : u # t => call'[u] = call[u]
    <2>1. IsCall([c EXCEPT !.pc = "suspended"])
          /\ [c EXCEPT !.pc = "suspended"].pc = "suspended"
      BY DEF IsCall, Idle
    <2>2. QED  BY <1>1, <2>1 DEF Suspend, Goes, IInv, Shape
  <1>4. \A u \in Callers : call[u].pc # "give"
    BY <1>1, NobodyGives DEF Runnable
  <1>5. Shape'
    BY <1>3 DEF IInv, Shape, IsCall
  <1>6. WaitingList'
    <2>1. suspended \in Seq(Threads) /\ t \notin ToSet(suspended)
          /\ NoneTwice(suspended)
      BY DEF IInv, WaitingList, Runnable, NoneTwice
    <2>2. /\ suspended' \in Seq(Threads) /\ NoneTwice(suspended')
          /\ cleanup' = ToSet(suspended')
      BY <1>2, <2>1, ElementsOfAppend DEF IInv, WaitingList
    <2>3. \A u \in cleanup' : call'[u].pc = "suspended"
      BY <1>2, <1>3, <2>1 DEF IInv, WaitingList, Callers, ToSet
    <2>4. QED  BY <1>2, <2>2, <2>3 DEF WaitingList, NoneTwice, ToSet
  <1>7. LeftIsServed'
    <2>1. SUFFICES ASSUME NEW y \in Threads, call'[y].pc = "suspended"
                   PROVE  y \in cleanup'
      BY DEF LeftIsServed
    <2>2. y \in Callers /\ (y = t \/ call[y].pc = "suspended")
      BY <1>3, <2>1 DEF Callers
    <2>3. QED  BY <1>2, <1>4, <2>2 DEF IInv, LeftIsServed, InHand
  <1>8. GivesToWaiting'
    BY <1>3, <1>4 DEF GivesToWaiting
  <1>9. QED  BY <1>5, <1>6, <1>7, <1>8 DEF IInv

(* The timer takes only a thread that nobody has taken from the list. *)
LEMMA TimeoutStep ==
  ASSUME IInv, NEW t \in Threads, Timeout(t)
  PROVE  IInv'
  <1>1. /\ t \in Callers /\ t \in cleanup /\ t \in ToSet(suspended)
        /\ suspended \in Seq(Threads) /\ NoneTwice(suspended)
    BY DEF Timeout, Callers, IInv, WaitingList, NoneTwice
  <1>2. /\ UNCHANGED <<available, noPreempt>>
        /\ suspended' = RemoveFirst(suspended, t) /\ cleanup' = cleanup \ {t}
    BY DEF Timeout
  <1>3. /\ DOMAIN call' = Callers
        /\ IsCall(call'[t]) /\ call'[t].pc = "allocated"
        /\ \A u \in Callers : u # t => call'[u] = call[u]
    <2>1. IsCall([call[t] EXCEPT !.pc = "allocated"])
          /\ [call[t] EXCEPT !.pc = "allocated"].pc = "allocated"
      BY <1>1 DEF IInv, Shape, IsCall, Idle
    <2>2. QED  BY <1>1, <2>1 DEF Timeout, Goes, IInv, Shape
  <1>4. Shape'
    BY <1>3 DEF IInv, Shape, IsCall
  <1>5. WaitingList'
    <2>1. /\ suspended' \in Seq(Threads) /\ NoneTwice(suspended')
          /\ cleanup' = ToSet(suspended')
      BY <1>1, <1>2, ElementsOfRemoveFirst DEF IInv, WaitingList
    <2>2. available' = <<>>
      BY <1>1, <1>2 DEF IInv, WaitingList, ToSet
    <2>3. \A u \in cleanup' : call'[u].pc = "suspended"
      BY <1>1, <1>2, <1>3 DEF IInv, WaitingList, Callers, ToSet
    <2>4. QED  BY <2>1, <2>2, <2>3 DEF WaitingList, NoneTwice, ToSet
  <1>6. LeftIsServed'
    <2>1. SUFFICES ASSUME NEW y \in Threads, call'[y].pc = "suspended"
                   PROVE  y \in cleanup' \/ InHand(y)'
      BY DEF LeftIsServed
    <2>2. y \in Callers /\ y # t /\ call[y].pc = "suspended"
      BY <1>3, <2>1 DEF Callers
    <2>3. CASE y \in cleanup
      BY <1>2, <2>2, <2>3
    <2>4. CASE y \notin cleanup
      <3>1. PICK u \in Callers : call[u].pc = "give" /\ call[u].to = {y}
        BY <2>2, <2>4 DEF IInv, LeftIsServed, InHand
      <3>2. u # t
        BY <3>1 DEF Timeout
      <3>3. QED  BY <1>3, <3>1, <3>2 DEF InHand
    <2>5. QED  BY <2>3, <2>4
  <1>7. GivesToWaiting'
    BY <1>1, <1>2, <1>3 DEF IInv, GivesToWaiting, Callers
  <1>8. QED  BY <1>4, <1>5, <1>6, <1>7 DEF IInv

(* A release takes the first thread from the list: from then on it cannot  *)
(* be timed out, and is in hand.                                           *)
LEMMA UnqueueStep ==
  ASSUME IInv, NEW t \in Callers, Unqueue(t)
  PROVE  IInv'
  <1> DEFINE x == Head(suspended)
  <1>1. /\ suspended # <<>> /\ suspended \in Seq(Threads) /\ NoneTwice(suspended)
        /\ suspended' = Tail(suspended) /\ cleanup' = cleanup \ {x}
        /\ noPreempt' = {t} /\ available' = available /\ call[t].pc = "put"
    BY DEF Unqueue, At, IInv, WaitingList, NoneTwice
  <1>2. /\ x \in cleanup /\ x \in Threads /\ x \in Callers
        /\ call[x].pc = "suspended"
    BY <1>1, ElementsOfTail DEF IInv, WaitingList, Callers, ToSet
  <1>3. /\ DOMAIN call' = Callers
        /\ IsCall(call'[t]) /\ call'[t].pc = "give" /\ call'[t].to = {x}
        /\ \A u \in Callers : u # t => call'[u] = call[u]
    <2>1. /\ IsCall([call[t] EXCEPT !.pc = "give", !.to = {x}])
          /\ [call[t] EXCEPT !.pc = "give", !.to = {x}].pc = "give"
          /\ [call[t] EXCEPT !.pc = "give", !.to = {x}].to = {x}
      BY DEF IInv, Shape, IsCall, Idle
    <2>2. QED  BY <2>1 DEF Unqueue, Goes, IInv, Shape
  <1>4. \A u \in Callers : call[u].pc # "give"
    BY <1>1, NobodyGives DEF Unqueue, At
  <1> HIDE DEF x
  <1>5. Shape'
    BY <1>3 DEF IInv, Shape, IsCall
  <1>6. WaitingList'
    <2>1. /\ suspended' \in Seq(Threads) /\ NoneTwice(suspended')
          /\ cleanup' = ToSet(suspended')
      BY <1>1, ElementsOfTail DEF IInv, WaitingList, x
    <2>2. available' = <<>>
      BY <1>1 DEF IInv, WaitingList
    <2>3. \A u \in cleanup' : call'[u].pc = "suspended"
      BY <1>1, <1>3 DEF IInv, WaitingList, Callers, ToSet
    <2>4. QED  BY <2>1, <2>2, <2>3 DEF WaitingList, NoneTwice, ToSet
  <1>7. LeftIsServed'
    <2>1. SUFFICES ASSUME NEW y \in Threads, call'[y].pc = "suspended"
                   PROVE  y \in cleanup' \/ InHand(y)'
      BY DEF LeftIsServed
    <2>2. y \in Callers /\ y \in cleanup
      BY <1>1, <1>3, <1>4, <2>1 DEF IInv, LeftIsServed, InHand, Callers
    <2>3. QED  BY <1>1, <1>3, <2>2 DEF InHand
  <1>8. GivesToWaiting'
    BY <1>1, <1>2, <1>3, <1>4 DEF GivesToWaiting
  <1>9. QED  BY <1>5, <1>6, <1>7, <1>8 DEF IInv

(* The thread in hand gets the packet, and preemption is enabled again. *)
LEMMA GiveStep ==
  ASSUME IInv, NEW t \in Callers, Give(t)
  PROVE  IInv'
  <1>1. PICK x \in Threads \ cleanup :
          call[t].to = {x} /\ call[x].pc = "suspended" /\ noPreempt = {t}
    BY DEF Give, At, IInv, GivesToWaiting
  <1>2. x \in Callers /\ x # t /\ call[t].pc = "give"
    BY <1>1 DEF Callers, Give, At
  <1>3. /\ UNCHANGED <<available, suspended, cleanup>> /\ noPreempt' = {}
    BY DEF Give
  <1>4. /\ DOMAIN call' = Callers
        /\ IsCall(call'[x]) /\ call'[x].pc = "allocated"
        /\ IsCall(call'[t]) /\ Runnable(call'[t])
        /\ \A u \in Callers : u # t /\ u # x => call'[u] = call[u]
    <2> DEFINE got == [call[x] EXCEPT !.pc = "allocated", !.got = call[t].free]
    <2>1. call' = [call EXCEPT ![x] = got, ![t] = Onward(call[t])]
      BY <1>1, <1>2 DEF Give, IInv, Shape
    <2>2. IsCall(got) /\ got.pc = "allocated"
      BY <1>2 DEF IInv, Shape, IsCall, Idle
    <2>3. IsCall(Onward(call[t])) /\ Runnable(Onward(call[t]))
      BY OnwardIsCall DEF IInv, Shape
    <2> HIDE DEF got
    <2>4. QED  BY <1>2, <2>1, <2>2, <2>3 DEF IInv, Shape
  <1>5. \A u \in Callers : u # t => call[u].pc # "give"
    BY <1>1 DEF IInv, GivesToWaiting
  <1>6. Shape'
    BY <1>4 DEF IInv, Shape, IsCall
  <1>7. WaitingList'
    <2>1. \A u \in cleanup : u \in Callers /\ u # x /\ u # t
      BY <1>1, <1>2 DEF IInv, WaitingList, Callers, ToSet
    <2>2. \A u \in cleanup' : call'[u].pc = "suspended"
      BY <1>3, <1>4, <2>1 DEF IInv, WaitingList
    <2>3. QED  BY <1>3, <2>2 DEF IInv, WaitingList, ToSet
  <1>8. LeftIsServed'
    <2>1. SUFFICES ASSUME NEW y \in Threads, call'[y].pc = "suspended"
                   PROVE  y \in cleanup'
      BY DEF LeftIsServed
    <2>2. y # x /\ y # t /\ y \in Callers /\ call[y].pc = "suspended"
      BY <1>2, <1>4, <2>1 DEF Runnable, Callers
    <2>3. ~InHand(y)
      BY <1>1, <1>5, <2>2 DEF InHand
    <2>4. QED  BY <1>3, <2>2, <2>3 DEF IInv, LeftIsServed
  <1>9. GivesToWaiting'
    BY <1>2, <1>4, <1>5 DEF GivesToWaiting, Runnable
  <1>10. QED  BY <1>6, <1>7, <1>8, <1>9 DEF IInv

(* An allocation, whatever its outcome. *)
LEMMA AllocateStep ==
  ASSUME IInv, NEW t \in Threads, Runs(t), Runnable(call[t]),
         NEW c, IsCall(c), Allocate(t, c)
  PROVE  IInv'
  <1> t \in Callers
    BY DEF Callers
  <1>1. CASE Take(t, c)
    <2>1. suspended = <<>> /\ UNCHANGED queueVars
          /\ Goes(t, [c EXCEPT !.pc = "allocated", !.got = Head(available)])
      BY <1>1 DEF Take, IInv, WaitingList
    <2>2. /\ IsCall([c EXCEPT !.pc = "allocated", !.got = Head(available)])
          /\ Runnable([c EXCEPT !.pc = "allocated", !.got = Head(available)])
      BY DEF IsCall, Idle, Runnable
    <2>3. QED  BY <2>1, <2>2, RunsOn
  <1>2. CASE FindNone(t, c)
    <2>1. /\ IsCall([c EXCEPT !.pc = "allocated"])
          /\ Runnable([c EXCEPT !.pc = "allocated"])
      BY DEF IsCall, Idle, Runnable
    <2>2. /\ Goes(t, [c EXCEPT !.pc = "allocated"])
          /\ UNCHANGED queueVars /\ available' = available
      BY <1>2 DEF FindNone, poolVars
    <2>3. QED  BY <2>1, <2>2, RunsOn
  <1>3. CASE Suspend(t, c)
    BY <1>3, SuspendStep
  <1>4. QED  BY <1>1, <1>2, <1>3 DEF Allocate

(* What an application calls. *)
LEMMA CallStep ==
  ASSUME IInv, NEW t \in Threads, Call(t)
  PROVE  IInv'
  <1>1. t \in Callers /\ IsCall(call[t])
    BY DEF Callers, IInv, Shape
  <1>2. PICK o \in ObjectsOf[t] :
          \/ \E type \in Offsets, wait \in WaitsOf[t] : CallAllocate(t, o, type, wait)
          \/ \E size \in Sizes, wait \in WaitsOf[t] : CallAppend(t, o, size, wait)
          \/ \E wait \in WaitsOf[t] : CallCopy(t, o, wait)
          \/ CallRelease(t, o)
          \/ Send(t, o)
          \/ \E p \in received : Adopt(t, o, p)
    BY DEF Call
  <1>3. Runs(t) /\ call[t].pc = "idle" /\ Runnable(call[t])
    BY <1>2 DEF CallAllocate, CallAppend, CallCopy, CallRelease, Send, Adopt, At, Runnable
  <1>4. ASSUME NEW type, NEW wait, CallAllocate(t, o, type, wait) PROVE IInv'
    <2>1. PICK c : IsCall(c) /\ Allocate(t, c)
      BY <1>4 DEF CallAllocate, IsCall
    <2>2. QED  BY <1>3, <2>1, AllocateStep
  <1>5. ASSUME NEW size, NEW wait, CallAppend(t, o, size, wait) PROVE IInv'
    <2>1. PICK c : IsCall(c) /\ Runnable(c) /\ Goes(t, c)
      BY <1>5 DEF CallAppend, IsCall, Runnable, Idle
    <2>2. QED  BY <1>1, <1>3, <1>5, <2>1, RunsOn DEF CallAppend, poolVars
  <1>6. ASSUME NEW wait, CallCopy(t, o, wait) PROVE IInv'
    <2>1. PICK c : IsCall(c) /\ Allocate(t, c)
      BY <1>6 DEF CallCopy, IsCall
    <2>2. QED  BY <1>3, <2>1, AllocateStep
  <1>7. CASE CallRelease(t, o)
    <2>1. IsCall([Idle EXCEPT !.op = "release", !.obj = {o}])
      BY DEF IsCall
    <2>2. PICK c : IsCall(c) /\ Runnable(c) /\ Goes(t, c)
      BY <1>7, <2>1, ReleasingIsCall DEF CallRelease
    <2>3. QED  BY <1>1, <1>3, <1>7, <2>2, RunsOn DEF CallRelease, poolVars
  <1>8. ASSUME UNCHANGED <<poolVars, call>> PROVE IInv'
    BY <1>8, CallsUnchanged DEF poolVars
  <1>9. QED  BY <1>2, <1>4, <1>5, <1>6, <1>7, <1>8 DEF Send, Adopt

(* What the library and NetX do in a call. *)
LEMMA GoOnStep ==
  ASSUME IInv, NEW t \in Threads, Step(t)
  PROVE  IInv'
  <1>1. t \in Callers /\ IsCall(call[t])
    BY DEF Callers, IInv, Shape
  <1> DEFINE Onwards == \E c : IsCall(c) /\ Runnable(c) /\ Goes(t, c)
  <1>2. CASE Extend(t)
    BY <1>1, <1>2, AllocateStep DEF Extend, At, Runnable
  <1>3. CASE Unqueue(t)
    BY <1>1, <1>3, UnqueueStep
  <1>4. CASE Give(t)
    BY <1>1, <1>4, GiveStep
  <1>5. ASSUME Onwards, Runnable(call[t]), UNCHANGED queueVars,
               suspended # <<>> => available' = available
        PROVE  IInv'
    BY <1>1, <1>5, RunsOn
  <1>6. CASE EndAllocate(t)
    BY <1>5, <1>6, IdleIsCall DEF EndAllocate, At, Runnable, poolVars
  <1>7. CASE Link(t)
    <2>1. IsCall([call[t] EXCEPT !.pc = "fill", !.list = NoPacket])
          /\ Runnable([call[t] EXCEPT !.pc = "fill", !.list = NoPacket])
      BY <1>1 DEF IsCall, Runnable, Idle
    <2>2. QED  BY <1>5, <1>7, <2>1 DEF Link, At, Runnable, poolVars
  <1>8. CASE Fill(t)
    <2>1. PICK source : Goes(t, IF call[t].op = "append" THEN Idle
                                ELSE [call[t] EXCEPT !.pc = "copy", !.source = source])
      BY <1>8 DEF Fill
    <2>2. IsCall([call[t] EXCEPT !.pc = "copy", !.source = source])
          /\ Runnable([call[t] EXCEPT !.pc = "copy", !.source = source])
      BY <1>1 DEF IsCall, Runnable, Idle
    <2>3. Onwards
      BY <2>1, <2>2, IdleIsCall
    <2>4. QED  BY <1>5, <1>8, <2>3 DEF Fill, At, Runnable, poolVars
  <1>9. CASE Collect(t)
    <2>1. Onwards
      BY <1>1, <1>9 DEF Collect, IsCall, Runnable, Idle
    <2>2. QED  BY <1>5, <1>9, <2>1 DEF Collect, At, Runnable, poolVars
  <1>10. CASE GiveUp(t)
    <2>1. Onwards
      BY <1>1, <1>10, AbandonedIsCall DEF GiveUp
    <2>2. QED  BY <1>5, <1>10, <2>1 DEF GiveUp, At, Runnable, poolVars
  <1>11. CASE StartCopy(t)
    <2>1. Onwards
      BY <1>1, <1>11 DEF StartCopy, IsCall, Runnable, Idle
    <2>2. QED  BY <1>5, <1>11, <2>1 DEF StartCopy, At, Runnable, poolVars
  <1>12. CASE CopyNext(t)
    <2>1. Onwards
      BY <1>1, <1>12 DEF CopyNext, IsCall, Runnable, Idle
    <2>2. QED  BY <1>5, <1>12, <2>1 DEF CopyNext, At, Runnable, poolVars
  <1>13. CASE EndCopy(t)
    <2>1. Onwards
      BY <1>1, <1>13, AbandonedIsCall, IdleIsCall DEF EndCopy
    <2>2. QED  BY <1>5, <1>13, <2>1 DEF EndCopy, At, Runnable, poolVars
  <1>14. CASE PutBack(t)
    <2>1. Onwards
      BY <1>1, <1>14, OnwardIsCall DEF PutBack
    <2>2. QED  BY <1>5, <1>14, <2>1 DEF PutBack, At, Runnable
  <1>15. QED
    BY <1>2, <1>3, <1>4, <1>6, <1>7, <1>8, <1>9, <1>10, <1>11, <1>12, <1>13, <1>14
       DEF Step

(* What the IP thread does: it never waits for a packet. *)
LEMMA StackStep ==
  ASSUME IInv, IpStep \/ (\E size \in FrameSizes : Receive(size))
                     \/ (\E p \in Packets : StackRelease(p))
  PROVE  IInv'
  <1>1. IpThread \in Callers /\ IsCall(call[IpThread])
    BY DEF Callers, IInv, Shape
  <1>2. CASE PutBack(IpThread)
    <2>1. Runnable(call[IpThread]) /\ suspended = <<>> /\ UNCHANGED queueVars
          /\ Goes(IpThread, Onward(call[IpThread]))
      BY <1>2 DEF PutBack, At, Runnable
    <2>2. QED  BY <1>1, <2>1, OnwardIsCall, RunsOn
  <1>3. CASE Unqueue(IpThread) \/ Give(IpThread)
    BY <1>1, <1>3, UnqueueStep, GiveStep
  <1>4. ASSUME NEW size, Receive(size) PROVE IInv'
    <2>1. suspended = <<>> /\ UNCHANGED <<queueVars, call>>
      BY <1>4 DEF Receive, IInv, WaitingList
    <2>2. QED  BY <2>1, CallsUnchanged
  <1>5. ASSUME NEW p \in Packets, StackRelease(p) PROVE IInv'
    <2>1. IsCall([Idle EXCEPT !.op = "stack"])
      BY DEF IsCall
    <2>2. PICK c : IsCall(c) /\ Runnable(c) /\ Goes(IpThread, c)
      BY <1>5, <2>1, ReleasingIsCall DEF StackRelease
    <2>3. QED  BY <1>1, <1>5, <2>2, RunsOn DEF StackRelease, poolVars, At, Runnable
  <1>6. QED  BY <1>2, <1>3, <1>4, <1>5 DEF IpStep

LEMMA KeepsIInv == IInv /\ [Next]_vars => IInv'
  <1> SUFFICES ASSUME IInv, [Next]_vars PROVE IInv'
    OBVIOUS
  <1>1. CASE Next
    BY <1>1, CallStep, GoOnStep, TimeoutStep, StackStep DEF Next
  <1>2. CASE UNCHANGED vars
    BY <1>2, CallsUnchanged DEF vars, queueVars, poolVars
  <1>3. QED  BY <1>1, <1>2

(* The inductive invariant of waiting. *)
THEOREM Invariance == SafeSpec => []IInv
  BY InitIInv, KeepsIInv, PTL DEF SafeSpec

(* No thread is forgotten: nobody waits while there is a free packet, and  *)
(* a suspended thread can be reached by the next release and by its own    *)
(* timeout, or a release has it in hand - whatever releases and timeouts   *)
(* interrupt each other.                                                   *)
THEOREM NobodyForgotten == SafeSpec => []NobodyWaitsInVain
  <1>1. IInv => NobodyWaitsInVain
    BY DEF IInv, WaitingList, LeftIsServed, InHand, NobodyWaitsInVain
  <1>2. QED  BY Invariance, <1>1, PTL
-----------------------------------------------------------------------------
(* Where a packet can be: the pointer of an object, the local variables of *)
(* a call, what NetX holds, the packet before it in a chain, and the pool. *)
Fields == {"target", "list", "got", "free"}
Kinds  == {"received", "sent", "next", "pool"}

Slots == ({"object"} \X Objects) \cup (Fields \X Callers) \cup (Kinds \X Packets)

(* The pointer of an object whose packet is being released is stale. *)
Releases(o) == \E t \in Threads : call[t].op = "release" /\ o \in call[t].obj

(* What a call has in a variable; the packet an append extends is its      *)
(* object's, that of a copy is the call's own.                             *)
Local(c, f) ==
  IF f = "target" THEN (IF c.op = "copy" THEN c.target ELSE NoPacket)
  ELSE IF f = "list" THEN c.list
  ELSE IF f = "got" THEN c.got
  ELSE c.free

In(s) ==
  IF s[1] = "object" THEN (IF Releases(s[2]) THEN NoPacket ELSE object[s[2]])
  ELSE IF s[1] = "received" THEN (IF s[2] \in received THEN s[2] ELSE NoPacket)
  ELSE IF s[1] = "sent" THEN (IF s[2] \in sent THEN s[2] ELSE NoPacket)
  ELSE IF s[1] = "next" THEN packet[s[2]].next
  ELSE IF s[1] = "pool" THEN (IF packet[s[2]].mark = "FREE" THEN s[2] ELSE NoPacket)
  ELSE Local(call[s[2]], s[1])

(* Every packet is in at most one place. *)
Exclusive ==
  /\ \A s \in Slots : In(s) \in Pointer
  /\ \A r, s \in Slots : In(r) = In(s) /\ In(r) # NoPacket => r = s

PacketShape ==
  /\ DOMAIN packet = Packets
  /\ \A p \in Packets : DOMAIN packet[p] = DOMAIN Fresh(0) /\ packet[p].mark \in Mark

Pool ==
  /\ available \in Seq(Packets) /\ NoneTwice(available)
  /\ ToSet(available) = {p \in Packets : packet[p].mark = "FREE"}

(* Which call is where, and which object is its own. *)
Phases(c) ==
  /\ c.op = "release" => c.pc \in {"put", "give"}
  /\ c.pc \in {"append", "fill"} => c.op \in {"append", "copy"}
  /\ c.pc = "copy" => c.op = "copy"
  /\ c.pc \in {"suspended", "allocated"} =>
       \/ c.op \in {"append", "copy"}
       \/ c.op = "allocate" /\ c.target = NoPacket
  /\ c.pc \in {"put", "give"} => c.free # NoPacket

CallOf(t, c) ==
  Phases(c) /\ (t \in Threads => \A o \in c.obj : o \in ObjectsOf[t] /\ c.obj = {o})

Calls == \A t \in Callers : CallOf(t, call[t])

Stack == received \subseteq Packets /\ sent \subseteq Packets

(* The inductive invariant, together with that of waiting. *)
OwnInv == DOMAIN object = Objects /\ PacketShape /\ Pool /\ Stack /\ Calls /\ Exclusive
-----------------------------------------------------------------------------
(* What happens to a slot when y goes to x and v to u. *)
Kept(s, x, y, u, v) ==
  s # x /\ s # u => (In(s)' = In(s) /\ s # y /\ s # v) \/ In(s)' = NoPacket

LEMMA EachSlot ==
  ASSUME NEW s \in Slots
  PROVE  \/ \E o \in Objects : s = <<"object", o>>
         \/ \E f \in Fields, t \in Callers : s = <<f, t>>
         \/ \E k \in Kinds, p \in Packets : s = <<k, p>>
  BY DEF Slots

LEMMA AreSlots ==
  /\ \A o \in Objects : <<"object", o>> \in Slots
  /\ \A f \in Fields, t \in Callers : <<f, t>> \in Slots
  /\ \A k \in Kinds, p \in Packets : <<k, p>> \in Slots
  BY DEF Slots

(* If each place holds what another one held that lost it, or nothing, then *)
(* the packets are still each in at most one place.                         *)
LEMMA Moved ==
  ASSUME Exclusive, NEW x \in Slots, NEW y \in Slots, NEW u \in Slots, NEW v \in Slots,
         In(x)' = In(y) \/ In(x)' = NoPacket,
         In(u)' = In(v) \/ In(u)' = NoPacket,
         x # u => y # v,
         \A o \in Objects : Kept(<<"object", o>>, x, y, u, v),
         \A f \in Fields, t \in Callers : Kept(<<f, t>>, x, y, u, v),
         \A k \in Kinds, p \in Packets : Kept(<<k, p>>, x, y, u, v)
  PROVE  Exclusive'
  <1> DEFINE now(s) == In(s)'
  <1>0. \A s \in Slots :
           s # x /\ s # u => (now(s) = In(s) /\ s # y /\ s # v) \/ now(s) = NoPacket
    <2>1. SUFFICES ASSUME NEW s \in Slots PROVE Kept(s, x, y, u, v)
      BY DEF Kept
    <2>2. QED  BY EachSlot
  <1>1. \A s \in Slots : now(s) \in Pointer
    BY <1>0 DEF Exclusive, Pointer
  <1> DEFINE from(s) == IF s = x THEN y ELSE IF s = u THEN v ELSE s
  <1>a. now(x) = In(y) \/ now(x) = NoPacket
    OBVIOUS
  <1>b. now(u) = In(v) \/ now(u) = NoPacket
    OBVIOUS
  <1> HIDE DEF now
  <1>2. \A s \in Slots : now(s) # NoPacket => now(s) = In(from(s)) /\ from(s) \in Slots
    BY <1>0, <1>a, <1>b
  <1>3. \A r, s \in Slots : now(r) # NoPacket /\ now(s) # NoPacket /\ from(r) = from(s) => r = s
    BY <1>0, <1>a, <1>b
  <1> HIDE DEF from
  <1>4. \A r, s \in Slots : now(r) = now(s) /\ now(r) # NoPacket => r = s
    BY <1>2, <1>3 DEF Exclusive
  <1>5. QED  BY <1>1, <1>4 DEF Exclusive, now
-----------------------------------------------------------------------------
(* What is in each place.                                                  *)
LEMMA InObject ==
  ASSUME NEW o
  PROVE  /\ Releases(o) => In(<<"object", o>>) = NoPacket
         /\ ~Releases(o) => In(<<"object", o>>) = object[o]
  BY DEF In

LEMMA InCall ==
  ASSUME NEW f \in Fields, NEW t
  PROVE  In(<<f, t>>) = Local(call[t], f) /\ In(<<f, t>>)' = Local(call'[t], f)
  BY DEF In, Fields, Local

LEMMA InKind ==
  ASSUME NEW p
  PROVE  /\ p \in received => In(<<"received", p>>) = p
         /\ p \notin received => In(<<"received", p>>) = NoPacket
         /\ p \in sent => In(<<"sent", p>>) = p
         /\ p \notin sent => In(<<"sent", p>>) = NoPacket
         /\ In(<<"next", p>>) = packet[p].next
         /\ packet[p].mark = "FREE" => In(<<"pool", p>>) = p
         /\ packet[p].mark # "FREE" => In(<<"pool", p>>) = NoPacket
  BY DEF In

(* What is somewhere else is not in the pool. *)
LEMMA NotFree ==
  ASSUME Exclusive, PacketShape, NEW s \in Slots, s[1] # "pool", In(s) # NoPacket
  PROVE  In(s) \in Packets /\ packet[In(s)].mark = "ALLOCATED"
  <1>1. In(s) \in Packets
    BY DEF Exclusive, Pointer
  <1> DEFINE r == <<"pool", In(s)>>
  <1>2. r \in Slots
    BY <1>1, AreSlots DEF Kinds
  <1>3. packet[In(s)].mark = "FREE" => In(r) = In(s)
    BY InKind
  <1>4. packet[In(s)].mark # "FREE"
    BY <1>2, <1>3 DEF Exclusive
  <1>5. QED  BY <1>1, <1>4 DEF PacketShape, Mark

(* The local variables of the calls, when one call goes on. *)
LEMMA CallGoesOn ==
  ASSUME Shape, NEW t \in Callers, NEW c, Goes(t, c)
  PROVE  /\ call'[t] = c
         /\ \A u \in Callers : u # t => call'[u] = call[u]
         /\ \A f \in Fields : In(<<f, t>>)' = Local(c, f)
         /\ \A f \in Fields, u \in Callers : u # t => In(<<f, u>>)' = In(<<f, u>>)
  <1>1. call'[t] = c /\ \A u \in Callers : u # t => call'[u] = call[u]
    BY DEF Goes, Shape
  <1>3. QED  BY <1>1, InCall

(* The pointers of the objects, when no release begins or ends. *)
LEMMA ObjectsStay ==
  ASSUME NEW t \in Callers,
         \A u \in Callers : u # t => call'[u] = call[u],
         \/ t \notin Threads
         \/ call[t].op # "release" /\ call'[t].op # "release"
         \/ call[t].op = "release" /\ call'[t].op = "release" /\ call'[t].obj = call[t].obj,
         NEW o, object'[o] = object[o]
  PROVE  In(<<"object", o>>)' = In(<<"object", o>>)
  <1>1. Releases(o)' <=> Releases(o)
    BY DEF Releases, Callers
  <1>2. QED  BY <1>1 DEF In

(* The other places, when what they depend on is the same. *)
LEMMA PacketsStay ==
  ASSUME NEW p \in Packets
  PROVE  /\ packet'[p].next = packet[p].next => In(<<"next", p>>)' = In(<<"next", p>>)
         /\ packet'[p].mark = packet[p].mark => In(<<"pool", p>>)' = In(<<"pool", p>>)
         /\ received' = received => In(<<"received", p>>)' = In(<<"received", p>>)
         /\ sent' = sent => In(<<"sent", p>>)' = In(<<"sent", p>>)
  BY DEF In

(* The links of packets, when they are the same. *)
SameLinks ==
  /\ PacketShape'
  /\ \A p \in Packets : packet'[p].next = packet[p].next /\ packet'[p].mark = packet[p].mark

LEMMA SameKinds ==
  ASSUME SameLinks, UNCHANGED stackVars, NEW k \in Kinds, NEW p \in Packets
  PROVE  In(<<k, p>>)' = In(<<k, p>>)
  BY PacketsStay DEF Kinds, SameLinks, stackVars
-----------------------------------------------------------------------------
(* A call c of t goes on as d and releases what was in v; the rest of what *)
(* it holds stays.                                                         *)
Frees(t, c, d, v) ==
  /\ Local(d, "free") \in {In(v), NoPacket}
  /\ \A f \in Fields \ {"free"} :
       \/ Local(d, f) = NoPacket
       \/ Local(d, f) = Local(c, f) /\ v # <<f, t>>

(* It goes on with the next packet, or is over. *)
GoesOn(c, d) ==
  \/ d = Idle
  \/ d.pc = "put" /\ d.free # NoPacket /\ d.op = c.op /\ d.obj = c.obj

LEMMA IdleHoldsNothing ==
  /\ \A f \in Fields : Local(Idle, f) = NoPacket
  /\ Phases(Idle) /\ Idle.obj = {} /\ Idle.op = "none"
  BY DEF Local, Fields, Idle, Phases

LEMMA ReleasingFrees ==
  ASSUME NEW t, NEW c, IsCall(c), NEW b, IsCall(b), b.op = c.op,
         NEW v, In(v) # NoPacket,
         \A f \in Fields \ {"free"} :
           Local(b, f) = NoPacket \/ (Local(b, f) = Local(c, f) /\ v # <<f, t>>),
         b.obj = c.obj
  PROVE  Frees(t, c, Releasing(b, In(v)), v) /\ GoesOn(c, Releasing(b, In(v)))
  <1> DEFINE p == In(v)
  <1> HIDE DEF p
  <1> DEFINE d == [b EXCEPT !.pc = "put", !.free = p, !.to = {}, !.wait = "none"]
  <1>1. /\ d.pc = "put" /\ d.free = p /\ d.op = b.op /\ d.obj = b.obj /\ d.list = b.list
        /\ d.target = b.target /\ d.got = b.got
    BY DEF IsCall, Idle
  <1> HIDE DEF d
  <1>2. CASE packet[p].mark = "ALLOCATED"
    <2>1. Releasing(b, p) = d
      BY <1>2 DEF Releasing, d
    <2>2. Local(d, "free") = p /\ \A f \in Fields \ {"free"} : Local(d, f) = Local(b, f)
      BY <1>1 DEF Local, Fields
    <2>3. QED  BY <1>1, <2>1, <2>2 DEF Frees, GoesOn, p
  <1>3. CASE packet[p].mark # "ALLOCATED"
    BY <1>3, IdleHoldsNothing DEF Releasing, Frees, GoesOn, p, Fields
  <1>4. QED  BY <1>2, <1>3

LEMMA AbandonedFrees ==
  ASSUME NEW t, IsCall(call[t]), NEW c, IsCall(c), c.op = call[t].op, c.obj = call[t].obj,
         c.list = call[t].list, c.target = call[t].target, c.got = call[t].got
  PROVE  /\ \E v \in {<<"list", t>>, <<"target", t>>} : Frees(t, call[t], Abandoned(c), v)
         /\ GoesOn(call[t], Abandoned(c))
  <1>1. In(<<"list", t>>) = c.list /\ In(<<"target", t>>) = Local(c, "target")
    BY InCall DEF Fields, Local
  <1>2. CASE c.list # NoPacket
    <2> DEFINE b == [c EXCEPT !.list = NoPacket]
    <2>1. IsCall(b) /\ b.op = c.op /\ b.obj = c.obj
      BY DEF IsCall, Idle
    <2>2. \A f \in Fields \ {"free"} :
            \/ Local(b, f) = NoPacket
            \/ Local(b, f) = Local(call[t], f) /\ <<"list", t>> # <<f, t>>
      BY DEF IsCall, Idle, Fields, Local
    <2>3. Abandoned(c) = Releasing(b, In(<<"list", t>>))
      BY <1>1, <1>2 DEF Abandoned
    <2> HIDE DEF b
    <2> DEFINE w == <<"list", t>>
    <2>4. In(w) # NoPacket
      BY <1>1, <1>2, <2>3
    <2>5. \A f \in Fields \ {"free"} :
            Local(b, f) = NoPacket \/ (Local(b, f) = Local(call[t], f) /\ w # <<f, t>>)
      BY <2>2
    <2> HIDE DEF w
    <2>6. b.op = call[t].op /\ b.obj = call[t].obj
      BY <2>1
    <2>7. Frees(t, call[t], Releasing(b, In(w)), w) /\ GoesOn(call[t], Releasing(b, In(w)))
      BY <2>1, <2>4, <2>5, <2>6, ReleasingFrees
    <2>8. QED  BY <2>3, <2>7 DEF w
  <1>3. CASE c.list = NoPacket /\ c.op = "copy" /\ c.target # NoPacket
    <2> DEFINE b == [c EXCEPT !.target = NoPacket]
    <2>1. IsCall(b) /\ b.op = c.op /\ b.obj = c.obj
      BY DEF IsCall, Idle
    <2>2. \A f \in Fields \ {"free"} :
            \/ Local(b, f) = NoPacket
            \/ Local(b, f) = Local(call[t], f) /\ <<"target", t>> # <<f, t>>
      BY <1>3 DEF IsCall, Idle, Fields, Local
    <2>3. In(<<"target", t>>) = c.target /\ Abandoned(c) = Releasing(b, In(<<"target", t>>))
      BY <1>1, <1>3 DEF Abandoned, Local
    <2> HIDE DEF b
    <2> DEFINE w == <<"target", t>>
    <2>4. In(w) # NoPacket
      BY <1>1, <1>3, <2>3
    <2>5. \A f \in Fields \ {"free"} :
            Local(b, f) = NoPacket \/ (Local(b, f) = Local(call[t], f) /\ w # <<f, t>>)
      BY <2>2
    <2> HIDE DEF w
    <2>6. b.op = call[t].op /\ b.obj = call[t].obj
      BY <2>1
    <2>7. Frees(t, call[t], Releasing(b, In(w)), w) /\ GoesOn(call[t], Releasing(b, In(w)))
      BY <2>1, <2>4, <2>5, <2>6, ReleasingFrees
    <2>8. QED  BY <2>3, <2>7 DEF w
  <1>4. CASE c.list = NoPacket /\ ~(c.op = "copy" /\ c.target # NoPacket)
    BY <1>4, IdleHoldsNothing DEF Abandoned, Frees, GoesOn, Fields
  <1>5. QED  BY <1>2, <1>3, <1>4

LEMMA OnwardFrees ==
  ASSUME NEW t, IsCall(call[t])
  PROVE  /\ \E v \in {<<"list", t>>, <<"target", t>>, <<"next", call[t].free>>} :
              Frees(t, call[t], Onward(call[t]), v)
         /\ GoesOn(call[t], Onward(call[t]))
  <1> DEFINE c == call[t]
             v == <<"next", c.free>>
  <1>1. In(v) = packet[c.free].next
    BY InKind
  <1>2. CASE packet[c.free].next # NoPacket
    <2>1. Onward(c) = Releasing(c, In(v)) /\ In(v) # NoPacket
      BY <1>1, <1>2 DEF Onward
    <2>2. \A f \in Fields : v # <<f, t>>
      BY DEF Fields
    <2> HIDE DEF v
    <2>3. QED  BY <2>1, <2>2, ReleasingFrees DEF v
  <1>3. CASE packet[c.free].next = NoPacket /\ c.op \in {"append", "copy"}
    <2> DEFINE b == [c EXCEPT !.free = NoPacket, !.to = {}]
    <2>1. /\ IsCall(b) /\ b.op = c.op /\ b.obj = c.obj
          /\ b.list = c.list /\ b.target = c.target /\ b.got = c.got
      BY DEF IsCall, Idle
    <2>2. Onward(c) = Abandoned(b)
      BY <1>3 DEF Onward
    <2> HIDE DEF b
    <2>3. QED  BY <2>1, <2>2, AbandonedFrees
  <1>4. CASE packet[c.free].next = NoPacket /\ c.op \notin {"append", "copy"}
    BY <1>4, IdleHoldsNothing DEF Onward, Frees, GoesOn, Fields
  <1>5. QED  BY <1>2, <1>3, <1>4
-----------------------------------------------------------------------------
(* The lemmas on steps below: what is true of a step of t in a call.       *)
LEMMA CallsGoOn ==
  ASSUME Shape, Calls, NEW t \in Callers, NEW c, Goes(t, c), CallOf(t, c)
  PROVE  Calls'
  BY CallGoesOn DEF Calls

LEMMA LinksStay ==
  ASSUME PacketShape, Pool, SameLinks, available' = available
  PROVE  PacketShape' /\ Pool'
  BY DEF Pool, SameLinks, ToSet

(* A step that moves one packet, of a call and of what is not in other calls. *)
LEMMA CallMoved ==
  ASSUME Shape, Exclusive, NEW t \in Callers, NEW c, Goes(t, c), NEW x \in Slots, NEW y \in Slots,
         In(x)' = In(y) \/ In(x)' = NoPacket,
         \A f \in Fields, u \in Callers : y = <<f, u>> => u = t,
         \A o \in Objects : Kept(<<"object", o>>, x, y, x, y),
         \A f \in Fields :
           <<f, t>> # x =>
            Local(c, f) = NoPacket \/ (Local(c, f) = Local(call[t], f) /\ <<f, t>> # y),
         \A k \in Kinds, p \in Packets : Kept(<<k, p>>, x, y, x, y)
  PROVE  Exclusive'
  <1>1. ASSUME NEW f \in Fields, NEW u \in Callers PROVE Kept(<<f, u>>, x, y, x, y)
    <2>1. CASE u = t
      BY <2>1, CallGoesOn, InCall DEF Kept
    <2>2. CASE u # t
      BY <2>2, CallGoesOn DEF Kept
    <2>3. QED  BY <2>1, <2>2
  <1>2. QED  BY <1>1, Moved

(* The first free packet. *)
LEMMA FirstFree ==
  ASSUME PacketShape, Pool, available # <<>>
  PROVE  /\ Head(available) \in Packets /\ packet[Head(available)].mark = "FREE"
         /\ Tail(available) \in Seq(Packets) /\ NoneTwice(Tail(available))
         /\ ToSet(Tail(available)) = ToSet(available) \ {Head(available)}
  BY ElementsOfTail DEF Pool

(* It is taken from the pool. *)
LEMMA TakenFromPool ==
  ASSUME PacketShape, Pool, available # <<>>, available' = Tail(available),
         NEW q, DOMAIN q = DOMAIN Fresh(0), q.mark = "ALLOCATED", q.next = NoPacket,
         packet' = [packet EXCEPT ![Head(available)] = q]
  PROVE  /\ PacketShape' /\ Pool'
         /\ In(<<"pool", Head(available)>>) = Head(available)
         /\ <<"pool", Head(available)>> \in Slots
         /\ \A k \in {"next", "pool"}, p \in Packets :
              \/ In(<<k, p>>)' = NoPacket
              \/ In(<<k, p>>)' = In(<<k, p>>) /\ <<k, p>> # <<"pool", Head(available)>>
  <1> DEFINE h == Head(available)
  <1>1. h \in Packets /\ packet[h].mark = "FREE"
    BY FirstFree
  <1> HIDE DEF h
  <1>2. packet'[h] = q /\ \A p \in Packets : p # h => packet'[p] = packet[p]
    BY <1>1 DEF PacketShape, h
  <1>3. PacketShape'
    BY <1>1, <1>2 DEF PacketShape, Mark, h
  <1>4. Pool'
    BY <1>1, <1>2, FirstFree DEF Pool, h
  <1>5. In(<<"pool", h>>) = h /\ <<"pool", h>> \in Slots
    BY <1>1, InKind, AreSlots DEF Kinds
  <1>6. ASSUME NEW k \in {"next", "pool"}, NEW p \in Packets
        PROVE  \/ In(<<k, p>>)' = NoPacket
               \/ In(<<k, p>>)' = In(<<k, p>>) /\ <<k, p>> # <<"pool", h>>
    <2>1. CASE p = h
      BY <2>1, <1>2 DEF In
    <2>2. CASE p # h
      BY <2>2, <1>2, PacketsStay
    <2>3. QED  BY <2>1, <2>2
  <1>7. QED  BY <1>3, <1>4, <1>5, <1>6 DEF h

(* An allocation for a call, which may forget the pointer of an object. *)
LEMMA AllocateMoves ==
  ASSUME IInv, OwnInv, NEW t \in Threads, NEW c, IsCall(c), Allocate(t, c), UNCHANGED stackVars,
         call[t].op # "release", c.op # "release",
         CallOf(t, c), c.op \in {"append", "copy"} \/ (c.op = "allocate" /\ c.target = NoPacket),
         \A f \in Fields : Local(c, f) = NoPacket \/ Local(c, f) = Local(call[t], f),
         DOMAIN object' = Objects,
         \A o \in Objects : object'[o] = object[o] \/ object'[o] = NoPacket
  PROVE  OwnInv'
  <1>0. t \in Callers /\ Shape /\ PacketShape /\ Pool /\ Calls /\ Exclusive
    BY DEF Callers, OwnInv, IInv
  <1>1. ASSUME NEW o \in Objects, NEW d, Goes(t, d), d.op # "release", NEW x, NEW y,
               y[1] # "object"
        PROVE  Kept(<<"object", o>>, x, y, x, y)
    <2>1. In(<<"object", o>>)' = In(<<"object", o>>) \/ In(<<"object", o>>)' = NoPacket
      <3>1. Releases(o)' <=> Releases(o)
        BY <1>0, <1>1, CallGoesOn DEF Releases, Callers
      <3>2. QED  BY <3>1 DEF In
    <2>2. <<"object", o>> # y
      BY <1>1
    <2>3. QED  BY <2>1, <2>2 DEF Kept
  <1>2. CASE Take(t, c)
    <2> DEFINE d == [c EXCEPT !.pc = "allocated", !.got = Head(available)]
               x == <<"got", t>>
               y == <<"pool", Head(available)>>
    <2>1. /\ available # <<>> /\ available' = Tail(available) /\ Goes(t, d)
          /\ packet' = [packet EXCEPT ![Head(available)] = Fresh(c.type)]
      BY <1>2 DEF Take
    <2>2. /\ d.op = c.op /\ CallOf(t, d)
          /\ \A f \in Fields \ {"got"} : Local(d, f) = Local(c, f)
          /\ Local(d, "got") = Head(available)
      BY DEF IsCall, Idle, Fields, Local, CallOf, Phases
    <2> HIDE DEF d
    <2>3. /\ PacketShape' /\ Pool' /\ In(y) = Head(available) /\ y \in Slots
          /\ \A k \in Kinds, p \in Packets :
               \/ In(<<k, p>>)' = NoPacket
               \/ In(<<k, p>>)' = In(<<k, p>>) /\ <<k, p>> # y
      <3>1. LET q == Fresh(c.type)
            IN  DOMAIN q = DOMAIN Fresh(0) /\ q.mark = "ALLOCATED" /\ q.next = NoPacket
        BY DEF Fresh
      <3>2. /\ PacketShape' /\ Pool' /\ In(y) = Head(available) /\ y \in Slots
            /\ \A k \in {"next", "pool"}, p \in Packets :
                 \/ In(<<k, p>>)' = NoPacket
                 \/ In(<<k, p>>)' = In(<<k, p>>) /\ <<k, p>> # y
        BY <1>0, <2>1, <3>1, TakenFromPool
      <3>3. \A k \in {"received", "sent"}, p \in Packets : In(<<k, p>>)' = In(<<k, p>>)
        BY PacketsStay DEF stackVars
      <3>4. QED  BY <3>2, <3>3 DEF Kinds
    <2>4. x \in Slots /\ In(x)' = In(y)
      BY <1>0, <2>1, <2>2, <2>3, AreSlots, CallGoesOn DEF Fields
    <2>5. y[1] # "object" /\ \A f \in Fields, u \in Callers : y # <<f, u>>
      BY DEF Fields
    <2>6. \A f \in Fields : <<f, t>> # x => f # "got"
      OBVIOUS
    <2> HIDE DEF x, y
    <2>7. Exclusive'
      <3>1. \A o \in Objects : Kept(<<"object", o>>, x, y, x, y)
        BY <1>1, <2>1, <2>2, <2>5
      <3>2. \A f \in Fields :
              <<f, t>> # x =>
            Local(d, f) = NoPacket \/ (Local(d, f) = Local(call[t], f) /\ <<f, t>> # y)
        BY <1>0, <2>2, <2>5, <2>6
      <3>3. \A k \in Kinds, p \in Packets : Kept(<<k, p>>, x, y, x, y)
        BY <2>3 DEF Kept
      <3>4. QED  BY <1>0, <2>1, <2>3, <2>4, <2>5, <3>1, <3>2, <3>3, CallMoved
    <2>8. Calls'
      BY <1>0, <2>1, <2>2, CallsGoOn
    <2>9. QED  BY <2>3, <2>7, <2>8 DEF OwnInv, Stack, stackVars
  <1>3. CASE FindNone(t, c) \/ Suspend(t, c)
    <2>1. PICK pc \in {"allocated", "suspended"} :
            Goes(t, [c EXCEPT !.pc = pc]) /\ UNCHANGED <<available, packet>>
      BY <1>3 DEF FindNone, Suspend, poolVars
    <2> DEFINE d == [c EXCEPT !.pc = pc]
               x == <<"got", t>>
    <2>2. /\ d.op = c.op /\ CallOf(t, d)
          /\ \A f \in Fields : Local(d, f) = Local(c, f)
      BY <2>1 DEF IsCall, Idle, Fields, Local, CallOf, Phases
    <2>3. Goes(t, d)
      BY <2>1
    <2> HIDE DEF d
    <2>4. PacketShape' /\ Pool' /\ SameLinks
      BY <1>0, <2>1, LinksStay DEF PacketShape, SameLinks
    <2>5. /\ x \in Slots /\ x[1] # "object"
          /\ \A f \in Fields, u \in Callers : x = <<f, u>> => u = t
          /\ \A k \in Kinds, p \in Packets : x # <<k, p>>
          /\ In(x)' = In(x) \/ In(x)' = NoPacket
      <3>1. "got" \in Fields
        BY DEF Fields
      <3>2. In(x)' = Local(d, "got") /\ In(x) = Local(call[t], "got")
        BY <1>0, <2>3, <3>1, CallGoesOn, InCall
      <3>3. In(x)' = In(x) \/ In(x)' = NoPacket
        BY <2>2, <3>1, <3>2
      <3>4. QED  BY <1>0, <3>1, <3>3, AreSlots DEF Kinds
    <2> HIDE DEF x
    <2>6. Exclusive'
      <3>1. \A o \in Objects : Kept(<<"object", o>>, x, x, x, x)
        BY <1>1, <2>2, <2>3, <2>5
      <3>2. \A f \in Fields :
              <<f, t>> # x =>
            Local(d, f) = NoPacket \/ (Local(d, f) = Local(call[t], f) /\ <<f, t>> # x)
        BY <1>0, <2>2
      <3>3. \A k \in Kinds, p \in Packets : Kept(<<k, p>>, x, x, x, x)
        BY <2>4, <2>5, SameKinds DEF Kept
      <3>4. QED  BY <1>0, <2>3, <2>5, <3>1, <3>2, <3>3, CallMoved
    <2>7. Calls'
      BY <1>0, <2>2, <2>3, CallsGoOn
    <2>8. QED  BY <2>4, <2>6, <2>7 DEF OwnInv, Stack, stackVars
  <1>4. QED  BY <1>2, <1>3 DEF Allocate
-----------------------------------------------------------------------------
(* A call goes on, and at most one packet moves from one variable to another. *)
LEMMA VariableMoves ==
  ASSUME IInv, OwnInv, NEW t \in Callers, NEW d, Goes(t, d), SameLinks,
         UNCHANGED <<available, object, stackVars>>, CallOf(t, d),
         \/ t \notin Threads
         \/ call[t].op # "release" /\ d.op # "release"
         \/ call[t].op = "release" /\ d.op = "release" /\ d.obj = call[t].obj,
         NEW f \in Fields, NEW g \in Fields,
         Local(d, f) \in {Local(call[t], g), NoPacket},
         \A h \in Fields \ {f} :
           Local(d, h) = NoPacket \/ (Local(d, h) = Local(call[t], h) /\ h # g)
  PROVE  OwnInv'
  <1>0. Shape /\ PacketShape /\ Pool /\ Calls /\ Exclusive
    BY DEF OwnInv, IInv
  <1> DEFINE x == <<f, t>>
             y == <<g, t>>
  <1>1. x \in Slots /\ y \in Slots
    BY AreSlots
  <1>2. In(x)' = Local(d, f) /\ In(y) = Local(call[t], g)
    BY <1>0, CallGoesOn, InCall
  <1>3. \A o \in Objects : Kept(<<"object", o>>, x, y, x, y)
    <2>1. \A o \in Objects : In(<<"object", o>>)' = In(<<"object", o>>)
      BY <1>0, CallGoesOn, ObjectsStay
    <2>2. \A o \in Objects : <<"object", o>> # y
      BY DEF Fields
    <2>3. QED  BY <2>1, <2>2 DEF Kept
  <1>4. \A k \in Kinds, p \in Packets : Kept(<<k, p>>, x, y, x, y)
    <2>1. \A k \in Kinds, p \in Packets : In(<<k, p>>)' = In(<<k, p>>)
      BY SameKinds
    <2>2. \A k \in Kinds, p \in Packets : <<k, p>> # y
      BY DEF Fields, Kinds
    <2>3. QED  BY <2>1, <2>2 DEF Kept
  <1>5. \A h \in Fields, u \in Callers : y = <<h, u>> => u = t
    OBVIOUS
  <1>6. \A h \in Fields :
          <<h, t>> # x =>
            Local(d, h) = NoPacket \/ (Local(d, h) = Local(call[t], h) /\ <<h, t>> # y)
    OBVIOUS
  <1>7. Exclusive'
    BY <1>0, <1>1, <1>2, <1>3, <1>4, <1>5, <1>6, CallMoved
  <1>8. PacketShape' /\ Pool'
    BY <1>0, LinksStay
  <1>9. Calls'
    BY <1>0, CallsGoOn
  <1>10. QED  BY <1>7, <1>8, <1>9 DEF OwnInv, Stack, stackVars

LEMMA SoundGoesOn ==
  ASSUME NEW t, NEW c, CallOf(t, c), NEW d, GoesOn(c, d)
  PROVE  CallOf(t, d)
  BY IdleHoldsNothing DEF CallOf, GoesOn, Phases

LEMMA LinksUnchanged ==
  ASSUME PacketShape, packet' = packet
  PROVE  SameLinks
  BY DEF PacketShape, SameLinks

LEMMA TimeoutMoves ==
  ASSUME IInv, OwnInv, NEW t \in Threads, Timeout(t)
  PROVE  OwnInv'
  <1>0. t \in Callers /\ IsCall(call[t]) /\ CallOf(t, call[t]) /\ PacketShape
    BY DEF Callers, OwnInv, IInv, Shape, Calls
  <1> DEFINE d == [call[t] EXCEPT !.pc = "allocated"]
  <1>1. /\ d.op = call[t].op /\ CallOf(t, d) /\ d.op # "release"
        /\ \A f \in Fields : Local(d, f) = Local(call[t], f)
    BY <1>0 DEF Timeout, IsCall, Idle, Fields, Local, CallOf, Phases
  <1>2. Goes(t, d) /\ UNCHANGED <<available, packet, object, stackVars>>
    BY DEF Timeout
  <1> HIDE DEF d
  <1>3. "got" \in Fields
    BY DEF Fields
  <1>4. QED  BY <1>0, <1>1, <1>2, <1>3, LinksUnchanged, VariableMoves

LEMMA CopyNextMoves ==
  ASSUME IInv, OwnInv, NEW t \in Threads, CopyNext(t)
  PROVE  OwnInv'
  <1>0. t \in Callers /\ IsCall(call[t]) /\ CallOf(t, call[t]) /\ PacketShape
    BY DEF Callers, OwnInv, IInv, Shape, Calls
  <1>1. PICK size :
          /\ Goes(t, [call[t] EXCEPT !.pc = "append", !.size = size])
          /\ UNCHANGED <<available, packet, object, stackVars>>
    BY DEF CopyNext, poolVars
  <1> DEFINE d == [call[t] EXCEPT !.pc = "append", !.size = size]
  <1>2. /\ d.op = call[t].op /\ CallOf(t, d) /\ d.op # "release"
        /\ \A f \in Fields : Local(d, f) = Local(call[t], f)
    BY <1>0 DEF CopyNext, At, IsCall, Idle, Fields, Local, CallOf, Phases
  <1>3. Goes(t, d)
    BY <1>1
  <1> HIDE DEF d
  <1>4. "got" \in Fields
    BY DEF Fields
  <1>5. QED  BY <1>0, <1>1, <1>2, <1>3, <1>4, LinksUnchanged, VariableMoves

LEMMA FillMoves ==
  ASSUME IInv, OwnInv, NEW t \in Threads, Fill(t)
  PROVE  OwnInv'
  <1>0. t \in Callers /\ IsCall(call[t]) /\ CallOf(t, call[t]) /\ PacketShape
    BY DEF Callers, OwnInv, IInv, Shape, Calls
  <1>1. PICK source, d :
          /\ d = IF call[t].op = "append" THEN Idle
                 ELSE [call[t] EXCEPT !.pc = "copy", !.source = source]
          /\ Goes(t, d) /\ UNCHANGED <<available, object, stackVars>>
    BY DEF Fill, poolVars
  <1>2. CallOf(t, d) /\ d.op # "release" /\ call[t].op # "release"
        /\ \A f \in Fields : Local(d, f) = Local(call[t], f) \/ Local(d, f) = NoPacket
    BY <1>0, <1>1, IdleHoldsNothing DEF Fill, At, IsCall, Idle, Fields, Local, CallOf, Phases
  <1>3. SameLinks
    <2>1. PICK s : packet' = Filled(packet, call[t].target, s, call[t].size)
      BY DEF Fill
    <2>2. /\ DOMAIN packet' = Packets
          /\ \A p \in Packets : \E share, length, last :
               packet'[p] = [packet[p] EXCEPT !.used = share, !.length = length, !.last = last]
      BY <2>1 DEF Filled
    <2>3. QED  BY <1>0, <2>2 DEF SameLinks, PacketShape, Fresh
  <1>4. "got" \in Fields
    BY DEF Fields
  <1>5. /\ call[t].op # "release" /\ d.op # "release"
        /\ Local(d, "got") \in {Local(call[t], "got"), NoPacket}
    BY <1>2, <1>4
  <1>6. \A h \in Fields \ {"got"} :
          Local(d, h) = NoPacket \/ (Local(d, h) = Local(call[t], h) /\ h # "got")
    BY <1>2
  <1>7. Goes(t, d) /\ UNCHANGED <<available, object, stackVars>>
    BY <1>1
  <1>8. QED  BY <1>0, <1>2, <1>3, <1>4, <1>5, <1>6, <1>7, VariableMoves

LEMMA StartCopyMoves ==
  ASSUME IInv, OwnInv, NEW t \in Threads, StartCopy(t)
  PROVE  OwnInv'
  <1>0. t \in Callers /\ IsCall(call[t]) /\ CallOf(t, call[t]) /\ PacketShape
    BY DEF Callers, OwnInv, IInv, Shape, Calls
  <1>1. PICK size :
          /\ Goes(t, [call[t] EXCEPT !.pc = "append", !.target = call[t].got,
                                     !.got = NoPacket, !.size = size])
          /\ UNCHANGED <<available, packet, object, stackVars>>
    BY DEF StartCopy, poolVars
  <1> DEFINE d == [call[t] EXCEPT !.pc = "append", !.target = call[t].got,
                                  !.got = NoPacket, !.size = size]
  <1>2. /\ d.op = call[t].op /\ CallOf(t, d) /\ d.op # "release"
        /\ Local(d, "target") = Local(call[t], "got") /\ Local(d, "got") = NoPacket
        /\ Local(d, "list") = Local(call[t], "list") /\ Local(d, "free") = Local(call[t], "free")
    BY <1>0 DEF StartCopy, At, IsCall, Idle, Local, CallOf, Phases
  <1>3. Goes(t, d)
    BY <1>1
  <1> HIDE DEF d
  <1>4. /\ "target" \in Fields /\ "got" \in Fields
        /\ \A h \in Fields \ {"target"} :
             Local(d, h) = NoPacket \/ (Local(d, h) = Local(call[t], h) /\ h # "got")
    BY <1>2 DEF Fields
  <1>5. QED  BY <1>0, <1>1, <1>2, <1>3, <1>4, LinksUnchanged, VariableMoves

LEMMA AbandonMoves ==
  ASSUME IInv, OwnInv, NEW t \in Threads, Goes(t, Abandoned(call[t])), SameLinks,
         UNCHANGED <<available, object, stackVars>>, call[t].op # "release"
  PROVE  OwnInv'
  <1>0. t \in Callers /\ IsCall(call[t]) /\ CallOf(t, call[t])
    BY DEF Callers, OwnInv, IInv, Shape, Calls
  <1> DEFINE d == Abandoned(call[t])
  <1>1. PICK v \in {<<"list", t>>, <<"target", t>>} : Frees(t, call[t], d, v)
    BY <1>0, AbandonedFrees
  <1>2. GoesOn(call[t], d) /\ CallOf(t, d)
    BY <1>0, AbandonedFrees, SoundGoesOn
  <1> HIDE DEF d
  <1>3. d.op # "release"
    BY <1>2, IdleHoldsNothing DEF GoesOn
  <1>4. PICK g \in {"list", "target"} : v = <<g, t>>
    BY <1>1
  <1>5. /\ g \in Fields /\ "free" \in Fields
        /\ Local(d, "free") \in {Local(call[t], g), NoPacket}
        /\ \A h \in Fields \ {"free"} :
             Local(d, h) = NoPacket \/ (Local(d, h) = Local(call[t], h) /\ h # g)
    <2>1. g \in Fields /\ "free" \in Fields
      BY <1>4 DEF Fields
    <2>2. In(v) = Local(call[t], g)
      BY <1>4, <2>1, InCall
    <2>3. QED  BY <1>1, <1>4, <2>1, <2>2 DEF Frees
  <1>6. Goes(t, d)
    BY DEF d
  <1>7. QED  BY <1>0, <1>2, <1>3, <1>5, <1>6, VariableMoves

LEMMA GiveUpMoves ==
  ASSUME IInv, OwnInv, NEW t \in Threads, GiveUp(t)
  PROVE  OwnInv'
  <1>1. /\ Goes(t, Abandoned(call[t])) /\ UNCHANGED <<available, packet, object, stackVars>>
        /\ call[t].op # "release"
    BY DEF GiveUp, At, poolVars, OwnInv, Calls, Callers, CallOf, Phases
  <1>2. QED  BY <1>1, LinksUnchanged, AbandonMoves DEF OwnInv
-----------------------------------------------------------------------------
LEMMA UnqueueMoves ==
  ASSUME IInv, OwnInv, NEW t \in Callers, Unqueue(t)
  PROVE  OwnInv'
  <1>0. IsCall(call[t]) /\ CallOf(t, call[t]) /\ PacketShape
    BY DEF OwnInv, IInv, Shape, Calls
  <1>1. PICK to :
          /\ Goes(t, [call[t] EXCEPT !.pc = "give", !.to = to])
          /\ UNCHANGED <<available, packet, object, stackVars>>
    BY DEF Unqueue
  <1> DEFINE d == [call[t] EXCEPT !.pc = "give", !.to = to]
  <1>2. /\ d.op = call[t].op /\ d.obj = call[t].obj /\ CallOf(t, d)
        /\ \A f \in Fields : Local(d, f) = Local(call[t], f)
    BY <1>0 DEF Unqueue, At, IsCall, Idle, Fields, Local, CallOf, Phases
  <1>3. Goes(t, d)
    BY <1>1
  <1> HIDE DEF d
  <1>4. "got" \in Fields
    BY DEF Fields
  <1>5. QED  BY <1>0, <1>1, <1>2, <1>3, <1>4, LinksUnchanged, VariableMoves

(* Whoever calls the library holds nothing in variables. *)
LEMMA IdleThread ==
  ASSUME OwnInv, NEW t \in Threads, call[t].pc = "idle"
  PROVE  /\ t \in Callers /\ call[t].op # "release"
         /\ \A o \in ObjectsOf[t] : o \in Objects /\ ~Releases(o)
  <1>1. \A u \in Threads : CallOf(u, call[u])
    BY DEF OwnInv, Calls, Callers
  <1>2. call[t].op # "release"
    BY <1>1 DEF CallOf, Phases
  <1>3. ASSUME NEW o \in ObjectsOf[t], NEW u \in Threads, call[u].op = "release",
               o \in call[u].obj
        PROVE  FALSE
    <2>1. o \in ObjectsOf[u]
      BY <1>1, <1>3 DEF CallOf
    <2>2. u = t
      BY <2>1, PoolAssumption
    <2>3. QED  BY <1>2, <1>3, <2>2
  <1>4. QED  BY <1>2, <1>3 DEF Callers, Objects, Releases

LEMMA CallAppendMoves ==
  ASSUME IInv, OwnInv, NEW t \in Threads, NEW o \in ObjectsOf[t], NEW size, NEW wait,
         CallAppend(t, o, size, wait)
  PROVE  OwnInv'
  <1>0. t \in Callers /\ IsCall(call[t]) /\ PacketShape /\ call[t].op # "release"
    BY IdleThread DEF CallAppend, At, Callers, OwnInv, IInv, Shape
  <1> DEFINE d == [Idle EXCEPT !.pc = "append", !.op = "append", !.wait = wait,
                               !.size = size, !.target = object[o]]
  <1>1. Goes(t, d) /\ UNCHANGED <<available, packet, object, stackVars>>
    BY DEF CallAppend, poolVars
  <1>2. /\ d.op # "release" /\ CallOf(t, d)
        /\ \A f \in Fields : Local(d, f) = NoPacket
    BY DEF Idle, Fields, Local, CallOf, Phases
  <1> HIDE DEF d
  <1>3. "got" \in Fields
    BY DEF Fields
  <1>4. QED  BY <1>0, <1>1, <1>2, <1>3, LinksUnchanged, VariableMoves

LEMMA CallAllocateMoves ==
  ASSUME IInv, OwnInv, NEW t \in Threads, NEW o \in ObjectsOf[t], NEW type, NEW wait,
         CallAllocate(t, o, type, wait)
  PROVE  OwnInv'
  <1>0. call[t].op # "release" /\ o \in Objects
    BY IdleThread DEF CallAllocate, At
  <1> DEFINE c == [Idle EXCEPT !.op = "allocate", !.obj = {o}, !.type = type, !.wait = wait]
  <1>1. Allocate(t, c) /\ UNCHANGED stackVars
    BY DEF CallAllocate
  <1>2. /\ IsCall(c) /\ c.op = "allocate" /\ c.target = NoPacket /\ CallOf(t, c)
        /\ \A f \in Fields : Local(c, f) = NoPacket
    BY DEF IsCall, Idle, Fields, Local, CallOf, Phases
  <1> HIDE DEF c
  <1>3. /\ DOMAIN object' = Objects
        /\ \A p \in Objects : object'[p] = object[p] \/ object'[p] = NoPacket
    BY DEF CallAllocate, OwnInv
  <1>4. QED  BY <1>0, <1>1, <1>2, <1>3, AllocateMoves

LEMMA CallCopyMoves ==
  ASSUME IInv, OwnInv, NEW t \in Threads, NEW o \in ObjectsOf[t], NEW wait, CallCopy(t, o, wait)
  PROVE  OwnInv'
  <1>0. call[t].op # "release"
    BY IdleThread DEF CallCopy, At
  <1>1. PICK other \in ObjectsOf[t] :
          Allocate(t, [Idle EXCEPT !.op = "copy", !.obj = {other}, !.wait = wait,
                                   !.source = object[o], !.from = object[o]])
    BY DEF CallCopy
  <1> DEFINE c == [Idle EXCEPT !.op = "copy", !.obj = {other}, !.wait = wait,
                               !.source = object[o], !.from = object[o]]
  <1>2. /\ IsCall(c) /\ c.op = "copy" /\ CallOf(t, c)
        /\ \A f \in Fields : Local(c, f) = NoPacket
    BY DEF IsCall, Idle, Fields, Local, CallOf, Phases
  <1>3. Allocate(t, c)
    BY <1>1
  <1> HIDE DEF c
  <1>4. UNCHANGED stackVars /\ DOMAIN object' = Objects /\ object' = object
    BY DEF CallCopy, OwnInv
  <1>5. QED  BY <1>0, <1>2, <1>3, <1>4, AllocateMoves

LEMMA ExtendMoves ==
  ASSUME IInv, OwnInv, NEW t \in Threads, Extend(t)
  PROVE  OwnInv'
  <1>1. /\ IsCall(call[t]) /\ CallOf(t, call[t]) /\ call[t].op \in {"append", "copy"}
        /\ call[t].op # "release"
    BY DEF OwnInv, IInv, Shape, Calls, Callers, Extend, At, CallOf, Phases
  <1>2. Allocate(t, call[t]) /\ UNCHANGED stackVars /\ DOMAIN object' = Objects /\ object' = object
    BY DEF Extend, OwnInv
  <1>3. QED  BY <1>1, <1>2, AllocateMoves
-----------------------------------------------------------------------------
(* Packets that change hands between an application and NetX.              *)
LEMMA CallsKeptMoved ==
  ASSUME Exclusive, call' = call, NEW x \in Slots, NEW y \in Slots,
         In(x)' = In(y) \/ In(x)' = NoPacket,
         \A f \in Fields, t \in Callers : y # <<f, t>>,
         \A o \in Objects : Kept(<<"object", o>>, x, y, x, y),
         \A k \in Kinds, p \in Packets : Kept(<<k, p>>, x, y, x, y)
  PROVE  Exclusive'
  <1>1. \A f \in Fields, t \in Callers : Kept(<<f, t>>, x, y, x, y)
    BY InCall DEF Kept
  <1>2. QED  BY <1>1, Moved

LEMMA SendMoves ==
  ASSUME OwnInv, NEW t \in Threads, NEW o \in ObjectsOf[t], Send(t, o)
  PROVE  OwnInv'
  <1>0. PICK p : p = object[o]
    OBVIOUS
  <1> DEFINE x == <<"sent", p>>
             y == <<"object", o>>
  <1>1. /\ o \in Objects /\ ~Releases(o) /\ p # NoPacket /\ y \in Slots
        /\ UNCHANGED <<available, packet, received, call>> /\ sent' = sent \cup {p}
        /\ object' = [object EXCEPT ![o] = NoPacket]
    BY <1>0, IdleThread, AreSlots DEF Send, At, poolVars
  <1>2. In(y) = p
    BY <1>0, <1>1, InObject
  <1>3. p \in Packets /\ x \in Slots
    BY <1>1, <1>2, AreSlots DEF OwnInv, Exclusive, Pointer, Kinds
  <1>4. \A a \in Objects : Kept(<<"object", a>>, x, y, x, y)
    <2>1. \A a \in Objects : Releases(a)' <=> Releases(a)
      BY <1>1 DEF Releases
    <2>2. object'[o] = NoPacket /\ \A a \in Objects : a # o => object'[a] = object[a]
      BY <1>1 DEF OwnInv
    <2>3. QED  BY <2>1, <2>2 DEF Kept, In
  <1>5. \A k \in Kinds, q \in Packets : Kept(<<k, q>>, x, y, x, y)
    <2>1. \A k \in Kinds, q \in Packets : <<k, q>> # x => In(<<k, q>>)' = In(<<k, q>>)
      BY <1>1 DEF In, Kinds
    <2>2. \A k \in Kinds, q \in Packets : <<k, q>> # y
      BY DEF Kinds
    <2>3. QED  BY <2>1, <2>2 DEF Kept
  <1>6. In(x)' = In(y) \/ In(x)' = NoPacket
    <2>1. p \in sent'
      BY <1>1
    <2>2. In(x)' = p
      BY <2>1 DEF In
    <2>3. QED  BY <1>2, <2>2
  <1>7. \A f \in Fields, u \in Callers : y # <<f, u>>
    BY DEF Fields
  <1> HIDE DEF x, y
  <1>8. Exclusive'
    BY <1>1, <1>3, <1>4, <1>5, <1>6, <1>7, CallsKeptMoved DEF OwnInv
  <1>9. /\ DOMAIN object' = Objects /\ PacketShape' /\ Pool' /\ Calls' /\ Stack'
    BY <1>1, <1>3 DEF OwnInv, PacketShape, Pool, Calls, Stack
  <1>10. QED  BY <1>8, <1>9 DEF OwnInv

LEMMA AdoptMoves ==
  ASSUME OwnInv, NEW t \in Threads, NEW o \in ObjectsOf[t], NEW p \in received, Adopt(t, o, p)
  PROVE  OwnInv'
  <1> DEFINE x == <<"object", o>>
             y == <<"received", p>>
  <1>1. /\ o \in Objects /\ x \in Slots
        /\ UNCHANGED <<available, packet, sent, call>> /\ received' = received \ {p}
        /\ object' = [object EXCEPT ![o] = p]
    BY IdleThread, AreSlots DEF Adopt, At, poolVars
  <1>2. p \in Packets /\ y \in Slots /\ In(y) = p
    BY AreSlots, InKind DEF OwnInv, Stack, Kinds
  <1>3. \A a \in Objects : Releases(a)' <=> Releases(a)
    BY <1>1 DEF Releases
  <1>4. \A a \in Objects : Kept(<<"object", a>>, x, y, x, y)
    <2>1. \A a \in Objects : a # o => object'[a] = object[a]
      BY <1>1 DEF OwnInv
    <2>2. QED  BY <1>3, <2>1 DEF Kept, In
  <1>5. \A k \in Kinds, q \in Packets : Kept(<<k, q>>, x, y, x, y)
    <2>1. \A k \in Kinds, q \in Packets : <<k, q>> # y => In(<<k, q>>)' = In(<<k, q>>)
      BY <1>1 DEF In, Kinds
    <2>2. In(y)' = NoPacket
      BY <1>1 DEF In
    <2>3. QED  BY <2>1, <2>2 DEF Kept
  <1>6. In(x)' = In(y) \/ In(x)' = NoPacket
    BY <1>1, <1>2, <1>3 DEF In, OwnInv
  <1>7. \A f \in Fields, u \in Callers : y # <<f, u>>
    BY DEF Fields
  <1> HIDE DEF x, y
  <1>8. Exclusive'
    BY <1>1, <1>2, <1>4, <1>5, <1>6, <1>7, CallsKeptMoved DEF OwnInv
  <1>9. /\ DOMAIN object' = Objects /\ PacketShape' /\ Pool' /\ Calls' /\ Stack'
    BY <1>1 DEF OwnInv, PacketShape, Pool, Calls, Stack
  <1>10. QED  BY <1>8, <1>9 DEF OwnInv

LEMMA ReceiveMoves ==
  ASSUME OwnInv, NEW size, Receive(size)
  PROVE  OwnInv'
  <1>0. PICK h : h = Head(available)
    OBVIOUS
  <1> DEFINE x == <<"received", h>>
             y == <<"pool", h>>
             q == [Fresh(0) EXCEPT !.length = size, !.used = size]
  <1>1. /\ available # <<>> /\ available' = Tail(available)
        /\ packet' = [packet EXCEPT ![Head(available)] = q]
        /\ received' = received \cup {h} /\ UNCHANGED <<object, sent, call>>
    BY <1>0 DEF Receive
  <1>2. DOMAIN q = DOMAIN Fresh(0) /\ q.mark = "ALLOCATED" /\ q.next = NoPacket
    BY DEF Fresh
  <1> HIDE DEF q
  <1>3. h \in Packets /\ x \in Slots
    BY <1>0, <1>1, FirstFree, AreSlots DEF OwnInv, Kinds
  <1>4. /\ PacketShape' /\ Pool' /\ In(y) = h /\ y \in Slots
        /\ \A k \in {"next", "pool"}, p \in Packets :
             \/ In(<<k, p>>)' = NoPacket
             \/ In(<<k, p>>)' = In(<<k, p>>) /\ <<k, p>> # y
    BY <1>0, <1>1, <1>2, TakenFromPool DEF OwnInv
  <1>5. \A a \in Objects : Kept(<<"object", a>>, x, y, x, y)
    BY <1>1 DEF Kept, In, Releases
  <1>6. \A k \in Kinds, p \in Packets : Kept(<<k, p>>, x, y, x, y)
    <2>1. \A k \in {"received", "sent"}, p \in Packets :
            <<k, p>> # x => In(<<k, p>>)' = In(<<k, p>>) /\ <<k, p>> # y
      BY <1>1 DEF In
    <2>2. QED  BY <1>4, <2>1 DEF Kept, Kinds
  <1>7. In(x)' = In(y) \/ In(x)' = NoPacket
    <2>1. h \in received'
      BY <1>1
    <2>2. In(x)' = h
      BY <2>1 DEF In
    <2>3. QED  BY <1>4, <2>2
  <1>8. \A f \in Fields, u \in Callers : y # <<f, u>>
    BY DEF Fields
  <1> HIDE DEF x, y
  <1>9. Exclusive'
    BY <1>1, <1>3, <1>4, <1>5, <1>6, <1>7, <1>8, CallsKeptMoved DEF OwnInv
  <1>10. DOMAIN object' = Objects /\ Calls' /\ Stack'
    BY <1>1, <1>3 DEF OwnInv, Calls, Stack
  <1>11. QED  BY <1>4, <1>9, <1>10 DEF OwnInv
-----------------------------------------------------------------------------
(* Releases begin.                                                         *)
LEMMA StackReleaseMoves ==
  ASSUME IInv, OwnInv, NEW p \in Packets, StackRelease(p)
  PROVE  OwnInv'
  <1> DEFINE t == IpThread
             b == [Idle EXCEPT !.op = "stack"]
             d == Releasing(b, p)
             x == <<"free", t>>
  <1>1. /\ t \in Callers /\ t \notin Threads /\ Shape /\ Goes(t, d)
        /\ UNCHANGED <<available, packet, object>>
        /\ p \in received \cup sent /\ received' = received \ {p} /\ sent' = sent \ {p}
    BY PoolAssumption DEF StackRelease, poolVars, Callers, IInv
  <1>2. PICK k \in {"received", "sent"} : In(<<k, p>>) = p
    BY <1>1, InKind
  <1> DEFINE y == <<k, p>>
  <1>3. x \in Slots /\ y \in Slots /\ \A f \in Fields, u \in Callers : y # <<f, u>>
    BY <1>1, AreSlots DEF Fields, Kinds
  <1>4. IsCall(b) /\ CallOf(t, b) /\ \A f \in Fields : Local(b, f) = NoPacket
    BY <1>1 DEF IsCall, Idle, CallOf, Phases, Local, Fields
  <1> HIDE DEF b, y, t
  <1>5. Frees(t, b, d, y) /\ GoesOn(b, d)
    <2>1. In(y) = p /\ p # NoPacket
      BY <1>2, PoolAssumption DEF y
    <2>2. \A f \in Fields \ {"free"} :
            Local(b, f) = NoPacket \/ (Local(b, f) = Local(b, f) /\ y # <<f, t>>)
      BY <1>4
    <2>3. Frees(t, b, Releasing(b, In(y)), y) /\ GoesOn(b, Releasing(b, In(y)))
      BY <1>4, <2>1, <2>2, ReleasingFrees
    <2>4. QED  BY <2>1, <2>3
  <1>6. CallOf(t, d)
    BY <1>4, <1>5, SoundGoesOn
  <1> HIDE DEF d
  <1>7. "free" \in Fields /\ (In(x)' = In(y) \/ In(x)' = NoPacket)
    <2>1. "free" \in Fields
      BY DEF Fields
    <2>2. In(x)' = Local(d, "free")
      BY <1>1, <2>1, CallGoesOn
    <2>3. QED  BY <1>5, <2>1, <2>2 DEF Frees
  <1>8. \A o \in Objects : Kept(<<"object", o>>, x, y, x, y)
    <2>1. \A o \in Objects : In(<<"object", o>>)' = In(<<"object", o>>)
      BY <1>1, CallGoesOn, ObjectsStay
    <2>2. \A o \in Objects : <<"object", o>> # y
      BY DEF y
    <2>3. QED  BY <2>1, <2>2 DEF Kept
  <1>9. \A f \in Fields :
          <<f, t>> # x =>
            Local(d, f) = NoPacket \/ (Local(d, f) = Local(call[t], f) /\ <<f, t>> # y)
    BY <1>4, <1>5 DEF Frees
  <1>10. \A j \in Kinds, q \in Packets : Kept(<<j, q>>, x, y, x, y)
    <2>1. \A j \in {"next", "pool"}, q \in Packets :
            In(<<j, q>>)' = In(<<j, q>>) /\ <<j, q>> # y
      BY <1>1, PacketsStay DEF y
    <2>2. \A j \in {"received", "sent"}, q \in Packets :
            (In(<<j, q>>)' = In(<<j, q>>) /\ <<j, q>> # y) \/ In(<<j, q>>)' = NoPacket
      BY <1>1 DEF In, y
    <2>3. QED  BY <2>1, <2>2 DEF Kept, Kinds
  <1> HIDE DEF x
  <1>11. Exclusive'
    BY <1>1, <1>3, <1>7, <1>8, <1>9, <1>10, CallMoved DEF OwnInv
  <1>12. Calls'
    BY <1>1, <1>6, CallsGoOn DEF OwnInv
  <1>13. DOMAIN object' = Objects /\ PacketShape' /\ Pool' /\ Stack'
    BY <1>1 DEF OwnInv, PacketShape, Pool, Stack
  <1>14. QED  BY <1>11, <1>12, <1>13 DEF OwnInv

LEMMA CallReleaseMoves ==
  ASSUME IInv, OwnInv, NEW t \in Threads, NEW o \in ObjectsOf[t], CallRelease(t, o)
  PROVE  OwnInv'
  <1>0. PICK p : p = object[o]
    OBVIOUS
  <1> DEFINE b == [Idle EXCEPT !.op = "release", !.obj = {o}]
             d == [b EXCEPT !.pc = "put", !.free = p, !.to = {}, !.wait = "none"]
             x == <<"free", t>>
             y == <<"object", o>>
  <1>1. /\ t \in Callers /\ Shape /\ call[t].op # "release" /\ o \in Objects /\ ~Releases(o)
        /\ UNCHANGED <<available, packet, object, stackVars>>
        /\ p # NoPacket /\ Goes(t, Releasing(b, p))
    BY <1>0, IdleThread DEF CallRelease, At, poolVars, IInv
  <1>2. /\ d.op = "release" /\ d.obj = {o} /\ CallOf(t, d) /\ Local(d, "free") = p
        /\ \A f \in Fields \ {"free"} : Local(d, f) = NoPacket
    BY <1>1 DEF Idle, CallOf, Phases, Local, Fields
  <1>3. In(y) = p /\ x \in Slots /\ y \in Slots /\ \A f \in Fields, u \in Callers : y # <<f, u>>
    BY <1>0, <1>1, InObject, AreSlots DEF Fields
  <1>4. packet[p].mark = "ALLOCATED"
    BY <1>1, <1>3, NotFree DEF OwnInv
  <1>5. Goes(t, d)
    BY <1>1, <1>4 DEF Releasing
  <1> HIDE DEF b, d
  <1>6. In(x)' = In(y) \/ In(x)' = NoPacket
    <2>1. "free" \in Fields
      BY DEF Fields
    <2>2. In(x)' = Local(d, "free")
      BY <1>1, <1>5, <2>1, CallGoesOn
    <2>3. QED  BY <1>2, <1>3, <2>2
  <1>7. \A a \in Objects : Kept(<<"object", a>>, x, y, x, y)
    <2>1. call'[t] = d /\ \A u \in Callers : u # t => call'[u] = call[u]
      BY <1>1, <1>5, CallGoesOn
    <2>2. Releases(o)'
      BY <1>2, <2>1 DEF Releases
    <2>3. \A a \in Objects : a # o => (Releases(a)' <=> Releases(a))
      BY <1>1, <1>2, <2>1 DEF Releases, Callers
    <2>4. QED  BY <1>1, <2>2, <2>3 DEF Kept, In
  <1>8. \A f \in Fields :
          <<f, t>> # x =>
            Local(d, f) = NoPacket \/ (Local(d, f) = Local(call[t], f) /\ <<f, t>> # y)
    BY <1>2
  <1>9. \A k \in Kinds, q \in Packets : Kept(<<k, q>>, x, y, x, y)
    <2>1. \A k \in Kinds, q \in Packets : In(<<k, q>>)' = In(<<k, q>>)
      BY <1>1, LinksUnchanged, SameKinds DEF OwnInv
    <2>2. \A k \in Kinds, q \in Packets : <<k, q>> # y
      BY DEF Kinds
    <2>3. QED  BY <2>1, <2>2 DEF Kept
  <1> HIDE DEF x, y
  <1>10. Exclusive'
    BY <1>1, <1>3, <1>5, <1>6, <1>7, <1>8, <1>9, CallMoved DEF OwnInv
  <1>11. Calls'
    BY <1>1, <1>2, <1>5, CallsGoOn DEF OwnInv
  <1>12. DOMAIN object' = Objects /\ PacketShape' /\ Pool' /\ Stack'
    BY <1>1 DEF OwnInv, PacketShape, Pool, Stack, stackVars
  <1>13. QED  BY <1>10, <1>11, <1>12 DEF OwnInv
-----------------------------------------------------------------------------
(* A call ends with its packet in the object. *)
LEMMA ObjectGets ==
  ASSUME IInv, OwnInv, NEW t \in Threads, Goes(t, Idle), SameLinks,
         UNCHANGED <<available, stackVars>>, call[t].op # "release",
         NEW g \in Fields,
         object' = [o \in Objects |-> IF o \in call[t].obj THEN Local(call[t], g) ELSE object[o]]
  PROVE  OwnInv'
  <1>0. /\ t \in Callers /\ Shape /\ PacketShape /\ Pool /\ Calls /\ Exclusive
        /\ CallOf(t, call[t]) /\ CallOf(t, Idle)
    BY IdleHoldsNothing DEF OwnInv, IInv, Callers, Calls, CallOf
  <1> DEFINE y == <<g, t>>
  <1>1. In(y) = Local(call[t], g) /\ In(y)' = NoPacket /\ y \in Slots
    BY <1>0, InCall, CallGoesOn, AreSlots, IdleHoldsNothing
  <1>2. \A o \in Objects : Releases(o)' <=> Releases(o)
    BY <1>0, CallGoesOn, IdleHoldsNothing DEF Releases, Callers
  <1>3. PICK x \in Slots :
          /\ \/ In(x)' = In(y) \/ In(x)' = NoPacket
          /\ \A o \in Objects : Kept(<<"object", o>>, x, y, x, y)
    <2>1. \A o \in Objects : <<"object", o>> # y
      BY DEF Fields
    <2>2. CASE call[t].obj = {}
      <3>1. \A o \in Objects : In(<<"object", o>>)' = In(<<"object", o>>)
        BY <1>2, <2>2 DEF In
      <3>2. QED  BY <1>1, <2>1, <3>1 DEF Kept
    <2>3. ASSUME NEW o \in call[t].obj PROVE TRUE /\ \E x \in Slots :
              /\ \/ In(x)' = In(y) \/ In(x)' = NoPacket
              /\ \A a \in Objects : Kept(<<"object", a>>, x, y, x, y)
      <3>1. o \in ObjectsOf[t] /\ call[t].obj = {o}
        BY <1>0 DEF CallOf
      <3>2. o \in Objects
        BY <3>1 DEF Objects
      <3> DEFINE x == <<"object", o>>
      <3>3. object'[o] = Local(call[t], g) /\ \A a \in Objects : a # o => object'[a] = object[a]
        BY <3>1, <3>2
      <3>4. In(x)' = In(y) \/ In(x)' = NoPacket
        BY <1>1, <3>3 DEF In
      <3>5. \A a \in Objects : a # o => In(<<"object", a>>)' = In(<<"object", a>>)
        BY <1>2, <3>3 DEF In
      <3>6. x \in Slots /\ \A a \in Objects : Kept(<<"object", a>>, x, y, x, y)
        BY <2>1, <3>2, <3>5, AreSlots DEF Kept
      <3>7. QED  BY <3>4, <3>6
    <2>4. QED  BY <2>2, <2>3
  <1>4. \A k \in Kinds, q \in Packets : Kept(<<k, q>>, x, y, x, y)
    <2>1. \A k \in Kinds, q \in Packets : In(<<k, q>>)' = In(<<k, q>>)
      BY SameKinds
    <2>2. \A k \in Kinds, q \in Packets : <<k, q>> # y
      BY DEF Fields, Kinds
    <2>3. QED  BY <2>1, <2>2 DEF Kept
  <1>5. \A f \in Fields, u \in Callers : y = <<f, u>> => u = t
    OBVIOUS
  <1>6. \A f \in Fields : Local(Idle, f) = NoPacket
    BY IdleHoldsNothing
  <1> HIDE DEF y
  <1>7. Exclusive'
    BY <1>0, <1>1, <1>3, <1>4, <1>5, <1>6, CallMoved
  <1>8. PacketShape' /\ Pool' /\ Calls' /\ Stack' /\ DOMAIN object' = Objects
    BY <1>0, LinksStay, CallsGoOn DEF OwnInv, Stack, stackVars
  <1>9. QED  BY <1>7, <1>8 DEF OwnInv

LEMMA EndAllocateMoves ==
  ASSUME IInv, OwnInv, NEW t \in Threads, EndAllocate(t)
  PROVE  OwnInv'
  <1>1. /\ Goes(t, Idle) /\ UNCHANGED <<available, packet, stackVars>>
        /\ call[t].op # "release"
        /\ object' = [o \in Objects |-> IF o \in call[t].obj THEN call[t].got ELSE object[o]]
    BY DEF EndAllocate, poolVars
  <1>2. "got" \in Fields /\ Local(call[t], "got") = call[t].got
    BY DEF Fields, Local
  <1>3. SameLinks
    BY <1>1, LinksUnchanged DEF OwnInv
  <1>4. QED  BY <1>1, <1>2, <1>3, ObjectGets

LEMMA EndCopyMoves ==
  ASSUME IInv, OwnInv, NEW t \in Threads, EndCopy(t)
  PROVE  OwnInv'
  <1>0. t \in Callers /\ IsCall(call[t]) /\ CallOf(t, call[t]) /\ PacketShape
    BY DEF Callers, OwnInv, IInv, Shape, Calls
  <1>1. PICK copied, equal :
          /\ \E offset, length :
               copied = [packet[call[t].target] EXCEPT !.prepend = offset, !.length = length]
          /\ packet' = [packet EXCEPT ![call[t].target] = copied]
          /\ object' = IF equal
                       THEN [o \in Objects |->
                               IF o \in call[t].obj THEN call[t].target ELSE object[o]]
                       ELSE object
          /\ Goes(t, IF equal THEN Idle ELSE Abandoned(call[t]))
          /\ UNCHANGED <<available, stackVars>>
    BY DEF EndCopy, poolVars
  <1>2. call[t].op = "copy" /\ call[t].op # "release"
    BY <1>0 DEF EndCopy, At, CallOf, Phases
  <1>3. SameLinks
    BY <1>0, <1>1 DEF SameLinks, PacketShape, Fresh
  <1>4. CASE equal
    <2>1. "target" \in Fields /\ Local(call[t], "target") = call[t].target
      BY <1>2 DEF Fields, Local
    <2>2. QED  BY <1>1, <1>2, <1>3, <1>4, <2>1, ObjectGets
  <1>5. CASE ~equal
    BY <1>1, <1>2, <1>3, <1>5, AbandonMoves
  <1>6. QED  BY <1>4, <1>5
-----------------------------------------------------------------------------
(* A packet z becomes the one behind q. *)
Chained(q, z) ==
  /\ PacketShape' /\ \A p \in Packets : packet'[p].mark = packet[p].mark
  /\ \A p \in Packets : p # q => packet'[p].next = packet[p].next
  /\ q \in Packets => packet'[q].next = z

LEMMA ChainMoves ==
  ASSUME IInv, OwnInv, NEW t \in Threads, NEW d, Goes(t, d), CallOf(t, d),
         UNCHANGED <<available, object, stackVars>>,
         call[t].op # "release", d.op # "release",
         NEW g \in Fields, Local(d, g) = NoPacket,
         \A h \in Fields : Local(d, h) = NoPacket \/ Local(d, h) = Local(call[t], h),
         NEW q, Chained(q, Local(call[t], g))
  PROVE  OwnInv'
  <1>0. t \in Callers /\ Shape /\ PacketShape /\ Pool /\ Calls /\ Exclusive
    BY DEF OwnInv, IInv, Callers
  <1>1. /\ PacketShape' /\ \A p \in Packets : packet'[p].mark = packet[p].mark
        /\ \A p \in Packets : p # q => packet'[p].next = packet[p].next
        /\ q \in Packets => packet'[q].next = Local(call[t], g)
    BY DEF Chained
  <1>2. CASE q \notin Packets
    <2>1. SameLinks
      BY <1>1, <1>2 DEF SameLinks
    <2>2. \A h \in Fields \ {g} :
            Local(d, h) = NoPacket \/ (Local(d, h) = Local(call[t], h) /\ h # g)
      OBVIOUS
    <2>3. QED  BY <1>0, <2>1, <2>2, VariableMoves
  <1>3. CASE q \in Packets
    <2> DEFINE x == <<"next", q>>
               y == <<g, t>>
    <2>1. x \in Slots /\ y \in Slots /\ In(y) = Local(call[t], g)
      BY <1>0, <1>3, AreSlots, InCall DEF Kinds
    <2>2. In(x)' = In(y) \/ In(x)' = NoPacket
      <3>1. In(x)' = packet'[q].next
        BY DEF In
      <3>2. QED  BY <1>1, <1>3, <2>1, <3>1
    <2>3. \A o \in Objects : Kept(<<"object", o>>, x, y, x, y)
      <3>1. \A o \in Objects : In(<<"object", o>>)' = In(<<"object", o>>)
        BY <1>0, CallGoesOn, ObjectsStay
      <3>2. \A o \in Objects : <<"object", o>> # y
        BY DEF Fields
      <3>3. QED  BY <3>1, <3>2 DEF Kept
    <2>4. \A k \in Kinds, p \in Packets : Kept(<<k, p>>, x, y, x, y)
      <3>1. \A k \in Kinds, p \in Packets : <<k, p>> # x => In(<<k, p>>)' = In(<<k, p>>)
        BY <1>1, PacketsStay DEF Kinds, stackVars
      <3>2. \A k \in Kinds, p \in Packets : <<k, p>> # y
        BY DEF Fields, Kinds
      <3>3. QED  BY <3>1, <3>2 DEF Kept
    <2>5. \A f \in Fields, u \in Callers : y = <<f, u>> => u = t
      OBVIOUS
    <2>6. \A f \in Fields :
            <<f, t>> # x =>
              Local(d, f) = NoPacket \/ (Local(d, f) = Local(call[t], f) /\ <<f, t>> # y)
      OBVIOUS
    <2> HIDE DEF x, y
    <2>7. Exclusive'
      BY <1>0, <2>1, <2>2, <2>3, <2>4, <2>5, <2>6, CallMoved
    <2>8. Pool'
      BY <1>0, <1>1 DEF Pool
    <2>9. Calls' /\ Stack' /\ DOMAIN object' = Objects
      BY <1>0, CallsGoOn DEF OwnInv, Stack, stackVars
    <2>10. QED  BY <1>1, <2>7, <2>8, <2>9 DEF OwnInv
  <1>4. QED  BY <1>2, <1>3

LEMMA LinkMoves ==
  ASSUME IInv, OwnInv, NEW t \in Threads, Link(t)
  PROVE  OwnInv'
  <1>0. t \in Callers /\ IsCall(call[t]) /\ CallOf(t, call[t]) /\ PacketShape
    BY DEF Callers, OwnInv, IInv, Shape, Calls
  <1> DEFINE d == [call[t] EXCEPT !.pc = "fill", !.list = NoPacket]
  <1>1. /\ Goes(t, d) /\ UNCHANGED <<available, object, stackVars>>
        /\ packet' = Linked(packet, call[t].target, call[t].list)
    BY DEF Link, poolVars
  <1>2. /\ d.op = call[t].op /\ CallOf(t, d) /\ d.op # "release" /\ Local(d, "list") = NoPacket
        /\ \A h \in Fields : Local(d, h) = NoPacket \/ Local(d, h) = Local(call[t], h)
    BY <1>0 DEF Link, At, IsCall, Idle, Local, Fields, CallOf, Phases
  <1> HIDE DEF d
  <1>3. "list" \in Fields /\ Local(call[t], "list") = call[t].list
    BY DEF Fields, Local
  <1>4. CASE call[t].list = NoPacket
    <2>1. SameLinks
      BY <1>0, <1>1, <1>4, LinksUnchanged DEF Linked
    <2>2. \A h \in Fields \ {"list"} :
            Local(d, h) = NoPacket \/ (Local(d, h) = Local(call[t], h) /\ h # "list")
      BY <1>2
    <2>3. QED  BY <1>0, <1>1, <1>2, <1>3, <2>1, <2>2, VariableMoves
  <1>5. CASE call[t].list # NoPacket
    <2>1. PICK q : packet' = [packet EXCEPT ![q].next = call[t].list,
                                            ![call[t].list].last = NoPacket]
      BY <1>1, <1>5 DEF Linked
    <2>2. Chained(q, Local(call[t], "list"))
      BY <1>0, <1>3, <2>1 DEF Chained, PacketShape, Fresh
    <2>3. QED  BY <1>1, <1>2, <1>3, <2>2, ChainMoves
  <1>6. QED  BY <1>4, <1>5

LEMMA CollectMoves ==
  ASSUME IInv, OwnInv, NEW t \in Threads, Collect(t)
  PROVE  OwnInv'
  <1>0. t \in Callers /\ IsCall(call[t]) /\ CallOf(t, call[t]) /\ PacketShape
    BY DEF Callers, OwnInv, IInv, Shape, Calls
  <1> DEFINE c == call[t]
             d == [c EXCEPT !.pc = "append", !.got = NoPacket,
                            !.list = IF @ = NoPacket THEN c.got ELSE @]
  <1>1. /\ Goes(t, d) /\ UNCHANGED <<available, object, stackVars>>
        /\ packet' = Collected(packet, c.list, c.got)
    BY DEF Collect, poolVars
  <1>2. /\ d.op = c.op /\ CallOf(t, d) /\ d.op # "release" /\ Local(d, "got") = NoPacket
        /\ Local(d, "list") = IF c.list = NoPacket THEN c.got ELSE c.list
        /\ Local(d, "target") = Local(c, "target") /\ Local(d, "free") = Local(c, "free")
    BY <1>0 DEF Collect, At, IsCall, Idle, Local, CallOf, Phases
  <1> HIDE DEF d
  <1>3. /\ "list" \in Fields /\ "got" \in Fields
        /\ Local(c, "list") = c.list /\ Local(c, "got") = c.got
    BY DEF Fields, Local
  <1>4. CASE c.list = NoPacket
    <2>1. SameLinks
      BY <1>0, <1>1, <1>4, LinksUnchanged DEF Collected
    <2>2. \A h \in Fields \ {"list"} :
            Local(d, h) = NoPacket \/ (Local(d, h) = Local(c, h) /\ h # "got")
      BY <1>2 DEF Fields
    <2>3. Local(d, "list") \in {Local(c, "got"), NoPacket}
      BY <1>2, <1>3, <1>4
    <2>4. QED  BY <1>0, <1>1, <1>2, <1>3, <2>1, <2>2, <2>3, VariableMoves
  <1>5. CASE c.list # NoPacket
    <2>1. PICK q : packet' = [packet EXCEPT ![q].next = c.got, ![c.list].last = c.got]
      BY <1>1, <1>5 DEF Collected
    <2>2. Chained(q, Local(c, "got"))
      BY <1>0, <1>3, <2>1 DEF Chained, PacketShape, Fresh
    <2>3. \A h \in Fields : Local(d, h) = NoPacket \/ Local(d, h) = Local(c, h)
      BY <1>2, <1>3, <1>5 DEF Fields
    <2>4. QED  BY <1>1, <1>2, <1>3, <2>2, <2>3, ChainMoves
  <1>6. QED  BY <1>4, <1>5
-----------------------------------------------------------------------------
(* What a call that releases has in hand. *)
LEMMA FreedIsOwn ==
  ASSUME IInv, OwnInv, NEW t \in Callers, call[t].pc \in {"put", "give"}
  PROVE  /\ call[t].free \in Packets /\ packet[call[t].free].mark = "ALLOCATED"
         /\ In(<<"free", t>>) = call[t].free /\ <<"free", t>> \in Slots
         /\ IsCall(call[t]) /\ CallOf(t, call[t])
  <1>1. IsCall(call[t]) /\ CallOf(t, call[t]) /\ call[t].free # NoPacket
    BY DEF IInv, Shape, OwnInv, Calls, CallOf, Phases
  <1>2. <<"free", t>> \in Slots /\ In(<<"free", t>>) = call[t].free
    BY AreSlots, InCall DEF Fields, Local
  <1>3. <<"free", t>>[1] # "pool"
    OBVIOUS
  <1>4. QED  BY <1>1, <1>2, <1>3, NotFree DEF OwnInv

(* BasePacket::release forgets the pointer when the last packet is released, *)
(* and until then the pointer counts for nothing. *)
LEMMA ObjectsForget ==
  ASSUME IInv, OwnInv, NEW t \in Callers, call[t].pc \in {"put", "give"}, Forgets(t),
         call'[t] = Onward(call[t]),
         \A u \in Callers : u # t => call'[u].op = call[u].op /\ call'[u].obj = call[u].obj
  PROVE  /\ DOMAIN object' = Objects
         /\ \A o \in Objects :
              In(<<"object", o>>)' = In(<<"object", o>>) \/ In(<<"object", o>>)' = NoPacket
  <1> DEFINE c == call[t]
             d == Onward(c)
  <1>1. c.free \in Packets /\ IsCall(c) /\ GoesOn(c, d)
    BY FreedIsOwn, OnwardFrees
  <1>2. /\ DOMAIN object' = Objects
        /\ \A o \in Objects : object'[o] = object[o] \/ object'[o] = NoPacket
    BY DEF Forgets, OwnInv
  <1>3. ASSUME NEW o \in Objects, Releases(o)' <=> Releases(o)
        PROVE  In(<<"object", o>>)' = In(<<"object", o>>) \/ In(<<"object", o>>)' = NoPacket
    BY <1>2, <1>3 DEF In
  <1>4. CASE t \notin Threads \/ c.op # "release"
    <2>1. t \notin Threads \/ (c.op # "release" /\ call'[t].op # "release")
      BY <1>1, <1>4, IdleHoldsNothing DEF GoesOn
    <2>2. \A o \in Objects : Releases(o)' <=> Releases(o)
      BY <2>1 DEF Releases, Callers
    <2>3. QED  BY <1>2, <1>3, <2>2
  <1>5. CASE t \in Threads /\ c.op = "release" /\ packet[c.free].next # NoPacket
    <2> DEFINE v == <<"next", c.free>>
    <2>1. In(v) = packet[c.free].next /\ v \in Slots
      BY <1>1, InKind, AreSlots DEF Kinds
    <2>2. v[1] # "pool"
      OBVIOUS
    <2>3. packet[packet[c.free].next].mark = "ALLOCATED"
      BY <1>5, <2>1, <2>2, NotFree DEF OwnInv
    <2>4. d.op = c.op /\ d.obj = c.obj
      BY <1>1, <1>5, <2>3 DEF Onward, Releasing, IsCall, Idle
    <2>5. \A o \in Objects : Releases(o)' <=> Releases(o)
      BY <2>4 DEF Releases, Callers
    <2>6. QED  BY <1>2, <1>3, <2>5
  <1>6. CASE t \in Threads /\ c.op = "release" /\ packet[c.free].next = NoPacket
    <2>1. call'[t].op # "release"
      BY <1>6, IdleHoldsNothing DEF Onward
    <2>2. \A o \in Objects : o \notin c.obj => (Releases(o)' <=> Releases(o))
      BY <2>1 DEF Releases, Callers
    <2>3. \A o \in Objects : o \in c.obj => object'[o] = NoPacket
      BY <1>6 DEF Forgets
    <2>4. \A o \in Objects : o \in c.obj => In(<<"object", o>>)' = NoPacket
      BY <2>3 DEF In
    <2>5. QED  BY <1>2, <1>3, <2>2, <2>4
  <1>7. QED  BY <1>4, <1>5, <1>6

(* A packet put before others. *)
LEMMA ElementsOfPush ==
  ASSUME NEW S, NEW s \in Seq(S), NEW e \in S, NoneTwice(s), e \notin ToSet(s)
  PROVE  /\ <<e>> \o s \in Seq(S)
         /\ ToSet(<<e>> \o s) = ToSet(s) \cup {e}
         /\ NoneTwice(<<e>> \o s)
  <1> DEFINE r == <<e>> \o s
  <1>1. /\ r \in Seq(S) /\ Len(r) = Len(s) + 1 /\ Len(s) \in Nat
        /\ r[1] = e /\ \A i \in 2..Len(r) : r[i] = s[i - 1] /\ i - 1 \in 1..Len(s)
        /\ DOMAIN r = 1..Len(r)
    OBVIOUS
  <1> HIDE DEF r
  <1>2. \A j \in 1..Len(s) : j + 1 \in 2..Len(r) /\ r[j + 1] = s[j]
    BY <1>1
  <1>3. \A i \in 1..Len(s) : s[i] # e
    BY DEF ToSet
  <1>4. NoneTwice(r)
    <2>1. ASSUME NEW i \in 1..Len(r), NEW j \in 1..Len(r), r[i] = r[j] PROVE i = j
      <3>1. CASE i = 1 \/ j = 1
        <4>1. \A k \in 1..Len(r) : k # 1 => k \in 2..Len(r)
          BY <1>1
        <4>2. \A k \in 1..Len(r) : k # 1 => r[k] # e
          BY <1>1, <1>3, <4>1
        <4>3. QED  BY <1>1, <2>1, <3>1, <4>2
      <3>2. CASE i # 1 /\ j # 1
        <4>1. /\ i - 1 \in 1..Len(s) /\ j - 1 \in 1..Len(s)
              /\ r[i] = s[i - 1] /\ r[j] = s[j - 1]
          BY <1>1, <3>2
        <4>2. i - 1 = j - 1
          BY <2>1, <4>1 DEF NoneTwice
        <4>3. QED  BY <1>1, <4>2
      <3>3. QED  BY <3>1, <3>2
    <2>2. QED  BY <2>1 DEF NoneTwice
  <1>5. ToSet(r) = ToSet(s) \cup {e}
    <2>1. \A x \in ToSet(r) : x \in ToSet(s) \cup {e}
      BY <1>1 DEF ToSet
    <2>2. \A x \in ToSet(s) : x \in ToSet(r)
      <3>1. \A j \in 1..Len(s) : r[j + 1] \in ToSet(r)
        BY <1>1, <1>2 DEF ToSet
      <3>2. \A x \in ToSet(s) : \E j \in 1..Len(s) : x = s[j]
        BY <1>1 DEF ToSet
      <3>3. QED  BY <1>2, <3>1, <3>2
    <2>3. e \in ToSet(r)
      BY <1>1 DEF ToSet
    <2>4. QED  BY <2>1, <2>2, <2>3
  <1>6. QED  BY <1>1, <1>4, <1>5 DEF r

(* The released packet is empty, and the chain behind it is the call's. *)
LEMMA PutBackMoves ==
  ASSUME IInv, OwnInv, NEW t \in Callers, PutBack(t)
  PROVE  OwnInv'
  <1>0. PICK p : p = call[t].free
    OBVIOUS
  <1> DEFINE d == Onward(call[t])
             x == <<"pool", p>>
             y == <<"free", t>>
  <1>1. /\ call[t].pc = "put" /\ Goes(t, d) /\ Forgets(t) /\ UNCHANGED stackVars
        /\ available' = <<p>> \o available
        /\ packet' = [packet EXCEPT ![p] = [Fresh(0) EXCEPT !.mark = "FREE"]]
    BY <1>0 DEF PutBack, At
  <1>2. /\ p \in Packets /\ packet[p].mark = "ALLOCATED"
        /\ In(y) = p /\ y \in Slots /\ x \in Slots /\ IsCall(call[t]) /\ CallOf(t, call[t])
    BY <1>0, <1>1, FreedIsOwn, AreSlots DEF Kinds
  <1>3. PICK v \in {<<"list", t>>, <<"target", t>>, <<"next", p>>} : Frees(t, call[t], d, v)
    BY <1>0, <1>2, OnwardFrees
  <1>4. CallOf(t, d)
    BY <1>2, OnwardFrees, SoundGoesOn
  <1>5. v \in Slots
    BY <1>2, <1>3, AreSlots DEF Fields, Kinds
  <1>6. Shape /\ PacketShape /\ Pool /\ Calls /\ Exclusive
    BY DEF IInv, OwnInv
  <1>7. /\ PacketShape' /\ packet'[p].next = NoPacket /\ packet'[p].mark = "FREE"
        /\ \A q \in Packets : q # p => packet'[q] = packet[q]
    BY <1>1, <1>2, <1>6 DEF PacketShape, Fresh, Mark
  <1>8. Pool'
    <2>1. p \notin ToSet(available)
      BY <1>2, <1>6 DEF Pool
    <2>2. /\ available' \in Seq(Packets) /\ NoneTwice(available')
          /\ ToSet(available') = ToSet(available) \cup {p}
      BY <1>1, <1>2, <1>6, <2>1, ElementsOfPush DEF Pool
    <2>3. ToSet(available)' = {q \in Packets : packet'[q].mark = "FREE"}
      BY <1>2, <1>6, <1>7, <2>2 DEF Pool
    <2>4. QED  BY <2>2, <2>3 DEF Pool, NoneTwice
  <1> HIDE DEF d
  <1>9. call'[t] = d /\ \A u \in Callers : u # t => call'[u] = call[u]
    BY <1>1, <1>6, CallGoesOn
  <1>10. /\ DOMAIN object' = Objects
         /\ \A o \in Objects : Kept(<<"object", o>>, x, y, y, v)
    <2>1. /\ DOMAIN object' = Objects
          /\ \A o \in Objects :
               In(<<"object", o>>)' = In(<<"object", o>>) \/ In(<<"object", o>>)' = NoPacket
      BY <1>1, <1>9, ObjectsForget DEF d
    <2>2. \A o \in Objects : <<"object", o>> # y /\ <<"object", o>> # v
      BY <1>3
    <2>3. QED  BY <2>1, <2>2 DEF Kept
  <1>11. \A f \in Fields, u \in Callers : Kept(<<f, u>>, x, y, y, v)
    <2>1. ASSUME NEW f \in Fields, NEW u \in Callers PROVE Kept(<<f, u>>, x, y, y, v)
      <3>1. CASE u = t
        <4>1. In(<<f, t>>)' = Local(d, f) /\ In(<<f, t>>) = Local(call[t], f)
          BY <1>9, InCall
        <4>2. QED  BY <1>3, <3>1, <4>1 DEF Kept, Frees
      <3>2. CASE u # t
        <4>1. In(<<f, u>>)' = In(<<f, u>>)
          BY <1>9, <3>2, InCall
        <4>2. <<f, u>> # y /\ <<f, u>> # v
          BY <1>3, <3>2 DEF Fields
        <4>3. QED  BY <4>1, <4>2 DEF Kept
      <3>3. QED  BY <3>1, <3>2
    <2>2. QED  BY <2>1
  <1>12. \A k \in Kinds, q \in Packets : Kept(<<k, q>>, x, y, y, v)
    <2>1. ASSUME NEW k \in Kinds, NEW q \in Packets PROVE Kept(<<k, q>>, x, y, y, v)
      <3>1. CASE <<k, q>> = <<"next", p>>
        BY <1>7, <3>1 DEF Kept, In
      <3>2. CASE <<k, q>> # <<"next", p>> /\ <<k, q>> # x
        <4>1. In(<<k, q>>)' = In(<<k, q>>)
          BY <1>1, <1>7, <3>2, PacketsStay DEF Kinds, stackVars
        <4>2. <<k, q>> # y /\ <<k, q>> # v
          BY <1>3, <3>2 DEF Kinds
        <4>3. QED  BY <4>1, <4>2 DEF Kept
      <3>3. QED  BY <3>1, <3>2 DEF Kept
    <2>2. QED  BY <2>1
  <1>13. In(x)' = In(y) \/ In(x)' = NoPacket
    <2>1. In(x)' = p
      BY <1>7 DEF In
    <2>2. QED  BY <1>2, <2>1
  <1>14. In(y)' = In(v) \/ In(y)' = NoPacket
    <2>1. In(y)' = Local(d, "free")
      BY <1>9, InCall DEF Fields
    <2>2. QED  BY <1>3, <2>1 DEF Frees
  <1>15. x # y => y # v
    BY <1>3
  <1> HIDE DEF x, y
  <1>16. Exclusive'
    BY <1>2, <1>5, <1>6, <1>10, <1>11, <1>12, <1>13, <1>14, <1>15, Moved
  <1>17. Calls' /\ Stack'
    BY <1>1, <1>4, <1>6, CallsGoOn DEF OwnInv, Stack, stackVars
  <1>18. QED  BY <1>7, <1>8, <1>10, <1>16, <1>17 DEF OwnInv

(* The released packet goes to the thread that waits. *)
LEMMA GiveMoves ==
  ASSUME IInv, OwnInv, NEW t \in Callers, Give(t)
  PROVE  OwnInv'
  <1>0. PICK p : p = call[t].free
    OBVIOUS
  <1>1. PICK w \in Threads : call[t].to = {w} /\ call[w].pc = "suspended"
    BY DEF Give, At, IInv, GivesToWaiting
  <1> DEFINE d   == Onward(call[t])
             got == [call[w] EXCEPT !.pc = "allocated", !.got = p]
             x   == <<"got", w>>
             y   == <<"free", t>>
  <1>2. /\ call[t].pc = "give" /\ Forgets(t) /\ UNCHANGED <<available, stackVars>>
        /\ packet' = [packet EXCEPT ![p] = Fresh(call[w].type)]
        /\ call' = [call EXCEPT ![w] = got, ![t] = d]
    BY <1>0, <1>1 DEF Give, At
  <1>3. w \in Callers /\ w # t /\ IsCall(call[w]) /\ CallOf(w, call[w])
    BY <1>1, <1>2 DEF Callers, IInv, OwnInv, Shape, Calls
  <1>4. /\ p \in Packets /\ packet[p].mark = "ALLOCATED" /\ In(y) = p /\ y \in Slots
        /\ x \in Slots /\ IsCall(call[t]) /\ CallOf(t, call[t])
    BY <1>0, <1>2, <1>3, FreedIsOwn, AreSlots DEF Fields
  <1>5. PICK v \in {<<"list", t>>, <<"target", t>>, <<"next", p>>} : Frees(t, call[t], d, v)
    BY <1>0, <1>4, OnwardFrees
  <1>6. CallOf(t, d)
    BY <1>4, OnwardFrees, SoundGoesOn
  <1>7. /\ got.op = call[w].op /\ got.obj = call[w].obj /\ CallOf(w, got) /\ Local(got, "got") = p
        /\ \A f \in Fields \ {"got"} : Local(got, f) = Local(call[w], f)
    BY <1>1, <1>3 DEF IsCall, Idle, CallOf, Phases, Local, Fields
  <1>8. v \in Slots /\ v # y
    BY <1>4, <1>5, AreSlots DEF Fields, Kinds
  <1>9. Shape /\ PacketShape /\ Pool /\ Calls /\ Exclusive
    BY DEF IInv, OwnInv
  <1>10. /\ PacketShape' /\ packet'[p].next = NoPacket /\ packet'[p].mark = "ALLOCATED"
         /\ \A q \in Packets : q # p => packet'[q] = packet[q]
    BY <1>2, <1>4, <1>9 DEF PacketShape, Fresh, Mark
  <1> HIDE DEF d, got
  <1>11. call'[t] = d /\ call'[w] = got /\ \A u \in Callers : u # t /\ u # w => call'[u] = call[u]
    BY <1>2, <1>3, <1>9 DEF Shape
  <1>12. Pool'
    <2>1. \A q \in Packets : packet'[q].mark = packet[q].mark
      BY <1>4, <1>10
    <2>2. QED  BY <1>2, <1>9, <2>1 DEF Pool
  <1>13. /\ DOMAIN object' = Objects
         /\ \A o \in Objects : Kept(<<"object", o>>, x, y, y, v)
    <2>1. \A u \in Callers : u # t => call'[u].op = call[u].op /\ call'[u].obj = call[u].obj
      BY <1>7, <1>11
    <2>2. /\ DOMAIN object' = Objects
          /\ \A o \in Objects :
               In(<<"object", o>>)' = In(<<"object", o>>) \/ In(<<"object", o>>)' = NoPacket
      BY <1>2, <1>11, <2>1, ObjectsForget DEF d
    <2>3. \A o \in Objects : <<"object", o>> # y /\ <<"object", o>> # v
      BY <1>5
    <2>4. QED  BY <2>2, <2>3 DEF Kept
  <1>14. \A f \in Fields, u \in Callers : Kept(<<f, u>>, x, y, y, v)
    <2>1. ASSUME NEW f \in Fields, NEW u \in Callers PROVE Kept(<<f, u>>, x, y, y, v)
      <3>1. CASE u = t
        <4>1. In(<<f, t>>)' = Local(d, f) /\ In(<<f, t>>) = Local(call[t], f)
          BY <1>11, InCall
        <4>2. QED  BY <1>5, <3>1, <4>1 DEF Kept, Frees
      <3>2. CASE u # t /\ <<f, u>> # x
        <4>1. In(<<f, u>>)' = In(<<f, u>>)
          BY <1>7, <1>11, <3>2, InCall
        <4>2. <<f, u>> # y /\ <<f, u>> # v
          BY <1>5, <3>2 DEF Fields
        <4>3. QED  BY <4>1, <4>2 DEF Kept
      <3>3. QED  BY <3>1, <3>2 DEF Kept
    <2>2. QED  BY <2>1
  <1>15. \A k \in Kinds, q \in Packets : Kept(<<k, q>>, x, y, y, v)
    <2>1. ASSUME NEW k \in Kinds, NEW q \in Packets PROVE Kept(<<k, q>>, x, y, y, v)
      <3>1. CASE <<k, q>> = <<"next", p>>
        BY <1>10, <3>1 DEF Kept, In
      <3>2. CASE <<k, q>> # <<"next", p>>
        <4>1. In(<<k, q>>)' = In(<<k, q>>)
          BY <1>2, <1>4, <1>10, <3>2, PacketsStay DEF Kinds, stackVars
        <4>2. <<k, q>> # y /\ <<k, q>> # v
          BY <1>5, <3>2 DEF Kinds
        <4>3. QED  BY <4>1, <4>2 DEF Kept
      <3>3. QED  BY <3>1, <3>2
    <2>2. QED  BY <2>1
  <1>16. In(x)' = In(y) \/ In(x)' = NoPacket
    <2>1. In(x)' = Local(got, "got")
      BY <1>11, InCall DEF Fields
    <2>2. QED  BY <1>4, <1>7, <2>1
  <1>17. In(y)' = In(v) \/ In(y)' = NoPacket
    <2>1. In(y)' = Local(d, "free")
      BY <1>11, InCall DEF Fields
    <2>2. QED  BY <1>5, <2>1 DEF Frees
  <1> HIDE DEF x, y
  <1>18. Exclusive'
    BY <1>4, <1>8, <1>9, <1>13, <1>14, <1>15, <1>16, <1>17, Moved
  <1>19. Calls' /\ Stack'
    BY <1>2, <1>6, <1>7, <1>9, <1>11 DEF OwnInv, Calls, Stack, stackVars
  <1>20. QED  BY <1>10, <1>12, <1>13, <1>18, <1>19 DEF OwnInv
-----------------------------------------------------------------------------
(* At first all packets are in the pool. *)
LEMMA FirstPool ==
  /\ SetToSeq(Packets) \in Seq(Packets) /\ NoneTwice(SetToSeq(Packets))
  /\ ToSet(SetToSeq(Packets)) = Packets
  <1> DEFINE n == Cardinality(Packets)
             f == SetToSeq(Packets)
  <1>1. n \in Nat /\ ExistsBijection(1..n, Packets)
    BY PoolAssumption, FS_CardinalityType
  <1>2. \E g \in [1..n -> Packets] : IsInjective(g)
    BY <1>1 DEF ExistsBijection, Bijection, Injection
  <1>3. f \in [1..n -> Packets] /\ IsInjective(f)
    BY <1>2 DEF SetToSeq
  <1>4. Cardinality(1..n) = n
    BY <1>1, FS_Interval
  <1> HIDE DEF f
  <1>5. f \in Surjection(1..n, Packets)
    <2>1. f \in Injection(1..n, Packets)
      BY <1>3 DEF Injection
    <2>2. QED  BY <1>4, <2>1, PoolAssumption, FS_Injection
  <1>6. f \in Seq(Packets) /\ Len(f) = n
    BY <1>1, <1>3
  <1>7. NoneTwice(f)
    BY <1>3, <1>6 DEF NoneTwice, IsInjective
  <1>8. ToSet(f) = Packets
    <2>1. \A p \in Packets : \E i \in 1..n : f[i] = p
      BY <1>5 DEF Surjection
    <2>2. QED  BY <1>3, <2>1 DEF ToSet
  <1>9. QED  BY <1>6, <1>7, <1>8 DEF f

LEMMA InitOwnInv == Init => OwnInv
  <1> SUFFICES ASSUME Init PROVE OwnInv
    OBVIOUS
  <1>1. \A t \in Callers : call[t] = Idle
    BY DEF Init
  <1>2. \A p \in Packets : packet[p] = [Fresh(0) EXCEPT !.mark = "FREE"]
    BY DEF Init
  <1>3. \A p \in Packets :
          /\ DOMAIN packet[p] = DOMAIN Fresh(0)
          /\ packet[p].mark = "FREE" /\ packet[p].next = NoPacket
    BY <1>2 DEF Fresh
  <1>4. PacketShape
    BY <1>3 DEF Init, PacketShape, Mark
  <1>5. Pool
    BY <1>3, FirstPool DEF Init, Pool
  <1>6. Calls /\ Stack /\ DOMAIN object = Objects
    BY <1>1, IdleHoldsNothing DEF Init, Calls, CallOf, Stack
  <1>7. Exclusive
    <2>1. \A o \in Objects : In(<<"object", o>>) = NoPacket
      BY DEF Init, In
    <2>2. \A f \in Fields, t \in Callers : In(<<f, t>>) = NoPacket
      <3>1. \A f \in Fields, t \in Callers : In(<<f, t>>) = Local(call[t], f)
        BY InCall
      <3>2. QED  BY <1>1, <3>1, IdleHoldsNothing
    <2>3. \A k \in Kinds, p \in Packets : In(<<k, p>>) = IF k = "pool" THEN p ELSE NoPacket
      BY <1>3, InKind DEF Init, Kinds
    <2>4. \A s \in Slots : In(s) # NoPacket => \E p \in Packets : s = <<"pool", p>> /\ In(s) = p
      <3>1. SUFFICES ASSUME NEW s \in Slots, In(s) # NoPacket
                     PROVE  \E p \in Packets : s = <<"pool", p>> /\ In(s) = p
        OBVIOUS
      <3>2. QED  BY <2>1, <2>2, <2>3, <3>1, EachSlot
    <2>5. QED  BY <2>4 DEF Exclusive, Pointer
  <1>8. QED  BY <1>4, <1>5, <1>6, <1>7 DEF OwnInv

LEMMA CallMoves ==
  ASSUME IInv, OwnInv, NEW t \in Threads, Call(t)
  PROVE  OwnInv'
  <1>1. PICK o \in ObjectsOf[t] :
          \/ \E type \in Offsets, wait \in WaitsOf[t] : CallAllocate(t, o, type, wait)
          \/ \E size \in Sizes, wait \in WaitsOf[t] : CallAppend(t, o, size, wait)
          \/ \E wait \in WaitsOf[t] : CallCopy(t, o, wait)
          \/ CallRelease(t, o)
          \/ Send(t, o)
          \/ \E p \in received : Adopt(t, o, p)
    BY DEF Call
  <1>2. QED
    BY <1>1, CallAllocateMoves, CallAppendMoves, CallCopyMoves, CallReleaseMoves, SendMoves,
       AdoptMoves

LEMMA StepMoves ==
  ASSUME IInv, OwnInv, NEW t \in Threads, Step(t)
  PROVE  OwnInv'
  <1>1. t \in Callers
    BY DEF Callers
  <1>2. QED
    BY <1>1, EndAllocateMoves, ExtendMoves, LinkMoves, FillMoves, CollectMoves, GiveUpMoves,
       StartCopyMoves, CopyNextMoves, EndCopyMoves, PutBackMoves, UnqueueMoves, GiveMoves
       DEF Step

LEMMA NothingMoves ==
  ASSUME OwnInv, UNCHANGED vars
  PROVE  OwnInv'
  <1>1. UNCHANGED <<available, packet, object, received, sent, call>>
    BY DEF vars
  <1>2. \A s \in Slots : In(s)' = In(s)
    BY <1>1 DEF In, Releases
  <1>3. Exclusive'
    BY <1>2 DEF OwnInv, Exclusive
  <1>4. QED  BY <1>1, <1>3 DEF OwnInv, PacketShape, Pool, Stack, Calls

LEMMA KeepsOwnInv == IInv /\ OwnInv /\ [Next]_vars => OwnInv'
  <1> SUFFICES ASSUME IInv, OwnInv, [Next]_vars PROVE OwnInv'
    OBVIOUS
  <1>1. IpThread \in Callers
    BY DEF Callers
  <1>2. CASE Next
    BY <1>1, <1>2, CallMoves, StepMoves, TimeoutMoves, PutBackMoves, UnqueueMoves, GiveMoves,
       ReceiveMoves, StackReleaseMoves DEF Next, IpStep
  <1>3. CASE UNCHANGED vars
    BY <1>3, NothingMoves
  <1>4. QED  BY <1>2, <1>3

(* The inductive invariant of ownership: what the pool, the calls, the     *)
(* objects, NetX and the links hold, after every step of every thread.     *)
THEOREM Ownership == SafeSpec => []OwnInv
  BY InitOwnInv, Invariance, KeepsOwnInv, PTL DEF SafeSpec

(* The places of the specification are among them. *)
LEMMA PlaceIsSlot ==
  ASSUME OwnInv, NEW q \in Places
  PROVE  q \in Slots /\ q[1] \notin {"next", "pool"} /\ In(q) = FirstAt(q)
  <1>1. CASE q \in {<<"object", o>> : o \in Objects}
    BY <1>1, AreSlots DEF FirstAt, In, Releases
  <1>2. CASE q \in {<<f, t>> : f \in {"target", "list", "got", "free"}, t \in Callers}
    BY <1>2, AreSlots DEF FirstAt, In, Local, Fields
  <1>3. CASE q \in {<<"received", p>> : p \in received} \cup {<<"sent", p>> : p \in sent}
    BY <1>3, AreSlots DEF FirstAt, In, Kinds, OwnInv, Stack
  <1>4. QED  BY <1>1, <1>2, <1>3 DEF Places

(* Every packet has at most one owner: it is the first packet of one       *)
(* holder, or behind one packet, and then allocated; or it is in the list  *)
(* of free packets, once.                                                  *)
OneOwner ==
  /\ \A q, r \in Places : FirstAt(q) = FirstAt(r) /\ FirstAt(q) # NoPacket => q = r
  /\ \A p, q \in Packets :
       packet[p].next = packet[q].next /\ packet[p].next # NoPacket => p = q
  /\ \A p \in Packets, q \in Places : packet[p].next = FirstAt(q) => FirstAt(q) = NoPacket
  /\ \A q \in Places : FirstAt(q) # NoPacket =>
       FirstAt(q) \in Packets /\ packet[FirstAt(q)].mark = "ALLOCATED"
  /\ \A p \in Packets : packet[p].next # NoPacket =>
       packet[p].next \in Packets /\ packet[packet[p].next].mark = "ALLOCATED"
  /\ NoneTwice(available)
  /\ ToSet(available) = {p \in Packets : packet[p].mark = "FREE"}

(* No packet is shared: whatever the threads allocate, append, copy, send, *)
(* adopt and release, in whatever order they are interrupted, and also     *)
(* when allocations fail half-way or an object forgets its packet, no      *)
(* packet has two owners and none that is owned is in the pool.  A packet  *)
(* is thus released at most once for each time it is allocated.            *)
THEOREM NoPacketShared == SafeSpec => []OneOwner
  <1>1. OwnInv => OneOwner
    <2> SUFFICES ASSUME OwnInv PROVE OneOwner
      OBVIOUS
    <2>1. \A q \in Places : q \in Slots /\ q[1] \notin {"next", "pool"} /\ In(q) = FirstAt(q)
      BY PlaceIsSlot
    <2>2. ASSUME NEW p \in Packets
          PROVE  /\ <<"next", p>> \in Slots /\ In(<<"next", p>>) = packet[p].next
                 /\ <<"next", p>>[1] = "next"
      BY AreSlots, InKind DEF Kinds
    <2>3. \A q, r \in Places : FirstAt(q) = FirstAt(r) /\ FirstAt(q) # NoPacket => q = r
      BY <2>1 DEF OwnInv, Exclusive
    <2>4. \A p, q \in Packets :
            packet[p].next = packet[q].next /\ packet[p].next # NoPacket => p = q
      BY <2>2 DEF OwnInv, Exclusive
    <2>5. \A p \in Packets, q \in Places : packet[p].next = FirstAt(q) => FirstAt(q) = NoPacket
      BY <2>1, <2>2 DEF OwnInv, Exclusive
    <2>6. \A q \in Places : FirstAt(q) # NoPacket =>
            FirstAt(q) \in Packets /\ packet[FirstAt(q)].mark = "ALLOCATED"
      BY <2>1, NotFree DEF OwnInv
    <2>7. \A p \in Packets : packet[p].next # NoPacket =>
            packet[p].next \in Packets /\ packet[packet[p].next].mark = "ALLOCATED"
      BY <2>2, NotFree DEF OwnInv
    <2>8. QED  BY <2>3, <2>4, <2>5, <2>6, <2>7 DEF OneOwner, OwnInv, Pool
  <1>2. QED  BY Ownership, <1>1, PTL

-----------------------------------------------------------------------------
(* Chains.                                                                 *)

(* Counting up from l to m.  If some n were missing, n -> n + 1 would map  *)
(* the numbers below it into themselves without l, which the pigeonhole    *)
(* principle forbids.                                                      *)
LEMMA CountingUp ==
  ASSUME NEW l \in Nat, NEW m \in Nat, NEW S, l \in S,
         \A n \in l..m : n \in S /\ n < m => n + 1 \in S
  PROVE  \A n \in l..m : n \in S
  <1> SUFFICES ASSUME NEW n \in l..m, n \notin S PROVE FALSE
    OBVIOUS
  <1> DEFINE B == S \cap l..(n - 1)
             f == [x \in B |-> x + 1]
  <1>0. n # l /\ n \in Nat
    OBVIOUS
  <1>1. IsFiniteSet(B) /\ Cardinality(B) \in Nat
    <2>1. IsFiniteSet(l..(n - 1))
      BY FS_Interval
    <2>2. QED  BY <2>1, FS_Subset, FS_CardinalityType
  <1>2. l \in B
    BY <1>0
  <1>3. IsFiniteSet(B \ {l}) /\ Cardinality(B \ {l}) = Cardinality(B) - 1
    BY <1>1, <1>2, FS_RemoveElement
  <1>4. f \in [B -> B \ {l}]
    <2> SUFFICES ASSUME NEW x \in B PROVE x + 1 \in B \ {l}
      OBVIOUS
    <2>1. x \in S /\ x \in l..(n - 1)
      OBVIOUS
    <2>2. x \in l..m /\ x < m
      BY <2>1
    <2>3. x + 1 \in S
      BY <2>1, <2>2
    <2>4. x + 1 # n
      BY <2>3
    <2>5. x + 1 \in l..(n - 1) /\ x + 1 # l
      BY <2>1, <2>4
    <2>6. QED  BY <2>3, <2>5
  <1>5. \E x, y \in B : x # y /\ f[x] = f[y]
    <2> HIDE DEF f, B
    <2>1. QED  BY <1>1, <1>3, <1>4, FS_PigeonHole
  <1>6. QED  BY <1>5

(* A set of numbers up to m has a largest one. *)
LEMMA Largest ==
  ASSUME NEW m \in Nat, NEW S, S \subseteq 0..m, S # {}
  PROVE  Max(S) \in S /\ \A x \in S : x <= Max(S)
  <1> DEFINE Below(n) == \E x \in S : x <= n
             Best(n) == \E x \in S : \A y \in S : y <= n => y <= x
             T == {n \in 0..m : Below(n) => Best(n)}
  <1>1. 0 \in T
    <2>1. \A y \in S : y <= 0 => y = 0
      OBVIOUS
    <2>2. QED  BY <2>1
  <1>2. ASSUME NEW n \in 0..m, n \in T, n < m PROVE n + 1 \in T
    <2>1. CASE n + 1 \in S
      <3>1. \A y \in S : y <= n + 1 => y <= n + 1
        OBVIOUS
      <3>2. QED  BY <1>2, <2>1, <3>1
    <2>2. CASE n + 1 \notin S
      <3>1. \A y \in S : y <= n + 1 => y <= n
        BY <2>2
      <3>2. Below(n + 1) => Below(n)
        BY <3>1
      <3>3. Best(n) => Best(n + 1)
        BY <3>1
      <3>4. QED  BY <1>2, <3>2, <3>3
    <2>3. QED  BY <2>1, <2>2
  <1>3. \A n \in 0..m : n \in T
    <2> HIDE DEF T
    <2>1. 0 \in Nat
      OBVIOUS
    <2>2. QED  BY <1>1, <1>2, <2>1, CountingUp
  <1>4. m \in 0..m
    OBVIOUS
  <1>5. \A y \in S : y <= m
    OBVIOUS
  <1>6. Below(m) => Best(m)
    BY <1>3, <1>4
  <1>7. Below(m)
    BY <1>5
  <1>8. PICK x \in S : \A y \in S : y <= m => y <= x
    BY <1>6, <1>7
  <1>9. x \in S /\ \A y \in S : x >= y
    BY <1>5, <1>8
  <1>10. QED  BY <1>9 DEF Max
-----------------------------------------------------------------------------
(* Sums along a sequence.                                                  *)
LEMMA SumsExist ==
  ASSUME NEW m \in Nat, NEW g \in [1..m -> Int]
  PROVE  \E f \in [0..m -> Int] : f[0] = 0 /\ \A i \in 1..m : f[i] = f[i-1] + g[i]
  <1> DEFINE Good(f, k) == f[0] = 0 /\ \A i \in 1..k : f[i] = f[i-1] + g[i]
             T == {k \in 0..m : \E f \in [0..k -> Int] : Good(f, k)}
  <1>1. 0 \in T
    <2> DEFINE f == [i \in 0..0 |-> 0]
    <2>1. f \in [0..0 -> Int] /\ Good(f, 0)
      OBVIOUS
    <2> HIDE DEF f, Good
    <2>2. QED  BY <2>1
  <1>2. ASSUME NEW k \in 0..m, k \in T, k < m PROVE k + 1 \in T
    <2>1. PICK f \in [0..k -> Int] : Good(f, k)
      BY <1>2
    <2> DEFINE e == [i \in 0..(k+1) |-> IF i = k + 1 THEN f[k] + g[k+1] ELSE f[i]]
    <2>2. e \in [0..(k+1) -> Int]
      <3>1. k + 1 \in 1..m /\ f[k] + g[k+1] \in Int
        BY <1>2
      <3>2. \A i \in 0..(k+1) : i # k + 1 => f[i] \in Int
        OBVIOUS
      <3>3. QED  BY <3>1, <3>2
    <2>3. Good(e, k + 1)
      BY <2>1
    <2>4. k + 1 \in 0..m
      BY <1>2
    <2> HIDE DEF e, Good
    <2>5. QED  BY <2>2, <2>3, <2>4
  <1>3. \A n \in 0..m : n \in T
    <2> HIDE DEF T
    <2>1. QED  BY <1>1, <1>2, CountingUp
  <1>4. m \in 0..m
    OBVIOUS
  <1>5. QED  BY <1>3, <1>4

(* Sums along s up to each place of s. *)
Sums(v, f, s) ==
  /\ v \in [0..Len(s) -> Int] /\ v[0] = 0
  /\ \A i \in 1..Len(s) : f[s[i]] \in Int /\ v[i] = v[i-1] + f[s[i]]

(* Partial sums are unique. *)
LEMMA SumsAgree ==
  ASSUME NEW S, NEW s \in Seq(S), NEW f, NEW v, Sums(v, f, s), NEW w, Sums(w, f, s)
  PROVE  v = w
  <1> DEFINE T == {n \in 0..Len(s) : v[n] = w[n]}
  <1>1. 0 \in T
    BY DEF Sums
  <1>2. ASSUME NEW n \in 0..Len(s), n \in T, n < Len(s) PROVE n + 1 \in T
    <2>1. n + 1 \in 1..Len(s) /\ n + 1 \in 0..Len(s) /\ (n + 1) - 1 = n
      BY <1>2
    <2>2. v[n+1] = v[n] + f[s[n+1]] /\ w[n+1] = w[n] + f[s[n+1]]
      BY <2>1 DEF Sums
    <2>3. QED  BY <1>2, <2>1, <2>2
  <1>3. \A n \in 0..Len(s) : n \in T
    <2> HIDE DEF T
    <2>1. QED  BY <1>1, <1>2, CountingUp
  <1>4. QED  BY <1>3 DEF Sums

(* The recursive function of SumAlong yields partial sums. *)
LEMMA SumDefined ==
  ASSUME NEW S, NEW s \in Seq(S), NEW f, \A i \in 1..Len(s) : f[s[i]] \in Int
  PROVE  \E v : Sums(v, f, s) /\ SumAlong(f, s) = v[Len(s)]
  <1> DEFINE g == [i \in 1..Len(s) |-> f[s[i]]]
             Eq(v) == v = [n \in 0..Len(s) |-> IF n = 0 THEN 0 ELSE v[n-1] + f[s[n]]]
  <1>1. PICK w \in [0..Len(s) -> Int] : w[0] = 0 /\ \A i \in 1..Len(s) : w[i] = w[i-1] + g[i]
    <2>1. g \in [1..Len(s) -> Int] /\ Len(s) \in Nat
      OBVIOUS
    <2> HIDE DEF g
    <2>2. QED  BY <2>1, SumsExist
  <1>2. Eq(w)
    BY <1>1
  <1>3. \E v : Eq(v) /\ SumAlong(f, s) = v[Len(s)]
    BY <1>2 DEF SumAlong
  <1>4. PICK v : Eq(v) /\ SumAlong(f, s) = v[Len(s)]
    BY <1>3
  <1>5. v[0] = 0 /\ \A i \in 1..Len(s) : v[i] = v[i-1] + f[s[i]]
    <2>1. \A i \in 0..Len(s) : v[i] = IF i = 0 THEN 0 ELSE v[i-1] + f[s[i]]
      BY <1>4
    <2>2. \A i \in 1..Len(s) : i \in 0..Len(s) /\ i # 0
      OBVIOUS
    <2>3. 0 \in 0..Len(s)
      OBVIOUS
    <2> HIDE DEF Eq
    <2>4. QED  BY <2>1, <2>2, <2>3
  <1>6. v \in [0..Len(s) -> Int]
    <2> DEFINE T == {n \in 0..Len(s) : v[n] \in Int}
    <2>1. 0 \in T
      BY <1>5
    <2>2. ASSUME NEW n \in 0..Len(s), n \in T, n < Len(s) PROVE n + 1 \in T
      <3>1. n + 1 \in 1..Len(s) /\ n + 1 \in 0..Len(s) /\ (n + 1) - 1 = n
        BY <2>2
      <3>2. QED  BY <1>5, <2>2, <3>1
    <2>3. \A n \in 0..Len(s) : n \in T
      <3> HIDE DEF T
      <3>1. Len(s) \in Nat
        OBVIOUS
      <3>2. QED  BY <2>1, <2>2, <3>1, CountingUp
    <2>4. QED  BY <1>4, <2>3
  <1>7. QED  BY <1>4, <1>5, <1>6 DEF Sums

(* The last partial sum is the sum. *)
LEMMA SumIs ==
  ASSUME NEW S, NEW s \in Seq(S), NEW f, NEW v, Sums(v, f, s)
  PROVE  SumAlong(f, s) = v[Len(s)]
  <1>1. \A i \in 1..Len(s) : f[s[i]] \in Int
    BY DEF Sums
  <1>2. QED  BY <1>1, SumDefined, SumsAgree

(* All of f along s are numbers. *)
Numbers(f, s) == \A i \in 1..Len(s) : f[s[i]] \in Int

(* The sum along nothing. *)
LEMMA SumEmpty ==
  ASSUME NEW f
  PROVE  SumAlong(f, <<>>) = 0
  <1>1. PICK v : Sums(v, f, <<>>) /\ SumAlong(f, <<>>) = v[Len(<<>>)]
    <2>1. <<>> \in Seq({}) /\ \A i \in 1..Len(<<>>) : f[<<>>[i]] \in Int
      OBVIOUS
    <2>2. QED  BY <2>1, SumDefined
  <1>2. Len(<<>>) = 0 /\ v[0] = 0
    BY <1>1 DEF Sums
  <1>3. QED  BY <1>1, <1>2

(* The sum along a single element. *)
LEMMA SumOne ==
  ASSUME NEW S, NEW x \in S, NEW f, f[x] \in Int
  PROVE  SumAlong(f, <<x>>) = f[x]
  <1>1. <<x>> \in Seq(S) /\ Len(<<x>>) = 1 /\ <<x>>[1] = x
    OBVIOUS
  <1>2. \A i \in 1..Len(<<x>>) : f[<<x>>[i]] \in Int
    BY <1>1
  <1>3. PICK v : Sums(v, f, <<x>>) /\ SumAlong(f, <<x>>) = v[Len(<<x>>)]
    BY <1>1, <1>2, SumDefined
  <1>4. v[1] = v[0] + f[x] /\ v[0] = 0
    <2>1. 1 \in 1..Len(<<x>>) /\ 1 - 1 = 0
      BY <1>1
    <2>2. v[1] = v[1 - 1] + f[<<x>>[1]] /\ v[0] = 0
      BY <1>3, <2>1 DEF Sums
    <2>3. QED  BY <1>1, <2>1, <2>2
  <1>5. QED  BY <1>1, <1>3, <1>4

(* Sums add up when sequences are joined. *)
LEMMA SumConcat ==
  ASSUME NEW S, NEW a \in Seq(S), NEW b \in Seq(S), NEW f, Numbers(f, a), Numbers(f, b)
  PROVE  SumAlong(f, a \o b) = SumAlong(f, a) + SumAlong(f, b)
  <1>1. PICK v : Sums(v, f, a) /\ SumAlong(f, a) = v[Len(a)]
    BY SumDefined DEF Numbers
  <1>2. PICK w : Sums(w, f, b) /\ SumAlong(f, b) = w[Len(b)]
    BY SumDefined DEF Numbers
  <1> DEFINE s == a \o b
             m == Len(a)
             u == [i \in 0..Len(s) |-> IF i <= m THEN v[i] ELSE v[m] + w[i - m]]
  <1>3. /\ s \in Seq(S) /\ Len(s) = m + Len(b) /\ m \in Nat /\ Len(b) \in Nat
        /\ \A i \in 1..Len(s) : s[i] = IF i <= m THEN a[i] ELSE b[i - m]
    OBVIOUS
  <1>4. /\ \A i \in 0..m : v[i] \in Int
        /\ \A i \in 0..Len(b) : w[i] \in Int
        /\ v[0] = 0 /\ w[0] = 0
        /\ \A i \in 1..m : v[i] = v[i-1] + f[a[i]] /\ f[a[i]] \in Int
        /\ \A i \in 1..Len(b) : w[i] = w[i-1] + f[b[i]] /\ f[b[i]] \in Int
    BY <1>1, <1>2 DEF Sums
  <1> HIDE DEF s, m
  <1>5. Sums(u, f, s)
    <2>1. u \in [0..Len(s) -> Int]
      <3>1. ASSUME NEW i \in 0..Len(s) PROVE (IF i <= m THEN v[i] ELSE v[m] + w[i - m]) \in Int
        <4>1. m \in 0..m
          BY <1>3
        <4>2. CASE i <= m
          <5>1. i \in 0..m
            BY <1>3, <4>2
          <5>2. QED  BY <1>4, <4>2, <5>1
        <4>3. CASE ~(i <= m)
          <5>1. i - m \in 0..Len(b)
            BY <1>3, <4>3
          <5>2. QED  BY <1>4, <4>1, <4>3, <5>1
        <4>4. QED  BY <4>2, <4>3
      <3>2. QED  BY <3>1
    <2>2. u[0] = 0
      BY <1>3, <1>4
    <2>3. ASSUME NEW i \in 1..Len(s) PROVE f[s[i]] \in Int /\ u[i] = u[i-1] + f[s[i]]
      <3>1. /\ u[i] = IF i <= m THEN v[i] ELSE v[m] + w[i - m]
            /\ u[i-1] = IF i - 1 <= m THEN v[i-1] ELSE v[m] + w[i - 1 - m]
        BY <1>3
      <3>2. CASE i <= m
        <4>1. i \in 1..m /\ i - 1 <= m
          BY <1>3, <3>2
        <4>2. QED  BY <1>3, <1>4, <3>1, <3>2, <4>1
      <3>3. CASE i = m + 1
        <4>1. 1 \in 1..Len(b) /\ i - m = 1 /\ i - 1 = m /\ 1 - 1 = 0 /\ ~(i <= m) /\ i - 1 <= m
          BY <1>3, <3>3
        <4>2. s[i] = b[1] /\ u[i] = v[m] + w[1] /\ u[i-1] = v[m]
          BY <1>3, <3>1, <4>1
        <4>3. w[1] = f[b[1]] /\ f[b[1]] \in Int
          <5>1. w[1] = w[1-1] + f[b[1]] /\ f[b[1]] \in Int
            BY <1>4, <4>1
          <5>2. QED  BY <1>4, <4>1, <5>1
        <4>4. QED  BY <4>2, <4>3
      <3>4. CASE i > m + 1
        <4>1. i - m \in 1..Len(b) /\ ~(i <= m) /\ ~(i - 1 <= m) /\ i - 1 - m = (i - m) - 1
          BY <1>3, <3>4
        <4>2. s[i] = b[i - m] /\ u[i] = v[m] + w[i - m] /\ u[i-1] = v[m] + w[(i - m) - 1]
          BY <1>3, <3>1, <4>1
        <4>3. /\ w[i - m] = w[(i - m) - 1] + f[b[i - m]] /\ f[b[i - m]] \in Int
              /\ w[(i - m) - 1] \in Int /\ v[m] \in Int
          <5>1. (i - m) - 1 \in 0..Len(b) /\ m \in 0..m
            BY <1>3, <4>1
          <5>2. QED  BY <1>4, <4>1, <5>1
        <4>4. QED  BY <4>2, <4>3
      <3>5. QED  BY <1>3, <3>2, <3>3, <3>4
    <2> HIDE DEF u
    <2>4. QED  BY <2>1, <2>2, <2>3 DEF Sums
  <1>6. SumAlong(f, s) = u[Len(s)]
    <2> HIDE DEF u
    <2>1. QED  BY <1>3, <1>5, SumIs
  <1>7. u[Len(s)] = v[m] + w[Len(b)]
    <2>1. m \in 0..m
      BY <1>3
    <2>2. CASE Len(b) = 0
      BY <1>3, <1>4, <2>1, <2>2
    <2>3. CASE Len(b) > 0
      BY <1>3, <1>4, <2>3
    <2>4. QED  BY <1>3, <2>2, <2>3
  <1>8. QED  BY <1>1, <1>2, <1>6, <1>7 DEF s, m

(* Sums of the same numbers are the same. *)
LEMMA SumSame ==
  ASSUME NEW S, NEW s \in Seq(S), NEW f, NEW g, Numbers(f, s),
         \A i \in 1..Len(s) : g[s[i]] = f[s[i]]
  PROVE  SumAlong(g, s) = SumAlong(f, s)
  <1>1. PICK v : Sums(v, f, s) /\ SumAlong(f, s) = v[Len(s)]
    BY SumDefined DEF Numbers
  <1>2. Sums(v, g, s)
    BY <1>1 DEF Sums
  <1>3. QED  BY <1>1, <1>2, SumIs

(* The sum along a prefix is a partial sum. *)
LEMMA SumPrefix ==
  ASSUME NEW S, NEW s \in Seq(S), NEW f, NEW v, Sums(v, f, s), NEW k \in 0..Len(s)
  PROVE  SumAlong(f, SubSeq(s, 1, k)) = v[k]
  <1> DEFINE a == SubSeq(s, 1, k)
             w == [i \in 0..k |-> v[i]]
  <1>1. a \in Seq(S) /\ Len(a) = k /\ \A i \in 1..k : a[i] = s[i]
    BY SubSeqProperties
  <1> HIDE DEF a
  <1>2. Sums(w, f, a)
    <2>1. w \in [0..k -> Int] /\ w[0] = 0
      BY DEF Sums
    <2>2. ASSUME NEW i \in 1..k PROVE f[a[i]] \in Int /\ w[i] = w[i-1] + f[a[i]]
      <3>1. i \in 1..Len(s) /\ i \in 0..k /\ i - 1 \in 0..k
        OBVIOUS
      <3>2. QED  BY <1>1, <3>1 DEF Sums
    <2>3. QED  BY <1>1, <2>1, <2>2 DEF Sums
  <1>3. SumAlong(f, a) = w[k]
    <2> HIDE DEF w
    <2>1. QED  BY <1>1, <1>2, SumIs
  <1>4. QED  BY <1>3 DEF a

(* One more element. *)
LEMMA SumStep ==
  ASSUME NEW S, NEW s \in Seq(S), NEW f, Numbers(f, s), NEW k \in 1..Len(s)
  PROVE  /\ SumAlong(f, SubSeq(s, 1, k)) = SumAlong(f, SubSeq(s, 1, k - 1)) + f[s[k]]
         /\ SumAlong(f, SubSeq(s, 1, k)) \in Int /\ SumAlong(f, SubSeq(s, 1, k - 1)) \in Int
  <1>1. PICK v : Sums(v, f, s)
    BY SumDefined DEF Numbers
  <1>2. k \in 0..Len(s) /\ k - 1 \in 0..Len(s)
    OBVIOUS
  <1>3. SumAlong(f, SubSeq(s, 1, k)) = v[k] /\ SumAlong(f, SubSeq(s, 1, k - 1)) = v[k - 1]
    BY <1>1, <1>2, SumPrefix
  <1>4. QED  BY <1>1, <1>2, <1>3 DEF Sums

(* Sums of what is not negative grow. *)
LEMMA SumGrows ==
  ASSUME NEW S, NEW s \in Seq(S), NEW f, \A i \in 1..Len(s) : f[s[i]] \in Nat, NEW v, Sums(v, f, s),
         NEW k \in 0..Len(s)
  PROVE  \A n \in k..Len(s) : v[n] >= v[k]
  <1> DEFINE T == {n \in k..Len(s) : v[n] >= v[k]}
  <1>1. \A n \in k..Len(s) : v[n] \in Int
    BY DEF Sums
  <1>2. k \in T
    <2>1. k \in k..Len(s)
      OBVIOUS
    <2>2. QED  BY <1>1, <2>1
  <1>3. ASSUME NEW n \in k..Len(s), n \in T, n < Len(s) PROVE n + 1 \in T
    <2>1. n + 1 \in 1..Len(s) /\ n + 1 \in k..Len(s) /\ (n + 1) - 1 = n /\ k \in k..Len(s)
      BY <1>3
    <2>2. v[n+1] = v[n] + f[s[n+1]] /\ f[s[n+1]] \in Nat
      BY <2>1 DEF Sums
    <2>3. v[n] >= v[k] /\ v[n] \in Int /\ v[k] \in Int
      BY <1>1, <1>3, <2>1
    <2>4. v[n+1] >= v[k]
      BY <2>2, <2>3
    <2>5. QED  BY <2>1, <2>4
  <1>4. \A n \in k..Len(s) : n \in T
    <2> HIDE DEF T
    <2>1. Len(s) \in Nat /\ k \in Nat
      OBVIOUS
    <2>2. QED  BY <1>2, <1>3, <2>1, CountingUp
  <1>5. QED  BY <1>4

(* Sums of what is not negative are not negative. *)
LEMMA SumIsNat ==
  ASSUME NEW S, NEW s \in Seq(S), NEW f, \A i \in 1..Len(s) : f[s[i]] \in Nat
  PROVE  SumAlong(f, s) \in Nat
  <1>1. PICK v : Sums(v, f, s) /\ SumAlong(f, s) = v[Len(s)]
    BY SumDefined
  <1>2. 0 \in 0..Len(s) /\ Len(s) \in 0..Len(s)
    OBVIOUS
  <1>3. v[Len(s)] >= v[0]
    BY <1>1, <1>2, SumGrows
  <1>4. QED  BY <1>1, <1>2, <1>3 DEF Sums
-----------------------------------------------------------------------------
(* The packets of a sequence are linked, one behind the other, and the last *)
(* is the end.                                                             *)
IsChain(pk, s) ==
  /\ s \in Seq(Packets) /\ s # <<>>
  /\ \A i \in 1..(Len(s) - 1) : pk[s[i]].next = s[i+1]
  /\ pk[s[Len(s)]].next = NoPacket

(* No packet is in a chain twice: behind both places the same packets would *)
(* follow, to the end and beyond it.                                       *)
LEMMA ChainInjective ==
  ASSUME NEW pk, NEW s, IsChain(pk, s)
  PROVE  IsInjective(s)
  <1>1. s \in Seq(Packets) /\ Len(s) \in Nat \ {0} /\ DOMAIN s = 1..Len(s)
    BY EmptySeq DEF IsChain
  <1>2. SUFFICES ASSUME NEW i \in 1..Len(s), NEW j \in 1..Len(s), s[i] = s[j], i < j
                 PROVE  FALSE
    BY <1>1 DEF IsInjective
  <1> DEFINE m == Len(s) - j
             T == {n \in 0..m : s[i + n] = s[j + n]}
  <1>3. m \in Nat
    BY <1>1
  <1>4. 0 \in T
    BY <1>2, <1>3
  <1>5. ASSUME NEW n \in 0..m, n \in T, n < m PROVE n + 1 \in T
    <2>1. i + n \in 1..(Len(s) - 1) /\ j + n \in 1..(Len(s) - 1) /\ n + 1 \in 0..m
      BY <1>1, <1>2, <1>5
    <2>2. pk[s[i + n]].next = s[(i + n) + 1] /\ pk[s[j + n]].next = s[(j + n) + 1]
      BY <2>1 DEF IsChain
    <2>3. (i + n) + 1 = i + (n + 1) /\ (j + n) + 1 = j + (n + 1)
      BY <1>1
    <2>4. s[i + n] = s[j + n]
      BY <1>5
    <2> HIDE DEF m
    <2>5. QED  BY <2>1, <2>2, <2>3, <2>4
  <1>6. \A n \in 0..m : n \in T
    <2> HIDE DEF T, m
    <2>1. QED  BY <1>3, <1>4, <1>5, CountingUp
  <1>7. m \in T
    <2>1. m \in 0..m
      BY <1>3
    <2> HIDE DEF T, m
    <2>2. QED  BY <1>6, <2>1
  <1>8. s[i + m] = s[Len(s)] /\ i + m \in 1..(Len(s) - 1)
    <2>1. j + m = Len(s)
      BY <1>1
    <2>2. QED  BY <1>1, <1>2, <1>7, <2>1
  <1>9. pk[s[i + m]].next = s[i + m + 1] /\ s[i + m + 1] \in Packets
    BY <1>1, <1>8 DEF IsChain
  <1>10. pk[s[i + m]].next = NoPacket
    BY <1>8 DEF IsChain
  <1>11. QED  BY <1>9, <1>10, PoolAssumption

(* No chain is longer than there are packets. *)
LEMMA ChainLength ==
  ASSUME NEW pk, NEW s, IsChain(pk, s)
  PROVE  Len(s) <= Cardinality(Packets)
  <1>1. s \in [1..Len(s) -> Packets] /\ Len(s) \in Nat
    BY DEF IsChain
  <1>2. IsFiniteSet(Packets) /\ Cardinality(Packets) \in Nat
    BY PoolAssumption, FS_CardinalityType
  <1>3. IsFiniteSet(1..Len(s)) /\ Cardinality(1..Len(s)) = Len(s)
    <2>1. 1 \in Int /\ Len(s) \in Int /\ (1 > Len(s) => Len(s) = 0) /\ Len(s) - 1 + 1 = Len(s)
      BY <1>1
    <2>2. QED  BY <2>1, FS_Interval
  <1>4. \A x, y \in 1..Len(s) : s[x] = s[y] => x = y
    BY <1>1, ChainInjective DEF IsInjective
  <1>5. ~(Cardinality(Packets) < Cardinality(1..Len(s)))
    <2> SUFFICES ASSUME Cardinality(Packets) < Cardinality(1..Len(s)) PROVE FALSE
      OBVIOUS
    <2>1. \E x, y \in 1..Len(s) : x # y /\ s[x] = s[y]
      BY <1>1, <1>2, <1>3, FS_PigeonHole
    <2>2. QED  BY <1>4, <2>1
  <1>6. QED  BY <1>1, <1>2, <1>3, <1>5

(* Follow finds a chain from its first packet. *)
Onto(pk, s) == IF pk[Last(s)].next = NoPacket THEN s ELSE Append(s, pk[Last(s)].next)

Walks(pk, p, w) ==
  w = [n \in 0..Cardinality(Packets) |-> IF n = 0 THEN <<p>> ELSE Onto(pk, w[n-1])]

(* The recursive function of Follow. *)
LEMMA FollowUnfolds ==
  ASSUME NEW pk, NEW p, p # NoPacket, NEW w, Walks(pk, p, w)
  PROVE  \E v : Walks(pk, p, v) /\ Follow(pk, p) = v[Cardinality(Packets)]
  BY DEF Follow, Onto, Walks

(* Follow yields a chain from its first packet. *)
LEMMA FollowIsChain ==
  ASSUME NEW pk, NEW s, IsChain(pk, s)
  PROVE  Follow(pk, s[1]) = s
  <1> DEFINE N == Cardinality(Packets)
             L == Len(s)
             w == [n \in 0..N |-> SubSeq(s, 1, Min2(n + 1, L))]
  <1>1. /\ s \in Seq(Packets) /\ L \in Nat \ {0} /\ N \in Nat /\ L <= N
        /\ s[1] \in Packets /\ s[1] # NoPacket
    <2>1. s \in Seq(Packets) /\ L \in Nat \ {0}
      BY EmptySeq DEF IsChain
    <2>2. N \in Nat
      BY PoolAssumption, FS_CardinalityType
    <2>3. QED  BY <2>1, <2>2, ChainLength, PoolAssumption
  <1>2. ASSUME NEW k \in 1..L
        PROVE  /\ SubSeq(s, 1, k) \in Seq(Packets) /\ Len(SubSeq(s, 1, k)) = k
               /\ Last(SubSeq(s, 1, k)) = s[k]
    <2> DEFINE a == SubSeq(s, 1, k)
    <2>1. a \in Seq(Packets) /\ Len(a) = k /\ \A i \in 1..k : a[i] = s[i]
      BY <1>1, SubSeqProperties
    <2>2. a[k] = s[k]
      BY <2>1
    <2> HIDE DEF a
    <2>3. QED  BY <2>1, <2>2 DEF Last, a
  <1>3. ASSUME NEW k \in 1..L
        PROVE  Onto(pk, SubSeq(s, 1, k)) = SubSeq(s, 1, Min2(k + 1, L))
    <2>1. CASE k = L
      <3>1. pk[s[k]].next = NoPacket /\ Min2(k + 1, L) = k
        BY <1>1, <2>1 DEF IsChain, Min2
      <3>2. QED  BY <1>2, <3>1 DEF Onto
    <2>2. CASE k < L
      <3>1. k \in 1..(L - 1) /\ k + 1 \in 1..L /\ Min2(k + 1, L) = k + 1
        BY <1>1, <2>2 DEF Min2
      <3>2. pk[s[k]].next = s[k + 1] /\ s[k + 1] \in Packets
        BY <1>1, <3>1 DEF IsChain
      <3>3. Onto(pk, SubSeq(s, 1, k)) = Append(SubSeq(s, 1, k), s[k + 1])
        BY <1>2, <3>2, PoolAssumption DEF Onto
      <3>4. SubSeq(s, 1, k + 1) = SubSeq(s, 1, k) \o <<s[k + 1]>>
        <4>1. 1 \in 1..L /\ k + 1 \in 1..L /\ (k + 1) - 1 = k
          BY <1>1, <3>1
        <4>2. SubSeq(s, 1, k + 1) = SubSeq(s, 1, (k + 1) - 1) \o <<s[k + 1]>>
          BY <1>1, <4>1, SubSeqRecursiveSecond
        <4>3. QED  BY <4>1, <4>2
      <3>5. Append(SubSeq(s, 1, k), s[k + 1]) = SubSeq(s, 1, k) \o <<s[k + 1]>>
        <4> DEFINE a == SubSeq(s, 1, k)
        <4>1. a \in Seq(Packets)
          BY <1>2
        <4> HIDE DEF a
        <4>2. Append(a, s[k+1]) = a \o <<s[k+1]>>
          BY <3>2, <4>1
        <4>3. QED  BY <4>2 DEF a
      <3>6. QED  BY <3>1, <3>3, <3>4, <3>5
    <2>3. QED  BY <2>1, <2>2
  <1>4. SubSeq(s, 1, 1) = <<s[1]>>
    <2>1. Len(SubSeq(s, 1, 1)) = 1 /\ SubSeq(s, 1, 1)[1] = s[1] /\ SubSeq(s, 1, 1) \in Seq(Packets)
      BY <1>1, SubSeqProperties
    <2> DEFINE a == SubSeq(s, 1, 1)
    <2> HIDE DEF a
    <2>2. a \in Seq(Packets) /\ Len(a) = 1 /\ a[1] = s[1]
      BY <2>1 DEF a
    <2>3. a = <<s[1]>>
      BY <1>1, <2>2
    <2>4. QED  BY <2>3 DEF a
  <1>5. w[0] = <<s[1]>>
    <2>1. Min2(0 + 1, L) = 1
      <3> HIDE DEF L, N, w
      <3>1. L = 1 \/ 1 < L
        BY <1>1
      <3>2. QED  BY <3>1 DEF Min2
    <2>2. 0 \in 0..N
      BY <1>1
    <2>3. QED  BY <1>4, <2>1, <2>2
  <1>6. ASSUME NEW n \in 0..N, n # 0
        PROVE  w[n] = Onto(pk, w[n-1])
    <2> DEFINE k == Min2((n - 1) + 1, L)
    <2>1. k \in 1..L /\ Min2(k + 1, L) = Min2(n + 1, L) /\ n - 1 \in 0..N
      BY <1>1, <1>6 DEF Min2
    <2>2. w[n-1] = SubSeq(s, 1, k) /\ w[n] = SubSeq(s, 1, Min2(n + 1, L))
      BY <2>1
    <2> HIDE DEF k, w
    <2>3. QED  BY <1>3, <2>1, <2>2
  <1>7. Walks(pk, s[1], w)
    <2>1. ASSUME NEW n \in 0..N
          PROVE  SubSeq(s, 1, Min2(n + 1, L)) = IF n = 0 THEN <<s[1]>> ELSE Onto(pk, w[n-1])
      <3>1. w[n] = SubSeq(s, 1, Min2(n + 1, L))
        OBVIOUS
      <3> HIDE DEF w
      <3>2. QED  BY <1>5, <1>6, <3>1
    <2>2. w = [n \in 0..N |-> IF n = 0 THEN <<s[1]>> ELSE Onto(pk, w[n-1])]
      BY <2>1
    <2> HIDE DEF w
    <2>3. QED  BY <2>2 DEF Walks
  <1> HIDE DEF w
  <1>8. PICK v : Walks(pk, s[1], v) /\ Follow(pk, s[1]) = v[N]
    BY <1>1, <1>7, FollowUnfolds
  <1> DEFINE T == {n \in 0..N : v[n] = w[n]}
  <1>9. 0 \in T
    BY <1>1, <1>5, <1>8 DEF Walks
  <1>10. ASSUME NEW n \in 0..N, n \in T, n < N PROVE n + 1 \in T
    <2>1. n + 1 \in 0..N /\ n + 1 # 0 /\ (n + 1) - 1 = n
      BY <1>1, <1>10
    <2>2. v[n+1] = Onto(pk, v[n])
      BY <1>8, <2>1 DEF Walks
    <2>3. w[n+1] = Onto(pk, w[n])
      BY <1>6, <2>1
    <2>4. QED  BY <1>10, <2>1, <2>2, <2>3
  <1>11. \A n \in 0..N : n \in T
    <2> HIDE DEF T, N
    <2>1. 0 \in Nat
      OBVIOUS
    <2>2. QED  BY <1>1, <1>9, <1>10, <2>1, CountingUp
  <1>12. N \in 0..N /\ Min2(N + 1, L) = L
    BY <1>1 DEF Min2
  <1>13. v[N] = w[N]
    BY <1>11, <1>12
  <1>14. w[N] = SubSeq(s, 1, L)
    BY <1>12 DEF w
  <1>15. QED  BY <1>1, <1>8, <1>13, <1>14, SubSeqFull

(* A chain has one packet or more. *)
LEMMA ChainElements ==
  ASSUME NEW pk, NEW s, IsChain(pk, s)
  PROVE  /\ s \in Seq(Packets) /\ Len(s) \in Nat \ {0} /\ DOMAIN s = 1..Len(s)
         /\ \A i \in 1..Len(s) : s[i] \in Packets
         /\ s[1] \in Packets /\ s[Len(s)] \in Packets
  <1>1. s \in Seq(Packets) /\ Len(s) \in Nat \ {0}
    BY EmptySeq DEF IsChain
  <1>2. 1 \in 1..Len(s) /\ Len(s) \in 1..Len(s)
    BY <1>1
  <1>3. QED  BY <1>1, <1>2, ElementOfSeq

(* A packet with no next one is a chain. *)
LEMMA ChainOne ==
  ASSUME NEW pk, NEW p \in Packets, pk[p].next = NoPacket
  PROVE  IsChain(pk, <<p>>)
  BY DEF IsChain

(* A chain whose links stay is a chain. *)
LEMMA ChainSame ==
  ASSUME NEW pk, NEW s, IsChain(pk, s), NEW new,
         \A i \in 1..Len(s) : new[s[i]].next = pk[s[i]].next
  PROVE  IsChain(new, s)
  <1>1. \A i \in 1..(Len(s) - 1) : i \in 1..Len(s)
    BY ChainElements
  <1>2. Len(s) \in 1..Len(s)
    BY ChainElements
  <1>3. QED  BY <1>1, <1>2 DEF IsChain

(* The rest of a chain, from one of its packets on. *)
LEMMA ChainSuffix ==
  ASSUME NEW pk, NEW s, IsChain(pk, s), NEW k \in 1..Len(s)
  PROVE  /\ IsChain(pk, SubSeq(s, k, Len(s)))
         /\ Len(SubSeq(s, k, Len(s))) = Len(s) - k + 1
         /\ \A i \in 1..(Len(s) - k + 1) : SubSeq(s, k, Len(s))[i] = s[k + i - 1]
         /\ Follow(pk, s[k]) = SubSeq(s, k, Len(s))
  <1> DEFINE b == SubSeq(s, k, Len(s))
  <1>1. s \in Seq(Packets) /\ Len(s) \in Nat \ {0} /\ \A i \in 1..Len(s) : s[i] \in Packets
    BY ChainElements
  <1>2. /\ b \in Seq(Packets) /\ Len(b) = Len(s) - k + 1
        /\ \A i \in 1..(Len(s) - k + 1) : b[i] = s[k + i - 1]
    <2>1. \A i \in k..Len(s) : s[i] \in Packets
      BY <1>1
    <2>2. k \in Int /\ Len(s) \in Int /\ k <= Len(s)
      BY <1>1
    <2>3. QED  BY <2>1, <2>2, SubSeqProperties
  <1> HIDE DEF b
  <1>3. Len(b) \in Nat \ {0} /\ b # <<>>
    BY <1>1, <1>2
  <1>4. IsChain(pk, b)
    <2>1. ASSUME NEW i \in 1..(Len(b) - 1) PROVE pk[b[i]].next = b[i + 1]
      <3>1. /\ i \in 1..(Len(s) - k + 1) /\ i + 1 \in 1..(Len(s) - k + 1)
            /\ k + i - 1 \in 1..(Len(s) - 1) /\ k + (i + 1) - 1 = (k + i - 1) + 1
        BY <1>1, <1>2
      <3>2. b[i] = s[k + i - 1] /\ b[i + 1] = s[(k + i - 1) + 1]
        BY <1>2, <3>1
      <3>3. QED  BY <3>1, <3>2 DEF IsChain
    <2>2. b[Len(b)] = s[Len(s)]
      <3>1. Len(b) \in 1..(Len(s) - k + 1) /\ k + Len(b) - 1 = Len(s)
        BY <1>1, <1>2
      <3>2. QED  BY <1>2, <3>1
    <2>3. QED  BY <1>2, <1>3, <2>1, <2>2 DEF IsChain
  <1>5. b[1] = s[k]
    <2>1. 1 \in 1..(Len(s) - k + 1) /\ k + 1 - 1 = k
      BY <1>1
    <2>2. QED  BY <1>2, <2>1
  <1>6. Follow(pk, s[k]) = b
    BY <1>4, <1>5, FollowIsChain
  <1>7. QED  BY <1>2, <1>4, <1>6 DEF b

(* One chain is put behind another. *)
Joins(pk, new, a, b) ==
  /\ IsChain(pk, a) /\ IsChain(pk, b)
  /\ \A i \in 1..(Len(a) - 1) : new[a[i]].next = pk[a[i]].next
  /\ \A i \in 1..Len(b) : new[b[i]].next = pk[b[i]].next
  /\ new[a[Len(a)]].next = b[1]

(* Two chains are joined by a link. *)
LEMMA ChainConcat ==
  ASSUME NEW pk, NEW new, NEW a, NEW b, Joins(pk, new, a, b)
  PROVE  /\ IsChain(new, a \o b) /\ Len(a \o b) = Len(a) + Len(b)
         /\ \A i \in 1..Len(a) : (a \o b)[i] = a[i]
         /\ \A i \in 1..Len(b) : (a \o b)[Len(a) + i] = b[i]
  <1> DEFINE s == a \o b
             m == Len(a)
             n == Len(b)
  <1>0. /\ IsChain(pk, a) /\ IsChain(pk, b)
        /\ \A i \in 1..(Len(a) - 1) : new[a[i]].next = pk[a[i]].next
        /\ \A i \in 1..Len(b) : new[b[i]].next = pk[b[i]].next
        /\ new[a[Len(a)]].next = b[1]
    BY DEF Joins
  <1>1. /\ a \in Seq(Packets) /\ m \in Nat \ {0} /\ b \in Seq(Packets) /\ n \in Nat \ {0}
    BY <1>0, ChainElements
  <1>2. /\ s \in Seq(Packets) /\ Len(s) = m + n
        /\ \A i \in 1..(m + n) : s[i] = IF i <= m THEN a[i] ELSE b[i - m]
    BY <1>1, ConcatProperties
  <1>3. \A i \in 1..m : s[i] = a[i]
    BY <1>1, <1>2
  <1>4. \A i \in 1..n : s[m + i] = b[i]
    <2>1. ASSUME NEW i \in 1..n PROVE s[m + i] = b[i]
      <3>1. m + i \in 1..(m + n) /\ ~(m + i <= m) /\ (m + i) - m = i
        BY <1>1
      <3>2. QED  BY <1>2, <3>1
    <2>2. QED  BY <2>1
  <1>5. IsChain(new, s)
    <2> HIDE DEF s
    <2>1. ASSUME NEW i \in 1..(Len(s) - 1) PROVE new[s[i]].next = s[i + 1]
      <3>1. CASE i < m
        <4>1. i \in 1..(m - 1) /\ i \in 1..m /\ i + 1 \in 1..m
          BY <1>1, <1>2, <3>1
        <4>2. QED  BY <1>0, <1>3, <4>1 DEF IsChain
      <3>2. CASE i = m
        <4>1. 1 \in 1..n /\ i \in 1..m /\ i + 1 = m + 1
          BY <1>1, <3>2
        <4>2. QED  BY <1>0, <1>3, <1>4, <3>2, <4>1
      <3>3. CASE i > m
        <4>1. i - m \in 1..(n - 1) /\ i - m \in 1..n /\ (i - m) + 1 \in 1..n
              /\ m + (i - m) = i /\ m + ((i - m) + 1) = i + 1
          BY <1>1, <1>2, <3>3
        <4>2. s[m + (i - m)] = b[i - m] /\ s[m + ((i - m) + 1)] = b[(i - m) + 1]
          <5> HIDE DEF n, m
          <5>1. QED  BY <1>4, <4>1
        <4>3. s[i] = b[i - m] /\ s[i + 1] = b[(i - m) + 1]
          <5> HIDE DEF n, m
          <5>1. QED  BY <4>1, <4>2
        <4>4. QED  BY <1>0, <4>1, <4>3 DEF IsChain
      <3>4. QED  BY <1>1, <1>2, <3>1, <3>2, <3>3
    <2>2. new[s[Len(s)]].next = NoPacket
      <3>1. n \in 1..n /\ s[m + n] = b[n]
        BY <1>1, <1>4
      <3>2. QED  BY <1>0, <1>2, <3>1 DEF IsChain
    <2>3. s # <<>>
      BY <1>1, <1>2
    <2>4. QED  BY <1>2, <2>1, <2>2, <2>3 DEF IsChain
  <1>6. QED  BY <1>2, <1>3, <1>4, <1>5

(* Chains whose first packets differ have no packet in common, when no two *)
(* packets have the same next one and none has a first one.                *)
OneBefore(pk) == \A p, q \in Packets : pk[p].next = pk[q].next /\ pk[p].next # NoPacket => p = q
NoneBefore(pk, h) == \A p \in Packets : pk[p].next # h

(* Chains with different first packets that no link leads to are disjoint. *)
LEMMA ChainsDisjoint ==
  ASSUME NEW pk, OneBefore(pk), NEW a, NEW b, IsChain(pk, a), IsChain(pk, b),
         NoneBefore(pk, a[1]), NoneBefore(pk, b[1]), a[1] # b[1]
  PROVE  \A i \in 1..Len(a), j \in 1..Len(b) : a[i] # b[j]
  <1>1. /\ Len(a) \in Nat \ {0} /\ Len(b) \in Nat \ {0}
        /\ \A i \in 1..Len(a) : a[i] \in Packets
        /\ \A j \in 1..Len(b) : b[j] \in Packets
    BY ChainElements
  <1> DEFINE T == {i \in 1..Len(a) : \A j \in 1..Len(b) : a[i] # b[j]}
  <1>2. ASSUME NEW j \in 1..Len(b), j # 1
        PROVE  j - 1 \in 1..Len(b) /\ pk[b[j - 1]].next = b[j] /\ b[j - 1] \in Packets
    <2>1. j - 1 \in 1..(Len(b) - 1) /\ (j - 1) + 1 = j /\ j - 1 \in 1..Len(b)
      BY <1>1, <1>2
    <2>2. QED  BY <1>1, <2>1 DEF IsChain
  <1>3. 1 \in T
    <2>1. 1 \in 1..Len(a)
      BY <1>1
    <2>2. QED  BY <1>2, <2>1 DEF NoneBefore
  <1>4. ASSUME NEW n \in 1..Len(a), n \in T, n < Len(a) PROVE n + 1 \in T
    <2>1. n + 1 \in 1..Len(a) /\ n \in 1..(Len(a) - 1)
      BY <1>1, <1>4
    <2>2. pk[a[n]].next = a[n + 1] /\ a[n] \in Packets /\ a[n + 1] \in Packets
      BY <1>1, <2>1 DEF IsChain
    <2>3. ASSUME NEW j \in 1..Len(b), a[n + 1] = b[j] PROVE FALSE
      <3>1. j # 1
        BY <2>2, <2>3 DEF NoneBefore
      <3>2. a[n] = b[j - 1]
        BY <1>2, <2>2, <2>3, <3>1, PoolAssumption DEF OneBefore
      <3>3. QED  BY <1>2, <1>4, <3>1, <3>2
    <2>4. QED  BY <2>1, <2>3
  <1>5. \A n \in 1..Len(a) : n \in T
    <2> HIDE DEF T
    <2>1. 1 \in Nat /\ Len(a) \in Nat
      BY <1>1
    <2>2. QED  BY <1>3, <1>4, <2>1, CountingUp
  <1>6. QED  BY <1>5
-----------------------------------------------------------------------------
(* Copying data into packets.                                              *)
PacketRecord ==
  [mark : Mark, next : Pointer, last : Pointer, length : Nat, prepend : 0..Room, used : 0..Room]

UsedOf(pk) == [p \in Packets |-> pk[p].used]
RoomOf(pk) == [p \in Packets |-> Room - pk[p].used]

Lefts(pk, s, size, v) ==
  v = [i \in 1..(Len(s) + 1) |->
        IF i = 1 THEN size ELSE v[i-1] - Min2(v[i-1], Room - pk[s[i-1]].used)]

(* The recursive function of Left. *)
LEMMA LeftUnfolds ==
  ASSUME NEW pk, NEW s, NEW size, NEW w, Lefts(pk, s, size, w)
  PROVE  Lefts(pk, s, size, Left(pk, s, size))
  BY DEF Left, Lefts

(* What is left is what the packets before have no room for. *)
LEMMA LeftIs ==
  ASSUME NEW pk \in [Packets -> PacketRecord], NEW s \in Seq(Packets), NEW size \in Nat,
         NEW r, Sums(r, RoomOf(pk), s)
  PROVE  /\ DOMAIN Left(pk, s, size) = 1..(Len(s) + 1)
         /\ \A i \in 1..(Len(s) + 1) :
              Left(pk, s, size)[i] = IF size >= r[i-1] THEN size - r[i-1] ELSE 0
  <1> DEFINE L == Len(s)
             w == [i \in 1..(L + 1) |-> IF size >= r[i-1] THEN size - r[i-1] ELSE 0]
             v == Left(pk, s, size)
  <1>1. /\ L \in Nat /\ \A i \in 1..L : s[i] \in Packets
        /\ \A i \in 0..L : r[i] \in Int
        /\ r[0] = 0 /\ Room \in Nat
    <2>1. r \in [0..L -> Int] /\ r[0] = 0
      BY DEF Sums
    <2>2. L \in Nat /\ \A i \in 1..L : s[i] \in Packets
      OBVIOUS
    <2>3. Room \in Nat
      BY PoolAssumption
    <2> HIDE DEF L
    <2>4. QED  BY <2>1, <2>2, <2>3
  <1>2. ASSUME NEW i \in 1..L
        PROVE  /\ Room - pk[s[i]].used \in Nat
               /\ r[i] = r[i-1] + (Room - pk[s[i]].used)
    <2>1. s[i] \in Packets /\ pk[s[i]].used \in 0..Room
      BY <1>1 DEF PacketRecord
    <2>2. RoomOf(pk)[s[i]] = Room - pk[s[i]].used
      BY <2>1 DEF RoomOf
    <2>3. QED  BY <1>1, <2>1, <2>2 DEF Sums
  <1> HIDE DEF L
  <1>3. ASSUME NEW i \in 1..(L + 1), i # 1
        PROVE  w[i] = w[i-1] - Min2(w[i-1], Room - pk[s[i-1]].used)
    <2>1. i - 1 \in 1..L /\ i - 1 \in 1..(L + 1) /\ (i - 1) - 1 \in 0..L /\ i - 1 \in 0..L
      BY <1>1, <1>3
    <2>2. /\ w[i] = IF size >= r[i-1] THEN size - r[i-1] ELSE 0
          /\ w[i-1] = IF size >= r[(i-1)-1] THEN size - r[(i-1)-1] ELSE 0
      BY <2>1
    <2>3. r[i-1] = r[(i-1)-1] + (Room - pk[s[i-1]].used) /\ Room - pk[s[i-1]].used \in Nat
      BY <1>2, <2>1
    <2>4. r[(i-1)-1] \in Int /\ r[i-1] \in Int
      BY <1>1, <2>1
    <2> HIDE DEF w
    <2>5. PICK a, b, e : a = r[(i-1)-1] /\ b = r[i-1] /\ e = Room - pk[s[i-1]].used
      OBVIOUS
    <2>6. a \in Int /\ b = a + e /\ e \in Nat
      BY <2>3, <2>4, <2>5
    <2>7. /\ w[i] = (IF size >= b THEN size - b ELSE 0)
          /\ w[i-1] = (IF size >= a THEN size - a ELSE 0)
      BY <2>2, <2>5
    <2>8. w[i] = w[i-1] - Min2(w[i-1], e)
      <3> HIDE <2>5
      <3>1. CASE size >= a
        BY <2>6, <2>7, <3>1 DEF Min2
      <3>2. CASE ~(size >= a)
        BY <2>6, <2>7, <3>2 DEF Min2
      <3>3. QED  BY <3>1, <3>2
    <2>9. QED  BY <2>5, <2>8
  <1>4. w[1] = size
    <2>1. 1 \in 1..(L + 1) /\ 1 - 1 = 0
      BY <1>1
    <2>2. QED  BY <1>1, <2>1
  <1>5. w = [i \in 1..(L + 1) |-> IF i = 1 THEN size
                               ELSE w[i-1] - Min2(w[i-1], Room - pk[s[i-1]].used)]
    <2>1. ASSUME NEW i \in 1..(L + 1)
          PROVE  (IF size >= r[i-1] THEN size - r[i-1] ELSE 0)
                   = IF i = 1 THEN size ELSE w[i-1] - Min2(w[i-1], Room - pk[s[i-1]].used)
      <3>1. w[i] = IF size >= r[i-1] THEN size - r[i-1] ELSE 0
        OBVIOUS
      <3> HIDE DEF w
      <3>2. QED  BY <1>3, <1>4, <3>1
    <2>2. QED  BY <2>1
  <1> HIDE DEF w
  <1>6. Lefts(pk, s, size, w)
    BY <1>5 DEF Lefts, L
  <1>7. Lefts(pk, s, size, v)
    BY <1>6, LeftUnfolds
  <1> HIDE DEF v
  <1>8. /\ DOMAIN v = 1..(L + 1) /\ v[1] = size
        /\ \A i \in 1..(L + 1) : i # 1 => v[i] = v[i-1] - Min2(v[i-1], Room - pk[s[i-1]].used)
    <2>1. v = [i \in 1..(L + 1) |->
                IF i = 1 THEN size ELSE v[i-1] - Min2(v[i-1], Room - pk[s[i-1]].used)]
      BY <1>7 DEF Lefts, L
    <2>2. 1 \in 1..(L + 1)
      BY <1>1
    <2>3. DOMAIN v = 1..(L + 1)
      BY <2>1
    <2>4. \A i \in 1..(L + 1) :
             v[i] = IF i = 1 THEN size ELSE v[i-1] - Min2(v[i-1], Room - pk[s[i-1]].used)
      BY <2>1
    <2>5. QED  BY <2>2, <2>3, <2>4
  <1> DEFINE T == {n \in 1..(L + 1) : v[n] = w[n]}
  <1>9. 1 \in T
    BY <1>1, <1>4, <1>8
  <1>10. ASSUME NEW n \in 1..(L + 1), n \in T, n < L + 1 PROVE n + 1 \in T
    <2>1. n + 1 \in 1..(L + 1) /\ n + 1 # 1 /\ (n + 1) - 1 = n
      BY <1>1, <1>10
    <2>2. v[n+1] = v[n] - Min2(v[n], Room - pk[s[n]].used)
      BY <1>8, <2>1
    <2>3. w[n+1] = w[n] - Min2(w[n], Room - pk[s[n]].used)
      BY <1>3, <2>1
    <2>4. QED  BY <1>10, <2>1, <2>2, <2>3
  <1>11. \A n \in 1..(L + 1) : n \in T
    <2> HIDE DEF T
    <2>1. 1 \in Nat /\ L + 1 \in Nat
      BY <1>1
    <2>2. QED  BY <1>9, <1>10, <2>1, CountingUp
  <1>12. \A i \in 1..(L + 1) : v[i] = IF size >= r[i-1] THEN size - r[i-1] ELSE 0
    BY <1>11 DEF w
  <1>13. QED  BY <1>8, <1>12 DEF v, L

(* What a packet gets is what is left before it but not behind it. *)
LEMMA ShareIs ==
  ASSUME NEW pk, NEW s \in Seq(Packets), IsInjective(s), NEW size
  PROVE  /\ \A i \in 1..Len(s) :
              Share(pk, s, size, s[i]) = Left(pk, s, size)[i] - Left(pk, s, size)[i + 1]
         /\ \A q : (\A i \in 1..Len(s) : s[i] # q) => Share(pk, s, size, q) = 0
  <1>1. ASSUME NEW i \in 1..Len(s)
        PROVE  Share(pk, s, size, s[i]) = Left(pk, s, size)[i] - Left(pk, s, size)[i + 1]
    <2>1. {j \in DOMAIN s : s[j] = s[i]} = {i}
      BY DEF IsInjective
    <2>2. Min({i}) = i
      BY DEF Min
    <2>3. {i} # {}
      OBVIOUS
    <2>4. QED  BY <2>1, <2>2, <2>3 DEF Share
  <1>2. ASSUME NEW q, \A i \in 1..Len(s) : s[i] # q
        PROVE  Share(pk, s, size, q) = 0
    <2>1. {j \in DOMAIN s : s[j] = q} = {}
      BY <1>2
    <2>2. QED  BY <2>1 DEF Share
  <1>3. QED  BY <1>1, <1>2

(* What new is when size units were copied into the packets s of the chain *)
(* of p in pk, and all packets were needed.                                *)
FilledUp(pk, new, p, s, size) ==
  /\ new \in [Packets -> PacketRecord]
  /\ \A q \in Packets :
       /\ new[q].next = pk[q].next /\ new[q].mark = pk[q].mark
       /\ new[q].prepend = pk[q].prepend
       /\ new[q].length = IF q = p THEN pk[q].length + size ELSE pk[q].length
       /\ new[q].last = IF q = p /\ Len(s) > 1 THEN s[Len(s)] ELSE pk[q].last
       /\ (\A i \in 1..Len(s) : s[i] # q) => new[q].used = pk[q].used
  /\ \A i \in 1..(Len(s) - 1) : new[s[i]].used = Room
  /\ Len(s) > 1 => new[s[Len(s)]].used > 0
  /\ SumAlong(UsedOf(new), s) = SumAlong(UsedOf(pk), s) + size

(* Data that needs all packets of a sequence fills them: all but the last  *)
(* are full, and all data is in.                                           *)
LEMMA FilledIs ==
  ASSUME NEW pk \in [Packets -> PacketRecord], NEW s \in Seq(Packets), s # <<>>, IsInjective(s),
         NEW size \in Nat, NEW p \in Packets,
         \A i \in 2..Len(s) : pk[s[i]].used = 0,
         size <= SumAlong(RoomOf(pk), s),
         Len(s) > 1 => size > SumAlong(RoomOf(pk), s) - Room,
         NEW new, new = Filled(pk, p, s, size)
  PROVE  FilledUp(pk, new, p, s, size)
  <1> DEFINE L == Len(s)
             left == Left(pk, s, size)
             reached == {i \in 2..L : left[i] > 0}
             room(i) == Room - pk[s[i]].used
  <1>1. /\ L \in Nat \ {0} /\ \A i \in 1..L : s[i] \in Packets
        /\ Room \in Nat \ {0}
        /\ \A i \in 1..L : pk[s[i]].used \in 0..Room
    BY EmptySeq, PoolAssumption DEF PacketRecord
  <1>2. \A i \in 1..L : RoomOf(pk)[s[i]] = room(i) /\ room(i) \in Nat
    BY <1>1 DEF RoomOf
  <1>3. PICK r : Sums(r, RoomOf(pk), s) /\ SumAlong(RoomOf(pk), s) = r[L]
    <2>1. \A i \in 1..Len(s) : RoomOf(pk)[s[i]] \in Int
      BY <1>2
    <2>2. QED  BY <2>1, SumDefined
  <1>4. /\ \A i \in 0..L : r[i] \in Int
        /\ \A i \in 1..L : r[i] = r[i-1] + room(i)
    <2> HIDE DEF room, left, reached
    <2>1. r \in [0..L -> Int] /\ \A i \in 1..L : r[i] = r[i-1] + RoomOf(pk)[s[i]]
      BY <1>3 DEF Sums
    <2> HIDE DEF L
    <2>2. QED  BY <1>2, <2>1
  <1>5. \A k \in 0..L : \A n \in k..L : r[n] >= r[k]
    <2>1. \A i \in 1..Len(s) : RoomOf(pk)[s[i]] \in Nat
      BY <1>2
    <2>2. QED  BY <1>3, <2>1, SumGrows
  <1>6. \A i \in 1..(L + 1) : left[i] = IF size >= r[i-1] THEN size - r[i-1] ELSE 0
    BY <1>3, LeftIs
  <1>7. size <= r[L] /\ (L > 1 => size > r[L - 1])
    <2>1. size <= r[L]
      BY <1>3
    <2>2. CASE L > 1
      <3>1. L \in 2..L /\ L \in 1..L
        BY <1>1, <2>2
      <3>2. room(L) = Room
        BY <1>1, <3>1
      <3>3. r[L] = r[L - 1] + Room /\ r[L] \in Int /\ r[L - 1] \in Int
        <4>1. L \in 0..L /\ L - 1 \in 0..L
          BY <1>1
        <4>2. QED  BY <1>4, <3>1, <3>2, <4>1
      <3>4. size > r[L] - Room
        BY <1>3, <2>2
      <3>5. size > r[L - 1]
        <4> HIDE DEF L, room, left, reached
        <4>1. QED  BY <1>1, <3>3, <3>4
      <3>6. QED  BY <2>1, <3>5
    <2>3. QED  BY <2>1, <2>2
  <1> HIDE DEF left
  <1>8. left[L + 1] = 0 /\ left[1] = size /\ \A i \in 1..(L + 1) : left[i] \in Nat
    <2>1. L + 1 \in 1..(L + 1) /\ (L + 1) - 1 = L /\ L \in 0..L /\ 1 \in 1..(L + 1) /\ 1 - 1 = 0
      BY <1>1
    <2>2. left[L + 1] = IF size >= r[L] THEN size - r[L] ELSE 0
      BY <1>6, <2>1
    <2>3. r[0] = 0
      BY <1>3 DEF Sums
    <2>4. left[1] = IF size >= r[0] THEN size - r[0] ELSE 0
      BY <1>6, <2>1
    <2>5. \A i \in 1..(L + 1) : i - 1 \in 0..L
      BY <1>1
    <2>6. \A i \in 1..(L + 1) : left[i] \in Nat
      <3> SUFFICES ASSUME NEW i \in 1..(L + 1) PROVE left[i] \in Nat
        OBVIOUS
      <3>1. r[i-1] \in Int /\ left[i] = IF size >= r[i-1] THEN size - r[i-1] ELSE 0
        BY <1>4, <1>6, <2>5
      <3> HIDE DEF L, room, reached
      <3>2. QED  BY <3>1
    <2>7. r[L] \in Int
      BY <1>4, <2>1
    <2> HIDE DEF L, room, reached
    <2>8. QED  BY <1>7, <2>2, <2>3, <2>4, <2>6, <2>7
  <1>9. \A i \in 1..(L - 1) : left[i] - left[i+1] = room(i)
    <2> SUFFICES ASSUME NEW i \in 1..(L - 1) PROVE left[i] - left[i+1] = room(i)
      OBVIOUS
    <2>1. /\ i \in 1..(L + 1) /\ i + 1 \in 1..(L + 1) /\ (i + 1) - 1 = i /\ i \in 1..L /\ L > 1
          /\ i \in 0..L /\ i - 1 \in 0..L /\ L - 1 \in 0..L /\ L - 1 \in i..L /\ L - 1 \in (i-1)..L
      BY <1>1
    <2>2. r[L - 1] >= r[i] /\ r[L - 1] >= r[i - 1]
      BY <1>5, <2>1
    <2>3. r[i] \in Int /\ r[i-1] \in Int /\ r[L-1] \in Int /\ r[i] = r[i-1] + room(i)
      BY <1>4, <2>1
    <2>4. /\ left[i] = IF size >= r[i-1] THEN size - r[i-1] ELSE 0
          /\ left[i+1] = IF size >= r[i] THEN size - r[i] ELSE 0
      BY <1>6, <2>1
    <2>5. room(i) \in Nat
      BY <1>2, <2>1
    <2> HIDE DEF L, room, reached
    <2>6. size >= r[i-1] /\ size >= r[i]
      BY <1>7, <2>1, <2>2, <2>3
    <2>7. QED  BY <2>3, <2>4, <2>5, <2>6
  <1>10. left[L] - left[L+1] \in 0..room(L) /\ (L > 1 => left[L] - left[L+1] > 0)
    <2>1. L \in 1..(L + 1) /\ L \in 1..L /\ L \in 0..L /\ L - 1 \in 0..L
      BY <1>1
    <2>2. /\ left[L] = IF size >= r[L-1] THEN size - r[L-1] ELSE 0
      BY <1>6, <2>1
    <2>3. r[L] \in Int /\ r[L-1] \in Int /\ r[L] = r[L-1] + room(L) /\ room(L) \in Nat
      BY <1>2, <1>4, <2>1
    <2> HIDE DEF L, room, reached
    <2>4. QED  BY <1>7, <1>8, <2>2, <2>3
  <1>11. \A q \in Packets : new[q] = [pk[q] EXCEPT
            !.used = @ + Share(pk, s, size, q),
            !.length = IF q = p THEN @ + size ELSE @,
            !.last = IF q = p /\ reached # {} THEN s[Max(reached)] ELSE @]
    BY DEF Filled, left
  <1>11a. DOMAIN new = Packets /\ new = [q \in Packets |-> new[q]]
    BY DEF Filled
  <1>12. L > 1 => reached # {} /\ s[Max(reached)] = s[L]
    <2> SUFFICES ASSUME L > 1 PROVE reached # {} /\ s[Max(reached)] = s[L]
      OBVIOUS
    <2>1. L \in 2..L /\ L - 1 \in 0..L /\ L \in 1..(L+1)
      BY <1>1
    <2>2. left[L] > 0
      BY <1>8, <1>10
    <2>3. L \in reached /\ reached \subseteq 0..L
      BY <2>1, <2>2
    <2>4. \A x \in reached : x \in Int /\ x <= L
      BY <1>1
    <2>5. L \in Nat
      BY <1>1
    <2> HIDE DEF reached, L, room
    <2>6. Max(reached) \in reached /\ \A x \in reached : x <= Max(reached)
      BY <2>3, <2>5, Largest
    <2>7. Max(reached) = L
      <3>1. PICK m : m = Max(reached)
        OBVIOUS
      <3>2. m \in Int /\ m <= L /\ L <= m
        BY <2>3, <2>4, <2>6, <3>1
      <3>3. m = L
        BY <2>5, <3>2
      <3>4. QED  BY <3>1, <3>3
    <2>8. QED  BY <2>3, <2>7
  <1>13. L <= 1 => reached = {}
    BY <1>1
  <1> HIDE DEF reached
  <1>14. ASSUME NEW q \in Packets
         PROVE  /\ pk[q].mark \in Mark /\ pk[q].next \in Pointer /\ pk[q].last \in Pointer
                /\ pk[q].length \in Nat /\ pk[q].prepend \in 0..Room /\ pk[q].used \in 0..Room
                /\ new[q].next = pk[q].next /\ new[q].mark = pk[q].mark
                /\ new[q].prepend = pk[q].prepend
                /\ new[q].length = IF q = p THEN pk[q].length + size ELSE pk[q].length
                /\ new[q].last = IF q = p /\ L > 1 THEN s[L] ELSE pk[q].last
                /\ new[q].used = pk[q].used + Share(pk, s, size, q)
                /\ new[q].used \in 0..Room => new[q] \in PacketRecord
    <2> DEFINE a == pk[q].used + Share(pk, s, size, q)
               b == IF q = p THEN pk[q].length + size ELSE pk[q].length
               e == IF q = p /\ reached # {} THEN s[Max(reached)] ELSE pk[q].last
    <2>1. pk[q] \in PacketRecord
      OBVIOUS
    <2>2. /\ pk[q].mark \in Mark /\ pk[q].next \in Pointer /\ pk[q].last \in Pointer
          /\ pk[q].length \in Nat /\ pk[q].prepend \in 0..Room /\ pk[q].used \in 0..Room
      BY <2>1 DEF PacketRecord
    <2>3. new[q] = [pk[q] EXCEPT !.used = a, !.length = b, !.last = e]
      BY <1>11, <2>1 DEF PacketRecord
    <2>4. e = (IF q = p /\ L > 1 THEN s[L] ELSE pk[q].last) /\ e \in Pointer /\ b \in Nat
      <3>1. s[L] \in Pointer
        BY <1>1 DEF Pointer
      <3>2. e = (IF q = p /\ L > 1 THEN s[L] ELSE pk[q].last)
        BY <1>1, <1>12, <1>13
      <3>3. b \in Nat
        BY <2>2
      <3>4. QED  BY <2>2, <3>1, <3>2, <3>3
    <2> HIDE DEF a, b, e
    <2>5. /\ new[q].used = a /\ new[q].length = b /\ new[q].last = e
          /\ new[q].next = pk[q].next /\ new[q].mark = pk[q].mark
          /\ new[q].prepend = pk[q].prepend
          /\ a \in 0..Room => new[q] \in PacketRecord
      BY <2>1, <2>3, <2>4 DEF PacketRecord
    <2>6. QED  BY <2>2, <2>4, <2>5 DEF a, b
  <1>15. /\ \A i \in 1..L : new[s[i]].used = pk[s[i]].used + (left[i] - left[i + 1])
         /\ \A q \in Packets : (\A i \in 1..L : s[i] # q) => new[q].used = pk[q].used
    <2>1. /\ \A i \in 1..L : Share(pk, s, size, s[i]) = left[i] - left[i + 1]
          /\ \A q : (\A i \in 1..L : s[i] # q) => Share(pk, s, size, q) = 0
      BY ShareIs DEF left
    <2> HIDE DEF L, room
    <2>2. \A q \in Packets : new[q].used = pk[q].used + Share(pk, s, size, q) /\ pk[q].used \in Int
      BY <1>14
    <2>3. ASSUME NEW i \in 1..L PROVE new[s[i]].used = pk[s[i]].used + (left[i] - left[i + 1])
      <3>1. new[s[i]].used = pk[s[i]].used + Share(pk, s, size, s[i])
        BY <1>1, <2>2
      <3>2. QED  BY <2>1, <3>1
    <2>4. ASSUME NEW q \in Packets, \A i \in 1..L : s[i] # q PROVE new[q].used = pk[q].used
      <3>1. Share(pk, s, size, q) = 0
        BY <2>1, <2>4
      <3>2. QED  BY <2>2, <3>1
    <2>5. QED  BY <2>3, <2>4
  <1>16. \A i \in 1..(L - 1) : new[s[i]].used = Room
    <2> SUFFICES ASSUME NEW i \in 1..(L - 1) PROVE new[s[i]].used = Room
      OBVIOUS
    <2>1. i \in 1..L
      BY <1>1
    <2>2. new[s[i]].used = pk[s[i]].used + room(i) /\ pk[s[i]].used \in 0..Room
      BY <1>1, <1>9, <1>15, <2>1
    <2>3. QED  BY <1>1, <2>2
  <1>17. new[s[L]].used \in 0..Room /\ (L > 1 => new[s[L]].used > 0)
    <2>1. L \in 1..L
      BY <1>1
    <2>2. new[s[L]].used = pk[s[L]].used + (left[L] - left[L+1]) /\ pk[s[L]].used \in 0..Room
      BY <1>1, <1>15, <2>1
    <2>3. QED  BY <1>1, <1>10, <2>2
  <1>18. \A q \in Packets : new[q].used \in 0..Room
    <2> SUFFICES ASSUME NEW q \in Packets PROVE new[q].used \in 0..Room
      OBVIOUS
    <2>1. CASE \A i \in 1..L : s[i] # q
      BY <1>14, <1>15, <2>1
    <2>2. ASSUME NEW i \in 1..L, s[i] = q PROVE new[q].used \in 0..Room
      <3>1. i = L \/ i \in 1..(L - 1)
        BY <1>1
      <3>2. QED  BY <1>1, <1>16, <1>17, <2>2, <3>1
    <2>3. QED  BY <2>1, <2>2
  <1>19. new \in [Packets -> PacketRecord]
    BY <1>11a, <1>14, <1>18
  <1>20. SumAlong(UsedOf(new), s) = SumAlong(UsedOf(pk), s) + size
    <2>1. \A i \in 1..Len(s) : UsedOf(pk)[s[i]] = pk[s[i]].used /\ UsedOf(pk)[s[i]] \in Int
      BY <1>1 DEF UsedOf
    <2>2. PICK u : Sums(u, UsedOf(pk), s) /\ SumAlong(UsedOf(pk), s) = u[Len(s)]
      BY <2>1, SumDefined
    <2>2a. /\ u \in [0..L -> Int] /\ u[0] = 0
           /\ \A i \in 1..L : u[i] = u[i-1] + pk[s[i]].used
      BY <2>1, <2>2 DEF Sums
    <2> DEFINE x == [i \in 0..L |-> u[i] + (size - left[i + 1])]
    <2> HIDE DEF L
    <2>3. x \in [0..L -> Int]
      <3>1. \A i \in 0..L : i + 1 \in 1..(L + 1)
        BY <1>1
      <3>2. \A i \in 0..L : u[i] + (size - left[i + 1]) \in Int
        BY <1>8, <2>2a, <3>1
      <3>3. QED  BY <3>2
    <2>4. x[0] = 0 /\ x[L] = u[L] + size
      <3>1. 0 \in 0..L /\ L \in 0..L /\ 0 + 1 = 1
        BY <1>1
      <3>2. x[0] = u[0] + (size - left[1]) /\ x[L] = u[L] + (size - left[L + 1])
        BY <3>1
      <3>3. u[L] \in Int
        BY <2>2a, <3>1
      <3> HIDE DEF x
      <3>4. QED  BY <1>8, <2>2a, <3>2, <3>3
    <2>5. ASSUME NEW i \in 1..L
          PROVE  UsedOf(new)[s[i]] \in Int /\ x[i] = x[i-1] + UsedOf(new)[s[i]]
      <3>1. i \in 0..L /\ i - 1 \in 0..L /\ (i - 1) + 1 = i /\ i \in 1..(L+1) /\ i + 1 \in 1..(L+1)
        BY <1>1
      <3>2. x[i] = u[i] + (size - left[i+1]) /\ x[i-1] = u[i-1] + (size - left[i])
        BY <3>1
      <3>3. u[i] = u[i-1] + pk[s[i]].used /\ u[i-1] \in Int /\ u[i] \in Int
        BY <2>2a, <3>1
      <3>4. UsedOf(new)[s[i]] = pk[s[i]].used + (left[i] - left[i+1])
        BY <1>1, <1>15 DEF UsedOf
      <3>5. pk[s[i]].used \in Int /\ left[i] \in Int /\ left[i+1] \in Int
        BY <1>1, <1>8, <3>1
      <3> HIDE DEF x, room
      <3>6. PICK a, b, d : a = left[i] /\ b = left[i+1] /\ d = pk[s[i]].used
        OBVIOUS
      <3>7. /\ x[i] = u[i] + (size - b) /\ x[i-1] = u[i-1] + (size - a)
            /\ u[i] = u[i-1] + d /\ UsedOf(new)[s[i]] = d + (a - b)
            /\ a \in Int /\ b \in Int /\ d \in Int /\ u[i-1] \in Int
        BY <3>2, <3>3, <3>4, <3>5, <3>6
      <3>8. QED  BY <3>7
    <2> HIDE DEF x
    <2>6. Sums(x, UsedOf(new), s)
      BY <2>3, <2>4, <2>5 DEF Sums, L
    <2>7. SumAlong(UsedOf(new), s) = x[L]
      BY <2>6, SumIs DEF L
    <2>8. QED  BY <2>2, <2>4, <2>7 DEF L
  <1>21. QED  BY <1>14, <1>15, <1>16, <1>17, <1>19, <1>20 DEF FilledUp
-----------------------------------------------------------------------------
(* Chains of packets, by their first packet.                               *)
Ends(pk, p) == IsChain(pk, Follow(pk, p)) /\ Follow(pk, p)[1] = p

(* nx_packet_last of a chain of n packets. *)
LastOf(s, n) == IF n > 1 THEN s[n] ELSE NoPacket

(* A complete chain, as Whole says; and only the first packet has room for *)
(* headers.                                                                *)
Complete(pk, p) ==
  LET s == Follow(pk, p)
  IN  /\ pk[p].length + pk[p].prepend = SumAlong(UsedOf(pk), s)
      /\ pk[p].last = LastOf(s, Len(s))
      /\ \A i \in 1..(Len(s) - 1) : pk[s[i]].used = Room
      /\ \A i \in 2..Len(s) : pk[s[i]].used > 0 /\ pk[s[i]].prepend = 0

(* New packets, before they are linked to a chain. *)
NewList(pk, p) ==
  LET s == Follow(pk, p)
  IN  /\ pk[p].last = LastOf(s, Len(s))
      /\ \A i \in 1..Len(s) : pk[s[i]].used = 0 /\ pk[s[i]].prepend = 0

(* Behind the k-th packet there are only new ones, and size units of data  *)
(* need them all.                                                          *)
ReadyAt(pk, p, size, k) ==
  LET s == Follow(pk, p)
      v == SubSeq(s, k, Len(s))
  IN  /\ pk[p].length + pk[p].prepend = SumAlong(UsedOf(pk), s)
      /\ pk[p].last = LastOf(s, k)
      /\ \A i \in 1..(k - 1) : pk[s[i]].used = Room
      /\ \A i \in 2..k : pk[s[i]].used > 0
      /\ \A i \in (k + 1)..Len(s) : pk[s[i]].used = 0
      /\ \A i \in 2..Len(s) : pk[s[i]].prepend = 0
      /\ size <= SumAlong(RoomOf(pk), v)
      /\ k < Len(s) => size > SumAlong(RoomOf(pk), v) - Room

Ready(pk, p, size) == \E k \in 1..Len(Follow(pk, p)) : ReadyAt(pk, p, size, k)

(* A chain is the chain of its first packet. *)
LEMMA ChainEnds ==
  ASSUME NEW pk, NEW s, IsChain(pk, s)
  PROVE  Ends(pk, s[1]) /\ Follow(pk, s[1]) = s
  BY FollowIsChain DEF Ends

(* So is a single packet. *)
LEMMA OneEnds ==
  ASSUME NEW pk, NEW p \in Packets, pk[p].next = NoPacket
  PROVE  Ends(pk, p) /\ Follow(pk, p) = <<p>>
  <1>1. <<p>>[1] = p
    OBVIOUS
  <1>2. QED  BY <1>1, ChainOne, ChainEnds

(* The packets of the chain of p. *)
LEMMA EndsElements ==
  ASSUME NEW pk, NEW p, Ends(pk, p)
  PROVE  /\ Follow(pk, p) \in Seq(Packets) /\ Len(Follow(pk, p)) \in Nat \ {0}
         /\ \A i \in 1..Len(Follow(pk, p)) : Follow(pk, p)[i] \in Packets
         /\ p \in Packets /\ Follow(pk, p)[1] = p
         /\ 1 \in 1..Len(Follow(pk, p)) /\ Len(Follow(pk, p)) \in 1..Len(Follow(pk, p))
         /\ ToSet(Follow(pk, p)) = {Follow(pk, p)[i] : i \in 1..Len(Follow(pk, p))}
  <1>1. /\ Follow(pk, p) \in Seq(Packets) /\ Len(Follow(pk, p)) \in Nat \ {0}
        /\ \A i \in 1..Len(Follow(pk, p)) : Follow(pk, p)[i] \in Packets
        /\ p \in Packets /\ Follow(pk, p)[1] = p
        /\ DOMAIN Follow(pk, p) = 1..Len(Follow(pk, p))
    BY ChainElements DEF Ends
  <1>2. 1 \in 1..Len(Follow(pk, p)) /\ Len(Follow(pk, p)) \in 1..Len(Follow(pk, p))
    BY <1>1
  <1>3. ToSet(Follow(pk, p)) = {Follow(pk, p)[i] : i \in 1..Len(Follow(pk, p))}
    BY <1>1 DEF ToSet
  <1>4. QED  BY <1>1, <1>2, <1>3

(* What is used and what is left in packets is a number. *)
LEMMA PacketNumbers ==
  ASSUME NEW pk \in [Packets -> PacketRecord], NEW s \in Seq(Packets)
  PROVE  /\ Numbers(UsedOf(pk), s) /\ Numbers(RoomOf(pk), s)
         /\ \A i \in 1..Len(s) :
              /\ UsedOf(pk)[s[i]] = pk[s[i]].used /\ pk[s[i]].used \in 0..Room
              /\ RoomOf(pk)[s[i]] = Room - pk[s[i]].used /\ Room - pk[s[i]].used \in Nat
         /\ SumAlong(UsedOf(pk), s) \in Nat /\ SumAlong(RoomOf(pk), s) \in Nat
  <1>1. \A i \in 1..Len(s) : s[i] \in Packets
    OBVIOUS
  <1>2. \A q \in Packets : pk[q].used \in 0..Room
    BY DEF PacketRecord
  <1>3. ASSUME NEW i \in 1..Len(s)
        PROVE  /\ UsedOf(pk)[s[i]] = pk[s[i]].used /\ pk[s[i]].used \in 0..Room
               /\ RoomOf(pk)[s[i]] = Room - pk[s[i]].used /\ Room - pk[s[i]].used \in Nat
    <2>1. s[i] \in Packets
      BY <1>1
    <2>2. UsedOf(pk)[s[i]] = pk[s[i]].used /\ RoomOf(pk)[s[i]] = Room - pk[s[i]].used
      BY <2>1 DEF UsedOf, RoomOf
    <2>3. pk[s[i]].used \in 0..Room
      BY <1>2, <2>1
    <2>4. QED  BY <2>2, <2>3, PoolAssumption
  <1>4. \A i \in 1..Len(s) : UsedOf(pk)[s[i]] \in Nat /\ RoomOf(pk)[s[i]] \in Nat
    BY <1>3
  <1>5. QED  BY <1>3, <1>4, SumIsNat DEF Numbers

(* When the packets of a chain are the same, the chain is. *)
Same(pk, new, p) ==
  Ends(pk, p) /\ \A i \in 1..Len(Follow(pk, p)) : new[Follow(pk, p)[i]] = pk[Follow(pk, p)[i]]

(* A chain whose packets stay as they are. *)
LEMMA SameChain ==
  ASSUME NEW pk \in [Packets -> PacketRecord], NEW new \in [Packets -> PacketRecord], NEW p, Same(pk, new, p)
  PROVE  /\ Ends(new, p) /\ Follow(new, p) = Follow(pk, p) /\ new[p] = pk[p]
         /\ SumAlong(UsedOf(new), Follow(pk, p)) = SumAlong(UsedOf(pk), Follow(pk, p))
         /\ SumAlong(RoomOf(new), Follow(pk, p)) = SumAlong(RoomOf(pk), Follow(pk, p))
         /\ Complete(pk, p) => Complete(new, p)
         /\ NewList(pk, p) => NewList(new, p)
  <1> DEFINE s == Follow(pk, p)
  <1>1. /\ IsChain(pk, s) /\ s[1] = p /\ \A i \in 1..Len(s) : new[s[i]] = pk[s[i]]
        /\ s \in Seq(Packets) /\ Len(s) \in Nat \ {0} /\ 1 \in 1..Len(s)
    BY EndsElements DEF Same, Ends
  <1> HIDE DEF s
  <1>2. IsChain(new, s)
    BY <1>1, ChainSame
  <1>3. Ends(new, p) /\ Follow(new, p) = s
    BY <1>1, <1>2, ChainEnds
  <1>4. new[p] = pk[p]
    BY <1>1
  <1>5. SumAlong(UsedOf(new), s) = SumAlong(UsedOf(pk), s)
    <2>1. /\ Numbers(UsedOf(pk), s)
          /\ \A i \in 1..Len(s) : UsedOf(new)[s[i]] = UsedOf(pk)[s[i]]
      BY <1>1, PacketNumbers
    <2>2. QED  BY <1>1, <2>1, SumSame
  <1>6. SumAlong(RoomOf(new), s) = SumAlong(RoomOf(pk), s)
    <2>1. /\ Numbers(RoomOf(pk), s)
          /\ \A i \in 1..Len(s) : RoomOf(new)[s[i]] = RoomOf(pk)[s[i]]
      BY <1>1, PacketNumbers
    <2>2. QED  BY <1>1, <2>1, SumSame
  <1>7. /\ \A i \in 1..(Len(s) - 1) : i \in 1..Len(s)
        /\ \A i \in 2..Len(s) : i \in 1..Len(s)
    BY <1>1
  <1>8. Complete(pk, p) => Complete(new, p)
    BY <1>1, <1>3, <1>4, <1>5, <1>7 DEF Complete, s
  <1>9. NewList(pk, p) => NewList(new, p)
    BY <1>1, <1>3, <1>4 DEF NewList, s
  <1>10. QED  BY <1>3, <1>4, <1>5, <1>6, <1>8, <1>9 DEF s

(* Data is appended to the last packet of a complete chain. *)
LEMMA CompleteBehind ==
  ASSUME NEW pk \in [Packets -> PacketRecord], NEW p, Ends(pk, p), Complete(pk, p)
  PROVE  LET s == Follow(pk, p)
             e == s[Len(s)]
         IN  /\ AppendTo(pk, p) = e /\ Behind(pk, p) = <<e>> /\ e \in Packets
             /\ RoomIn(pk, Behind(pk, p)) = Room - pk[e].used
             /\ Follow(pk, e) = <<e>>
  <1> DEFINE s == Follow(pk, p)
             e == s[Len(s)]
  <1>1. /\ s \in Seq(Packets) /\ Len(s) \in Nat \ {0} /\ s[1] = p /\ p \in Packets
        /\ e \in Packets /\ pk[e].next = NoPacket
    BY EndsElements DEF Ends, IsChain
  <1>2. pk[p].last = LastOf(s, Len(s))
    BY DEF Complete
  <1>3. Follow(pk, e) = <<e>>
    BY <1>1, OneEnds
  <1>4. AppendTo(pk, p) = e /\ Behind(pk, p) = <<e>>
    <2>1. CASE Len(s) > 1
      <3>1. pk[p].last = e /\ e # NoPacket
        BY <1>1, <1>2, <2>1, PoolAssumption DEF LastOf
      <3>2. QED  BY <1>3, <3>1 DEF AppendTo, Behind
    <2>2. CASE ~(Len(s) > 1)
      <3>1. Len(s) = 1
        <4>1. PICK n : n = Len(s)
          OBVIOUS
        <4>2. n \in Nat \ {0} /\ ~(n > 1)
          BY <1>1, <2>2, <4>1
        <4>3. QED  BY <4>1, <4>2
      <3>2. pk[p].last = NoPacket /\ e = p
        BY <1>1, <1>2, <3>1 DEF LastOf
      <3>3. QED  BY <3>2 DEF AppendTo, Behind
    <2>3. QED  BY <2>1, <2>2
  <1>5. SumAlong(RoomOf(pk), <<e>>) = Room - pk[e].used
    <2> HIDE DEF e
    <2>1. RoomOf(pk)[e] = Room - pk[e].used
      BY <1>1 DEF RoomOf
    <2>2. pk[e].used \in 0..Room
      BY <1>1 DEF PacketRecord
    <2>3. RoomOf(pk)[e] \in Int
      BY <2>1, <2>2, PoolAssumption
    <2>4. QED  BY <1>1, <2>1, <2>3, SumOne
  <1>6. RoomIn(pk, <<e>>) = Room - pk[e].used
    BY <1>5 DEF RoomIn, RoomOf
  <1>7. QED  BY <1>1, <1>3, <1>4, <1>6

(* Records of packets that agree in every field are the same. *)
LEMMA SameRecord ==
  ASSUME NEW a \in PacketRecord, NEW b \in PacketRecord,
         a.mark = b.mark, a.next = b.next, a.last = b.last, a.length = b.length,
         a.prepend = b.prepend, a.used = b.used
  PROVE  a = b
  BY DEF PacketRecord

OnChain(pk, h, q) == \E i \in 1..Len(Follow(pk, h)) : Follow(pk, h)[i] = q

(* Data for which a chain is ready makes it complete. *)
LEMMA FillDone ==
  ASSUME NEW pk \in [Packets -> PacketRecord], NEW p, Ends(pk, p), NEW size \in Nat, Ready(pk, p, size),
         NEW new, new = Filled(pk, p, Follow(pk, AppendTo(pk, p)), size)
  PROVE  /\ new \in [Packets -> PacketRecord]
         /\ \A q \in Packets : /\ new[q].next = pk[q].next /\ new[q].mark = pk[q].mark
                               /\ new[q].prepend = pk[q].prepend
                               /\ ~OnChain(pk, p, q) => new[q] = pk[q]
         /\ Ends(new, p) /\ Follow(new, p) = Follow(pk, p) /\ Complete(new, p)
         /\ new[p].length = pk[p].length + size
  <1> DEFINE s == Follow(pk, p)
             L == Len(s)
  <1>1. PICK k \in 1..L : ReadyAt(pk, p, size, k)
    BY DEF Ready
  <1> DEFINE v == SubSeq(s, k, L)
  <1>2. /\ IsChain(pk, s) /\ s \in Seq(Packets) /\ L \in Nat \ {0} /\ s[1] = p /\ p \in Packets
        /\ \A i \in 1..L : s[i] \in Packets /\ s[i] # NoPacket
    BY EndsElements, PoolAssumption DEF Ends
  <1>3. /\ IsChain(pk, v) /\ Len(v) = L - k + 1 /\ \A i \in 1..(L - k + 1) : v[i] = s[k + i - 1]
        /\ Follow(pk, s[k]) = v
    BY <1>2, ChainSuffix
  <1>4. /\ pk[p].length + pk[p].prepend = SumAlong(UsedOf(pk), s)
        /\ pk[p].last = LastOf(s, k)
        /\ \A i \in 1..(k - 1) : pk[s[i]].used = Room
        /\ \A i \in 2..k : pk[s[i]].used > 0
        /\ \A i \in (k + 1)..L : pk[s[i]].used = 0
        /\ \A i \in 2..L : pk[s[i]].prepend = 0
        /\ size <= SumAlong(RoomOf(pk), v)
        /\ k < L => size > SumAlong(RoomOf(pk), v) - Room
    BY <1>1 DEF ReadyAt
  <1>5. AppendTo(pk, p) = s[k]
    <2>1. CASE k > 1
      BY <1>2, <1>4, <2>1 DEF AppendTo, LastOf
    <2>2. CASE ~(k > 1)
      <3>1. k = 1
        BY <1>2, <2>2
      <3>2. QED  BY <1>2, <1>4, <3>1 DEF AppendTo, LastOf
    <2>3. QED  BY <2>1, <2>2
  <1>6. new = Filled(pk, p, v, size)
    BY <1>3, <1>5
  <1>7. v \in Seq(Packets) /\ v # <<>> /\ IsInjective(v)
    BY <1>3, ChainInjective DEF IsChain
  <1>8. \A i \in 2..Len(v) : pk[v[i]].used = 0
    <2> SUFFICES ASSUME NEW i \in 2..Len(v) PROVE pk[v[i]].used = 0
      OBVIOUS
    <2>1. i \in 1..(L - k + 1) /\ k + i - 1 \in (k + 1)..L
      BY <1>2, <1>3
    <2>2. v[i] = s[k + i - 1]
      BY <1>3, <2>1
    <2> HIDE DEF s, L, v
    <2>3. QED  BY <1>4, <2>1, <2>2
  <1>9. Len(v) > 1 <=> k < L
    <2>1. PICK m : m = L
      OBVIOUS
    <2>2. m \in Nat /\ k \in 1..m /\ Len(v) = m - k + 1
      BY <1>2, <1>3, <2>1
    <2> HIDE DEF v, L, s
    <2>3. QED  BY <2>1, <2>2
  <1>10. /\ new \in [Packets -> PacketRecord]
         /\ \A q \in Packets :
              /\ new[q].next = pk[q].next /\ new[q].mark = pk[q].mark
              /\ new[q].prepend = pk[q].prepend
              /\ new[q].length = IF q = p THEN pk[q].length + size ELSE pk[q].length
              /\ new[q].last = IF q = p /\ Len(v) > 1 THEN v[Len(v)] ELSE pk[q].last
              /\ (\A i \in 1..Len(v) : v[i] # q) => new[q].used = pk[q].used
         /\ \A i \in 1..(Len(v) - 1) : new[v[i]].used = Room
         /\ Len(v) > 1 => new[v[Len(v)]].used > 0
         /\ SumAlong(UsedOf(new), v) = SumAlong(UsedOf(pk), v) + size
    <2>1. p \in Packets /\ size \in Nat
      BY <1>2
    <2>2. /\ size <= SumAlong(RoomOf(pk), v)
          /\ Len(v) > 1 => size > SumAlong(RoomOf(pk), v) - Room
      BY <1>4, <1>9
    <2> HIDE DEF v, s, L
    <2>3. pk \in [Packets -> PacketRecord] /\ size \in Nat
      OBVIOUS
    <2>4. FilledUp(pk, new, p, v, size)
      BY <1>6, <1>7, <1>8, <2>1, <2>2, <2>3, FilledIs
    <2>5. QED  BY <2>4 DEF FilledUp
  <1>11. Ends(new, p) /\ Follow(new, p) = s
    <2>1. IsChain(new, s)
      BY <1>2, <1>10, ChainSame
    <2>2. QED  BY <1>2, <2>1, ChainEnds
  <1>12. IsInjective(s) /\ DOMAIN s = 1..L
    BY <1>2, ChainInjective
  <1>13. ASSUME NEW i \in 1..(k - 1) PROVE new[s[i]].used = pk[s[i]].used
    <2>1. i \in 1..L
      BY <1>2
    <2>2. ASSUME NEW j \in 1..Len(v) PROVE v[j] # s[i]
      <3>1. j \in 1..(L - k + 1) /\ k + j - 1 \in 1..L /\ k + j - 1 # i
        BY <1>2, <1>3
      <3>2. v[j] = s[k + j - 1]
        BY <1>3, <3>1
      <3>3. QED  BY <1>12, <2>1, <3>1, <3>2 DEF IsInjective
    <2>3. QED  BY <1>2, <1>10, <2>1, <2>2
  <1>14. ASSUME NEW i \in k..L PROVE i - k + 1 \in 1..Len(v) /\ v[i - k + 1] = s[i]
    <2>1. i - k + 1 \in 1..(L - k + 1) /\ k + (i - k + 1) - 1 = i
      BY <1>2
    <2>2. QED  BY <1>3, <2>1
  <1>15. SumAlong(UsedOf(new), s) = SumAlong(UsedOf(pk), s) + size
    <2> DEFINE a == SubSeq(s, 1, k - 1)
    <2>1. k - 1 \in 0..L
      BY <1>2
    <2>2. a \in Seq(Packets) /\ Len(a) = k - 1 /\ \A i \in 1..(k - 1) : a[i] = s[i]
      BY <1>2, <2>1, SubSeqProperties
    <2>3. a \o v = s
      <3>1. 1 \in 1..(L+1) /\ k - 1 \in (1-1)..L /\ (k - 1) + 1 = k
        BY <1>2
      <3>2. SubSeq(s, 1, k - 1) \o SubSeq(s, (k - 1) + 1, L) = SubSeq(s, 1, L)
        <4>1. 1 \in 1..(L+1) /\ k - 1 \in (1-1)..L /\ L \in (k - 1)..L
          BY <1>2
        <4> HIDE DEF s
        <4>2. QED  BY <1>2, <4>1, ConcatAdjacentSubSeq
      <3>3. QED  BY <1>2, <3>1, <3>2, SubSeqFull
    <2>4. /\ Numbers(UsedOf(pk), a) /\ Numbers(UsedOf(pk), v)
          /\ Numbers(UsedOf(new), a) /\ Numbers(UsedOf(new), v)
          /\ SumAlong(UsedOf(pk), v) \in Nat /\ SumAlong(UsedOf(pk), a) \in Nat
      <3> HIDE DEF v, a
      <3>1. QED  BY <1>7, <1>10, <2>2, PacketNumbers
    <2>5. \A i \in 1..Len(a) : UsedOf(new)[a[i]] = UsedOf(pk)[a[i]]
      <3> SUFFICES ASSUME NEW i \in 1..Len(a) PROVE UsedOf(new)[a[i]] = UsedOf(pk)[a[i]]
        OBVIOUS
      <3>1. i \in 1..(k - 1) /\ i \in 1..L
        BY <1>2, <2>2
      <3>2. a[i] = s[i] /\ s[i] \in Packets
        BY <1>2, <2>2, <3>1
      <3>3. QED  BY <1>13, <3>1, <3>2 DEF UsedOf
    <2> HIDE DEF a, v, s, L
    <2>6. SumAlong(UsedOf(new), a) = SumAlong(UsedOf(pk), a)
      BY <2>2, <2>4, <2>5, SumSame
    <2>7. /\ SumAlong(UsedOf(new), a \o v) = SumAlong(UsedOf(new), a) + SumAlong(UsedOf(new), v)
          /\ SumAlong(UsedOf(pk), a \o v) = SumAlong(UsedOf(pk), a) + SumAlong(UsedOf(pk), v)
      BY <1>7, <2>2, <2>4, SumConcat
    <2>8. PICK x, y : x = SumAlong(UsedOf(pk), a) /\ y = SumAlong(UsedOf(pk), v)
      OBVIOUS
    <2>9. /\ SumAlong(UsedOf(new), s) = x + (y + size) /\ SumAlong(UsedOf(pk), s) = x + y
          /\ x \in Nat /\ y \in Nat
      BY <1>10, <2>3, <2>4, <2>6, <2>7, <2>8
    <2>10. QED  BY <2>9
  <1>16. new[p].length = pk[p].length + size
    BY <1>2, <1>10
  <1>17. new[p].last = LastOf(s, L)
    <2>1. CASE k < L
      <3>1. Len(v) > 1 /\ L > 1 /\ L \in k..L /\ L - k + 1 = Len(v)
        BY <1>2, <1>3, <1>9, <2>1
      <3>2. v[Len(v)] = s[L]
        BY <1>14, <3>1
      <3>3. QED  BY <1>2, <1>10, <3>1, <3>2 DEF LastOf
    <2>2. CASE k = L
      <3>1. ~(Len(v) > 1)
        BY <1>9, <2>2, <1>2
      <3>2. new[p].last = LastOf(s, k)
        BY <1>2, <1>4, <1>10, <3>1
      <3>3. QED  BY <2>2, <3>2
    <2>3. QED  BY <1>2, <2>1, <2>2
  <1>18. ASSUME NEW i \in 1..(L - 1) PROVE new[s[i]].used = Room
    <2>1. CASE i < k
      <3>1. i \in 1..(k - 1)
        BY <1>2, <2>1
      <3>2. QED  BY <1>4, <1>13, <3>1
    <2>2. CASE ~(i < k)
      <3>1. i \in k..L /\ i - k + 1 \in 1..(Len(v) - 1)
        BY <1>2, <1>3, <2>2
      <3>2. v[i - k + 1] = s[i]
        BY <1>14, <3>1
      <3> HIDE DEF v, s, L
      <3>3. QED  BY <1>10, <3>1, <3>2
    <2>3. QED  BY <2>1, <2>2
  <1>19. ASSUME NEW i \in 2..L PROVE new[s[i]].used > 0 /\ new[s[i]].prepend = 0
    <2>1. i \in 1..L /\ s[i] \in Packets
      BY <1>2
    <2>2. new[s[i]].prepend = 0
      BY <1>4, <1>10, <2>1
    <2>3. CASE i < L
      <3>1. i \in 1..(L - 1)
        BY <1>2, <2>3
      <3>2. QED  BY <1>18, <2>2, <3>1, PoolAssumption
    <2>4. CASE i = L /\ k < L
      <3>1. Len(v) > 1 /\ L \in k..L /\ L - k + 1 = Len(v)
        BY <1>2, <1>3, <1>9, <2>4
      <3>2. v[Len(v)] = s[L]
        BY <1>14, <3>1
      <3>3. QED  BY <1>10, <2>2, <2>4, <3>1, <3>2
    <2>5. CASE i = L /\ k = L
      <3>1. L \in k..L /\ L - k + 1 = 1 /\ Len(v) = 1
        BY <1>2, <1>3, <2>5
      <3>2. v[1] = s[L]
        BY <1>14, <3>1
      <3>3. v = <<s[L]>>
        <4> HIDE DEF v, s, L
        <4>1. QED  BY <1>7, <3>1, <3>2
      <3>4. /\ UsedOf(new)[s[L]] = new[s[L]].used /\ UsedOf(pk)[s[L]] = pk[s[L]].used
            /\ new[s[L]].used \in 0..Room /\ pk[s[L]].used \in 0..Room
        BY <1>10, <2>1, <2>5 DEF UsedOf, PacketRecord
      <3>5. SumAlong(UsedOf(new), v) = new[s[L]].used /\ SumAlong(UsedOf(pk), v) = pk[s[L]].used
        <4>1. s[L] \in Packets /\ UsedOf(new)[s[L]] \in Int /\ UsedOf(pk)[s[L]] \in Int
          BY <2>1, <2>5, <3>4, PoolAssumption
        <4> HIDE DEF v, s, L
        <4>2. QED  BY <3>3, <3>4, <4>1, SumOne
      <3>6. pk[s[L]].used > 0
        BY <1>4, <2>5
      <3>7. PICK x, y : x = new[s[L]].used /\ y = pk[s[L]].used
        OBVIOUS
      <3>8. x = y + size /\ y > 0 /\ y \in 0..Room /\ x \in 0..Room
        BY <1>10, <3>4, <3>5, <3>6, <3>7
      <3>9. x > 0
        BY <3>8, PoolAssumption
      <3>10. QED  BY <2>2, <2>5, <3>7, <3>9
    <2>6. QED  BY <1>2, <2>3, <2>4, <2>5
  <1>20. Complete(new, p)
    <2>1. new[p].length + new[p].prepend = SumAlong(UsedOf(new), s)
      <3>1. new[p].prepend = pk[p].prepend /\ pk[p].prepend \in 0..Room /\ pk[p].length \in Nat
        BY <1>2, <1>10 DEF PacketRecord
      <3>2. PICK x, y, z : x = pk[p].length /\ y = pk[p].prepend /\ z = SumAlong(UsedOf(pk), s)
        OBVIOUS
      <3>3. /\ new[p].length + new[p].prepend = (x + size) + y
            /\ SumAlong(UsedOf(new), s) = z + size /\ x + y = z
        BY <1>4, <1>15, <1>16, <3>1, <3>2
      <3>4. x \in Nat /\ y \in Nat
        BY <3>1, <3>2, PoolAssumption
      <3>5. (x + size) + y = (x + y) + size
        BY <3>4
      <3>6. QED  BY <3>3, <3>5
    <2>2. QED  BY <1>11, <1>17, <1>18, <1>19, <2>1 DEF Complete
  <1>21. ASSUME NEW q \in Packets, ~OnChain(pk, p, q) PROVE new[q] = pk[q]
    <2>1. \A i \in 1..L : s[i] # q
      BY <1>21 DEF OnChain
    <2>2. q # p
      BY <1>2, <2>1
    <2>3. ASSUME NEW j \in 1..Len(v) PROVE v[j] # q
      <3>1. j \in 1..(L - k + 1) /\ k + j - 1 \in 1..L
        BY <1>2, <1>3
      <3>2. v[j] = s[k + j - 1]
        BY <1>3, <3>1
      <3>3. QED  BY <2>1, <3>1, <3>2
    <2>4. new[q] \in PacketRecord /\ pk[q] \in PacketRecord
      BY <1>10
    <2>5. /\ new[q].next = pk[q].next /\ new[q].mark = pk[q].mark /\ new[q].prepend = pk[q].prepend
          /\ new[q].length = pk[q].length /\ new[q].last = pk[q].last /\ new[q].used = pk[q].used
      BY <1>10, <2>2, <2>3
    <2>6. QED  BY <2>4, <2>5, SameRecord
  <1>22. QED  BY <1>10, <1>11, <1>16, <1>20, <1>21

(* A sum of nothing but zeros. *)
LEMMA SumZero ==
  ASSUME NEW S, NEW s \in Seq(S), NEW f, \A i \in 1..Len(s) : f[s[i]] = 0
  PROVE  SumAlong(f, s) = 0
  <1> DEFINE v == [i \in 0..Len(s) |-> 0]
  <1>1. Len(s) \in Nat
    OBVIOUS
  <1>2. /\ v \in [0..Len(s) -> Int] /\ v[0] = 0 /\ v[Len(s)] = 0
        /\ \A i \in 1..Len(s) : v[i] = 0 /\ v[i-1] = 0
    BY <1>1
  <1> HIDE DEF v
  <1>3. Sums(v, f, s)
    BY <1>2 DEF Sums
  <1>4. QED  BY <1>2, <1>3, SumIs

(* When all packets are used as before, sums are the same. *)
LEMMA SameUse ==
  ASSUME NEW pk, NEW new, \A q \in Packets : new[q].used = pk[q].used
  PROVE  UsedOf(new) = UsedOf(pk) /\ RoomOf(new) = RoomOf(pk)
  BY DEF UsedOf, RoomOf

(* A complete chain is ready for data that its last packet has room for. *)
LEMMA ReadyAlone ==
  ASSUME NEW pk \in [Packets -> PacketRecord], NEW p, Ends(pk, p), Complete(pk, p), NEW size \in Nat,
         size <= RoomIn(pk, Behind(pk, p))
  PROVE  Ready(pk, p, size)
  <1> DEFINE s == Follow(pk, p)
             L == Len(s)
             e == s[L]
  <1>1. s \in Seq(Packets) /\ L \in Nat \ {0} /\ L \in 1..L /\ IsChain(pk, s)
    BY EndsElements DEF Ends
  <1>2. Behind(pk, p) = <<e>> /\ Follow(pk, e) = <<e>>
    BY CompleteBehind
  <1>3. SubSeq(s, L, L) = <<e>>
    <2>1. Follow(pk, s[L]) = SubSeq(s, L, L)
      <3> HIDE DEF s
      <3>1. QED  BY <1>1, ChainSuffix
    <2>2. QED  BY <1>2, <2>1
  <1>4. size <= SumAlong(RoomOf(pk), SubSeq(s, L, L))
    BY <1>2, <1>3 DEF RoomIn, RoomOf
  <1>5. /\ \A i \in (L + 1)..L : FALSE
        /\ ~(L < L)
    BY <1>1
  <1>6. ReadyAt(pk, p, size, L)
    BY <1>4, <1>5 DEF ReadyAt, Complete
  <1>7. QED  BY <1>1, <1>6 DEF Ready

(* The list of new packets makes a complete chain ready for more. *)
LEMMA LinkReady ==
  ASSUME NEW pk \in [Packets -> PacketRecord], NEW p, Ends(pk, p), Complete(pk, p),
         NEW list, list # NoPacket, Ends(pk, list), NewList(pk, list),
         \A q : ~(OnChain(pk, p, q) /\ OnChain(pk, list, q)),
         NEW size \in Nat,
         size <= RoomIn(pk, Behind(pk, p)) + RoomIn(pk, Follow(pk, list)),
         size > RoomIn(pk, Behind(pk, p)) + RoomIn(pk, Follow(pk, list)) - Room,
         NEW new, new = Linked(pk, p, list)
  PROVE  /\ new \in [Packets -> PacketRecord]
         /\ \A q \in Packets :
              /\ new[q].mark = pk[q].mark /\ new[q].length = pk[q].length
              /\ new[q].prepend = pk[q].prepend
              /\ ~OnChain(pk, p, q) /\ ~OnChain(pk, list, q) => new[q] = pk[q]
         /\ Ends(new, p) /\ Follow(new, p) = Follow(pk, p) \o Follow(pk, list)
         /\ Ready(new, p, size)
  <1> DEFINE a == Follow(pk, p)
             b == Follow(pk, list)
             m == Len(a)
             n == Len(b)
             e == a[m]
             s == a \o b
  <1>1. /\ IsChain(pk, a) /\ IsChain(pk, b) /\ a \in Seq(Packets) /\ b \in Seq(Packets)
        /\ m \in Nat \ {0} /\ n \in Nat \ {0} /\ a[1] = p /\ b[1] = list /\ p \in Packets
        /\ list \in Packets /\ e \in Packets
        /\ \A i \in 1..m : a[i] \in Packets
        /\ \A i \in 1..n : b[i] \in Packets
        /\ 1 \in 1..m /\ m \in 1..m /\ 1 \in 1..n
    BY EndsElements DEF Ends
  <1>2. \A i \in 1..m, j \in 1..n : a[i] # b[j]
    BY DEF OnChain
  <1>3. e # list /\ p # list
    BY <1>1, <1>2
  <1>4. Behind(pk, p) = <<e>> /\ RoomIn(pk, Behind(pk, p)) = Room - pk[e].used
    BY CompleteBehind
  <1>5. Last(<<e>>) = e
    BY DEF Last
  <1>6. new = [pk EXCEPT ![e].next = list, ![list].last = NoPacket]
    BY <1>4, <1>5 DEF Linked
  <1>7. /\ \A q \in Packets :
             /\ new[q].mark = pk[q].mark /\ new[q].length = pk[q].length
             /\ new[q].prepend = pk[q].prepend /\ new[q].used = pk[q].used
             /\ q # e => new[q].next = pk[q].next
             /\ q # list => new[q].last = pk[q].last
             /\ q # e /\ q # list => new[q] = pk[q]
        /\ new[e].next = list
        /\ new \in [Packets -> PacketRecord]
    <2> HIDE DEF e
    <2>1. \A q \in Packets : new[q] =
            IF q = e THEN [pk[q] EXCEPT !.next = list]
            ELSE IF q = list THEN [pk[q] EXCEPT !.last = NoPacket] ELSE pk[q]
      BY <1>1, <1>3, <1>6
    <2>2. \A q \in Packets : pk[q] \in PacketRecord
      OBVIOUS
    <2>3. list \in Pointer /\ NoPacket \in Pointer
      BY <1>1 DEF Pointer
    <2>4. \A q \in Packets : new[q] \in PacketRecord
      <3> SUFFICES ASSUME NEW q \in Packets PROVE new[q] \in PacketRecord
        OBVIOUS
      <3>1. PICK r \in PacketRecord : r = pk[q]
        BY <2>2
      <3>2. [r EXCEPT !.next = list] \in PacketRecord /\ [r EXCEPT !.last = NoPacket] \in PacketRecord
        BY <2>3 DEF PacketRecord
      <3>3. QED  BY <2>1, <3>1, <3>2
    <2>5. \A q \in Packets :
             /\ new[q].mark = pk[q].mark /\ new[q].length = pk[q].length
             /\ new[q].prepend = pk[q].prepend /\ new[q].used = pk[q].used
             /\ q # e => new[q].next = pk[q].next
             /\ q # list => new[q].last = pk[q].last
             /\ q # e /\ q # list => new[q] = pk[q]
             /\ q = e => new[q].next = list
      BY <2>1, <2>2 DEF PacketRecord
    <2>6. DOMAIN new = Packets /\ new = [q \in Packets |-> new[q]]
      BY <1>6
    <2>7. new \in [Packets -> PacketRecord]
      BY <2>4, <2>6
    <2>8. QED  BY <1>1, <2>5, <2>7
  <1>8. IsInjective(a) /\ DOMAIN a = 1..m
    BY <1>1, ChainInjective
  <1>9. /\ IsChain(new, s) /\ Len(s) = m + n
        /\ \A i \in 1..m : s[i] = a[i]
        /\ \A i \in 1..n : s[m + i] = b[i]
    <2>1. ASSUME NEW i \in 1..(m - 1) PROVE new[a[i]].next = pk[a[i]].next
      <3>1. i \in 1..m /\ i # m
        BY <1>1
      <3>2. a[i] # e
        BY <1>1, <1>8, <3>1 DEF IsInjective
      <3>3. QED  BY <1>1, <1>7, <3>1, <3>2
    <2>2. ASSUME NEW i \in 1..n PROVE new[b[i]].next = pk[b[i]].next
      BY <1>1, <1>2, <1>7
    <2>3. new[a[m]].next = b[1]
      BY <1>1, <1>7
    <2>4. Joins(pk, new, a, b)
      BY <1>1, <2>1, <2>2, <2>3 DEF Joins
    <2> HIDE DEF a, b, e
    <2>5. QED  BY <2>4, ChainConcat
  <1>10. Ends(new, p) /\ Follow(new, p) = s
    <2>1. s[1] = p
      BY <1>1, <1>9
    <2> HIDE DEF s
    <2>2. QED  BY <1>9, <2>1, ChainEnds
  <1>11. UsedOf(new) = UsedOf(pk) /\ RoomOf(new) = RoomOf(pk)
    BY <1>7, SameUse
  <1>12. /\ pk[p].length + pk[p].prepend = SumAlong(UsedOf(pk), a)
         /\ pk[p].last = LastOf(a, m)
         /\ \A i \in 1..(m - 1) : pk[a[i]].used = Room
         /\ \A i \in 2..m : pk[a[i]].used > 0 /\ pk[a[i]].prepend = 0
         /\ \A i \in 1..n : pk[b[i]].used = 0 /\ pk[b[i]].prepend = 0
    BY DEF Complete, NewList
  <1>13. /\ Numbers(UsedOf(pk), a) /\ Numbers(UsedOf(pk), b)
         /\ Numbers(RoomOf(pk), <<e>>) /\ Numbers(RoomOf(pk), b)
         /\ SumAlong(UsedOf(pk), a) \in Nat /\ <<e>> \in Seq(Packets)
    <2>1. <<e>> \in Seq(Packets)
      BY <1>1
    <2> HIDE DEF a, b, e
    <2>2. QED  BY <1>1, <2>1, PacketNumbers
  <1>14. SumAlong(UsedOf(pk), s) = SumAlong(UsedOf(pk), a)
    <2>1. \A i \in 1..Len(b) : UsedOf(pk)[b[i]] = 0
      BY <1>1, <1>12 DEF UsedOf
    <2> HIDE DEF a, b
    <2>2. SumAlong(UsedOf(pk), b) = 0
      BY <1>1, <2>1, SumZero
    <2>3. SumAlong(UsedOf(pk), s) = SumAlong(UsedOf(pk), a) + SumAlong(UsedOf(pk), b)
      BY <1>1, <1>13, SumConcat
    <2> HIDE DEF s
    <2>4. QED  BY <1>13, <2>2, <2>3
  <1> DEFINE v == SubSeq(s, m, m + n)
  <1>15. v = <<e>> \o b
    <2>1. m \in 1..Len(s) /\ Len(s) - m + 1 = n + 1 /\ Len(s) = m + n
      BY <1>1, <1>9
    <2>2. Len(v) = n + 1 /\ v \in Seq(Packets) /\ \A i \in 1..(n + 1) : v[i] = s[m + i - 1]
      <3> HIDE DEF s
      <3>1. IsChain(new, SubSeq(s, m, Len(s)))
        BY <1>9, <2>1, ChainSuffix
      <3>2. /\ Len(SubSeq(s, m, Len(s))) = Len(s) - m + 1
            /\ \A i \in 1..(Len(s) - m + 1) : SubSeq(s, m, Len(s))[i] = s[m + i - 1]
        BY <1>9, <2>1, ChainSuffix
      <3>3. SubSeq(s, m, Len(s)) \in Seq(Packets)
        BY <3>1 DEF IsChain
      <3>4. QED  BY <2>1, <3>2, <3>3
    <2> DEFINE w == <<e>> \o b
    <2>3. Len(w) = n + 1 /\ w \in Seq(Packets) /\ w[1] = e /\ \A i \in 1..n : w[i + 1] = b[i]
      <3> HIDE DEF e, b
      <3>1. QED  BY <1>1
    <2>4. ASSUME NEW i \in 1..(n + 1) PROVE v[i] = w[i]
      <3>1. CASE i = 1
        <4>1. m + 1 - 1 = m /\ s[m] = e /\ 1 \in 1..(n + 1)
          BY <1>1, <1>9
        <4> HIDE DEF v, w, e, s
        <4>2. QED  BY <2>2, <2>3, <3>1, <4>1
      <3>2. CASE i > 1
        <4>1. i - 1 \in 1..n /\ m + i - 1 = m + (i - 1) /\ (i - 1) + 1 = i
          BY <1>1, <3>2
        <4>2. s[m + (i - 1)] = b[i - 1]
          BY <1>9, <4>1
        <4>3. w[i] = b[i - 1]
          <5> HIDE DEF w, b
          <5>1. w[(i - 1) + 1] = b[i - 1]
            BY <2>3, <4>1
          <5>2. QED  BY <4>1, <5>1
        <4>4. v[i] = s[m + (i - 1)]
          BY <2>2, <4>1
        <4>5. QED  BY <4>2, <4>3, <4>4
      <3> HIDE DEF v, w
      <3>3. QED  BY <1>1, <3>1, <3>2
    <2> HIDE DEF v, w
    <2>5. v = w
      BY <2>2, <2>3, <2>4
    <2>6. QED  BY <2>5 DEF w
  <1>16. SumAlong(RoomOf(pk), v) = RoomIn(pk, Behind(pk, p)) + RoomIn(pk, b)
    <2>1. SumAlong(RoomOf(pk), <<e>> \o b) = SumAlong(RoomOf(pk), <<e>>) + SumAlong(RoomOf(pk), b)
      <3> HIDE DEF e, b
      <3>1. QED  BY <1>1, <1>13, SumConcat
    <2>2. QED  BY <1>4, <1>15, <2>1 DEF RoomIn, RoomOf
  <1>17. ReadyAt(new, p, size, m)
    <2>1. new[p].length + new[p].prepend = SumAlong(UsedOf(new), s)
      BY <1>1, <1>7, <1>11, <1>12, <1>14
    <2>2. new[p].last = LastOf(s, m)
      BY <1>1, <1>3, <1>7, <1>9, <1>12 DEF LastOf
    <2>3. ASSUME NEW i \in 1..m, i \in 1..(m - 1) PROVE new[s[i]].used = Room
      BY <1>1, <1>7, <1>9, <1>12, <2>3
    <2>4. ASSUME NEW i \in 2..m PROVE new[s[i]].used > 0 /\ new[s[i]].prepend = 0
      <3>1. i \in 1..m
        BY <1>1
      <3>2. QED  BY <1>1, <1>7, <1>9, <1>12, <3>1
    <2>5. ASSUME NEW i \in (m + 1)..(m + n) PROVE new[s[i]].used = 0 /\ new[s[i]].prepend = 0
      <3>1. i - m \in 1..n /\ m + (i - m) = i
        BY <1>1
      <3>2. PICK j, x : j = i - m /\ x = b[j]
        OBVIOUS
      <3>3. j \in 1..n /\ s[i] = x
        BY <1>9, <3>1, <3>2
      <3>4. x \in Packets
        BY <1>1, <3>2, <3>3
      <3>5. pk[x].used = 0 /\ pk[x].prepend = 0
        BY <1>12, <3>2, <3>3
      <3>6. new[x].used = 0 /\ new[x].prepend = 0
        BY <1>7, <3>4, <3>5
      <3>7. QED  BY <3>3, <3>6
    <2>6. \A i \in 1..(m - 1) : i \in 1..m
      BY <1>1
    <2>7. \A i \in 2..(m + n) : i \in 2..m \/ i \in (m + 1)..(m + n)
      BY <1>1
    <2>8. size <= SumAlong(RoomOf(new), v) /\ size > SumAlong(RoomOf(new), v) - Room
      <3>1. RoomIn(pk, Behind(pk, p)) + RoomIn(pk, Follow(pk, list)) = SumAlong(RoomOf(new), v)
        BY <1>11, <1>16
      <3> HIDE DEF v
      <3>2. PICK x, y : x = RoomIn(pk, Behind(pk, p)) /\ y = RoomIn(pk, Follow(pk, list))
        OBVIOUS
      <3>3. size <= x + y /\ size > x + y - Room
        BY <3>2
      <3>4. SumAlong(RoomOf(new), v) = x + y
        BY <3>1, <3>2
      <3>5. x \in Int /\ y \in Int /\ Room \in Int
        <4>1. RoomIn(pk, b) \in Nat
          <5> HIDE DEF b
          <5>1. QED  BY <1>1, PacketNumbers DEF RoomIn, RoomOf
        <4>2. pk[e].used \in 0..Room /\ Room \in Nat
          BY <1>1, PoolAssumption DEF PacketRecord
        <4>3. PICK u : u = pk[e].used
          OBVIOUS
        <4>4. x = Room - u /\ u \in 0..Room
          BY <1>4, <3>2, <4>2, <4>3
        <4>5. x \in Int
          BY <4>2, <4>4
        <4>6. QED  BY <3>2, <4>1, <4>2, <4>5
      <3>6. QED  BY <3>3, <3>4, <3>5
    <2> HIDE DEF s, a, b, m, n
    <2>9. QED  BY <1>9, <1>10, <2>1, <2>2, <2>3, <2>4, <2>5, <2>6, <2>7, <2>8 DEF ReadyAt
  <1>18. Ready(new, p, size)
    <2>1. m \in 1..Len(s)
      BY <1>1, <1>9
    <2>2. QED  BY <1>10, <1>17, <2>1 DEF Ready
  <1>19. ASSUME NEW q \in Packets, ~OnChain(pk, p, q), ~OnChain(pk, list, q) PROVE new[q] = pk[q]
    <2>1. q # e /\ q # list
      BY <1>1, <1>19 DEF OnChain
    <2>2. QED  BY <1>7, <2>1
  <1>20. QED  BY <1>7, <1>10, <1>18, <1>19

(* From no packet, no chain. *)
LEMMA FollowNothing ==
  ASSUME NEW pk
  PROVE  Follow(pk, NoPacket) = <<>> /\ RoomIn(pk, Follow(pk, NoPacket)) = 0
         /\ \A q : ~OnChain(pk, NoPacket, q)
  <1>1. Follow(pk, NoPacket) = <<>>
    BY DEF Follow
  <1>2. \A i \in 1..Len(<<>>) : FALSE
    OBVIOUS
  <1>3. QED  BY <1>1, <1>2, SumEmpty DEF RoomIn, OnChain

(* One more new packet on the list. *)
LEMMA CollectFirst ==
  ASSUME NEW pk \in [Packets -> PacketRecord], NEW got \in Packets, pk[got] = Fresh(0)
  PROVE  /\ Ends(pk, got) /\ NewList(pk, got) /\ Follow(pk, got) = <<got>>
         /\ RoomIn(pk, Follow(pk, got)) = Room
  <1>1. /\ pk[got].next = NoPacket /\ pk[got].last = NoPacket
        /\ pk[got].used = 0 /\ pk[got].prepend = 0
    BY DEF Fresh
  <1>2. Ends(pk, got) /\ Follow(pk, got) = <<got>>
    BY <1>1, OneEnds
  <1>3. NewList(pk, got)
    <2>1. Len(<<got>>) = 1 /\ \A i \in 1..1 : <<got>>[i] = got
      OBVIOUS
    <2>2. QED  BY <1>1, <1>2, <2>1 DEF NewList, LastOf
  <1>4. SumAlong(RoomOf(pk), <<got>>) = Room
    <2>1. RoomOf(pk)[got] = Room
      BY <1>1, PoolAssumption DEF RoomOf
    <2>2. QED  BY <2>1, SumOne, PoolAssumption
  <1>5. QED  BY <1>2, <1>3, <1>4 DEF RoomIn, RoomOf

(* A further one goes to its end. *)
LEMMA CollectList ==
  ASSUME NEW pk \in [Packets -> PacketRecord], NEW got \in Packets, pk[got] = Fresh(0),
         NEW list, list # NoPacket, Ends(pk, list), NewList(pk, list), ~OnChain(pk, list, got),
         NEW new, new = Collected(pk, list, got)
  PROVE  /\ new \in [Packets -> PacketRecord]
         /\ \A q \in Packets : /\ new[q].mark = pk[q].mark
                               /\ ~OnChain(pk, list, q) => new[q] = pk[q]
         /\ Ends(new, list) /\ NewList(new, list) /\ Follow(new, list) = Follow(pk, list) \o <<got>>
         /\ RoomIn(new, Follow(new, list)) = RoomIn(pk, Follow(pk, list)) + Room
  <1> DEFINE a == Follow(pk, list)
             m == Len(a)
             e == a[m]
             b == <<got>>
             s == a \o b
  <1>1. /\ IsChain(pk, a) /\ a \in Seq(Packets) /\ m \in Nat \ {0} /\ a[1] = list
        /\ list \in Packets /\ e \in Packets
        /\ \A i \in 1..m : a[i] \in Packets
        /\ 1 \in 1..m /\ m \in 1..m
    BY EndsElements DEF Ends
  <1>2. /\ pk[got].next = NoPacket /\ pk[got].last = NoPacket
        /\ pk[got].used = 0 /\ pk[got].prepend = 0 /\ got # NoPacket
    BY PoolAssumption DEF Fresh
  <1>3. \A i \in 1..m : a[i] # got
    BY DEF OnChain
  <1>4. pk[list].last = LastOf(a, m) /\ \A i \in 1..m : pk[a[i]].used = 0 /\ pk[a[i]].prepend = 0
    BY DEF NewList
  <1>5. AppendTo(pk, list) = e
    <2>1. CASE m > 1
      <3>1. pk[list].last = e /\ e # NoPacket
        BY <1>1, <1>4, <2>1, PoolAssumption DEF LastOf
      <3>2. QED  BY <3>1 DEF AppendTo
    <2>2. CASE ~(m > 1)
      <3>1. m = 1
        <4> HIDE DEF m
        <4>1. QED  BY <1>1, <2>2
      <3>2. pk[list].last = NoPacket /\ e = list
        BY <1>1, <1>4, <3>1 DEF LastOf
      <3>3. QED  BY <3>2 DEF AppendTo
    <2>3. QED  BY <2>1, <2>2
  <1>6. new = [pk EXCEPT ![e].next = got, ![list].last = got]
    BY <1>5 DEF Collected
  <1>7. /\ \A q \in Packets :
             /\ new[q].mark = pk[q].mark /\ new[q].used = pk[q].used
             /\ new[q].prepend = pk[q].prepend
             /\ q # e => new[q].next = pk[q].next
             /\ q # e /\ q # list => new[q] = pk[q]
        /\ new[e].next = got /\ new[list].last = got
        /\ new \in [Packets -> PacketRecord]
    <2> HIDE DEF e
    <2> DEFINE r(q) == IF q = e THEN [pk[q] EXCEPT !.next = got] ELSE pk[q]
    <2>1. \A q \in Packets : new[q] = IF q = list THEN [r(q) EXCEPT !.last = got] ELSE r(q)
      BY <1>1, <1>6
    <2>2. \A q \in Packets : pk[q] \in PacketRecord
      OBVIOUS
    <2>3. got \in Pointer
      BY DEF Pointer
    <2>4. ASSUME NEW q \in Packets PROVE r(q) \in PacketRecord
      <3>1. PICK x \in PacketRecord : x = pk[q]
        BY <2>2
      <3>2. [x EXCEPT !.next = got] \in PacketRecord
        BY <2>3 DEF PacketRecord
      <3>3. QED  BY <3>1, <3>2
    <2>5. ASSUME NEW q \in Packets
          PROVE  /\ r(q).mark = pk[q].mark /\ r(q).used = pk[q].used /\ r(q).prepend = pk[q].prepend
                 /\ q # e => r(q) = pk[q]
                 /\ q = e => r(q).next = got
      BY <2>2 DEF PacketRecord
    <2> HIDE DEF r
    <2>6. ASSUME NEW q \in Packets
          PROVE  /\ new[q] \in PacketRecord
                 /\ new[q].mark = r(q).mark /\ new[q].used = r(q).used
                 /\ new[q].prepend = r(q).prepend /\ new[q].next = r(q).next
                 /\ q # list => new[q] = r(q)
                 /\ q = list => new[q].last = got
      <3>1. PICK x \in PacketRecord : x = r(q)
        BY <2>4
      <3>2. /\ [x EXCEPT !.last = got] \in PacketRecord
            /\ [x EXCEPT !.last = got].mark = x.mark /\ [x EXCEPT !.last = got].used = x.used
            /\ [x EXCEPT !.last = got].prepend = x.prepend /\ [x EXCEPT !.last = got].next = x.next
            /\ [x EXCEPT !.last = got].last = got
        BY <2>3 DEF PacketRecord
      <3>3. QED  BY <2>1, <3>1, <3>2
    <2>7. DOMAIN new = Packets /\ new = [q \in Packets |-> new[q]]
      BY <1>6
    <2>8. new \in [Packets -> PacketRecord]
      BY <2>6, <2>7
    <2>9. QED  BY <1>1, <2>5, <2>6, <2>8
  <1>8. IsInjective(a) /\ DOMAIN a = 1..m
    BY <1>1, ChainInjective
  <1>9. /\ b \in Seq(Packets) /\ Len(b) = 1 /\ b[1] = got /\ IsChain(pk, b)
        /\ \A i \in 1..Len(b) : b[i] = got
    <2>1. b \in Seq(Packets) /\ Len(b) = 1 /\ b[1] = got
      OBVIOUS
    <2>2. \A i \in 1..Len(b) : b[i] = got
      OBVIOUS
    <2>3. QED  BY <1>2, <2>1, <2>2, ChainOne
  <1> HIDE DEF b
  <1>10. /\ IsChain(new, s) /\ Len(s) = m + 1
         /\ \A i \in 1..m : s[i] = a[i]
         /\ s[m + 1] = got
    <2>1. ASSUME NEW i \in 1..(m - 1) PROVE new[a[i]].next = pk[a[i]].next
      <3>1. i \in 1..m /\ i # m
        BY <1>1
      <3>2. a[i] # e
        BY <1>1, <1>8, <3>1 DEF IsInjective
      <3>3. QED  BY <1>1, <1>7, <3>1, <3>2
    <2>2. ASSUME NEW i \in 1..Len(b) PROVE new[b[i]].next = pk[b[i]].next
      BY <1>1, <1>3, <1>7, <1>9
    <2>3. new[a[m]].next = b[1]
      BY <1>1, <1>7, <1>9
    <2>4. Joins(pk, new, a, b)
      BY <1>1, <1>9, <2>1, <2>2, <2>3 DEF Joins
    <2>5. /\ IsChain(new, a \o b) /\ Len(a \o b) = Len(a) + Len(b)
          /\ \A i \in 1..Len(a) : (a \o b)[i] = a[i]
          /\ \A i \in 1..Len(b) : (a \o b)[Len(a) + i] = b[i]
      <3> HIDE DEF a, e
      <3>1. QED  BY <2>4, ChainConcat
    <2>6. 1 \in 1..Len(b)
      BY <1>9
    <2>7. QED  BY <1>9, <2>5, <2>6
  <1>11. Ends(new, list) /\ Follow(new, list) = s
    <2>1. s[1] = list
      BY <1>1, <1>10
    <2> HIDE DEF s
    <2>2. QED  BY <1>10, <2>1, ChainEnds
  <1>12. RoomOf(new) = RoomOf(pk)
    BY <1>7, SameUse
  <1>13. NewList(new, list)
    <2>1. new[list].last = LastOf(s, m + 1)
      <3>1. m + 1 > 1
        <4> HIDE DEF m
        <4>1. QED  BY <1>1
      <3>2. QED  BY <1>7, <1>10, <3>1 DEF LastOf
    <2>2. ASSUME NEW i \in 1..(m + 1) PROVE new[s[i]].used = 0 /\ new[s[i]].prepend = 0
      <3>1. CASE i \in 1..m
        BY <1>1, <1>4, <1>7, <1>10, <3>1
      <3>2. CASE i = m + 1
        BY <1>2, <1>7, <1>10, <3>2
      <3>3. i \in 1..m \/ i = m + 1
        BY <1>1
      <3>4. QED  BY <3>1, <3>2, <3>3
    <2> HIDE DEF s, m
    <2>3. QED  BY <1>10, <1>11, <2>1, <2>2 DEF NewList
  <1>14. SumAlong(RoomOf(pk), s) = SumAlong(RoomOf(pk), a) + Room
    <2>1. SumAlong(RoomOf(pk), b) = Room
      <3>1. RoomOf(pk)[got] = Room
        BY <1>2, PoolAssumption DEF RoomOf
      <3>2. QED  BY <3>1, SumOne, PoolAssumption DEF b
    <2> HIDE DEF a
    <2>2. Numbers(RoomOf(pk), a) /\ Numbers(RoomOf(pk), b)
      BY <1>1, <1>9, PacketNumbers
    <2>3. QED  BY <1>1, <1>9, <2>1, <2>2, SumConcat
  <1>15. ASSUME NEW q \in Packets, ~OnChain(pk, list, q) PROVE new[q] = pk[q]
    <2>1. q # e /\ q # list
      BY <1>1, <1>15 DEF OnChain
    <2>2. QED  BY <1>7, <2>1
  <1>16. RoomIn(new, s) = RoomIn(pk, a) + Room
    BY <1>12, <1>14 DEF RoomIn, RoomOf
  <1>17. QED  BY <1>7, <1>11, <1>13, <1>15, <1>16 DEF b

(* The copy gets the offset of its source. *)
WithOffset(pk, p, offset) == [pk EXCEPT ![p] = [pk[p] EXCEPT !.prepend = offset, !.length = @ - offset]]

(* The chain stays complete: its length shrinks by the offset. *)
LEMMA OffsetMoved ==
  ASSUME NEW pk \in [Packets -> PacketRecord], NEW p, Ends(pk, p), Complete(pk, p), pk[p].prepend = 0,
         NEW offset \in 0..Room, offset <= pk[p].length,
         NEW new, new = WithOffset(pk, p, offset)
  PROVE  /\ new \in [Packets -> PacketRecord]
         /\ \A q \in Packets : /\ new[q].mark = pk[q].mark
                               /\ q # p => new[q] = pk[q]
         /\ Ends(new, p) /\ Follow(new, p) = Follow(pk, p) /\ Complete(new, p)
  <1> DEFINE s == Follow(pk, p)
             L == Len(s)
  <1>0. new = [pk EXCEPT ![p] = [pk[p] EXCEPT !.prepend = offset, !.length = @ - offset]]
    BY DEF WithOffset
  <1>1. /\ IsChain(pk, s) /\ s \in Seq(Packets) /\ L \in Nat \ {0} /\ s[1] = p
        /\ p \in Packets /\ \A i \in 1..L : s[i] \in Packets
        /\ 1 \in 1..L
    BY EndsElements DEF Ends
  <1>2. pk[p] \in PacketRecord /\ pk[p].length \in Nat
    BY <1>1 DEF PacketRecord
  <1>3. pk[p].length - offset \in Nat
    <2>1. PICK x : x = pk[p].length
      OBVIOUS
    <2>2. x \in Nat /\ offset <= x /\ Room \in Nat
      BY <1>2, <2>1, PoolAssumption
    <2>3. x - offset \in Nat
      BY <2>2
    <2>4. QED  BY <2>1, <2>3
  <1>4. /\ new[p] \in PacketRecord
        /\ new[p].mark = pk[p].mark /\ new[p].next = pk[p].next /\ new[p].last = pk[p].last
        /\ new[p].used = pk[p].used /\ new[p].prepend = offset
        /\ new[p].length = pk[p].length - offset
    <2>1. PICK r \in PacketRecord : r = pk[p]
      BY <1>2
    <2>2. new[p] = [r EXCEPT !.prepend = offset, !.length = r.length - offset]
      BY <1>0, <1>1, <2>1
    <2>3. r.length - offset \in Nat
      BY <1>3, <2>1
    <2>4. [r EXCEPT !.prepend = offset, !.length = r.length - offset] \in PacketRecord
      BY <2>3 DEF PacketRecord
    <2>5. QED  BY <2>1, <2>2, <2>4 DEF PacketRecord
  <1>5. \A q \in Packets : q # p => new[q] = pk[q]
    BY <1>0
  <1>6. new \in [Packets -> PacketRecord]
    <2>1. DOMAIN new = Packets /\ new = [q \in Packets |-> new[q]]
      BY <1>0
    <2>2. \A q \in Packets : new[q] \in PacketRecord
      BY <1>4, <1>5
    <2>3. QED  BY <2>1, <2>2
  <1>7. \A q \in Packets : new[q].mark = pk[q].mark /\ new[q].next = pk[q].next /\ new[q].used = pk[q].used
    BY <1>4, <1>5
  <1>8. Ends(new, p) /\ Follow(new, p) = s
    <2>1. IsChain(new, s)
      <3>1. \A i \in 1..Len(s) : new[s[i]].next = pk[s[i]].next
        BY <1>1, <1>7
      <3> HIDE DEF s
      <3>2. QED  BY <1>1, <3>1, ChainSame
    <2> HIDE DEF s
    <2>2. QED  BY <1>1, <2>1, ChainEnds
  <1>9. UsedOf(new) = UsedOf(pk)
    BY <1>7, SameUse
  <1>10. IsInjective(s) /\ DOMAIN s = 1..L
    BY <1>1, ChainInjective
  <1>11. Complete(new, p)
    <2>1. /\ pk[p].length + pk[p].prepend = SumAlong(UsedOf(pk), s)
          /\ pk[p].last = LastOf(s, L)
          /\ \A i \in 1..(L - 1) : pk[s[i]].used = Room
          /\ \A i \in 2..L : pk[s[i]].used > 0 /\ pk[s[i]].prepend = 0
      BY DEF Complete
    <2>2. new[p].length + new[p].prepend = SumAlong(UsedOf(new), s)
      <3>1. PICK x : x = pk[p].length
        OBVIOUS
      <3>2. x \in Nat /\ x + 0 = SumAlong(UsedOf(pk), s) /\ offset \in Nat
        BY <1>2, <2>1, <3>1, PoolAssumption
      <3>3. new[p].length + new[p].prepend = (x - offset) + offset
        BY <1>4, <3>1
      <3>4. (x - offset) + offset = x + 0
        BY <3>2
      <3>5. QED  BY <1>9, <3>2, <3>3, <3>4
    <2>3. \A i \in 1..(L - 1) : i \in 1..L
      BY <1>1
    <2>4. ASSUME NEW i \in 1..(L - 1) PROVE new[s[i]].used = Room
      BY <1>1, <1>7, <2>1, <2>3
    <2>5. ASSUME NEW i \in 2..L PROVE new[s[i]].used > 0 /\ new[s[i]].prepend = 0
      <3>1. i \in 1..L /\ i # 1
        BY <1>1
      <3>2. s[i] # p
        BY <1>1, <1>10, <3>1 DEF IsInjective
      <3>3. QED  BY <1>1, <1>5, <2>1, <3>1, <3>2
    <2>6. new[p].last = LastOf(s, L)
      BY <1>4, <2>1
    <2>7. QED  BY <1>8, <2>2, <2>4, <2>5, <2>6 DEF Complete
  <1>12. QED  BY <1>5, <1>6, <1>7, <1>8, <1>11
=============================================================================
