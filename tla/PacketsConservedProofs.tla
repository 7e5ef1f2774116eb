----------------------- MODULE PacketsConservedProofs -----------------------
(***************************************************************************)
(* The packets of the pool, for every number of threads, objects and       *)
(* packets, every size of a payload and appends, copies and frames of any  *)
(* size: types, that no chain a reader sees is broken, and that no packet  *)
(* is lost.                                                                *)
(*                                                                         *)
(* The inductive invariant Good says of every caller, at every point of    *)
(* its call, which first packets of chains it has (Owned), which of those  *)
(* chains have data and are complete (Data), how many new packets an       *)
(* append has collected, and how far a copy has come (ThreadOK); of the    *)
(* network, that what it holds is complete (NetOK); and that every         *)
(* allocated packet is on a chain of one of them (AllHeld).  It rests on   *)
(* IInv and OwnInv of PacketPoolProofs: what different holders have is     *)
(* different, so a step of one leaves the chains of the others as they     *)
(* are (ChainUntouched), and a lemma for each action (...Keeps) is about   *)
(* the thread that acts.                                                   *)
(***************************************************************************)
EXTENDS PacketPoolProofs

-----------------------------------------------------------------------------
(* What a thread t in a call c has; ob and pk are the objects and the       *)
(* packets.                                                                *)

(* First packets that objects of t hold; one that is being released has    *)
(* left its object.                                                        *)
OfObjects(ob, t, c) ==
  {h \in Packets : t \in Threads /\ \E o \in ObjectsOf[t] :
                     ob[o] = h /\ ~(c.op = "release" /\ o \in c.obj)}

(* The copy that is being made. *)
OfCopy(c) == {h \in Packets : c.op = "copy" /\ h = c.target}

(* First packets of chains with data. *)
Data(ob, t, c) == OfObjects(ob, t, c) \cup OfCopy(c)

(* All first packets of chains. *)
Owned(ob, t, c) ==
  Data(ob, t, c) \cup {h \in Packets : h = c.list \/ h = c.got \/ h = c.free}

(* An append or a copy is not given up. *)
Busy == {"append", "fill", "copy", "suspended", "allocated"}

(* Which variables are in use when. *)
Sparse(t, c) ==
  /\ c.pc = "idle" \/ c.op = "none" => c = Idle
  /\ t \notin Threads => c.op \in {"none", "stack"}
  /\ c.op = "stack" => c.pc \in {"put", "give"}
  /\ c.op = "allocate" => c.pc \in {"suspended", "allocated"}
  /\ c.got # NoPacket => c.pc = "allocated"
  /\ c.free # NoPacket => c.pc \in {"put", "give"}
  /\ c.list # NoPacket =>
       c.pc \in {"append", "suspended", "allocated"} /\ c.op \in {"append", "copy"} /\ c.target # NoPacket
  /\ c.op \in {"append", "copy"} => c.type = 0
  /\ c.op = "copy" /\ c.target = NoPacket => c.pc \in {"suspended", "allocated", "put", "give"}
  /\ c.op = "append" => c.target # NoPacket

(* The object of a call. *)
Aims(ob, t, c) ==
  /\ c.op = "append" /\ c.pc \in Busy => c.target \in OfObjects(ob, t, c)
  /\ c.op \in {"allocate", "copy", "release"} => \E o \in ObjectsOf[t] : c.obj = {o}
  /\ c.op \in {"allocate", "copy"} => \A o \in c.obj : ob[o] = NoPacket

(* What AvailableBytes is in PacketPool. *)
RoomFor(pk, c) == RoomIn(pk, Behind(pk, c.target)) + RoomIn(pk, Follow(pk, c.list))

(* No more packets are collected than the data needs. *)
Extending(pk, c) ==
  /\ c.list # NoPacket => NewList(pk, c.list)
  /\ c.pc = "append" /\ c.list # NoPacket => c.size > RoomFor(pk, c) - Room
  /\ c.pc \in {"suspended", "allocated"} /\ c.target # NoPacket => c.size > RoomFor(pk, c)
  /\ c.pc = "fill" => Ready(pk, c.target, c.size)

(* What the first n packets of a chain use. *)
UsedUpTo(pk, h, n) == SumAlong(UsedOf(pk), SubSeq(Follow(pk, h), 1, n))

(* The copy has what the packets before the next one to copy use. *)
Copied(pk, c) ==
  /\ c.pc = "copy" =>
       \/ /\ c.source = NoPacket
          /\ pk[c.target].length = UsedUpTo(pk, c.from, Len(Follow(pk, c.from)))
       \/ \E i \in 2..Len(Follow(pk, c.from)) :
            /\ c.source = Follow(pk, c.from)[i]
            /\ pk[c.target].length = UsedUpTo(pk, c.from, i - 1)
  /\ c.pc # "copy" /\ c.target # NoPacket =>
       \E i \in 1..Len(Follow(pk, c.from)) :
         /\ c.source = Follow(pk, c.from)[i]
         /\ pk[c.target].length + c.size = UsedUpTo(pk, c.from, i)
  /\ c.target = NoPacket => c.source = c.from
  /\ c.target # NoPacket => pk[c.target].prepend = 0

(* The source of a copy stays with its object. *)
Copying(pk, ob, t, c) ==
  c.op = "copy" /\ c.pc \in Busy => c.from \in OfObjects(ob, t, c) /\ Copied(pk, c)

(* The invariant of a thread. *)
ThreadOK(pk, ob, t, c) ==
  /\ Sparse(t, c) /\ Aims(ob, t, c)
  /\ \A h \in Owned(ob, t, c) : Ends(pk, h)
  /\ \A h \in Data(ob, t, c) : (c.pc = "fill" /\ h = c.target) \/ Complete(pk, h)
  /\ c.got # NoPacket => pk[c.got] = Fresh(c.type)
  /\ Extending(pk, c) /\ Copying(pk, ob, t, c)

(* What NetX and the driver hold. *)
NetOK == \A h \in received \cup sent : Ends(packet, h) /\ Complete(packet, h)

(* The packet q is on a chain of t. *)
Has(t, q) == \E h \in Owned(object, t, call[t]) : OnChain(packet, h, q)

(* There are no other allocated packets; the pointer of an object that is   *)
(* told to allocate while it holds a packet is lost, with its packets.     *)
AllHeld ==
  ~Careless => \A q \in Packets :
     packet[q].mark = "ALLOCATED" =>
       \/ \E h \in received \cup sent : OnChain(packet, h, q)
       \/ \E t \in Callers : Has(t, q)

(* The types that the other invariants leave open. *)
Typed ==
  /\ noPreempt \subseteq Callers
  /\ packet \in [Packets -> PacketRecord]
  /\ object \in [Objects -> Pointer]
  /\ call \in [Callers -> CallRecord]

(* The inductive invariant. *)
Good ==
  /\ Typed /\ IInv /\ OwnInv
  /\ \A t \in Callers : ThreadOK(packet, object, t, call[t])
  /\ NetOK /\ AllHeld

-----------------------------------------------------------------------------
(* A thread whose packets a step leaves alone.                             *)
LEMMA ReadySame ==
  ASSUME NEW pk \in [Packets -> PacketRecord], NEW new \in [Packets -> PacketRecord], NEW p, Same(pk, new, p),
         NEW size, Ready(pk, p, size)
  PROVE  Ready(new, p, size)
  <1> DEFINE s == Follow(pk, p)
  <1>1. /\ IsChain(pk, s) /\ s \in Seq(Packets) /\ \A i \in 1..Len(s) : new[s[i]] = pk[s[i]]
        /\ Len(s) \in Nat
    BY EndsElements DEF Same, Ends
  <1>2. /\ Follow(new, p) = s /\ new[p] = pk[p]
        /\ SumAlong(UsedOf(new), s) = SumAlong(UsedOf(pk), s)
    BY SameChain
  <1>3. PICK k \in 1..Len(s) : ReadyAt(pk, p, size, k)
    BY DEF Ready
  <1> DEFINE v == SubSeq(s, k, Len(s))
  <1>4. /\ v \in Seq(Packets) /\ Len(v) = Len(s) - k + 1
        /\ \A i \in 1..(Len(s) - k + 1) : v[i] = s[k + i - 1]
    <2> HIDE DEF s
    <2>1. QED  BY <1>1, <1>3, ChainSuffix DEF IsChain
  <1>5. SumAlong(RoomOf(new), v) = SumAlong(RoomOf(pk), v)
    <2>1. \A i \in 1..Len(v) : RoomOf(new)[v[i]] = RoomOf(pk)[v[i]]
      <3> SUFFICES ASSUME NEW i \in 1..Len(v) PROVE RoomOf(new)[v[i]] = RoomOf(pk)[v[i]]
        OBVIOUS
      <3> HIDE DEF v, s
      <3>1. k + i - 1 \in 1..Len(s) /\ v[i] = s[k + i - 1] /\ v[i] \in Packets
        BY <1>1, <1>3, <1>4
      <3>2. new[v[i]] = pk[v[i]]
        BY <1>1, <3>1
      <3>3. QED  BY <3>1, <3>2 DEF RoomOf
    <2> HIDE DEF v
    <2>2. QED  BY <1>4, <2>1, PacketNumbers, SumSame
  <1>6. /\ \A i \in 1..(k - 1) : i \in 1..Len(s)
        /\ \A i \in 2..k : i \in 1..Len(s)
        /\ \A i \in (k + 1)..Len(s) : i \in 1..Len(s)
        /\ \A i \in 2..Len(s) : i \in 1..Len(s)
    <2> HIDE DEF s
    <2>1. QED  BY <1>1, <1>3
  <1>7. ReadyAt(new, p, size, k)
    BY <1>1, <1>2, <1>3, <1>5, <1>6 DEF ReadyAt
  <1>8. QED  BY <1>2, <1>3, <1>7 DEF Ready

(* What the first packets of an untouched chain use is as before. *)
LEMMA UpToSame ==
  ASSUME NEW pk \in [Packets -> PacketRecord], NEW new \in [Packets -> PacketRecord], NEW p, Same(pk, new, p),
         NEW n \in 0..Len(Follow(pk, p))
  PROVE  UsedUpTo(new, p, n) = UsedUpTo(pk, p, n)
  <1> DEFINE s == Follow(pk, p)
             a == SubSeq(s, 1, n)
  <1>1. /\ s \in Seq(Packets) /\ \A i \in 1..Len(s) : s[i] \in Packets /\ new[s[i]] = pk[s[i]]
        /\ Len(s) \in Nat
    BY EndsElements DEF Same
  <1>2. a \in Seq(Packets) /\ Len(a) = n /\ \A i \in 1..n : a[i] = s[i]
    BY <1>1, SubSeqProperties
  <1>3. Follow(new, p) = s
    BY SameChain
  <1>4. \A i \in 1..Len(a) : UsedOf(new)[a[i]] = UsedOf(pk)[a[i]]
    <2> SUFFICES ASSUME NEW i \in 1..Len(a) PROVE UsedOf(new)[a[i]] = UsedOf(pk)[a[i]]
      OBVIOUS
    <2> HIDE DEF a, s
    <2>0. n \in 0..Len(s)
      BY DEF s
    <2>1. i \in 1..Len(s) /\ a[i] = s[i]
      BY <1>1, <1>2, <2>0
    <2>2. QED  BY <1>1, <2>1 DEF UsedOf
  <1>5. SumAlong(UsedOf(new), a) = SumAlong(UsedOf(pk), a)
    <2> HIDE DEF a
    <2>1. QED  BY <1>2, <1>4, PacketNumbers, SumSame
  <1>6. QED  BY <1>3, <1>5 DEF UsedUpTo

(* The room behind a complete chain and in a list is the same when both are. *)
LEMMA RoomForSame ==
  ASSUME NEW pk \in [Packets -> PacketRecord], NEW new \in [Packets -> PacketRecord], NEW c,
         Same(pk, new, c.target), Complete(pk, c.target),
         c.list = NoPacket \/ Same(pk, new, c.list)
  PROVE  RoomFor(new, c) = RoomFor(pk, c)
  <1> DEFINE p == c.target
             s == Follow(pk, p)
             e == s[Len(s)]
  <1>1. /\ Ends(pk, p) /\ Ends(new, p) /\ Follow(new, p) = s /\ Complete(new, p)
    BY SameChain DEF Same
  <1>2. RoomIn(pk, Behind(pk, p)) = Room - pk[e].used /\ RoomIn(new, Behind(new, p)) = Room - new[e].used
    BY <1>1, CompleteBehind
  <1>3. new[e] = pk[e]
    BY <1>1, EndsElements DEF Same
  <1>4. RoomIn(new, Follow(new, c.list)) = RoomIn(pk, Follow(pk, c.list))
    <2>1. CASE c.list = NoPacket
      BY <2>1, FollowNothing
    <2>2. CASE c.list # NoPacket
      <3>1. /\ Follow(new, c.list) = Follow(pk, c.list)
            /\ SumAlong(RoomOf(new), Follow(pk, c.list)) = SumAlong(RoomOf(pk), Follow(pk, c.list))
        BY <2>2, SameChain
      <3>2. \A x, y : RoomIn(x, y) = SumAlong(RoomOf(x), y)
        BY DEF RoomIn, RoomOf
      <3>3. QED  BY <3>1, <3>2
    <2>3. QED  BY <2>1, <2>2
  <1>5. QED  BY <1>2, <1>3, <1>4 DEF RoomFor

(* What is in use is among what the thread owns. *)
LEMMA InUse ==
  ASSUME NEW pk, NEW ob, NEW t, NEW c \in CallRecord, Phases(c), Sparse(t, c), Aims(ob, t, c)
  PROVE  /\ Data(ob, t, c) \subseteq Owned(ob, t, c) /\ Owned(ob, t, c) \subseteq Packets
         /\ OfObjects(ob, t, c) \subseteq Data(ob, t, c)
         /\ c.list # NoPacket => c.list \in Owned(ob, t, c)
         /\ c.got # NoPacket => c.got \in Owned(ob, t, c)
         /\ c.free # NoPacket => c.free \in Owned(ob, t, c)
         /\ c.op = "copy" /\ c.target # NoPacket => c.target \in Data(ob, t, c)
         /\ c.op = "append" /\ c.pc \in Busy => c.target \in Data(ob, t, c)
         /\ c.pc \in {"suspended", "allocated"} /\ c.target # NoPacket => c.target \in Data(ob, t, c)
         /\ c.pc \in {"append", "fill", "copy"} => c.target \in Data(ob, t, c)
         /\ c.list # NoPacket => c.target \in Data(ob, t, c) /\ c.pc # "fill"
  <1>1. c.target \in Pointer /\ c.list \in Pointer /\ c.got \in Pointer /\ c.free \in Pointer
    BY DEF CallRecord
  <1>2. Data(ob, t, c) \subseteq Owned(ob, t, c) /\ Owned(ob, t, c) \subseteq Packets
        /\ OfObjects(ob, t, c) \subseteq Data(ob, t, c)
    BY DEF Owned, Data, OfObjects, OfCopy
  <1>3. /\ c.list # NoPacket => c.list \in Owned(ob, t, c)
        /\ c.got # NoPacket => c.got \in Owned(ob, t, c)
        /\ c.free # NoPacket => c.free \in Owned(ob, t, c)
    BY <1>1 DEF Owned, Pointer
  <1>4. c.op = "copy" /\ c.target # NoPacket => c.target \in Data(ob, t, c)
    BY <1>1 DEF Data, OfCopy, Pointer
  <1>5. c.op = "append" /\ c.pc \in Busy => c.target \in Data(ob, t, c)
    BY <1>2 DEF Aims
  <1>6. c.pc \in {"suspended", "allocated"} /\ c.target # NoPacket => c.target \in Data(ob, t, c)
    BY <1>4, <1>5 DEF Phases, Busy
  <1>7. c.pc \in {"append", "fill", "copy"} => c.target \in Data(ob, t, c)
    BY <1>4, <1>5 DEF Phases, Busy, Sparse
  <1>8. c.list # NoPacket => c.target \in Data(ob, t, c) /\ c.pc # "fill"
    BY <1>4, <1>5 DEF Busy, Sparse
  <1>9. QED  BY <1>2, <1>3, <1>4, <1>5, <1>6, <1>7, <1>8

(* A thread whose packets and objects stay as they are is as it was. *)
LEMMA ThreadSame ==
  ASSUME NEW pk \in [Packets -> PacketRecord], NEW new \in [Packets -> PacketRecord],
         NEW ob, NEW other, NEW t, NEW c \in CallRecord, Phases(c), ThreadOK(pk, ob, t, c),
         \A h \in Owned(ob, t, c) : Same(pk, new, h),
         t \in Threads => \A o \in ObjectsOf[t] : other[o] = ob[o]
  PROVE  ThreadOK(new, other, t, c) /\ Owned(other, t, c) = Owned(ob, t, c)
  <1>1. Sparse(t, c) /\ Aims(ob, t, c) /\ Extending(pk, c) /\ Copying(pk, ob, t, c)
    BY DEF ThreadOK
  <1>2. OfObjects(other, t, c) = OfObjects(ob, t, c)
    BY DEF OfObjects
  <1>3. Data(other, t, c) = Data(ob, t, c) /\ Owned(other, t, c) = Owned(ob, t, c)
    BY <1>2 DEF Data, Owned
  <1>4. /\ Data(ob, t, c) \subseteq Owned(ob, t, c)
        /\ OfObjects(ob, t, c) \subseteq Data(ob, t, c)
        /\ c.list # NoPacket => c.list \in Owned(ob, t, c)
        /\ c.got # NoPacket => c.got \in Owned(ob, t, c)
        /\ c.op = "copy" /\ c.target # NoPacket => c.target \in Data(ob, t, c)
        /\ c.pc \in {"suspended", "allocated"} /\ c.target # NoPacket => c.target \in Data(ob, t, c)
        /\ c.pc \in {"append", "fill", "copy"} => c.target \in Data(ob, t, c)
        /\ c.list # NoPacket => c.target \in Data(ob, t, c) /\ c.pc # "fill"
    BY <1>1, InUse
  <1>5. Aims(other, t, c)
    BY <1>1, <1>2 DEF Aims, Sparse
  <1>6. \A h \in Owned(ob, t, c) :
           /\ Ends(new, h) /\ new[h] = pk[h] /\ Follow(new, h) = Follow(pk, h)
           /\ Complete(pk, h) => Complete(new, h)
           /\ NewList(pk, h) => NewList(new, h)
    BY SameChain
  <1>7. \A h \in Data(other, t, c) : (c.pc = "fill" /\ h = c.target) \/ Complete(new, h)
    BY <1>3, <1>4, <1>6 DEF ThreadOK
  <1>8. c.got # NoPacket => new[c.got] = Fresh(c.type)
    BY <1>4, <1>6 DEF ThreadOK
  <1>9. Extending(new, c)
    <2>1. c.list # NoPacket => NewList(new, c.list)
      BY <1>1, <1>4, <1>6 DEF Extending
    <2>2. ASSUME c.target \in Data(ob, t, c), c.pc # "fill" PROVE RoomFor(new, c) = RoomFor(pk, c)
      <3>1. Same(pk, new, c.target) /\ Complete(pk, c.target)
        BY <1>4, <2>2 DEF ThreadOK
      <3>2. c.list = NoPacket \/ Same(pk, new, c.list)
        BY <1>4
      <3>3. QED  BY <3>1, <3>2, RoomForSame
    <2>3. c.pc = "append" /\ c.list # NoPacket => c.size > RoomFor(new, c) - Room
      BY <1>1, <1>4, <2>2 DEF Extending
    <2>4. c.pc \in {"suspended", "allocated"} /\ c.target # NoPacket => c.size > RoomFor(new, c)
      BY <1>1, <1>4, <2>2 DEF Extending
    <2>5. c.pc = "fill" => Ready(new, c.target, c.size)
      <3>1. c.pc = "fill" => Same(pk, new, c.target) /\ Ready(pk, c.target, c.size)
        BY <1>1, <1>4 DEF Extending
      <3>2. QED  BY <3>1, ReadySame
    <2>6. QED  BY <2>1, <2>3, <2>4, <2>5 DEF Extending
  <1>10. Copying(new, other, t, c)
    <2> SUFFICES ASSUME c.op = "copy", c.pc \in Busy
                 PROVE  c.from \in OfObjects(ob, t, c) /\ Copied(new, c)
      BY <1>2 DEF Copying
    <2>1. c.from \in OfObjects(ob, t, c) /\ Copied(pk, c)
      BY <1>1 DEF Copying
    <2> DEFINE s == Follow(pk, c.from)
    <2>2. Same(pk, new, c.from) /\ Follow(new, c.from) = s /\ Len(s) \in Nat
      BY <1>4, <1>6, <2>1, EndsElements DEF Same
    <2>3. \A n \in 0..Len(s) : UsedUpTo(new, c.from, n) = UsedUpTo(pk, c.from, n)
      BY <2>2, UpToSame
    <2>4. c.target # NoPacket => new[c.target] = pk[c.target]
      BY <1>4, <1>6
    <2>5. c.pc = "copy" => c.target # NoPacket
      BY <1>1 DEF Sparse
    <2>6. /\ Len(s) \in 0..Len(s) /\ \A i \in 2..Len(s) : i - 1 \in 0..Len(s)
          /\ \A i \in 1..Len(s) : i \in 0..Len(s)
      BY <2>2
    <2> HIDE DEF s
    <2>7. QED  BY <2>1, <2>2, <2>3, <2>4, <2>5, <2>6 DEF Copied, s
  <1>11. \A h \in Owned(other, t, c) : Ends(new, h)
    BY <1>3, <1>6
  <1>12. QED  BY <1>1, <1>3, <1>5, <1>7, <1>8, <1>9, <1>10, <1>11 DEF ThreadOK

-----------------------------------------------------------------------------
(* First packets of chains.                                                *)
OwnSlots(t) ==
  {s \in Slots : \/ t \in Threads /\ \E o \in ObjectsOf[t] : s = <<"object", o>>
                 \/ \E f \in Fields : s = <<f, t>>}

(* An object is a slot of its thread. *)
LEMMA ObjectIn ==
  ASSUME OwnInv, NEW t \in Threads, NEW o \in ObjectsOf[t]
  PROVE  /\ o \in Objects /\ <<"object", o>> \in OwnSlots(t) /\ <<"object", o>> \in Slots
         /\ call[t].op = "release" /\ o \in call[t].obj => In(<<"object", o>>) = NoPacket
         /\ ~(call[t].op = "release" /\ o \in call[t].obj) => In(<<"object", o>>) = object[o]
  <1>1. o \in Objects
    BY DEF Objects
  <1>2. ASSUME NEW u \in Threads, o \in call[u].obj PROVE u = t
    <2>1. o \in ObjectsOf[u]
      BY <1>2 DEF OwnInv, Calls, CallOf, Callers
    <2>2. QED  BY <2>1, PoolAssumption
  <1>3. Releases(o) <=> call[t].op = "release" /\ o \in call[t].obj
    BY <1>2 DEF Releases
  <1>4. QED  BY <1>1, <1>3, InObject, AreSlots DEF OwnSlots

(* First packets in objects are in slots of their thread. *)
LEMMA ObjectsIn ==
  ASSUME OwnInv, NEW t \in Callers, NEW h \in OfObjects(object, t, call[t])
  PROVE  h # NoPacket /\ t \in Threads /\ \E o \in ObjectsOf[t] : In(<<"object", o>>) = h
  <1>1. t \in Threads /\ h \in Packets
    BY DEF OfObjects
  <1>2. PICK o \in ObjectsOf[t] : object[o] = h /\ ~(call[t].op = "release" /\ o \in call[t].obj)
    BY DEF OfObjects
  <1>3. QED  BY <1>1, <1>2, ObjectIn, PoolAssumption

(* The variables of a call are slots of its thread. *)
LEMMA CallIn ==
  ASSUME NEW t \in Callers
  PROVE  /\ \A f \in Fields : <<f, t>> \in OwnSlots(t) /\ <<f, t>> \in Slots
         /\ In(<<"list", t>>) = call[t].list /\ In(<<"got", t>>) = call[t].got
         /\ In(<<"free", t>>) = call[t].free
         /\ call[t].op = "copy" => In(<<"target", t>>) = call[t].target
  BY AreSlots, InCall DEF OwnSlots, Fields, Local

(* What a thread has is in one of its slots. *)
LEMMA OwnedIn ==
  ASSUME OwnInv, NEW t \in Callers, NEW h \in Owned(object, t, call[t])
  PROVE  h # NoPacket /\ \E s \in OwnSlots(t) : In(s) = h
  <1>1. h \in Packets /\ h # NoPacket
    BY PoolAssumption DEF Owned, Data, OfObjects, OfCopy
  <1>2. CASE h \in OfObjects(object, t, call[t])
    BY <1>2, ObjectsIn, ObjectIn
  <1>3. CASE h \in OfCopy(call[t])
    BY <1>1, <1>3, CallIn DEF OfCopy, Fields
  <1>4. CASE h = call[t].list \/ h = call[t].got \/ h = call[t].free
    BY <1>1, <1>4, CallIn DEF Fields
  <1>5. QED  BY <1>1, <1>2, <1>3, <1>4 DEF Owned, Data

(* Slots of different threads, and those of the network, are different. *)
LEMMA SlotsApart ==
  ASSUME NEW t \in Callers, NEW s \in OwnSlots(t)
  PROVE  /\ s \in Slots /\ \A k \in Kinds : \A p : s # <<k, p>>
         /\ \A u \in Callers : u # t => s \notin OwnSlots(u)
  <1>1. s \in Slots /\ "object" \notin Fields /\ "object" \notin Kinds /\ \A f \in Fields : f \notin Kinds
    BY DEF OwnSlots, Fields, Kinds
  <1>2. CASE t \in Threads /\ \E o \in ObjectsOf[t] : s = <<"object", o>>
    <2>1. PICK o \in ObjectsOf[t] : s = <<"object", o>>
      BY <1>2
    <2>2. \A u \in Threads : u # t => o \notin ObjectsOf[u]
      BY <1>2, PoolAssumption
    <2>3. QED  BY <1>1, <2>1, <2>2 DEF OwnSlots
  <1>3. CASE \E f \in Fields : s = <<f, t>>
    <2>1. PICK f \in Fields : s = <<f, t>>
      BY <1>3
    <2>2. QED  BY <1>1, <2>1 DEF OwnSlots
  <1>4. QED  BY <1>2, <1>3 DEF OwnSlots

(* First packets of the chains that somebody has. *)
IsHead(h) == h \in received \cup sent \/ \E t \in Callers : h \in Owned(object, t, call[t])

(* The link of a packet is a slot. *)
LEMMA LinkIn ==
  ASSUME OwnInv, NEW p \in Packets
  PROVE  <<"next", p>> \in Slots /\ In(<<"next", p>>) = packet[p].next
  BY AreSlots, InKind DEF Kinds

(* A first packet is in a slot that is no link and not the pool. *)
LEMMA HeadIn ==
  ASSUME OwnInv, NEW h, IsHead(h)
  PROVE  h # NoPacket /\ \E s \in Slots : In(s) = h /\ s[1] # "pool" /\ \A p : s # <<"next", p>>
  <1>1. CASE h \in received
    <2>1. h \in Packets /\ h # NoPacket
      BY <1>1, PoolAssumption DEF OwnInv, Stack
    <2>2. <<"received", h>> \in Slots /\ In(<<"received", h>>) = h
      BY <1>1, <2>1, AreSlots, InKind DEF Kinds
    <2>3. QED  BY <2>1, <2>2
  <1>2. CASE h \in sent
    <2>1. h \in Packets /\ h # NoPacket
      BY <1>2, PoolAssumption DEF OwnInv, Stack
    <2>2. <<"sent", h>> \in Slots /\ In(<<"sent", h>>) = h
      BY <1>2, <2>1, AreSlots, InKind DEF Kinds
    <2>3. QED  BY <2>1, <2>2
  <1>3. ASSUME NEW t \in Callers, h \in Owned(object, t, call[t])
        PROVE  h # NoPacket /\ \E s \in Slots : In(s) = h /\ s[1] # "pool" /\ \A p : s # <<"next", p>>
    <2>1. PICK s \in OwnSlots(t) : In(s) = h
      BY <1>3, OwnedIn
    <2>2. s \in Slots /\ \A k \in Kinds : \A p : s # <<k, p>>
      BY <2>1, SlotsApart
    <2>3. s[1] # "pool"
      BY <2>2, EachSlot DEF Kinds, Fields
    <2>4. QED  BY <1>3, <2>1, <2>2, <2>3, OwnedIn DEF Kinds
  <1>4. QED  BY <1>1, <1>2, <1>3 DEF IsHead

(* No packet links to a first one, and no two to the same. *)
LEMMA LinksApart ==
  ASSUME OwnInv
  PROVE  OneBefore(packet) /\ \A h : IsHead(h) => NoneBefore(packet, h)
  <1>1. OneBefore(packet)
    <2> SUFFICES ASSUME NEW p \in Packets, NEW q \in Packets, packet[p].next = packet[q].next,
                        packet[p].next # NoPacket
                 PROVE  p = q
      BY DEF OneBefore
    <2>1. <<"next", p>> = <<"next", q>>
      BY LinkIn DEF OwnInv, Exclusive
    <2>2. QED  BY <2>1
  <1>2. ASSUME NEW h, IsHead(h), NEW p \in Packets, packet[p].next = h
        PROVE  FALSE
    <2>1. PICK s \in Slots : In(s) = h /\ s # <<"next", p>>
      BY <1>2, HeadIn
    <2>2. h # NoPacket
      BY <1>2, HeadIn
    <2>3. <<"next", p>> \in Slots /\ In(<<"next", p>>) = h
      BY <1>2, LinkIn
    <2>4. QED  BY <2>1, <2>2, <2>3 DEF OwnInv, Exclusive
  <1>3. QED  BY <1>1, <1>2 DEF NoneBefore

(* All chains end. *)
LEMMA HeadEnds ==
  ASSUME Good, NEW h, IsHead(h)
  PROVE  Ends(packet, h)
  BY DEF Good, IsHead, NetOK, ThreadOK

(* All packets of a chain are marked as allocated. *)
LEMMA ChainAllocated ==
  ASSUME Good, NEW h, IsHead(h), NEW q, OnChain(packet, h, q)
  PROVE  q \in Packets /\ packet[q].mark = "ALLOCATED"
  <1> DEFINE s == Follow(packet, h)
  <1>1. OwnInv /\ Exclusive /\ PacketShape
    BY DEF Good, OwnInv
  <1>2. /\ IsChain(packet, s) /\ s[1] = h /\ Len(s) \in Nat \ {0}
        /\ \A i \in 1..Len(s) : s[i] \in Packets
    BY HeadEnds, EndsElements DEF Ends
  <1>3. PICK i \in 1..Len(s) : s[i] = q
    BY DEF OnChain
  <1> HIDE DEF s
  <1>4. q \in Packets /\ q # NoPacket
    BY <1>2, <1>3, PoolAssumption
  <1>5. CASE i = 1
    <2>1. PICK r \in Slots : In(r) = h /\ r[1] # "pool"
      BY <1>1, HeadIn
    <2>2. In(r) = q
      BY <1>2, <1>3, <1>5, <2>1
    <2>3. QED  BY <1>1, <1>4, <2>1, <2>2, NotFree
  <1>6. CASE i > 1
    <2>1. i - 1 \in 1..(Len(s) - 1) /\ i - 1 \in 1..Len(s) /\ (i - 1) + 1 = i
      BY <1>2, <1>6
    <2>2. s[i - 1] \in Packets /\ packet[s[i - 1]].next = q
      BY <1>2, <1>3, <2>1 DEF IsChain
    <2>3. /\ <<"next", s[i - 1]>> \in Slots /\ In(<<"next", s[i - 1]>>) = q
          /\ <<"next", s[i - 1]>>[1] # "pool"
      BY <1>1, <2>2, LinkIn
    <2>4. QED  BY <1>1, <1>4, <2>3, NotFree
  <1>7. QED  BY <1>2, <1>5, <1>6

(* Two chains have no packet in common. *)
LEMMA HeadsApart ==
  ASSUME Good, NEW g, IsHead(g), NEW h, IsHead(h), g # h
  PROVE  \A q : ~(OnChain(packet, g, q) /\ OnChain(packet, h, q))
  <1>1. /\ IsChain(packet, Follow(packet, g)) /\ Follow(packet, g)[1] = g
        /\ IsChain(packet, Follow(packet, h)) /\ Follow(packet, h)[1] = h
    BY HeadEnds DEF Ends
  <1>2. OneBefore(packet) /\ NoneBefore(packet, g) /\ NoneBefore(packet, h)
    BY LinksApart DEF Good
  <1>3. \A i \in 1..Len(Follow(packet, g)), j \in 1..Len(Follow(packet, h)) :
           Follow(packet, g)[i] # Follow(packet, h)[j]
    BY <1>1, <1>2, ChainsDisjoint
  <1>4. QED  BY <1>3 DEF OnChain

(* What different threads have is different, and not with the network. *)
LEMMA OwnersApart ==
  ASSUME OwnInv, NEW t \in Callers, NEW h \in Owned(object, t, call[t])
  PROVE  /\ h \notin received \cup sent
         /\ \A u \in Callers : u # t => h \notin Owned(object, u, call[u])
  <1>1. Exclusive
    BY DEF OwnInv
  <1>2. PICK s \in OwnSlots(t) : In(s) = h
    BY OwnedIn
  <1>3. h # NoPacket
    BY OwnedIn
  <1>4. s \in Slots /\ \A k \in Kinds : \A p : s # <<k, p>>
    BY SlotsApart
  <1>5. h \notin received
    <2> SUFFICES ASSUME h \in received PROVE FALSE
      OBVIOUS
    <2>1. <<"received", h>> \in Slots /\ In(<<"received", h>>) = h
      BY AreSlots, InKind DEF Kinds, OwnInv, Stack
    <2>2. QED  BY <1>1, <1>2, <1>3, <1>4, <2>1 DEF Exclusive, Kinds
  <1>6. h \notin sent
    <2> SUFFICES ASSUME h \in sent PROVE FALSE
      OBVIOUS
    <2>1. <<"sent", h>> \in Slots /\ In(<<"sent", h>>) = h
      BY AreSlots, InKind DEF Kinds, OwnInv, Stack
    <2>2. QED  BY <1>1, <1>2, <1>3, <1>4, <2>1 DEF Exclusive, Kinds
  <1>7. ASSUME NEW u \in Callers, u # t, h \in Owned(object, u, call[u]) PROVE FALSE
    <2>1. PICK r \in OwnSlots(u) : In(r) = h
      BY <1>7, OwnedIn
    <2>2. r \in Slots /\ s \notin OwnSlots(u)
      BY <1>7, <2>1, SlotsApart
    <2>3. QED  BY <1>1, <1>2, <1>3, <1>4, <2>1, <2>2 DEF Exclusive
  <1>8. QED  BY <1>5, <1>6, <1>7

(* What a thread has in different places is different. *)
Distinct(ob, t, c) ==
  /\ c.list # NoPacket => c.list \notin Data(ob, t, c) /\ c.list # c.got /\ c.list # c.free
  /\ c.got # NoPacket => c.got \notin Data(ob, t, c) /\ c.got # c.free
  /\ c.free # NoPacket => c.free \notin Data(ob, t, c)
  /\ c.op = "copy" /\ c.target # NoPacket => c.target \notin OfObjects(ob, t, c)

(* A thread has a packet in one place only. *)
LEMMA OwnDistinct ==
  ASSUME OwnInv, NEW t \in Callers
  PROVE  Distinct(object, t, call[t])
  <1> DEFINE c == call[t]
  <1>1. Exclusive
    BY DEF OwnInv
  <1>2. /\ \A f \in Fields : <<f, t>> \in Slots
        /\ In(<<"list", t>>) = c.list /\ In(<<"got", t>>) = c.got /\ In(<<"free", t>>) = c.free
        /\ c.op = "copy" => In(<<"target", t>>) = c.target
    BY CallIn
  <1>3. \A f, g \in Fields : In(<<f, t>>) = In(<<g, t>>) /\ In(<<f, t>>) # NoPacket => f = g
    BY <1>1, <1>2 DEF Exclusive
  <1>4. ASSUME NEW f \in Fields, In(<<f, t>>) \in OfObjects(object, t, c) PROVE FALSE
    <2>1. PICK o \in ObjectsOf[t] : In(<<"object", o>>) = In(<<f, t>>)
      BY <1>4, ObjectsIn
    <2>2. t \in Threads /\ In(<<f, t>>) # NoPacket
      BY <1>4, ObjectsIn
    <2>3. <<"object", o>> \in Slots
      BY <2>1, <2>2, ObjectIn
    <2>4. <<"object", o>> = <<f, t>>
      BY <1>1, <1>2, <2>1, <2>2, <2>3 DEF Exclusive
    <2>5. QED  BY <2>4 DEF Fields
  <1>5. "target" \in Fields /\ "list" \in Fields /\ "got" \in Fields /\ "free" \in Fields
    BY DEF Fields
  <1>6. /\ c.list \notin OfObjects(object, t, c) /\ c.got \notin OfObjects(object, t, c)
        /\ c.free \notin OfObjects(object, t, c)
        /\ c.op = "copy" => c.target \notin OfObjects(object, t, c)
    BY <1>2, <1>4, <1>5
  <1>7. /\ c.list # NoPacket => c.list # c.got /\ c.list # c.free
        /\ c.got # NoPacket => c.got # c.free
    BY <1>2, <1>3, <1>5
  <1>8. c.op = "copy" =>
          /\ c.list # NoPacket => c.list # c.target
          /\ c.got # NoPacket => c.got # c.target
          /\ c.free # NoPacket => c.free # c.target
    BY <1>2, <1>3, <1>5
  <1> HIDE DEF c
  <1>9. QED  BY <1>6, <1>7, <1>8 DEF Distinct, Data, OfCopy, c

-----------------------------------------------------------------------------
(* A step of the callers W changes only packets that were free or are on    *)
(* their chains.                                                           *)
Acts(W) ==
  /\ packet' \in [Packets -> PacketRecord]
  /\ \A u \in Callers \ W :
       /\ call'[u] = call[u]
       /\ u \in Threads => \A o \in ObjectsOf[u] : object'[o] = object[o]
  /\ \A q \in Packets :
       packet'[q] = packet[q] \/ packet[q].mark = "FREE" \/ \E w \in W : Has(w, q)

(* The chains of who does not act stay as they are. *)
LEMMA ChainUntouched ==
  ASSUME Good, NEW W \in SUBSET Callers, Acts(W), NEW h, IsHead(h),
         \A w \in W : h \notin Owned(object, w, call[w])
  PROVE  Same(packet, packet', h)
  <1> DEFINE s == Follow(packet, h)
  <1>1. Ends(packet, h)
    BY HeadEnds
  <1>2. ASSUME NEW i \in 1..Len(s) PROVE packet'[s[i]] = packet[s[i]]
    <2>1. OnChain(packet, h, s[i])
      BY DEF OnChain
    <2>2. s[i] \in Packets /\ packet[s[i]].mark = "ALLOCATED"
      BY <2>1, ChainAllocated
    <2>3. ASSUME NEW w \in W, Has(w, s[i]) PROVE FALSE
      <3>1. PICK g \in Owned(object, w, call[w]) : OnChain(packet, g, s[i])
        BY <2>3 DEF Has
      <3>2. IsHead(g) /\ g # h
        BY <3>1 DEF IsHead
      <3>3. QED  BY <2>1, <3>1, <3>2, HeadsApart
    <2>4. QED  BY <2>2, <2>3 DEF Acts
  <1>3. QED  BY <1>1, <1>2 DEF Same

(* Who does not act keeps what it has. *)
LEMMA OthersKeep ==
  ASSUME Good, NEW W \in SUBSET Callers, Acts(W)
  PROVE  /\ \A u \in Callers \ W :
              /\ ThreadOK(packet', object', u, call'[u])
              /\ \A q : Has(u, q) => Has(u, q)'
         /\ \A h \in received \cup sent :
              /\ Ends(packet', h) /\ Complete(packet', h)
              /\ \A q : OnChain(packet, h, q) => OnChain(packet', h, q)
  <1>1. OwnInv /\ packet \in [Packets -> PacketRecord] /\ packet' \in [Packets -> PacketRecord]
    BY DEF Good, Typed, Acts
  <1>2. \A h : Same(packet, packet', h) =>
           /\ Follow(packet', h) = Follow(packet, h) /\ Ends(packet', h)
           /\ Complete(packet, h) => Complete(packet', h)
    BY <1>1, SameChain
  <1>3. \A h : Same(packet, packet', h) => \A q : OnChain(packet, h, q) => OnChain(packet', h, q)
    BY <1>2 DEF OnChain
  <1>4. ASSUME NEW u \in Callers \ W
        PROVE  /\ ThreadOK(packet', object', u, call'[u])
               /\ \A q : Has(u, q) => Has(u, q)'
    <2>1. ASSUME NEW h \in Owned(object, u, call[u]) PROVE Same(packet, packet', h)
      <3>1. IsHead(h) /\ \A w \in W : h \notin Owned(object, w, call[w])
        BY <1>1, OwnersApart DEF IsHead
      <3>2. QED  BY <3>1, ChainUntouched
    <2>2. /\ call[u] \in CallRecord /\ Phases(call[u]) /\ ThreadOK(packet, object, u, call[u])
          /\ call'[u] = call[u] /\ (u \in Threads => \A o \in ObjectsOf[u] : object'[o] = object[o])
      BY DEF Good, Typed, OwnInv, Calls, CallOf, Acts
    <2>3. PICK pk, new, ob, other, c :
             pk = packet /\ new = packet' /\ ob = object /\ other = object' /\ c = call[u]
      OBVIOUS
    <2>4. ThreadOK(new, other, u, c) /\ Owned(other, u, c) = Owned(ob, u, c)
      <3>1. /\ pk \in [Packets -> PacketRecord] /\ new \in [Packets -> PacketRecord] /\ c \in CallRecord
            /\ Phases(c) /\ ThreadOK(pk, ob, u, c) /\ \A h \in Owned(ob, u, c) : Same(pk, new, h)
            /\ u \in Threads => \A o \in ObjectsOf[u] : other[o] = ob[o]
        BY <1>1, <2>1, <2>2, <2>3
      <3>2. QED  BY <3>1, ThreadSame
    <2>5. ThreadOK(packet', object', u, call'[u]) /\ Owned(object', u, call'[u]) = Owned(object, u, call[u])
      BY <2>2, <2>3, <2>4
    <2>6. ASSUME NEW q, Has(u, q) PROVE Has(u, q)'
      <3>1. PICK h \in Owned(object, u, call[u]) : OnChain(packet, h, q)
        BY <2>6 DEF Has
      <3>2. h \in Owned(object', u, call'[u]) /\ OnChain(packet', h, q)
        BY <1>3, <2>1, <2>5, <3>1
      <3>3. QED  BY <3>2 DEF Has
    <2>7. QED  BY <2>5, <2>6
  <1>5. ASSUME NEW h \in received \cup sent
        PROVE  /\ Ends(packet', h) /\ Complete(packet', h)
               /\ \A q : OnChain(packet, h, q) => OnChain(packet', h, q)
    <2>1. IsHead(h) /\ \A w \in W : h \notin Owned(object, w, call[w])
      BY <1>1, OwnersApart DEF IsHead
    <2>2. Same(packet, packet', h) /\ Complete(packet, h)
      BY <2>1, ChainUntouched DEF Good, NetOK
    <2>3. QED  BY <1>2, <1>3, <2>2
  <1>6. QED  BY <1>4, <1>5

Somewhere(q) ==
  (\E h \in received \cup sent : OnChain(packet, h, q)) \/ \E t \in Callers : Has(t, q)

(* What has to be shown of a step of the callers W. *)
LEMMA GoodNext ==
  ASSUME Good, NEW W \in SUBSET Callers, Acts(W), IInv', OwnInv',
         noPreempt' \subseteq Callers, object' \in [Objects -> Pointer], call' \in [Callers -> CallRecord],
         \A w \in W : ThreadOK(packet', object', w, call'[w]),
         \A h \in received' \cup sent' :
           h \in received \cup sent \/ (Ends(packet', h) /\ Complete(packet', h)),
         ~Careless => \A q \in Packets :
           packet'[q].mark = "ALLOCATED" =>
             /\ packet[q].mark = "FREE" => Somewhere(q)'
             /\ \A w \in W : Has(w, q) => Somewhere(q)'
             /\ \A h \in received \cup sent :
                  OnChain(packet, h, q) /\ h \notin received' \cup sent' => Somewhere(q)'
  PROVE  Good'
  <1>1. \A t \in Callers : ThreadOK(packet', object', t, call'[t])
    <2>1. \A u \in Callers \ W : ThreadOK(packet', object', u, call'[u])
      BY OthersKeep
    <2>2. QED  BY <2>1
  <1>2. NetOK'
    <2>1. \A h \in received \cup sent : Ends(packet', h) /\ Complete(packet', h)
      BY OthersKeep
    <2>2. QED  BY <2>1 DEF NetOK
  <1>3. AllHeld'
    <2> SUFFICES ASSUME ~Careless, NEW q \in Packets, packet'[q].mark = "ALLOCATED"
                 PROVE  Somewhere(q)'
      BY DEF AllHeld, Somewhere
    <2>1. CASE packet[q].mark = "FREE"
      BY <2>1
    <2>2. CASE packet[q].mark # "FREE"
      <3>1. packet[q].mark = "ALLOCATED"
        BY <2>2 DEF Good, OwnInv, PacketShape, Mark
      <3>2. CASE \E h \in received \cup sent : OnChain(packet, h, q)
        <4>1. PICK h \in received \cup sent : OnChain(packet, h, q)
          BY <3>2
        <4>2. OnChain(packet', h, q)
          BY <4>1, OthersKeep
        <4>3. QED  BY <4>1, <4>2 DEF Somewhere
      <3>3. ASSUME NEW t \in Callers, Has(t, q) PROVE Somewhere(q)'
        <4>1. CASE t \in W
          BY <3>3, <4>1
        <4>2. CASE t \notin W
          <5>1. Has(t, q)'
            BY <3>3, <4>2, OthersKeep
          <5>2. QED  BY <5>1 DEF Somewhere
        <4>3. QED  BY <4>1, <4>2
      <3>4. QED  BY <3>1, <3>2, <3>3 DEF Good, AllHeld
    <2>3. QED  BY <2>1, <2>2
  <1>4. Typed'
    BY DEF Typed, Acts
  <1>5. QED  BY <1>1, <1>2, <1>3, <1>4 DEF Good

-----------------------------------------------------------------------------
(* A call goes on. *)
LEMMA CallTyped ==
  ASSUME Good, NEW t \in Callers, NEW d \in CallRecord, Goes(t, d)
  PROVE  /\ call' \in [Callers -> CallRecord] /\ call'[t] = d
         /\ \A u \in Callers \ {t} : call'[u] = call[u]
  BY DEF Good, Typed, Goes

(* All packets stay as they are, and none is dropped. *)
LEMMA NoPacketMoves ==
  ASSUME Good, NEW t \in Callers, NEW d \in CallRecord, Goes(t, d), packet' = packet, IInv', OwnInv',
         noPreempt' \subseteq Callers, object' \in [Objects -> Pointer],
         \A u \in Threads \ {t} : \A o \in ObjectsOf[u] : object'[o] = object[o],
         ThreadOK(packet, object', t, d),
         \A h \in received' \cup sent' :
           h \in received \cup sent \/ (Ends(packet, h) /\ Complete(packet, h)),
         ~Careless => \A h \in Owned(object, t, call[t]) \cup received \cup sent :
           h \in received' \cup sent' \/ h \in Owned(object', t, d)
  PROVE  Good'
  <1>1. /\ call' \in [Callers -> CallRecord] /\ call'[t] = d
        /\ \A u \in Callers \ {t} : call'[u] = call[u]
    BY CallTyped
  <1> DEFINE W == {t}
  <1>2. W \in SUBSET Callers /\ Acts(W)
    BY <1>1 DEF Acts, Good, Typed
  <1>3. ~Careless =>
          \A h \in Owned(object, t, call[t]) \cup received \cup sent :
            \A q : OnChain(packet, h, q) => Somewhere(q)'
    BY <1>1 DEF Somewhere, Has
  <1>4. ~Careless => \A q \in Packets :
           packet'[q].mark = "ALLOCATED" =>
             /\ packet[q].mark = "FREE" => Somewhere(q)'
             /\ \A w \in W : Has(w, q) => Somewhere(q)'
             /\ \A h \in received \cup sent :
                  OnChain(packet, h, q) /\ h \notin received' \cup sent' => Somewhere(q)'
    BY <1>3 DEF Has
  <1>5. \A w \in W : ThreadOK(packet', object', w, call'[w])
    BY <1>1
  <1>6. \A h \in received' \cup sent' :
           h \in received \cup sent \/ (Ends(packet', h) /\ Complete(packet', h))
    OBVIOUS
  <1> HIDE DEF W
  <1>7. QED  BY <1>1, <1>2, <1>4, <1>5, <1>6, GoodNext

(* A thread that waited goes on, with the packet f or with none. *)
Gets(c, d, f) ==
  /\ d \in CallRecord /\ d.pc = "allocated" /\ d.got = f
  /\ d.op = c.op /\ d.obj = c.obj /\ d.type = c.type /\ d.size = c.size /\ d.target = c.target
  /\ d.source = c.source /\ d.from = c.from /\ d.list = c.list /\ d.free = c.free

Serves(pk, ob, t, c, d, f) ==
  /\ t \in Threads /\ c.pc = "suspended" /\ ThreadOK(pk, ob, t, c) /\ Gets(c, d, f)
  /\ f = NoPacket \/ (f \in Packets /\ pk[f] = Fresh(c.type))

(* A thread that waited gets the packet f, or none. *)
LEMMA ThreadGets ==
  ASSUME NEW pk, NEW ob, NEW t, NEW c, NEW d, NEW f, Serves(pk, ob, t, c, d, f)
  PROVE  /\ ThreadOK(pk, ob, t, d)
         /\ \A h : h \in Owned(ob, t, d) <=> h \in Owned(ob, t, c) \/ (h \in Packets /\ h = f)
  <1>1. /\ d \in CallRecord /\ d.pc = "allocated" /\ d.got = f
        /\ d.op = c.op /\ d.obj = c.obj /\ d.type = c.type /\ d.size = c.size /\ d.target = c.target
        /\ d.source = c.source /\ d.from = c.from /\ d.list = c.list /\ d.free = c.free
    BY DEF Gets, Serves
  <1>a. /\ t \in Threads /\ c.pc = "suspended" /\ ThreadOK(pk, ob, t, c)
        /\ f = NoPacket \/ (f \in Packets /\ pk[f] = Fresh(c.type))
    BY DEF Serves
  <1>2. Sparse(t, c) /\ Aims(ob, t, c) /\ Extending(pk, c) /\ Copying(pk, ob, t, c)
    BY <1>a DEF ThreadOK
  <1>3. c.got = NoPacket /\ c.op # "none" /\ c.op # "stack"
    BY <1>a, <1>2 DEF Sparse, Idle
  <1>4. Data(ob, t, d) = Data(ob, t, c) /\ OfObjects(ob, t, d) = OfObjects(ob, t, c)
    BY <1>a, <1>1 DEF Data, OfObjects, OfCopy
  <1>5. \A h : h \in Owned(ob, t, d) <=> h \in Owned(ob, t, c) \/ (h \in Packets /\ h = f)
    BY <1>a, <1>1, <1>3, <1>4, PoolAssumption DEF Owned
  <1>6. Sparse(t, d)
    BY <1>a, <1>1, <1>2, <1>3 DEF Sparse
  <1>7. Aims(ob, t, d)
    BY <1>a, <1>1, <1>2, <1>4 DEF Aims, Busy
  <1>8. f \in Packets /\ pk[f] = Fresh(c.type) => Ends(pk, f)
    <2>1. Fresh(c.type).next = NoPacket
      BY <1>a DEF Fresh
    <2>2. QED  BY <1>a, <2>1, OneEnds
  <1>9. \A h \in Owned(ob, t, d) : Ends(pk, h)
    BY <1>a, <1>5, <1>8, PoolAssumption DEF ThreadOK
  <1>10. \A h \in Data(ob, t, d) : (d.pc = "fill" /\ h = d.target) \/ Complete(pk, h)
    BY <1>a, <1>4 DEF ThreadOK
  <1>11. d.got # NoPacket => pk[d.got] = Fresh(d.type)
    BY <1>a, <1>1
  <1>12. RoomFor(pk, d) = RoomFor(pk, c)
    BY <1>a, <1>1 DEF RoomFor
  <1>13. Extending(pk, d)
    BY <1>a, <1>1, <1>2, <1>12 DEF Extending
  <1>14. Copying(pk, ob, t, d)
    <2>1. Copied(pk, c) => Copied(pk, d)
      BY <1>a, <1>1 DEF Copied
    <2>2. QED  BY <1>a, <1>1, <1>2, <1>4, <2>1 DEF Copying, Busy
  <1>15. QED  BY <1>a, <1>2, <1>5, <1>6, <1>7, <1>9, <1>10, <1>11, <1>13, <1>14 DEF ThreadOK

(* A call that waits for a packet, or has the answer of _nx_packet_allocate, is typed. *)
LEMMA EnterAllocated ==
  ASSUME NEW c \in CallRecord, NEW f \in Pointer,
         c.got = NoPacket
  PROVE  /\ [c EXCEPT !.pc = "suspended"] \in CallRecord
         /\ [c EXCEPT !.pc = "suspended"].pc = "suspended"
         /\ [c EXCEPT !.pc = "suspended"].type = c.type
         /\ [c EXCEPT !.pc = "allocated", !.got = f] \in CallRecord
         /\ Gets([c EXCEPT !.pc = "suspended"], [c EXCEPT !.pc = "allocated", !.got = f], f)
         /\ Gets([c EXCEPT !.pc = "suspended"], [c EXCEPT !.pc = "allocated"], NoPacket)
         /\ c.pc = "suspended" =>
              /\ Gets(c, [c EXCEPT !.pc = "allocated"], NoPacket)
              /\ Gets(c, [c EXCEPT !.pc = "allocated", !.got = f], f)
  BY DEF CallRecord, Gets

(* A packet from the pool is in no chain. *)
LEMMA TakenKeeps ==
  ASSUME Good, NEW f \in Packets, packet[f].mark = "FREE", NEW q \in PacketRecord,
         packet' = [packet EXCEPT ![f] = q]
  PROVE  /\ packet' \in [Packets -> PacketRecord] /\ packet'[f] = q
         /\ \A h : IsHead(h) => Same(packet, packet', h)
  <1>1. /\ packet' \in [Packets -> PacketRecord] /\ packet'[f] = q
        /\ \A p \in Packets : p # f => packet'[p] = packet[p]
    BY DEF Good, Typed
  <1>2. ASSUME NEW h, IsHead(h) PROVE Same(packet, packet', h)
    <2>1. Ends(packet, h)
      BY <1>2, HeadEnds
    <2>2. ASSUME NEW i \in 1..Len(Follow(packet, h))
          PROVE  packet'[Follow(packet, h)[i]] = packet[Follow(packet, h)[i]]
      <3>1. OnChain(packet, h, Follow(packet, h)[i])
        BY DEF OnChain
      <3>2. Follow(packet, h)[i] \in Packets /\ Follow(packet, h)[i] # f
        BY <1>2, <3>1, ChainAllocated
      <3>3. QED  BY <1>1, <3>2
    <2>3. QED  BY <2>1, <2>2 DEF Same
  <1>3. QED  BY <1>1, <1>2

(* What a packet looks like that is handed out. *)
LEMMA Freshly ==
  ASSUME NEW n \in Offsets \cup {0}
  PROVE  Fresh(n) \in PacketRecord /\ Fresh(n).next = NoPacket /\ Fresh(n).mark = "ALLOCATED"
  BY PoolAssumption DEF Fresh, PacketRecord, Mark, Pointer

(* The first packet of a chain is on it. *)
LEMMA OnItself ==
  ASSUME NEW pk, NEW h, Ends(pk, h)
  PROVE  OnChain(pk, h, h)
  BY EndsElements DEF OnChain

(* A thread that got the first free packet. *)
LEMMA TakeKeeps ==
  ASSUME Good, NEW t \in Threads, NEW c \in CallRecord, c.got = NoPacket, Take(t, c),
         received' = received, sent' = sent, object' \in [Objects -> Pointer],
         \A u \in Threads \ {t} : \A o \in ObjectsOf[u] : object'[o] = object[o],
         NEW e, e = [c EXCEPT !.pc = "suspended"], Phases(e), ThreadOK(packet, object', t, e),
         Owned(object', t, e) \subseteq Owned(object, t, call[t]),
         ~Careless => Owned(object, t, call[t]) \subseteq Owned(object', t, e),
         IInv', OwnInv'
  PROVE  Good'
  <1>1. PICK f : f = Head(available)
    OBVIOUS
  <1>2. PICK d : d = [c EXCEPT !.pc = "allocated", !.got = f]
    OBVIOUS
  <1>3. /\ available # <<>> /\ packet' = [packet EXCEPT ![f] = Fresh(c.type)]
        /\ Goes(t, d) /\ noPreempt' = noPreempt
    BY <1>1, <1>2 DEF Take, queueVars
  <1>4. t \in Callers /\ OwnInv /\ packet \in [Packets -> PacketRecord] /\ noPreempt \subseteq Callers
    BY DEF Good, Typed, Callers
  <1>5. f \in Packets /\ f \in Pointer /\ packet[f].mark = "FREE"
    BY <1>1, <1>3, <1>4, FirstFree DEF OwnInv, Pointer
  <1>6. Fresh(c.type) \in PacketRecord /\ Fresh(c.type).next = NoPacket
    BY Freshly DEF CallRecord
  <1>7. /\ packet' \in [Packets -> PacketRecord] /\ packet'[f] = Fresh(c.type)
        /\ \A h : IsHead(h) => Same(packet, packet', h)
    BY <1>3, <1>5, <1>6, TakenKeeps
  <1>8. /\ e \in CallRecord /\ e.pc = "suspended" /\ e.type = c.type /\ d \in CallRecord /\ Gets(e, d, f)
    BY <1>2, <1>5, EnterAllocated
  <1>9. /\ call' \in [Callers -> CallRecord] /\ call'[t] = d
        /\ \A u \in Callers \ {t} : call'[u] = call[u]
    BY <1>3, <1>4, <1>8, CallTyped
  <1>10. \A h \in Owned(object', t, e) : Same(packet, packet', h)
    BY <1>4, <1>7 DEF IsHead
  <1>11. PICK pk, new, ob : pk = packet /\ new = packet' /\ ob = object'
    OBVIOUS
  <1>12. ThreadOK(new, ob, t, e)
    <2>1. /\ pk \in [Packets -> PacketRecord] /\ new \in [Packets -> PacketRecord]
          /\ ThreadOK(pk, ob, t, e) /\ \A h \in Owned(ob, t, e) : Same(pk, new, h)
          /\ t \in Threads => \A o \in ObjectsOf[t] : ob[o] = ob[o]
      BY <1>4, <1>7, <1>10, <1>11
    <2>2. QED  BY <1>8, <2>1, ThreadSame
  <1>13. /\ ThreadOK(new, ob, t, d)
         /\ \A h : h \in Owned(ob, t, d) <=> h \in Owned(ob, t, e) \/ (h \in Packets /\ h = f)
    <2>1. new \in [Packets -> PacketRecord] /\ (f = NoPacket \/ (f \in Packets /\ new[f] = Fresh(e.type)))
      BY <1>5, <1>7, <1>8, <1>11
    <2>2. e.pc = "suspended" /\ Gets(e, d, f)
      BY <1>8
    <2>3. Serves(new, ob, t, e, d, f)
      BY <1>12, <2>1, <2>2 DEF Serves
    <2>4. QED  BY <2>3, ThreadGets
  <1> DEFINE W == {t}
  <1>14. Acts(W)
    <2>1. \A q \in Packets : packet'[q] = packet[q] \/ packet[q].mark = "FREE"
      BY <1>3, <1>4, <1>5
    <2>2. QED  BY <1>7, <1>9, <2>1 DEF Acts
  <1>15. ASSUME ~Careless, NEW q, Has(t, q) PROVE Somewhere(q)'
    <2>1. PICK h \in Owned(object, t, call[t]) : OnChain(packet, h, q)
      BY <1>15 DEF Has
    <2>2. Same(packet, packet', h) /\ h \in Owned(object', t, call'[t])
      BY <1>4, <1>7, <1>9, <1>11, <1>13, <1>15, <2>1 DEF IsHead
    <2>3. OnChain(packet', h, q)
      BY <1>4, <1>7, <2>1, <2>2, SameChain DEF OnChain
    <2>4. QED  BY <1>4, <2>2, <2>3 DEF Somewhere, Has
  <1>16. Somewhere(f)'
    <2>1. f \in Owned(object', t, call'[t])
      BY <1>5, <1>9, <1>11, <1>13
    <2>2. OnChain(packet', f, f)
      BY <1>5, <1>6, <1>7, OneEnds, OnItself
    <2>3. QED  BY <1>4, <2>1, <2>2 DEF Somewhere, Has
  <1>17. ~Careless => \A q \in Packets :
           packet'[q].mark = "ALLOCATED" =>
             /\ packet[q].mark = "FREE" => Somewhere(q)'
             /\ \A w \in W : Has(w, q) => Somewhere(q)'
             /\ \A h \in received \cup sent :
                  OnChain(packet, h, q) /\ h \notin received' \cup sent' => Somewhere(q)'
    <2>1. \A q \in Packets : q # f => packet'[q] = packet[q]
      BY <1>3, <1>4, <1>5
    <2>2. \A q \in Packets : packet'[q].mark = "ALLOCATED" /\ packet[q].mark = "FREE" => q = f
      BY <2>1
    <2>3. QED  BY <1>15, <1>16, <2>2
  <1>18. \A w \in W : ThreadOK(packet', object', w, call'[w])
    BY <1>9, <1>11, <1>13
  <1>19. W \in SUBSET Callers /\ noPreempt' \subseteq Callers
    BY <1>3, <1>4
  <1> HIDE DEF W
  <1>20. QED  BY <1>9, <1>14, <1>17, <1>18, <1>19, GoodNext

(* _nx_packet_allocate takes a packet, finds none, or suspends the thread. *)
LEMMA AllocateKeeps ==
  ASSUME Good, NEW t \in Threads, NEW c \in CallRecord, c.got = NoPacket, Allocate(t, c),
         received' = received, sent' = sent, object' \in [Objects -> Pointer],
         \A u \in Threads \ {t} : \A o \in ObjectsOf[u] : object'[o] = object[o],
         NEW e, e = [c EXCEPT !.pc = "suspended"], Phases(e), ThreadOK(packet, object', t, e),
         Owned(object', t, e) \subseteq Owned(object, t, call[t]),
         ~Careless => Owned(object, t, call[t]) \subseteq Owned(object', t, e),
         IInv', OwnInv'
  PROVE  Good'
  <1>1. t \in Callers /\ packet \in [Packets -> PacketRecord] /\ noPreempt \subseteq Callers
        /\ NoPacket \in Pointer
    BY DEF Good, Typed, Callers, Pointer
  <1>2. ASSUME NEW d \in CallRecord, Goes(t, d), packet' = packet, noPreempt' = noPreempt,
               ThreadOK(packet, object', t, d), Owned(object', t, e) \subseteq Owned(object', t, d)
        PROVE  Good'
    <2>1. ~Careless => \A h \in Owned(object, t, call[t]) \cup received \cup sent :
             h \in received' \cup sent' \/ h \in Owned(object', t, d)
      BY <1>2
    <2>2. QED  BY <1>1, <1>2, <2>1, NoPacketMoves
  <1>3. CASE Take(t, c)
    BY <1>3, TakeKeeps
  <1>4. CASE FindNone(t, c)
    <2>1. PICK d : d = [c EXCEPT !.pc = "allocated"]
      OBVIOUS
    <2>2. Goes(t, d) /\ packet' = packet /\ noPreempt' = noPreempt
      BY <1>4, <2>1 DEF FindNone, poolVars, queueVars
    <2>3. e.pc = "suspended" /\ d \in CallRecord /\ Gets(e, d, NoPacket)
      <3>1. /\ Gets([c EXCEPT !.pc = "suspended"], [c EXCEPT !.pc = "allocated"], NoPacket)
            /\ [c EXCEPT !.pc = "suspended"].pc = "suspended"
        BY <1>1, EnterAllocated
      <3>2. QED  BY <2>1, <3>1 DEF Gets
    <2>4. PICK ob : ob = object'
      OBVIOUS
    <2>5. /\ ThreadOK(packet, ob, t, d)
          /\ \A h : h \in Owned(ob, t, d) <=> h \in Owned(ob, t, e) \/ (h \in Packets /\ h = NoPacket)
      <3>1. ThreadOK(packet, ob, t, e) /\ e.pc = "suspended" /\ Gets(e, d, NoPacket)
            /\ (NoPacket = NoPacket \/ (NoPacket \in Packets /\ packet[NoPacket] = Fresh(e.type)))
        BY <2>3, <2>4
      <3>2. Serves(packet, ob, t, e, d, NoPacket)
        BY <3>1 DEF Serves
      <3>3. QED  BY <3>2, ThreadGets
    <2>6. QED  BY <1>2, <2>2, <2>3, <2>4, <2>5
  <1>5. CASE Suspend(t, c)
    <2>1. Goes(t, e) /\ packet' = packet /\ noPreempt' = noPreempt
      BY <1>5 DEF Suspend
    <2>2. e \in CallRecord
      BY <1>1, EnterAllocated
    <2>3. QED  BY <1>2, <2>1, <2>2
  <1>6. QED  BY <1>3, <1>4, <1>5 DEF Allocate

-----------------------------------------------------------------------------
(* A call is over, or releases what it has.                                *)
LEMMA IdleTyped ==
  /\ Idle \in CallRecord /\ Phases(Idle)
  /\ Idle.pc = "idle" /\ Idle.op = "none" /\ Idle.obj = {} /\ Idle.type = 0
  /\ Idle.target = NoPacket /\ Idle.list = NoPacket /\ Idle.got = NoPacket /\ Idle.free = NoPacket
  BY DEF Idle, CallRecord, Pointer, Phases

(* A thread that calls nothing has what its objects hold. *)
LEMMA IdleOK ==
  ASSUME NEW pk, NEW ob, NEW t,
         \A h \in OfObjects(ob, t, Idle) : Ends(pk, h) /\ Complete(pk, h)
  PROVE  ThreadOK(pk, ob, t, Idle) /\ Owned(ob, t, Idle) = OfObjects(ob, t, Idle)
  <1>1. OfCopy(Idle) = {} /\ Data(ob, t, Idle) = OfObjects(ob, t, Idle)
    BY IdleTyped DEF OfCopy, Data
  <1>2. Owned(ob, t, Idle) = OfObjects(ob, t, Idle)
    BY <1>1, IdleTyped, PoolAssumption DEF Owned
  <1>3. Sparse(t, Idle) /\ Aims(ob, t, Idle)
    BY IdleTyped DEF Sparse, Aims
  <1>4. Extending(pk, Idle) /\ Copying(pk, ob, t, Idle)
    BY IdleTyped DEF Extending, Copying
  <1>5. QED  BY <1>1, <1>2, <1>3, <1>4, IdleTyped DEF ThreadOK

(* What a call d that releases the packet p has. *)
Puts(pk, ob, t, d, p) ==
  /\ d \in CallRecord /\ d.pc \in {"put", "give"} /\ d.free = p /\ p \in Packets /\ Ends(pk, p)
  /\ d.list = NoPacket /\ d.got = NoPacket
  /\ d.op \in {"append", "copy", "release", "stack"}
  /\ t \notin Threads => d.op = "stack"
  /\ d.op = "append" => d.target # NoPacket
  /\ d.op \in {"append", "copy"} => d.type = 0
  /\ d.op \in {"copy", "release"} => \E o \in ObjectsOf[t] : d.obj = {o}
  /\ d.op = "copy" => \A o \in d.obj : ob[o] = NoPacket
  /\ \A h \in Data(ob, t, d) : Ends(pk, h) /\ Complete(pk, h)

(* A call that releases a packet is as it must be. *)
LEMMA PutOK ==
  ASSUME NEW pk, NEW ob, NEW t, NEW d, NEW p, Puts(pk, ob, t, d, p)
  PROVE  /\ ThreadOK(pk, ob, t, d)
         /\ \A h : h \in Owned(ob, t, d) <=> h \in Data(ob, t, d) \/ h = p
  <1>1. \A h : h \in Owned(ob, t, d) <=> h \in Data(ob, t, d) \/ h = p
    BY PoolAssumption DEF Owned, Puts
  <1>2. Sparse(t, d)
    BY PoolAssumption DEF Sparse, Puts
  <1>3. Aims(ob, t, d)
    BY DEF Aims, Puts, Busy
  <1>4. Extending(pk, d) /\ Copying(pk, ob, t, d)
    BY DEF Extending, Copying, Puts, Busy
  <1>5. QED  BY <1>1, <1>2, <1>3, <1>4 DEF ThreadOK, Puts

(* The record of a release. *)
LEMMA ReleasingIs ==
  ASSUME NEW c \in CallRecord, NEW p \in Packets, packet[p].mark = "ALLOCATED"
  PROVE  LET d == Releasing(c, p)
         IN  /\ d \in CallRecord /\ d.pc = "put" /\ d.free = p
             /\ d.list = c.list /\ d.got = c.got /\ d.op = c.op /\ d.obj = c.obj /\ d.type = c.type
             /\ d.target = c.target
  BY DEF Releasing, CallRecord, Pointer

(* Chains with data of calls that differ in other variables are the same. *)
LEMMA DataSame ==
  ASSUME NEW ob, NEW t, NEW c, NEW d, d.op = c.op, d.obj = c.obj, d.target = c.target
  PROVE  Data(ob, t, d) = Data(ob, t, c)
  BY DEF Data, OfObjects, OfCopy

(* An append or a copy c that is given up has this. *)
GivenUp(pk, ob, t, c) ==
  /\ t \in Threads /\ c \in CallRecord /\ c.op \in {"append", "copy"} /\ c.got = NoPacket
  /\ c.type = 0
  /\ c.op = "append" => c.target # NoPacket
  /\ c.op = "copy" => \E o \in ObjectsOf[t] : c.obj = {o}
  /\ c.op = "copy" => \A o \in c.obj : ob[o] = NoPacket
  /\ c.list # NoPacket => packet[c.list].mark = "ALLOCATED" /\ Ends(pk, c.list)
  /\ c.op = "copy" /\ c.target # NoPacket => packet[c.target].mark = "ALLOCATED"
  /\ \A h \in Data(ob, t, c) : Ends(pk, h) /\ Complete(pk, h)

(* What is left to release of an append or a copy that is given up. *)
LEMMA AbandonedOK ==
  ASSUME NEW pk, NEW ob, NEW t, NEW c, GivenUp(pk, ob, t, c)
  PROVE  /\ Abandoned(c) \in CallRecord /\ ThreadOK(pk, ob, t, Abandoned(c))
         /\ \A h : h \in Owned(ob, t, Abandoned(c)) <=>
                     h \in Data(ob, t, c) \/ (h \in Packets /\ h = c.list)
  <1>1. c \in CallRecord /\ t \in Threads /\ c.list \in Pointer /\ c.target \in Pointer
    BY DEF GivenUp, CallRecord
  <1>2. CASE c.list # NoPacket
    <2>1. PICK b : b = [c EXCEPT !.list = NoPacket]
      OBVIOUS
    <2>2. /\ b \in CallRecord /\ b.list = NoPacket /\ b.got = c.got /\ b.op = c.op /\ b.obj = c.obj
          /\ b.type = c.type /\ b.target = c.target
      BY <1>1, <2>1 DEF CallRecord, Pointer
    <2>3. PICK d : d = Abandoned(c)
      OBVIOUS
    <2>4. d = Releasing(b, c.list)
      BY <1>2, <2>1, <2>3 DEF Abandoned
    <2>5. c.list \in Packets /\ packet[c.list].mark = "ALLOCATED" /\ Ends(pk, c.list)
      BY <1>1, <1>2 DEF GivenUp, Pointer
    <2>6. /\ d \in CallRecord /\ d.pc = "put" /\ d.free = c.list
          /\ d.list = NoPacket /\ d.got = c.got /\ d.op = c.op /\ d.obj = c.obj /\ d.type = c.type
          /\ d.target = c.target
      BY <2>2, <2>4, <2>5, ReleasingIs
    <2>7. Data(ob, t, d) = Data(ob, t, c)
      BY <2>6, DataSame
    <2>8. Puts(pk, ob, t, d, c.list)
      BY <2>5, <2>6, <2>7 DEF Puts, GivenUp
    <2>9. QED  BY <2>3, <2>5, <2>6, <2>7, <2>8, PutOK
  <1>3. CASE c.list = NoPacket /\ c.op = "copy" /\ c.target # NoPacket
    <2>1. PICK b : b = [c EXCEPT !.target = NoPacket]
      OBVIOUS
    <2>2. /\ b \in CallRecord /\ b.list = c.list /\ b.got = c.got /\ b.op = c.op /\ b.obj = c.obj
          /\ b.type = c.type /\ b.target = NoPacket
      BY <1>1, <2>1 DEF CallRecord, Pointer
    <2>3. PICK d : d = Abandoned(c)
      OBVIOUS
    <2>4. d = Releasing(b, c.target)
      BY <1>3, <2>1, <2>3 DEF Abandoned
    <2>5. /\ c.target \in Packets /\ packet[c.target].mark = "ALLOCATED"
          /\ c.target \in Data(ob, t, c) /\ Ends(pk, c.target)
      BY <1>1, <1>3 DEF GivenUp, Pointer, Data, OfCopy
    <2>6. /\ d \in CallRecord /\ d.pc = "put" /\ d.free = c.target
          /\ d.list = NoPacket /\ d.got = c.got /\ d.op = c.op /\ d.obj = c.obj /\ d.type = c.type
          /\ d.target = NoPacket
      BY <1>3, <2>2, <2>4, <2>5, ReleasingIs
    <2>7. /\ OfObjects(ob, t, d) = OfObjects(ob, t, c)
          /\ OfCopy(d) = {} /\ OfCopy(c) = {c.target}
      BY <1>3, <2>5, <2>6, PoolAssumption DEF OfObjects, OfCopy
    <2>8. \A h : h \in Data(ob, t, c) <=> h \in Data(ob, t, d) \/ h = c.target
      BY <2>7 DEF Data
    <2>9. Puts(pk, ob, t, d, c.target)
      <3>1. \A h \in Data(ob, t, d) : Ends(pk, h) /\ Complete(pk, h)
        BY <2>8 DEF GivenUp
      <3>2. /\ t \in Threads /\ c.got = NoPacket /\ c.type = 0
            /\ \E o \in ObjectsOf[t] : c.obj = {o}
            /\ \A o \in c.obj : ob[o] = NoPacket
        BY <1>3 DEF GivenUp
      <3>3. QED  BY <1>3, <2>5, <2>6, <3>1, <3>2 DEF Puts
    <2>10. QED  BY <1>3, <2>3, <2>6, <2>8, <2>9, PutOK, PoolAssumption
  <1>4. CASE c.list = NoPacket /\ ~(c.op = "copy" /\ c.target # NoPacket)
    <2>1. Abandoned(c) = Idle
      BY <1>4 DEF Abandoned
    <2>2. OfCopy(c) = {} /\ OfObjects(ob, t, c) = OfObjects(ob, t, Idle)
      BY <1>4, IdleTyped, PoolAssumption DEF OfCopy, OfObjects, GivenUp
    <2>3. Data(ob, t, c) = OfObjects(ob, t, Idle)
      BY <2>2 DEF Data
    <2>4. ThreadOK(pk, ob, t, Idle) /\ Owned(ob, t, Idle) = OfObjects(ob, t, Idle)
      BY <2>3, IdleOK DEF GivenUp
    <2>5. QED  BY <1>4, <2>1, <2>3, <2>4, IdleTyped, PoolAssumption
  <1>5. QED  BY <1>2, <1>3, <1>4

(* What is behind the packet that is released, and the rest of what the    *)
(* call has, is not changed: pk are the packets afterwards, ob the objects.*)
Leaves(pk, ob, t) ==
  LET c == call[t]
  IN  /\ t \in Callers /\ c.pc \in {"put", "give"}
      /\ pk \in [Packets -> PacketRecord]
      /\ \A h \in Data(object, t, c) : Same(packet, pk, h)
      /\ packet[c.free].next # NoPacket => Same(packet, pk, packet[c.free].next)
      /\ ob = IF c.op = "release" /\ packet[c.free].next = NoPacket
              THEN [o \in Objects |-> IF o \in c.obj THEN NoPacket ELSE object[o]]
              ELSE object

(* The packet behind the one that is released. *)
LEMMA NextOnChain ==
  ASSUME NEW pk, NEW h, Ends(pk, h), pk[h].next # NoPacket, NoPacket \notin Packets
  PROVE  /\ Ends(pk, pk[h].next) /\ OnChain(pk, h, pk[h].next) /\ pk[h].next \in Packets
         /\ \A q : OnChain(pk, h, q) <=> q = h \/ OnChain(pk, pk[h].next, q)
         /\ ~OnChain(pk, pk[h].next, h)
  <1> DEFINE s == Follow(pk, h)
             n == Len(s)
             v == SubSeq(s, 2, n)
  <1>1. IsChain(pk, s) /\ s[1] = h /\ n \in Nat \ {0} /\ \A i \in 1..n : s[i] \in Packets
    BY EndsElements DEF Ends
  <1>2. n > 1
    <2>1. pk[s[n]].next = NoPacket
      BY <1>1 DEF IsChain
    <2>2. n # 1
      BY <1>1, <2>1
    <2> HIDE DEF n
    <2>3. QED  BY <1>1, <2>2
  <1>3. 2 \in 1..n /\ 1 \in 1..(n - 1) /\ 1 + 1 = 2
    BY <1>1, <1>2
  <1>4. pk[h].next = s[2]
    BY <1>1, <1>3 DEF IsChain
  <1>5. /\ IsChain(pk, v) /\ Len(v) = n - 1 /\ Follow(pk, s[2]) = v
        /\ \A i \in 1..(n - 1) : v[i] = s[i + 1]
    <2> HIDE DEF s
    <2>1. /\ IsChain(pk, v) /\ Len(v) = n - 2 + 1
          /\ \A i \in 1..(n - 2 + 1) : v[i] = s[2 + i - 1]
          /\ Follow(pk, s[2]) = v
      BY <1>1, <1>3, ChainSuffix
    <2>2. n - 2 + 1 = n - 1 /\ \A i \in 1..(n - 1) : 2 + i - 1 = i + 1
      BY <1>1
    <2> HIDE DEF n, v
    <2>3. QED  BY <2>1, <2>2
  <1>6. v[1] = s[2]
    BY <1>3, <1>5
  <1>7. Ends(pk, s[2])
    <2> HIDE DEF v, s
    <2>1. QED  BY <1>5, <1>6, ChainEnds
  <1>8. OnChain(pk, h, s[2]) /\ s[2] \in Packets
    BY <1>1, <1>3 DEF OnChain
  <1>9. IsInjective(s) /\ DOMAIN s = 1..n
    BY <1>1, ChainInjective, ChainElements
  <1>10. \A q : OnChain(pk, s[2], q) <=> \E i \in 1..(n - 1) : s[i + 1] = q
    BY <1>5 DEF OnChain
  <1>11. \A q : OnChain(pk, h, q) <=> \E i \in 1..n : s[i] = q
    BY DEF OnChain
  <1> HIDE DEF s, n, v
  <1>12. /\ \A i \in 1..(n - 1) : i + 1 \in 1..n /\ i + 1 # 1
         /\ \A i \in 1..n : i = 1 \/ (i - 1 \in 1..(n - 1) /\ (i - 1) + 1 = i)
         /\ 1 \in 1..n
    BY <1>1
  <1>13. \A q : OnChain(pk, h, q) <=> q = h \/ OnChain(pk, s[2], q)
    <2>1. ASSUME NEW q, OnChain(pk, h, q) PROVE q = h \/ OnChain(pk, s[2], q)
      <3>1. PICK i \in 1..n : s[i] = q
        BY <1>11, <2>1
      <3>2. CASE i = 1
        BY <1>1, <3>1, <3>2
      <3>3. CASE i # 1
        <4>1. i - 1 \in 1..(n - 1) /\ s[(i - 1) + 1] = q
          BY <1>12, <3>1, <3>3
        <4>2. QED  BY <1>10, <4>1
      <3>4. QED  BY <3>2, <3>3
    <2>2. ASSUME NEW q, OnChain(pk, s[2], q) PROVE OnChain(pk, h, q)
      BY <1>10, <1>11, <1>12, <2>2
    <2>3. OnChain(pk, h, h)
      BY <1>1, <1>11, <1>12
    <2>4. QED  BY <2>1, <2>2, <2>3
  <1>14. ~OnChain(pk, s[2], h)
    <2> SUFFICES ASSUME NEW i \in 1..(n - 1), s[i + 1] = h PROVE FALSE
      BY <1>10
    <2>1. i + 1 \in 1..n /\ i + 1 # 1 /\ 1 \in 1..n /\ s[i + 1] = s[1]
      BY <1>1, <1>12
    <2>2. QED  BY <1>9, <2>1 DEF IsInjective
  <1>15. QED  BY <1>4, <1>7, <1>8, <1>13, <1>14

(* On to the next packet, or back: what is left is as it was. *)
LEMMA OnwardOK ==
  ASSUME Good, NEW pk, NEW ob, NEW t, Leaves(pk, ob, t)
  PROVE  /\ Onward(call[t]) \in CallRecord /\ ThreadOK(pk, ob, t, Onward(call[t]))
         /\ \A q : Has(t, q) => q = call[t].free \/ \E h \in Owned(ob, t, Onward(call[t])) : OnChain(pk, h, q)
  <1>1. PICK c, p, d : c = call[t] /\ p = c.free /\ d = Onward(c)
    OBVIOUS
  <1>2. /\ t \in Callers /\ c.pc \in {"put", "give"} /\ pk \in [Packets -> PacketRecord]
        /\ \A h \in Data(object, t, c) : Same(packet, pk, h)
        /\ packet[p].next # NoPacket => Same(packet, pk, packet[p].next)
        /\ ob = IF c.op = "release" /\ packet[p].next = NoPacket
                THEN [o \in Objects |-> IF o \in c.obj THEN NoPacket ELSE object[o]]
                ELSE object
    BY <1>1 DEF Leaves
  <1>3. /\ OwnInv /\ IInv /\ packet \in [Packets -> PacketRecord] /\ c \in CallRecord
        /\ ThreadOK(packet, object, t, c) /\ CallOf(t, c) /\ Phases(c) /\ Sparse(t, c) /\ Aims(object, t, c)
    BY <1>1, <1>2 DEF Good, Typed, OwnInv, Calls, CallOf, ThreadOK
  <1>4. /\ p \in Packets /\ c.list = NoPacket /\ c.got = NoPacket
        /\ c.op \in {"append", "copy", "release", "stack"}
    <2>1. c.pc # "idle" /\ c # Idle
      BY <1>2, IdleTyped
    <2>2. p \in Packets
      BY <1>1, <1>2, <1>3, FreedIsOwn
    <2>3. c.list = NoPacket /\ c.got = NoPacket
      BY <1>2, <1>3 DEF Sparse
    <2>4. c.op \notin {"none", "allocate"}
      BY <1>2, <1>3, <2>1 DEF Sparse, Phases
    <2>5. QED  BY <1>3, <2>2, <2>3, <2>4 DEF CallRecord
  <1>5. /\ \A h \in Data(object, t, c) : Ends(pk, h) /\ Complete(pk, h) /\ Follow(pk, h) = Follow(packet, h)
        /\ \A h \in Data(object, t, c) : IsHead(h)
    <2>1. \A h \in Data(object, t, c) : Complete(packet, h)
      BY <1>2, <1>3 DEF ThreadOK
    <2>2. \A h \in Data(object, t, c) : h \in Owned(object, t, c)
      BY DEF Owned
    <2>3. QED  BY <1>1, <1>2, <1>3, <2>1, <2>2, SameChain DEF IsHead
  <1>6. \A h : h \in Owned(object, t, c) <=> h \in Data(object, t, c) \/ h = p
    BY <1>1, <1>4, PoolAssumption DEF Owned
  <1>7. Ends(packet, p) /\ IsHead(p)
    BY <1>1, <1>2, <1>3, <1>6, HeadEnds DEF IsHead
  <1>8. ASSUME NEW q, Has(t, q)
        PROVE  OnChain(packet, p, q) \/ \E h \in Data(object, t, c) : OnChain(pk, h, q)
    <2>1. PICK h \in Owned(object, t, c) : OnChain(packet, h, q)
      BY <1>1, <1>8 DEF Has
    <2>2. QED  BY <1>5, <1>6, <2>1 DEF OnChain
  <1>9. CASE packet[p].next # NoPacket
    <2>1. PICK n : n = packet[p].next
      OBVIOUS
    <2>2. /\ n \in Packets /\ Ends(packet, n) /\ OnChain(packet, p, n)
          /\ \A q : OnChain(packet, p, q) <=> q = p \/ OnChain(packet, n, q)
      BY <1>7, <1>9, <2>1, NextOnChain, PoolAssumption
    <2>3. packet[n].mark = "ALLOCATED" /\ Same(packet, pk, n)
      BY <1>2, <1>7, <1>9, <2>1, <2>2, ChainAllocated
    <2>4. Ends(pk, n) /\ Follow(pk, n) = Follow(packet, n)
      BY <1>2, <1>3, <2>3, SameChain
    <2>5. d = Releasing(c, n)
      BY <1>1, <1>9, <2>1 DEF Onward
    <2>6. /\ d \in CallRecord /\ d.pc = "put" /\ d.free = n
          /\ d.list = c.list /\ d.got = c.got /\ d.op = c.op /\ d.obj = c.obj /\ d.type = c.type
          /\ d.target = c.target
      BY <1>3, <2>2, <2>3, <2>5, ReleasingIs
    <2>7. ob = object /\ Data(ob, t, d) = Data(object, t, c)
      BY <1>2, <1>9, <2>6, DataSame
    <2>8. Puts(pk, ob, t, d, n)
      <3>1. /\ t \notin Threads => d.op = "stack"
            /\ d.op = "append" => d.target # NoPacket
            /\ d.op \in {"append", "copy"} => d.type = 0
        BY <1>3, <1>4, <2>6 DEF Sparse
      <3>2. /\ d.op \in {"copy", "release"} => \E o \in ObjectsOf[t] : d.obj = {o}
            /\ d.op = "copy" => \A o \in d.obj : ob[o] = NoPacket
        BY <1>3, <2>6, <2>7 DEF Aims
      <3>3. QED  BY <1>4, <1>5, <2>2, <2>4, <2>6, <2>7, <3>1, <3>2 DEF Puts
    <2>9. /\ ThreadOK(pk, ob, t, d)
          /\ \A h : h \in Owned(ob, t, d) <=> h \in Data(ob, t, d) \/ h = n
      BY <2>8, PutOK
    <2>10. ASSUME NEW q, Has(t, q) PROVE q = p \/ \E h \in Owned(ob, t, d) : OnChain(pk, h, q)
      <3>1. OnChain(packet, n, q) => OnChain(pk, n, q)
        BY <2>4 DEF OnChain
      <3>2. QED  BY <1>8, <2>2, <2>7, <2>9, <2>10, <3>1
    <2>11. QED  BY <1>1, <2>6, <2>9, <2>10
  <1>10. CASE packet[p].next = NoPacket
    <2>1. \A q : OnChain(packet, p, q) => q = p
      <3>1. Follow(packet, p) = <<p>>
        BY <1>4, <1>10, OneEnds
      <3>2. QED  BY <3>1 DEF OnChain
    <2>2. CASE c.op \in {"append", "copy"}
      <3>1. PICK b : b = [c EXCEPT !.free = NoPacket, !.to = {}]
        OBVIOUS
      <3>2. /\ b \in CallRecord /\ b.list = c.list /\ b.got = c.got /\ b.op = c.op /\ b.obj = c.obj
            /\ b.type = c.type /\ b.target = c.target
        BY <1>3, <3>1 DEF CallRecord, Pointer
      <3>3. d = Abandoned(b)
        BY <1>1, <1>10, <2>2, <3>1 DEF Onward
      <3>4. ob = object /\ Data(ob, t, b) = Data(object, t, c)
        BY <1>2, <2>2, <3>2, DataSame
      <3>5. GivenUp(pk, ob, t, b)
        <4>1. t \in Threads /\ c.type = 0 /\ (c.op = "append" => c.target # NoPacket)
          BY <1>3, <2>2 DEF Sparse
        <4>2. /\ c.op = "copy" => \E o \in ObjectsOf[t] : c.obj = {o}
              /\ c.op = "copy" => \A o \in c.obj : ob[o] = NoPacket
          BY <1>3, <3>4 DEF Aims
        <4>3. c.op = "copy" /\ c.target # NoPacket => packet[c.target].mark = "ALLOCATED"
          <5>1. c.op = "copy" /\ c.target # NoPacket => c.target \in Data(object, t, c)
            BY <1>3 DEF Data, OfCopy, CallRecord, Pointer
          <5>2. c.op = "copy" /\ c.target # NoPacket => OnChain(packet, c.target, c.target)
            BY <1>5, <5>1, HeadEnds, OnItself
          <5>3. QED  BY <1>5, <5>1, <5>2, ChainAllocated
        <4>4. QED  BY <1>4, <1>5, <2>2, <3>2, <3>4, <4>1, <4>2, <4>3 DEF GivenUp
      <3>6. /\ d \in CallRecord /\ ThreadOK(pk, ob, t, d)
            /\ \A h : h \in Owned(ob, t, d) <=> h \in Data(ob, t, b) \/ (h \in Packets /\ h = b.list)
        BY <3>3, <3>5, AbandonedOK
      <3>7. ASSUME NEW q, Has(t, q) PROVE q = p \/ \E h \in Owned(ob, t, d) : OnChain(pk, h, q)
        BY <1>8, <2>1, <3>4, <3>6, <3>7
      <3>8. QED  BY <1>1, <3>6, <3>7
    <2>3. CASE c.op \notin {"append", "copy"}
      <3>1. d = Idle
        BY <1>1, <1>10, <2>3 DEF Onward
      <3>2. OfObjects(ob, t, Idle) = OfObjects(object, t, c)
        <4>1. CASE t \notin Threads
          BY <4>1 DEF OfObjects
        <4>2. CASE t \in Threads /\ c.op = "release"
          <5>1. \A o \in ObjectsOf[t] : ob[o] = IF o \in c.obj THEN NoPacket ELSE object[o]
            BY <1>2, <1>10, <4>2 DEF Objects
          <5>2. QED  BY <4>2, <5>1, IdleTyped, PoolAssumption DEF OfObjects
        <4>3. CASE t \in Threads /\ c.op = "stack"
          BY <1>2, <4>3, IdleTyped DEF OfObjects
        <4>4. QED  BY <1>4, <2>3, <4>1, <4>2, <4>3
      <3>3. Data(object, t, c) = OfObjects(object, t, c)
        BY <2>3 DEF Data, OfCopy
      <3>4. ThreadOK(pk, ob, t, Idle) /\ Owned(ob, t, Idle) = OfObjects(ob, t, Idle)
        BY <1>5, <3>2, <3>3, IdleOK
      <3>5. ASSUME NEW q, Has(t, q) PROVE q = p \/ \E h \in Owned(ob, t, d) : OnChain(pk, h, q)
        BY <1>8, <2>1, <3>1, <3>2, <3>3, <3>4, <3>5
      <3>6. QED  BY <1>1, <3>1, <3>4, <3>5, IdleTyped
    <2>4. QED  BY <2>2, <2>3
  <1>11. QED  BY <1>9, <1>10

-----------------------------------------------------------------------------
(* A packet is released. *)
LEMMA FreedKeeps ==
  ASSUME Good, NEW t \in Callers, call[t].pc \in {"put", "give"}, NEW q \in PacketRecord,
         packet' = [packet EXCEPT ![call[t].free] = q], Forgets(t)
  PROVE  /\ packet' \in [Packets -> PacketRecord] /\ object' \in [Objects -> Pointer]
         /\ call[t].free \in Packets /\ packet'[call[t].free] = q /\ Has(t, call[t].free)
         /\ \A p \in Packets : p # call[t].free => packet'[p] = packet[p]
         /\ Leaves(packet', object', t)
         /\ \A u \in Callers \ {t} : \A h \in Owned(object, u, call[u]) : Same(packet, packet', h)
         /\ \A u \in Threads \ {t} : \A o \in ObjectsOf[u] : object'[o] = object[o]
  <1>1. PICK c, p : c = call[t] /\ p = c.free
    OBVIOUS
  <1>2. /\ OwnInv /\ IInv /\ packet \in [Packets -> PacketRecord] /\ c \in CallRecord
        /\ object \in [Objects -> Pointer]
        /\ ThreadOK(packet, object, t, c) /\ CallOf(t, c) /\ Sparse(t, c)
    BY <1>1 DEF Good, Typed, OwnInv, Calls, ThreadOK
  <1>3. p \in Packets /\ p # NoPacket
    BY <1>1, <1>2, FreedIsOwn, PoolAssumption
  <1>4. p \in Owned(object, t, c) /\ IsHead(p) /\ Ends(packet, p) /\ Has(t, p)
    <2>1. p \in Owned(object, t, c)
      BY <1>1, <1>3 DEF Owned
    <2>2. IsHead(p) /\ Ends(packet, p)
      BY <1>1, <2>1, HeadEnds DEF IsHead
    <2>3. QED  BY <1>1, <2>1, <2>2, OnItself DEF Has
  <1>5. /\ packet' \in [Packets -> PacketRecord] /\ packet'[p] = q
        /\ \A x \in Packets : x # p => packet'[x] = packet[x]
    BY <1>1, <1>2, <1>3
  <1>6. ASSUME NEW h, Ends(packet, h), ~OnChain(packet, h, p) PROVE Same(packet, packet', h)
    <2>1. \A i \in 1..Len(Follow(packet, h)) : Follow(packet, h)[i] \in Packets /\ Follow(packet, h)[i] # p
      BY <1>6, EndsElements DEF OnChain
    <2>2. QED  BY <1>5, <1>6, <2>1 DEF Same
  <1>7. ASSUME NEW h, IsHead(h), h # p PROVE Same(packet, packet', h)
    <2>1. Ends(packet, h) /\ OnChain(packet, p, p)
      BY <1>4, <1>7, HeadEnds, OnItself
    <2>2. ~OnChain(packet, h, p)
      BY <1>4, <1>7, <2>1, HeadsApart
    <2>3. QED  BY <1>6, <2>1, <2>2
  <1>8. \A h \in Data(object, t, c) : Same(packet, packet', h)
    <2>1. p \notin Data(object, t, c)
      BY <1>1, <1>2, <1>3, OwnDistinct DEF Distinct
    <2>2. \A h \in Data(object, t, c) : IsHead(h) /\ h # p
      BY <1>1, <2>1 DEF IsHead, Owned
    <2>3. QED  BY <1>7, <2>2
  <1>9. packet[p].next # NoPacket => Same(packet, packet', packet[p].next)
    <2>1. packet[p].next # NoPacket =>
            Ends(packet, packet[p].next) /\ ~OnChain(packet, packet[p].next, p)
      BY <1>4, NextOnChain, PoolAssumption
    <2>2. QED  BY <1>6, <2>1
  <1>10. \A u \in Callers \ {t} : \A h \in Owned(object, u, call[u]) : Same(packet, packet', h)
    <2>1. \A u \in Callers \ {t} : \A h \in Owned(object, u, call[u]) : IsHead(h) /\ h # p
      BY <1>1, <1>2, <1>4, OwnersApart DEF IsHead
    <2>2. QED  BY <1>7, <2>1
  <1>11. object' = IF c.op = "release" /\ packet[p].next = NoPacket
                   THEN [o \in Objects |-> IF o \in c.obj THEN NoPacket ELSE object[o]]
                   ELSE object
    BY <1>1 DEF Forgets
  <1>12. object' \in [Objects -> Pointer]
    BY <1>2, <1>11 DEF Pointer
  <1>13. ASSUME NEW u \in Threads \ {t}, NEW o \in ObjectsOf[u] PROVE object'[o] = object[o]
    <2>1. o \in Objects
      BY DEF Objects
    <2>2. c.op = "release" => o \notin c.obj
      <3>1. c.op = "release" => t \in Threads
        BY <1>2 DEF Sparse
      <3>2. t \in Threads => \A x \in c.obj : x \in ObjectsOf[t]
        BY <1>2 DEF CallOf
      <3>3. QED  BY <3>1, <3>2, PoolAssumption
    <2>3. QED  BY <1>11, <2>1, <2>2
  <1>14. Leaves(packet', object', t)
    <2>1. PICK new, ob : new = packet' /\ ob = object'
      OBVIOUS
    <2>2. Leaves(new, ob, t)
      BY <1>1, <1>5, <1>8, <1>9, <1>11, <2>1 DEF Leaves
    <2>3. QED  BY <2>1, <2>2
  <1>15. QED  BY <1>1, <1>3, <1>4, <1>5, <1>10, <1>12, <1>13, <1>14

(* A packet goes back to the pool. *)
LEMMA PutBackKeeps ==
  ASSUME Good, NEW t \in Callers, PutBack(t), IInv', OwnInv'
  PROVE  Good'
  <1>1. PICK c, p, q, d : c = call[t] /\ p = c.free /\ q = [Fresh(0) EXCEPT !.mark = "FREE"] /\ d = Onward(c)
    OBVIOUS
  <1>2. /\ c.pc = "put" /\ packet' = [packet EXCEPT ![p] = q] /\ Forgets(t) /\ Goes(t, d)
        /\ received' = received /\ sent' = sent /\ noPreempt' = noPreempt
    BY <1>1 DEF PutBack, At, queueVars, stackVars
  <1>3. q \in PacketRecord /\ q.mark = "FREE"
    BY <1>1, PoolAssumption DEF Fresh, PacketRecord, Mark, Pointer
  <1>4. /\ packet' \in [Packets -> PacketRecord] /\ object' \in [Objects -> Pointer]
        /\ p \in Packets /\ packet'[p] = q /\ Has(t, p)
        /\ \A x \in Packets : x # p => packet'[x] = packet[x]
        /\ Leaves(packet', object', t)
        /\ \A u \in Threads \ {t} : \A o \in ObjectsOf[u] : object'[o] = object[o]
    BY <1>1, <1>2, <1>3, FreedKeeps
  <1>5. PICK new, ob : new = packet' /\ ob = object'
    OBVIOUS
  <1>6. /\ d \in CallRecord /\ ThreadOK(new, ob, t, d)
        /\ \A x : Has(t, x) => x = p \/ \E h \in Owned(ob, t, d) : OnChain(new, h, x)
    BY <1>1, <1>4, <1>5, OnwardOK
  <1>7. /\ call' \in [Callers -> CallRecord] /\ call'[t] = d
        /\ \A u \in Callers \ {t} : call'[u] = call[u]
    BY <1>2, <1>6, CallTyped
  <1> DEFINE W == {t}
  <1>8. Acts(W) /\ W \in SUBSET Callers /\ noPreempt' \subseteq Callers
    BY <1>2, <1>4, <1>7 DEF Acts, Good, Typed
  <1>9. \A w \in W : ThreadOK(packet', object', w, call'[w])
    BY <1>5, <1>6, <1>7
  <1>10. ASSUME NEW x \in Packets, packet'[x].mark = "ALLOCATED"
         PROVE  /\ packet[x].mark = "FREE" => Somewhere(x)'
                /\ \A w \in W : Has(w, x) => Somewhere(x)'
    <2>1. x # p /\ packet'[x] = packet[x]
      BY <1>3, <1>4, <1>10
    <2>2. Has(t, x) => \E h \in Owned(object', t, call'[t]) : OnChain(packet', h, x)
      BY <1>5, <1>6, <1>7, <2>1
    <2>3. QED  BY <1>10, <2>1, <2>2 DEF Somewhere, Has
  <1> HIDE DEF W
  <1>11. QED  BY <1>2, <1>4, <1>7, <1>8, <1>9, <1>10, GoodNext

(* A packet goes to the thread that waits for it. *)
LEMMA GiveKeeps ==
  ASSUME Good, NEW t \in Callers, Give(t), IInv', OwnInv'
  PROVE  Good'
  <1>1. PICK c, p, d : c = call[t] /\ p = c.free /\ d = Onward(c)
    OBVIOUS
  <1>2. c.pc = "give" /\ Forgets(t) /\ received' = received /\ sent' = sent /\ noPreempt' = {}
    BY <1>1 DEF Give, At, stackVars
  <1>3. PICK w \in c.to :
          /\ packet' = [packet EXCEPT ![p] = Fresh(call[w].type)]
          /\ call' = [call EXCEPT ![w] = [@ EXCEPT !.pc = "allocated", !.got = p], ![t] = Onward(@)]
    BY <1>1 DEF Give
  <1>4. w \in Threads /\ w \in Callers /\ call[w].pc = "suspended" /\ w # t
    BY <1>1, <1>2, <1>3 DEF Good, IInv, GivesToWaiting, Callers
  <1>5. PICK b, e : b = call[w] /\ e = [b EXCEPT !.pc = "allocated", !.got = p]
    OBVIOUS
  <1>6. /\ packet \in [Packets -> PacketRecord] /\ call \in [Callers -> CallRecord]
        /\ b \in CallRecord /\ Phases(b) /\ ThreadOK(packet, object, w, b)
    BY <1>4, <1>5 DEF Good, Typed, OwnInv, Calls, CallOf
  <1>7. PICK q : q = Fresh(b.type)
    OBVIOUS
  <1>8. q \in PacketRecord /\ packet' = [packet EXCEPT ![p] = q]
    BY <1>3, <1>5, <1>6, <1>7, Freshly DEF CallRecord
  <1>9. /\ packet' \in [Packets -> PacketRecord] /\ object' \in [Objects -> Pointer]
        /\ p \in Packets /\ packet'[p] = q /\ Has(t, p)
        /\ \A x \in Packets : x # p => packet'[x] = packet[x]
        /\ Leaves(packet', object', t)
        /\ \A u \in Callers \ {t} : \A h \in Owned(object, u, call[u]) : Same(packet, packet', h)
        /\ \A u \in Threads \ {t} : \A o \in ObjectsOf[u] : object'[o] = object[o]
    BY <1>1, <1>2, <1>8, FreedKeeps
  <1>10. PICK pk, new, ob, other : pk = packet /\ new = packet' /\ ob = object /\ other = object'
    OBVIOUS
  <1>11. /\ d \in CallRecord /\ ThreadOK(new, other, t, d)
         /\ \A x : Has(t, x) => x = p \/ \E h \in Owned(other, t, d) : OnChain(new, h, x)
    BY <1>1, <1>9, <1>10, OnwardOK
  <1>12. /\ \A h \in Owned(ob, w, b) : Same(pk, new, h)
         /\ pk \in [Packets -> PacketRecord] /\ new \in [Packets -> PacketRecord]
    BY <1>4, <1>5, <1>6, <1>9, <1>10
  <1>13. ThreadOK(new, other, w, b) /\ Owned(other, w, b) = Owned(ob, w, b)
    <2>1. w \in Threads => \A o \in ObjectsOf[w] : other[o] = ob[o]
      BY <1>4, <1>9, <1>10
    <2>2. ThreadOK(pk, ob, w, b)
      BY <1>6, <1>10
    <2>3. QED  BY <1>6, <1>12, <2>1, <2>2, ThreadSame
  <1>14. e \in CallRecord /\ Gets(b, e, p)
    <2>1. b.got = NoPacket
      BY <1>4, <1>5, <1>6 DEF ThreadOK, Sparse
    <2>2. p \in Pointer
      BY <1>9 DEF Pointer
    <2>3. /\ [b EXCEPT !.pc = "allocated", !.got = p] \in CallRecord
          /\ b.pc = "suspended" => Gets(b, [b EXCEPT !.pc = "allocated", !.got = p], p)
      BY <1>6, <2>1, <2>2, EnterAllocated
    <2>4. QED  BY <1>4, <1>5, <2>3
  <1>15. /\ ThreadOK(new, other, w, e)
         /\ \A h : h \in Owned(other, w, e) <=> h \in Owned(other, w, b) \/ (h \in Packets /\ h = p)
    <2>1. Serves(new, other, w, b, e, p)
      BY <1>4, <1>5, <1>7, <1>9, <1>10, <1>13, <1>14 DEF Serves
    <2>2. QED  BY <2>1, ThreadGets
  <1>16. /\ call'[w] = e /\ call'[t] = d /\ \A u \in Callers \ {t, w} : call'[u] = call[u]
         /\ call' \in [Callers -> CallRecord]
    <2>1. call' = [call EXCEPT ![w] = e, ![t] = d]
      BY <1>1, <1>3, <1>4, <1>5, <1>6
    <2>2. QED  BY <1>4, <1>6, <1>11, <1>14, <2>1
  <1> DEFINE W == {t, w}
  <1>17. Acts(W) /\ W \in SUBSET Callers /\ noPreempt' \subseteq Callers
    BY <1>2, <1>4, <1>9, <1>16 DEF Acts
  <1>18. \A v \in W : ThreadOK(packet', object', v, call'[v])
    BY <1>10, <1>11, <1>15, <1>16
  <1>19. Somewhere(p)'
    <2>1. p \in Owned(object', w, call'[w]) /\ Ends(packet', p)
      BY <1>9, <1>10, <1>15, <1>16 DEF ThreadOK
    <2>2. QED  BY <1>4, <2>1, OnItself DEF Somewhere, Has
  <1>20. ASSUME NEW x, Has(t, x) PROVE Somewhere(x)'
    <2>1. x = p \/ \E h \in Owned(object', t, call'[t]) : OnChain(packet', h, x)
      BY <1>10, <1>11, <1>16, <1>20
    <2>2. QED  BY <1>19, <2>1 DEF Somewhere, Has
  <1>21. ASSUME NEW x, Has(w, x) PROVE Somewhere(x)'
    <2>1. PICK h \in Owned(ob, w, b) : OnChain(pk, h, x)
      BY <1>5, <1>10, <1>21 DEF Has
    <2>2. OnChain(new, h, x) /\ h \in Owned(other, w, e)
      BY <1>12, <1>13, <1>15, <2>1, SameChain DEF OnChain
    <2>3. h \in Owned(object', w, call'[w]) /\ OnChain(packet', h, x)
      BY <1>10, <1>16, <2>2
    <2>4. QED  BY <1>4, <2>3 DEF Somewhere, Has
  <1>22. ASSUME NEW x \in Packets, packet'[x].mark = "ALLOCATED"
         PROVE  /\ packet[x].mark = "FREE" => Somewhere(x)'
                /\ \A v \in W : Has(v, x) => Somewhere(x)'
    <2>1. packet[x].mark = "FREE" => x = p
      BY <1>9, <1>22
    <2>2. QED  BY <1>19, <1>20, <1>21, <2>1
  <1> HIDE DEF W
  <1>23. QED  BY <1>2, <1>9, <1>16, <1>17, <1>18, <1>22, GoodNext

(* What is known of a call that is about to put a packet back or to give it. *)
LEMMA PutsNow ==
  ASSUME Good, NEW t \in Callers, call[t].pc \in {"put", "give"}
  PROVE  Puts(packet, object, t, call[t], call[t].free)
  <1>1. PICK c, p : c = call[t] /\ p = c.free
    OBVIOUS
  <1>2. /\ OwnInv /\ IInv /\ c \in CallRecord /\ c.pc \in {"put", "give"}
        /\ ThreadOK(packet, object, t, c) /\ Phases(c) /\ Sparse(t, c) /\ Aims(object, t, c)
    BY <1>1 DEF Good, Typed, OwnInv, Calls, CallOf, ThreadOK
  <1>3. p \in Packets
    BY <1>1, <1>2, FreedIsOwn
  <1>4. /\ c.list = NoPacket /\ c.got = NoPacket
        /\ c.op \in {"append", "copy", "release", "stack"}
    <2>1. c # Idle /\ c.pc \notin {"idle", "append", "suspended", "allocated"}
      BY <1>2, IdleTyped
    <2>2. c.op \notin {"none", "allocate"}
      BY <1>2, <2>1 DEF Sparse
    <2>3. c.list = NoPacket /\ c.got = NoPacket
      BY <1>2, <2>1 DEF Sparse
    <2>4. QED  BY <1>2, <2>2, <2>3 DEF CallRecord
  <1>5. p \in Owned(object, t, c) /\ \A h \in Data(object, t, c) : h \in Owned(object, t, c) /\ h \in Packets
    BY <1>1, <1>3 DEF Owned, Data, OfObjects, OfCopy
  <1>6. Ends(packet, p) /\ \A h \in Data(object, t, c) : Ends(packet, h) /\ Complete(packet, h)
    <2>1. c.pc # "fill"
      BY <1>2
    <2>2. QED  BY <1>2, <1>5, <2>1 DEF ThreadOK
  <1>7. /\ t \notin Threads => c.op = "stack"
        /\ c.op = "append" => c.target # NoPacket
        /\ c.op \in {"append", "copy"} => c.type = 0
    BY <1>2, <1>4 DEF Sparse
  <1>8. /\ c.op \in {"copy", "release"} => \E o \in ObjectsOf[t] : c.obj = {o}
        /\ c.op = "copy" => \A o \in c.obj : object[o] = NoPacket
    BY <1>2 DEF Aims
  <1>9. QED  BY <1>1, <1>2, <1>3, <1>4, <1>6, <1>7, <1>8 DEF Puts

(* The first waiting thread leaves the list. *)
LEMMA UnqueueKeeps ==
  ASSUME Good, NEW t \in Callers, Unqueue(t), IInv', OwnInv'
  PROVE  Good'
  <1>1. PICK c, p : c = call[t] /\ p = c.free
    OBVIOUS
  <1>2. PICK d : d = [c EXCEPT !.pc = "give", !.to = {Head(suspended)}]
    OBVIOUS
  <1>3. /\ c.pc = "put" /\ Goes(t, d) /\ packet' = packet /\ object' = object
        /\ received' = received /\ sent' = sent /\ noPreempt' = {t} /\ suspended # <<>>
    BY <1>1, <1>2 DEF Unqueue, At, stackVars
  <1>4. Puts(packet, object, t, c, p)
    BY <1>1, <1>3, PutsNow
  <1>5. Head(suspended) \in Threads /\ c \in CallRecord /\ object \in [Objects -> Pointer]
    BY <1>1, <1>3, ElementsOfTail DEF Good, Typed, IInv, WaitingList
  <1>6. /\ d \in CallRecord /\ d.pc = "give" /\ d.free = c.free /\ d.list = c.list /\ d.got = c.got
        /\ d.op = c.op /\ d.obj = c.obj /\ d.type = c.type /\ d.target = c.target
    BY <1>2, <1>5 DEF CallRecord
  <1>7. Data(object, t, d) = Data(object, t, c)
    BY <1>6, DataSame
  <1>8. Puts(packet, object, t, d, p)
    BY <1>4, <1>6, <1>7 DEF Puts
  <1>9. /\ ThreadOK(packet, object, t, d)
        /\ \A h : h \in Owned(object, t, d) <=> h \in Owned(object, t, c)
    BY <1>4, <1>7, <1>8, PutOK
  <1>10. ThreadOK(packet, object', t, d)
    BY <1>3, <1>9
  <1>11. ~Careless => \A h \in Owned(object, t, call[t]) \cup received \cup sent :
           h \in received' \cup sent' \/ h \in Owned(object', t, d)
    BY <1>1, <1>3, <1>9
  <1>12. QED  BY <1>3, <1>5, <1>6, <1>10, <1>11, NoPacketMoves

(* A wait ends without a packet. *)
LEMMA TimeoutKeeps ==
  ASSUME Good, NEW t \in Threads, Timeout(t), IInv', OwnInv'
  PROVE  Good'
  <1>1. PICK c : c = call[t]
    OBVIOUS
  <1>2. PICK d : d = [c EXCEPT !.pc = "allocated"]
    OBVIOUS
  <1>3. /\ c.pc = "suspended" /\ Goes(t, d) /\ packet' = packet /\ object' = object
        /\ received' = received /\ sent' = sent /\ noPreempt' = noPreempt
    BY <1>1, <1>2 DEF Timeout, stackVars
  <1>4. /\ t \in Callers /\ c \in CallRecord /\ ThreadOK(packet, object, t, c)
        /\ object \in [Objects -> Pointer] /\ noPreempt \subseteq Callers
    BY <1>1 DEF Good, Typed, Callers
  <1>5. Gets(c, d, NoPacket)
    <2>1. c.got = NoPacket /\ NoPacket \in Pointer
      BY <1>3, <1>4 DEF ThreadOK, Sparse, Pointer
    <2>2. c.pc = "suspended" => Gets(c, [c EXCEPT !.pc = "allocated"], NoPacket)
      BY <1>4, <2>1, EnterAllocated
    <2>3. QED  BY <1>2, <1>3, <2>2
  <1>6. Serves(packet, object, t, c, d, NoPacket)
    BY <1>3, <1>4, <1>5 DEF Serves
  <1>7. /\ ThreadOK(packet, object, t, d) /\ d \in CallRecord
        /\ \A h : h \in Owned(object, t, c) => h \in Owned(object, t, d)
    BY <1>5, <1>6, ThreadGets DEF Gets
  <1>8. ThreadOK(packet, object', t, d)
    BY <1>3, <1>7
  <1>9. ~Careless => \A h \in Owned(object, t, call[t]) \cup received \cup sent :
           h \in received' \cup sent' \/ h \in Owned(object', t, d)
    BY <1>1, <1>3, <1>7
  <1>10. QED  BY <1>3, <1>4, <1>7, <1>8, <1>9, NoPacketMoves

(* An append or a copy ends when it got no packet. *)
LEMMA GiveUpKeeps ==
  ASSUME Good, NEW t \in Threads, GiveUp(t), IInv', OwnInv'
  PROVE  Good'
  <1>1. PICK c, d : c = call[t] /\ d = Abandoned(c)
    OBVIOUS
  <1>2. /\ c.pc = "allocated" /\ c.op # "allocate" /\ c.got = NoPacket /\ Goes(t, d)
        /\ packet' = packet /\ object' = object /\ noPreempt' = noPreempt
        /\ received' = received /\ sent' = sent
    BY <1>1 DEF GiveUp, At, poolVars, queueVars, stackVars
  <1>3. /\ OwnInv /\ t \in Callers /\ c \in CallRecord /\ ThreadOK(packet, object, t, c) /\ Phases(c)
        /\ Sparse(t, c) /\ Aims(object, t, c)
        /\ object \in [Objects -> Pointer] /\ noPreempt \subseteq Callers
    BY <1>1 DEF Good, Typed, Callers, OwnInv, Calls, CallOf, ThreadOK
  <1>4. c.op \in {"append", "copy"} /\ c.type = 0 /\ c.free = NoPacket
        /\ (c.op = "append" => c.target # NoPacket)
    BY <1>2, <1>3 DEF Phases, Sparse
  <1>5. \A h \in Data(object, t, c) : Ends(packet, h) /\ Complete(packet, h)
    <2>1. \A h \in Data(object, t, c) : h \in Owned(object, t, c)
      BY DEF Owned
    <2>2. c.pc # "fill"
      BY <1>2
    <2>3. QED  BY <1>3, <2>1, <2>2 DEF ThreadOK
  <1>6. /\ c.list # NoPacket => c.list \in Owned(object, t, c)
        /\ c.op = "copy" /\ c.target # NoPacket => c.target \in Owned(object, t, c)
    <2>1. c.list \in Pointer /\ c.target \in Pointer
      BY <1>3 DEF CallRecord
    <2>2. QED  BY <2>1 DEF Owned, Data, OfCopy, Pointer
  <1>7. \A h \in Owned(object, t, c) : Ends(packet, h) /\ packet[h].mark = "ALLOCATED"
    <2>1. \A h \in Owned(object, t, c) : IsHead(h) /\ OnChain(packet, h, h) /\ Ends(packet, h)
      BY <1>1, <1>3, HeadEnds, OnItself DEF IsHead
    <2>2. QED  BY <2>1, ChainAllocated
  <1>8. GivenUp(packet, object, t, c)
    BY <1>2, <1>3, <1>4, <1>5, <1>6, <1>7 DEF GivenUp, Aims
  <1>9. /\ d \in CallRecord /\ ThreadOK(packet, object, t, d)
        /\ \A h : h \in Owned(object, t, d) <=> h \in Data(object, t, c) \/ (h \in Packets /\ h = c.list)
    BY <1>1, <1>8, AbandonedOK
  <1>10. \A h \in Owned(object, t, c) : h \in Owned(object, t, d)
    BY <1>2, <1>4, <1>9, PoolAssumption DEF Owned
  <1>11. ThreadOK(packet, object', t, d)
    BY <1>2, <1>9
  <1>12. ~Careless => \A h \in Owned(object, t, call[t]) \cup received \cup sent :
           h \in received' \cup sent' \/ h \in Owned(object', t, d)
    BY <1>1, <1>2, <1>10
  <1>13. QED  BY <1>2, <1>3, <1>9, <1>11, <1>12, NoPacketMoves

-----------------------------------------------------------------------------
(* What the application calls.                                             *)
LEMMA WhenIdle ==
  ASSUME Good, NEW t \in Callers, call[t].pc = "idle"
  PROVE  /\ call[t] = Idle /\ call[t] \in CallRecord
         /\ Owned(object, t, call[t]) = OfObjects(object, t, Idle)
         /\ \A h \in OfObjects(object, t, Idle) :
              Ends(packet, h) /\ Complete(packet, h) /\ packet[h].mark = "ALLOCATED"
  <1>1. call[t] = Idle /\ ThreadOK(packet, object, t, Idle)
    BY DEF Good, ThreadOK, Sparse
  <1>2. Data(object, t, Idle) = OfObjects(object, t, Idle)
        /\ Owned(object, t, Idle) = OfObjects(object, t, Idle)
    BY IdleTyped, PoolAssumption DEF Data, OfCopy, Owned
  <1>3. \A h \in OfObjects(object, t, Idle) : Ends(packet, h) /\ Complete(packet, h)
    BY <1>1, <1>2, IdleTyped DEF ThreadOK
  <1>4. \A h \in OfObjects(object, t, Idle) : packet[h].mark = "ALLOCATED"
    <2>1. \A h \in OfObjects(object, t, Idle) : IsHead(h) /\ OnChain(packet, h, h)
      BY <1>1, <1>2, <1>3, OnItself DEF IsHead
    <2>2. QED  BY <2>1, ChainAllocated
  <1>5. QED  BY <1>1, <1>2, <1>3, <1>4, IdleTyped

(* What the objects of a thread hold when it calls nothing. *)
LEMMA OfIdle ==
  ASSUME NEW ob, NEW t \in Threads
  PROVE  \A h : h \in OfObjects(ob, t, Idle) <=> h \in Packets /\ \E o \in ObjectsOf[t] : ob[o] = h
  BY IdleTyped DEF OfObjects

(* The application appends data. *)
LEMMA CallAppendKeeps ==
  ASSUME Good, NEW t \in Threads, NEW o \in ObjectsOf[t], NEW size \in Sizes, NEW wait \in WaitsOf[t],
         CallAppend(t, o, size, wait), IInv', OwnInv'
  PROVE  Good'
  <1>1. PICK d : d = [Idle EXCEPT !.pc = "append", !.op = "append", !.wait = wait,
                                  !.size = size, !.target = object[o]]
    OBVIOUS
  <1>2. /\ call[t].pc = "idle" /\ object[o] # NoPacket /\ Goes(t, d)
        /\ packet' = packet /\ object' = object /\ noPreempt' = noPreempt
        /\ received' = received /\ sent' = sent
    BY <1>1 DEF CallAppend, At, poolVars, queueVars, stackVars
  <1>3. t \in Callers /\ object \in [Objects -> Pointer] /\ noPreempt \subseteq Callers /\ o \in Objects
    BY DEF Good, Typed, Callers, Objects
  <1>4. object[o] \in Packets /\ wait \in {"none", "ticks", "forever"} /\ size \in Nat
    BY <1>2, <1>3, PoolAssumption DEF Pointer
  <1>5. /\ d.pc = "append" /\ d.op = "append" /\ d.size = size /\ d.target = object[o] /\ d.obj = {}
        /\ d.list = NoPacket /\ d.got = NoPacket /\ d.free = NoPacket /\ d.type = 0
    BY <1>1 DEF Idle
  <1>6. d \in CallRecord
    <2>1. Idle \in CallRecord /\ object[o] \in Pointer
      BY <1>4, IdleTyped DEF Pointer
    <2>2. QED  BY <1>1, <1>4, <2>1 DEF CallRecord
  <1>7. OfObjects(object, t, d) = OfObjects(object, t, Idle)
    BY <1>5, IdleTyped DEF OfObjects
  <1>8. Data(object, t, d) = OfObjects(object, t, Idle) /\ Owned(object, t, d) = OfObjects(object, t, Idle)
    BY <1>5, <1>7, PoolAssumption DEF Data, OfCopy, Owned
  <1>9. ThreadOK(packet, object, t, d)
    <2>1. Sparse(t, d)
      BY <1>2, <1>4, <1>5, PoolAssumption DEF Sparse
    <2>2. Aims(object, t, d)
      <3>1. d.target \in OfObjects(object, t, Idle)
        BY <1>4, <1>5, OfIdle
      <3>2. QED  BY <1>5, <1>7, <3>1 DEF Aims
    <2>3. Extending(packet, d) /\ Copying(packet, object, t, d)
      BY <1>5 DEF Extending, Copying
    <2>4. QED  BY <1>2, <1>3, <1>5, <1>8, <2>1, <2>2, <2>3, WhenIdle DEF ThreadOK
  <1>10. ThreadOK(packet, object', t, d)
    BY <1>2, <1>9
  <1>11. ~Careless => \A h \in Owned(object, t, call[t]) \cup received \cup sent :
           h \in received' \cup sent' \/ h \in Owned(object', t, d)
    BY <1>2, <1>3, <1>8, WhenIdle
  <1>12. QED  BY <1>2, <1>3, <1>6, <1>10, <1>11, NoPacketMoves

(* The application releases a packet. *)
LEMMA CallReleaseKeeps ==
  ASSUME Good, NEW t \in Threads, NEW o \in ObjectsOf[t], CallRelease(t, o), IInv', OwnInv'
  PROVE  Good'
  <1>1. PICK b, p : b = [Idle EXCEPT !.op = "release", !.obj = {o}] /\ p = object[o]
    OBVIOUS
  <1>2. PICK d : d = Releasing(b, p)
    OBVIOUS
  <1>3. /\ call[t].pc = "idle" /\ p # NoPacket /\ Goes(t, d)
        /\ packet' = packet /\ object' = object /\ noPreempt' = noPreempt
        /\ received' = received /\ sent' = sent
    BY <1>1, <1>2 DEF CallRelease, At, poolVars, queueVars, stackVars
  <1>4. t \in Callers /\ object \in [Objects -> Pointer] /\ noPreempt \subseteq Callers /\ o \in Objects
    BY DEF Good, Typed, Callers, Objects
  <1>5. p \in Packets /\ p \in OfObjects(object, t, Idle)
    BY <1>1, <1>3, <1>4, OfIdle DEF Pointer
  <1>6. Ends(packet, p) /\ packet[p].mark = "ALLOCATED"
    BY <1>3, <1>4, <1>5, WhenIdle
  <1>7. /\ b \in CallRecord /\ b.op = "release" /\ b.obj = {o} /\ b.type = 0
        /\ b.target = NoPacket /\ b.list = NoPacket /\ b.got = NoPacket
    BY <1>1, <1>4, IdleTyped DEF Idle, CallRecord
  <1>8. /\ d \in CallRecord /\ d.pc = "put" /\ d.free = p
        /\ d.list = NoPacket /\ d.got = NoPacket /\ d.op = "release" /\ d.obj = {o} /\ d.type = 0
        /\ d.target = NoPacket
    BY <1>2, <1>5, <1>6, <1>7, ReleasingIs
  <1>9. Data(object, t, d) = OfObjects(object, t, d)
        /\ \A h : h \in OfObjects(object, t, d) <=>
                    h \in Packets /\ \E x \in ObjectsOf[t] : object[x] = h /\ x # o
    BY <1>8 DEF Data, OfCopy, OfObjects
  <1>10. Puts(packet, object, t, d, p)
    <2>1. \A h \in Data(object, t, d) : Ends(packet, h) /\ Complete(packet, h)
      BY <1>3, <1>4, <1>9, WhenIdle, OfIdle
    <2>2. QED  BY <1>5, <1>6, <1>8, <2>1 DEF Puts
  <1>11. /\ ThreadOK(packet, object, t, d)
         /\ \A h : h \in Owned(object, t, d) <=> h \in Data(object, t, d) \/ h = p
    BY <1>10, PutOK
  <1>12. \A h \in Owned(object, t, call[t]) : h \in Owned(object, t, d)
    BY <1>1, <1>3, <1>4, <1>9, <1>11, WhenIdle, OfIdle
  <1>13. ThreadOK(packet, object', t, d)
    BY <1>3, <1>11
  <1>14. ~Careless => \A h \in Owned(object, t, call[t]) \cup received \cup sent :
           h \in received' \cup sent' \/ h \in Owned(object', t, d)
    BY <1>3, <1>12
  <1>15. QED  BY <1>3, <1>4, <1>8, <1>13, <1>14, NoPacketMoves

(* A call of a thread stays as it is. *)
LEMMA StaysThere ==
  ASSUME Good, NEW t \in Callers, call' = call
  PROVE  Goes(t, call[t])
  BY DEF Good, Typed, Goes

(* A send of NetX takes a packet. *)
LEMMA SendKeeps ==
  ASSUME Good, NEW t \in Threads, NEW o \in ObjectsOf[t], Send(t, o), IInv', OwnInv'
  PROVE  Good'
  <1>1. PICK p, ob : p = object[o] /\ ob = [object EXCEPT ![o] = NoPacket]
    OBVIOUS
  <1>2. /\ call[t].pc = "idle" /\ p # NoPacket /\ call' = call /\ packet' = packet
        /\ object' = ob /\ noPreempt' = noPreempt /\ received' = received /\ sent' = sent \cup {p}
    BY <1>1 DEF Send, At, poolVars, queueVars
  <1>3. t \in Callers /\ object \in [Objects -> Pointer] /\ noPreempt \subseteq Callers /\ o \in Objects
    BY DEF Good, Typed, Callers, Objects
  <1>4. p \in Packets /\ p \in OfObjects(object, t, Idle)
    BY <1>1, <1>2, <1>3, OfIdle DEF Pointer
  <1>5. /\ ob \in [Objects -> Pointer] /\ ob[o] = NoPacket
        /\ \A x \in Objects : x # o => ob[x] = object[x]
    BY <1>1, <1>3 DEF Pointer
  <1>6. \A u \in Threads : \A x \in ObjectsOf[u] : x \in Objects
    BY DEF Objects
  <1>7. \A h : h \in OfObjects(ob, t, Idle) =>  h \in OfObjects(object, t, Idle)
    BY <1>5, <1>6, OfIdle, PoolAssumption
  <1>8. \A h \in OfObjects(object, t, Idle) : h = p \/ h \in OfObjects(ob, t, Idle)
    <2> SUFFICES ASSUME NEW h \in OfObjects(object, t, Idle), h # p PROVE h \in OfObjects(ob, t, Idle)
      OBVIOUS
    <2>1. PICK x \in ObjectsOf[t] : object[x] = h
      BY OfIdle
    <2>2. h \in Packets /\ ob[x] = h
      BY <1>1, <1>5, <1>6, <2>1, OfIdle
    <2>3. QED  BY <2>2, OfIdle
  <1>9. ThreadOK(packet, ob, t, Idle) /\ Owned(ob, t, Idle) = OfObjects(ob, t, Idle)
    BY <1>2, <1>3, <1>7, WhenIdle, IdleOK
  <1>10. Goes(t, Idle) /\ Idle \in CallRecord
    BY <1>2, <1>3, StaysThere, WhenIdle
  <1>11. \A u \in Threads \ {t} : \A x \in ObjectsOf[u] : object'[x] = object[x]
    BY <1>2, <1>5, <1>6, PoolAssumption
  <1>12. \A h \in received' \cup sent' :
           h \in received \cup sent \/ (Ends(packet, h) /\ Complete(packet, h))
    BY <1>2, <1>3, <1>4, WhenIdle
  <1>13. ThreadOK(packet, object', t, Idle)
    BY <1>2, <1>9
  <1>14. ~Careless => \A h \in Owned(object, t, call[t]) \cup received \cup sent :
           h \in received' \cup sent' \/ h \in Owned(object', t, Idle)
    BY <1>2, <1>3, <1>8, <1>9, WhenIdle
  <1>15. noPreempt' \subseteq Callers /\ object' \in [Objects -> Pointer]
    BY <1>2, <1>3, <1>5
  <1>16. QED  BY <1>2, <1>3, <1>10, <1>11, <1>12, <1>13, <1>14, <1>15, NoPacketMoves

(* An object gets a packet that was received. *)
LEMMA AdoptKeeps ==
  ASSUME Good, NEW t \in Threads, NEW o \in ObjectsOf[t], NEW p \in received, Adopt(t, o, p), IInv', OwnInv'
  PROVE  Good'
  <1>1. PICK ob : ob = [object EXCEPT ![o] = p]
    OBVIOUS
  <1>2. /\ call[t].pc = "idle" /\ object[o] = NoPacket /\ call' = call /\ packet' = packet
        /\ object' = ob /\ noPreempt' = noPreempt /\ received' = received \ {p} /\ sent' = sent
    BY <1>1 DEF Adopt, At, poolVars, queueVars
  <1>3. t \in Callers /\ object \in [Objects -> Pointer] /\ noPreempt \subseteq Callers /\ o \in Objects
    BY DEF Good, Typed, Callers, Objects
  <1>4. p \in Packets /\ Ends(packet, p) /\ Complete(packet, p)
    BY DEF Good, OwnInv, Stack, NetOK
  <1>5. /\ ob \in [Objects -> Pointer] /\ ob[o] = p
        /\ \A x \in Objects : x # o => ob[x] = object[x]
    BY <1>1, <1>3, <1>4 DEF Pointer
  <1>6. \A u \in Threads : \A x \in ObjectsOf[u] : x \in Objects
    BY DEF Objects
  <1>7. \A h : h \in OfObjects(ob, t, Idle) => h = p \/ h \in OfObjects(object, t, Idle)
    BY <1>5, <1>6, OfIdle, PoolAssumption
  <1>8. p \in OfObjects(ob, t, Idle) /\ \A h \in OfObjects(object, t, Idle) : h \in OfObjects(ob, t, Idle)
    BY <1>2, <1>4, <1>5, <1>6, OfIdle, PoolAssumption
  <1>9. ThreadOK(packet, ob, t, Idle) /\ Owned(ob, t, Idle) = OfObjects(ob, t, Idle)
    BY <1>2, <1>3, <1>4, <1>7, WhenIdle, IdleOK
  <1>10. Goes(t, Idle) /\ Idle \in CallRecord
    BY <1>2, <1>3, StaysThere, WhenIdle
  <1>11. \A u \in Threads \ {t} : \A x \in ObjectsOf[u] : object'[x] = object[x]
    BY <1>2, <1>5, <1>6, PoolAssumption
  <1>12. \A h \in received' \cup sent' :
           h \in received \cup sent \/ (Ends(packet, h) /\ Complete(packet, h))
    BY <1>2
  <1>13. ThreadOK(packet, object', t, Idle)
    BY <1>2, <1>9
  <1>14. ~Careless => \A h \in Owned(object, t, call[t]) \cup received \cup sent :
           h \in received' \cup sent' \/ h \in Owned(object', t, Idle)
    BY <1>2, <1>3, <1>8, <1>9, WhenIdle
  <1>15. noPreempt' \subseteq Callers /\ object' \in [Objects -> Pointer]
    BY <1>2, <1>3, <1>5
  <1>16. QED  BY <1>2, <1>3, <1>10, <1>11, <1>12, <1>13, <1>14, <1>15, NoPacketMoves

(* NetX or the driver releases a packet. *)
LEMMA StackReleaseKeeps ==
  ASSUME Good, NEW p \in Packets, StackRelease(p), IInv', OwnInv'
  PROVE  Good'
  <1>1. PICK t, b : t = IpThread /\ b = [Idle EXCEPT !.op = "stack"]
    OBVIOUS
  <1>2. PICK d : d = Releasing(b, p)
    OBVIOUS
  <1>3. /\ call[t].pc = "idle" /\ p \in received \cup sent /\ Goes(t, d)
        /\ packet' = packet /\ object' = object /\ noPreempt' = noPreempt
        /\ received' = received \ {p} /\ sent' = sent \ {p}
    BY <1>1, <1>2 DEF StackRelease, At, poolVars, queueVars
  <1>4. /\ t \in Callers /\ t \notin Threads /\ object \in [Objects -> Pointer]
        /\ noPreempt \subseteq Callers
    BY <1>1, PoolAssumption DEF Good, Typed, Callers
  <1>5. Ends(packet, p) /\ packet[p].mark = "ALLOCATED"
    <2>1. IsHead(p)
      BY <1>3 DEF IsHead
    <2>2. Ends(packet, p) /\ OnChain(packet, p, p)
      BY <2>1, HeadEnds, OnItself
    <2>3. QED  BY <2>1, <2>2, ChainAllocated
  <1>6. /\ b \in CallRecord /\ b.op = "stack" /\ b.obj = {} /\ b.type = 0
        /\ b.target = NoPacket /\ b.list = NoPacket /\ b.got = NoPacket
    BY <1>1, IdleTyped DEF Idle, CallRecord
  <1>7. /\ d \in CallRecord /\ d.pc = "put" /\ d.free = p
        /\ d.list = NoPacket /\ d.got = NoPacket /\ d.op = "stack" /\ d.target = NoPacket
    BY <1>2, <1>5, <1>6, ReleasingIs
  <1>8. Data(object, t, d) = {} /\ OfObjects(object, t, Idle) = {}
    BY <1>4, <1>7 DEF Data, OfCopy, OfObjects
  <1>9. Puts(packet, object, t, d, p)
    BY <1>5, <1>7, <1>8 DEF Puts
  <1>10. ThreadOK(packet, object, t, d) /\ p \in Owned(object, t, d)
    BY <1>9, PutOK
  <1>11. ThreadOK(packet, object', t, d)
    BY <1>3, <1>10
  <1>12. ~Careless => \A h \in Owned(object, t, call[t]) \cup received \cup sent :
           h \in received' \cup sent' \/ h \in Owned(object', t, d)
    BY <1>3, <1>4, <1>8, <1>10, WhenIdle
  <1>13. \A h \in received' \cup sent' :
           h \in received \cup sent \/ (Ends(packet, h) /\ Complete(packet, h))
    BY <1>3
  <1>14. QED  BY <1>3, <1>4, <1>7, <1>11, <1>12, <1>13, NoPacketMoves

(* A single packet is a complete chain. *)
LEMMA FreshComplete ==
  ASSUME NEW pk \in [Packets -> PacketRecord], NEW p \in Packets,
         pk[p].next = NoPacket, pk[p].last = NoPacket,
         pk[p].length + pk[p].prepend = pk[p].used
  PROVE  Ends(pk, p) /\ Complete(pk, p) /\ Follow(pk, p) = <<p>>
  <1>1. Ends(pk, p) /\ Follow(pk, p) = <<p>>
    BY OneEnds
  <1>2. SumAlong(UsedOf(pk), <<p>>) = pk[p].used
    <2>1. UsedOf(pk)[p] = pk[p].used /\ pk[p].used \in Int
      <3>1. pk[p] \in PacketRecord
        OBVIOUS
      <3>2. QED  BY <3>1, PoolAssumption DEF PacketRecord, UsedOf
    <2>2. QED  BY <2>1, SumOne
  <1>3. Len(<<p>>) = 1 /\ (1..(1 - 1)) = {} /\ (2..1) = {}
    OBVIOUS
  <1>4. LastOf(<<p>>, 1) = NoPacket
    BY DEF LastOf
  <1>5. Complete(pk, p)
    BY <1>1, <1>2, <1>3, <1>4 DEF Complete
  <1>6. QED  BY <1>1, <1>5

(* A frame is received into a free packet. *)
LEMMA ReceiveKeeps ==
  ASSUME Good, NEW size \in FrameSizes, Receive(size), IInv', OwnInv'
  PROVE  Good'
  <1>1. PICK f, q : f = Head(available) /\ q = [Fresh(0) EXCEPT !.length = size, !.used = size]
    OBVIOUS
  <1>2. /\ available # <<>> /\ packet' = [packet EXCEPT ![f] = q] /\ received' = received \cup {f}
        /\ noPreempt' = noPreempt /\ object' = object /\ sent' = sent /\ call' = call
    BY <1>1 DEF Receive, queueVars
  <1>3. f \in Packets /\ packet[f].mark = "FREE"
    BY <1>1, <1>2, FirstFree DEF Good, OwnInv
  <1>4. size \in 0..Room /\ size \in Nat
    BY PoolAssumption
  <1>5. /\ q \in PacketRecord /\ q.next = NoPacket /\ q.last = NoPacket
        /\ q.length = size /\ q.prepend = 0 /\ q.used = size
    <2>1. Fresh(0) \in PacketRecord /\ Fresh(0).next = NoPacket /\ Fresh(0).last = NoPacket
          /\ Fresh(0).prepend = 0
      BY Freshly DEF Fresh
    <2>2. PICK x \in PacketRecord : x = Fresh(0)
      BY <2>1
    <2>3. [x EXCEPT !.length = size, !.used = size] \in PacketRecord
      BY <1>4, <2>2 DEF PacketRecord
    <2>4. /\ [x EXCEPT !.length = size, !.used = size].length = size
          /\ [x EXCEPT !.length = size, !.used = size].used = size
          /\ [x EXCEPT !.length = size, !.used = size].next = x.next
          /\ [x EXCEPT !.length = size, !.used = size].last = x.last
          /\ [x EXCEPT !.length = size, !.used = size].prepend = x.prepend
      BY <2>2 DEF PacketRecord
    <2>5. QED  BY <1>1, <2>1, <2>2, <2>3, <2>4
  <1>6. packet' \in [Packets -> PacketRecord] /\ packet'[f] = q
    BY <1>2, <1>3, <1>5, TakenKeeps
  <1>7. Ends(packet', f) /\ Complete(packet', f)
    <2>1. PICK new : new = packet'
      OBVIOUS
    <2>2. new \in [Packets -> PacketRecord] /\ new[f] = q
      BY <1>6, <2>1
    <2>3. new[f].length + new[f].prepend = new[f].used
      BY <1>4, <1>5, <2>2
    <2>4. QED  BY <1>3, <1>5, <2>1, <2>2, <2>3, FreshComplete
  <1>8. packet \in [Packets -> PacketRecord] /\ noPreempt' \subseteq Callers
        /\ object' \in [Objects -> Pointer] /\ call' \in [Callers -> CallRecord]
    BY <1>2 DEF Good, Typed
  <1> DEFINE W == {}
  <1>9. Acts(W) /\ W \in SUBSET Callers
    <2>1. \A x \in Packets : packet'[x] = packet[x] \/ packet[x].mark = "FREE"
      BY <1>2, <1>3, <1>8
    <2>2. QED  BY <1>2, <1>6, <2>1 DEF Acts
  <1>10. \A x \in Packets : packet'[x].mark = "ALLOCATED" /\ packet[x].mark = "FREE" => Somewhere(x)'
    <2>1. \A x \in Packets : packet'[x].mark = "ALLOCATED" /\ packet[x].mark = "FREE" => x = f
      BY <1>2, <1>3, <1>8
    <2>2. Somewhere(f)'
      <3>1. OnChain(packet', f, f) /\ f \in received' \cup sent'
        BY <1>2, <1>7, OnItself
      <3>2. QED  BY <3>1 DEF Somewhere
    <2>3. QED  BY <2>1, <2>2
  <1>11. /\ \A h \in received' \cup sent' :
              h \in received \cup sent \/ (Ends(packet', h) /\ Complete(packet', h))
         /\ received \cup sent \subseteq received' \cup sent'
    BY <1>2, <1>7
  <1>12. ~Careless => \A x \in Packets :
           packet'[x].mark = "ALLOCATED" =>
             /\ packet[x].mark = "FREE" => Somewhere(x)'
             /\ \A w \in W : Has(w, x) => Somewhere(x)'
             /\ \A h \in received \cup sent :
                  OnChain(packet, h, x) /\ h \notin received' \cup sent' => Somewhere(x)'
    BY <1>10, <1>11
  <1>13. \A w \in W : ThreadOK(packet', object', w, call'[w])
    OBVIOUS
  <1> HIDE DEF W
  <1>14. QED  BY <1>8, <1>9, <1>11, <1>12, <1>13, GoodNext

(* The application allocates a packet. *)
LEMMA CallAllocateKeeps ==
  ASSUME Good, NEW t \in Threads, NEW o \in ObjectsOf[t], NEW type \in Offsets, NEW wait \in WaitsOf[t],
         CallAllocate(t, o, type, wait), IInv', OwnInv'
  PROVE  Good'
  <1>1. PICK c, ob : c = [Idle EXCEPT !.op = "allocate", !.obj = {o}, !.type = type, !.wait = wait]
                     /\ ob = [object EXCEPT ![o] = NoPacket]
    OBVIOUS
  <1>2. PICK e : e = [c EXCEPT !.pc = "suspended"]
    OBVIOUS
  <1>3. /\ call[t].pc = "idle" /\ (Careless \/ object[o] = NoPacket) /\ Allocate(t, c)
        /\ object' = ob /\ received' = received /\ sent' = sent
    BY <1>1 DEF CallAllocate, At, stackVars
  <1>4. t \in Callers /\ object \in [Objects -> Pointer] /\ o \in Objects
    BY DEF Good, Typed, Callers, Objects
  <1>5. /\ ob \in [Objects -> Pointer] /\ ob[o] = NoPacket
        /\ \A x \in Objects : x # o => ob[x] = object[x]
    BY <1>1, <1>4 DEF Pointer
  <1>6. \A u \in Threads : \A x \in ObjectsOf[u] : x \in Objects
    BY DEF Objects
  <1>7. c \in CallRecord /\ c.got = NoPacket
    <2>1. wait \in {"none", "ticks", "forever"}
      BY PoolAssumption
    <2>2. QED  BY <1>1, <1>4, <2>1, IdleTyped DEF Idle, CallRecord
  <1>8. /\ e.pc = "suspended" /\ e.op = "allocate" /\ e.obj = {o}
        /\ e.target = NoPacket /\ e.list = NoPacket /\ e.got = NoPacket /\ e.free = NoPacket
    BY <1>1, <1>2 DEF Idle
  <1>9. OfObjects(ob, t, e) = OfObjects(ob, t, Idle)
    BY <1>8, IdleTyped DEF OfObjects
  <1>10. Data(ob, t, e) = OfObjects(ob, t, Idle) /\ Owned(ob, t, e) = OfObjects(ob, t, Idle)
    BY <1>8, <1>9, PoolAssumption DEF Data, OfCopy, Owned
  <1>11. \A h : h \in OfObjects(ob, t, Idle) => h \in OfObjects(object, t, Idle)
    BY <1>5, <1>6, OfIdle, PoolAssumption
  <1>12. Phases(e) /\ ThreadOK(packet, ob, t, e)
    <2>1. Phases(e) /\ Sparse(t, e)
      BY <1>8 DEF Phases, Sparse
    <2>2. Aims(ob, t, e)
      BY <1>5, <1>8 DEF Aims
    <2>3. Extending(packet, e) /\ Copying(packet, ob, t, e)
      BY <1>8 DEF Extending, Copying
    <2>4. QED  BY <1>3, <1>4, <1>8, <1>10, <1>11, <2>1, <2>2, <2>3, WhenIdle DEF ThreadOK
  <1>13. ~Careless => \A h \in OfObjects(object, t, Idle) : h \in OfObjects(ob, t, Idle)
    <2> SUFFICES ASSUME ~Careless, NEW h \in OfObjects(object, t, Idle) PROVE h \in OfObjects(ob, t, Idle)
      OBVIOUS
    <2>1. PICK x \in ObjectsOf[t] : object[x] = h
      BY OfIdle
    <2>2. h \in Packets /\ ob[x] = h
      BY <1>3, <1>5, <1>6, <2>1, OfIdle, PoolAssumption
    <2>3. QED  BY <2>2, OfIdle
  <1>14. /\ Owned(object', t, e) \subseteq Owned(object, t, call[t])
         /\ ~Careless => Owned(object, t, call[t]) \subseteq Owned(object', t, e)
         /\ ThreadOK(packet, object', t, e) /\ object' \in [Objects -> Pointer]
    BY <1>3, <1>4, <1>5, <1>10, <1>11, <1>12, <1>13, WhenIdle
  <1>15. \A u \in Threads \ {t} : \A x \in ObjectsOf[u] : object'[x] = object[x]
    BY <1>3, <1>5, <1>6, PoolAssumption
  <1>16. QED  BY <1>2, <1>3, <1>7, <1>12, <1>14, <1>15, AllocateKeeps

(* The application copies a packet. *)
LEMMA CallCopyKeeps ==
  ASSUME Good, NEW t \in Threads, NEW o \in ObjectsOf[t], NEW wait \in WaitsOf[t],
         CallCopy(t, o, wait), IInv', OwnInv'
  PROVE  Good'
  <1>1. PICK other \in ObjectsOf[t] \ {o} :
          /\ object[other] = NoPacket
          /\ Allocate(t, [Idle EXCEPT !.op = "copy", !.obj = {other}, !.wait = wait,
                                      !.source = object[o], !.from = object[o]])
    BY DEF CallCopy
  <1>2. PICK c : c = [Idle EXCEPT !.op = "copy", !.obj = {other}, !.wait = wait,
                                  !.source = object[o], !.from = object[o]]
    OBVIOUS
  <1>3. PICK e : e = [c EXCEPT !.pc = "suspended"]
    OBVIOUS
  <1>4. /\ call[t].pc = "idle" /\ object[o] # NoPacket /\ Allocate(t, c)
        /\ object' = object /\ received' = received /\ sent' = sent
    BY <1>1, <1>2 DEF CallCopy, At, stackVars
  <1>5. t \in Callers /\ object \in [Objects -> Pointer] /\ o \in Objects /\ other \in Objects
    BY DEF Good, Typed, Callers, Objects
  <1>6. object[o] \in Packets /\ object[o] \in Pointer
    BY <1>4, <1>5 DEF Pointer
  <1>7. c \in CallRecord /\ c.got = NoPacket
    <2>1. wait \in {"none", "ticks", "forever"}
      BY PoolAssumption
    <2>2. QED  BY <1>2, <1>5, <1>6, <2>1, IdleTyped DEF Idle, CallRecord
  <1>8. /\ e.pc = "suspended" /\ e.op = "copy" /\ e.obj = {other} /\ e.type = 0
        /\ e.target = NoPacket /\ e.list = NoPacket /\ e.got = NoPacket /\ e.free = NoPacket
        /\ e.source = object[o] /\ e.from = object[o]
    BY <1>2, <1>3 DEF Idle
  <1>9. OfObjects(object, t, e) = OfObjects(object, t, Idle)
    BY <1>8, IdleTyped DEF OfObjects
  <1>10. Data(object, t, e) = OfObjects(object, t, Idle) /\ Owned(object, t, e) = OfObjects(object, t, Idle)
    BY <1>8, <1>9, PoolAssumption DEF Data, OfCopy, Owned
  <1>11. Phases(e) /\ ThreadOK(packet, object, t, e)
    <2>1. Phases(e) /\ Sparse(t, e)
      BY <1>8 DEF Phases, Sparse
    <2>2. Aims(object, t, e)
      BY <1>1, <1>8 DEF Aims
    <2>3. Extending(packet, e)
      BY <1>8 DEF Extending
    <2>4. Copying(packet, object, t, e)
      <3>1. e.from \in OfObjects(object, t, Idle)
        BY <1>6, <1>8, OfIdle
      <3>2. Copied(packet, e)
        BY <1>8 DEF Copied
      <3>3. QED  BY <1>9, <3>1, <3>2 DEF Copying
    <2>5. QED  BY <1>4, <1>5, <1>8, <1>10, <2>1, <2>2, <2>3, <2>4, WhenIdle DEF ThreadOK
  <1>12. /\ Owned(object', t, e) \subseteq Owned(object, t, call[t])
         /\ ~Careless => Owned(object, t, call[t]) \subseteq Owned(object', t, e)
         /\ ThreadOK(packet, object', t, e) /\ object' \in [Objects -> Pointer]
         /\ \A u \in Threads \ {t} : \A x \in ObjectsOf[u] : object'[x] = object[x]
    BY <1>4, <1>5, <1>10, <1>11, WhenIdle
  <1>13. QED  BY <1>3, <1>4, <1>7, <1>11, <1>12, AllocateKeeps

-----------------------------------------------------------------------------
(* A call goes on.                                                         *)
LEMMA RoomIsNat ==
  ASSUME NEW pk \in [Packets -> PacketRecord], NEW c, Ends(pk, c.target), Complete(pk, c.target),
         c.list = NoPacket \/ Ends(pk, c.list)
  PROVE  /\ RoomIn(pk, Behind(pk, c.target)) \in Nat /\ RoomIn(pk, Follow(pk, c.list)) \in Nat
         /\ RoomFor(pk, c) \in Nat
  <1> DEFINE p == c.target
             s == Follow(pk, p)
             e == s[Len(s)]
  <1>1. RoomIn(pk, Behind(pk, p)) \in Nat
    <2>1. e \in Packets /\ RoomIn(pk, Behind(pk, p)) = Room - pk[e].used
      BY CompleteBehind
    <2> HIDE DEF e, p
    <2>2. pk[e] \in PacketRecord
      BY <2>1
    <2>3. pk[e].used \in 0..Room
      BY <2>2 DEF PacketRecord
    <2>4. QED  BY <2>1, <2>3, PoolAssumption
  <1>2. RoomIn(pk, Follow(pk, c.list)) \in Nat
    <2>1. CASE c.list = NoPacket
      BY <2>1, FollowNothing
    <2>2. CASE c.list # NoPacket
      <3>1. Follow(pk, c.list) \in Seq(Packets)
        BY <2>2, EndsElements
      <3>2. SumAlong(RoomOf(pk), Follow(pk, c.list)) \in Nat
        BY <3>1, PacketNumbers
      <3>3. QED  BY <3>2 DEF RoomIn, RoomOf
    <2>3. QED  BY <2>1, <2>2
  <1>3. QED  BY <1>1, <1>2 DEF RoomFor

(* What is known of a call that is under way. *)
LEMMA UnderWay ==
  ASSUME Good, NEW t \in Threads
  PROVE  /\ t \in Callers /\ OwnInv /\ packet \in [Packets -> PacketRecord]
         /\ object \in [Objects -> Pointer] /\ noPreempt \subseteq Callers
         /\ call[t] \in CallRecord /\ Phases(call[t]) /\ CallOf(t, call[t])
         /\ ThreadOK(packet, object, t, call[t])
         /\ Sparse(t, call[t]) /\ Aims(object, t, call[t])
         /\ Extending(packet, call[t]) /\ Copying(packet, object, t, call[t])
         /\ \A h \in Owned(object, t, call[t]) :
              IsHead(h) /\ Ends(packet, h) /\ packet[h].mark = "ALLOCATED"
  <1>1. /\ t \in Callers /\ OwnInv /\ packet \in [Packets -> PacketRecord]
        /\ object \in [Objects -> Pointer] /\ noPreempt \subseteq Callers
        /\ call[t] \in CallRecord /\ Phases(call[t]) /\ CallOf(t, call[t])
        /\ ThreadOK(packet, object, t, call[t])
    BY DEF Good, Typed, Callers, OwnInv, Calls, CallOf
  <1>2. \A h \in Owned(object, t, call[t]) : IsHead(h) /\ Ends(packet, h) /\ OnChain(packet, h, h)
    BY <1>1, HeadEnds, OnItself DEF IsHead
  <1>3. QED  BY <1>1, <1>2, ChainAllocated DEF ThreadOK

(* An append asks for one more packet. *)
LEMMA ExtendKeeps ==
  ASSUME Good, NEW t \in Threads, Extend(t), IInv', OwnInv'
  PROVE  Good'
  <1>1. PICK c : c = call[t]
    OBVIOUS
  <1>2. PICK e : e = [c EXCEPT !.pc = "suspended"]
    OBVIOUS
  <1>3. /\ c.pc = "append" /\ RoomFor(packet, c) < c.size /\ Allocate(t, c)
        /\ object' = object /\ received' = received /\ sent' = sent
    BY <1>1 DEF Extend, At, stackVars, AvailableBytes, RoomFor
  <1>4. /\ packet \in [Packets -> PacketRecord] /\ object \in [Objects -> Pointer]
        /\ c \in CallRecord /\ Phases(c)
        /\ ThreadOK(packet, object, t, c) /\ Sparse(t, c) /\ Aims(object, t, c)
        /\ Extending(packet, c) /\ Copying(packet, object, t, c)
    BY <1>1, UnderWay
  <1>5. /\ e \in CallRecord /\ e.pc = "suspended" /\ e.op = c.op /\ e.obj = c.obj /\ e.type = c.type
        /\ e.size = c.size /\ e.target = c.target /\ e.source = c.source /\ e.from = c.from
        /\ e.list = c.list /\ e.got = c.got /\ e.free = c.free
    BY <1>2, <1>4 DEF CallRecord
  <1>6. c.got = NoPacket /\ c.free = NoPacket /\ c.op \in {"append", "copy"}
    BY <1>3, <1>4 DEF Sparse, Phases
  <1>7. /\ OfObjects(object, t, e) = OfObjects(object, t, c)
        /\ Data(object, t, e) = Data(object, t, c) /\ Owned(object, t, e) = Owned(object, t, c)
    BY <1>5 DEF OfObjects, Data, OfCopy, Owned
  <1>8. c.target \in Data(object, t, c) /\ (c.list # NoPacket => c.list \in Owned(object, t, c))
        /\ \A h \in Data(object, t, c) : h \in Owned(object, t, c)
    BY <1>3, <1>4, InUse
  <1>9. RoomFor(packet, c) \in Nat /\ c.size \in Nat
    <2>1. Ends(packet, c.target) /\ Complete(packet, c.target) /\ (c.list = NoPacket \/ Ends(packet, c.list))
      BY <1>3, <1>4, <1>8 DEF ThreadOK
    <2>2. QED  BY <1>4, <2>1, RoomIsNat DEF CallRecord
  <1>10. ThreadOK(packet, object, t, e)
    <2>1. Sparse(t, e)
      BY <1>3, <1>4, <1>5, <1>6 DEF Sparse
    <2>2. Aims(object, t, e)
      BY <1>3, <1>4, <1>5, <1>7 DEF Aims, Busy
    <2>3. Extending(packet, e)
      <3>1. RoomFor(packet, e) = RoomFor(packet, c) /\ c.size > RoomFor(packet, c)
        BY <1>3, <1>5, <1>9 DEF RoomFor
      <3>2. QED  BY <1>4, <1>5, <3>1 DEF Extending
    <2>4. Copying(packet, object, t, e)
      <3>1. Copied(packet, c) => Copied(packet, e)
        BY <1>3, <1>5 DEF Copied
      <3>2. QED  BY <1>3, <1>4, <1>5, <1>7, <3>1 DEF Copying, Busy
    <2>5. \A h \in Data(object, t, e) : Complete(packet, h)
      BY <1>3, <1>4, <1>7 DEF ThreadOK
    <2>6. QED  BY <1>4, <1>5, <1>6, <1>7, <2>1, <2>2, <2>3, <2>4, <2>5 DEF ThreadOK
  <1>11. Phases(e)
    BY <1>5, <1>6 DEF Phases
  <1>12. /\ Owned(object', t, e) \subseteq Owned(object, t, call[t])
         /\ ~Careless => Owned(object, t, call[t]) \subseteq Owned(object', t, e)
         /\ ThreadOK(packet, object', t, e) /\ object' \in [Objects -> Pointer]
         /\ \A u \in Threads \ {t} : \A x \in ObjectsOf[u] : object'[x] = object[x]
    BY <1>1, <1>3, <1>4, <1>7, <1>10
  <1>13. QED  BY <1>2, <1>3, <1>4, <1>6, <1>11, <1>12, AllocateKeeps

(* What the first packets of a chain use. *)
LEMMA UpTo ==
  ASSUME NEW pk \in [Packets -> PacketRecord], NEW h, Ends(pk, h)
  PROVE  /\ UsedUpTo(pk, h, 0) = 0
         /\ UsedUpTo(pk, h, Len(Follow(pk, h))) = SumAlong(UsedOf(pk), Follow(pk, h))
         /\ \A k \in 1..Len(Follow(pk, h)) :
              /\ UsedUpTo(pk, h, k) = UsedUpTo(pk, h, k - 1) + pk[Follow(pk, h)[k]].used
              /\ UsedUpTo(pk, h, k - 1) \in Nat /\ UsedUpTo(pk, h, k) \in Nat
              /\ pk[Follow(pk, h)[k]].used \in Nat
  <1> DEFINE s == Follow(pk, h)
  <1>1. s \in Seq(Packets) /\ Len(s) \in Nat
    BY EndsElements
  <1> HIDE DEF s
  <1>2. SubSeq(s, 1, 0) = <<>> /\ SubSeq(s, 1, Len(s)) = s
    BY <1>1
  <1>3. /\ Numbers(UsedOf(pk), s)
        /\ \A i \in 1..Len(s) : UsedOf(pk)[s[i]] = pk[s[i]].used /\ pk[s[i]].used \in 0..Room
    BY <1>1, PacketNumbers
  <1>4. \A k \in 0..Len(s) : SubSeq(s, 1, k) \in Seq(Packets)
    BY <1>1, SubSeqProperties
  <1>5. \A k \in 0..Len(s) : SumAlong(UsedOf(pk), SubSeq(s, 1, k)) \in Nat
    BY <1>4, PacketNumbers
  <1>6. \A k \in 1..Len(s) : k \in 0..Len(s) /\ k - 1 \in 0..Len(s)
    BY <1>1
  <1>7. \A k \in 1..Len(s) :
          SumAlong(UsedOf(pk), SubSeq(s, 1, k)) = SumAlong(UsedOf(pk), SubSeq(s, 1, k - 1)) + pk[s[k]].used
    BY <1>1, <1>3, SumStep
  <1>8. \A k \in 1..Len(s) : pk[s[k]].used \in Nat
    BY <1>3, PoolAssumption
  <1>9. QED  BY <1>2, <1>5, <1>6, <1>7, <1>8, SumEmpty DEF UsedUpTo, s

(* A copy has its first packet. *)
LEMMA StartCopyKeeps ==
  ASSUME Good, NEW t \in Threads, StartCopy(t), IInv', OwnInv'
  PROVE  Good'
  <1>1. PICK c : c = call[t]
    OBVIOUS
  <1>2. PICK d : d = [c EXCEPT !.pc = "append", !.target = c.got, !.got = NoPacket,
                               !.size = packet[c.source].used]
    OBVIOUS
  <1>3. /\ c.pc = "allocated" /\ c.op = "copy" /\ c.target = NoPacket /\ c.got # NoPacket /\ Goes(t, d)
        /\ packet' = packet /\ object' = object /\ noPreempt' = noPreempt
        /\ received' = received /\ sent' = sent
    BY <1>1, <1>2 DEF StartCopy, At, poolVars, queueVars, stackVars
  <1>4. /\ packet \in [Packets -> PacketRecord] /\ object \in [Objects -> Pointer]
        /\ noPreempt \subseteq Callers /\ t \in Callers
        /\ c \in CallRecord /\ ThreadOK(packet, object, t, c) /\ Sparse(t, c) /\ Aims(object, t, c)
        /\ Copying(packet, object, t, c)
    BY <1>1, UnderWay
  <1>5. c.list = NoPacket /\ c.free = NoPacket /\ c.type = 0
    BY <1>3, <1>4 DEF Sparse
  <1>6. c.from \in OfObjects(object, t, c) /\ c.source = c.from /\ c.from \in Packets
    BY <1>3, <1>4 DEF Copying, Copied, Busy, OfObjects
  <1>7. c.got \in Packets /\ packet[c.got] = Fresh(0)
    BY <1>3, <1>4, <1>5 DEF ThreadOK, CallRecord, Pointer
  <1>8. packet[c.source].used \in Nat
    <2>1. packet[c.source] \in PacketRecord
      BY <1>4, <1>6
    <2>2. QED  BY <2>1, PoolAssumption DEF PacketRecord
  <1>9. /\ d \in CallRecord /\ d.pc = "append" /\ d.op = c.op /\ d.obj = c.obj /\ d.type = c.type
        /\ d.target = c.got /\ d.got = NoPacket /\ d.size = packet[c.source].used
        /\ d.source = c.source /\ d.from = c.from /\ d.list = c.list /\ d.free = c.free
    BY <1>2, <1>4, <1>8 DEF CallRecord, Pointer
  <1>10. /\ Ends(packet, c.got) /\ Complete(packet, c.got)
         /\ packet[c.got].length = 0 /\ packet[c.got].prepend = 0
    <2>1. /\ Fresh(0).next = NoPacket /\ Fresh(0).last = NoPacket
          /\ Fresh(0).length = 0 /\ Fresh(0).prepend = 0 /\ Fresh(0).used = 0
      BY DEF Fresh
    <2>2. QED  BY <1>4, <1>7, <2>1, FreshComplete
  <1>11. /\ OfObjects(object, t, d) = OfObjects(object, t, c)
         /\ OfCopy(d) = {c.got} /\ OfCopy(c) = {}
    BY <1>3, <1>7, <1>9, PoolAssumption DEF OfObjects, OfCopy
  <1>12. /\ \A h : h \in Data(object, t, d) <=> h \in Data(object, t, c) \/ h = c.got
         /\ \A h : h \in Owned(object, t, d) <=> h \in Owned(object, t, c)
         /\ \A h \in Data(object, t, c) : h \in Owned(object, t, c)
    <2>1. \A h : h \in Data(object, t, d) <=> h \in Data(object, t, c) \/ h = c.got
      BY <1>11 DEF Data
    <2>2. QED  BY <1>5, <1>7, <1>9, <2>1, PoolAssumption DEF Owned
  <1>13. ThreadOK(packet, object, t, d)
    <2>1. Sparse(t, d)
      BY <1>3, <1>4, <1>5, <1>7, <1>9, PoolAssumption DEF Sparse
    <2>2. Aims(object, t, d)
      BY <1>3, <1>4, <1>9, <1>11 DEF Aims
    <2>3. Extending(packet, d)
      BY <1>5, <1>9 DEF Extending
    <2>4. Copying(packet, object, t, d)
      <3>1. PICK h : h = c.from
        OBVIOUS
      <3>2. h \in Owned(object, t, c)
        BY <1>6, <1>12, <3>1 DEF Data
      <3>3. Ends(packet, h)
        BY <1>4, <3>2 DEF ThreadOK
      <3>4. /\ 1 \in 1..Len(Follow(packet, h)) /\ Follow(packet, h)[1] = h
            /\ UsedUpTo(packet, h, 1) = UsedUpTo(packet, h, 1 - 1) + packet[h].used
            /\ UsedUpTo(packet, h, 0) = 0
        BY <1>4, <3>3, EndsElements, UpTo
      <3>5. packet[d.target].length + d.size = UsedUpTo(packet, h, 1)
        BY <1>6, <1>8, <1>9, <1>10, <3>1, <3>4
      <3>6. Copied(packet, d)
        BY <1>6, <1>7, <1>9, <1>10, <3>1, <3>4, <3>5, PoolAssumption DEF Copied
      <3>7. QED  BY <1>6, <1>9, <1>11, <3>6 DEF Copying
    <2>5. /\ \A h \in Owned(object, t, d) : Ends(packet, h)
          /\ \A h \in Data(object, t, d) : Complete(packet, h)
      BY <1>3, <1>4, <1>10, <1>12 DEF ThreadOK
    <2>6. QED  BY <1>9, <2>1, <2>2, <2>3, <2>4, <2>5 DEF ThreadOK
  <1>14. ThreadOK(packet, object', t, d)
    BY <1>3, <1>13
  <1>15. ~Careless => \A h \in Owned(object, t, call[t]) \cup received \cup sent :
           h \in received' \cup sent' \/ h \in Owned(object', t, d)
    BY <1>1, <1>3, <1>12
  <1>16. QED  BY <1>3, <1>4, <1>9, <1>14, <1>15, NoPacketMoves

(* A copy goes on with the next packet of its source. *)
LEMMA CopyNextKeeps ==
  ASSUME Good, NEW t \in Threads, CopyNext(t), IInv', OwnInv'
  PROVE  Good'
  <1>1. PICK c, s : c = call[t] /\ s = packet[c.source]
    OBVIOUS
  <1>2. PICK d : d = [c EXCEPT !.pc = "append", !.size = s.used - s.prepend]
    OBVIOUS
  <1>3. /\ c.pc = "copy" /\ c.source # NoPacket /\ Goes(t, d)
        /\ packet' = packet /\ object' = object /\ noPreempt' = noPreempt
        /\ received' = received /\ sent' = sent
    BY <1>1, <1>2 DEF CopyNext, At, poolVars, queueVars, stackVars
  <1>4. /\ packet \in [Packets -> PacketRecord] /\ object \in [Objects -> Pointer]
        /\ noPreempt \subseteq Callers /\ t \in Callers
        /\ c \in CallRecord /\ ThreadOK(packet, object, t, c) /\ Phases(c) /\ Sparse(t, c)
        /\ Aims(object, t, c) /\ Copying(packet, object, t, c)
    BY <1>1, UnderWay
  <1>5. c.op = "copy" /\ c.list = NoPacket /\ c.free = NoPacket /\ c.got = NoPacket /\ c.target # NoPacket
    BY <1>3, <1>4 DEF Sparse, Phases
  <1>6. c.from \in OfObjects(object, t, c) /\ c.from \in Owned(object, t, c) /\ Copied(packet, c)
    BY <1>3, <1>4, <1>5 DEF Copying, Busy, Owned, Data
  <1>7. PICK h : h = c.from
    OBVIOUS
  <1>8. Ends(packet, h) /\ Complete(packet, h)
    BY <1>3, <1>4, <1>6, <1>7 DEF ThreadOK, Data
  <1>9. PICK i \in 2..Len(Follow(packet, h)) :
          /\ c.source = Follow(packet, h)[i]
          /\ packet[c.target].length = UsedUpTo(packet, h, i - 1)
    BY <1>3, <1>6, <1>7 DEF Copied
  <1>10. i \in 1..Len(Follow(packet, h))
    BY <1>8, <1>9, EndsElements
  <1>11. s.prepend = 0 /\ s.used \in Nat
         /\ UsedUpTo(packet, h, i) = UsedUpTo(packet, h, i - 1) + s.used
    BY <1>1, <1>4, <1>8, <1>9, <1>10, UpTo DEF Complete
  <1>12. s.used - s.prepend = s.used
    BY <1>11
  <1>13. /\ d \in CallRecord /\ d.pc = "append" /\ d.op = c.op /\ d.obj = c.obj /\ d.type = c.type
         /\ d.target = c.target /\ d.got = c.got /\ d.size = s.used
         /\ d.source = c.source /\ d.from = c.from /\ d.list = c.list /\ d.free = c.free
    BY <1>2, <1>4, <1>11, <1>12 DEF CallRecord
  <1>14. /\ OfObjects(object, t, d) = OfObjects(object, t, c)
         /\ Data(object, t, d) = Data(object, t, c) /\ Owned(object, t, d) = Owned(object, t, c)
    BY <1>13 DEF OfObjects, Data, OfCopy, Owned
  <1>15. ThreadOK(packet, object, t, d)
    <2>1. Sparse(t, d)
      BY <1>3, <1>4, <1>5, <1>13 DEF Sparse
    <2>2. Aims(object, t, d)
      BY <1>4, <1>5, <1>13, <1>14 DEF Aims
    <2>3. Extending(packet, d)
      BY <1>5, <1>13 DEF Extending
    <2>4. Copied(packet, d)
      <3>1. packet[d.target].length + d.size = UsedUpTo(packet, h, i)
        BY <1>9, <1>11, <1>13
      <3>2. packet[d.target].prepend = 0
        BY <1>5, <1>6, <1>13 DEF Copied
      <3>3. QED  BY <1>5, <1>7, <1>9, <1>10, <1>13, <3>1, <3>2 DEF Copied
    <2>5. Copying(packet, object, t, d)
      BY <1>6, <1>13, <1>14, <2>4 DEF Copying
    <2>6. \A x \in Data(object, t, d) : Complete(packet, x)
      BY <1>3, <1>4, <1>14 DEF ThreadOK
    <2>7. QED  BY <1>4, <1>5, <1>13, <1>14, <2>1, <2>2, <2>3, <2>5, <2>6 DEF ThreadOK
  <1>16. ThreadOK(packet, object', t, d)
    BY <1>3, <1>15
  <1>17. ~Careless => \A x \in Owned(object, t, call[t]) \cup received \cup sent :
           x \in received' \cup sent' \/ x \in Owned(object', t, d)
    BY <1>1, <1>3, <1>14
  <1>18. QED  BY <1>3, <1>4, <1>13, <1>16, <1>17, NoPacketMoves

(* An object that held nothing gets a packet, and the call is over. *)
LEMMA ObjectHas ==
  ASSUME NEW ob \in [Objects -> Pointer], NEW t \in Threads, NEW o \in ObjectsOf[t], NEW p \in Pointer,
         ob[o] = NoPacket,
         NEW other, other = [x \in Objects |-> IF x \in {o} THEN p ELSE ob[x]]
  PROVE  /\ other \in [Objects -> Pointer]
         /\ \A u \in Threads \ {t} : \A x \in ObjectsOf[u] : other[x] = ob[x]
         /\ \A h : h \in OfObjects(other, t, Idle) <=>
                     h \in OfObjects(ob, t, Idle) \/ (h \in Packets /\ h = p)
  <1>1. /\ other \in [Objects -> Pointer]
        /\ \A x \in Objects : x # o => other[x] = ob[x]
        /\ \A u \in Threads : \A x \in ObjectsOf[u] : x \in Objects
    BY DEF Objects
  <1>2. other[o] = p
    BY <1>1
  <1>3. \A u \in Threads \ {t} : \A x \in ObjectsOf[u] : other[x] = ob[x]
    BY <1>1, PoolAssumption
  <1>4. ASSUME NEW h \in Packets
        PROVE  (\E x \in ObjectsOf[t] : other[x] = h) <=> (\E x \in ObjectsOf[t] : ob[x] = h) \/ h = p
    <2>1. ASSUME NEW x \in ObjectsOf[t], other[x] = h PROVE (\E y \in ObjectsOf[t] : ob[y] = h) \/ h = p
      BY <1>1, <1>2, <2>1
    <2>2. ASSUME NEW x \in ObjectsOf[t], ob[x] = h PROVE \E y \in ObjectsOf[t] : other[y] = h
      BY <1>1, <1>4, <2>2, PoolAssumption
    <2>3. QED  BY <1>2, <2>1, <2>2
  <1>5. QED  BY <1>1, <1>3, <1>4, OfIdle

(* An object gets the packet that was allocated for it. *)
LEMMA EndAllocateKeeps ==
  ASSUME Good, NEW t \in Threads, EndAllocate(t), IInv', OwnInv'
  PROVE  Good'
  <1>1. PICK c, ob, p, n : c = call[t] /\ ob = object /\ p = c.got /\ n = c.type
    OBVIOUS
  <1>2. /\ c.pc = "allocated" /\ c.op = "allocate" /\ Goes(t, Idle)
        /\ object' = [o \in Objects |-> IF o \in c.obj THEN p ELSE ob[o]]
        /\ packet' = packet /\ noPreempt' = noPreempt
        /\ received' = received /\ sent' = sent
    BY <1>1 DEF EndAllocate, At, poolVars, queueVars, stackVars
  <1>3. /\ packet \in [Packets -> PacketRecord] /\ ob \in [Objects -> Pointer]
        /\ noPreempt \subseteq Callers /\ t \in Callers
        /\ c \in CallRecord /\ ThreadOK(packet, ob, t, c) /\ Sparse(t, c) /\ Aims(ob, t, c)
    BY <1>1, UnderWay
  <1>4. c.list = NoPacket /\ c.free = NoPacket /\ p \in Pointer /\ n \in Offsets \cup {0}
    BY <1>1, <1>2, <1>3 DEF Sparse, CallRecord
  <1>5. PICK o \in ObjectsOf[t] : c.obj = {o} /\ ob[o] = NoPacket
    BY <1>2, <1>3 DEF Aims
  <1>6. PICK other : other = [x \in Objects |-> IF x \in {o} THEN p ELSE ob[x]]
    OBVIOUS
  <1>7. object' = other
    BY <1>2, <1>5, <1>6
  <1>8. /\ other \in [Objects -> Pointer]
        /\ \A u \in Threads \ {t} : \A x \in ObjectsOf[u] : other[x] = ob[x]
        /\ \A h : h \in OfObjects(other, t, Idle) <=>
                    h \in OfObjects(ob, t, Idle) \/ (h \in Packets /\ h = p)
    BY <1>3, <1>4, <1>5, <1>6, ObjectHas
  <1>9. OfObjects(ob, t, c) = OfObjects(ob, t, Idle) /\ Data(ob, t, c) = OfObjects(ob, t, Idle)
        /\ \A h : h \in Owned(ob, t, c) <=> h \in OfObjects(ob, t, Idle) \/ (h \in Packets /\ h = p)
    <2>1. OfObjects(ob, t, c) = OfObjects(ob, t, Idle)
      BY <1>2, IdleTyped DEF OfObjects
    <2>2. Data(ob, t, c) = OfObjects(ob, t, Idle)
      BY <1>2, <2>1 DEF Data, OfCopy
    <2>3. QED  BY <1>1, <1>4, <2>1, <2>2, PoolAssumption DEF Owned
  <1>10. p \in Packets => Ends(packet, p) /\ Complete(packet, p)
    <2> SUFFICES ASSUME p \in Packets PROVE Ends(packet, p) /\ Complete(packet, p)
      OBVIOUS
    <2>1. packet[p] = Fresh(n)
      BY <1>1, <1>3, PoolAssumption DEF ThreadOK
    <2>2. /\ Fresh(n).next = NoPacket /\ Fresh(n).last = NoPacket
          /\ Fresh(n).length = 0 /\ Fresh(n).prepend = n /\ Fresh(n).used = n
      BY DEF Fresh
    <2>3. 0 + n = n
      BY <1>4, PoolAssumption
    <2>4. QED  BY <1>3, <2>1, <2>2, <2>3, FreshComplete
  <1>11. ThreadOK(packet, other, t, Idle) /\ Owned(other, t, Idle) = OfObjects(other, t, Idle)
    <2>1. \A h \in OfObjects(ob, t, Idle) : Ends(packet, h) /\ Complete(packet, h)
      BY <1>2, <1>3, <1>9 DEF ThreadOK
    <2>2. QED  BY <1>8, <1>10, <2>1, IdleOK
  <1>12. ThreadOK(packet, object', t, Idle)
    BY <1>7, <1>11
  <1>13. ~Careless => \A h \in Owned(object, t, call[t]) \cup received \cup sent :
           h \in received' \cup sent' \/ h \in Owned(object', t, Idle)
    BY <1>1, <1>2, <1>7, <1>8, <1>9, <1>11
  <1>14. /\ object' \in [Objects -> Pointer] /\ noPreempt' \subseteq Callers
         /\ \A u \in Threads \ {t} : \A x \in ObjectsOf[u] : object'[x] = object[x]
         /\ Idle \in CallRecord
    BY <1>1, <1>2, <1>3, <1>7, <1>8, IdleTyped
  <1>15. QED  BY <1>2, <1>3, <1>12, <1>13, <1>14, NoPacketMoves

-----------------------------------------------------------------------------
(* A thread changes packets of its own.                                    *)
LEMMA OwnMoves ==
  ASSUME Good, NEW t \in Threads, NEW d \in CallRecord, Goes(t, d), IInv', OwnInv',
         packet' \in [Packets -> PacketRecord],
         \A q \in Packets : packet'[q].mark = packet[q].mark,
         \A q \in Packets : packet'[q] = packet[q] \/ Has(t, q),
         noPreempt' = noPreempt, received' = received, sent' = sent,
         object' \in [Objects -> Pointer],
         \A u \in Threads \ {t} : \A o \in ObjectsOf[u] : object'[o] = object[o],
         ThreadOK(packet', object', t, d),
         ~Careless => \A q : Has(t, q) => \E h \in Owned(object', t, d) : OnChain(packet', h, q)
  PROVE  Good'
  <1>1. t \in Callers
    BY DEF Callers
  <1>2. /\ call' \in [Callers -> CallRecord] /\ call'[t] = d
        /\ \A u \in Callers \ {t} : call'[u] = call[u]
    BY <1>1, CallTyped
  <1> DEFINE W == {t}
  <1>3. W \in SUBSET Callers /\ Acts(W) /\ noPreempt' \subseteq Callers
    BY <1>1, <1>2 DEF Acts, Good, Typed
  <1>4. ~Careless => \A q : Has(t, q) => Somewhere(q)'
    BY <1>1, <1>2 DEF Somewhere, Has
  <1>5. ~Careless => \A q \in Packets :
           packet'[q].mark = "ALLOCATED" =>
             /\ packet[q].mark = "FREE" => Somewhere(q)'
             /\ \A w \in W : Has(w, q) => Somewhere(q)'
             /\ \A h \in received \cup sent :
                  OnChain(packet, h, q) /\ h \notin received' \cup sent' => Somewhere(q)'
    BY <1>4
  <1>6. \A w \in W : ThreadOK(packet', object', w, call'[w])
    BY <1>2
  <1> HIDE DEF W
  <1>7. QED  BY <1>2, <1>3, <1>5, <1>6, GoodNext

(* Chains of the thread other than those of the first packets H. *)
LEMMA OwnOthers ==
  ASSUME Good, NEW t \in Threads, NEW H, H \subseteq Owned(object, t, call[t]), NEW pk,
         \A q \in Packets : pk[q] = packet[q] \/ \E g \in H : OnChain(packet, g, q)
  PROVE  /\ \A h \in Owned(object, t, call[t]) \ H : Same(packet, pk, h)
         /\ \A q \in Packets : pk[q] = packet[q] \/ Has(t, q)
  <1>1. t \in Callers
    BY DEF Callers
  <1>2. \A q \in Packets : pk[q] = packet[q] \/ Has(t, q)
    BY DEF Has
  <1>3. ASSUME NEW h \in Owned(object, t, call[t]) \ H PROVE Same(packet, pk, h)
    <2>1. IsHead(h) /\ Ends(packet, h) /\ \A g \in H : IsHead(g) /\ g # h
      BY <1>1, HeadEnds DEF IsHead
    <2>2. ASSUME NEW i \in 1..Len(Follow(packet, h))
          PROVE  pk[Follow(packet, h)[i]] = packet[Follow(packet, h)[i]]
      <3>1. OnChain(packet, h, Follow(packet, h)[i]) /\ Follow(packet, h)[i] \in Packets
        BY <2>1, EndsElements DEF OnChain
      <3>2. QED  BY <2>1, <3>1, HeadsApart
    <2>3. QED  BY <2>1, <2>2 DEF Same
  <1>4. QED  BY <1>2, <1>3

(* A call c that has a list l of new packets and no other variable in use,  *)
(* but for that as d.                                                      *)
Lists(pk, ob, t, d, c, l) ==
  /\ d.pc = "append" /\ d.list = NoPacket /\ d.got = NoPacket /\ d.free = NoPacket
  /\ d.target # NoPacket /\ d.op \in {"append", "copy"} /\ ThreadOK(pk, ob, t, d)
  /\ c.pc = d.pc /\ c.op = d.op /\ c.obj = d.obj /\ c.type = d.type /\ c.size = d.size
  /\ c.target = d.target /\ c.source = d.source /\ c.from = d.from
  /\ c.got = NoPacket /\ c.free = NoPacket /\ c.list = l
  /\ l \in Packets /\ Ends(pk, l) /\ NewList(pk, l)
  /\ c.size > RoomFor(pk, c) - Room

(* A call with a list of new packets is as it must be. *)
LEMMA WithList ==
  ASSUME NEW pk, NEW ob, NEW t, NEW d, NEW c, NEW l, Lists(pk, ob, t, d, c, l)
  PROVE  /\ ThreadOK(pk, ob, t, c)
         /\ \A h : h \in Owned(ob, t, c) <=> h \in Data(ob, t, d) \/ h = l
  <1>1. /\ OfObjects(ob, t, c) = OfObjects(ob, t, d) /\ Data(ob, t, c) = Data(ob, t, d)
        /\ \A h : h \in Owned(ob, t, c) <=> h \in Data(ob, t, d) \/ h = l
    <2>1. OfObjects(ob, t, c) = OfObjects(ob, t, d) /\ Data(ob, t, c) = Data(ob, t, d)
      BY DEF Lists, OfObjects, Data, OfCopy
    <2>2. QED  BY <2>1, PoolAssumption DEF Lists, Owned
  <1>2. Sparse(t, d) /\ Aims(ob, t, d) /\ Copying(pk, ob, t, d)
        /\ \A h \in Data(ob, t, d) : Ends(pk, h) /\ Complete(pk, h)
    <2>1. \A h \in Data(ob, t, d) : h \in Owned(ob, t, d)
      BY DEF Owned
    <2>2. QED  BY <2>1 DEF Lists, ThreadOK
  <1>3. Sparse(t, c)
    BY <1>2 DEF Lists, Sparse
  <1>4. Aims(ob, t, c)
    BY <1>1, <1>2 DEF Lists, Aims
  <1>5. Extending(pk, c)
    <2>1. c.list = l /\ c.pc = "append" /\ NewList(pk, l) /\ c.size > RoomFor(pk, c) - Room
      BY DEF Lists
    <2>2. QED  BY <2>1 DEF Extending
  <1>6. Copying(pk, ob, t, c)
    <2>1. Copied(pk, d) => Copied(pk, c)
      BY DEF Copied, Lists
    <2>2. QED  BY <1>1, <1>2, <2>1 DEF Copying, Lists
  <1>7. \A h \in Owned(ob, t, c) : Ends(pk, h)
    BY <1>1, <1>2 DEF Lists
  <1>8. QED  BY <1>1, <1>2, <1>3, <1>4, <1>5, <1>6, <1>7 DEF ThreadOK, Lists

(* The same call without the list and the new packet. *)
Bare(c, d) ==
  /\ c.op \in {"append", "copy"} /\ c.pc \in {"append", "allocated"} /\ c.target # NoPacket
  /\ d \in CallRecord /\ d.pc = "append" /\ d.list = NoPacket /\ d.got = NoPacket
  /\ d.op = c.op /\ d.obj = c.obj /\ d.type = c.type /\ d.size = c.size /\ d.target = c.target
  /\ d.source = c.source /\ d.from = c.from /\ d.free = c.free

(* The same call without the list is, too. *)
LEMMA WithoutList ==
  ASSUME NEW pk, NEW ob, NEW t, NEW c, NEW d, Bare(c, d), ThreadOK(pk, ob, t, c)
  PROVE  /\ ThreadOK(pk, ob, t, d) /\ Phases(d)
         /\ Data(ob, t, d) = Data(ob, t, c) /\ Owned(ob, t, d) = Data(ob, t, c)
         /\ OfObjects(ob, t, d) = OfObjects(ob, t, c)
         /\ \A h : h \in Owned(ob, t, c) <=>
                h \in Data(ob, t, c) \/ (h \in Packets /\ h = c.list) \/ (h \in Packets /\ h = c.got)
  <1>1. Sparse(t, c) /\ Aims(ob, t, c) /\ Copying(pk, ob, t, c) /\ c.free = NoPacket
    BY DEF ThreadOK, Sparse, Bare
  <1>2. OfObjects(ob, t, d) = OfObjects(ob, t, c) /\ Data(ob, t, d) = Data(ob, t, c)
    BY DEF Bare, OfObjects, Data, OfCopy
  <1>3. Owned(ob, t, d) = Data(ob, t, c)
    BY <1>1, <1>2, PoolAssumption DEF Bare, Owned
  <1>4. \A h : h \in Owned(ob, t, c) <=>
           h \in Data(ob, t, c) \/ (h \in Packets /\ h = c.list) \/ (h \in Packets /\ h = c.got)
    BY <1>1, PoolAssumption DEF Owned, Data, OfObjects, OfCopy
  <1>5. Sparse(t, d) /\ Phases(d)
    BY <1>1 DEF Bare, Sparse, Phases
  <1>6. Aims(ob, t, d)
    BY <1>1, <1>2 DEF Bare, Aims, Busy
  <1>7. Extending(pk, d)
    BY DEF Bare, Extending
  <1>8. Copying(pk, ob, t, d)
    <2>1. c.pc # "copy" /\ d.pc # "copy"
      BY DEF Bare
    <2>2. Copied(pk, c) => Copied(pk, d)
      BY <2>1 DEF Copied, Bare
    <2>3. QED  BY <1>1, <1>2, <2>2 DEF Copying, Bare, Busy
  <1>9. \A h \in Data(ob, t, c) : Ends(pk, h) /\ Complete(pk, h)
    BY <1>4 DEF ThreadOK, Bare
  <1>10. QED  BY <1>2, <1>3, <1>4, <1>5, <1>6, <1>7, <1>8, <1>9 DEF ThreadOK, Bare

(* An append gets one more packet. *)
LEMMA CollectKeeps ==
  ASSUME Good, NEW t \in Threads, Collect(t), IInv', OwnInv'
  PROVE  Good'
  <1>1. PICK c, g, pk, new, ob : c = call[t] /\ g = c.got /\ pk = packet /\ new = packet' /\ ob = object
    OBVIOUS
  <1>2. PICK e, d, l :
          /\ e = [c EXCEPT !.pc = "append", !.got = NoPacket, !.list = IF @ = NoPacket THEN g ELSE @]
          /\ d = [c EXCEPT !.pc = "append", !.got = NoPacket, !.list = NoPacket]
          /\ l = IF c.list = NoPacket THEN g ELSE c.list
    OBVIOUS
  <1>3. /\ c.pc = "allocated" /\ c.target # NoPacket /\ g # NoPacket
        /\ new = Collected(pk, c.list, g) /\ Goes(t, e)
        /\ object' = ob /\ noPreempt' = noPreempt /\ received' = received /\ sent' = sent
    BY <1>1, <1>2 DEF Collect, At, poolVars, queueVars, stackVars
  <1>4. /\ t \in Callers /\ OwnInv /\ pk \in [Packets -> PacketRecord] /\ ob \in [Objects -> Pointer]
        /\ c \in CallRecord /\ Phases(c) /\ ThreadOK(pk, ob, t, c)
        /\ Sparse(t, c) /\ Extending(pk, c)
    BY <1>1, UnderWay
  <1>5. c.op \in {"append", "copy"} /\ c.type = 0 /\ c.free = NoPacket /\ g \in Packets
        /\ c.list \in Pointer
    <2>1. c.op \in {"append", "copy"}
      BY <1>3, <1>4 DEF Phases
    <2>2. QED  BY <1>1, <1>3, <1>4, <2>1 DEF Sparse, CallRecord, Pointer
  <1>6. pk[g] = Fresh(0)
    BY <1>1, <1>3, <1>4, <1>5 DEF ThreadOK
  <1>7. Bare(c, d)
    <2>1. d = [c EXCEPT !.pc = "append", !.got = NoPacket, !.list = NoPacket]
      BY <1>2
    <2>2. d \in CallRecord
      BY <1>4, <2>1 DEF CallRecord, Pointer
    <2>3. d.pc = "append" /\ d.list = NoPacket /\ d.got = NoPacket
          /\ d.op = c.op /\ d.obj = c.obj /\ d.type = c.type /\ d.size = c.size /\ d.target = c.target
          /\ d.source = c.source /\ d.from = c.from /\ d.free = c.free
      BY <1>4, <2>1 DEF CallRecord
    <2>4. QED  BY <1>3, <1>5, <2>2, <2>3 DEF Bare
  <1>8. /\ ThreadOK(pk, ob, t, d) /\ Phases(d)
        /\ Data(ob, t, d) = Data(ob, t, c) /\ Owned(ob, t, d) = Data(ob, t, c)
        /\ \A h : h \in Owned(ob, t, c) <=>
                h \in Data(ob, t, c) \/ (h \in Packets /\ h = c.list) \/ (h \in Packets /\ h = c.got)
    BY <1>4, <1>7, WithoutList
  <1>9. /\ e \in CallRecord /\ e.pc = d.pc /\ e.op = d.op /\ e.obj = d.obj /\ e.type = d.type
        /\ e.size = d.size /\ e.target = d.target /\ e.source = d.source /\ e.from = d.from
        /\ e.got = NoPacket /\ e.free = NoPacket /\ e.list = l /\ l \in Packets
    <2>1. l \in Packets /\ l \in Pointer
      BY <1>1, <1>2, <1>5 DEF Pointer
    <2>2. e = [c EXCEPT !.pc = "append", !.got = NoPacket, !.list = l]
      <3>1. CASE c.list = NoPacket
        BY <1>2, <3>1
      <3>2. CASE c.list # NoPacket
        BY <1>2, <3>2
      <3>3. QED  BY <3>1, <3>2
    <2>3. e \in CallRecord
      BY <1>4, <2>1, <2>2 DEF CallRecord, Pointer
    <2>4. /\ e.pc = "append" /\ e.op = c.op /\ e.obj = c.obj /\ e.type = c.type /\ e.size = c.size
          /\ e.target = c.target /\ e.source = c.source /\ e.from = c.from
          /\ e.got = NoPacket /\ e.free = c.free /\ e.list = l
      BY <1>4, <2>2 DEF CallRecord
    <2>5. QED  BY <1>5, <1>7, <2>1, <2>3, <2>4 DEF Bare
  <1>10. c.target \in Data(ob, t, c) /\ Ends(pk, c.target) /\ Complete(pk, c.target)
    <2>1. c.target \in Data(ob, t, c)
      BY <1>3, <1>4, InUse DEF ThreadOK
    <2>2. QED  BY <1>3, <1>4, <1>8, <2>1 DEF ThreadOK
  <1>11. c.list # NoPacket => c.list \in Owned(ob, t, c) /\ Ends(pk, c.list) /\ NewList(pk, c.list)
                              /\ c.list # g /\ c.list \notin Data(ob, t, c)
    <2>1. Distinct(ob, t, c)
      BY <1>1, <1>4, OwnDistinct
    <2>2. QED  BY <1>1, <1>4, <1>5, <1>8, <2>1 DEF ThreadOK, Extending, Pointer, Distinct
  <1>12. g \in Owned(ob, t, c) /\ g \notin Data(ob, t, c)
    <2>1. Distinct(ob, t, c)
      BY <1>1, <1>4, OwnDistinct
    <2>2. QED  BY <1>1, <1>3, <1>5, <1>8, <2>1 DEF Distinct
  <1>13. /\ RoomIn(pk, Behind(pk, c.target)) \in Nat /\ RoomIn(pk, Follow(pk, c.list)) \in Nat
         /\ c.size \in Nat /\ Room \in Nat
         /\ c.size > RoomIn(pk, Behind(pk, c.target)) + RoomIn(pk, Follow(pk, c.list))
    <2>1. RoomIn(pk, Behind(pk, c.target)) \in Nat /\ RoomIn(pk, Follow(pk, c.list)) \in Nat
      BY <1>4, <1>10, <1>11, RoomIsNat
    <2>2. c.size > RoomFor(pk, c)
      BY <1>3, <1>4 DEF Extending
    <2>3. QED  BY <1>4, <2>1, <2>2, PoolAssumption DEF RoomFor, CallRecord
  <1>14. /\ new \in [Packets -> PacketRecord]
         /\ \A q \in Packets : new[q].mark = pk[q].mark
         /\ \A q \in Packets : new[q] = pk[q] \/ \E h \in {c.list, g} \cap Owned(ob, t, c) : OnChain(pk, h, q)
         /\ Ends(new, l) /\ NewList(new, l)
         /\ RoomIn(new, Follow(new, l)) = RoomIn(pk, Follow(pk, c.list)) + Room
         /\ \A q : OnChain(pk, c.list, q) \/ q = g => OnChain(new, l, q)
    <2>1. CASE c.list = NoPacket
      <3>1. new = pk /\ l = g
        BY <1>2, <1>3, <2>1 DEF Collected
      <3>2. Ends(pk, g) /\ NewList(pk, g) /\ RoomIn(pk, Follow(pk, g)) = Room
        BY <1>4, <1>5, <1>6, CollectFirst
      <3>3. RoomIn(pk, Follow(pk, c.list)) = 0 /\ \A q : ~OnChain(pk, c.list, q)
        BY <2>1, FollowNothing
      <3>4. 0 + Room = Room
        BY <1>13
      <3>5. QED  BY <1>4, <3>1, <3>2, <3>3, <3>4, OnItself
    <2>2. CASE c.list # NoPacket
      <3>1. ~OnChain(pk, c.list, g)
        <4>1. IsHead(c.list) /\ IsHead(g) /\ c.list # g
          BY <1>1, <1>4, <1>11, <1>12, <2>2 DEF IsHead
        <4>2. OnChain(pk, g, g)
          BY <1>4, <1>12, OnItself DEF ThreadOK
        <4>3. QED  BY <1>1, <4>1, <4>2, HeadsApart
      <3>2. PICK m : m = c.list
        OBVIOUS
      <3>3. /\ new \in [Packets -> PacketRecord]
            /\ \A q \in Packets : /\ new[q].mark = pk[q].mark
                                  /\ ~OnChain(pk, m, q) => new[q] = pk[q]
            /\ Ends(new, m) /\ NewList(new, m) /\ Follow(new, m) = Follow(pk, m) \o <<g>>
            /\ RoomIn(new, Follow(new, m)) = RoomIn(pk, Follow(pk, m)) + Room
        BY <1>3, <1>4, <1>5, <1>6, <1>11, <2>2, <3>1, <3>2, CollectList
      <3>4. l = m
        BY <1>2, <2>2, <3>2
      <3>5. \A q : OnChain(pk, m, q) \/ q = g => OnChain(new, m, q)
        <4>1. PICK a : a = Follow(pk, m)
          OBVIOUS
        <4>2. a \in Seq(Packets)
          BY <1>11, <2>2, <3>2, <4>1, EndsElements
        <4>3. /\ Len(a \o <<g>>) = Len(a) + 1 /\ Len(a) \in Nat
              /\ \A i \in 1..Len(a) : i \in 1..(Len(a) + 1) /\ (a \o <<g>>)[i] = a[i]
              /\ Len(a) + 1 \in 1..(Len(a) + 1) /\ (a \o <<g>>)[Len(a) + 1] = g
          BY <1>5, <4>2
        <4>4. Follow(new, m) = a \o <<g>>
          BY <3>3, <4>1
        <4>5. QED  BY <4>1, <4>3, <4>4 DEF OnChain
      <3>6. QED  BY <1>11, <2>2, <3>2, <3>3, <3>4, <3>5
    <2>3. QED  BY <2>1, <2>2
  <1>15. /\ \A h \in Data(ob, t, c) : Same(pk, new, h)
         /\ \A q \in Packets : new[q] = pk[q] \/ Has(t, q)
    <2>1. PICK H : H = {c.list, g} \cap Owned(ob, t, c)
      OBVIOUS
    <2>2. H \subseteq Owned(object, t, call[t])
      BY <1>1, <2>1
    <2>3. \A q \in Packets : new[q] = packet[q] \/ \E h \in H : OnChain(packet, h, q)
      BY <1>1, <1>14, <2>1
    <2>4. /\ \A h \in Owned(object, t, call[t]) \ H : Same(packet, new, h)
          /\ \A q \in Packets : new[q] = packet[q] \/ Has(t, q)
      BY <2>2, <2>3, OwnOthers
    <2>5. \A h \in Data(ob, t, c) : h \in Owned(ob, t, c) \ H
      <3> SUFFICES ASSUME NEW h \in Data(ob, t, c) PROVE h \in Owned(ob, t, c) \ H
        OBVIOUS
      <3>1. h \in Owned(ob, t, c) /\ h # g
        BY <1>8, <1>12
      <3>2. h \in Packets
        BY <1>4, InUse DEF ThreadOK, Owned, Data, OfObjects, OfCopy
      <3>3. h # c.list
        BY <1>11, <3>2, PoolAssumption
      <3>4. QED  BY <2>1, <3>1, <3>3
    <2>6. QED  BY <1>1, <2>4, <2>5
  <1>16. ThreadOK(new, ob, t, d) /\ Owned(ob, t, d) = Data(ob, t, c)
    <2>1. \A h \in Owned(ob, t, d) : Same(pk, new, h)
      BY <1>8, <1>15
    <2>2. QED  BY <1>4, <1>7, <1>8, <1>14, <2>1, ThreadSame DEF Bare
  <1>17. RoomIn(new, Behind(new, c.target)) = RoomIn(pk, Behind(pk, c.target))
    <2>1. PICK b : b = [d EXCEPT !.list = NoPacket]
      OBVIOUS
    <2>2. d.target = c.target /\ d.list = NoPacket
      BY <1>7 DEF Bare
    <2>3. RoomFor(new, d) = RoomFor(pk, d)
      BY <1>4, <1>10, <1>14, <1>15, <2>2, RoomForSame
    <2>4. /\ RoomFor(new, d) = RoomIn(new, Behind(new, c.target)) + 0
          /\ RoomFor(pk, d) = RoomIn(pk, Behind(pk, c.target)) + 0
      BY <2>2, FollowNothing DEF RoomFor
    <2>5. RoomIn(new, Behind(new, c.target)) \in Nat
      <3>1. Ends(new, c.target) /\ Complete(new, c.target)
        BY <1>4, <1>10, <1>14, <1>15, SameChain
      <3>2. QED  BY <1>14, <2>2, <3>1, RoomIsNat
    <2>6. PICK x, y : x = RoomIn(new, Behind(new, c.target)) /\ y = RoomIn(pk, Behind(pk, c.target))
      OBVIOUS
    <2>7. x \in Nat /\ y \in Nat /\ x + 0 = y + 0
      BY <1>13, <2>3, <2>4, <2>5, <2>6
    <2>8. x = y
      BY <2>7
    <2>9. QED  BY <2>6, <2>8
  <1>18. e.size > RoomFor(new, e) - Room
    <2>1. PICK x, y, z : /\ x = RoomIn(pk, Behind(pk, c.target)) /\ y = RoomIn(pk, Follow(pk, c.list))
                         /\ z = c.size
      OBVIOUS
    <2>2. /\ x \in Nat /\ y \in Nat /\ z \in Nat /\ Room \in Nat /\ z > x + y
      BY <1>13, <2>1
    <2>3. e.size = z /\ e.target = c.target
      BY <1>7, <1>9, <2>1 DEF Bare
    <2>4. RoomFor(new, e) = x + (y + Room)
      BY <1>9, <1>14, <1>17, <2>1, <2>3 DEF RoomFor
    <2>5. PICK n : n = RoomFor(new, e)
      OBVIOUS
    <2>6. n = x + (y + Room)
      BY <2>4, <2>5
    <2>7. z > n - Room
      BY <2>2, <2>6
    <2>8. QED  BY <2>3, <2>5, <2>7
  <1>19. Lists(new, ob, t, d, e, l)
    BY <1>3, <1>5, <1>7, <1>9, <1>14, <1>16, <1>18 DEF Lists, Bare
  <1>20. /\ ThreadOK(new, ob, t, e)
         /\ \A h : h \in Owned(ob, t, e) <=> h \in Data(ob, t, d) \/ h = l
    BY <1>19, WithList
  <1>21. ASSUME NEW q, Has(t, q) PROVE \E h \in Owned(ob, t, e) : OnChain(new, h, q)
    <2>1. PICK h \in Owned(ob, t, c) : OnChain(pk, h, q)
      BY <1>1, <1>21 DEF Has
    <2>2. CASE h \in Data(ob, t, c)
      <3>1. OnChain(new, h, q)
        BY <1>4, <1>14, <1>15, <2>1, <2>2, SameChain DEF OnChain
      <3>2. QED  BY <1>8, <1>20, <2>2, <3>1
    <2>3. CASE h = c.list
      BY <1>14, <1>20, <2>1, <2>3
    <2>4. CASE h = g
      <3>1. q = g
        <4>1. Follow(pk, g) = <<g>>
          BY <1>4, <1>5, <1>6, CollectFirst
        <4>2. QED  BY <2>1, <2>4, <4>1 DEF OnChain
      <3>2. QED  BY <1>14, <1>20, <3>1
    <2>5. QED  BY <1>1, <1>8, <2>1, <2>2, <2>3, <2>4
  <1>22. /\ ThreadOK(packet', object', t, e) /\ object' \in [Objects -> Pointer]
         /\ packet' \in [Packets -> PacketRecord]
         /\ \A q \in Packets : packet'[q].mark = packet[q].mark
         /\ \A q \in Packets : packet'[q] = packet[q] \/ Has(t, q)
         /\ \A u \in Threads \ {t} : \A o \in ObjectsOf[u] : object'[o] = object[o]
    BY <1>1, <1>3, <1>4, <1>14, <1>15, <1>20
  <1>23. ~Careless => \A q : Has(t, q) => \E h \in Owned(object', t, e) : OnChain(packet', h, q)
    BY <1>1, <1>3, <1>21
  <1>24. QED  BY <1>3, <1>9, <1>22, <1>23, OwnMoves

(* The packets a copy has are those of a chain that stays as it is. *)
LEMMA FromSame ==
  ASSUME NEW pk \in [Packets -> PacketRecord], NEW new \in [Packets -> PacketRecord], NEW h, Same(pk, new, h)
  PROVE  /\ Follow(new, h) = Follow(pk, h) /\ Len(Follow(pk, h)) \in Nat \ {0}
         /\ \A i \in 1..Len(Follow(pk, h)) :
              /\ i \in 0..Len(Follow(pk, h)) /\ Follow(pk, h)[i] \in Packets
              /\ new[Follow(pk, h)[i]] = pk[Follow(pk, h)[i]]
              /\ UsedUpTo(new, h, i) = UsedUpTo(pk, h, i)
  <1>1. Follow(new, h) = Follow(pk, h) /\ Len(Follow(pk, h)) \in Nat \ {0}
        /\ \A i \in 1..Len(Follow(pk, h)) : Follow(pk, h)[i] \in Packets
    BY SameChain, EndsElements DEF Same
  <1>2. \A i \in 1..Len(Follow(pk, h)) : i \in 0..Len(Follow(pk, h))
    BY <1>1
  <1>3. \A i \in 1..Len(Follow(pk, h)) : UsedUpTo(new, h, i) = UsedUpTo(pk, h, i)
    BY <1>2, UpToSame
  <1>4. QED  BY <1>1, <1>2, <1>3 DEF Same

(* The list of new packets is linked behind the chain. *)
LEMMA LinkKeeps ==
  ASSUME Good, NEW t \in Threads, Link(t), IInv', OwnInv'
  PROVE  Good'
  <1>1. PICK c, p, l, pk, new, ob, size :
          /\ c = call[t] /\ p = c.target /\ l = c.list /\ pk = packet /\ new = packet' /\ ob = object
          /\ size = c.size
    OBVIOUS
  <1>2. PICK d : d = [c EXCEPT !.pc = "fill", !.list = NoPacket]
    OBVIOUS
  <1>3. /\ c.pc = "append" /\ RoomFor(pk, c) >= size /\ new = Linked(pk, p, l) /\ Goes(t, d)
        /\ object' = ob /\ noPreempt' = noPreempt /\ received' = received /\ sent' = sent
    BY <1>1, <1>2 DEF Link, At, poolVars, queueVars, stackVars, AvailableBytes, RoomFor
  <1>4. /\ t \in Callers /\ OwnInv /\ pk \in [Packets -> PacketRecord] /\ ob \in [Objects -> Pointer]
        /\ c \in CallRecord /\ Phases(c) /\ ThreadOK(pk, ob, t, c) /\ Aims(ob, t, c)
        /\ Sparse(t, c) /\ Extending(pk, c) /\ Copying(pk, ob, t, c)
    BY <1>1, UnderWay
  <1>5. /\ c.op \in {"append", "copy"} /\ c.got = NoPacket /\ c.free = NoPacket /\ p # NoPacket
        /\ c.type = 0 /\ l \in Pointer /\ size \in Nat
    <2>1. c.op \in {"append", "copy"}
      BY <1>3, <1>4 DEF Phases
    <2>2. QED  BY <1>1, <1>3, <1>4, <2>1 DEF Sparse, CallRecord
  <1>6. p \in Data(ob, t, c) /\ p \in Owned(ob, t, c) /\ Ends(pk, p) /\ Complete(pk, p)
    <2>1. p \in Data(ob, t, c) /\ p \in Owned(ob, t, c)
      BY <1>1, <1>3, <1>4, InUse
    <2>2. QED  BY <1>3, <1>4, <2>1 DEF ThreadOK
  <1>7. Distinct(ob, t, c)
    BY <1>1, <1>4, OwnDistinct
  <1>8. l # NoPacket => /\ l \in Owned(ob, t, c) /\ Ends(pk, l) /\ NewList(pk, l)
                        /\ l \notin Data(ob, t, c) /\ size > RoomFor(pk, c) - Room
    <2>1. l # NoPacket => l \in Owned(ob, t, c)
      BY <1>1, <1>4, InUse
    <2>2. QED  BY <1>1, <1>3, <1>4, <1>7, <2>1 DEF ThreadOK, Extending, Distinct
  <1>9. /\ d \in CallRecord /\ d.pc = "fill" /\ d.op = c.op /\ d.obj = c.obj /\ d.type = c.type
        /\ d.size = size /\ d.target = p /\ d.source = c.source /\ d.from = c.from
        /\ d.list = NoPacket /\ d.got = NoPacket /\ d.free = NoPacket
    BY <1>1, <1>2, <1>4, <1>5 DEF CallRecord, Pointer
  <1>10. /\ OfObjects(ob, t, d) = OfObjects(ob, t, c) /\ Data(ob, t, d) = Data(ob, t, c)
         /\ Owned(ob, t, d) = Data(ob, t, c)
         /\ \A h : h \in Owned(ob, t, c) => h \in Data(ob, t, c) \/ h = l
    <2>1. OfObjects(ob, t, d) = OfObjects(ob, t, c) /\ Data(ob, t, d) = Data(ob, t, c)
      BY <1>1, <1>9 DEF OfObjects, Data, OfCopy
    <2>2. QED  BY <1>1, <1>5, <1>9, <2>1, PoolAssumption DEF Owned
  <1>11. /\ new \in [Packets -> PacketRecord]
         /\ \A q \in Packets : new[q].mark = pk[q].mark /\ new[q].length = pk[q].length
                               /\ new[q].prepend = pk[q].prepend
         /\ \A q \in Packets : new[q] = pk[q] \/ \E h \in {p, l} \cap Owned(ob, t, c) : OnChain(pk, h, q)
         /\ Ends(new, p) /\ Ready(new, p, size)
         /\ \A q : OnChain(pk, p, q) \/ OnChain(pk, l, q) => OnChain(new, p, q)
    <2>1. PICK x, y : x = RoomIn(pk, Behind(pk, p)) /\ y = RoomIn(pk, Follow(pk, l))
      OBVIOUS
    <2>2. x \in Nat /\ y \in Nat /\ x + y >= size /\ (l # NoPacket => size > x + y - Room) /\ Room \in Nat
      <3>1. x \in Nat /\ y \in Nat
        BY <1>1, <1>4, <1>6, <1>8, <2>1, RoomIsNat
      <3>2. RoomFor(pk, c) = x + y
        BY <1>1, <2>1 DEF RoomFor
      <3>3. PICK n : n = RoomFor(pk, c)
        OBVIOUS
      <3>4. QED  BY <1>3, <1>8, <3>1, <3>2, <3>3, PoolAssumption
    <2>3. CASE l = NoPacket
      <3>1. new = pk
        BY <1>3, <2>3 DEF Linked
      <3>2. y = 0 /\ \A q : ~OnChain(pk, l, q)
        BY <2>1, <2>3, FollowNothing
      <3>3. size <= x
        BY <1>5, <2>2, <3>2
      <3>4. Ready(pk, p, size)
        BY <1>4, <1>5, <1>6, <2>1, <3>3, ReadyAlone
      <3>5. QED  BY <1>4, <1>6, <3>1, <3>2, <3>4
    <2>4. CASE l # NoPacket
      <3>1. \A q : ~(OnChain(pk, p, q) /\ OnChain(pk, l, q))
        <4>1. IsHead(l) /\ IsHead(p) /\ l # p
          BY <1>1, <1>4, <1>6, <1>8, <2>4 DEF IsHead
        <4>2. QED  BY <1>1, <4>1, HeadsApart
      <3>2. size <= x + y /\ size > x + y - Room
        BY <1>5, <2>2, <2>4
      <3>3. /\ size <= RoomIn(pk, Behind(pk, p)) + RoomIn(pk, Follow(pk, l))
            /\ size > RoomIn(pk, Behind(pk, p)) + RoomIn(pk, Follow(pk, l)) - Room
        BY <2>1, <3>2
      <3>4. /\ new \in [Packets -> PacketRecord]
            /\ \A q \in Packets :
                 /\ new[q].mark = pk[q].mark /\ new[q].length = pk[q].length
                 /\ new[q].prepend = pk[q].prepend
                 /\ ~OnChain(pk, p, q) /\ ~OnChain(pk, l, q) => new[q] = pk[q]
            /\ Ends(new, p) /\ Follow(new, p) = Follow(pk, p) \o Follow(pk, l)
            /\ Ready(new, p, size)
        BY <1>3, <1>4, <1>5, <1>6, <1>8, <2>4, <3>1, <3>3, LinkReady
      <3>5. \A q : OnChain(pk, p, q) \/ OnChain(pk, l, q) => OnChain(new, p, q)
        <4>1. PICK a, b : a = Follow(pk, p) /\ b = Follow(pk, l)
          OBVIOUS
        <4>2. a \in Seq(Packets) /\ b \in Seq(Packets)
          BY <1>6, <1>8, <2>4, <4>1, EndsElements
        <4>3. /\ Len(a \o b) = Len(a) + Len(b) /\ Len(a) \in Nat /\ Len(b) \in Nat
              /\ \A i \in 1..Len(a) : i \in 1..(Len(a) + Len(b)) /\ (a \o b)[i] = a[i]
              /\ \A i \in 1..Len(b) : Len(a) + i \in 1..(Len(a) + Len(b)) /\ (a \o b)[Len(a) + i] = b[i]
          BY <4>2
        <4>4. Follow(new, p) = a \o b
          BY <3>4, <4>1
        <4>5. QED  BY <4>1, <4>3, <4>4 DEF OnChain
      <3>6. QED  BY <1>6, <1>8, <2>4, <3>4, <3>5
    <2>5. QED  BY <2>3, <2>4
  <1>12. /\ \A h \in Data(ob, t, c) : h # p => Same(pk, new, h)
         /\ \A q \in Packets : new[q] = pk[q] \/ Has(t, q)
    <2>1. PICK H : H = {p, l} \cap Owned(ob, t, c)
      OBVIOUS
    <2>2. H \subseteq Owned(object, t, call[t])
      BY <1>1, <2>1
    <2>3. \A q \in Packets : new[q] = packet[q] \/ \E h \in H : OnChain(packet, h, q)
      BY <1>1, <1>11, <2>1
    <2>4. /\ \A h \in Owned(object, t, call[t]) \ H : Same(packet, new, h)
          /\ \A q \in Packets : new[q] = packet[q] \/ Has(t, q)
      BY <2>2, <2>3, OwnOthers
    <2>5. ASSUME NEW h \in Data(ob, t, c), h # p PROVE h \in Owned(ob, t, c) \ H
      <3>1. h \in Owned(ob, t, c) /\ h \in Packets
        BY <1>4, InUse
      <3>2. h # l
        BY <1>8, <3>1, PoolAssumption
      <3>3. QED  BY <2>1, <2>5, <3>1, <3>2
    <2>6. QED  BY <1>1, <2>4, <2>5
  <1>13. \A h \in Data(ob, t, c) : h # p => Ends(new, h) /\ Complete(new, h)
    <2>1. \A h \in Data(ob, t, c) : Complete(pk, h)
      BY <1>3, <1>4 DEF ThreadOK
    <2>2. QED  BY <1>4, <1>11, <1>12, <2>1, SameChain
  <1>14. Copying(new, ob, t, d)
    <2> SUFFICES ASSUME d.op = "copy" PROVE c.from \in OfObjects(ob, t, c) /\ Copied(new, d)
      BY <1>9, <1>10 DEF Copying
    <2>1. c.from \in OfObjects(ob, t, c) /\ Copied(pk, c)
      BY <1>3, <1>4, <1>9 DEF Copying, Busy
    <2>2. Same(pk, new, c.from)
      <3>1. c.from # p /\ c.from \in Data(ob, t, c)
        BY <1>1, <1>5, <1>7, <1>9, <2>1 DEF Distinct, Data
      <3>2. QED  BY <1>12, <3>1
    <2>3. PICK h : h = c.from
      OBVIOUS
    <2>4. PICK i \in 1..Len(Follow(pk, h)) :
            /\ c.source = Follow(pk, h)[i]
            /\ pk[p].length + size = UsedUpTo(pk, h, i)
      BY <1>1, <1>3, <1>5, <2>1, <2>3 DEF Copied
    <2>5. Follow(new, h) = Follow(pk, h) /\ UsedUpTo(new, h, i) = UsedUpTo(pk, h, i)
      BY <1>4, <1>11, <2>2, <2>3, FromSame
    <2>6. p \in Packets /\ pk[p].prepend = 0
      BY <1>1, <1>4, <1>5, <2>1 DEF Copied, CallRecord, Pointer
    <2>7. new[p].length + size = UsedUpTo(new, h, i) /\ new[p].prepend = 0
      BY <1>11, <2>4, <2>5, <2>6
    <2>8. i \in 1..Len(Follow(new, h)) /\ d.source = Follow(new, h)[i]
      BY <1>9, <2>4, <2>5
    <2>9. QED  BY <1>5, <1>9, <2>1, <2>3, <2>7, <2>8 DEF Copied
  <1>15. ThreadOK(new, ob, t, d)
    <2>1. Sparse(t, d)
      BY <1>1, <1>4, <1>5, <1>9 DEF Sparse
    <2>2. Aims(ob, t, d)
      BY <1>1, <1>3, <1>4, <1>9, <1>10 DEF Aims, Busy
    <2>3. Extending(new, d)
      BY <1>9, <1>11 DEF Extending
    <2>4. \A h \in Owned(ob, t, d) : Ends(new, h)
      BY <1>10, <1>11, <1>13
    <2>5. \A h \in Data(ob, t, d) : (d.pc = "fill" /\ h = d.target) \/ Complete(new, h)
      BY <1>9, <1>10, <1>13
    <2>6. QED  BY <1>9, <1>14, <2>1, <2>2, <2>3, <2>4, <2>5 DEF ThreadOK
  <1>16. ASSUME NEW q, Has(t, q) PROVE \E h \in Owned(ob, t, d) : OnChain(new, h, q)
    <2>1. PICK h \in Owned(ob, t, c) : OnChain(pk, h, q)
      BY <1>1, <1>16 DEF Has
    <2>2. CASE h = p \/ h = l
      BY <1>6, <1>10, <1>11, <2>1, <2>2
    <2>3. CASE h # p /\ h # l
      <3>1. h \in Data(ob, t, c)
        BY <1>10, <2>3
      <3>2. OnChain(new, h, q)
        BY <1>4, <1>11, <1>12, <2>1, <2>3, <3>1, SameChain DEF OnChain
      <3>3. QED  BY <1>10, <3>1, <3>2
    <2>4. QED  BY <2>2, <2>3
  <1>17. /\ ThreadOK(packet', object', t, d) /\ object' \in [Objects -> Pointer]
         /\ packet' \in [Packets -> PacketRecord]
         /\ \A q \in Packets : packet'[q].mark = packet[q].mark
         /\ \A q \in Packets : packet'[q] = packet[q] \/ Has(t, q)
         /\ \A u \in Threads \ {t} : \A o \in ObjectsOf[u] : object'[o] = object[o]
    BY <1>1, <1>3, <1>4, <1>11, <1>12, <1>15
  <1>18. ~Careless => \A q : Has(t, q) => \E h \in Owned(object', t, d) : OnChain(packet', h, q)
    BY <1>1, <1>3, <1>16
  <1>19. QED  BY <1>3, <1>9, <1>17, <1>18, OwnMoves

(* The data is copied into the chain. *)
LEMMA FillKeeps ==
  ASSUME Good, NEW t \in Threads, Fill(t), IInv', OwnInv'
  PROVE  Good'
  <1>1. PICK c, p, pk, new, ob, size :
          /\ c = call[t] /\ p = c.target /\ pk = packet /\ new = packet' /\ ob = object
          /\ size = c.size
    OBVIOUS
  <1>2. PICK d : d = [c EXCEPT !.pc = "copy", !.source = pk[@].next]
    OBVIOUS
  <1>3. /\ c.pc = "fill" /\ new = Filled(pk, p, Follow(pk, AppendTo(pk, p)), size)
        /\ c.op = "append" => Goes(t, Idle)
        /\ c.op # "append" => Goes(t, d)
        /\ object' = ob /\ noPreempt' = noPreempt /\ received' = received /\ sent' = sent
    BY <1>1, <1>2 DEF Fill, At, poolVars, queueVars, stackVars
  <1>4. /\ t \in Callers /\ OwnInv /\ pk \in [Packets -> PacketRecord] /\ ob \in [Objects -> Pointer]
        /\ c \in CallRecord /\ Phases(c) /\ ThreadOK(pk, ob, t, c) /\ Aims(ob, t, c)
        /\ Sparse(t, c) /\ Extending(pk, c) /\ Copying(pk, ob, t, c)
    BY <1>1, UnderWay
  <1>5. /\ c.op \in {"append", "copy"} /\ c.got = NoPacket /\ c.free = NoPacket /\ c.list = NoPacket
        /\ p # NoPacket /\ p \in Packets /\ c.type = 0 /\ size \in Nat
    <2>1. c.op \in {"append", "copy"}
      BY <1>3, <1>4 DEF Phases
    <2>2. p # NoPacket
      BY <1>1, <1>3, <1>4, <2>1 DEF Sparse
    <2>3. QED  BY <1>1, <1>3, <1>4, <2>1, <2>2 DEF Sparse, CallRecord, Pointer
  <1>6. p \in Data(ob, t, c) /\ p \in Owned(ob, t, c) /\ Ends(pk, p) /\ Ready(pk, p, size)
    <2>1. p \in Data(ob, t, c) /\ p \in Owned(ob, t, c)
      BY <1>1, <1>3, <1>4, InUse
    <2>2. QED  BY <1>1, <1>3, <1>4, <2>1 DEF ThreadOK, Extending
  <1>7. Distinct(ob, t, c)
    BY <1>1, <1>4, OwnDistinct
  <1>8. /\ new \in [Packets -> PacketRecord]
        /\ \A q \in Packets : /\ new[q].next = pk[q].next /\ new[q].mark = pk[q].mark
                              /\ new[q].prepend = pk[q].prepend
                              /\ ~OnChain(pk, p, q) => new[q] = pk[q]
        /\ Ends(new, p) /\ Follow(new, p) = Follow(pk, p) /\ Complete(new, p)
        /\ new[p].length = pk[p].length + size
    BY <1>3, <1>4, <1>5, <1>6, FillDone
  <1>9. Owned(ob, t, c) = Data(ob, t, c)
    BY <1>5, PoolAssumption DEF Owned
  <1>10. /\ \A h \in Data(ob, t, c) : h # p => Same(pk, new, h)
         /\ \A q \in Packets : new[q] = pk[q] \/ Has(t, q)
    <2>1. PICK H : H = {p}
      OBVIOUS
    <2>2. H \subseteq Owned(object, t, call[t])
      BY <1>1, <1>6, <2>1
    <2>3. \A q \in Packets : new[q] = packet[q] \/ \E h \in H : OnChain(packet, h, q)
      BY <1>1, <1>8, <2>1
    <2>4. /\ \A h \in Owned(object, t, call[t]) \ H : Same(packet, new, h)
          /\ \A q \in Packets : new[q] = packet[q] \/ Has(t, q)
      BY <2>2, <2>3, OwnOthers
    <2>5. QED  BY <1>1, <1>9, <2>1, <2>4
  <1>11. \A h \in Data(ob, t, c) :
            /\ Ends(new, h) /\ Complete(new, h)
            /\ \A q : OnChain(pk, h, q) => OnChain(new, h, q)
    <2>1. ASSUME NEW h \in Data(ob, t, c), h # p
          PROVE  Ends(new, h) /\ Complete(new, h) /\ Follow(new, h) = Follow(pk, h)
      <3>1. Same(pk, new, h) /\ Complete(pk, h)
        BY <1>1, <1>4, <1>10, <2>1 DEF ThreadOK
      <3>2. QED  BY <1>4, <1>8, <3>1, SameChain
    <2>2. QED  BY <1>8, <2>1 DEF OnChain
  <1>12. \A q : Has(t, q) => \E h \in Data(ob, t, c) : OnChain(new, h, q)
    BY <1>1, <1>9, <1>11 DEF Has
  <1>13. /\ object' \in [Objects -> Pointer] /\ packet' \in [Packets -> PacketRecord]
         /\ \A q \in Packets : packet'[q].mark = packet[q].mark
         /\ \A q \in Packets : packet'[q] = packet[q] \/ Has(t, q)
         /\ \A u \in Threads \ {t} : \A o \in ObjectsOf[u] : object'[o] = object[o]
    BY <1>1, <1>3, <1>4, <1>8, <1>10
  <1>14. CASE c.op = "append"
    <2>1. Data(ob, t, c) = OfObjects(ob, t, Idle)
      BY <1>14, IdleTyped DEF Data, OfObjects, OfCopy
    <2>2. ThreadOK(new, ob, t, Idle) /\ Owned(ob, t, Idle) = OfObjects(ob, t, Idle)
      BY <1>11, <2>1, IdleOK
    <2>3. ThreadOK(packet', object', t, Idle) /\ Idle \in CallRecord
      BY <1>1, <1>3, <2>2, IdleTyped
    <2>4. ~Careless => \A q : Has(t, q) => \E h \in Owned(object', t, Idle) : OnChain(packet', h, q)
      BY <1>1, <1>3, <1>12, <2>1, <2>2
    <2>5. Goes(t, Idle)
      BY <1>3, <1>14
    <2>6. QED  BY <1>3, <1>13, <2>3, <2>4, <2>5, OwnMoves
  <1>15. CASE c.op = "copy"
    <2>1. c.from \in OfObjects(ob, t, c) /\ Copied(pk, c)
      BY <1>3, <1>4, <1>15 DEF Copying, Busy
    <2>2. PICK h : h = c.from
      OBVIOUS
    <2>3. Same(pk, new, h)
      <3>1. c.from # p /\ c.from \in Data(ob, t, c)
        BY <1>1, <1>5, <1>7, <1>15, <2>1 DEF Distinct, Data
      <3>2. QED  BY <1>10, <2>2, <3>1
    <2>4. PICK s, i, n : s = Follow(pk, h) /\ n = Len(s)
            /\ i \in 1..n /\ c.source = s[i] /\ pk[p].length + size = UsedUpTo(pk, h, i)
      BY <1>1, <1>3, <1>5, <2>1, <2>2 DEF Copied
    <2>5. /\ Follow(new, h) = s /\ n \in Nat \ {0} /\ UsedUpTo(new, h, i) = UsedUpTo(pk, h, i)
          /\ c.source \in Packets
      BY <1>4, <1>8, <2>3, <2>4, FromSame
    <2>6. IsChain(pk, s)
      BY <2>3, <2>4 DEF Same, Ends
    <2>7. /\ d \in CallRecord /\ d.pc = "copy" /\ d.op = c.op /\ d.obj = c.obj /\ d.type = c.type
          /\ d.target = p /\ d.source = pk[c.source].next /\ d.from = c.from
          /\ d.list = NoPacket /\ d.got = NoPacket /\ d.free = NoPacket
      <3>1. pk[c.source].next \in Pointer
        <4>1. pk[c.source] \in PacketRecord
          BY <1>4, <2>5
        <4>2. QED  BY <4>1 DEF PacketRecord
      <3>2. PICK x : x = pk[c.source].next
        OBVIOUS
      <3>3. d = [c EXCEPT !.pc = "copy", !.source = x]
        BY <1>2, <3>2
      <3>4. d \in CallRecord
        BY <1>4, <3>1, <3>2, <3>3 DEF CallRecord
      <3>5. /\ d.pc = "copy" /\ d.op = c.op /\ d.obj = c.obj /\ d.type = c.type
            /\ d.target = c.target /\ d.source = x /\ d.from = c.from
            /\ d.list = c.list /\ d.got = c.got /\ d.free = c.free
        BY <1>4, <3>3 DEF CallRecord
      <3>6. QED  BY <1>1, <1>5, <3>2, <3>4, <3>5
    <2>8. /\ OfObjects(ob, t, d) = OfObjects(ob, t, c) /\ Data(ob, t, d) = Data(ob, t, c)
          /\ Owned(ob, t, d) = Data(ob, t, c)
      <3>1. OfObjects(ob, t, d) = OfObjects(ob, t, c) /\ Data(ob, t, d) = Data(ob, t, c)
        BY <1>1, <2>7 DEF OfObjects, Data, OfCopy
      <3>2. QED  BY <2>7, <3>1, PoolAssumption DEF Owned
    <2>9. new[p].length = UsedUpTo(new, h, i) /\ new[p].prepend = 0
      <3>1. pk[p].prepend = 0
        BY <1>1, <1>5, <2>1 DEF Copied
      <3>2. QED  BY <1>5, <1>8, <2>4, <2>5, <3>1
    <2>10. \/ /\ d.source = NoPacket /\ new[p].length = UsedUpTo(new, h, n)
           \/ \E k \in 2..n : d.source = s[k] /\ new[p].length = UsedUpTo(new, h, k - 1)
      <3>1. CASE i = n
        <4>1. pk[s[n]].next = NoPacket
          BY <2>4, <2>6 DEF IsChain
        <4>2. QED  BY <2>4, <2>7, <2>9, <3>1, <4>1
      <3>2. CASE i # n
        <4>1. i \in 1..(n - 1) /\ i + 1 \in 2..n /\ (i + 1) - 1 = i
          BY <2>4, <2>5, <3>2
        <4>2. pk[s[i]].next = s[i + 1]
          BY <2>4, <2>6, <4>1 DEF IsChain
        <4>3. d.source = s[i + 1]
          BY <2>4, <2>7, <4>2
        <4>4. QED  BY <2>9, <4>1, <4>3
      <3>3. QED  BY <3>1, <3>2
    <2>11. Copied(new, d)
      BY <1>5, <2>2, <2>4, <2>5, <2>7, <2>9, <2>10 DEF Copied
    <2>12. ThreadOK(new, ob, t, d)
      <3>1. Sparse(t, d)
        BY <1>1, <1>4, <1>5, <1>15, <2>7 DEF Sparse
      <3>2. Aims(ob, t, d)
        BY <1>4, <1>15, <2>7, <2>8 DEF Aims
      <3>3. Extending(new, d)
        BY <2>7 DEF Extending
      <3>4. Copying(new, ob, t, d)
        BY <2>1, <2>7, <2>8, <2>11 DEF Copying
      <3>5. QED  BY <1>11, <2>7, <2>8, <3>1, <3>2, <3>3, <3>4 DEF ThreadOK
    <2>13. ThreadOK(packet', object', t, d)
      BY <1>1, <1>3, <2>12
    <2>14. ~Careless => \A q : Has(t, q) => \E x \in Owned(object', t, d) : OnChain(packet', x, q)
      BY <1>1, <1>3, <1>12, <2>8
    <2>15. Goes(t, d)
      BY <1>3, <1>15
    <2>16. QED  BY <1>3, <1>13, <2>7, <2>13, <2>14, <2>15, OwnMoves
  <1>16. QED  BY <1>5, <1>14, <1>15

(* A copy is complete, and its object gets it. *)
LEMMA EndCopyKeeps ==
  ASSUME Good, NEW t \in Threads, EndCopy(t), IInv', OwnInv'
  PROVE  Good'
  <1>1. PICK c, p, pk, new, ob, h :
          c = call[t] /\ p = c.target /\ pk = packet /\ new = packet' /\ ob = object /\ h = c.from
    OBVIOUS
  <1>2. PICK offset, done : offset = pk[h].prepend
                            /\ done = [pk[p] EXCEPT !.prepend = offset, !.length = @ - offset]
    OBVIOUS
  <1>3. /\ c.pc = "copy" /\ c.source = NoPacket /\ new = [pk EXCEPT ![p] = done]
        /\ done.length = pk[h].length =>
             Goes(t, Idle) /\ object' = [o \in Objects |-> IF o \in c.obj THEN p ELSE ob[o]]
        /\ noPreempt' = noPreempt /\ received' = received /\ sent' = sent
    BY <1>1, <1>2 DEF EndCopy, At, poolVars, queueVars, stackVars
  <1>4. /\ t \in Callers /\ OwnInv /\ pk \in [Packets -> PacketRecord] /\ ob \in [Objects -> Pointer]
        /\ c \in CallRecord /\ Phases(c) /\ ThreadOK(pk, ob, t, c) /\ Aims(ob, t, c)
        /\ Sparse(t, c) /\ Copying(pk, ob, t, c)
    BY <1>1, UnderWay
  <1>5. /\ c.op = "copy" /\ c.got = NoPacket /\ c.free = NoPacket /\ c.list = NoPacket
        /\ p # NoPacket /\ p \in Packets /\ p \in Pointer
    BY <1>1, <1>3, <1>4 DEF Sparse, Phases, CallRecord, Pointer
  <1>6. p \in Data(ob, t, c) /\ p \in Owned(ob, t, c) /\ Ends(pk, p) /\ Complete(pk, p)
    <2>1. p \in Data(ob, t, c) /\ p \in Owned(ob, t, c)
      BY <1>1, <1>3, <1>4, InUse
    <2>2. QED  BY <1>3, <1>4, <2>1 DEF ThreadOK
  <1>7. Distinct(ob, t, c)
    BY <1>1, <1>4, OwnDistinct
  <1>8. h \in OfObjects(ob, t, c) /\ h \in Packets /\ h # p /\ Ends(pk, h) /\ Complete(pk, h) /\ Copied(pk, c)
    <2>1. h \in OfObjects(ob, t, c) /\ Copied(pk, c)
      BY <1>1, <1>3, <1>4, <1>5 DEF Copying, Busy
    <2>2. h \in Data(ob, t, c) /\ h \in Owned(ob, t, c) /\ h \in Packets
      BY <2>1 DEF Owned, Data, OfObjects
    <2>3. h # p
      BY <1>1, <1>5, <1>7, <2>1 DEF Distinct
    <2>4. QED  BY <1>3, <1>4, <2>1, <2>2, <2>3 DEF ThreadOK
  <1>9. PICK s : s = Follow(pk, h)
    OBVIOUS
  <1>10. s \in Seq(Packets) /\ \A i \in 1..Len(s) : s[i] \in Packets
    BY <1>8, <1>9, EndsElements
  <1>11. pk[p].length = SumAlong(UsedOf(pk), s) /\ pk[p].prepend = 0
    <2>1. \A i \in 2..Len(s) : c.source # s[i]
      <3>1. \A i \in 2..Len(s) : i \in 1..Len(s)
        BY <1>10
      <3>2. QED  BY <1>3, <1>10, <3>1, PoolAssumption
    <2>2. pk[p].length = UsedUpTo(pk, h, Len(s)) /\ pk[p].prepend = 0
      BY <1>1, <1>3, <1>5, <1>8, <1>9, <2>1 DEF Copied
    <2>3. QED  BY <1>4, <1>8, <1>9, <2>2, UpTo
  <1>12. offset \in 0..Room /\ pk[h].length \in Nat /\ pk[p].length = pk[h].length + offset
         /\ pk[p] \in PacketRecord
    <2>1. pk[h] \in PacketRecord /\ pk[p] \in PacketRecord
      BY <1>4, <1>5, <1>8
    <2>2. offset \in 0..Room /\ pk[h].length \in Nat
      BY <1>2, <2>1 DEF PacketRecord
    <2>3. pk[h].length + pk[h].prepend = SumAlong(UsedOf(pk), s)
      BY <1>8, <1>9 DEF Complete
    <2>4. QED  BY <1>2, <1>11, <2>1, <2>2, <2>3
  <1>13. offset <= pk[p].length /\ pk[p].length - offset = pk[h].length
    <2>1. PICK x, y : x = pk[p].length /\ y = pk[h].length
      OBVIOUS
    <2>2. y \in Nat /\ offset \in Nat /\ x = y + offset
      BY <1>12, <2>1, PoolAssumption
    <2>3. offset <= x /\ x - offset = y
      BY <2>2
    <2>4. QED  BY <2>1, <2>3
  <1>14. done.length = pk[h].length
    <2>1. done.length = pk[p].length - offset
      BY <1>2, <1>12 DEF PacketRecord
    <2>2. QED  BY <1>13, <2>1
  <1>15. /\ new \in [Packets -> PacketRecord]
         /\ \A q \in Packets : /\ new[q].mark = pk[q].mark
                               /\ q # p => new[q] = pk[q]
         /\ Ends(new, p) /\ Follow(new, p) = Follow(pk, p) /\ Complete(new, p)
    <2>1. new = WithOffset(pk, p, offset)
      BY <1>2, <1>3 DEF WithOffset
    <2>2. /\ Ends(pk, p) /\ Complete(pk, p) /\ pk[p].prepend = 0 /\ offset \in 0..Room
          /\ offset <= pk[p].length /\ pk \in [Packets -> PacketRecord]
      BY <1>4, <1>6, <1>11, <1>12, <1>13
    <2>3. QED  BY <2>1, <2>2, OffsetMoved
  <1>16. /\ \A x \in Data(ob, t, c) : x # p => Same(pk, new, x)
         /\ \A q \in Packets : new[q] = pk[q] \/ Has(t, q)
         /\ Owned(ob, t, c) = Data(ob, t, c)
    <2>1. PICK H : H = {p}
      OBVIOUS
    <2>2. H \subseteq Owned(object, t, call[t])
      BY <1>1, <1>6, <2>1
    <2>3. OnChain(pk, p, p)
      BY <1>6, OnItself
    <2>4. \A q \in Packets : new[q] = packet[q] \/ \E g \in H : OnChain(packet, g, q)
      BY <1>1, <1>15, <2>1, <2>3
    <2>5. /\ \A x \in Owned(object, t, call[t]) \ H : Same(packet, new, x)
          /\ \A q \in Packets : new[q] = packet[q] \/ Has(t, q)
      BY <2>2, <2>4, OwnOthers
    <2>6. Owned(ob, t, c) = Data(ob, t, c)
      BY <1>5, PoolAssumption DEF Owned
    <2>7. QED  BY <1>1, <2>1, <2>5, <2>6
  <1>17. \A x \in Data(ob, t, c) :
            /\ Ends(new, x) /\ Complete(new, x)
            /\ \A q : OnChain(pk, x, q) => OnChain(new, x, q)
    <2>1. ASSUME NEW x \in Data(ob, t, c), x # p
          PROVE  Ends(new, x) /\ Complete(new, x) /\ Follow(new, x) = Follow(pk, x)
      <3>1. Same(pk, new, x) /\ Complete(pk, x)
        BY <1>3, <1>4, <1>16, <2>1 DEF ThreadOK
      <3>2. QED  BY <1>4, <1>15, <3>1, SameChain
    <2>2. QED  BY <1>15, <2>1 DEF OnChain
  <1>18. PICK o \in ObjectsOf[t] : c.obj = {o} /\ ob[o] = NoPacket
    BY <1>4, <1>5 DEF Aims
  <1>19. PICK other : other = [x \in Objects |-> IF x \in {o} THEN p ELSE ob[x]]
    OBVIOUS
  <1>20. Goes(t, Idle) /\ object' = other
    BY <1>3, <1>14, <1>18, <1>19
  <1>21. /\ other \in [Objects -> Pointer]
         /\ \A u \in Threads \ {t} : \A x \in ObjectsOf[u] : other[x] = ob[x]
         /\ \A x : x \in OfObjects(other, t, Idle) <=>
                     x \in OfObjects(ob, t, Idle) \/ (x \in Packets /\ x = p)
    BY <1>4, <1>5, <1>18, <1>19, ObjectHas
  <1>22. \A x : x \in OfObjects(other, t, Idle) <=> x \in Data(ob, t, c)
    <2>1. OfObjects(ob, t, c) = OfObjects(ob, t, Idle)
      BY <1>5, IdleTyped DEF OfObjects
    <2>2. \A x : x \in Data(ob, t, c) <=> x \in OfObjects(ob, t, c) \/ (x \in Packets /\ x = p)
      BY <1>1, <1>5 DEF Data, OfCopy
    <2>3. QED  BY <1>21, <2>1, <2>2
  <1>23. ThreadOK(new, other, t, Idle) /\ Owned(other, t, Idle) = OfObjects(other, t, Idle)
    BY <1>17, <1>22, IdleOK
  <1>24. /\ object' \in [Objects -> Pointer] /\ packet' \in [Packets -> PacketRecord]
         /\ \A q \in Packets : packet'[q].mark = packet[q].mark
         /\ \A q \in Packets : packet'[q] = packet[q] \/ Has(t, q)
         /\ \A u \in Threads \ {t} : \A x \in ObjectsOf[u] : object'[x] = object[x]
         /\ ThreadOK(packet', object', t, Idle) /\ Idle \in CallRecord
    BY <1>1, <1>15, <1>16, <1>20, <1>21, <1>23, IdleTyped
  <1>25. ~Careless => \A q : Has(t, q) => \E x \in Owned(object', t, Idle) : OnChain(packet', x, q)
    BY <1>1, <1>16, <1>17, <1>20, <1>22, <1>23 DEF Has
  <1>26. QED  BY <1>3, <1>20, <1>24, <1>25, OwnMoves

-----------------------------------------------------------------------------
(* The invariant holds at the start, and every step keeps it.              *)
LEMMA InitGood == Init => Good
  <1> SUFFICES ASSUME Init PROVE Good
    OBVIOUS
  <1>1. PICK f : f = [Fresh(0) EXCEPT !.mark = "FREE"]
    OBVIOUS
  <1>2. /\ packet = [p \in Packets |-> f] /\ object = [o \in Objects |-> NoPacket]
        /\ noPreempt = {} /\ received = {} /\ sent = {} /\ call = [t \in Callers |-> Idle]
    BY <1>1 DEF Init
  <1>3. f \in PacketRecord /\ f.mark = "FREE"
    BY <1>1, PoolAssumption DEF Fresh, PacketRecord, Mark, Pointer
  <1>4. Typed
    BY <1>2, <1>3, IdleTyped DEF Typed, Pointer
  <1>5. \A t \in Callers : ThreadOK(packet, object, t, call[t])
    <2> SUFFICES ASSUME NEW t \in Callers PROVE ThreadOK(packet, object, t, Idle)
      BY <1>2
    <2>1. OfObjects(object, t, Idle) = {}
      <3>1. \A o \in Objects : object[o] \notin Packets
        BY <1>2, PoolAssumption
      <3>2. QED  BY <3>1 DEF OfObjects, Objects
    <2>2. QED  BY <2>1, IdleOK
  <1>6. NetOK
    BY <1>2 DEF NetOK
  <1>7. AllHeld
    BY <1>2, <1>3 DEF AllHeld
  <1>8. QED  BY <1>4, <1>5, <1>6, <1>7, InitIInv, InitOwnInv DEF Good

(* Whatever the application calls. *)
LEMMA CallKeeps ==
  ASSUME Good, NEW t \in Threads, Call(t), IInv', OwnInv'
  PROVE  Good'
  <1>1. PICK o \in ObjectsOf[t] :
          \/ \E type \in Offsets, wait \in WaitsOf[t] : CallAllocate(t, o, type, wait)
          \/ \E size \in Sizes, wait \in WaitsOf[t] : CallAppend(t, o, size, wait)
          \/ \E wait \in WaitsOf[t] : CallCopy(t, o, wait)
          \/ CallRelease(t, o)
          \/ Send(t, o)
          \/ \E p \in received : Adopt(t, o, p)
    BY DEF Call
  <1>2. QED
    BY <1>1, CallAllocateKeeps, CallAppendKeeps, CallCopyKeeps, CallReleaseKeeps, SendKeeps,
       AdoptKeeps

(* Whatever a call does next. *)
LEMMA StepKeeps ==
  ASSUME Good, NEW t \in Threads, Step(t), IInv', OwnInv'
  PROVE  Good'
  <1>1. t \in Callers
    BY DEF Callers
  <1>2. QED
    BY <1>1, EndAllocateKeeps, ExtendKeeps, LinkKeeps, FillKeeps, CollectKeeps, GiveUpKeeps,
       StartCopyKeeps, CopyNextKeeps, EndCopyKeeps, PutBackKeeps, UnqueueKeeps, GiveKeeps
       DEF Step

(* A stuttering step. *)
LEMMA NothingKeeps ==
  ASSUME Good, UNCHANGED vars, IInv', OwnInv'
  PROVE  Good'
  <1>1. UNCHANGED <<noPreempt, packet, object, received, sent, call>>
    BY DEF vars
  <1>2. Typed' /\ NetOK'
    BY <1>1 DEF Good, Typed, NetOK
  <1>3. \A t \in Callers : ThreadOK(packet', object', t, call'[t])
    BY <1>1 DEF Good
  <1>4. AllHeld'
    BY <1>1 DEF Good, AllHeld, Has
  <1>5. QED  BY <1>2, <1>3, <1>4 DEF Good

(* Every step. *)
LEMMA KeepsGood == Good /\ [Next]_vars => Good'
  <1> SUFFICES ASSUME Good, [Next]_vars PROVE Good'
    OBVIOUS
  <1>1. IInv' /\ OwnInv'
    BY KeepsIInv, KeepsOwnInv DEF Good
  <1>2. IpThread \in Callers
    BY DEF Callers
  <1>3. CASE UNCHANGED vars
    BY <1>1, <1>3, NothingKeeps
  <1>4. ASSUME NEW t \in Threads, Call(t) \/ Step(t) \/ Timeout(t) PROVE Good'
    BY <1>1, <1>4, CallKeeps, StepKeeps, TimeoutKeeps
  <1>5. CASE IpStep
    BY <1>1, <1>2, <1>5, PutBackKeeps, UnqueueKeeps, GiveKeeps DEF IpStep
  <1>6. ASSUME NEW size \in FrameSizes, Receive(size) PROVE Good'
    BY <1>1, <1>6, ReceiveKeeps
  <1>7. ASSUME NEW p \in Packets, StackRelease(p) PROVE Good'
    BY <1>1, <1>7, StackReleaseKeeps
  <1>8. QED  BY <1>3, <1>4, <1>5, <1>6, <1>7 DEF Next

(* The inductive invariant of chains: what every thread has at every point *)
(* of every call, and that there is nothing else.                          *)
THEOREM ChainsInvariant == SafeSpec => []Good
  BY InitGood, KeepsGood, PTL DEF SafeSpec

-----------------------------------------------------------------------------
(* The types of all variables: no packet ever holds more than its payload, *)
(* whatever is appended to it, copied and received.                        *)
THEOREM Types == SafeSpec => []TypeOK
  <1>1. Good => TypeOK
    <2> SUFFICES ASSUME Good PROVE TypeOK
      OBVIOUS
    <2>1. available \in Seq(Packets) /\ received \subseteq Packets /\ sent \subseteq Packets
      BY DEF Good, OwnInv, Pool, Stack
    <2>2. suspended \in Seq(Threads) /\ cleanup \subseteq Threads
      <3>1. suspended \in Seq(Threads) /\ cleanup = ToSet(suspended)
        BY DEF Good, IInv, WaitingList
      <3>2. \A i \in 1..Len(suspended) : suspended[i] \in Threads
        BY <3>1
      <3>3. QED  BY <3>1, <3>2 DEF ToSet
    <2>3. QED  BY <2>1, <2>2 DEF Good, Typed, TypeOK, PacketRecord
  <1>2. QED  BY ChainsInvariant, <1>1, PTL

(* A complete chain is whole, as the property says. *)
LEMMA IsWhole ==
  ASSUME NEW p, Ends(packet, p), Complete(packet, p)
  PROVE  Whole(p)
  <1> DEFINE s == Follow(packet, p)
  <1>1. s \in Seq(Packets) /\ Len(s) \in Nat \ {0}
    BY EndsElements
  <1>2. Last(s) = s[Len(s)]
    BY DEF Last
  <1>3. packet[p].length + packet[p].prepend = SumAlong([q \in Packets |-> packet[q].used], s)
    BY DEF Complete, UsedOf
  <1>4. QED  BY <1>2, <1>3 DEF Whole, Complete, LastOf

(* Chains are well formed for every reader: what an object, NetX or the    *)
(* driver holds is whole, also while an append or a copy waits, after it   *)
(* was timed out or given up half-way and after the packets it had got     *)
(* were put back; and the last test of _nx_packet_copy never fails.        *)
THEOREM ChainsStayWhole == SafeSpec => []ChainsAreWhole
  <1>1. Good => ChainsAreWhole
    <2> SUFFICES ASSUME Good PROVE ChainsAreWhole
      OBVIOUS
    <2>1. \A p \in received \cup sent : Whole(p)
      BY IsWhole DEF Good, NetOK
    <2>2. ASSUME NEW o \in Objects, FirstAt(<<"object", o>>) # NoPacket
          PROVE  (\E t \in Threads : call[t].pc = "fill" /\ call[t].target = object[o]) \/ Whole(object[o])
      <3>1. PICK t \in Threads : o \in ObjectsOf[t]
        BY DEF Objects
      <3>2. object[o] # NoPacket /\ ~(call[t].op = "release" /\ o \in call[t].obj)
        BY <2>2 DEF FirstAt
      <3>3. object[o] \in Packets /\ ThreadOK(packet, object, t, call[t])
        BY <3>2 DEF Good, Typed, Pointer, Callers
      <3>4. object[o] \in Data(object, t, call[t])
        BY <3>1, <3>2, <3>3 DEF Data, OfObjects
      <3>5. Ends(packet, object[o])
        BY <3>3, <3>4 DEF ThreadOK, Owned
      <3>6. CASE call[t].pc = "fill" /\ object[o] = call[t].target
        BY <3>6
      <3>7. CASE Complete(packet, object[o])
        BY <3>5, <3>7, IsWhole
      <3>8. QED  BY <3>3, <3>4, <3>6, <3>7 DEF ThreadOK
    <2>3. ASSUME NEW t \in Threads, call[t].pc = "copy", call[t].source = NoPacket
          PROVE  packet[call[t].target].length = packet[call[t].from].length + packet[call[t].from].prepend
      <3>1. PICK c, h : c = call[t] /\ h = c.from
        OBVIOUS
      <3>2. /\ packet \in [Packets -> PacketRecord]
            /\ ThreadOK(packet, object, t, c) /\ c.op = "copy" /\ c.pc = "copy" /\ c.source = NoPacket
            /\ Copying(packet, object, t, c)
        BY <2>3, <3>1, UnderWay DEF Phases
      <3>3. h \in OfObjects(object, t, c) /\ Copied(packet, c)
        BY <3>1, <3>2 DEF Copying, Busy
      <3>4. h \in Data(object, t, c) /\ h \in Owned(object, t, c) /\ c.pc # "fill"
        BY <3>2, <3>3 DEF Data, Owned
      <3>5. Ends(packet, h) /\ Complete(packet, h)
        BY <3>2, <3>4 DEF ThreadOK
      <3>6. PICK s : s = Follow(packet, h)
        OBVIOUS
      <3>7. \A i \in 2..Len(s) : c.source # s[i]
        <4>1. /\ Len(s) \in Nat \ {0} /\ \A i \in 1..Len(s) : s[i] \in Packets
          BY <3>5, <3>6, EndsElements
        <4>2. \A i \in 2..Len(s) : i \in 1..Len(s)
          BY <4>1
        <4>3. QED  BY <3>2, <4>1, <4>2, PoolAssumption
      <3>8. packet[c.target].length = UsedUpTo(packet, h, Len(s))
        BY <3>1, <3>2, <3>3, <3>6, <3>7 DEF Copied
      <3>9. UsedUpTo(packet, h, Len(s)) = SumAlong(UsedOf(packet), s)
        BY <3>2, <3>5, <3>6, UpTo
      <3>10. packet[h].length + packet[h].prepend = SumAlong(UsedOf(packet), s)
        BY <3>5, <3>6 DEF Complete
      <3>11. QED  BY <3>1, <3>8, <3>9, <3>10
    <2>4. QED  BY <2>1, <2>2, <2>3 DEF ChainsAreWhole, AppendsAreWhole, CopiesAreEqual
  <1>2. QED  BY ChainsInvariant, <1>1, PTL

-----------------------------------------------------------------------------
(* The places of first packets of chains.                                  *)
LEMMA PlaceHas ==
  ASSUME Good, NEW q \in Places, FirstAt(q) # NoPacket
  PROVE  IsHead(FirstAt(q))
  <1>1. OwnInv /\ In(q) = FirstAt(q)
    BY PlaceIsSlot DEF Good
  <1>2. ASSUME NEW t \in Callers, NEW f \in Fields, q = <<f, t>>
        PROVE  FirstAt(q) \in Owned(object, t, call[t])
    <2>1. Local(call[t], f) = FirstAt(q) /\ call[t] \in CallRecord
      BY <1>1, <1>2, InCall DEF Good, Typed
    <2>2. FirstAt(q) \in Packets
      BY <2>1 DEF CallRecord, Local, Pointer, Fields
    <2>3. QED  BY <2>1, <2>2 DEF Local, Fields, Owned, Data, OfCopy
  <1>3. ASSUME NEW o \in Objects, q = <<"object", o>>
        PROVE  \E t \in Callers : FirstAt(q) \in Owned(object, t, call[t])
    <2>1. PICK t \in Threads : o \in ObjectsOf[t]
      BY DEF Objects
    <2>2. ~(call[t].op = "release" /\ o \in call[t].obj) /\ FirstAt(q) = object[o]
      BY <1>1, <1>3, <2>1, ObjectIn
    <2>3. object[o] \in Packets /\ t \in Callers
      BY <2>2 DEF Good, Typed, Pointer, Callers
    <2>4. object[o] \in Owned(object, t, call[t])
      BY <2>1, <2>2, <2>3 DEF Owned, Data, OfObjects
    <2>5. QED  BY <2>2, <2>3, <2>4
  <1>4. CASE q \in {<<"received", p>> : p \in received} \cup {<<"sent", p>> : p \in sent}
    <2>1. PICK p \in received \cup sent : q[2] = p /\ q[1] \in {"received", "sent"}
      BY <1>4
    <2>2. FirstAt(q) = p
      BY <2>1 DEF FirstAt
    <2>3. QED  BY <2>1, <2>2 DEF IsHead
  <1>5. QED  BY <1>2, <1>3, <1>4 DEF Places, IsHead, Fields

(* Every first packet is in a place of the specification. *)
LEMMA HasPlace ==
  ASSUME Good, NEW h, IsHead(h)
  PROVE  \E q \in Places : FirstAt(q) = h /\ h # NoPacket
  <1>1. h # NoPacket /\ OwnInv
    BY HeadIn DEF Good
  <1>2. CASE h \in received \cup sent
    <2>1. <<"received", h>> \in Places \/ <<"sent", h>> \in Places
      BY <1>2 DEF Places
    <2>2. FirstAt(<<"received", h>>) = h /\ FirstAt(<<"sent", h>>) = h
      BY DEF FirstAt
    <2>3. QED  BY <1>1, <2>1, <2>2
  <1>3. ASSUME NEW t \in Callers, h \in Owned(object, t, call[t])
        PROVE  \E q \in Places : FirstAt(q) = h
    <2>1. \A f \in Fields : <<f, t>> \in Places
      BY DEF Fields, Places
    <2>2. \A f \in Fields : FirstAt(<<f, t>>) = In(<<f, t>>)
      BY <1>1, <2>1, PlaceIsSlot
    <2>3. CASE h \in OfObjects(object, t, call[t])
      <3>1. PICK o \in ObjectsOf[t] : t \in Threads /\ In(<<"object", o>>) = h
        BY <1>1, <2>3, ObjectsIn
      <3>2. <<"object", o>> \in Places
        BY <3>1 DEF Places, Objects
      <3>3. QED  BY <1>1, <3>1, <3>2, PlaceIsSlot
    <2>4. CASE h \in OfCopy(call[t])
      <3>1. In(<<"target", t>>) = h /\ "target" \in Fields
        BY <2>4, CallIn DEF OfCopy, Fields
      <3>2. QED  BY <2>1, <2>2, <3>1
    <2>5. CASE h = call[t].list \/ h = call[t].got \/ h = call[t].free
      BY <2>1, <2>2, <2>5, CallIn DEF Fields
    <2>6. QED  BY <1>3, <2>3, <2>4, <2>5 DEF Owned, Data
  <1>4. QED  BY <1>1, <1>2, <1>3 DEF IsHead

(* No packet is lost: each one is in the pool once, or once in one chain   *)
(* that one holder has, whatever the threads call, whoever interrupts them *)
(* and wherever an allocation fails - when objects that hold a packet are  *)
(* not told to allocate another one.                                       *)
THEOREM NoPacketLost == ASSUME ~Careless PROVE SafeSpec => []PoolConserved
  <1>1. Good => PoolConserved
    <2> SUFFICES ASSUME Good PROVE PoolConserved
      OBVIOUS
    <2> DEFINE places == {q \in Places : FirstAt(q) # NoPacket}
               chain  == [q \in places |-> Follow(packet, FirstAt(q))]
    <2>1. IsInjective(available) /\ ToSet(available) = {p \in Packets : packet[p].mark = "FREE"}
      <3>1. available \in Seq(Packets) /\ NoneTwice(available)
            /\ ToSet(available) = {p \in Packets : packet[p].mark = "FREE"}
        BY DEF Good, OwnInv, Pool
      <3>2. QED  BY <3>1 DEF IsInjective, NoneTwice
    <2>2. ASSUME NEW q \in places
          PROVE  /\ IsHead(FirstAt(q)) /\ chain[q] = Follow(packet, FirstAt(q))
                 /\ IsChain(packet, chain[q])
                 /\ \A p : p \in ToSet(chain[q]) <=> OnChain(packet, FirstAt(q), p)
      <3>1. IsHead(FirstAt(q)) /\ chain[q] = Follow(packet, FirstAt(q))
        BY PlaceHas
      <3>2. Ends(packet, FirstAt(q))
        BY <3>1, HeadEnds
      <3> HIDE DEF chain
      <3>3. ToSet(chain[q]) = {chain[q][i] : i \in 1..Len(chain[q])}
        BY <3>1, <3>2, EndsElements
      <3>4. QED  BY <3>1, <3>2, <3>3 DEF Ends, OnChain
    <2>3. \A q \in places : IsInjective(chain[q])
      BY <2>2, ChainInjective
    <2>4. ASSUME NEW q \in places, NEW r \in places, q # r
          PROVE  ToSet(chain[q]) \cap ToSet(chain[r]) = {}
      <3>1. FirstAt(q) # FirstAt(r)
        <4>1. /\ q \in Slots /\ In(q) = FirstAt(q) /\ r \in Slots /\ In(r) = FirstAt(r)
              /\ FirstAt(q) # NoPacket
          BY PlaceIsSlot DEF Good
        <4>2. QED  BY <2>4, <4>1 DEF Good, OwnInv, Exclusive
      <3> HIDE DEF chain, places
      <3>2. QED  BY <2>2, <3>1, HeadsApart
    <2>5. ASSUME NEW p
          PROVE  (\E q \in places : p \in ToSet(chain[q])) <=> p \in Packets /\ packet[p].mark = "ALLOCATED"
      <3>1. ASSUME NEW q \in places, p \in ToSet(chain[q])
            PROVE  p \in Packets /\ packet[p].mark = "ALLOCATED"
        <4> HIDE DEF chain, places
        <4>1. QED  BY <2>2, <3>1, ChainAllocated
      <3>2. ASSUME p \in Packets, packet[p].mark = "ALLOCATED"
            PROVE  \E q \in places : p \in ToSet(chain[q])
        <4>1. PICK h : IsHead(h) /\ OnChain(packet, h, p)
          BY <3>2 DEF Good, AllHeld, Has, IsHead
        <4>2. PICK q \in places : FirstAt(q) = h
          BY <4>1, HasPlace
        <4> HIDE DEF chain, places
        <4>3. QED  BY <2>2, <4>1, <4>2
      <3> HIDE DEF chain, places
      <3>3. QED  BY <3>1, <3>2
    <2>6. UNION {ToSet(chain[q]) : q \in places} = {p \in Packets : packet[p].mark = "ALLOCATED"}
      <3> HIDE DEF chain, places
      <3>1. QED  BY <2>5
    <2>7. QED  BY <2>1, <2>3, <2>4, <2>6 DEF PoolConserved
  <1>2. QED  BY ChainsInvariant, <1>1, PTL
=============================================================================
