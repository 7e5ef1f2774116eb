----------------------------- MODULE PacketPool -----------------------------
(***************************************************************************)
(* Packets: the classes BasePacket and Packet of src/src/Packet over the   *)
(* packet pool of NetX (nx_packet_allocate.c, nx_packet_release.c,         *)
(* nx_packet_pool_cleanup.c, nx_packet_data_append.c, nx_packet_copy.c,    *)
(* nx_packet_transmit_release.c).                                          *)
(*                                                                         *)
(* An application thread allocates packets into its objects, appends data  *)
(* (which allocates more packets and chains them), copies, sends and       *)
(* releases them, and takes over packets that arrived.  When the pool is   *)
(* empty a thread may wait; whoever releases a packet gives it to the      *)
(* first thread that waits, unless the wait is timed out just then.        *)
(*                                                                         *)
(* A step is one section with interrupts disabled, or what a thread does   *)
(* between two of them to packets that are its own, which nobody else can  *)
(* see.  Data is a number of units: a packet has Room units, of which the  *)
(* header offset of an allocation (packet_type) takes some.  A packet sent *)
(* or received counts with its data behind the offset, headers and all.    *)
(***************************************************************************)
EXTENDS Naturals, FiniteSets, SequencesExt

CONSTANTS
  Threads,    \* application threads
  IpThread,   \* the thread that runs NetX and the driver
  ObjectsOf,  \* the objects of class Packet that each thread has
  Packets,    \* the packets of the pool
  NoPacket,   \* the null pointer
  Room,       \* nx_packet_pool_payload_size, in units of data
  Sizes,      \* how much is appended at once
  FrameSizes, \* how much a received packet brings
  Offsets,    \* values of packet_type
  WaitsOf,    \* wait options of each thread: "none", "ticks", "forever"
  Careless    \* whether a pointer to a packet is overwritten by allocate()

ASSUME PoolAssumption ==
  /\ IsFiniteSet(Threads) /\ IpThread \notin Threads
  /\ \A t \in Threads : IsFiniteSet(ObjectsOf[t])
  /\ \A t, u \in Threads : t # u => ObjectsOf[t] \cap ObjectsOf[u] = {}
  /\ IsFiniteSet(Packets) /\ NoPacket \notin Packets
  /\ Room \in Nat \ {0}
  /\ Sizes \subseteq Nat \ {0}
  /\ FrameSizes \subseteq 1..Room
  /\ Offsets \subseteq 0..Room
  /\ WaitsOf \in [Threads -> SUBSET {"none", "ticks", "forever"}]
  /\ Careless \in BOOLEAN

VARIABLES
  available,  \* nx_packet_pool_available_list
  suspended,  \* nx_packet_pool_suspension_list
  cleanup,    \* threads whose tx_thread_suspend_cleanup is set
  noPreempt,  \* the thread that has disabled preemption, if any
  packet,     \* the packets
  object,     \* nxPacket of the objects of each thread
  received,   \* first packets of what NetX holds for the application
  sent,       \* first packets of what NetX and the driver are sending
  call        \* where each thread is, and the local variables of its call

vars == <<available, suspended, cleanup, noPreempt, packet, object, received, sent, call>>

Callers == Threads \cup {IpThread}
Objects == UNION {ObjectsOf[t] : t \in Threads}
Pointer == Packets \cup {NoPacket}

Min2(m, n) == IF m < n THEN m ELSE n

\* nothing is being called
Idle ==
  [pc |-> "idle", op |-> "none", obj |-> {}, wait |-> "none", type |-> 0,
   size |-> 0, target |-> NoPacket, source |-> NoPacket, from |-> NoPacket, list |-> NoPacket,
   got |-> NoPacket, free |-> NoPacket, to |-> {}]

\* a packet as _nx_packet_allocate and _nx_packet_release hand it out
Fresh(type) ==
  [mark |-> "ALLOCATED", next |-> NoPacket, last |-> NoPacket, length |-> 0,
   prepend |-> type, used |-> type]

-----------------------------------------------------------------------------
(* Chains of packets                                                       *)

\* the packets from p on, along nx_packet_next
Follow(pk, p) ==
  LET walk[n \in 0..Cardinality(Packets)] ==
        IF n = 0 THEN <<p>>
        ELSE LET s == walk[n-1]
                 q == pk[Last(s)].next
             IN  IF q = NoPacket THEN s ELSE Append(s, q)
  IN  IF p = NoPacket THEN <<>> ELSE walk[Cardinality(Packets)]

\* where data is appended: nx_packet_last, or the packet itself
AppendTo(pk, p) == IF pk[p].last = NoPacket THEN p ELSE pk[p].last

\* the packets data may go to: without nx_packet_last only the first one
Behind(pk, p) ==
  IF pk[p].last = NoPacket THEN <<p>> ELSE Follow(pk, pk[p].last)

\* the sum of f along a sequence of packets
SumAlong(f, s) ==
  LET sum[n \in 0..Len(s)] == IF n = 0 THEN 0 ELSE sum[n-1] + f[s[n]]
  IN  sum[Len(s)]

\* the room left in a sequence of packets
RoomIn(pk, s) == SumAlong([p \in Packets |-> Room - pk[p].used], s)

(* Mutant of Linked: also behind a chain, the first packet is linked. *)
LinkedToFirst(pk, p, list) ==
  IF list = NoPacket THEN pk
  ELSE [pk EXCEPT ![p].next = list, ![list].last = NoPacket]

\* the list of new packets becomes the rest of the chain of p
Linked(pk, p, list) ==
  IF list = NoPacket THEN pk
  ELSE [pk EXCEPT ![Last(Behind(pk, p))].next = list, ![list].last = NoPacket]

\* the new packet got at the end of the list of new packets
Collected(pk, list, got) ==
  IF list = NoPacket THEN pk
  ELSE [pk EXCEPT ![AppendTo(pk, list)].next = got, ![list].last = got]

(* Mutant of Filled: the size is not limited to what the packet has room for. *)
FilledBeyond(pk, p, s, size) ==
  [pk EXCEPT ![s[1]].used = @ + size, ![p].length = @ + size]

\* what is left of size units before each of the packets s, and after them, when
\* they are copied as far as there is room, one after the other
Left(pk, s, size) ==
  LET left[i \in 1..(Len(s) + 1)] ==
        IF i = 1 THEN size
        ELSE LET n == left[i-1] IN n - Min2(n, Room - pk[s[i-1]].used)
  IN  left

\* what a packet gets of them; it is in s at most once
Share(pk, s, size, q) ==
  LET left == Left(pk, s, size)
      at   == {i \in DOMAIN s : s[i] = q}
  IN  IF at = {} THEN 0 ELSE left[Min(at)] - left[Min(at) + 1]

\* size units are copied into the packets s of the chain of p; nx_packet_last
\* follows the data
Filled(pk, p, s, size) ==
  LET reached == {i \in 2..Len(s) : Left(pk, s, size)[i] > 0}
  IN  [q \in Packets |->
        [pk[q] EXCEPT !.used   = @ + Share(pk, s, size, q),
                      !.length = IF q = p THEN @ + size ELSE @,
                      !.last   = IF q = p /\ reached # {} THEN s[Max(reached)] ELSE @]]

-----------------------------------------------------------------------------
Init ==
  /\ available = SetToSeq(Packets)
  /\ suspended = <<>>
  /\ cleanup = {}
  /\ noPreempt = {}
  /\ packet = [p \in Packets |-> [Fresh(0) EXCEPT !.mark = "FREE"]]
  /\ object = [o \in Objects |-> NoPacket]
  /\ received = {}
  /\ sent = {}
  /\ call = [t \in Callers |-> Idle]

\* t runs: no other thread has disabled preemption
Runs(t) == noPreempt \subseteq {t}

At(t, pc) == Runs(t) /\ call[t].pc = pc

Goes(t, c) == call' = [call EXCEPT ![t] = c]

queueVars == <<suspended, cleanup, noPreempt>>
poolVars  == <<available, queueVars>>
stackVars == <<received, sent>>

-----------------------------------------------------------------------------
(* _nx_packet_allocate for a call c of t                                   *)

Take(t, c) ==
  /\ available # <<>>
  /\ available' = Tail(available)
  /\ packet' = [packet EXCEPT ![Head(available)] = Fresh(c.type)]
  /\ Goes(t, [c EXCEPT !.pc = "allocated", !.got = Head(available)])
  /\ UNCHANGED queueVars

FindNone(t, c) ==
  /\ available = <<>>
  /\ c.wait = "none"
  /\ Goes(t, [c EXCEPT !.pc = "allocated"])
  /\ UNCHANGED <<poolVars, packet>>

(* Mutant of Suspend: a thread that waits already drops out of the list. *)
SuspendAlone(t, c) ==
  /\ available = <<>>
  /\ c.wait # "none"
  /\ suspended' = <<t>>
  /\ cleanup' = cleanup \cup {t}
  /\ Goes(t, [c EXCEPT !.pc = "suspended"])
  /\ UNCHANGED <<available, noPreempt, packet>>

\* the thread is the last to wait
Suspend(t, c) ==
  /\ available = <<>>
  /\ c.wait # "none"
  /\ suspended' = Append(suspended, t)
  /\ cleanup' = cleanup \cup {t}
  /\ Goes(t, [c EXCEPT !.pc = "suspended"])
  /\ UNCHANGED <<available, noPreempt, packet>>

Allocate(t, c) == Take(t, c) \/ FindNone(t, c) \/ Suspend(t, c)

\* the timer interrupt ends a wait with _nx_packet_pool_cleanup; it does
\* nothing when a release has cleared tx_thread_suspend_cleanup before
Timeout(t) ==
  /\ call[t].pc = "suspended"
  /\ call[t].wait = "ticks"
  /\ t \in cleanup
  /\ cleanup' = cleanup \ {t}
  /\ suspended' = RemoveFirst(suspended, t)
  /\ Goes(t, [call[t] EXCEPT !.pc = "allocated"])
  /\ UNCHANGED <<available, noPreempt, packet, object, stackVars>>

-----------------------------------------------------------------------------
(* _nx_packet_data_append                                                  *)

AvailableBytes(c) ==
  RoomIn(packet, Behind(packet, c.target)) + RoomIn(packet, Follow(packet, c.list))

\* one more packet is needed
Extend(t) ==
  /\ At(t, "append")
  /\ AvailableBytes(call[t]) < call[t].size
  /\ Allocate(t, call[t])
  /\ UNCHANGED <<object, stackVars>>

\* there is room in the packet and the list, which is linked to the packet
Link(t) ==
  LET c == call[t]
  IN  /\ At(t, "append")
      /\ AvailableBytes(c) >= c.size
      /\ packet' = Linked(packet, c.target, c.list)
      /\ Goes(t, [c EXCEPT !.pc = "fill", !.list = NoPacket])
      /\ UNCHANGED <<poolVars, object, stackVars>>

\* the data is copied
Fill(t) ==
  LET c == call[t]
  IN  /\ At(t, "fill")
      /\ \E s \in {Follow(packet, AppendTo(packet, c.target))} :
           packet' = Filled(packet, c.target, s, c.size)
      /\ Goes(t, IF c.op = "append" THEN Idle
                 ELSE [c EXCEPT !.pc = "copy", !.source = packet[@].next])
      /\ UNCHANGED <<poolVars, object, stackVars>>

-----------------------------------------------------------------------------
(* _nx_packet_release, one packet of the chain after the other             *)

\* only a packet marked as allocated is released, else the call returns
Releasing(c, p) ==
  IF packet[p].mark = "ALLOCATED"
  THEN [c EXCEPT !.pc = "put", !.free = p, !.to = {}, !.wait = "none"]
  ELSE Idle

\* what is left to release when an append or a copy is given up: the new
\* packets, then the copy; the packet appended to stays as it was
Abandoned(c) ==
  CASE c.list # NoPacket -> Releasing([c EXCEPT !.list = NoPacket], c.list)
    [] c.list = NoPacket /\ c.op = "copy" /\ c.target # NoPacket ->
         Releasing([c EXCEPT !.target = NoPacket], c.target)
    [] OTHER -> Idle

\* on to the next packet of the chain, or back from the release
Onward(c) ==
  IF packet[c.free].next # NoPacket THEN Releasing(c, packet[c.free].next)
  ELSE IF c.op \in {"append", "copy"}
       THEN Abandoned([c EXCEPT !.free = NoPacket, !.to = {}])
       ELSE Idle

(* Mutant of Forgets: the object keeps its pointer. *)
ForgetsNothing(t) == object' = object

\* BasePacket::release forgets the packet when the last one is released
Forgets(t) ==
  object' = IF call[t].op = "release" /\ packet[call[t].free].next = NoPacket
            THEN [o \in Objects |-> IF o \in call[t].obj THEN NoPacket ELSE object[o]]
            ELSE object

(* Mutant of PutBack: nobody asks whether a thread waits. *)
PutBackBlindly(t) ==
  /\ At(t, "put")
  /\ available' = <<call[t].free>> \o available
  /\ packet' = [packet EXCEPT ![call[t].free] = [Fresh(0) EXCEPT !.mark = "FREE"]]
  /\ Forgets(t)
  /\ Goes(t, Onward(call[t]))
  /\ UNCHANGED <<queueVars, stackVars>>

\* the packet goes back to the pool; what it holds is not read any more
PutBack(t) ==
  /\ At(t, "put")
  /\ suspended = <<>>
  /\ available' = <<call[t].free>> \o available
  /\ packet' = [packet EXCEPT ![call[t].free] = [Fresh(0) EXCEPT !.mark = "FREE"]]
  /\ Forgets(t)
  /\ Goes(t, Onward(call[t]))
  /\ UNCHANGED <<queueVars, stackVars>>

\* the first waiting thread will get it; preemption stays disabled until then
Unqueue(t) ==
  /\ At(t, "put")
  /\ suspended # <<>>
  /\ suspended' = Tail(suspended)
  /\ cleanup' = cleanup \ {Head(suspended)}
  /\ noPreempt' = {t}
  /\ Goes(t, [call[t] EXCEPT !.pc = "give", !.to = {Head(suspended)}])
  /\ UNCHANGED <<available, packet, object, stackVars>>

Give(t) ==
  /\ At(t, "give")
  /\ noPreempt' = {}
  /\ \E w \in call[t].to :
       /\ packet' = [packet EXCEPT ![call[t].free] = Fresh(call[w].type)]
       /\ call' = [call EXCEPT ![w] = [@ EXCEPT !.pc = "allocated", !.got = call[t].free],
                               ![t] = Onward(@)]
  /\ Forgets(t)
  /\ UNCHANGED <<available, suspended, cleanup, stackVars>>

-----------------------------------------------------------------------------
(* The calls of an application thread                                      *)

\* BasePacket::allocate; the pointer of a packet that is held is lost
CallAllocate(t, o, type, wait) ==
  /\ At(t, "idle")
  /\ Careless \/ object[o] = NoPacket
  /\ object' = [object EXCEPT ![o] = NoPacket]
  /\ Allocate(t, [Idle EXCEPT !.op = "allocate", !.obj = {o}, !.type = type,
                              !.wait = wait])
  /\ UNCHANGED stackVars

\* BasePacket::data_append, Packet::dataAppend and Packet::write
CallAppend(t, o, size, wait) ==
  /\ At(t, "idle")
  /\ object[o] # NoPacket
  /\ Goes(t, [Idle EXCEPT !.pc = "append", !.op = "append", !.wait = wait,
                          !.size = size, !.target = object[o]])
  /\ UNCHANGED <<poolVars, packet, object, stackVars>>

\* BasePacket::copy of a packet with data, from one object to another
CallCopy(t, o, wait) ==
  /\ At(t, "idle")
  /\ object[o] # NoPacket
  /\ packet[object[o]].length # 0
  /\ \E other \in ObjectsOf[t] \ {o} :
       /\ object[other] = NoPacket
       /\ Allocate(t, [Idle EXCEPT !.op = "copy", !.obj = {other}, !.wait = wait,
                                   !.source = object[o], !.from = object[o]])
  /\ UNCHANGED <<object, stackVars>>

\* BasePacket::release, and transmit_release of a packet in no TCP queue
CallRelease(t, o) ==
  /\ At(t, "idle")
  /\ object[o] # NoPacket
  /\ Goes(t, Releasing([Idle EXCEPT !.op = "release", !.obj = {o}], object[o]))
  /\ UNCHANGED <<poolVars, packet, object, stackVars>>

\* a send of NetX takes the packet, and the application forgets it
Send(t, o) ==
  /\ At(t, "idle")
  /\ object[o] # NoPacket
  /\ sent' = sent \cup {object[o]}
  /\ object' = [object EXCEPT ![o] = NoPacket]
  /\ UNCHANGED <<poolVars, packet, received, call>>

\* Packet::operator=(NX_PACKET *), with an object that holds no packet
Adopt(t, o, p) ==
  /\ At(t, "idle")
  /\ object[o] = NoPacket
  /\ received' = received \ {p}
  /\ object' = [object EXCEPT ![o] = p]
  /\ UNCHANGED <<poolVars, packet, sent, call>>

-----------------------------------------------------------------------------
(* What a call does with the answer of _nx_packet_allocate                 *)

\* BasePacket::allocate: the answer is the pointer of the object
EndAllocate(t) ==
  /\ At(t, "allocated")
  /\ call[t].op = "allocate"
  /\ object' = [o \in Objects |-> IF o \in call[t].obj THEN call[t].got ELSE object[o]]
  /\ Goes(t, Idle)
  /\ UNCHANGED <<poolVars, packet, stackVars>>

\* _nx_packet_data_append has one more packet
Collect(t) ==
  /\ At(t, "allocated")
  /\ call[t].target # NoPacket
  /\ call[t].got # NoPacket
  /\ packet' = Collected(packet, call[t].list, call[t].got)
  /\ Goes(t, [call[t] EXCEPT !.pc = "append", !.got = NoPacket,
                !.list = IF @ = NoPacket THEN call[t].got ELSE @])
  /\ UNCHANGED <<poolVars, object, stackVars>>

\* the allocation failed
GiveUp(t) ==
  /\ At(t, "allocated")
  /\ call[t].op # "allocate"
  /\ call[t].got = NoPacket
  /\ Goes(t, Abandoned(call[t]))
  /\ UNCHANGED <<poolVars, packet, object, stackVars>>

(* Mutant of StartCopy: the first packet is copied like the others. *)
StartCopyBehindOffset(t) ==
  /\ At(t, "allocated")
  /\ call[t].op = "copy"
  /\ call[t].target = NoPacket
  /\ call[t].got # NoPacket
  /\ Goes(t, [call[t] EXCEPT !.pc = "append", !.target = call[t].got, !.got = NoPacket,
       !.size = packet[call[t].source].used - packet[call[t].source].prepend])
  /\ UNCHANGED <<poolVars, packet, object, stackVars>>

\* _nx_packet_copy has the first packet of the copy; the first packet of the
\* source is copied from its start, the offset for headers included
StartCopy(t) ==
  /\ At(t, "allocated")
  /\ call[t].op = "copy"
  /\ call[t].target = NoPacket
  /\ call[t].got # NoPacket
  /\ Goes(t, [call[t] EXCEPT !.pc = "append", !.target = call[t].got, !.got = NoPacket,
                             !.size = packet[call[t].source].used])
  /\ UNCHANGED <<poolVars, packet, object, stackVars>>

CopyNext(t) ==
  LET s == packet[call[t].source]
  IN  /\ At(t, "copy")
      /\ call[t].source # NoPacket
      /\ Goes(t, [call[t] EXCEPT !.pc = "append", !.size = s.used - s.prepend])
      /\ UNCHANGED <<poolVars, packet, object, stackVars>>

\* all packets are appended: the copy gets the offset of the source, and is
\* released again when its length is not the same
EndCopy(t) ==
  LET c      == call[t]
      offset == packet[c.from].prepend
      copied == [packet[c.target] EXCEPT !.prepend = offset, !.length = @ - offset]
      equal  == copied.length = packet[c.from].length
  IN  /\ At(t, "copy")
      /\ c.source = NoPacket
      /\ packet' = [packet EXCEPT ![c.target] = copied]
      /\ object' = IF equal THEN [o \in Objects |-> IF o \in c.obj THEN c.target ELSE object[o]] ELSE object
      /\ Goes(t, IF equal THEN Idle ELSE Abandoned(c))
      /\ UNCHANGED <<poolVars, stackVars>>

-----------------------------------------------------------------------------
(* The IP thread                                                           *)

\* HAL_ETH_RxAllocateCallback, which does not wait, and HAL_ETH_RxLinkCallback
\* once the buffer has a frame of size units
Receive(size) ==
  /\ At(IpThread, "idle")
  /\ available # <<>>
  /\ available' = Tail(available)
  /\ packet' = [packet EXCEPT ![Head(available)] =
                  [Fresh(0) EXCEPT !.length = size, !.used = size]]
  /\ received' = received \cup {Head(available)}
  /\ UNCHANGED <<queueVars, object, sent, call>>

\* NetX or HAL_ETH_TxFreeCallback releases a packet that was sent or received
StackRelease(p) ==
  /\ At(IpThread, "idle")
  /\ p \in received \cup sent
  /\ received' = received \ {p}
  /\ sent' = sent \ {p}
  /\ Goes(IpThread, Releasing([Idle EXCEPT !.op = "stack"], p))
  /\ UNCHANGED <<poolVars, packet, object>>

-----------------------------------------------------------------------------
\* the library and NetX; a thread in a call goes on
Step(t) ==
  \/ EndAllocate(t) \/ Extend(t) \/ Link(t) \/ Fill(t) \/ Collect(t) \/ GiveUp(t)
  \/ StartCopy(t) \/ CopyNext(t) \/ EndCopy(t)
  \/ PutBack(t) \/ Unqueue(t) \/ Give(t)

IpStep == PutBack(IpThread) \/ Unqueue(IpThread) \/ Give(IpThread)

\* what the application calls
Call(t) ==
  \E o \in ObjectsOf[t] :
    \/ \E type \in Offsets, wait \in WaitsOf[t] : CallAllocate(t, o, type, wait)
    \/ \E size \in Sizes, wait \in WaitsOf[t] : CallAppend(t, o, size, wait)
    \/ \E wait \in WaitsOf[t] : CallCopy(t, o, wait)
    \/ CallRelease(t, o)
    \/ Send(t, o)
    \/ \E p \in received : Adopt(t, o, p)

Next ==
  \/ \E t \in Threads : Call(t) \/ Step(t) \/ Timeout(t)
  \/ IpStep
  \/ \E size \in FrameSizes : Receive(size)
  \/ \E p \in Packets : StackRelease(p)

SafeSpec == Init /\ [][Next]_vars

(***************************************************************************)
(* A thread in a call runs on, a wait of limited time ends, NetX and the   *)
(* driver release what they hold, and the application releases its packets *)
(* again and again.                                                        *)
(***************************************************************************)
Fairness ==
  /\ \A t \in Threads : WF_vars(Step(t))
  /\ WF_vars(IpStep)
  /\ \A t \in Threads : WF_vars(Timeout(t))
  /\ SF_vars(\E p \in Packets : StackRelease(p))
  /\ \A t \in Threads : SF_vars(\E o \in ObjectsOf[t] : CallRelease(t, o))

Spec == SafeSpec /\ Fairness

-----------------------------------------------------------------------------
(* Properties                                                              *)

Mark == {"FREE", "ALLOCATED"}

CallRecord ==
  [pc : {"idle", "suspended", "allocated", "append", "fill", "copy", "put",
         "give"},
   op : {"none", "allocate", "append", "copy", "release", "stack"},
   obj : SUBSET Objects, wait : {"none", "ticks", "forever"}, type : Offsets \cup {0}, size : Nat,
   target : Pointer, source : Pointer, from : Pointer, list : Pointer, got : Pointer,
   free : Pointer, to : SUBSET Threads]

\* Types; no packet holds more than its payload.
TypeOK ==
  /\ available \in Seq(Packets)
  /\ suspended \in Seq(Threads)
  /\ cleanup \subseteq Threads
  /\ noPreempt \subseteq Callers
  /\ packet \in [Packets -> [mark : Mark, next : Pointer, last : Pointer, length : Nat,
                              prepend : 0..Room, used : 0..Room]]
  /\ object \in [Objects -> Pointer]
  /\ received \subseteq Packets
  /\ sent \subseteq Packets
  /\ call \in [Callers -> CallRecord]

\* Where first packets of chains may be.
Places ==
  {<<"object", o>> : o \in Objects}
  \cup {<<f, t>> : f \in {"target", "list", "got", "free"}, t \in Callers}
  \cup {<<"received", p>> : p \in received} \cup {<<"sent", p>> : p \in sent}

\* The packet there, when it belongs there: the packet appended to stays with
\* its object, one that is being released has left it.
FirstAt(place) ==
  CASE place[1] = "object" ->
         IF \E t \in Threads : call[t].op = "release" /\ place[2] \in call[t].obj
         THEN NoPacket ELSE object[place[2]]
    [] place[1] = "target" ->
         IF call[place[2]].op = "copy" THEN call[place[2]].target ELSE NoPacket
    [] place[1] \in {"received", "sent"} -> place[2]
    [] OTHER -> call[place[2]][place[1]]

\* Every packet is in the pool once, marked as free, or once in one chain that
\* one holder has, marked as allocated: none is lost, none has two owners.
PoolConserved ==
  LET places == {q \in Places : FirstAt(q) # NoPacket}
      chain  == [q \in places |-> Follow(packet, FirstAt(q))]
  IN  /\ IsInjective(available)
      /\ ToSet(available) = {p \in Packets : packet[p].mark = "FREE"}
      /\ \A q \in places : IsInjective(chain[q])
      /\ \A q, r \in places : q # r => ToSet(chain[q]) \cap ToSet(chain[r]) = {}
      /\ UNION {ToSet(chain[q]) : q \in places} = {p \in Packets : packet[p].mark = "ALLOCATED"}

\* A complete chain: the head's length is that of all data, only the last
\* packet has room left, it has data, and nx_packet_last names it.
Whole(p) ==
  LET s    == Follow(packet, p)
      data == SumAlong([q \in Packets |-> packet[q].used], s)
  IN  /\ packet[p].length + packet[p].prepend = data
      /\ \A i \in 1..(Len(s) - 1) : packet[s[i]].used = Room
      /\ \A i \in 2..Len(s) : packet[s[i]].used > 0
      /\ Len(s) > 1 => packet[p].last = Last(s)

\* What an object or the network holds is whole, also while an append or a copy
\* waits for packets and after it was given up: appends are all or nothing.
AppendsAreWhole ==
  /\ \A p \in received \cup sent : Whole(p)
  /\ \A o \in Objects :
       \/ FirstAt(<<"object", o>>) = NoPacket
       \/ \E t \in Threads : call[t].pc = "fill" /\ call[t].target = object[o]
       \/ Whole(object[o])

\* The last test of _nx_packet_copy never fails: a copy of all packets has the
\* length of the source, whatever offset for headers the source has.
CopiesAreEqual ==
  \A t \in Threads :
    call[t].pc = "copy" /\ call[t].source = NoPacket =>
      LET from == packet[call[t].from]
      IN  packet[call[t].target].length = from.length + from.prepend

\* Chains are well formed for every reader of NetX, whoever built them.
ChainsAreWhole == AppendsAreWhole /\ CopiesAreEqual

\* Nobody waits while there is a free packet, and a suspended thread can be
\* reached by the next release and by its timeout, or a release has it in hand.
NobodyWaitsInVain ==
  /\ suspended # <<>> => available = <<>>
  /\ \A t \in Threads : call[t].pc = "suspended" =>
       \/ t \in cleanup /\ t \in ToSet(suspended)
       \/ \E u \in Callers : call[u].pc = "give" /\ t \in call[u].to

\* All packets are with threads that wait for ever for one more.
Exhausted ==
  /\ available = <<>> /\ received \cup sent = {} /\ call[IpThread].pc = "idle"
  /\ \A t \in Threads :
       \/ call[t].pc = "suspended" /\ call[t].wait = "forever"
       \/ call[t].pc = "idle" /\ \A o \in ObjectsOf[t] : object[o] = NoPacket

\* A wait ends, unless all packets are with threads that wait for ever.
WaitsEnd ==
  \A t \in Threads :
    call[t].pc = "suspended" ~> (call[t].pc # "suspended" \/ Exhausted)
=============================================================================
