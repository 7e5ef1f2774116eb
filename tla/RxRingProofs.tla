---------------------------- MODULE RxRingProofs ----------------------------
(***************************************************************************)
(* Reception, for every number of descriptors and every pool.  As long as  *)
(* only a ring at rest is stopped, no packet buffer is lost, none is used  *)
(* twice, and the DMA can fill no descriptor that waits to be built.       *)
(* Stopped at any moment, that does not hold: the reader may then chain    *)
(* the packet a descriptor's DESC2 still names, although it delivered it   *)
(* before.  What holds whenever the driver is stopped, and however few     *)
(* packets it is started with, is that the DMA writes into the buffers of  *)
(* the ring only.                                                          *)
(***************************************************************************)
EXTENDS RxRing, FiniteSetTheorems, TLAPS

(* What the thread does when; it reads and builds at the same place while  *)
(* the driver is stopped.                                                  *)
Phases ==
  /\ rd \in {"scan", "build"} => started
  /\ rd = "start" => ~started
  /\ rd # "scan" => cnt = 0
  /\ rd = "idle" /\ ~started =>
       idx = buildIdx /\ buildCnt = 0

(* The descriptors without a buffer are among those that wait to be built, *)
(* which end where the thread reads.                                       *)
Geometry ==
  /\ buildCnt + cnt <= N
  /\ Distance(buildIdx, idx) \in {buildCnt + cnt, buildCnt + cnt - N}
  /\ started \/ rd = "start" =>
       \A d \in Descriptors :
         Distance(buildIdx, d) >= buildCnt + cnt =>
           buf[d] # NoPacket

(* A descriptor with a buffer tells the DMA of it. *)
AddressesAgree ==
  \A d \in Descriptors : buf[d] # NoPacket => desc2[d] = buf[d]

(* Whenever the driver is stopped: what was read had a buffer, and the     *)
(* address the DMA has is that of the ring's buffer, if there is one.      *)
Served ==
  /\ \A d \in Descriptors \ own : desc2[d] # NoPacket
  /\ \A d \in own : desc2[d] = buf[d]

Counts == buildCnt + cnt <= N /\ (rd # "scan" => cnt = 0)

DmaInv == TypeOK /\ Counts /\ AddressesAgree /\ Served

IInv ==
  /\ TypeOK
  /\ Phases
  /\ Geometry
  /\ AddressesAgree
  /\ Conserved
-----------------------------------------------------------------------------
(* Distances, when the first descriptor moves on and when it does not. *)
LEMMA SuccIsDescriptor ==
  ASSUME NEW d \in Descriptors
  PROVE  Succ(d) \in Descriptors
  BY RingAssumption DEF Descriptors, Succ

LEMMA DistanceOfSucc ==
  ASSUME NEW a \in Descriptors, NEW b \in Descriptors
  PROVE  /\ Distance(a, b) \in 0..N-1
         /\ Distance(a, Succ(b)) \in {Distance(a, b) + 1, Distance(a, b) + 1 - N}
         /\ Distance(a, b) = 0 <=> a = b
         /\ a # b => Distance(Succ(a), b) = Distance(a, b) - 1
         /\ a = b => Distance(Succ(a), b) = N - 1
  BY RingAssumption DEF Descriptors, Succ, Distance

\* The buffers of a ring, and that none is there twice.
Buffers(f) == {f[d] : d \in Descriptors} \ {NoPacket}

NoneTwice(f) ==
  \A d, e \in Descriptors : d # e /\ f[d] = f[e] => f[d] = NoPacket

(* Taking the buffer of a descriptor takes it from the ring. *)
LEMMA TakenFromRing ==
  ASSUME NEW f \in [Descriptors -> Packets \union {NoPacket}], NoneTwice(f),
         NEW d \in Descriptors
  PROVE  /\ Buffers([f EXCEPT ![d] = NoPacket]) = Buffers(f) \ {f[d]}
         /\ NoneTwice([f EXCEPT ![d] = NoPacket])
  BY DEF Buffers, NoneTwice

(* Giving a new buffer to a descriptor without one adds it to the ring. *)
LEMMA AddedToRing ==
  ASSUME NEW f \in [Descriptors -> Packets \union {NoPacket}], NoneTwice(f),
         NEW d \in Descriptors, f[d] = NoPacket,
         NEW p \in Packets, p \notin Buffers(f)
  PROVE  /\ Buffers([f EXCEPT ![d] = p]) = Buffers(f) \union {p}
         /\ NoneTwice([f EXCEPT ![d] = p])
  BY RingAssumption DEF Buffers, NoneTwice

LEMMA RingIsBuffers == InRing = Buffers(buf)
  BY DEF InRing, Buffers
-----------------------------------------------------------------------------
LEMMA InitIInv == Init => IInv
  <1> SUFFICES ASSUME Init PROVE IInv
    OBVIOUS
  <1>1. TypeOK
    <2>1. 0 \in Descriptors /\ 0 \in 0..N /\ 0 \in 0..MaxFrames
          /\ 1 \in 1..MaxFrames + 1
      BY RingAssumption DEF Descriptors
    <2>2. buf \in [Descriptors -> Packets \union {NoPacket}] /\ desc2 = buf
      BY DEF Init
    <2>3. content \in [Packets -> 0..MaxFrames]
      BY <2>1 DEF Init
    <2>4. QED  BY <2>1, <2>2, <2>3 DEF Init, TypeOK
  <1>2. Phases /\ AddressesAgree
    BY DEF Init, Phases, AddressesAgree
  <1>3. Geometry
    BY RingAssumption DEF Init, Geometry, Distance
  <1>4. InRing = {}
    BY DEF Init, InRing
  <1>5. Conserved
    BY <1>4 DEF Init, Conserved
  <1>6. QED  BY <1>1, <1>2, <1>3, <1>5 DEF IInv
-----------------------------------------------------------------------------
(* What a descriptor that is scanned holds. *)
LEMMA ScannedHasBuffer ==
  ASSUME IInv, Scan
  PROVE  buf[idx] \in Packets /\ desc2[idx] = buf[idx]
  <1>1. idx \in Descriptors /\ buildIdx \in Descriptors
    BY DEF IInv, TypeOK
  <1>2. buildCnt + cnt < N /\ started
    BY RingAssumption DEF IInv, TypeOK, Phases, Scan, ScanGoesOn
  <1>3. Distance(buildIdx, idx) \in 0..N-1
    BY <1>1, DistanceOfSucc
  <1>4. Distance(buildIdx, idx) = buildCnt + cnt
    BY <1>2, <1>3, RingAssumption DEF IInv, Geometry, TypeOK
  <1>5. buf[idx] # NoPacket
    BY <1>1, <1>2, <1>4, RingAssumption DEF IInv, Geometry, TypeOK
  <1>6. QED  BY <1>1, <1>5 DEF IInv, TypeOK, AddressesAgree

(* A packet of the pool is not in the ring. *)
LEMMA FreeIsOutside ==
  ASSUME IInv, NEW p \in pool
  PROVE  p \in Packets /\ p \notin Buffers(buf)
  BY RingIsBuffers DEF IInv, TypeOK, Conserved

\* The places of packets other than the ring, and the ring by itself.
Places(free, ring, chained, used) ==
  /\ free \union ring \union chained \union used = Packets
  /\ free \intersect ring = {} /\ free \intersect chained = {}
  /\ free \intersect used = {} /\ ring \intersect chained = {}
  /\ ring \intersect used = {} /\ chained \intersect used = {}

LEMMA ConservedIsPlaces ==
  Conserved <=> Places(pool, Buffers(buf), chain, stack) /\ NoneTwice(buf)
  BY DEF Conserved, Places, NoneTwice, InRing, Buffers

LEMMA ConservedIsPlacesNext ==
  Conserved' <=>
    Places(pool', Buffers(buf'), chain', stack') /\ NoneTwice(buf')
  BY DEF Conserved, Places, NoneTwice, InRing, Buffers

(* Every step keeps every packet in one place. *)
LEMMA ConservedStep ==
  ASSUME IInv, Next
  PROVE  Conserved'
  <1>1. Places(pool, Buffers(buf), chain, stack) /\ NoneTwice(buf)
    BY ConservedIsPlaces DEF IInv
  <1>2. CASE Scan
    <2>1. buf[idx] \in Packets /\ desc2[idx] = buf[idx] /\ idx \in Descriptors
      BY <1>2, ScannedHasBuffer DEF IInv, TypeOK
    <2>2. CASE idx \in first \/ chain # {}
      <3>1. /\ chain' = chain \union {buf[idx]}
            /\ buf' = [buf EXCEPT ![idx] = NoPacket]
            /\ pool' = pool /\ stack' = stack
        BY <1>2, <2>1, <2>2 DEF Scan
      <3>2. Buffers(buf') = Buffers(buf) \ {buf[idx]} /\ NoneTwice(buf')
        BY <1>1, <2>1, <3>1, TakenFromRing DEF IInv, TypeOK
      <3>3. buf[idx] \in Buffers(buf)
        BY <2>1, RingAssumption DEF Buffers
      <3>4. Places(pool', Buffers(buf'), chain', stack')
        BY <1>1, <3>1, <3>2, <3>3 DEF Places
      <3>5. QED  BY <3>2, <3>4, ConservedIsPlacesNext
    <2>3. CASE ~(idx \in first \/ chain # {})
      BY <1>1, <1>2, <2>3, ConservedIsPlacesNext DEF Scan
    <2>4. QED  BY <2>2, <2>3
  <1>3. CASE Build
    <2>1. buildIdx \in Descriptors
      BY DEF IInv, TypeOK
    <2>2. CASE buf[buildIdx] # NoPacket
      BY <1>1, <1>3, <2>2, ConservedIsPlacesNext DEF Build, bufVars
    <2>3. CASE buf[buildIdx] = NoPacket
      <3>1. PICK p \in pool : /\ buf' = [buf EXCEPT ![buildIdx] = p]
                              /\ pool' = pool \ {p}
        BY <1>3, <2>3 DEF Build
      <3>2. chain' = chain /\ stack' = stack
        BY <1>3 DEF Build
      <3>3. p \in Packets /\ p \notin Buffers(buf)
        BY FreeIsOutside
      <3>4. Buffers(buf') = Buffers(buf) \union {p} /\ NoneTwice(buf')
        BY <1>1, <2>1, <2>3, <3>1, <3>3, AddedToRing DEF IInv, TypeOK
      <3>5. Places(pool', Buffers(buf'), chain', stack')
        BY <1>1, <3>1, <3>2, <3>4 DEF Places
      <3>6. QED  BY <3>4, <3>5, ConservedIsPlacesNext
    <2>4. QED  BY <2>2, <2>3
  <1>4. CASE Deliver
    <2>1. /\ buf' = buf /\ chain' = {}
          /\ \/ stack' = stack \union chain /\ pool' = pool
             \/ pool' = pool \union chain /\ stack' = stack
      BY <1>4 DEF Deliver, bufVars
    <2>2. Places(pool', Buffers(buf'), chain', stack') /\ NoneTwice(buf')
      BY <1>1, <2>1 DEF Places
    <2>3. QED  BY <2>2, ConservedIsPlacesNext
  <1>5. CASE Release \/ Allocate
    <2>1. /\ buf' = buf /\ chain' = chain
          /\ \/ \E p \in stack : stack' = stack \ {p} /\ pool' = pool \union {p}
             \/ \E p \in pool : pool' = pool \ {p} /\ stack' = stack \union {p}
      BY <1>5 DEF Release, Allocate, bufVars
    <2>2. Places(pool', Buffers(buf'), chain', stack') /\ NoneTwice(buf')
      BY <1>1, <2>1 DEF Places
    <2>3. QED  BY <2>2, ConservedIsPlacesNext
  <1>6. CASE UNCHANGED <<buf, chain, pool, stack>>
    BY <1>1, <1>6, ConservedIsPlacesNext
  <1>7. Next => \/ Scan \/ Build \/ Deliver \/ Release \/ Allocate
                \/ UNCHANGED <<buf, chain, pool, stack>>
    BY DEF Next, Read, DmaFills, DmaHalts, DmaRuns, DmaLoses, ReadBegin, ScanEnd, ReadEnd, StartEnd,
           StartBegin, Stop, bufVars
  <1>8. QED  BY <1>2, <1>3, <1>4, <1>5, <1>6, <1>7

(* Every step keeps the types. *)
LEMMA TypeStep ==
  ASSUME DmaInv, Next
  PROVE  TypeOK'
  <1> USE RingAssumption DEF DmaInv, TypeOK
  <1>1. CASE \E isLast \in BOOLEAN : DmaFills(isLast)
    <2>1. PICK isLast \in BOOLEAN : DmaFills(isLast)
      BY <1>1
    <2>2. dma' \in Descriptors
      BY <2>1, SuccIsDescriptor DEF DmaFills
    <2>3. arriving' \in 0..MaxFrames /\ nextFrame' \in 1..MaxFrames + 1
      BY <2>1 DEF DmaFills
    <2>4. content' \in [Packets -> 0..MaxFrames]
      <3> DEFINE frame == IF arriving = 0 THEN nextFrame ELSE arriving
      <3>1. frame \in 0..MaxFrames
        BY <2>1 DEF DmaFills
      <3>2. content' = [content EXCEPT ![desc2[dma]] = frame]
        BY <2>1 DEF DmaFills
      <3> HIDE DEF frame
      <3>3. QED  BY <3>1, <3>2
    <2>5. own' \in SUBSET Descriptors /\ first' \in SUBSET Descriptors
          /\ last' \in SUBSET Descriptors
      BY <2>1 DEF DmaFills
    <2>6. event' \in BOOLEAN
      BY <2>1 DEF DmaFills
    <2>7. QED  BY <2>1, <2>2, <2>3, <2>4, <2>5, <2>6
               DEF DmaFills, bufVars, driverVars, readVars, buildVars
  <1>2. CASE DmaLoses
    BY <1>2 DEF DmaLoses, bufVars, driverVars, readVars, buildVars
  <1>12. CASE DmaHalts
    BY <1>12 DEF DmaHalts, bufVars, dmaVars, readVars, buildVars
  <1>3. CASE ReadBegin
    BY <1>3 DEF ReadBegin, DmaRuns, bufVars, dmaVars, driverVars, driverVars, readVars, buildVars
  <1>4. CASE Scan
    <2>1. idx' \in Descriptors /\ cnt' \in 0..N
      BY <1>4, SuccIsDescriptor DEF Scan, ScanGoesOn
    <2>2. desc2[idx] \in Packets
      BY <1>4 DEF Scan, ScanGoesOn, Served
    <2>3. chain' \in SUBSET Packets
      BY <1>4, <2>2 DEF Scan
    <2>4. buf' \in [Descriptors -> Packets \union {NoPacket}]
      BY <1>4 DEF Scan
    <2>5. ready' \in BOOLEAN
      <3>1. ready' = (idx \in last) \/ ready' = ready
        BY <1>4 DEF Scan
      <3>2. (idx \in last) \in BOOLEAN
        OBVIOUS
      <3>3. QED  BY <3>1, <3>2
    <2>6. QED  BY <1>4, <2>1, <2>3, <2>4, <2>5 DEF Scan, dmaVars, driverVars, buildVars
  <1>5. CASE ScanEnd
    <2>1. buildCnt' \in 0..N /\ cnt' \in 0..N
      BY <1>5 DEF ScanEnd, Counts
    <2>2. QED  BY <1>5, <2>1 DEF ScanEnd, bufVars, dmaVars, driverVars
  <1>6. CASE Build
    <2>1. buildIdx' \in Descriptors /\ buildCnt' \in 0..N
      BY <1>6, SuccIsDescriptor DEF Build, BuildGoesOn
    <2>2. /\ buf' \in [Descriptors -> Packets \union {NoPacket}]
          /\ desc2' \in [Descriptors -> Packets \union {NoPacket}]
          /\ pool' \in SUBSET Packets /\ own' \in SUBSET Descriptors
      BY <1>6 DEF Build, bufVars
    <2>3. QED  BY <1>6, <2>1, <2>2 DEF Build, dmaVars, driverVars, readVars
  <1>7. CASE Deliver
    <2>1. content' \in [Packets -> 0..MaxFrames]
      BY <1>7 DEF Deliver
    <2>2. delivered' \in SUBSET (0..MaxFrames)
      BY <1>7 DEF Deliver
    <2>3. QED  BY <1>7, <2>1, <2>2 DEF Deliver, bufVars, driverVars, buildVars
  <1>8. CASE ReadEnd \/ StartEnd \/ Stop
    BY <1>8 DEF ReadEnd, StartEnd, Stop, AtRest, bufVars, dmaVars, driverVars, readVars, buildVars
  <1>9. CASE StartBegin
    BY <1>9 DEF StartBegin, bufVars, dmaVars, driverVars, readVars
  <1>10. CASE Release \/ Allocate
    BY <1>10 DEF Release, Allocate, bufVars, dmaVars, driverVars, readVars, buildVars
  <1>11. QED
    BY <1>1, <1>2, <1>3, <1>4, <1>5, <1>6, <1>7, <1>8, <1>9, <1>10, <1>12
       DEF Next, Read

(* A ring that is stopped at rest is built up to the place that is read. *)
LEMMA StopAtRest ==
  ASSUME IInv, Stop, ~dirty'
  PROVE  idx = buildIdx /\ buildCnt = 0
  <1>1. buildCnt = 0 /\ cnt = 0
    BY DEF IInv, Stop, AtRest, Phases, TypeOK
  <1>2. idx \in Descriptors /\ buildIdx \in Descriptors
    BY DEF IInv, TypeOK
  <1>3. Distance(buildIdx, idx) = 0
    BY <1>1, <1>2, DistanceOfSucc, RingAssumption DEF IInv, Geometry
  <1>4. QED  BY <1>1, <1>2, <1>3, DistanceOfSucc

(* Every step keeps the order of the phases. *)
LEMMA PhasesStep ==
  ASSUME IInv, Next, ~dirty'
  PROVE  Phases'
  <1>1. CASE Stop
    BY <1>1, StopAtRest DEF IInv, Phases, Stop, readVars, buildVars
  <1>2. CASE ~Stop
    BY <1>2 DEF IInv, TypeOK, Phases, Next, Read, DmaFills, DmaHalts, DmaRuns, DmaLoses, ReadBegin,
       Scan, ScanEnd, Build, Deliver, ReadEnd, StartBegin, StartEnd, Release,
       Allocate, bufVars, dmaVars, driverVars, readVars, buildVars
  <1>3. QED  BY <1>1, <1>2

(* Every step keeps DESC2 and BackupAddr0 in agreement. *)
LEMMA AddressesStep ==
  ASSUME TypeOK, AddressesAgree, Next
  PROVE  AddressesAgree'
  <1>1. CASE Scan
    BY <1>1, RingAssumption DEF TypeOK, AddressesAgree, Scan
  <1>2. CASE Build
    BY <1>2 DEF TypeOK, AddressesAgree, Build, bufVars
  <1>3. CASE UNCHANGED bufVars
    BY <1>3 DEF AddressesAgree, bufVars
  <1>4. Next => Scan \/ Build \/ UNCHANGED bufVars
    BY DEF Next, Read, DmaFills, DmaHalts, DmaRuns, DmaLoses, ReadBegin, ScanEnd, Deliver, ReadEnd,
           StartBegin, StartEnd, Stop, Release, Allocate
  <1>5. QED  BY <1>1, <1>2, <1>3, <1>4

(* Every step keeps the descriptors without a buffer between the place     *)
(* that is built and the place that is read.                               *)
LEMMA GeometryStep ==
  ASSUME IInv, Next, ~dirty'
  PROVE  Geometry'
  <1> USE RingAssumption
  <1>1. buildIdx \in Descriptors /\ idx \in Descriptors
        /\ cnt \in Nat /\ buildCnt \in Nat
    BY DEF IInv, TypeOK
  <1>2. Geometry /\ Phases
    BY DEF IInv
  <1>3. CASE Scan
    <2>1. /\ cnt' = cnt + 1 /\ idx' = Succ(idx) /\ rd = "scan"
          /\ buildIdx' = buildIdx /\ buildCnt' = buildCnt
          /\ cnt < N - buildCnt
      BY <1>3 DEF Scan, ScanGoesOn, buildVars
    <2>2. Distance(buildIdx, idx) = buildCnt + cnt
      BY <1>1, <1>2, <2>1, DistanceOfSucc DEF Geometry
    <2>3. buildCnt' + cnt' <= N
      BY <1>1, <2>1
    <2>4. Distance(buildIdx', idx') \in {buildCnt' + cnt', buildCnt' + cnt' - N}
      BY <1>1, <2>1, <2>2, DistanceOfSucc
    <2>5. ASSUME NEW d \in Descriptors,
                 Distance(buildIdx', d) >= buildCnt' + cnt'
          PROVE  buf'[d] # NoPacket
      <3>1. d # idx /\ Distance(buildIdx, d) >= buildCnt + cnt
        BY <1>1, <2>1, <2>2, <2>5, DistanceOfSucc
      <3>2. buf'[d] = buf[d]
        BY <1>3, <3>1 DEF Scan, IInv, TypeOK
      <3>3. QED  BY <1>2, <2>1, <3>1, <3>2 DEF Geometry, Phases
    <2>6. QED  BY <2>3, <2>4, <2>5 DEF Geometry, Distance
  <1>4. CASE ScanEnd
    <2>1. /\ buildCnt' = buildCnt + cnt /\ cnt' = 0 /\ rd = "scan"
          /\ UNCHANGED <<buildIdx, idx, buf>>
      BY <1>4 DEF ScanEnd, bufVars
    <2>2. QED  BY <1>1, <1>2, <2>1 DEF Geometry, Phases, Distance
  <1>5. CASE Build
    <2>1. /\ buildIdx' = Succ(buildIdx) /\ buildCnt' = buildCnt - 1
          /\ buildCnt > 0 /\ cnt' = cnt /\ idx' = idx /\ cnt = 0
          /\ rd \in {"build", "start"}
      BY <1>2, <1>5 DEF Build, BuildGoesOn, readVars, Phases
    <2>2. buf'[buildIdx] # NoPacket
          /\ \A d \in Descriptors : d # buildIdx => buf'[d] = buf[d]
      BY <1>1, <1>5 DEF Build, bufVars, IInv, TypeOK
    <2>3. buildCnt' + cnt' <= N
      BY <1>1, <1>2, <2>1 DEF Geometry
    <2>4. Distance(buildIdx', idx') \in {buildCnt' + cnt', buildCnt' + cnt' - N}
      BY <1>1, <1>2, <2>1, DistanceOfSucc DEF Geometry
    <2>5. ASSUME NEW d \in Descriptors,
                 Distance(buildIdx', d) >= buildCnt' + cnt'
          PROVE  buf'[d] # NoPacket
      <3>1. CASE d = buildIdx
        BY <2>2, <3>1
      <3>2. CASE d # buildIdx
        <4>1. Distance(buildIdx, d) >= buildCnt + cnt
          BY <1>1, <2>1, <2>5, <3>2, DistanceOfSucc
        <4>2. QED  BY <1>2, <2>1, <2>2, <3>2, <4>1 DEF Geometry, Phases
      <3>3. QED  BY <3>1, <3>2
    <2>6. QED  BY <2>3, <2>4, <2>5 DEF Geometry, Distance
  <1>6. CASE StartBegin
    <2>1. /\ buildCnt' = N /\ idx = buildIdx /\ cnt = 0
          /\ UNCHANGED <<cnt, idx, buildIdx, buf>>
      BY <1>2, <1>6 DEF StartBegin, Phases, readVars, bufVars
    <2>2. \A d \in Descriptors : Distance(buildIdx, d) < N
      BY <1>1, DistanceOfSucc
    <2>3. QED  BY <1>1, <2>1, <2>2 DEF Geometry, Distance, Descriptors
  <1>7. CASE StartEnd
    BY <1>2, <1>7 DEF StartEnd, readVars, buildVars, bufVars, Geometry, Distance
  <1>8. CASE UNCHANGED <<readVars, buildVars, buf, started, rd>>
    BY <1>2, <1>8 DEF readVars, buildVars, Geometry, Distance
  <1>9. CASE ReadBegin \/ Deliver \/ ReadEnd
    <2>1. /\ UNCHANGED <<buf, idx, cnt, buildIdx, buildCnt, started>>
          /\ rd # "start" /\ rd' # "start"
      BY <1>9 DEF ReadBegin, Deliver, ReadEnd, readVars, buildVars, bufVars, driverVars
    <2>2. QED  BY <1>2, <2>1 DEF Geometry, Distance
  <1>10. Next => \/ Scan \/ ScanEnd \/ Build \/ StartBegin \/ StartEnd
                 \/ UNCHANGED <<readVars, buildVars, buf, started, rd>>
                 \/ ReadBegin \/ Deliver \/ ReadEnd \/ Stop
    BY DEF Next, Read, DmaFills, DmaHalts, DmaLoses, Release, Allocate, bufVars,
           driverVars
  <1>11. CASE Stop
    <2>1. UNCHANGED <<readVars, buildVars, buf>> /\ ~started' /\ rd' # "start"
      BY <1>11 DEF Stop, bufVars
    <2>2. QED  BY <1>2, <2>1 DEF readVars, buildVars, Geometry, Distance
  <1>12. QED  BY <1>3, <1>4, <1>5, <1>6, <1>7, <1>8, <1>9, <1>10, <1>11
-----------------------------------------------------------------------------
(* A step that changes nothing keeps the invariants. *)
LEMMA StutteringStep ==
  ASSUME UNCHANGED vars
  PROVE  (IInv => IInv') /\ (DmaInv => DmaInv')
  <1> USE DEF vars, dmaVars, bufVars, driverVars, readVars, buildVars
  <1>1. TypeOK => TypeOK'
    BY DEF TypeOK
  <1>2. (Phases => Phases') /\ (AddressesAgree => AddressesAgree')
    BY DEF Phases, AddressesAgree
  <1>3. Geometry => Geometry'
    BY DEF Geometry, Distance
  <1>4. Conserved => Conserved'
    BY DEF Conserved, InRing
  <1>5. (Served => Served') /\ (Counts => Counts')
    BY DEF Served, Counts
  <1>6. QED  BY <1>1, <1>2, <1>3, <1>4, <1>5 DEF IInv, DmaInv
-----------------------------------------------------------------------------
(* Whenever the driver is stopped, and whatever the pool holds: the DMA    *)
(* gets only descriptors with a buffer, and the thread takes a buffer only *)
(* from a descriptor it got back.                                          *)
LEMMA InitDmaInv == Init => DmaInv
  BY InitIInv, RingAssumption DEF IInv, Init, DmaInv, Counts, Served

LEMMA ServedStep ==
  ASSUME DmaInv, Next
  PROVE  Served'
  <1> USE RingAssumption DEF DmaInv
  <1>1. CASE Build
    <2>1. /\ buildIdx \in Descriptors /\ own' = own \union {buildIdx}
          /\ desc2'[buildIdx] = buf'[buildIdx]
          /\ \A d \in Descriptors :
               d # buildIdx => desc2'[d] = desc2[d] /\ buf'[d] = buf[d]
      BY <1>1 DEF Build, bufVars, TypeOK, AddressesAgree
    <2>2. QED  BY <2>1 DEF Served, TypeOK
  <1>2. CASE Scan
    BY <1>2 DEF Served, TypeOK, Scan, ScanGoesOn
  <1>3. CASE \E isLast \in BOOLEAN : DmaFills(isLast)
    BY <1>3 DEF Served, TypeOK, DmaFills, bufVars
  <1>4. CASE UNCHANGED <<own, bufVars>>
    BY <1>4 DEF Served, bufVars
  <1>5. Next => \/ Build \/ Scan \/ \E isLast \in BOOLEAN : DmaFills(isLast)
                \/ UNCHANGED <<own, bufVars>>
    BY DEF Next, Read, DmaHalts, DmaLoses, ReadBegin, ScanEnd, Deliver, ReadEnd,
           StartBegin, StartEnd, Stop, Release, Allocate
  <1>6. QED  BY <1>1, <1>2, <1>3, <1>4, <1>5

LEMMA CountsStep ==
  ASSUME DmaInv, Next
  PROVE  Counts'
  BY RingAssumption
     DEF DmaInv, TypeOK, Counts, Next, Read, DmaFills, DmaHalts, DmaLoses,
         ReadBegin, Scan, ScanGoesOn, ScanEnd, Build, BuildGoesOn, Deliver, ReadEnd,
         StartBegin, StartEnd, Stop, Release, Allocate, readVars, buildVars

LEMMA DmaInvariance ==
  ASSUME DmaInv, [Next]_vars
  PROVE  DmaInv'
  <1>1. CASE Next
    <2>1. AddressesAgree'
      BY <1>1, AddressesStep DEF DmaInv
    <2>2. QED  BY <1>1, <2>1, TypeStep, CountsStep, ServedStep DEF DmaInv
  <1>2. CASE UNCHANGED vars
    BY <1>2, StutteringStep
  <1>3. QED  BY <1>1, <1>2

(* The variables of the ring keep their types: the reader and the builder  *)
(* never count more than its descriptors, whenever the driver is stopped.  *)
THEOREM TypeCorrect == SafeSpec => []TypeOK
  <1>1. DmaInv => TypeOK
    BY DEF DmaInv
  <1>2. QED  BY InitDmaInv, DmaInvariance, <1>1, PTL DEF SafeSpec

(* The DMA writes into the buffer its descriptor has, never to the stale   *)
(* address of one that was read: however often, and with whatever          *)
(* descriptors left unbuilt for want of packets, the driver is stopped and *)
(* started, the first start included.                                      *)
THEOREM DmaSafe == SafeSpec => []DmaWritesIntoRing
  <1>1. DmaInv => DmaWritesIntoRing
    BY DEF DmaInv, Served, DmaWritesIntoRing
  <1>2. QED  BY InitDmaInv, DmaInvariance, <1>1, PTL DEF SafeSpec
-----------------------------------------------------------------------------
(* The invariant of reception, stopped at rest. *)
LEMMA IInvStep ==
  ASSUME IInv, DmaInv, [Next]_vars, ~dirty'
  PROVE  IInv'
  <1>1. CASE Next
    <2>1. TypeOK' /\ Phases' /\ Geometry'
      BY <1>1, TypeStep, PhasesStep, GeometryStep
    <2>2. AddressesAgree' /\ Conserved'
      BY <1>1, AddressesStep, ConservedStep DEF DmaInv
    <2>3. QED  BY <2>1, <2>2 DEF IInv
  <1>2. CASE UNCHANGED vars
    BY <1>2, StutteringStep
  <1>3. QED  BY <1>1, <1>2

\* What is dirty stays so.
LEMMA DirtyStays ==
  ASSUME [Next]_vars, dirty \in BOOLEAN, ~dirty'
  PROVE  ~dirty
  BY DEF Next, Read, DmaFills, DmaHalts, DmaLoses, ReadBegin, Scan, ScanEnd, Build,
         Deliver, ReadEnd, StartBegin, StartEnd, Stop, Release, Allocate, driverVars,
         vars

THEOREM Invariance == SafeSpec => [](DmaInv /\ (~dirty => IInv))
  <1>1. DmaInv /\ (~dirty => IInv) /\ [Next]_vars => DmaInv' /\ (~dirty => IInv)'
    BY DmaInvariance, IInvStep, DirtyStays DEF DmaInv, TypeOK
  <1>2. QED  BY InitIInv, InitDmaInv, <1>1, PTL DEF SafeSpec

(* No buffer is lost, and none is used twice: every packet is free, in the *)
(* ring, chained for a frame or with NetX, whatever the DMA, the pool and  *)
(* the IP thread do, until a ring that is not at rest is stopped.          *)
THEOREM NoBufferLost == SafeSpec => []PacketsConserved
  <1>1. (~dirty => IInv) => PacketsConserved
    BY DEF IInv, PacketsConserved
  <1>2. QED  BY Invariance, <1>1, PTL
-----------------------------------------------------------------------------
(* Stopped at rest, the DMA owns all descriptors until the next start has  *)
(* ended.  Before the first one it can fill only those that are built, and *)
(* later all have a buffer.  It never can fill one that waits to be built. *)
Ownership ==
  /\ ~started =>
       /\ own = Descriptors
       /\ \/ \A d \in Descriptors : buf[d] # NoPacket
          \/ \A d \in Descriptors :
               \/ rd = "start" /\ Distance(buildIdx, d) >= buildCnt
               \/ desc2[d] = NoPacket
  /\ started =>
       \A d \in Descriptors :
         Distance(buildIdx, d) < buildCnt + cnt => d \notin Armed

OwnershipInv == IInv /\ DmaInv /\ Ownership

LEMMA InitOwnership == Init => Ownership
  BY DEF Init, Ownership

(* When a start ends, the DMA can fill what is built and nothing else: all *)
(* descriptors had a buffer before, or the first start leaves those it has *)
(* no packets for as they were.                                            *)
LEMMA StartArms ==
  ASSUME OwnershipInv, StartEnd
  PROVE  /\ own = Descriptors /\ cnt = 0
         /\ \A d \in Descriptors : d \in Armed <=> Distance(buildIdx, d) >= buildCnt
  <1>1. /\ buildCnt \in Nat /\ buildIdx \in Descriptors /\ cnt = 0
        /\ ~started /\ rd = "start" /\ own = Descriptors
    BY DEF OwnershipInv, IInv, TypeOK, Phases, Ownership, StartEnd
  <1>2. \A d \in Descriptors : Distance(buildIdx, d) \in 0..N-1
    BY <1>1, DistanceOfSucc
  <1>3. \A d \in Descriptors : d \in Armed <=> buf[d] # NoPacket
    BY <1>1 DEF Armed, OwnershipInv, DmaInv, Served
  <1>4. \A d \in Descriptors : Distance(buildIdx, d) >= buildCnt => d \in Armed
    BY <1>1, <1>3 DEF OwnershipInv, IInv, Geometry
  <1>5. CASE \A d \in Descriptors : buf[d] # NoPacket
    <2>1. buildCnt = 0
      BY <1>1, <1>5 DEF StartEnd, BuildGoesOn
    <2>2. QED  BY <1>1, <1>2, <1>4, <2>1
  <1>6. CASE \A d \in Descriptors :
               \/ rd = "start" /\ Distance(buildIdx, d) >= buildCnt
               \/ desc2[d] = NoPacket
    BY <1>1, <1>2, <1>4, <1>6 DEF Armed
  <1>7. QED  BY <1>1, <1>5, <1>6 DEF OwnershipInv, Ownership

(* Every step keeps the DMA away from what waits to be built: reading      *)
(* stops at a descriptor of the DMA, and building gives it the first one   *)
(* that waits.                                                             *)
LEMMA OwnershipStep ==
  ASSUME OwnershipInv, Next, ~dirty'
  PROVE  Ownership'
  <1> USE RingAssumption
  <1>1. /\ buildIdx \in Descriptors /\ idx \in Descriptors
        /\ cnt \in Nat /\ buildCnt \in Nat /\ own \in SUBSET Descriptors
        /\ buildCnt + cnt <= N
    BY DEF OwnershipInv, IInv, TypeOK, Geometry
  <1>2. Geometry /\ Phases /\ Ownership /\ TypeOK /\ AddressesAgree
    BY DEF OwnershipInv, IInv
  <1>3. CASE Scan
    <2>1. /\ cnt' = cnt + 1 /\ started /\ cnt < N - buildCnt /\ idx \notin own
          /\ UNCHANGED <<own, desc2, started, buildIdx, buildCnt>>
      BY <1>2, <1>3 DEF Scan, ScanGoesOn, Phases, buildVars, driverVars
    <2>2. Distance(buildIdx, idx) = buildCnt + cnt
      BY <1>1, <1>2, <2>1, DistanceOfSucc DEF Geometry
    <2>3. Armed' = Armed
      BY <2>1 DEF Armed
    <2>4. ASSUME NEW d \in Descriptors,
                 Distance(buildIdx', d) < buildCnt' + cnt'
          PROVE  d \notin Armed'
      <3>1. Distance(buildIdx, d) < buildCnt + cnt \/ d = idx
        <4>1. Distance(buildIdx, d) < buildCnt + cnt
              \/ Distance(buildIdx, d) = Distance(buildIdx, idx)
          BY <1>1, <2>1, <2>2, <2>4, DistanceOfSucc
        <4>2. QED  BY <1>1, <4>1 DEF Distance, Descriptors
      <3>2. QED  BY <1>2, <2>1, <2>3, <3>1 DEF Ownership, Armed
    <2>5. QED  BY <2>1, <2>4 DEF Ownership, Distance
  <1>4. CASE ScanEnd
    <2>1. /\ started /\ started' /\ buildCnt' + cnt' = buildCnt + cnt
          /\ buildIdx' = buildIdx /\ Armed' = Armed
      BY <1>1, <1>2, <1>4 DEF ScanEnd, Phases, Armed, bufVars, driverVars
    <2>2. QED  BY <1>2, <2>1 DEF Ownership, Distance
  <1>5. CASE Build
    <2>1. /\ buildIdx' = Succ(buildIdx) /\ buildCnt' = buildCnt - 1
          /\ buildCnt > 0 /\ cnt' = cnt /\ cnt = 0 /\ started' = started
          /\ own' = own \union {buildIdx} /\ rd' = rd
      BY <1>2, <1>5 DEF Build, BuildGoesOn, readVars, driverVars, Phases
    <2>2. /\ buf'[buildIdx] # NoPacket
          /\ \A d \in Descriptors :
               d # buildIdx => buf'[d] = buf[d] /\ desc2'[d] = desc2[d]
      BY <1>1, <1>2, <1>5 DEF Build, bufVars, TypeOK
    <2>3. ASSUME NEW d \in Descriptors, d # buildIdx
          PROVE  Distance(buildIdx', d) = Distance(buildIdx, d) - 1
      BY <1>1, <2>1, <2>3, DistanceOfSucc
    <2>4. Distance(buildIdx', buildIdx) = N - 1
      BY <1>1, <2>1, DistanceOfSucc
    <2>5. \A d \in Descriptors : Distance(buildIdx, d) \in 0..N-1
      BY <1>1, DistanceOfSucc
    <2>6. CASE ~started
      <3>1. own' = Descriptors
        BY <1>1, <1>2, <2>1, <2>6 DEF Ownership
      <3>2. CASE \A d \in Descriptors : buf[d] # NoPacket
        BY <2>1, <2>2, <2>6, <3>1, <3>2 DEF Ownership
      <3>3. CASE \A d \in Descriptors :
                   \/ rd = "start" /\ Distance(buildIdx, d) >= buildCnt
                   \/ desc2[d] = NoPacket
        <4>1. rd = "start"
          BY <1>2, <1>5, <2>6 DEF Build, Phases
        <4>2. ASSUME NEW d \in Descriptors
              PROVE  Distance(buildIdx', d) >= buildCnt' \/ desc2'[d] = NoPacket
          <5>1. CASE d = buildIdx
            BY <1>1, <2>1, <2>4, <5>1
          <5>2. CASE d # buildIdx
            BY <1>1, <2>1, <2>2, <2>3, <2>5, <3>3, <5>2
          <5>3. QED  BY <5>1, <5>2
        <4>3. QED  BY <2>1, <2>6, <3>1, <4>1, <4>2 DEF Ownership, Distance
      <3>4. QED  BY <1>2, <2>6, <3>2, <3>3 DEF Ownership
    <2>7. CASE started
      <3>1. ASSUME NEW d \in Descriptors,
                   Distance(buildIdx', d) < buildCnt' + cnt'
            PROVE  d \notin Armed'
        <4>1. d # buildIdx
          BY <1>1, <2>1, <2>4, <3>1
        <4>2. Distance(buildIdx, d) < buildCnt + cnt
          BY <1>1, <2>1, <2>3, <2>5, <3>1, <4>1
        <4>3. d \notin Armed
          BY <1>2, <2>7, <4>2 DEF Ownership
        <4>4. QED  BY <2>1, <2>2, <4>1, <4>3 DEF Armed
      <3>2. QED  BY <2>1, <2>7, <3>1 DEF Ownership, Distance
    <2>8. QED  BY <2>6, <2>7
  <1>6. CASE StartBegin
    <2>1. /\ ~started /\ rd = "idle" /\ rd' = "start" /\ started' = started
          /\ UNCHANGED <<own, buf, desc2, buildIdx>>
      BY <1>6 DEF StartBegin, bufVars, driverVars
    <2>2. QED  BY <1>2, <2>1 DEF Ownership
  <1>7. CASE StartEnd
    <2>1. /\ started' /\ cnt = 0
          /\ UNCHANGED <<own, desc2, cnt, buildIdx, buildCnt>>
      BY <1>7, StartArms DEF StartEnd, bufVars, readVars, buildVars
    <2>2. Armed' = Armed
      BY <2>1 DEF Armed
    <2>3. \A d \in Descriptors : Distance(buildIdx, d) \in 0..N-1
      BY <1>1, DistanceOfSucc
    <2>4. \A d \in Descriptors : Distance(buildIdx, d) < buildCnt => d \notin Armed
      BY <1>1, <1>7, <2>3, StartArms
    <2>5. QED  BY <1>1, <2>1, <2>2, <2>4 DEF Ownership, Distance
  <1>8. CASE Stop
    <2>1. /\ ~started' /\ own = Descriptors /\ buildCnt = 0 /\ cnt = 0
          /\ started /\ UNCHANGED <<own, buf>>
      BY <1>2, <1>8 DEF Stop, AtRest, DmaRuns, Phases, bufVars, TypeOK
    <2>2. \A d \in Descriptors : Distance(buildIdx, d) \in 0..N-1
      BY <1>1, DistanceOfSucc
    <2>3. \A d \in Descriptors : buf[d] # NoPacket
      BY <1>2, <2>1, <2>2 DEF Geometry
    <2>4. QED  BY <2>1, <2>3 DEF Ownership
  <1>9. CASE /\ UNCHANGED <<buildVars, bufVars, cnt, started>>
             /\ own' \in SUBSET own
             /\ started \/ (own' = own /\ rd' = rd)
    <2>1. Armed' \subseteq Armed
      BY <1>9 DEF Armed, bufVars
    <2>2. CASE started
      BY <1>2, <1>9, <2>1, <2>2 DEF buildVars, Ownership, Distance
    <2>3. CASE ~started
      BY <1>2, <1>9, <2>3 DEF buildVars, bufVars, Ownership, Distance
    <2>4. QED  BY <2>2, <2>3
  <1>10. Next => \/ Scan \/ ScanEnd \/ Build \/ StartBegin \/ StartEnd \/ Stop
                 \/ /\ UNCHANGED <<buildVars, bufVars, cnt, started>>
                    /\ own' \in SUBSET own
                    /\ started \/ (own' = own /\ rd' = rd)
    BY <1>2 DEF Next, Read, DmaFills, DmaHalts, DmaRuns, DmaLoses, ReadBegin, Deliver,
       ReadEnd, Release, Allocate, driverVars, readVars, Phases
  <1>11. QED  BY <1>3, <1>4, <1>5, <1>6, <1>7, <1>8, <1>9, <1>10

LEMMA OwnershipInvariance ==
  ASSUME OwnershipInv, [Next]_vars, ~dirty'
  PROVE  OwnershipInv'
  <1>1. IInv' /\ DmaInv'
    BY IInvStep, DmaInvariance DEF OwnershipInv
  <1>2. CASE Next
    BY <1>1, <1>2, OwnershipStep DEF OwnershipInv
  <1>3. CASE UNCHANGED vars
    <2>1. Ownership'
      BY <1>3 DEF OwnershipInv, Ownership, Armed, Distance, vars, driverVars, bufVars,
         readVars, buildVars
    <2>2. QED  BY <1>1, <2>1 DEF OwnershipInv
  <1>4. QED  BY <1>2, <1>3

LEMMA InitOwnershipInv == Init => OwnershipInv
  BY InitIInv, InitDmaInv, InitOwnership DEF OwnershipInv

(* The two ends of the ring never cross: the descriptors that wait to be   *)
(* built are never more than the ring has, end where the IP thread reads,  *)
(* and the DMA can fill none of them, whatever frames arrive while the     *)
(* thread reads and builds, and with however few packets it was started.   *)
THEOREM EndsNeverCross == SafeSpec => []BuildsBehindDma
  <1> DEFINE Inv == dirty \in BOOLEAN /\ (~dirty => OwnershipInv)
  <1>1. Init => Inv
    BY InitOwnershipInv DEF Init
  <1>2. Inv /\ DmaInv' /\ [Next]_vars => Inv'
    BY OwnershipInvariance, DirtyStays DEF DmaInv, TypeOK
  <1>3. Inv => BuildsBehindDma
    BY DEF OwnershipInv, IInv, Geometry, Ownership, BuildsBehindDma, Unbuilt
  <1> HIDE DEF Inv
  <1>4. SafeSpec => []DmaInv
    BY Invariance, PTL
  <1>5. QED  BY <1>1, <1>2, <1>3, <1>4, PTL DEF SafeSpec
-----------------------------------------------------------------------------
(***************************************************************************)
(* Reception, for every number of descriptors, packets and frames: as long *)
(* as only a ring at rest is stopped, the ring is a queue of frames.  What *)
(* the DMA has filled is a sequence of frames in the order of the wire; it *)
(* begins where the IP thread reads, continues the frame that is chained,  *)
(* and ends with the frame that arrives.                                   *)
(***************************************************************************)

(* The descriptors lie in three arcs, from the one that is built next: so  *)
(* many wait to be built, then come those the DMA has filled, and then     *)
(* those it can fill, from where it fills next.                            *)
Place(d) == Distance(buildIdx, d)
Pending  == buildCnt + cnt
Mark     == IF Armed = {} THEN N ELSE Place(dma)

Arcs ==
  /\ Armed = {d \in Descriptors : Place(d) >= Mark}
  /\ Pending <= Mark
  /\ Place(dma) = Mark \/ Place(dma) = Mark - N
  /\ \A d \in Descriptors : Place(d) < Pending => buf[d] = NoPacket

Filled == {d \in Descriptors : Pending <= Place(d) /\ Place(d) < Mark}

(* The order of what is filled: along the ring, up to the next one, the    *)
(* first one and the last one.                                             *)
Before(d, e) == Place(d) < Place(e)
Adjoins(d, e) == Place(e) = Place(d) + 1
Foremost(d) == Place(d) = Pending
Hindmost(d) == Place(d) + 1 = Mark

\* The frame of the data in a descriptor.
Frame(d) == content[buf[d]]

\* A frame is chained and its end is not.
Open == chain # {} /\ ~ready

(* Frames are numbered as they begin on the wire. *)
Known ==
  /\ arriving # 0 => arriving = nextFrame - 1
  /\ \A d \in Filled : Frame(d) \in 1..nextFrame-1
  /\ \A p \in chain : content[p] \in 1..nextFrame-1

(* Of two descriptors the later one has a later frame, or more of the same *)
(* that did not end before.                                                *)
Ordered ==
  /\ \A d, e \in Filled :
       Before(d, e) =>
         Frame(d) < Frame(e) \/ (Frame(d) = Frame(e) /\ d \notin last)
  /\ \A d \in Filled : d \in last /\ arriving # 0 => Frame(d) < arriving

(* After the end of a frame another one begins, and before its end the     *)
(* next descriptor continues it, or the DMA is about to.                   *)
Joined ==
  /\ \A d, e \in Filled :
       Adjoins(d, e) => IF d \in last THEN e \in first ELSE Frame(e) = Frame(d)
  /\ \A d \in Filled :
       Hindmost(d) => IF d \in last THEN arriving = 0 ELSE arriving = Frame(d)

(* The packets chained are of one frame, before all that are filled when   *)
(* it is complete, and else continued by the first.                        *)
Chained ==
  /\ ready => chain # {}
  /\ \A p, q \in chain : content[p] = content[q]
  /\ ready => \A p \in chain :
       /\ \A d \in Filled : content[p] < Frame(d)
       /\ arriving # 0 => content[p] < arriving
  /\ \A d \in Filled :
       Foremost(d) => IF Open THEN \A p \in chain : content[p] = Frame(d)
                              ELSE d \in first
  /\ Pending = Mark =>
       IF Open THEN \A p \in chain : content[p] = arriving ELSE arriving = 0

(* A read that ends has left no frame that ended without an event. *)
NoneMissed ==
  rd = "build" /\ ~ready /\ ~event => Filled \intersect last = {}

Frames == Known /\ Ordered /\ Joined /\ Chained

(* Stopped at rest, DMA and thread go on at the same place. *)
Stopped ==
  own = Descriptors /\ dma = idx /\ chain = {} /\ ~ready /\ arriving = 0

FInv ==
  /\ OwnershipInv
  /\ IF started THEN Arcs /\ Frames /\ NoneMissed ELSE Stopped
-----------------------------------------------------------------------------
(* What the invariants of the ring say of the state. *)
LEMMA RingFacts ==
  ASSUME OwnershipInv
  PROVE  /\ TypeOK /\ N \in Nat /\ N >= 2 /\ MaxFrames \in Nat
         /\ Pending \in Nat /\ NoPacket \notin Packets
         /\ Place(idx) = Pending \/ Place(idx) = Pending - N
         /\ started => \A d \in Descriptors : Place(d) >= Pending => buf[d] \in Packets
         /\ \A d \in Descriptors : buf[d] # NoPacket => desc2[d] = buf[d]
         /\ \A d, e \in Descriptors :
              buf[d] \in Packets /\ buf[d] = buf[e] => d = e
         /\ \A d \in Descriptors : buf[d] \notin chain
  <1>1. /\ TypeOK /\ N \in Nat /\ N >= 2 /\ MaxFrames \in Nat
        /\ Pending \in Nat /\ NoPacket \notin Packets
    BY RingAssumption DEF OwnershipInv, IInv, TypeOK, Pending
  <1>2. Place(idx) = Pending \/ Place(idx) = Pending - N
    <2>1. Geometry
      BY DEF OwnershipInv, IInv
    <2>2. \/ Distance(buildIdx, idx) = buildCnt + cnt
          \/ Distance(buildIdx, idx) = buildCnt + cnt - N
      BY <2>1 DEF Geometry
    <2>3. QED  BY <1>1, <2>2 DEF Place, Pending, TypeOK, Distance, Descriptors
  <1>3. started => \A d \in Descriptors : Place(d) >= Pending => buf[d] \in Packets
    BY <1>1 DEF OwnershipInv, IInv, Geometry, TypeOK, Place, Pending
  <1>4. \A d \in Descriptors : buf[d] # NoPacket => desc2[d] = buf[d]
    BY DEF OwnershipInv, IInv, AddressesAgree
  <1>5. \A d, e \in Descriptors : buf[d] \in Packets /\ buf[d] = buf[e] => d = e
    BY <1>1 DEF OwnershipInv, IInv, Conserved
  <1>6. \A d \in Descriptors : buf[d] \notin chain
    BY <1>1 DEF OwnershipInv, IInv, Conserved, InRing, TypeOK
  <1>7. QED  BY <1>1, <1>2, <1>3, <1>4, <1>5, <1>6

(* Places are counted from the descriptor that is built next. *)
LEMMA PlaceFacts ==
  ASSUME TypeOK
  PROVE  /\ \A d \in Descriptors : Place(d) \in 0..N-1
         /\ \A d, e \in Descriptors : Place(d) = Place(e) => d = e
         /\ \A d \in Descriptors :
              Place(Succ(d)) = Place(d) + 1 \/ Place(Succ(d)) = Place(d) + 1 - N
         /\ Place(buildIdx) = 0
         /\ Mark \in 0..N
  <1> USE RingAssumption DEF TypeOK
  <1>1. \A d \in Descriptors :
          /\ Place(d) \in 0..N-1
          /\ Place(Succ(d)) = Place(d) + 1 \/ Place(Succ(d)) = Place(d) + 1 - N
    BY DistanceOfSucc DEF Place
  <1>2. \A d, e \in Descriptors : Place(d) = Place(e) => d = e
    BY DEF Place, Distance, Descriptors
  <1>3. Place(buildIdx) = 0
    BY DistanceOfSucc DEF Place
  <1>4. Mark \in 0..N
    BY <1>1 DEF Mark
  <1>5. QED  BY <1>1, <1>2, <1>3, <1>4

(* What is filled has a buffer, one of its own. *)
LEMMA FilledFacts ==
  ASSUME FInv, started
  PROVE  /\ Filled \subseteq Descriptors
         /\ \A d \in Filled : buf[d] \in Packets /\ d \notin own
         /\ Filled = {d \in Descriptors \ own : buf[d] # NoPacket}
         /\ \A d \in Filled : Place(d) \in Nat /\ Frame(d) \in Nat
         /\ \A d, e \in Filled : d # e => buf[d] # buf[e]
         /\ Mark \in 0..N /\ Pending \in 0..N
  <1>1. OwnershipInv /\ Arcs
    BY DEF FInv
  <1>2. Filled \subseteq Descriptors
    BY DEF Filled
  <1>3. \A d \in Filled : buf[d] \in Packets /\ d \notin own
    <2>1. ASSUME NEW d \in Filled
          PROVE  buf[d] \in Packets /\ d \notin Armed
      BY <1>1, RingFacts, PlaceFacts DEF Filled, Arcs
    <2>2. QED  BY <1>1, <1>2, <2>1, RingFacts DEF Armed
  <1>4. ASSUME NEW d \in Descriptors \ own, buf[d] # NoPacket
        PROVE  d \in Filled
    <2>1. d \notin Armed
      BY DEF Armed
    <2>2. QED  BY <1>1, <1>4, <2>1, RingFacts, PlaceFacts DEF Filled, Arcs
  <1>5. Filled = {d \in Descriptors \ own : buf[d] # NoPacket}
    BY <1>1, <1>2, <1>3, <1>4, RingFacts
  <1>6. \A d \in Filled : Place(d) \in Nat /\ Frame(d) \in Nat
    BY <1>1, <1>2, <1>3, RingFacts, PlaceFacts DEF Frame, TypeOK
  <1>7. \A d, e \in Filled : d # e => buf[d] # buf[e]
    BY <1>1, <1>2, <1>3, RingFacts
  <1>8. Mark \in 0..N /\ Pending \in 0..N
    BY <1>1, RingFacts, PlaceFacts DEF Arcs
  <1>9. QED  BY <1>2, <1>3, <1>5, <1>6, <1>7, <1>8
-----------------------------------------------------------------------------
(* A step that leaves what is filled and what is chained as it is. *)
Quiet ==
  /\ Filled' = Filled
  /\ \A d \in Filled :
       /\ Frame(d)' = Frame(d)
       /\ Foremost(d)' <=> Foremost(d)
       /\ Hindmost(d)' <=> Hindmost(d)
       /\ d \in first' <=> d \in first
       /\ d \in last' <=> d \in last
  /\ \A d, e \in Filled :
       /\ Before(d, e)' <=> Before(d, e)
       /\ Adjoins(d, e)' <=> Adjoins(d, e)
  /\ (Pending = Mark)' <=> Pending = Mark
  /\ chain' = chain /\ ready' = ready /\ arriving' = arriving
  /\ \A p \in chain : content'[p] = content[p]
  /\ nextFrame' = nextFrame \/ nextFrame' = nextFrame + 1
  /\ arriving # 0 => nextFrame' = nextFrame

LEMMA QuietStep ==
  ASSUME Frames, Quiet, nextFrame \in Nat
  PROVE  Frames'
  <1>1. Known'
    <2>1. arriving' # 0 => arriving' = nextFrame' - 1
      BY DEF Frames, Known, Quiet
    <2>2. 1..nextFrame-1 \subseteq 1..nextFrame'-1
      <3>1. nextFrame' = nextFrame \/ nextFrame' = nextFrame + 1
        BY DEF Quiet
      <3>2. QED  BY <3>1
    <2>3. \A d \in Filled' : Frame(d)' \in 1..nextFrame'-1
      BY <2>2 DEF Frames, Known, Quiet
    <2>4. \A p \in chain' : content'[p] \in 1..nextFrame'-1
      BY <2>2 DEF Frames, Known, Quiet
    <2>5. QED  BY <2>1, <2>3, <2>4 DEF Known
  <1>2. Ordered'
    BY DEF Frames, Ordered, Quiet
  <1>3. Joined'
    BY DEF Frames, Joined, Quiet
  <1>4. Chained'
    BY DEF Frames, Chained, Open, Quiet
  <1>5. QED  BY <1>1, <1>2, <1>3, <1>4 DEF Frames

(* A step that moves no end of an arc. *)
LEMMA StillStep ==
  ASSUME FInv, started,
         UNCHANGED <<own, desc2, dma, buildIdx, buf, first, last, content, chain,
                     ready, arriving>>,
         Pending' = Pending,
         nextFrame' = nextFrame \/ nextFrame' = nextFrame + 1,
         arriving # 0 => nextFrame' = nextFrame
  PROVE  Arcs' /\ Frames' /\ Filled' = Filled
  <1>1. \A d : Place(d)' = Place(d)
    BY DEF Place, Distance
  <1>2. Mark' = Mark /\ Armed' = Armed
    BY <1>1 DEF Mark, Armed
  <1>3. Arcs'
    BY <1>1, <1>2 DEF FInv, Arcs
  <1>4. Filled' = Filled
    BY <1>1, <1>2 DEF Filled
  <1>5. Quiet
    BY <1>1, <1>2, <1>4 DEF Quiet, Frame, Foremost, Hindmost, Before, Adjoins
  <1>6. QED
    BY <1>3, <1>4, <1>5, QuietStep DEF FInv, OwnershipInv, IInv, TypeOK
-----------------------------------------------------------------------------
(* The DMA fills one more descriptor, the last one of those. *)
LEMMA DmaFillsArcs ==
  ASSUME FInv, NEW isLast \in BOOLEAN, DmaFills(isLast)
  PROVE  /\ Arcs' /\ Filled' = Filled \union {dma} /\ dma \notin Filled
         /\ \A d : Place(d)' = Place(d)
         /\ Pending' = Pending /\ Mark' = Mark + 1 /\ Place(dma) = Mark
  <1>1. /\ started /\ dma \in Armed /\ Armed' = Armed \ {dma} /\ dma' = Succ(dma)
        /\ UNCHANGED <<buildIdx, buildCnt, cnt, buf>>
    BY DEF DmaFills, DmaRuns, Armed, bufVars, readVars, buildVars
  <1>2. Arcs /\ OwnershipInv /\ TypeOK
    BY <1>1 DEF FInv, OwnershipInv, IInv
  <1>3. \A d : Place(d)' = Place(d)
    BY <1>1 DEF Place, Distance
  <1>4. Pending' = Pending
    BY <1>1 DEF Pending
  <1>5. /\ dma \in Descriptors /\ Succ(dma) \in Descriptors /\ Place(dma) = Mark
        /\ Mark \in 0..N-1 /\ N \in Nat /\ Pending \in Nat
    BY <1>1, <1>2, RingFacts, PlaceFacts, SuccIsDescriptor DEF TypeOK, Mark
  <1>6. Armed' = {d \in Descriptors : Place(d) >= Mark + 1}
    <2>1. \A d \in Descriptors : d # dma => Place(d) \in 0..N-1 /\ Place(d) # Mark
      BY <1>2, <1>5, PlaceFacts
    <2>2. Armed = {d \in Descriptors : Place(d) >= Mark}
      BY <1>2 DEF Arcs
    <2>3. QED  BY <1>1, <1>5, <2>1, <2>2
  <1>7. Place(Succ(dma)) = IF Mark + 1 < N THEN Mark + 1 ELSE Mark + 1 - N
    BY <1>2, <1>5, PlaceFacts
  <1>8. Mark' = Mark + 1
    <2>1. CASE Mark + 1 < N
      <3>1. Succ(dma) \in Armed'
        BY <1>5, <1>6, <1>7, <2>1
      <3>2. Mark' = Place(Succ(dma))
        BY <1>1, <1>3, <3>1 DEF Mark
      <3>3. QED  BY <1>7, <2>1, <3>2
    <2>2. CASE ~(Mark + 1 < N)
      <3>1. Mark + 1 = N
        BY <1>5, <2>2
      <3>2. Armed' = {}
        BY <1>2, <1>6, <3>1, PlaceFacts
      <3>3. QED  BY <3>1, <3>2 DEF Mark
    <2>3. QED  BY <2>1, <2>2
  <1>9. Arcs'
    <2>1. Armed' = {d \in Descriptors : Place(d)' >= Mark'}
      BY <1>3, <1>6, <1>8
    <2>2. Pending' <= Mark'
      BY <1>2, <1>4, <1>5, <1>8 DEF Arcs
    <2>3. Place(dma)' = Mark' \/ Place(dma)' = Mark' - N
      <3>1. Place(dma)' = Place(Succ(dma))
        BY <1>1 DEF Place, Distance
      <3>2. QED  BY <1>5, <1>7, <1>8, <3>1
    <2>4. \A d \in Descriptors : Place(d)' < Pending' => buf'[d] = NoPacket
      BY <1>1, <1>2, <1>3, <1>4 DEF Arcs
    <2>5. QED  BY <2>1, <2>2, <2>3, <2>4 DEF Arcs
  <1>10. Filled' = Filled \union {dma} /\ dma \notin Filled
    <2>1. \A d \in Descriptors : Place(d) \in Nat /\ (Place(d) = Mark => d = dma)
      BY <1>2, <1>5, PlaceFacts
    <2>2. Filled' = {d \in Descriptors : Pending <= Place(d) /\ Place(d) < Mark + 1}
      BY <1>3, <1>4, <1>8 DEF Filled
    <2>3. Pending <= Mark
      BY <1>2 DEF Arcs
    <2>4. QED  BY <1>5, <2>1, <2>2, <2>3 DEF Filled
  <1>11. QED  BY <1>3, <1>4, <1>5, <1>8, <1>9, <1>10

LEMMA DmaFillsStep ==
  ASSUME FInv, NEW isLast \in BOOLEAN, DmaFills(isLast)
  PROVE  Frames'
  <1> DEFINE frame == IF arriving = 0 THEN nextFrame ELSE arriving
  <1>1. PICK k \in Descriptors : k = dma
    BY DEF FInv, OwnershipInv, IInv, TypeOK
  <1>2. /\ started /\ content' = [content EXCEPT ![desc2[k]] = frame]
        /\ arriving' = (IF isLast THEN 0 ELSE frame)
        /\ nextFrame' = (IF arriving = 0 THEN nextFrame + 1 ELSE nextFrame)
        /\ first' = (IF arriving = 0 THEN first \union {k} ELSE first \ {k})
        /\ last' = (IF isLast THEN last \union {k} ELSE last \ {k})
        /\ UNCHANGED <<buf, chain, ready>>
    BY <1>1 DEF DmaFills, DmaRuns, bufVars, readVars
  <1>3. Arcs /\ OwnershipInv /\ TypeOK /\ Known /\ Ordered /\ Joined /\ Chained
    BY <1>2 DEF FInv, OwnershipInv, IInv, Frames
  <1>4. /\ Filled' = Filled \union {k} /\ k \notin Filled
        /\ \A d : Place(d)' = Place(d)
        /\ Pending' = Pending /\ Mark' = Mark + 1 /\ Place(k) = Mark
    BY <1>1, DmaFillsArcs
  <1>5. /\ buf[k] \in Packets /\ desc2[k] = buf[k]
        /\ Mark \in Nat /\ Pending \in Nat /\ Pending <= Mark
    <2>1. Place(k) >= Pending
      BY <1>3, <1>4, PlaceFacts DEF Arcs
    <2>2. buf[k] \in Packets
      BY <1>2, <1>3, <2>1, RingFacts
    <2>3. QED  BY <1>3, <2>2, RingFacts, PlaceFacts DEF Arcs
  <1>6. /\ nextFrame \in Nat /\ nextFrame >= 1 /\ arriving \in Nat
        /\ frame \in Nat /\ frame >= 1 /\ nextFrame' = frame + 1
        /\ nextFrame' = nextFrame \/ nextFrame' = nextFrame + 1
        /\ arriving = 0 => frame = nextFrame
        /\ arriving # 0 => frame = arriving
    BY <1>2, <1>3 DEF Known, TypeOK
  <1> HIDE DEF frame
  <1>7. /\ \A d \in Filled : Frame(d)' = Frame(d)
        /\ Frame(k)' = frame
        /\ \A p \in chain : content'[p] = content[p]
    <2>1. content \in [Packets -> 0..MaxFrames] /\ chain \subseteq Packets
      BY <1>3 DEF TypeOK
    <2>2. buf[k] \notin chain
      BY <1>3, <1>5, RingFacts
    <2>3. \A d \in Filled : buf[d] \in Packets /\ buf[d] # buf[k]
      BY <1>2, <1>3, <1>4, <1>5, RingFacts, FilledFacts
    <2>4. QED  BY <1>2, <1>5, <2>1, <2>2, <2>3 DEF Frame
  <1>8. /\ \A d \in Filled : /\ Frame(d) \in 1..nextFrame-1 /\ Place(d) \in Nat
                             /\ Place(d) < Mark
                             /\ d \in first' <=> d \in first
                             /\ d \in last' <=> d \in last
        /\ k \in first' <=> arriving = 0
        /\ k \in last' <=> isLast
        /\ \A p \in chain : content[p] \in 1..nextFrame-1
    BY <1>2, <1>3, <1>4, FilledFacts DEF Known, Filled
  <1>9. Known'
    <2>1. arriving' # 0 => arriving' = nextFrame' - 1
      BY <1>2, <1>6
    <2>2. 1..nextFrame-1 \subseteq 1..nextFrame'-1
      BY <1>6
    <2>3. ASSUME NEW d \in Filled'
          PROVE  Frame(d)' \in 1..nextFrame'-1
      <3>1. CASE d \in Filled
        BY <1>7, <1>8, <2>2, <3>1
      <3>2. CASE d = k
        BY <1>6, <1>7, <3>2
      <3>3. QED  BY <1>4, <3>1, <3>2
    <2>4. \A p \in chain' : content'[p] \in 1..nextFrame'-1
      BY <1>2, <1>7, <1>8, <2>2
    <2>5. QED  BY <2>1, <2>3, <2>4 DEF Known
  (* What was filled before is of an earlier frame, or of this one.        *)
  <1>10. \A d \in Filled : Frame(d) < frame \/ (Frame(d) = frame /\ d \notin last)
    <2>1. ASSUME NEW d \in Filled
          PROVE  Frame(d) < frame \/ (Frame(d) = frame /\ d \notin last)
      <3>1. Frame(d) \in Nat /\ Frame(d) <= nextFrame - 1
        BY <1>6, <1>8
      <3>2. CASE arriving = 0
        BY <1>6, <3>1, <3>2
      <3>3. CASE arriving # 0
        <4>1. frame = arriving /\ arriving = nextFrame - 1
          BY <1>3, <1>6, <3>3 DEF Known
        <4>2. d \in last => Frame(d) < arriving
          BY <1>3, <3>3 DEF Ordered
        <4>3. QED  BY <1>6, <3>1, <4>1, <4>2
      <3>4. QED  BY <3>2, <3>3
    <2>2. QED  BY <2>1
  <1>11. Ordered'
    <2>1. ASSUME NEW d \in Filled', NEW e \in Filled', Before(d, e)'
          PROVE  Frame(d)' < Frame(e)' \/ (Frame(d)' = Frame(e)' /\ d \notin last')
      <3>1. Place(d) < Place(e)
        BY <1>4, <2>1 DEF Before
      <3>2. d \in Filled
        BY <1>4, <1>5, <1>8, <3>1
      <3>3. CASE e \in Filled
        BY <1>3, <1>7, <1>8, <3>1, <3>2, <3>3 DEF Ordered, Before
      <3>4. CASE e = k
        BY <1>7, <1>8, <1>10, <3>2, <3>4
      <3>5. QED  BY <1>4, <3>3, <3>4
    <2>2. ASSUME NEW d \in Filled', d \in last', arriving' # 0
          PROVE  Frame(d)' < arriving'
      <3>1. arriving' = frame /\ ~isLast
        BY <1>2, <2>2
      <3>2. d \in Filled /\ d \in last
        BY <1>4, <1>8, <2>2, <3>1
      <3>3. QED  BY <1>7, <1>10, <3>1, <3>2
    <2>3. QED  BY <2>1, <2>2 DEF Ordered
  <1>12. Joined'
    <2>1. ASSUME NEW d \in Filled', NEW e \in Filled', Adjoins(d, e)'
          PROVE  IF d \in last' THEN e \in first' ELSE Frame(e)' = Frame(d)'
      <3>1. Place(e) = Place(d) + 1
        BY <1>4, <2>1 DEF Adjoins
      <3>2. d \in Filled
        BY <1>4, <1>5, <1>8, <3>1
      <3>3. CASE e \in Filled
        BY <1>3, <1>7, <1>8, <3>1, <3>2, <3>3 DEF Joined, Adjoins
      <3>4. CASE e = k
        <4>1. Hindmost(d)
          BY <1>4, <3>1, <3>4 DEF Hindmost
        <4>2. QED  BY <1>3, <1>6, <1>7, <1>8, <3>2, <3>4, <4>1 DEF Joined
      <3>5. QED  BY <1>4, <3>3, <3>4
    <2>2. ASSUME NEW d \in Filled', Hindmost(d)'
          PROVE  IF d \in last' THEN arriving' = 0 ELSE arriving' = Frame(d)'
      <3>1. Place(d) = Mark
        BY <1>4, <1>5, <1>8, <2>2 DEF Hindmost
      <3>2. d = k
        BY <1>4, <1>5, <1>8, <3>1
      <3>3. QED  BY <1>2, <1>7, <1>8, <3>2
    <2>3. QED  BY <2>1, <2>2 DEF Joined
  <1>13. Chained'
    <2>1. (ready' => chain' # {}) /\ \A p, q \in chain' : content'[p] = content'[q]
      BY <1>2, <1>3, <1>7 DEF Chained
    <2>2. ASSUME ready', NEW p \in chain'
          PROVE  /\ \A d \in Filled' : content'[p] < Frame(d)'
                 /\ arriving' # 0 => content'[p] < arriving'
      <3>1. /\ ready /\ p \in chain /\ content'[p] = content[p]
            /\ content[p] \in 1..nextFrame-1
        BY <1>2, <1>7, <1>8, <2>2
      <3>2. content[p] < frame
        <4>1. CASE arriving = 0
          BY <1>6, <3>1, <4>1
        <4>2. CASE arriving # 0
          BY <1>3, <1>6, <3>1, <4>2 DEF Chained
        <4>3. QED  BY <4>1, <4>2
      <3>3. QED  BY <1>2, <1>3, <1>4, <1>7, <3>1, <3>2 DEF Chained
    <2>3. ASSUME NEW d \in Filled', Foremost(d)'
          PROVE  IF Open' THEN \A p \in chain' : content'[p] = Frame(d)'
                          ELSE d \in first'
      <3>1. Place(d) = Pending
        BY <1>4, <2>3 DEF Foremost
      <3>2. Open' <=> Open
        BY <1>2 DEF Open
      <3>3. CASE d \in Filled
        BY <1>2, <1>3, <1>7, <1>8, <3>1, <3>2, <3>3 DEF Chained, Foremost
      <3>4. CASE d = k
        <4>1. Pending = Mark
          BY <1>4, <3>1, <3>4
        <4>2. IF Open THEN \A p \in chain : content[p] = arriving ELSE arriving = 0
          BY <1>3, <4>1 DEF Chained
        <4>3. CASE Open
          <5>1. PICK p \in chain : TRUE
            BY <4>3 DEF Open
          <5>2. arriving # 0
            BY <1>8, <4>2, <4>3, <5>1
          <5>3. QED  BY <1>2, <1>6, <1>7, <3>2, <3>4, <4>2, <4>3, <5>2
        <4>4. CASE ~Open
          BY <1>8, <3>2, <3>4, <4>2, <4>4
        <4>5. QED  BY <4>3, <4>4
      <3>5. QED  BY <1>4, <3>3, <3>4
    <2>4. Pending' # Mark'
      BY <1>4, <1>5
    <2>5. QED  BY <2>1, <2>2, <2>3, <2>4 DEF Chained
  <1>14. QED  BY <1>9, <1>11, <1>12, <1>13 DEF Frames
-----------------------------------------------------------------------------
(* The IP thread reads the descriptor that is filled first: it begins a    *)
(* frame, or continues the one that is chained.                            *)
LEMMA ScanTakes ==
  ASSUME FInv, Scan
  PROVE  /\ started /\ idx \in Filled /\ Foremost(idx) /\ ~ready
         /\ chain' = chain \union {buf[idx]}
         /\ buf' = [buf EXCEPT ![idx] = NoPacket]
         /\ ready' = (idx \in last)
         /\ \A p \in chain : content[p] = Frame(idx)
  <1>1. /\ rd = "scan" /\ idx \notin own /\ cnt < N - buildCnt /\ ~ready
        /\ started
    BY DEF Scan, ScanGoesOn, FInv, OwnershipInv, IInv, Phases
  <1>2. Arcs /\ Chained /\ OwnershipInv /\ TypeOK
    BY <1>1 DEF FInv, Frames, OwnershipInv, IInv
  <1>3. /\ idx \in Descriptors /\ Place(idx) \in 0..N-1 /\ Mark \in 0..N
        /\ Pending \in Nat /\ N \in Nat
    BY <1>2, RingFacts, PlaceFacts DEF TypeOK
  <1>4. Pending < N
    BY <1>1, <1>2, <1>3 DEF Pending, TypeOK
  <1>5. Place(idx) = Pending
    BY <1>2, <1>3, <1>4, RingFacts
  <1>6. idx \in Filled /\ Foremost(idx)
    BY <1>1, <1>2, <1>3, <1>5 DEF Arcs, Armed, Filled, Foremost
  <1>7. IF Open THEN \A p \in chain : content[p] = Frame(idx) ELSE idx \in first
    BY <1>2, <1>6 DEF Chained
  <1>8. idx \in first \/ chain # {}
    BY <1>7 DEF Open
  <1>9. \A p \in chain : content[p] = Frame(idx)
    BY <1>1, <1>7 DEF Open
  <1>10. desc2[idx] = buf[idx]
    BY ScannedHasBuffer DEF FInv, OwnershipInv
  <1>11. QED  BY <1>1, <1>6, <1>8, <1>9, <1>10 DEF Scan

LEMMA ScanStep ==
  ASSUME FInv, Scan
  PROVE  Arcs' /\ Frames'
  <1>1. PICK k \in Descriptors : k = idx
    BY DEF FInv, OwnershipInv, IInv, TypeOK
  <1>2. /\ started /\ k \in Filled /\ Foremost(k) /\ ~ready
        /\ chain' = chain \union {buf[k]}
        /\ buf' = [buf EXCEPT ![k] = NoPacket]
        /\ ready' = (k \in last)
        /\ \A p \in chain : content[p] = Frame(k)
    BY <1>1, ScanTakes
  <1>3. /\ cnt' = cnt + 1
        /\ Armed' = Armed
        /\ UNCHANGED <<own, dma, buildIdx, buildCnt, first, last, content,
                       arriving, nextFrame>>
    BY DEF Scan, Armed, dmaVars, buildVars
  <1>4. /\ Arcs /\ OwnershipInv /\ TypeOK /\ Known /\ Ordered /\ Joined
        /\ Chained
    BY <1>2 DEF FInv, OwnershipInv, IInv, Frames
  <1>5. (\A d : Place(d)' = Place(d)) /\ Mark' = Mark
    BY <1>3 DEF Place, Distance, Mark
  <1>6. /\ Pending' = Pending + 1 /\ Pending \in Nat /\ Mark \in Nat
        /\ Place(k) = Pending /\ Pending < Mark
    <2>1. Pending' = Pending + 1
      BY <1>3, <1>4 DEF Pending, TypeOK
    <2>2. Pending \in Nat /\ Mark \in Nat
      BY <1>4, RingFacts, PlaceFacts
    <2>3. QED  BY <1>2, <2>1, <2>2 DEF Foremost, Filled
  <1>7. \A d \in Descriptors : Place(d) \in Nat /\ (Place(d) = Pending => d = k)
    BY <1>4, <1>6, PlaceFacts
  <1>8. \A d \in Descriptors : d # k => buf'[d] = buf[d]
    BY <1>2, <1>4 DEF TypeOK
  <1>9. Arcs'
    <2>1. Armed' = {d \in Descriptors : Place(d)' >= Mark'}
      BY <1>3, <1>4, <1>5 DEF Arcs
    <2>2. Pending' <= Mark'
      BY <1>5, <1>6
    <2>3. Place(dma)' = Mark' \/ Place(dma)' = Mark' - N
      <3>1. Place(dma)' = Place(dma)
        BY <1>3 DEF Place, Distance
      <3>2. QED  BY <1>4, <1>5, <3>1 DEF Arcs
    <2>4. ASSUME NEW d \in Descriptors, Place(d)' < Pending'
          PROVE  buf'[d] = NoPacket
      <3>1. Place(d) < Pending \/ d = k
        BY <1>5, <1>6, <1>7, <2>4
      <3>2. buf[k] # NoPacket /\ buf'[k] = NoPacket
        BY <1>2, <1>4, RingFacts, FilledFacts DEF TypeOK
      <3>3. QED  BY <1>4, <1>8, <3>1, <3>2 DEF Arcs
    <2>5. QED  BY <2>1, <2>2, <2>3, <2>4 DEF Arcs
  <1>10. Filled' = Filled \ {k}
    <2>1. Filled' = {d \in Descriptors : Pending + 1 <= Place(d) /\ Place(d) < Mark}
      BY <1>5, <1>6 DEF Filled
    <2>2. QED  BY <1>6, <1>7, <2>1 DEF Filled
  <1>11. \A d \in Filled' : d \in Filled /\ d # k /\ Frame(d)' = Frame(d)
    BY <1>3, <1>8, <1>10 DEF Filled, Frame
  <1>12. \A p \in chain' : content'[p] = Frame(k)
    BY <1>2, <1>3 DEF Frame
  <1>13. Known'
    <2>1. Frame(k) \in 1..nextFrame-1
      BY <1>2, <1>4 DEF Known
    <2>2. QED  BY <1>3, <1>4, <1>11, <1>12, <2>1 DEF Known
  <1>14. Ordered'
    BY <1>3, <1>4, <1>5, <1>11 DEF Ordered, Before
  <1>15. Joined'
    BY <1>3, <1>4, <1>5, <1>11 DEF Joined, Adjoins, Hindmost
  <1>16. Chained'
    <2>1. (ready' => chain' # {}) /\ \A p, q \in chain' : content'[p] = content'[q]
      BY <1>2, <1>12
    <2>2. ASSUME ready', NEW p \in chain'
          PROVE  /\ \A d \in Filled' : content'[p] < Frame(d)'
                 /\ arriving' # 0 => content'[p] < arriving'
      <3>1. k \in last /\ content'[p] = Frame(k)
        BY <1>2, <1>12, <2>2
      <3>2. ASSUME NEW d \in Filled'
            PROVE  Frame(k) < Frame(d)
        <4>1. d \in Filled /\ Place(k) < Place(d)
          BY <1>6, <1>7, <1>11, <3>2 DEF Filled
        <4>2. QED  BY <1>2, <1>4, <3>1, <4>1 DEF Ordered, Before
      <3>3. arriving # 0 => Frame(k) < arriving
        BY <1>2, <1>4, <3>1 DEF Ordered
      <3>4. QED  BY <1>3, <1>11, <3>1, <3>2, <3>3
    <2>3. Open' <=> k \notin last
      BY <1>2 DEF Open
    <2>4. ASSUME NEW d \in Filled', Foremost(d)'
          PROVE  IF Open' THEN \A p \in chain' : content'[p] = Frame(d)'
                          ELSE d \in first'
      <3>1. d \in Filled /\ Adjoins(k, d)
        BY <1>5, <1>6, <1>11, <2>4 DEF Foremost, Adjoins
      <3>2. IF k \in last THEN d \in first ELSE Frame(d) = Frame(k)
        BY <1>2, <1>4, <3>1 DEF Joined
      <3>3. QED  BY <1>3, <1>11, <1>12, <2>3, <3>2
    <2>5. ASSUME Pending' = Mark'
          PROVE  IF Open' THEN \A p \in chain' : content'[p] = arriving'
                          ELSE arriving' = 0
      <3>1. Hindmost(k)
        BY <1>5, <1>6, <2>5 DEF Hindmost
      <3>2. QED  BY <1>2, <1>3, <1>4, <1>12, <2>3, <3>1 DEF Joined
    <2>6. QED  BY <2>1, <2>2, <2>4, <2>5 DEF Chained
  <1>17. QED  BY <1>9, <1>13, <1>14, <1>15, <1>16 DEF Frames

(* A descriptor that is built leaves those that wait and joins those of    *)
(* the DMA; what is filled between them does not change.                   *)
LEMMA BuildStep ==
  ASSUME FInv, Build, started
  PROVE  /\ Arcs' /\ Frames' /\ Filled' = Filled
         /\ \A d \in Filled : Frame(d)' = Frame(d)
  <1>1. PICK k \in Descriptors : k = buildIdx
    BY DEF FInv, OwnershipInv, IInv, TypeOK
  <1>2. Arcs /\ Frames /\ OwnershipInv /\ TypeOK
    BY DEF FInv, OwnershipInv, IInv
  <1>3. /\ buildCnt > 0 /\ cnt = 0 /\ cnt' = cnt /\ buildCnt' = buildCnt - 1
        /\ buildIdx' = Succ(k) /\ Armed' = Armed \union {k}
        /\ UNCHANGED <<dma, first, last, content, arriving, nextFrame, chain,
                       ready>>
        /\ \A d \in Descriptors : d # k => buf'[d] = buf[d]
    <2>1. cnt = 0
      BY <1>2 DEF Build, OwnershipInv, IInv, Phases
    <2>2. \A d \in Descriptors : d # k => buf'[d] = buf[d]
      BY <1>1, <1>2 DEF Build, bufVars, TypeOK
    <2>3. Armed' = Armed \union {k}
      <3>1. own' = own \union {k} /\ desc2'[k] # NoPacket
        BY <1>1, <1>2, RingAssumption
           DEF Build, bufVars, TypeOK, OwnershipInv, IInv, AddressesAgree
      <3>2. \A d \in Descriptors : d # k => desc2'[d] = desc2[d]
        BY <1>1, <1>2 DEF Build, bufVars, TypeOK
      <3>3. own \subseteq Descriptors /\ k \in Descriptors
        BY <1>2 DEF TypeOK
      <3>4. QED  BY <3>1, <3>2, <3>3 DEF Armed
    <2>4. QED  BY <1>1, <2>1, <2>2, <2>3 DEF Build, BuildGoesOn, dmaVars, readVars
  <1>4. /\ Pending' = Pending - 1 /\ Pending \in Nat /\ Pending > 0
        /\ Mark \in 0..N /\ N \in Nat /\ Pending <= Mark
    BY <1>2, <1>3, RingFacts, PlaceFacts DEF Pending, TypeOK, Arcs
  <1>5. /\ \A d \in Descriptors : d # k => Place(d)' = Place(d) - 1
        /\ Place(k)' = N - 1 /\ Place(k) = 0
        /\ \A d \in Descriptors : Place(d) \in 0..N-1
    BY <1>1, <1>2, <1>3, DistanceOfSucc, PlaceFacts DEF Place
  <1>6. Mark' = Mark - 1 /\ Place(dma)' = Mark - 1
    <2>1. PICK m \in Descriptors : m = dma
      BY <1>2 DEF TypeOK
    <2>2. Armed' # {} /\ Mark' = Place(m)' /\ Place(dma)' = Place(m)'
      BY <1>3, <2>1 DEF Mark, Place, Distance
    <2>3. CASE Armed = {}
      <3>1. Mark = N /\ Place(m) \in 0..N-1
        BY <1>5, <2>1, <2>3 DEF Mark
      <3>2. Place(m) = 0
        BY <1>2, <1>4, <2>1, <3>1 DEF Arcs
      <3>3. m = k
        BY <1>2, <1>5, <3>2, PlaceFacts
      <3>4. QED  BY <1>5, <2>2, <3>1, <3>3
    <2>4. CASE Armed # {}
      <3>1. Mark = Place(m)
        BY <2>1, <2>4 DEF Mark
      <3>2. m # k
        BY <1>4, <1>5, <3>1
      <3>3. QED  BY <1>5, <2>2, <3>1, <3>2
    <2>5. QED  BY <2>3, <2>4
  <1>7. k \notin Armed /\ k \notin Filled
    BY <1>2, <1>4, <1>5 DEF Arcs, Filled
  <1>8. Arcs'
    <2>1. Armed' = {d \in Descriptors : Place(d)' >= Mark - 1}
      <3>1. \A d \in Descriptors : d # k => (d \in Armed <=> Place(d) - 1 >= Mark - 1)
        BY <1>2, <1>4, <1>5 DEF Arcs
      <3>2. N - 1 >= Mark - 1
        BY <1>4
      <3>3. Armed \subseteq Descriptors
        BY <1>2 DEF Armed, TypeOK
      <3>4. QED  BY <1>3, <1>5, <3>1, <3>2, <3>3
    <2>2. ASSUME NEW d \in Descriptors, Place(d)' < Pending'
          PROVE  buf'[d] = NoPacket
      <3>1. d # k /\ Place(d) < Pending
        BY <1>4, <1>5, <2>2
      <3>2. QED  BY <1>2, <1>3, <3>1 DEF Arcs
    <2>3. QED  BY <1>4, <1>6, <2>1, <2>2 DEF Arcs
  <1>9. Filled' = Filled
    <2>1. Filled' = {d \in Descriptors : Pending - 1 <= Place(d)' /\ Place(d)' < Mark - 1}
      BY <1>4, <1>6 DEF Filled
    <2>2. \A d \in Descriptors :
            (Pending - 1 <= Place(d)' /\ Place(d)' < Mark - 1) <=> d \in Filled
      BY <1>4, <1>5, <1>7 DEF Filled
    <2>3. QED  BY <2>1, <2>2 DEF Filled
  <1>10. \A d \in Filled : d # k /\ d \in Descriptors /\ Place(d) \in Nat
    BY <1>5, <1>7 DEF Filled
  <1>11. Quiet
    <2>1. \A d \in Filled : /\ Frame(d)' = Frame(d)
                            /\ Foremost(d)' <=> Foremost(d)
                            /\ Hindmost(d)' <=> Hindmost(d)
      BY <1>3, <1>4, <1>5, <1>6, <1>10 DEF Frame, Foremost, Hindmost
    <2>2. \A d, e \in Filled : /\ Before(d, e)' <=> Before(d, e)
                               /\ Adjoins(d, e)' <=> Adjoins(d, e)
      BY <1>5, <1>10 DEF Before, Adjoins
    <2>3. (Pending = Mark)' <=> Pending = Mark
      BY <1>4, <1>6
    <2>4. QED  BY <1>3, <1>9, <2>1, <2>2, <2>3 DEF Quiet
  <1>12. Frames'
    BY <1>2, <1>11, QuietStep DEF TypeOK
  <1>13. \A d \in Filled : Frame(d)' = Frame(d)
    BY <1>11 DEF Quiet
  <1>14. QED  BY <1>8, <1>9, <1>12, <1>13

(* A frame that is delivered is the whole chain, and nothing else.         *)
LEMMA DeliverStep ==
  ASSUME FInv, Deliver
  PROVE  /\ Arcs' /\ Frames' /\ Filled' = Filled
         /\ \A d \in Filled : Frame(d)' = Frame(d)
  <1>1. /\ started /\ ready /\ ~ready' /\ chain' = {}
        /\ content' = [p \in Packets |-> IF p \in chain THEN 0 ELSE content[p]]
        /\ Armed' = Armed
        /\ UNCHANGED <<own, first, last, dma, arriving, nextFrame, buf, cnt,
                       buildIdx, buildCnt>>
    BY DEF Deliver, Armed, bufVars, buildVars, FInv, OwnershipInv, IInv, Phases
  <1>2. /\ Arcs /\ OwnershipInv /\ Known /\ Ordered /\ Joined /\ Chained
    BY <1>1 DEF FInv, Frames
  <1>3. /\ \A d : Place(d)' = Place(d)
        /\ Place(dma)' = Place(dma)
        /\ Mark' = Mark /\ Pending' = Pending
    BY <1>1 DEF Place, Distance, Mark, Pending
  <1>4. Arcs'
    BY <1>1, <1>2, <1>3 DEF Arcs
  <1>5. Filled' = Filled
    BY <1>3 DEF Filled
  <1>6. \A d \in Filled : Frame(d)' = Frame(d)
    <2>1. \A d \in Filled : buf[d] \in Packets /\ buf[d] \notin chain
      BY <1>1, <1>2, RingFacts, FilledFacts
    <2>2. QED  BY <1>1, <2>1 DEF Frame
  <1>7. Known'
    BY <1>1, <1>2, <1>5, <1>6 DEF Known
  <1>8. Ordered'
    BY <1>1, <1>2, <1>3, <1>5, <1>6 DEF Ordered, Before
  <1>9. Joined'
    BY <1>1, <1>2, <1>3, <1>5, <1>6 DEF Joined, Adjoins, Hindmost
  <1>10. Chained'
    BY <1>1, <1>2, <1>3, <1>5 DEF Chained, Open, Foremost
  <1>11. QED  BY <1>4, <1>5, <1>6, <1>7, <1>8, <1>9, <1>10 DEF Frames

(* A start that ends finds the DMA and the thread at the same descriptor,  *)
(* and nothing filled; so does a stop at rest.                             *)
LEMMA StartEndStep ==
  ASSUME FInv, StartEnd
  PROVE  Arcs' /\ Frames' /\ Filled' = {}
  <1>1. Stopped /\ OwnershipInv /\ TypeOK /\ ~started
    BY DEF FInv, StartEnd, OwnershipInv, IInv, Phases
  <1>2. /\ UNCHANGED <<own, first, last, content, dma, arriving, nextFrame, buf, cnt,
                       ready, buildIdx, buildCnt, chain>>
        /\ Armed' = Armed
    BY DEF StartEnd, Armed, dmaVars, bufVars, readVars, buildVars
  <1>3. Pending = buildCnt /\ Pending \in 0..N
    <2>1. cnt = 0
      BY <1>1, StartArms
    <2>2. QED  BY <1>1, <2>1 DEF Pending, TypeOK
  <1>4. Armed = {d \in Descriptors : Place(d) >= Pending}
    <2>1. Armed \subseteq Descriptors
      BY <1>1 DEF Armed, TypeOK
    <2>2. QED  BY <1>1, <1>3, <2>1, StartArms DEF Place
  <1>5. /\ dma = idx /\ idx \in Descriptors /\ N \in Nat
        /\ Place(idx) = Pending \/ Place(idx) = Pending - N
        /\ \A d \in Descriptors : Place(d) \in 0..N-1
    BY <1>1, RingFacts, PlaceFacts DEF Stopped, TypeOK
  <1>6. Mark = Pending
    <2>1. CASE Pending < N
      <3>1. Place(idx) = Pending
        BY <1>3, <1>5, <2>1
      <3>2. idx \in Armed
        BY <1>3, <1>4, <1>5, <3>1
      <3>3. QED  BY <1>5, <3>1, <3>2 DEF Mark
    <2>2. CASE Pending = N
      <3>1. Armed = {}
        BY <1>4, <1>5, <2>2
      <3>2. dma \notin Armed /\ Mark = N
        BY <3>1 DEF Mark
      <3>3. QED  BY <2>2, <3>2
    <2>3. QED  BY <1>3, <1>5, <2>1, <2>2
  <1>7. /\ \A d : Place(d)' = Place(d)
        /\ Place(dma)' = Place(dma)
        /\ Mark' = Mark /\ Pending' = Pending
    BY <1>2 DEF Place, Distance, Mark, Pending
  <1>8. Arcs'
    <2>1. ASSUME NEW d \in Descriptors, Place(d) < Pending
          PROVE  buf[d] = NoPacket
      <3>1. d \notin Armed /\ d \in own
        BY <1>1, <1>3, <1>4, <1>5, <2>1 DEF Stopped
      <3>2. QED  BY <1>1, <3>1, RingFacts DEF Armed
    <2>2. QED  BY <1>2, <1>3, <1>4, <1>5, <1>6, <1>7, <2>1 DEF Arcs
  <1>9. Filled' = {}
    BY <1>3, <1>5, <1>6, <1>7 DEF Filled
  <1>10. Known' /\ Ordered' /\ Joined' /\ Chained'
    BY <1>1, <1>2, <1>9 DEF Stopped, Known, Ordered, Joined, Chained, Open
  <1>11. QED  BY <1>8, <1>9, <1>10 DEF Frames

LEMMA StopStep ==
  ASSUME FInv, Stop, ~dirty'
  PROVE  Stopped'
  <1>1. /\ started /\ own = Descriptors /\ chain = {} /\ arriving = 0
        /\ UNCHANGED <<own, dma, idx, chain, ready, arriving>>
    BY DEF Stop, AtRest, DmaRuns, dmaVars, readVars
  <1>2. OwnershipInv /\ TypeOK /\ Arcs /\ ~ready
    BY <1>1 DEF FInv, Frames, Chained, OwnershipInv, IInv
  <1>3. idx = buildIdx /\ idx \in Descriptors /\ dma \in Descriptors
    BY <1>2, StopAtRest DEF OwnershipInv, IInv, TypeOK
  <1>4. Place(idx) = 0 /\ Mark \in 0..N
    BY <1>2, <1>3, PlaceFacts
  <1>5. Mark = 0 /\ Mark = Place(dma)
    <2>1. Pending = 0
      <3>1. buildCnt = 0
        BY <1>2, Zenon DEF Stop, AtRest
      <3>2. rd = "idle"
        BY DEF Stop
      <3>3. cnt = 0
        BY <1>2, <3>2 DEF OwnershipInv, IInv, Phases
      <3>4. QED  BY <3>1, <3>3 DEF Pending
    <2>2. idx \in Armed
      BY <1>1, <1>2, <1>3, <1>4, <2>1, RingFacts DEF Armed
    <2>3. QED  BY <1>2, <1>3, <1>4, <2>2 DEF Arcs, Mark
  <1>6. dma = idx
    BY <1>2, <1>3, <1>4, <1>5, PlaceFacts
  <1>7. QED  BY <1>1, <1>2, <1>6 DEF Stopped
-----------------------------------------------------------------------------
(* What a step of the driver started may do, other than fill, scan, build  *)
(* and deliver: it moves no end of an arc.                                 *)
Still ==
  /\ UNCHANGED <<own, desc2, dma, buildIdx, buf, first, last, content, chain,
                 ready, arriving>>
  /\ Pending' = Pending
  /\ nextFrame' = nextFrame \/ nextFrame' = nextFrame + 1
  /\ arriving # 0 => nextFrame' = nextFrame

LEMMA StillActions ==
  ASSUME FInv,
         DmaHalts \/ DmaLoses \/ ReadBegin \/ ScanEnd \/ ReadEnd \/ Release
           \/ Allocate \/ UNCHANGED vars
  PROVE  Still /\ started' = started
  <1> USE DEF Still, Pending, dmaVars, bufVars, driverVars, readVars, buildVars
  <1>1. CASE ScanEnd
    <2>1. buildCnt \in Nat /\ cnt \in Nat
      BY DEF FInv, OwnershipInv, IInv, TypeOK
    <2>2. buildCnt' + cnt' = buildCnt + cnt
      BY <1>1, <2>1 DEF ScanEnd
    <2>3. QED  BY <1>1, <2>2 DEF ScanEnd
  <1>2. CASE DmaHalts \/ DmaLoses
    BY <1>2 DEF DmaHalts, DmaLoses
  <1>3. CASE ReadBegin \/ ReadEnd
    BY <1>3 DEF ReadBegin, ReadEnd
  <1>4. CASE Release \/ Allocate
    BY <1>4 DEF Release, Allocate
  <1>5. CASE UNCHANGED vars
    BY <1>5 DEF vars
  <1>6. QED  BY <1>1, <1>2, <1>3, <1>4, <1>5

(* The loop of HAL_ETH_ReadData ends without a frame only when nothing is  *)
(* filled.                                                                 *)
LEMMA ScanEndsEmpty ==
  ASSUME FInv, ScanEnd, ~ready
  PROVE  Filled = {}
  <1>1. Arcs /\ OwnershipInv /\ TypeOK
    BY DEF FInv, OwnershipInv, IInv, Phases, ScanEnd
  <1>2. /\ \A d \in Descriptors : Place(d) \in 0..N-1
        /\ Mark \in 0..N /\ Pending \in Nat /\ N \in Nat /\ idx \in Descriptors
    BY <1>1, RingFacts, PlaceFacts DEF TypeOK
  <1>3. CASE idx \in Armed
    <2>1. Place(idx) >= Mark
      BY <1>1, <1>3 DEF Arcs
    <2>2. Place(idx) \in 0..N-1 /\ (Place(idx) = Pending \/ Place(idx) = Pending - N)
      BY <1>1, <1>2, RingFacts
    <2>3. Pending <= Mark
      BY <1>1 DEF Arcs
    <2>4. Mark <= Pending
      BY <1>2, <2>1, <2>2, <2>3
    <2>5. QED  BY <1>2, <2>4 DEF Filled
  <1>4. CASE ~(cnt < N - buildCnt)
    <2>1. Pending >= N
      BY <1>1, <1>2, <1>4 DEF Pending, TypeOK
    <2>2. QED  BY <1>2, <2>1 DEF Filled
  <1>5. CASE idx \in own /\ idx \notin Armed
    <2>1. buf[idx] \notin Packets
      BY <1>1, <1>2, <1>5, RingFacts DEF Armed
    <2>2. started
      BY DEF ScanEnd, FInv, OwnershipInv, IInv, Phases
    <2>3. Place(idx) < Pending
      BY <1>1, <1>2, <2>1, <2>2, RingFacts
    <2>4. Pending >= N
      BY <1>1, <1>2, <2>3, RingFacts
    <2>5. QED  BY <1>2, <2>4 DEF Filled
  <1>6. QED  BY <1>3, <1>4, <1>5 DEF ScanEnd, ScanGoesOn

LEMMA NoneMissedStep ==
  ASSUME FInv, [Next]_vars, started
  PROVE  NoneMissed'
  <1>1. NoneMissed
    BY DEF FInv
  <1>2. CASE \E isLast \in BOOLEAN : DmaFills(isLast)
    <2>1. PICK isLast \in BOOLEAN : DmaFills(isLast)
      BY <1>2
    <2>2. PICK k \in Descriptors : k = dma
      BY DEF FInv, OwnershipInv, IInv, TypeOK
    <2>3. /\ event' = (event \/ isLast)
          /\ last' = (IF isLast THEN last \union {k} ELSE last \ {k})
          /\ rd' = rd /\ ready' = ready /\ Filled' = Filled \union {k}
      BY <2>1, <2>2, DmaFillsArcs DEF DmaFills, readVars
    <2>4. QED  BY <1>1, <2>3 DEF NoneMissed
  <1>3. CASE ScanEnd
    <2>1. ready' = ready /\ Filled' = Filled
      BY <1>3, StillActions, StillStep DEF Still, ScanEnd
    <2>2. QED  BY <1>3, <2>1, ScanEndsEmpty DEF NoneMissed
  <1>4. CASE Build
    BY <1>1, <1>4, BuildStep DEF NoneMissed, Build, dmaVars, readVars
  <1>5. CASE ReadBegin \/ ReadEnd \/ Scan \/ Deliver \/ StartBegin \/ StartEnd \/ Stop
    BY <1>5 DEF NoneMissed, ReadBegin, ReadEnd, Scan, Deliver, StartBegin,
                StartEnd, Stop
  <1>6. CASE DmaHalts \/ DmaLoses \/ Release \/ Allocate \/ UNCHANGED vars
    <2>1. Filled' = Filled /\ last' = last /\ ready' = ready
      BY <1>6, StillActions, StillStep DEF Still
    <2>2. rd' = rd /\ event' = event
      BY <1>6 DEF DmaHalts, DmaLoses, Release, Allocate, vars
    <2>3. QED  BY <1>1, <2>1, <2>2 DEF NoneMissed
  <1>7. QED  BY <1>2, <1>3, <1>4, <1>5, <1>6 DEF Next, Read

(* Every step keeps the sequence of frames. *)
LEMMA FInvStep ==
  ASSUME FInv, [Next]_vars, ~dirty'
  PROVE  FInv'
  <1>1. OwnershipInv'
    BY OwnershipInvariance DEF FInv
  <1>2. CASE started
    <2>1. CASE Stop
      BY <1>1, <2>1, StopStep DEF FInv, Stop
    <2>2. CASE ~Stop
      <3>1. Arcs' /\ Frames'
        <4>1. CASE \E isLast \in BOOLEAN : DmaFills(isLast)
          BY <4>1, DmaFillsArcs, DmaFillsStep
        <4>2. CASE Scan
          BY <4>2, ScanStep
        <4>3. CASE Build
          BY <1>2, <4>3, BuildStep
        <4>4. CASE Deliver
          BY <4>4, DeliverStep
        <4>5. CASE StartEnd
          BY <4>5, StartEndStep
        <4>6. CASE DmaHalts \/ DmaLoses \/ ReadBegin \/ ScanEnd \/ ReadEnd \/ Release
                     \/ Allocate \/ UNCHANGED vars
          BY <1>2, <4>6, StillActions, StillStep DEF Still
        <4>7. ~StartBegin
          BY <1>2 DEF StartBegin
        <4>8. QED
          BY <2>2, <4>1, <4>2, <4>3, <4>4, <4>5, <4>6, <4>7 DEF Next, Read
      <3>2. started' = started
        BY <1>2, <2>2 DEF Next, Read, DmaFills, DmaHalts, DmaRuns, DmaLoses, ReadBegin, Scan, ScanEnd,
           Build, Deliver, ReadEnd, StartBegin, StartEnd, Release, Allocate, driverVars, vars
      <3>3. QED  BY <1>1, <1>2, <3>1, <3>2, NoneMissedStep DEF FInv
    <2>3. QED  BY <2>1, <2>2
  <1>3. CASE ~started
    <2>1. Stopped /\ OwnershipInv
      BY <1>3 DEF FInv
    <2>2. CASE StartEnd
      <3>1. NoneMissed' /\ started'
        BY <2>2 DEF NoneMissed, StartEnd
      <3>2. QED  BY <1>1, <2>2, <3>1, StartEndStep DEF FInv
    <2>3. CASE ~StartEnd
      <3>1. /\ ~started' /\ own' = Descriptors
            /\ UNCHANGED <<dma, idx, chain, ready, arriving>>
        <4>1. rd \notin {"scan", "build"} \/ rd = "start"
          BY <1>3, <2>1 DEF OwnershipInv, IInv, Phases
        <4>2. CASE Build
          <5>1. buildIdx \in Descriptors /\ own = Descriptors
            BY <2>1 DEF OwnershipInv, IInv, TypeOK, Stopped
          <5>2. QED  BY <1>3, <4>2, <5>1 DEF Build, dmaVars, driverVars, readVars
        <4>3. CASE ReadBegin \/ StartBegin \/ Release \/ Allocate \/ UNCHANGED vars
          BY <1>3, <2>1, <4>3 DEF Stopped, ReadBegin, StartBegin, Release, Allocate,
             vars, dmaVars, driverVars, readVars
        <4>4. \/ Build \/ ReadBegin \/ StartBegin \/ Release \/ Allocate
              \/ UNCHANGED vars
          BY <1>3, <2>3, <4>1 DEF Next, Read, DmaFills, DmaHalts, DmaRuns, DmaLoses, Scan, ScanEnd,
             Deliver, ReadEnd, Stop
        <4>5. QED  BY <4>2, <4>3, <4>4
      <3>2. QED  BY <1>1, <2>1, <3>1 DEF FInv, Stopped
    <2>4. QED  BY <2>2, <2>3
  <1>4. QED  BY <1>2, <1>3

LEMMA InitFInv == Init => FInv
  BY InitOwnershipInv DEF Init, FInv, Stopped
-----------------------------------------------------------------------------
(* The descriptors with the end of a frame that the thread has not read.   *)
Ended == {d \in last \ own : buf[d] # NoPacket}

(* The frames of the wire that have ended. *)
Seen == IF arriving = 0 THEN nextFrame - 1 ELSE nextFrame - 2

LEMMA EndedFacts ==
  ASSUME FInv
  PROVE  /\ started => Ended = Filled \intersect last
         /\ ~started => Ended = {} /\ chain = {}
         /\ IsFiniteSet(Ended) /\ Cardinality(Ended) \in Nat
  <1>1. last \subseteq Descriptors
    BY DEF FInv, OwnershipInv, IInv, TypeOK
  <1>2. started => Ended = Filled \intersect last
    BY <1>1, FilledFacts DEF Ended
  <1>3. ~started => Ended = {} /\ chain = {}
    BY <1>1 DEF FInv, Stopped, Ended
  <1>4. IsFiniteSet(Descriptors) /\ Ended \subseteq Descriptors
    <2>1. IsFiniteSet(0..N-1)
      BY FS_Interval, RingAssumption
    <2>2. QED  BY <1>1, <2>1 DEF Descriptors, Ended
  <1>5. IsFiniteSet(Ended) /\ Cardinality(Ended) \in Nat
    BY <1>4, FS_Subset, FS_CardinalityType
  <1>6. QED  BY <1>2, <1>3, <1>5

LEMMA WaitingIs ==
  Waiting = {Frame(d) : d \in Ended} \union {content[p] : p \in {q \in chain : ready}}
  BY DEF Waiting, Ended, Frame

(* The frames that wait are fewer than the queue can hold, while there is  *)
(* a descriptor that is not filled: each has its last descriptor, but for  *)
(* the one that is chained.                                                *)
LEMMA WaitingIsBounded ==
  ASSUME FInv, started, NEW k \in Descriptors, k \notin Filled
  PROVE  Cardinality(Waiting) < N + 1
  <1> DEFINE InDescriptors == {Frame(d) : d \in Ended}
             InChain == {content[p] : p \in {q \in chain : ready}}
             Others == Descriptors \ {k}
  <1>1. IsFiniteSet(Others) /\ Cardinality(Others) = N - 1
    <2>1. N \in Nat /\ N >= 2
      BY RingAssumption
    <2>2. IsFiniteSet(0..N-1) /\ Cardinality(0..N-1) = N
      BY <2>1, FS_Interval
    <2>3. IsFiniteSet(Descriptors) /\ Cardinality(Descriptors) = N
      BY <2>2 DEF Descriptors
    <2>4. QED  BY <2>3, FS_RemoveElement
  <1>2. Ended \subseteq Others
    BY EndedFacts DEF Filled
  <1>3. /\ IsFiniteSet(Ended) /\ Cardinality(Ended) \in Nat
        /\ Cardinality(Ended) <= N - 1
    BY <1>1, <1>2, EndedFacts, FS_Subset
  <1>4. /\ IsFiniteSet(InDescriptors)
        /\ Cardinality(InDescriptors) <= Cardinality(Ended)
    <2> DEFINE image == [d \in Ended |-> Frame(d)]
    <2>1. image \in Surjection(Ended, InDescriptors)
      BY DEF Surjection
    <2>2. QED  BY <1>3, <2>1, FS_Surjection
  <1>5. IsFiniteSet(InChain) /\ Cardinality(InChain) <= 1
    <2>1. \A p, q \in chain : content[p] = content[q]
      BY DEF FInv, Frames, Chained
    <2>2. CASE InChain = {}
      BY <2>2, FS_EmptySet
    <2>3. CASE InChain # {}
      <3>1. PICK x \in InChain : TRUE
        BY <2>3
      <3>2. InChain = {x}
        BY <2>1, <3>1
      <3>3. IsFiniteSet({x}) /\ Cardinality({x}) = 1
        BY FS_Singleton
      <3> HIDE DEF InChain
      <3>4. QED  BY <3>2, <3>3
    <2>4. QED  BY <2>2, <2>3
  <1> HIDE DEF InDescriptors, InChain, Others
  <1>6. /\ Cardinality(InDescriptors \union InChain)
             = Cardinality(InDescriptors) + Cardinality(InChain)
                 - Cardinality(InDescriptors \intersect InChain)
        /\ IsFiniteSet(InDescriptors \intersect InChain)
    BY <1>4, <1>5, FS_Union, FS_Intersection
  <1>7. /\ Cardinality(InDescriptors) \in Nat /\ Cardinality(InChain) \in Nat
        /\ Cardinality(InDescriptors \intersect InChain) \in Nat
    BY <1>4, <1>5, <1>6, FS_CardinalityType
  <1>8. N \in Nat
    BY RingAssumption
  <1>9. Cardinality(InDescriptors \union InChain) < N + 1
    BY <1>3, <1>4, <1>5, <1>6, <1>7, <1>8
  <1>10. QED  BY <1>9, WaitingIs DEF InDescriptors, InChain

(* What a step of the DMA adds. *)
LEMMA DmaFillsEffect ==
  ASSUME FInv, NEW isLast \in BOOLEAN, DmaFills(isLast)
  PROVE  /\ isLast =>
              /\ Seen < MaxFrames /\ Seen' = Seen + 1
              /\ Waiting' = Waiting \union {Seen'}
              /\ Cardinality(Waiting) < N + 1
              /\ Cardinality(Ended') = Cardinality(Ended) + 1
         /\ ~isLast => Seen' = Seen /\ Waiting' = Waiting /\ Ended' = Ended
  <1> DEFINE frame == IF arriving = 0 THEN nextFrame ELSE arriving
  <1>1. PICK k \in Descriptors : k = dma
    BY DEF FInv, OwnershipInv, IInv, TypeOK
  <1>2. /\ started /\ content' = [content EXCEPT ![desc2[k]] = frame]
        /\ arriving = 0 => nextFrame <= MaxFrames
        /\ arriving' = (IF isLast THEN 0 ELSE frame)
        /\ nextFrame' = (IF arriving = 0 THEN nextFrame + 1 ELSE nextFrame)
        /\ last' = (IF isLast THEN last \union {k} ELSE last \ {k})
        /\ own' = own \ {k}
        /\ UNCHANGED <<buf, chain, ready>>
    BY <1>1 DEF DmaFills, DmaRuns, bufVars, readVars
  <1>3. Arcs /\ OwnershipInv /\ TypeOK /\ Known
    BY <1>2 DEF FInv, OwnershipInv, IInv, Frames
  <1>4. k \notin Filled /\ Pending <= Mark /\ Place(k) = Mark
    BY <1>1, <1>3, DmaFillsArcs DEF Arcs
  <1>5. buf[k] \in Packets /\ desc2[k] = buf[k]
    <2>1. Place(k) >= Pending
      BY <1>3, <1>4, RingFacts, PlaceFacts
    <2>2. buf[k] \in Packets
      BY <1>2, <1>3, <2>1, RingFacts
    <2>3. QED  BY <1>3, <2>2, RingFacts
  <1>6. Ended = Filled \intersect last /\ k \notin Ended
    BY <1>2, <1>4, EndedFacts
  <1>7. Ended' = IF isLast THEN Ended \union {k} ELSE Ended
    <2>1. buf[k] # NoPacket
      BY <1>3, <1>5, RingFacts
    <2>2. \A d \in last \ {k} : d \in own' <=> d \in own
      BY <1>2
    <2>3. k \notin own'
      BY <1>2
    <2>4. QED  BY <1>2, <1>6, <2>1, <2>2, <2>3 DEF Ended
  <1>8. /\ \A d \in Ended : Frame(d)' = Frame(d)
        /\ Frame(k)' = frame
        /\ \A p \in chain : content'[p] = content[p]
    <2>1. content \in [Packets -> 0..MaxFrames] /\ chain \subseteq Packets
      BY <1>3 DEF TypeOK
    <2>2. buf[k] \notin chain
      BY <1>3, <1>5, RingFacts
    <2>3. \A d \in Ended : buf[d] \in Packets /\ buf[d] # buf[k]
      BY <1>2, <1>3, <1>4, <1>5, <1>6, RingFacts, FilledFacts
    <2>4. QED  BY <1>2, <1>5, <2>1, <2>2, <2>3 DEF Frame
  <1>9. Waiting' = {Frame(d)' : d \in Ended'} \union {content'[p] : p \in {q \in chain' : ready'}}
    BY DEF Waiting, Ended, Frame
  <1>10. /\ Seen = frame - 1 /\ frame \in Nat /\ frame >= 1 /\ frame <= MaxFrames
         /\ Seen' = (IF isLast THEN frame ELSE frame - 1)
    <2>1. /\ nextFrame \in Nat /\ nextFrame >= 1 /\ arriving \in Nat
          /\ arriving <= MaxFrames /\ MaxFrames \in Nat
      BY <1>3, RingAssumption DEF TypeOK
    <2>2. CASE arriving = 0
      <3>1. frame = nextFrame /\ nextFrame' = nextFrame + 1
        BY <1>2, <2>2
      <3>2. arriving' = 0 <=> isLast
        BY <1>2, <2>1, <3>1
      <3>3. QED  BY <1>2, <2>1, <2>2, <3>1, <3>2 DEF Seen
    <2>3. CASE arriving # 0
      <3>1. frame = arriving /\ nextFrame' = nextFrame /\ arriving = nextFrame - 1
        BY <1>2, <1>3, <2>3 DEF Known
      <3>2. arriving' = 0 <=> isLast
        BY <1>2, <2>1, <2>3, <3>1
      <3>3. QED  BY <1>2, <2>1, <2>3, <3>1, <3>2 DEF Seen
    <2>4. QED  BY <2>2, <2>3
  <1> HIDE DEF frame
  <1>11. CASE isLast
    <2>1. Seen < MaxFrames /\ Seen' = Seen + 1 /\ Seen' = frame
      BY <1>10, <1>11, RingAssumption
    <2>2. Waiting' = Waiting \union {frame}
      BY <1>2, <1>7, <1>8, <1>9, <1>11, WaitingIs
    <2>3. Cardinality(Ended') = Cardinality(Ended) + 1
      BY <1>6, <1>7, <1>11, EndedFacts, FS_AddElement
    <2>4. QED  BY <1>2, <1>4, <1>11, <2>1, <2>2, <2>3, WaitingIsBounded
  <1>12. CASE ~isLast
    <2>1. Waiting' = Waiting
      BY <1>2, <1>7, <1>8, <1>9, <1>12, WaitingIs
    <2>2. QED  BY <1>7, <1>10, <1>12, <2>1
  <1>13. QED  BY <1>11, <1>12

(* A descriptor that is read takes the end of a frame from the ring into   *)
(* the chain, if it has one.                                               *)
LEMMA ScanEffect ==
  ASSUME FInv, Scan
  PROVE  /\ Waiting' = Waiting /\ Seen' = Seen
         /\ idx \in last => Cardinality(Ended) > 0
                            /\ Cardinality(Ended') = Cardinality(Ended) - 1
         /\ idx \notin last => Ended' = Ended
  <1>1. PICK k \in Descriptors : k = idx
    BY DEF FInv, OwnershipInv, IInv, TypeOK
  <1>2. /\ started /\ k \in Filled /\ ~ready
        /\ chain' = chain \union {buf[k]}
        /\ buf' = [buf EXCEPT ![k] = NoPacket]
        /\ ready' = (k \in last)
        /\ \A p \in chain : content[p] = Frame(k)
        /\ UNCHANGED <<own, last, content, arriving, nextFrame>>
    BY <1>1, ScanTakes DEF Scan, dmaVars
  <1>3. Ended = Filled \intersect last
    BY <1>2, EndedFacts
  <1>4. \A d \in Ended : d \in Descriptors /\ d \in last /\ d \notin own
    BY <1>3 DEF Filled, Ended
  <1>5. \A d \in Descriptors : buf'[d] = (IF d = k THEN NoPacket ELSE buf[d])
    BY <1>2 DEF FInv, OwnershipInv, IInv, TypeOK
  <1>6. Ended' = Ended \ {k}
    BY <1>2, <1>4, <1>5 DEF Ended, FInv, OwnershipInv, IInv, TypeOK
  <1>7. \A d \in Ended' : Frame(d)' = Frame(d)
    BY <1>2, <1>4, <1>5, <1>6 DEF Frame
  <1>8. Waiting' = {Frame(d)' : d \in Ended'}
                     \union {content'[p] : p \in {q \in chain' : ready'}}
    BY DEF Waiting, Ended, Frame
  <1>9. \A p \in chain' : content'[p] = Frame(k)
    BY <1>2 DEF Frame
  <1>10. CASE k \in last
    <2>1. k \in Ended /\ {content'[p] : p \in {q \in chain' : ready'}} = {Frame(k)}
      BY <1>2, <1>3, <1>9, <1>10
    <2>2. Waiting' = Waiting
      BY <1>2, <1>6, <1>7, <1>8, <2>1, WaitingIs
    <2>3. /\ IsFiniteSet(Ended) /\ Cardinality(Ended) \in Nat
          /\ Cardinality(Ended) # 0
          /\ Cardinality(Ended') = Cardinality(Ended) - 1
      BY <1>6, <2>1, EndedFacts, FS_RemoveElement, FS_EmptySet
    <2>4. QED  BY <1>1, <1>2, <1>10, <2>2, <2>3 DEF Seen
  <1>11. CASE k \notin last
    <2>1. Ended' = Ended
      BY <1>3, <1>6, <1>11
    <2>2. Waiting' = Waiting
      BY <1>2, <1>7, <1>8, <1>11, <2>1, WaitingIs
    <2>3. QED  BY <1>1, <1>2, <1>11, <2>1, <2>2 DEF Seen
  <1>12. QED  BY <1>10, <1>11

LEMMA BuildTakesUnfilled ==
  ASSUME FInv, Build, started
  PROVE  buildIdx \notin Filled
  <1>1. OwnershipInv /\ buildCnt > 0 /\ cnt = 0 /\ TypeOK
    BY DEF FInv, OwnershipInv, IInv, Phases, Build, BuildGoesOn
  <1>2. Place(buildIdx) = 0 /\ Pending > 0
    BY <1>1, PlaceFacts DEF Pending, TypeOK
  <1>3. QED  BY <1>1, <1>2, RingFacts DEF Filled

(* What is built was without a buffer, or the driver is stopped.           *)
LEMMA BuildEffect ==
  ASSUME FInv, Build
  PROVE  Waiting' = Waiting /\ Seen' = Seen /\ Ended' = Ended
  <1>1. PICK k \in Descriptors : k = buildIdx
    BY DEF FInv, OwnershipInv, IInv, TypeOK
  <1>2. /\ own' = own \union {k}
        /\ \A d \in Descriptors : d # k => buf'[d] = buf[d]
        /\ UNCHANGED <<last, content, arriving, nextFrame, chain, ready>>
    <2>1. \A d \in Descriptors : d # k => buf'[d] = buf[d]
      BY <1>1 DEF Build, bufVars, FInv, OwnershipInv, IInv, TypeOK
    <2>2. QED  BY <1>1, <2>1 DEF Build, dmaVars, readVars
  <1>3. last \subseteq Descriptors
    BY DEF FInv, OwnershipInv, IInv, TypeOK
  <1>4. k \notin Ended
    <2>1. CASE started
      BY <1>1, <2>1, BuildTakesUnfilled, EndedFacts
    <2>2. CASE ~started
      BY <2>2, EndedFacts
    <2>3. QED  BY <2>1, <2>2
  <1>5. Ended' = Ended
    BY <1>2, <1>3, <1>4 DEF Ended
  <1>6. \A d \in Ended : buf'[d] = buf[d]
    BY <1>2, <1>3, <1>4 DEF Ended
  <1>7. Waiting' = {content'[buf'[d]] : d \in Ended'}
                     \union {content'[p] : p \in {q \in chain' : ready'}}
    BY DEF Waiting, Ended
  <1>8. QED  BY <1>2, <1>5, <1>6, <1>7, WaitingIs DEF Frame, Seen

(* The frame that is delivered is the one that has waited longest. *)
LEMMA DeliverEffect ==
  ASSUME FInv, Deliver
  PROVE  /\ Ended' = Ended /\ Seen' = Seen
         /\ \E f \in Waiting : /\ \A g \in Waiting : f <= g
                               /\ delivered' = {f}
                               /\ Waiting' = Waiting \ {f}
  <1>1. /\ started /\ ready /\ ~ready' /\ chain' = {}
        /\ delivered' = {content[p] : p \in chain}
        /\ UNCHANGED <<own, last, buf, arriving, nextFrame>>
    BY DEF Deliver, bufVars, FInv, OwnershipInv, IInv, Phases
  <1>2. Ended = Filled \intersect last /\ Ended' = Ended
    BY <1>1, EndedFacts DEF Ended
  <1>3. /\ chain # {}
        /\ \A p, q \in chain : content[p] = content[q]
        /\ \A p \in chain : \A d \in Filled : content[p] < Frame(d)
        /\ \A p \in chain : content[p] \in Nat
        /\ \A d \in Filled : Frame(d) \in Nat
    <2>1. Chained /\ TypeOK
      BY <1>1 DEF FInv, Frames, OwnershipInv, IInv
    <2>2. QED  BY <1>1, <2>1, FilledFacts DEF Chained, TypeOK
  <1>4. PICK p \in chain : TRUE
    BY <1>3
  <1>5. {content[q] : q \in chain} = {content[p]}
    BY <1>3, <1>4
  <1>6. \A d \in Ended : Frame(d)' = Frame(d)
    BY <1>2, DeliverStep
  <1>7. Waiting' = {Frame(d)' : d \in Ended'}
                     \union {content'[q] : q \in {r \in chain' : ready'}}
    BY DEF Waiting, Ended, Frame
  <1>8. Waiting' = {Frame(d) : d \in Ended}
    BY <1>1, <1>2, <1>6, <1>7
  <1>9. Waiting = {Frame(d) : d \in Ended} \union {content[p]}
    BY <1>1, <1>5, WaitingIs
  <1>10. \A d \in Ended : content[p] <= Frame(d) /\ content[p] # Frame(d)
    BY <1>2, <1>3, <1>4
  <1>11. content[p] <= content[p]
    BY <1>3, <1>4
  <1>12. /\ content[p] \in Waiting /\ \A g \in Waiting : content[p] <= g
         /\ delivered' = {content[p]} /\ Waiting' = Waiting \ {content[p]}
    BY <1>1, <1>5, <1>8, <1>9, <1>10, <1>11
  <1>13. QED  BY <1>1, <1>2, <1>12 DEF Seen

(* No other step changes what waits. *)
LEMMA OtherEffect ==
  ASSUME Next \/ UNCHANGED vars,
         ~\E isLast \in BOOLEAN : DmaFills(isLast), ~Scan, ~Build, ~Deliver
  PROVE  /\ Waiting' = Waiting /\ Ended' = Ended /\ delivered' = delivered
         /\ ~DmaLoses => Seen' = Seen
  <1>1. /\ UNCHANGED <<own, last, buf, content, chain, ready, delivered>>
        /\ ~DmaLoses => UNCHANGED <<arriving, nextFrame>>
    BY DEF Next, Read, DmaHalts, DmaLoses, ReadBegin, ScanEnd, ReadEnd, StartBegin,
       StartEnd, Stop, Release, Allocate, vars, dmaVars, bufVars, readVars
  <1>2. QED  BY <1>1 DEF Waiting, Ended, Seen
-----------------------------------------------------------------------------
CleanInv == dirty \in BOOLEAN /\ (~dirty => FInv)

LEMMA CleanInvariance == SafeSpec => []CleanInv
  <1>1. Init => CleanInv
    BY InitFInv DEF Init, CleanInv
  <1>2. CleanInv /\ DmaInv' /\ [Next]_vars => CleanInv'
    BY FInvStep, DirtyStays DEF CleanInv, DmaInv, TypeOK
  <1> HIDE DEF CleanInv
  <1>3. SafeSpec => []DmaInv
    BY Invariance, PTL
  <1>4. QED  BY <1>1, <1>2, <1>3, PTL DEF SafeSpec

(* Every step of the ring is a step of the queue, or none. *)
LEMMA QueueStep ==
  ASSUME FInv, [Next]_vars
  PROVE  [Queue!Next]_(Queue!vars)
  <1> USE DEF Queue!Next, Queue!vars
  <1>1. CASE \E isLast \in BOOLEAN : DmaFills(isLast)
    <2>1. PICK isLast \in BOOLEAN : DmaFills(isLast)
      BY <1>1
    <2>2. delivered' = delivered
      BY <2>1 DEF DmaFills
    <2>3. CASE isLast
      <3>1. Queue!Cardinality(Waiting) = Cardinality(Waiting)
        BY DEF Queue!Cardinality, Cardinality
      <3>2. /\ Seen < MaxFrames /\ Seen' = Seen + 1
            /\ Waiting' = Waiting \union {Seen'}
            /\ Cardinality(Waiting) < N + 1
        BY <2>1, <2>3, DmaFillsEffect
      <3>3. QED  BY <2>2, <3>1, <3>2 DEF Queue!Accept, Seen
    <2>4. CASE ~isLast
      BY <2>1, <2>2, <2>4, DmaFillsEffect DEF Seen
    <2>5. QED  BY <2>3, <2>4
  <1>2. CASE DmaLoses
    <2>1. Waiting' = Waiting /\ delivered' = delivered
      BY <1>2 DEF DmaLoses, Waiting, bufVars, readVars
    <2>2. Seen < MaxFrames /\ Seen' = Seen + 1
      BY <1>2, RingAssumption
         DEF DmaLoses, Seen, FInv, OwnershipInv, IInv, TypeOK
    <2>3. QED  BY <2>1, <2>2 DEF Queue!Lose, Seen
  <1>3. CASE Scan
    <2>1. delivered' = delivered
      BY <1>3 DEF Scan
    <2>2. QED  BY <1>3, <2>1, ScanEffect DEF Seen
  <1>4. CASE Build
    <2>1. delivered' = delivered
      BY <1>4 DEF Build
    <2>2. QED  BY <1>4, <2>1, BuildEffect DEF Seen
  <1>5. CASE Deliver
    BY <1>5, DeliverEffect DEF Queue!Deliver, Seen
  <1>6. CASE /\ ~\E isLast \in BOOLEAN : DmaFills(isLast)
             /\ ~DmaLoses /\ ~Scan /\ ~Build /\ ~Deliver
    BY <1>6, OtherEffect DEF Seen
  <1>7. QED  BY <1>1, <1>2, <1>3, <1>4, <1>5, <1>6

(* The ring is a queue of frames until a ring that is not at rest is       *)
(* stopped: of those the wire brings, each is accepted or lost, and those  *)
(* accepted are delivered whole, once each, in the order of the wire; more *)
(* than N + 1 never wait.  However long a frame is, whatever else arrives  *)
(* while the thread reads and builds, and when the pool is empty.          *)
THEOREM FramesInOrder == SafeSpec => DeliversInOrder
  <1>1. Init => Queue!Init
    BY DEF Init, Queue!Init, Waiting
  <1>2. CleanInv /\ [Next]_vars =>
          [~dirty' => Queue!Next]_(Queue!vars)
    BY QueueStep, DirtyStays DEF CleanInv
  <1> HIDE DEF CleanInv
  <1>3. QED
    BY CleanInvariance, <1>1, <1>2, PTL DEF SafeSpec, DeliversInOrder
-----------------------------------------------------------------------------
(* Every step of the ring is a step of the work that DeferredWork allows.  *)
LEMMA WorkStep ==
  ASSUME FInv, [Next]_vars, ~halted'
  PROVE  [Work!Next]_(Work!vars)
  <1> USE DEF Work!Next, Work!vars
  <1>1. CASE \E isLast \in BOOLEAN : DmaFills(isLast)
    <2>1. PICK isLast \in BOOLEAN : DmaFills(isLast)
      BY <1>1
    <2>2. event' = (event \/ isLast) /\ rd' = rd
      BY <2>1 DEF DmaFills
    <2>3. CASE isLast
      BY <2>1, <2>2, <2>3, DmaFillsEffect DEF Work!Complete, Ended
    <2>4. CASE ~isLast
      BY <2>1, <2>2, <2>4, DmaFillsEffect DEF Ended, FInv, OwnershipInv, IInv, TypeOK
    <2>5. QED  BY <2>3, <2>4
  <1>2. CASE Scan
    <2>1. event' = event /\ rd' = rd /\ rd = "scan"
      BY <1>2 DEF Scan
    <2>2. CASE idx \in last
      BY <1>2, <2>1, <2>2, ScanEffect DEF Work!Take, Ended
    <2>3. CASE idx \notin last
      BY <1>2, <2>1, <2>3, ScanEffect DEF Ended
    <2>4. QED  BY <2>2, <2>3
  <1>3. CASE Build
    <2>1. event' = event /\ rd' = rd
      BY <1>3 DEF Build
    <2>2. QED  BY <1>3, <2>1, BuildEffect DEF Ended
  <1>4. CASE Deliver
    <2>1. event' = event /\ rd = "build" /\ rd' = "scan"
      BY <1>4 DEF Deliver
    <2>2. QED  BY <1>4, <2>1, DeliverEffect DEF Ended
  <1>5. CASE ReadBegin
    <2>1. Ended' = Ended
      BY <1>5, OtherEffect DEF ReadBegin, DmaFills, Scan, Build, Deliver
    <2>2. event /\ ~event' /\ rd = "idle" /\ ~halted
      BY <1>5 DEF ReadBegin, driverVars
    <2>3. CASE started
      BY <1>5, <2>1, <2>2, <2>3 DEF ReadBegin, DmaRuns, Work!Begin, Ended
    <2>4. CASE ~started
      <3>1. Cardinality(Ended) = 0
        BY <2>4, EndedFacts, FS_EmptySet
      <3>2. rd' = rd
        BY <1>5, <2>2, <2>4 DEF ReadBegin, DmaRuns
      <3>3. Work!Discard
        BY <2>1, <2>2, <3>1, <3>2 DEF Work!Discard, Ended
      <3>4. QED  BY <3>3
    <2>5. QED  BY <2>3, <2>4
  <1>6. CASE ReadEnd
    <2>1. Ended' = Ended
      BY <1>6, OtherEffect DEF ReadEnd, DmaFills, Scan, Build, Deliver
    <2>2. event' = event /\ rd = "build" /\ rd' = "idle" /\ ~ready /\ started
      BY <1>6 DEF ReadEnd, FInv, OwnershipInv, IInv, Phases
    <2>3. Cardinality(Ended) = 0 \/ event
      BY <2>2, EndedFacts, FS_EmptySet DEF FInv, NoneMissed
    <2>4. QED  BY <2>1, <2>2, <2>3 DEF Work!End, Ended
  <1>7. CASE /\ ~\E isLast \in BOOLEAN : DmaFills(isLast)
             /\ ~Scan /\ ~Build /\ ~Deliver /\ ~ReadBegin /\ ~ReadEnd
    <2>1. Ended' = Ended
      BY <1>7, OtherEffect
    <2>2. event' = event /\ (rd' \in {"scan", "build"} <=> rd \in {"scan", "build"})
      BY <1>7 DEF Next, Read, DmaHalts, DmaLoses, ScanEnd, StartBegin, StartEnd, Stop,
         Release, Allocate, vars
    <2>3. QED  BY <2>1, <2>2 DEF Ended
  <1>8. QED  BY <1>1, <1>2, <1>3, <1>4, <1>5, <1>6, <1>7

(* A frame whose end the DMA has written is never forgotten: when the      *)
(* loops of the IP thread end and leave it, an event tells of it, and an   *)
(* event is dropped only when nothing is left.  This ends when the DMA is  *)
(* halted, or a ring that is not at rest stopped.  With FramesServed of    *)
(* the deferred events it is the whole way from the interrupt to NetX; it  *)
(* is the safety part of FramesAreRead.                                    *)
THEOREM NoFrameForgotten == SafeSpec => EndsAreNoticed
  <1>1. Init => Work!Init
    <2> SUFFICES ASSUME Init PROVE Work!Init
      OBVIOUS
    <2>1. {d \in last \ own : buf[d] # NoPacket} = {}
      BY DEF Init
    <2>2. QED  BY <2>1, FS_EmptySet DEF Init, Work!Init
  <1>2. CleanInv /\ [Next]_vars =>
          [~dirty' /\ ~halted' => Work!Next]_(Work!vars)
    BY WorkStep, DirtyStays DEF CleanInv
  <1> HIDE DEF CleanInv
  <1>3. QED
    BY CleanInvariance, <1>1, <1>2, PTL DEF SafeSpec, EndsAreNoticed
=============================================================================
