---------------------------- MODULE TxRingProofs ----------------------------
(***************************************************************************)
(* Transmission, for every number of descriptors, packets, buffers and     *)
(* sends, and a DMA that reads descriptors at any moment, those of the     *)
(* packet that is prepared included.  The books of the driver agree with   *)
(* its ring whatever happens.  What is released was sent until a packet is *)
(* torn, what leaves is whole until a mark LS is misread too, and packets  *)
(* leave in order until one loses its mark FS too.                         *)
(***************************************************************************)
EXTENDS TxRing, FiniteSetTheorems, TLAPS

(* The descriptor k places after d. *)
At(d, k) == IF d + k < N THEN d + k ELSE d + k - N

(* What the DMA owns was filled in. *)
Written == \A d \in own : data[d] \in Buffers

(* The packet that is prepared is the driver's, and the descriptors it has *)
(* so far follow each other from CurTxDesc.                                *)
Preparing ==
  /\ phase = "prepare" <=> packet # NoPacket
  /\ phase = "prepare" <=> prepared # <<>>
  /\ phase = "prepare" =>
       /\ packet \in held
       /\ Len(prepared) <= size[packet] /\ size[packet] <= N
       /\ \A i \in 1..Len(prepared) :
            prepared[i] = At(curTxDesc, i - 1) /\ address[prepared[i]] = NoPacket

(* What is counted: at most a ring for every packet sent. *)
Counts ==
  /\ inUse + (IF phase = "prepare" THEN N ELSE 0) <= N * sends
  /\ phase = "release" => numOfBuf <= inUse

(* A loop of count turns from descriptor from on ends at CurTxDesc, and    *)
(* meets every descriptor that remembers a packet.                         *)
Covers(from, count) ==
  /\ (from + count) % N = curTxDesc
  /\ \A d \in Descriptors : address[d] # NoPacket => Distance(from, d) < count

ReleaseLooksAhead == phase = "release" => Covers(idx, numOfBuf)

BInv ==
  /\ TypeOK /\ Written
  /\ HeldOnce /\ Preparing /\ Counts
  /\ ReleaseCovers /\ ReleaseLooksAhead
-----------------------------------------------------------------------------
(* Remainders. *)
LEMMA Division ==
  ASSUME NEW n \in Nat \ {0}, NEW x \in Nat
  PROVE  /\ x % n \in 0..n-1
         /\ x \div n \in Nat
         /\ x = n * (x \div n) + (x % n)
  BY SMT

LEMMA RemainderUnique ==
  ASSUME NEW n \in Nat \ {0}, NEW q \in Nat, NEW r \in 0..n-1
  PROVE  (n * q + r) % n = r
  BY SMT

LEMMA RemainderOfSmall ==
  ASSUME NEW n \in Nat \ {0}, NEW r \in 0..n-1
  PROVE  r % n = r
  BY SMT

(* A whole ring more changes no remainder. *)
LEMMA RemainderOfMore ==
  ASSUME NEW n \in Nat \ {0}, NEW x \in Nat
  PROVE  (x + n) % n = (x % n)
  <1> DEFINE q == x \div n  r == x % n
  <1>1. r \in 0..n-1 /\ q \in Nat /\ x = n * q + r
    BY Division
  <1> HIDE DEF q, r
  <1>2. x + n = n * (q + 1) + r
    BY <1>1, SMT
  <1>3. (n * (q + 1) + r) % n = r
    BY <1>1, RemainderUnique
  <1>4. (x + n) % n = r
    BY <1>2, <1>3
  <1>5. QED  BY <1>4 DEF r

(* k more moves the remainder k places on. *)
LEMMA RemainderMoves ==
  ASSUME NEW n \in Nat \ {0}, NEW x \in Nat, NEW k \in 0..n
  PROVE  (x + k) % n = IF (x % n) + k < n THEN (x % n) + k ELSE (x % n) + k - n
  <1> DEFINE q == x \div n  r == x % n
  <1>1. r \in 0..n-1 /\ q \in Nat /\ x = n * q + r
    BY Division
  <1> HIDE DEF q, r
  <1>2. CASE r + k < n
    <2>1. x + k = n * q + (r + k) /\ r + k \in 0..n-1
      BY <1>1, <1>2, SMT
    <2>2. (n * q + (r + k)) % n = r + k
      BY <1>1, <2>1, RemainderUnique
    <2>3. (x + k) % n = r + k
      BY <2>1, <2>2
    <2>4. QED  BY <1>2, <2>3 DEF r
  <1>3. CASE ~(r + k < n)
    <2>1. x + k = n * (q + 1) + (r + k - n) /\ r + k - n \in 0..n-1
      BY <1>1, <1>3, SMT
    <2> DEFINE s == r + k - n  p == q + 1
    <2>2. s \in 0..n-1 /\ p \in Nat
      BY <1>1, <2>1
    <2> HIDE DEF s, p
    <2>3. (n * p + s) % n = s
      BY <2>2, RemainderUnique
    <2>4. (n * (q + 1) + (r + k - n)) % n = r + k - n
      BY <2>3 DEF s, p
    <2>5. (x + k) % n = r + k - n
      BY <2>1, <2>4
    <2>6. QED  BY <1>3, <2>5 DEF r
  <1>4. QED  BY <1>2, <1>3
-----------------------------------------------------------------------------
(* The ring. *)
LEMMA RingSize ==
  /\ N \in Nat \ {0} /\ NoPacket \notin Packets
  /\ MaxBuffers \in Nat \ {0} /\ MaxSends \in Nat
  BY RingAssumption

LEMMA SuccIsDescriptor ==
  ASSUME NEW d \in Descriptors
  PROVE  Succ(d) \in Descriptors
  BY RingSize DEF Descriptors, Succ

LEMMA AtIsDescriptor ==
  ASSUME NEW d \in Descriptors, NEW k \in 0..N-1
  PROVE  /\ At(d, k) \in Descriptors
         /\ At(d, 0) = d
         /\ Succ(At(d, k)) = At(d, k + 1)
         /\ k > 0 => At(d, k) # d
  BY RingSize DEF Descriptors, Succ, At

LEMMA AtOnce ==
  ASSUME NEW d \in Descriptors, NEW i \in 0..N-1, NEW j \in 0..N-1,
         At(d, i) = At(d, j)
  PROVE  i = j
  BY RingSize DEF Descriptors, At

LEMMA DistanceInRing ==
  ASSUME NEW a \in Descriptors, NEW b \in Descriptors
  PROVE  /\ Distance(a, b) \in 0..N-1
         /\ Distance(a, b) = 0 <=> a = b
         /\ a # b => Distance(Succ(a), b) = Distance(a, b) - 1
         /\ Distance(Succ(a), a) = N - 1
         /\ b = At(a, Distance(a, b))
  BY RingSize DEF Descriptors, Succ, Distance, At

LEMMA DistanceOfAt ==
  ASSUME NEW a \in Descriptors, NEW b \in Descriptors, NEW k \in 0..N-1
  PROVE  /\ Distance(a, At(b, k)) <= Distance(a, b) + k
         /\ Distance(a, b) + k < N => Distance(a, At(b, k)) = Distance(a, b) + k
  BY RingSize DEF Descriptors, Distance, At

LEMMA AtAgain ==
  ASSUME NEW d \in Descriptors, NEW k \in 0..N-1, NEW j \in 0..N-1, j + k < N
  PROVE  At(At(d, j), k) = At(d, j + k)
  BY RingSize DEF Descriptors, At

(* The loop of a release moves on: one turn less covers the rest. *)
LEMMA CoveredBySucc ==
  ASSUME NEW a \in Descriptors, NEW n \in Nat \ {0}
  PROVE  (Succ(a) + (n - 1)) % N = (a + n) % N
  <1> USE RingSize DEF Descriptors, Succ
  <1>1. CASE a # N - 1
    BY <1>1
  <1>2. CASE a = N - 1
    <2>1. Succ(a) + (n - 1) = n - 1 /\ a + n = (n - 1) + N /\ n - 1 \in Nat
      BY <1>2
    <2>2. ((n - 1) + N) % N = (n - 1) % N
      BY <2>1, RemainderOfMore
    <2>3. QED  BY <2>1, <2>2
  <1>3. QED  BY <1>1, <1>2

(* The end of a loop of r + u turns is at most u places after r. *)
LEMMA DistanceOfEnd ==
  ASSUME NEW r \in Descriptors, NEW u \in Nat
  PROVE  /\ (r + u) % N \in Descriptors
         /\ Distance(r, (r + u) % N) <= u
  <1>1. (r + u) % N \in Descriptors /\ r \in Nat
    BY RingSize, Division DEF Descriptors
  <1>2. CASE u < N
    <2>1. u \in 0..N
      BY <1>2, RingSize
    <2>2. (r + u) % N = IF (r % N) + u < N THEN (r % N) + u ELSE (r % N) + u - N
      BY <1>1, <2>1, RingSize, RemainderMoves, Zenon
    <2>3. r % N = r
      BY RingSize, RemainderOfSmall DEF Descriptors
    <2>4. (r + u) % N = At(r, u)
      BY <2>2, <2>3 DEF At
    <2>5. Distance(r, At(r, u)) <= Distance(r, r) + u
      BY <1>2, RingSize, DistanceOfAt
    <2>6. Distance(r, r) = 0
      BY DistanceInRing
    <2>7. QED  BY <1>1, <2>4, <2>5, <2>6
  <1>3. CASE ~(u < N)
    <2>1. Distance(r, (r + u) % N) \in 0..N-1
      BY <1>1, DistanceInRing
    <2>2. QED  BY <1>1, <1>3, <2>1, RingSize
  <1>4. QED  BY <1>2, <1>3

(* Sequences. *)
LEMMA Appended ==
  ASSUME NEW S, NEW s \in Seq(S), NEW x \in S
  PROVE  /\ Append(s, x) \in Seq(S) /\ Append(s, x) # <<>>
         /\ Len(s) \in Nat /\ Len(Append(s, x)) = Len(s) + 1
         /\ \A i \in 1..Len(s) : Append(s, x)[i] = s[i]
         /\ Append(s, x)[Len(s) + 1] = x
  OBVIOUS

LEMMA AppendedIsSeq ==
  \A S : \A s \in Seq(S), x \in S : Append(s, x) \in Seq(S) /\ Append(s, x) # <<>>
  <1> SUFFICES ASSUME NEW S, NEW s \in Seq(S), NEW x \in S
               PROVE  Append(s, x) \in Seq(S) /\ Append(s, x) # <<>>
    OBVIOUS
  <1>1. QED  BY Appended
-----------------------------------------------------------------------------
(* What a table of the packets that descriptors remember holds. *)
Owners(f) == {f[d] : d \in Descriptors} \ {NoPacket}

NoneTwice(f) ==
  \A d, e \in Descriptors : d # e /\ f[d] = f[e] => f[d] = NoPacket

LEMMA Forgotten ==
  ASSUME NEW f \in [Descriptors -> Packets \union {NoPacket}], NoneTwice(f),
         NEW d \in Descriptors
  PROVE  /\ Owners([f EXCEPT ![d] = NoPacket]) = Owners(f) \ {f[d]}
         /\ NoneTwice([f EXCEPT ![d] = NoPacket])
  BY DEF Owners, NoneTwice

LEMMA RememberedAlso ==
  ASSUME NEW f \in [Descriptors -> Packets \union {NoPacket}], NoneTwice(f),
         NEW d \in Descriptors, f[d] = NoPacket,
         NEW p \in Packets, p \notin Owners(f)
  PROVE  /\ Owners([f EXCEPT ![d] = p]) = Owners(f) \union {p}
         /\ NoneTwice([f EXCEPT ![d] = p])
  BY RingSize DEF Owners, NoneTwice

\* The packets that are held, by the table and the packet that is prepared.
Holds(h, f, p) ==
  h = Owners(f) \union ({p} \ {NoPacket}) /\ p \notin Owners(f) /\ NoneTwice(f)

LEMMA HeldIsHolds ==
  /\ HeldOnce <=> Holds(held, address, packet)
  /\ HeldOnce' <=> Holds(held', address', packet')
  BY DEF HeldOnce, Remembered, Holds, Owners, NoneTwice

(* The descriptors of the packet that is prepared. *)
LEMMA PreparedPlaces ==
  ASSUME BInv, phase = "prepare"
  PROVE  /\ Len(prepared) \in 1..N /\ packet \in Packets
         /\ Last(prepared) \in Descriptors /\ address[Last(prepared)] = NoPacket
         /\ Last(prepared) = At(curTxDesc, Len(prepared) - 1)
         /\ NextDesc \in Descriptors
         /\ NextDesc = At(curTxDesc, Len(prepared))
  <1>1. prepared \in Seq(Descriptors) /\ Len(prepared) <= N /\ prepared # <<>>
        /\ curTxDesc \in Descriptors
    BY DEF BInv, TypeOK, Preparing
  <1>2. Len(prepared) \in 1..N
    BY <1>1, RingSize
  <1>3. Last(prepared) = prepared[Len(prepared)]
    BY DEF Last
  <1>4. /\ Last(prepared) = At(curTxDesc, Len(prepared) - 1)
        /\ address[Last(prepared)] = NoPacket
    BY <1>2, <1>3 DEF BInv, Preparing
  <1>5. Last(prepared) \in Descriptors
    BY <1>1, <1>2, <1>3
  <1>6. Len(prepared) - 1 \in 0..N-1 /\ Len(prepared) - 1 + 1 = Len(prepared)
    BY <1>2, RingSize
  <1>7. NextDesc \in Descriptors /\ NextDesc = At(curTxDesc, Len(prepared))
    BY <1>1, <1>4, <1>5, <1>6, AtIsDescriptor, SuccIsDescriptor DEF NextDesc
  <1>8. packet \in Packets
    BY DEF BInv, TypeOK, Preparing
  <1>9. QED  BY <1>2, <1>4, <1>5, <1>7, <1>8
-----------------------------------------------------------------------------
LEMMA InitBInv == Init => BInv
  <1> SUFFICES ASSUME Init PROVE BInv
    OBVIOUS
  <1>1. 0 \in Descriptors /\ 0 \in 0..N*MaxSends /\ 0 \in 0..MaxBuffers
        /\ 0 \in 0..MaxSends
    BY RingSize DEF Descriptors
  <1>2. TypeOK
    BY <1>1, RingSize DEF Init, TypeOK
  <1>3. Written /\ Preparing
    BY DEF Init, Written, Preparing
  <1>4. HeldOnce
    BY DEF Init, HeldOnce, Remembered
  <1>5. Counts
    BY RingSize DEF Init, Counts
  <1>6. 0 % N = 0
    BY <1>1, RingSize, RemainderOfSmall DEF Descriptors
  <1>7. ReleaseCovers /\ ReleaseLooksAhead
    BY <1>6 DEF Init, ReleaseCovers, ReleaseLooksAhead
  <1>8. QED  BY <1>2, <1>3, <1>4, <1>5, <1>7 DEF BInv
-----------------------------------------------------------------------------
(* Every step keeps each packet at one place. *)
LEMMA HeldStep ==
  ASSUME BInv, Next
  PROVE  HeldOnce'
  <1>1. Holds(held, address, packet)
    BY HeldIsHolds DEF BInv
  <1>2. address \in [Descriptors -> Packets \union {NoPacket}]
        /\ NoPacket \notin Packets
    BY RingSize DEF BInv, TypeOK
  <1>3. CASE SendBegin
    <2>1. PICK p \in Packets \ held : packet' = p /\ held' = held \union {p}
      BY <1>3 DEF SendBegin
    <2>2. packet = NoPacket /\ address' = address
      BY <1>3 DEF SendBegin, listVars, BInv, Preparing
    <2>3. Holds(held', address', packet')
      BY <1>1, <1>2, <2>1, <2>2 DEF Holds
    <2>4. QED  BY <2>3, HeldIsHolds
  <1>4. CASE PrepareFails
    <2>1. packet' = NoPacket /\ held' = held \ {packet} /\ address' = address
      BY <1>4 DEF PrepareFails, listVars
    <2>2. Holds(held', address', packet')
      BY <1>1, <1>2, <2>1 DEF Holds, Owners
    <2>3. QED  BY <2>2, HeldIsHolds
  <1>5. CASE PrepareEnd
    <2>1. /\ packet' = NoPacket /\ held' = held
          /\ address' = [address EXCEPT ![Last(prepared)] = packet]
          /\ phase = "prepare"
      BY <1>5 DEF PrepareEnd, packetVars
    <2>2. /\ Last(prepared) \in Descriptors /\ address[Last(prepared)] = NoPacket
          /\ packet \in Packets
      BY <2>1, PreparedPlaces
    <2>3. Owners(address') = Owners(address) \union {packet} /\ NoneTwice(address')
      BY <1>1, <1>2, <2>1, <2>2, RememberedAlso DEF Holds
    <2>4. held' = Owners(address') /\ packet' \notin Owners(address')
      <3>1. held = Owners(address) \union {packet}
        BY <1>1, <1>2, <2>2 DEF Holds
      <3>2. NoPacket \notin Owners(address')
        BY DEF Owners
      <3>3. QED  BY <2>1, <2>3, <3>1, <3>2
    <2>5. Holds(held', address', packet')
      BY <2>1, <2>3, <2>4 DEF Holds
    <2>6. QED  BY <2>5, HeldIsHolds
  <1>6. CASE ReleasePacket
    <2>1. /\ held' = held \ {address[idx]} /\ address[idx] # NoPacket
          /\ address' = [address EXCEPT ![idx] = NoPacket]
          /\ packet' = packet /\ phase = "release" /\ idx \in Descriptors
      BY <1>6 DEF ReleasePacket, BInv, TypeOK
    <2>2. packet = NoPacket
      BY <2>1 DEF BInv, Preparing
    <2>3. Owners(address') = Owners(address) \ {address[idx]} /\ NoneTwice(address')
      BY <1>1, <1>2, <2>1, Forgotten DEF Holds
    <2>4. held = Owners(address) /\ packet \notin Owners(address)
      BY <1>1, <2>2 DEF Holds
    <2>5. held' = Owners(address') /\ packet' \notin Owners(address')
      BY <2>1, <2>3, <2>4
    <2>6. Holds(held', address', packet')
      BY <2>1, <2>2, <2>3, <2>5 DEF Holds
    <2>7. QED  BY <2>6, HeldIsHolds
  <1>7. CASE UNCHANGED <<held, address, packet>>
    BY <1>1, <1>7, HeldIsHolds
  <1>8. Next => \/ SendBegin \/ PrepareFails \/ PrepareEnd \/ ReleasePacket
                \/ UNCHANGED <<held, address, packet>>
    BY DEF Next, Work, SendRefused, PrepareNext, DmaSends, DmaDrops, DmaSuspends, ReleaseBegin,
           ReleaseSkips, ReleaseEnd, Start, Stop, listVars, packetVars
  <1>9. QED  BY <1>3, <1>4, <1>5, <1>6, <1>7, <1>8

(* Every step fills in what it gives to the DMA. *)
LEMMA WrittenStep ==
  ASSUME BInv, Next
  PROVE  Written'
  <1> USE RingSize DEF BInv, TypeOK, Written
  <1>1. CASE SendBegin
    <2>1. PICK p \in Packets : data' = [data EXCEPT ![curTxDesc] = <<p, 1>>]
      BY <1>1 DEF SendBegin
    <2>2. <<p, 1>> \in Buffers
      BY DEF Buffers
    <2>3. ASSUME NEW d \in own' PROVE data'[d] \in Buffers
      <3>1. d \in Descriptors /\ (d = curTxDesc \/ d \in own)
        BY <1>1, <2>3 DEF SendBegin
      <3>2. CASE d = curTxDesc
        BY <2>1, <2>2, <3>1, <3>2
      <3>3. CASE d # curTxDesc
        BY <2>1, <3>1, <3>3
      <3>4. QED  BY <3>2, <3>3
    <2>4. QED  BY <2>3
  <1>2. CASE PrepareNext
    <2>1. packet \in Packets /\ Len(prepared) \in Nat /\ NextDesc \in Descriptors
      BY <1>2, PreparedPlaces DEF PrepareNext
    <2>2. <<packet, Len(prepared) + 1>> \in Buffers
      BY <1>2, <2>1 DEF PrepareNext, Buffers
    <2>3. QED  BY <1>2, <2>1, <2>2 DEF PrepareNext
  <1>3. CASE own' \subseteq own /\ data' = data
    BY <1>3
  <1>4. Next => SendBegin \/ PrepareNext \/ (own' \subseteq own /\ data' = data)
    BY DEF Next, Work, SendRefused, PrepareFails, PrepareEnd, DmaSends, DmaDrops, DmaSuspends,
           ReleaseBegin, ReleaseSkips, ReleasePacket, ReleaseEnd, Start, Stop, descVars
  <1>5. QED  BY <1>1, <1>2, <1>3, <1>4

(* Every step keeps the descriptors of a packet behind each other. *)
LEMMA PreparingStep ==
  ASSUME BInv, Next
  PROVE  Preparing'
  <1>1. CASE SendBegin
    <2>1. PICK p \in Packets \ held, n \in 1..MaxBuffers :
            /\ Accepts(n) /\ packet' = p /\ held' = held \union {p}
            /\ size' = [size EXCEPT ![p] = n]
      BY <1>1 DEF SendBegin
    <2>2. /\ prepared' = <<curTxDesc>> /\ phase' = "prepare"
          /\ address' = address /\ curTxDesc' = curTxDesc
      BY <1>1 DEF SendBegin, listVars
    <2>3. size'[packet'] = n /\ n <= N /\ address[curTxDesc] = NoPacket
      BY <2>1 DEF BInv, TypeOK, Accepts, Busy
    <2>4. At(curTxDesc, 0) = curTxDesc
      BY AtIsDescriptor, RingSize DEF BInv, TypeOK
    <2>5. QED  BY <2>1, <2>2, <2>3, <2>4, RingSize DEF Preparing, At
  <1>2. CASE PrepareNext
    <2>1. /\ prepared' = Append(prepared, NextDesc) /\ phase = "prepare"
          /\ UNCHANGED <<phase, packet, held, size, address, curTxDesc>>
          /\ Len(prepared) < size[packet] /\ address[NextDesc] = NoPacket
      BY <1>2 DEF PrepareNext, packetVars, listVars, Busy
    <2>2. /\ NextDesc = At(curTxDesc, Len(prepared)) /\ NextDesc \in Descriptors
          /\ Len(prepared) \in Nat /\ packet \in Packets
      BY <2>1, PreparedPlaces
    <2>3. /\ Len(prepared') = Len(prepared) + 1
          /\ \A i \in 1..Len(prepared) : prepared'[i] = prepared[i]
          /\ prepared'[Len(prepared) + 1] = NextDesc
          /\ prepared' # <<>>
      <3>1. prepared \in Seq(Descriptors)
        BY DEF BInv, TypeOK
      <3>2. QED  BY <2>1, <2>2, <3>1
    <2>4. size[packet] \in Nat
      BY <2>2 DEF BInv, TypeOK
    <2>5. \A i \in 1..Len(prepared') :
            prepared'[i] = At(curTxDesc, i - 1) /\ address[prepared'[i]] = NoPacket
      BY <2>1, <2>2, <2>3 DEF BInv, Preparing
    <2>6. QED  BY <2>1, <2>2, <2>3, <2>4, <2>5 DEF BInv, Preparing, At
  <1>3. CASE PrepareFails \/ PrepareEnd
    BY <1>3 DEF PrepareFails, PrepareEnd, Preparing
  <1>4. CASE \/ /\ phase # "prepare" /\ phase' # "prepare"
                /\ UNCHANGED <<packet, prepared>>
             \/ UNCHANGED <<phase, packet, prepared, held, size, address, curTxDesc>>
    BY <1>4 DEF BInv, Preparing, At
  <1>5. Next => \/ SendBegin \/ PrepareNext \/ PrepareFails \/ PrepareEnd
                \/ /\ phase # "prepare" /\ phase' # "prepare"
                   /\ UNCHANGED <<packet, prepared>>
                \/ UNCHANGED <<phase, packet, prepared, held, size, address, curTxDesc>>
    BY DEF Next, Work, SendRefused, DmaSends, DmaDrops, DmaSuspends, ReleaseBegin, ReleaseSkips,
           ReleasePacket, ReleaseEnd, Start, Stop, listVars, packetVars
  <1>6. QED  BY <1>1, <1>2, <1>3, <1>4, <1>5

(* Every step keeps the counts in bounds. *)
LEMMA CountsStep ==
  ASSUME BInv, Next
  PROVE  Counts'
  <1> USE RingSize
  <1>1. inUse \in Nat /\ numOfBuf \in Nat /\ N * sends \in Nat
    BY DEF BInv, TypeOK
  <1>2. sends \in Nat /\ N * (sends + 1) = N * sends + N
    BY DEF BInv, TypeOK
  <1>3. Counts
    BY DEF BInv
  <1>4. CASE SendRefused \/ SendBegin
    <2>1. /\ sends' = sends + 1 /\ inUse' = inUse /\ phase = "idle"
          /\ phase' # "release"
      BY <1>4 DEF SendRefused, SendBegin, listVars
    <2>2. QED  BY <1>1, <1>2, <1>3, <2>1 DEF Counts
  <1>5. CASE PrepareFails
    BY <1>1, <1>3, <1>5 DEF Counts, PrepareFails, listVars, releaseVars
  <1>6. CASE PrepareEnd
    <2>1. /\ phase = "prepare" /\ phase' = "idle" /\ sends' = sends
          /\ inUse' = inUse + Len(prepared) /\ Len(prepared) \in 1..N
      BY <1>6, PreparedPlaces DEF PrepareEnd, packetVars
    <2>2. QED  BY <1>1, <1>2, <1>3, <2>1 DEF Counts
  <1>7. CASE ReleaseBegin \/ ReleaseSkips \/ ReleasePacket \/ ReleaseEnd
    <2>1. /\ phase # "prepare" /\ phase' # "prepare" /\ sends' = sends
          /\ inUse' <= inUse /\ inUse' \in Nat
          /\ phase' = "release" => numOfBuf' <= inUse'
      BY <1>1, <1>3, <1>7 DEF Counts, ReleaseBegin, ReleaseSkips, ReleasePacket,
         ReleaseEnd, listVars, packetVars
    <2>2. inUse <= N * sends
      BY <1>1, <1>3, <2>1 DEF Counts
    <2>3. inUse' + 0 <= N * sends'
      <3>1. inUse' + 0 <= N * sends
        BY <1>1, <2>1, <2>2
      <3>2. QED  BY <2>1, <3>1, Zenon
    <2>4. (IF phase' = "prepare" THEN N ELSE 0) = 0
      BY <2>1
    <2>5. QED  BY <2>1, <2>3, <2>4, Zenon DEF Counts
  <1>8. CASE UNCHANGED <<inUse, numOfBuf, phase, sends>>
    BY <1>3, <1>8 DEF Counts
  <1>9. Next => \/ SendRefused \/ SendBegin \/ PrepareFails \/ PrepareEnd
                \/ ReleaseBegin \/ ReleaseSkips \/ ReleasePacket \/ ReleaseEnd
                \/ UNCHANGED <<inUse, numOfBuf, phase, sends>>
    BY DEF Next, Work, PrepareNext, DmaSends, DmaDrops, DmaSuspends, Start, Stop, listVars,
           releaseVars, packetVars
  <1>10. QED  BY <1>4, <1>5, <1>6, <1>7, <1>8, <1>9

\* Covers, of any table and any end.
Reaches(f, end, from, count) ==
  /\ (from + count) % N = end
  /\ \A d \in Descriptors : f[d] # NoPacket => Distance(from, d) < count

LEMMA CoversIsReaches ==
  /\ ReleaseCovers <=> Reaches(address, curTxDesc, releaseIdx, inUse)
  /\ ReleaseCovers' <=> Reaches(address', curTxDesc', releaseIdx', inUse')
  /\ Covers(idx, numOfBuf) <=> Reaches(address, curTxDesc, idx, numOfBuf)
  /\ Covers(idx, numOfBuf)' <=> Reaches(address', curTxDesc', idx', numOfBuf')
  BY DEF ReleaseCovers, Covers, Reaches, Distance, Descriptors

(* A turn that leaves no packet behind. *)
LEMMA ReachesAfterTurn ==
  ASSUME NEW f \in [Descriptors -> Packets \union {NoPacket}],
         NEW end, NEW d \in Descriptors, NEW n \in Nat \ {0},
         Reaches(f, end, d, n)
  PROVE  Reaches([f EXCEPT ![d] = NoPacket], end, Succ(d), n - 1)
  <1> DEFINE g == [f EXCEPT ![d] = NoPacket]
  <1>1. (Succ(d) + (n - 1)) % N = end
    BY CoveredBySucc DEF Reaches
  <1>2. ASSUME NEW e \in Descriptors, g[e] # NoPacket
        PROVE  Distance(Succ(d), e) < n - 1
    <2>1. e # d /\ f[e] # NoPacket
      BY <1>2
    <2>2. Distance(d, e) \in Nat /\ Distance(d, e) < n
          /\ Distance(Succ(d), e) = Distance(d, e) - 1
      BY <2>1, DistanceInRing, RingSize DEF Reaches
    <2>3. QED  BY <2>2
  <1>3. QED  BY <1>1, <1>2 DEF Reaches

(* The descriptors of a packet, and the loop that has to reach them. *)
LEMMA ReachesNewPacket ==
  ASSUME NEW f \in [Descriptors -> Packets \union {NoPacket}], NEW p,
         NEW end \in Descriptors, NEW r \in Descriptors, NEW u \in Nat,
         NEW k \in 1..N, Reaches(f, end, r, u)
  PROVE  Reaches([f EXCEPT ![At(end, k - 1)] = p], At(end, k), r, u + k)
  <1> DEFINE g == [f EXCEPT ![At(end, k - 1)] = p]
  <1>1. (r + u) % N = end /\ r \in Nat
    BY DEF Reaches, Descriptors
  <1>2. (r + (u + k)) % N = At(end, k)
    <2>1. r + u \in Nat /\ k \in 0..N /\ r + (u + k) = (r + u) + k
      BY <1>1
    <2>2. ((r + u) + k) % N = IF ((r + u) % N) + k < N THEN ((r + u) % N) + k
                                                     ELSE ((r + u) % N) + k - N
      BY <2>1, RingSize, RemainderMoves, Zenon
    <2>3. QED  BY <1>1, <2>1, <2>2 DEF At
  <1>3. ASSUME NEW e \in Descriptors, g[e] # NoPacket
        PROVE  Distance(r, e) < u + k
    <2>1. CASE e = At(end, k - 1)
      <3>1. k - 1 \in 0..N-1
        BY RingSize
      <3>2. Distance(r, e) <= Distance(r, end) + (k - 1)
        BY <2>1, <3>1, DistanceOfAt
      <3>3. Distance(r, end) <= u
        BY <1>1, DistanceOfEnd
      <3>4. Distance(r, end) \in Nat /\ Distance(r, e) \in Nat
        BY DistanceInRing, RingSize
      <3>5. QED  BY <3>2, <3>3, <3>4
    <2>2. CASE e # At(end, k - 1)
      <3>1. f[e] # NoPacket
        BY <1>3, <2>2
      <3>2. Distance(r, e) < u /\ Distance(r, e) \in Nat
        BY <3>1, DistanceInRing, RingSize DEF Reaches
      <3>3. QED  BY <3>2
    <2>3. QED  BY <2>1, <2>2
  <1>4. QED  BY <1>2, <1>3 DEF Reaches

(* Every step keeps the packets within reach of the loop that releases. *)
LEMMA CoversStep ==
  ASSUME BInv, Next
  PROVE  ReleaseCovers' /\ ReleaseLooksAhead'
  <1>1. Reaches(address, curTxDesc, releaseIdx, inUse)
    BY CoversIsReaches DEF BInv
  <1>2. phase = "release" => Reaches(address, curTxDesc, idx, numOfBuf)
    BY CoversIsReaches DEF BInv, ReleaseLooksAhead
  <1>3. /\ address \in [Descriptors -> Packets \union {NoPacket}]
        /\ curTxDesc \in Descriptors /\ releaseIdx \in Descriptors
        /\ idx \in Descriptors /\ inUse \in Nat /\ numOfBuf \in Nat
    BY DEF BInv, TypeOK
  <1> SUFFICES
        /\ Reaches(address', curTxDesc', releaseIdx', inUse')
        /\ phase' = "release" => Reaches(address', curTxDesc', idx', numOfBuf')
    BY CoversIsReaches DEF ReleaseLooksAhead, Covers
  <1>4. CASE PrepareEnd
    <2>1. /\ phase = "prepare" /\ phase' # "release"
          /\ address' = [address EXCEPT ![Last(prepared)] = packet]
          /\ curTxDesc' = NextDesc /\ inUse' = inUse + Len(prepared)
          /\ releaseIdx' = releaseIdx
      BY <1>4 DEF PrepareEnd
    <2>2. /\ Len(prepared) \in 1..N
          /\ Last(prepared) = At(curTxDesc, Len(prepared) - 1)
          /\ NextDesc = At(curTxDesc, Len(prepared))
      BY <2>1, PreparedPlaces
    <2>3. Reaches([address EXCEPT ![At(curTxDesc, Len(prepared) - 1)] = packet],
                  At(curTxDesc, Len(prepared)), releaseIdx, inUse + Len(prepared))
      BY <1>1, <1>3, <2>2, ReachesNewPacket
    <2>4. QED  BY <2>1, <2>2, <2>3
  <1>5. CASE ReleaseSkips
    <2>1. /\ phase = "release" /\ address[idx] = NoPacket
          /\ numOfBuf \in Nat \ {0}
          /\ numOfBuf' = numOfBuf - 1 /\ idx' = Succ(idx)
          /\ UNCHANGED <<address, curTxDesc, releaseIdx, inUse>>
      BY <1>3, <1>5 DEF ReleaseSkips, listVars
    <2>2. address = [address EXCEPT ![idx] = NoPacket]
      BY <1>3, <2>1
    <2>3. Reaches([address EXCEPT ![idx] = NoPacket], curTxDesc, Succ(idx),
                  numOfBuf - 1)
      BY <1>2, <1>3, <2>1, ReachesAfterTurn
    <2>4. QED  BY <1>1, <2>1, <2>2, <2>3
  <1>6. CASE ReleasePacket
    <2>1. /\ phase = "release" /\ address' = [address EXCEPT ![idx] = NoPacket]
          /\ numOfBuf \in Nat \ {0}
          /\ numOfBuf' = numOfBuf - 1 /\ idx' = Succ(idx)
          /\ inUse' = numOfBuf' /\ releaseIdx' = idx' /\ curTxDesc' = curTxDesc
      BY <1>3, <1>6 DEF ReleasePacket
    <2>2. Reaches([address EXCEPT ![idx] = NoPacket], curTxDesc, Succ(idx),
                  numOfBuf - 1)
      BY <1>2, <1>3, <2>1, ReachesAfterTurn
    <2>3. QED  BY <2>1, <2>2
  <1>7. CASE ReleaseBegin
    <2>1. numOfBuf' = inUse /\ idx' = releaseIdx /\ UNCHANGED listVars
      BY <1>7 DEF ReleaseBegin
    <2>2. QED  BY <1>1, <2>1 DEF listVars
  <1>8. CASE /\ UNCHANGED <<listVars, releaseVars>>
             /\ phase' = "release" => phase = "release"
    BY <1>1, <1>2, <1>8 DEF listVars, releaseVars
  <1>9. Next => \/ PrepareEnd \/ ReleaseSkips \/ ReleasePacket \/ ReleaseBegin
                \/ /\ UNCHANGED <<listVars, releaseVars>>
                   /\ phase' = "release" => phase = "release"
    BY DEF Next, Work, SendRefused, SendBegin, PrepareNext, PrepareFails, DmaSends, DmaDrops,
           DmaSuspends, ReleaseEnd, Start, Stop
  <1>10. QED  BY <1>4, <1>5, <1>6, <1>7, <1>8, <1>9

(* Every step keeps the types. *)
LEMMA TypeStep ==
  ASSUME BInv, Next
  PROVE  TypeOK'
  <1> USE RingSize DEF BInv, TypeOK
  <1>0. torn' \in BOOLEAN /\ misread' \in BOOLEAN /\ unmarked' \in BOOLEAN
    <2>1. CASE UNCHANGED history
      BY <2>1 DEF history
    <2>2. CASE PrepareFails
      BY <2>2, Zenon DEF PrepareFails
    <2>3. CASE DmaSends
      BY <2>3, Zenon DEF DmaSends
    <2>4. QED  BY <2>1, <2>2, <2>3 DEF Next, Work, SendRefused, SendBegin, PrepareNext,
                  PrepareEnd, DmaDrops, DmaSuspends, ReleaseBegin, ReleaseSkips,
                  ReleasePacket, ReleaseEnd, Start, Stop
  <1> USE <1>0
  <1>1. CASE SendRefused
    BY <1>1 DEF SendRefused, descVars, dmaVars, listVars, releaseVars
  <1>2. CASE SendBegin
    <2>1. PICK p \in Packets \ held, n \in 1..MaxBuffers :
            /\ packet' = p /\ held' = held \union {p}
            /\ size' = [size EXCEPT ![p] = n]
            /\ number' = [number EXCEPT ![p] = sends + 1]
            /\ data' = [data EXCEPT ![curTxDesc] = <<p, 1>>]
      BY <1>2 DEF SendBegin
    <2>2. sends + 1 \in 0..MaxSends /\ sends' = sends + 1
      BY <1>2 DEF SendBegin
    <2>3. <<p, 1>> \in Buffers
      BY DEF Buffers
    <2>4. data' \in [Descriptors -> Buffers \union {<<>>}]
      BY <2>1, <2>3
    <2>5. size' \in [Packets -> 0..MaxBuffers] /\ number' \in [Packets -> 0..MaxSends]
      BY <2>1, <2>2
    <2>6. prepared' \in Seq(Descriptors) /\ Len(prepared') <= N
      BY <1>2 DEF SendBegin
    <2>7. QED  BY <1>2, <2>1, <2>2, <2>4, <2>5, <2>6
               DEF SendBegin, dmaVars, listVars, releaseVars
  <1>3. CASE PrepareNext
    <2>1. packet \in Packets /\ NextDesc \in Descriptors
          /\ Len(prepared) \in 1..N
      BY <1>3, PreparedPlaces DEF PrepareNext
    <2>2. Len(prepared) + 1 <= N /\ Len(prepared) + 1 \in 1..MaxBuffers
      BY <1>3, <2>1 DEF PrepareNext, Preparing
    <2>3. <<packet, Len(prepared) + 1>> \in Buffers
      BY <2>1, <2>2 DEF Buffers
    <2>4. data' \in [Descriptors -> Buffers \union {<<>>}]
      BY <1>3, <2>1, <2>3 DEF PrepareNext
    <2>5. prepared' \in Seq(Descriptors) /\ Len(prepared') = Len(prepared) + 1
      <3>1. prepared \in Seq(Descriptors) /\ prepared' = Append(prepared, NextDesc)
        BY <1>3 DEF PrepareNext
      <3>2. QED  BY <2>1, <3>1
    <2>6. own' \in SUBSET Descriptors /\ first' \in SUBSET Descriptors
          /\ last' \in SUBSET Descriptors
      BY <1>3, <2>1 DEF PrepareNext
    <2>7. QED  BY <1>3, <2>2, <2>4, <2>5, <2>6
               DEF PrepareNext, dmaVars, listVars, releaseVars, packetVars
  <1>4. CASE PrepareFails
    <2>1. packet \in Packets
      BY <1>4, PreparedPlaces DEF PrepareFails
    <2>2. size' \in [Packets -> 0..MaxBuffers] /\ number' \in [Packets -> 0..MaxSends]
      BY <1>4, <2>1 DEF PrepareFails
    <2>3. own' \in SUBSET Descriptors /\ first' \in SUBSET Descriptors
          /\ last' \in SUBSET Descriptors /\ held' \in SUBSET Packets
      BY <1>4 DEF PrepareFails
    <2>4. prepared' \in Seq(Descriptors) /\ Len(prepared') <= N
      BY <1>4 DEF PrepareFails
    <2>5. QED  BY <1>4, <2>2, <2>3, <2>4
               DEF PrepareFails, dmaVars, listVars, releaseVars
  <1>5. CASE PrepareEnd
    <2>1. packet \in Packets /\ NextDesc \in Descriptors
          /\ Last(prepared) \in Descriptors /\ Len(prepared) \in 1..N
          /\ phase = "prepare"
      BY <1>5, PreparedPlaces DEF PrepareEnd
    <2>2. inUse' \in 0..N*MaxSends
      <3>1. inUse' = inUse + Len(prepared) /\ inUse + N <= N * sends
        BY <1>5, <2>1 DEF PrepareEnd, Counts
      <3>2. N * sends <= N * MaxSends /\ N * sends \in Nat /\ N * MaxSends \in Nat
        <4>1. \A a, b, c \in Nat : b <= c => a * b <= a * c
          BY SMT
        <4>2. QED  BY <4>1
      <3>3. inUse \in Nat /\ N * sends + 0 <= N * MaxSends
        BY <3>2
      <3> HIDE DEF BInv, TypeOK
      <3>4. QED  BY <2>1, <3>1, <3>2, <3>3
    <2>3. address' \in [Descriptors -> Packets \union {NoPacket}]
      BY <1>5, <2>1 DEF PrepareEnd
    <2>4. prepared' \in Seq(Descriptors) /\ Len(prepared') <= N
      BY <1>5 DEF PrepareEnd
    <2>5. QED  BY <1>5, <2>1, <2>2, <2>3, <2>4
               DEF PrepareEnd, dmaVars, releaseVars, packetVars
  <1>6. CASE DmaSends
    <2>1. data[dma] \in Buffers
      BY <1>6 DEF DmaSends, Written
    <2> DEFINE whole == IF dma \in first THEN <<data[dma]>>
                                         ELSE Append(frame, data[dma])
    <2>2. whole \in Seq(Buffers) /\ whole # <<>>
      <3>1. frame \in Seq(Buffers)
        OBVIOUS
      <3>2. Append(frame, data[dma]) \in Seq(Buffers)
            /\ Append(frame, data[dma]) # <<>>
        BY <2>1, <3>1, AppendedIsSeq, Zenon
      <3>3. QED  BY <2>1, <3>2
    <2>3. \/ /\ sent' = whole /\ frame' = <<>> /\ event' = TRUE
             /\ sentNumber' = number[whole[1][1]]
          \/ frame' = whole /\ UNCHANGED <<sent, sentNumber, event>>
      BY <1>6 DEF DmaSends
    <2> HIDE DEF whole
    <2>4. whole[1] \in Buffers
      <3>1. Len(whole) \in Nat /\ Len(whole) # 0
        BY <2>2
      <3>2. QED  BY <2>2, <3>1
    <2>5. whole[1][1] \in Packets
      BY <2>4 DEF Buffers
    <2>6. frame' \in Seq(Buffers) /\ sent' \in Seq(Buffers)
      <3>1. frame \in Seq(Buffers) /\ sent \in Seq(Buffers) /\ <<>> \in Seq(Buffers)
        OBVIOUS
      <3>2. CASE sent' = whole /\ frame' = <<>>
        BY <2>2, <3>1, <3>2
      <3>3. CASE frame' = whole /\ sent' = sent
        BY <2>2, <3>1, <3>3
      <3>4. QED  BY <2>3, <3>2, <3>3
    <2>7. event' \in BOOLEAN /\ sentNumber' \in 0..MaxSends
      <3>1. number[whole[1][1]] \in 0..MaxSends
        BY <2>5
      <3>2. event' \in BOOLEAN
        BY <2>3, Zenon
      <3>3. sentNumber' \in 0..MaxSends
        BY <2>3, <3>1, Zenon
      <3>4. QED  BY <3>2, <3>3
    <2>8. dma' \in Descriptors /\ own' \in SUBSET Descriptors
      BY <1>6, SuccIsDescriptor DEF DmaSends
    <2>9. QED  BY <1>6, <2>6, <2>7, <2>8
               DEF DmaSends, listVars, releaseVars, packetVars
  <1>7. CASE DmaDrops
    <2>1. dma' \in Descriptors /\ own' \in SUBSET Descriptors
      BY <1>7, SuccIsDescriptor DEF DmaDrops
    <2>2. event' \in BOOLEAN
      BY <1>7, Zenon DEF DmaDrops
    <2>3. QED  BY <1>7, <2>1, <2>2 DEF DmaDrops, listVars, releaseVars, packetVars
  <1>13. CASE DmaSuspends
    BY <1>13 DEF DmaSuspends, descVars, listVars, releaseVars, packetVars
  <1>8. CASE ReleaseBegin
    BY <1>8 DEF ReleaseBegin, descVars, dmaVars, listVars, packetVars
  <1>9. CASE ReleaseSkips
    BY <1>9, SuccIsDescriptor DEF ReleaseSkips, descVars, dmaVars, listVars, packetVars
  <1>10. CASE ReleasePacket
    <2>1. address[idx] \in Packets
      BY <1>10 DEF ReleasePacket
    <2>2. size' \in [Packets -> 0..MaxBuffers] /\ number' \in [Packets -> 0..MaxSends]
      BY <1>10, <2>1 DEF ReleasePacket
    <2>3. address' \in [Descriptors -> Packets \union {NoPacket}]
      BY <1>10 DEF ReleasePacket
    <2>4. idx' \in Descriptors /\ releaseIdx' \in Descriptors
      BY <1>10, SuccIsDescriptor DEF ReleasePacket
    <2>5. numOfBuf' \in 0..N*MaxSends /\ inUse' \in 0..N*MaxSends
      BY <1>10 DEF ReleasePacket
    <2>6. QED  BY <1>10, <2>2, <2>3, <2>4, <2>5 DEF ReleasePacket, descVars, dmaVars
  <1>11. CASE ReleaseEnd
    BY <1>11 DEF ReleaseEnd, descVars, dmaVars, listVars, releaseVars, packetVars
  <1>12. CASE Start
    BY <1>12 DEF Start, descVars, dmaVars, listVars, releaseVars, packetVars
  <1>15. CASE Stop
    <2>1. <<>> \in Seq(Buffers) /\ frame' = <<>>
      BY <1>15 DEF Stop
    <2>2. QED  BY <1>15, <2>1 DEF Stop, descVars, listVars, releaseVars, packetVars
  <1>14. QED  BY <1>1, <1>2, <1>3, <1>4, <1>5, <1>6, <1>7, <1>8, <1>9, <1>10, <1>11,
                 <1>12, <1>13, <1>15 DEF Next, Work

LEMMA BInvStutters ==
  ASSUME BInv, UNCHANGED vars
  PROVE  BInv'
  <1> USE DEF BInv, vars, descVars, dmaVars, listVars, releaseVars, packetVars, history
  <1>1. TypeOK' /\ Written'
    BY DEF TypeOK, Written
  <1>2. HeldOnce' /\ Counts'
    BY DEF HeldOnce, Remembered, Counts
  <1>3. Preparing'
    BY DEF Preparing, At
  <1>4. ReleaseCovers' /\ ReleaseLooksAhead'
    BY DEF ReleaseCovers, ReleaseLooksAhead, Covers, Distance
  <1>5. QED  BY <1>1, <1>2, <1>3, <1>4

LEMMA BInvStep ==
  ASSUME BInv, [Next]_vars
  PROVE  BInv'
  <1>1. CASE Next
    <2>1. TypeOK' /\ Written' /\ HeldOnce'
      BY <1>1, TypeStep, WrittenStep, HeldStep
    <2>2. Preparing' /\ Counts' /\ ReleaseCovers' /\ ReleaseLooksAhead'
      BY <1>1, PreparingStep, CountsStep, CoversStep
    <2>3. QED  BY <2>1, <2>2 DEF BInv
  <1>2. QED  BY <1>1, BInvStutters

(* The inductive invariant of the books, with any DMA. *)
THEOREM BooksInvariance == SafeSpec => []BInv
  BY InitBInv, BInvStep, PTL DEF SafeSpec

(* The variables of the ring keep their types: the index and the count of  *)
(* the driver stay within the ring and what was sent.                      *)
THEOREM TypeCorrect == SafeSpec => []TypeOK
  <1>1. BInv => TypeOK
    BY DEF BInv
  <1>2. QED  BY BooksInvariance, <1>1, PTL

(* The packets the driver holds are the ones its descriptors remember and  *)
(* the one it prepares, each once, and the loop that releases reaches all  *)
(* of them, whatever the DMA reads when.                                   *)
THEOREM BooksBalanced == SafeSpec => []BooksBalance
  <1>1. BInv => BooksBalance
    BY DEF BInv, BooksBalance
  <1>2. QED  BY BooksInvariance, <1>1, PTL
-----------------------------------------------------------------------------
(***************************************************************************)
(* The rest is about a DMA that reads descriptors at any time, those of    *)
(* the packet that is prepared included.  As long as no packet is torn,    *)
(* what the DMA owns lies between the descriptor it uses next and the one  *)
(* the driver fills next.                                                  *)
(***************************************************************************)
EndDesc == IF prepared = <<>> THEN curTxDesc ELSE NextDesc

\* How many that are: a full ring is all of them, an empty one is none.
Owned == IF EndDesc \in own /\ dma = EndDesc THEN N ELSE Distance(dma, EndDesc)

Arc == \A d \in Descriptors : d \in own <=> Distance(dma, d) < Owned

(* The descriptors of packets that are prepared to the end. *)
Complete == own \ ToSet(prepared)

(* How many the DMA has read of the packet that is prepared. *)
Read == IF Owned < Len(prepared) THEN Len(prepared) - Owned ELSE 0

(* A complete descriptor has a buffer of another packet that is held ... *)
Placed(d) == data[d][1] \in held \ {packet}

(* ... and the packet is remembered by one the DMA reads later or now.     *)
Ends(d) ==
  \E e \in Complete :
    address[e] = data[d][1] /\ Distance(dma, d) <= Distance(dma, e)

Places == \A d \in Complete : Placed(d) /\ Ends(d)

(* The descriptors that are prepared have the buffers of the packet. *)
PreparedPlaced == \A i \in 1..Len(prepared) : data[prepared[i]] = <<packet, i>>

(* The DMA is suspended only where no packet is complete. *)
SuspendedBehind == suspended => Complete = {}

AInv == Arc /\ Places /\ PreparedPlaced /\ SuspendedBehind
-----------------------------------------------------------------------------
LEMMA ToSets ==
  ASSUME NEW S
  PROVE  /\ ToSet(<<>>) = {}
         /\ \A x \in S : ToSet(<<x>>) = {x}
         /\ \A s \in Seq(S), x \in S : ToSet(Append(s, x)) = ToSet(s) \union {x}
         /\ \A s \in Seq(S) : ToSet(s) = {s[i] : i \in 1..Len(s)}
  <1>1. \A s \in Seq(S) : ToSet(s) = {s[i] : i \in 1..Len(s)}
    BY DEF ToSet
  <1>2. ToSet(<<>>) = {} /\ \A x \in S : ToSet(<<x>>) = {x}
    BY DEF ToSet
  <1>3. ASSUME NEW s \in Seq(S), NEW x \in S
        PROVE  ToSet(Append(s, x)) = ToSet(s) \union {x}
    <2> DEFINE t == Append(s, x)
    <2>1. /\ t \in Seq(S) /\ Len(s) \in Nat /\ Len(t) = Len(s) + 1
          /\ \A i \in 1..Len(s) : t[i] = s[i]
          /\ t[Len(s) + 1] = x
      BY Appended
    <2> HIDE DEF t
    <2>2. ToSet(t) = {t[i] : i \in 1..Len(s) + 1}
      BY <1>1, <2>1
    <2>3. 1..Len(s) + 1 = (1..Len(s)) \union {Len(s) + 1}
      BY <2>1
    <2>4. ToSet(t) = {t[i] : i \in 1..Len(s)} \union {x}
      BY <2>1, <2>2, <2>3
    <2>5. {t[i] : i \in 1..Len(s)} = {s[i] : i \in 1..Len(s)}
      BY <2>1
    <2>6. QED  BY <1>1, <2>4, <2>5 DEF t
  <1>4. QED  BY <1>1, <1>2, <1>3

(* The ring by distances: the end of an arc, and the places before it. *)
LEMMA ArcEnd ==
  ASSUME NEW a \in Descriptors, NEW e \in Descriptors
  PROVE  /\ e = At(a, Distance(a, e))
         /\ At(a, N) = a
         /\ \A k \in 0..N-1 : Distance(a, At(a, k)) = k
         /\ \A k \in 0..N-1 : Succ(At(a, k)) = At(a, k + 1)
  BY RingSize DEF Descriptors, Succ, Distance, At

LEMMA PlaceInArc ==
  ASSUME NEW a \in Descriptors, NEW c \in Descriptors, NEW l \in 1..N,
         NEW i \in 1..l, NEW k \in 0..N, At(a, k) = At(c, l)
  PROVE  Distance(a, At(c, i - 1)) = IF l - i < k THEN k - (l - i) - 1
                                                  ELSE k - (l - i) - 1 + N
  BY RingSize DEF Descriptors, Distance, At

(* Where the driver is. *)
LEMMA EndIs ==
  ASSUME BInv
  PROVE  /\ dma \in Descriptors /\ curTxDesc \in Descriptors
         /\ own \subseteq Descriptors /\ prepared \in Seq(Descriptors)
         /\ Len(prepared) \in 0..N
         /\ prepared = <<>> <=> Len(prepared) = 0
         /\ EndDesc \in Descriptors /\ EndDesc = At(curTxDesc, Len(prepared))
         /\ \A i \in 1..Len(prepared) :
              prepared[i] \in Descriptors /\ prepared[i] = At(curTxDesc, i - 1)
         /\ ToSet(prepared) = {prepared[i] : i \in 1..Len(prepared)}
         /\ Owned \in 0..N /\ EndDesc = At(dma, Owned)
  <1>1. /\ dma \in Descriptors /\ curTxDesc \in Descriptors
        /\ own \subseteq Descriptors /\ prepared \in Seq(Descriptors)
        /\ Len(prepared) \in 0..N
    BY DEF BInv, TypeOK
  <1>2. prepared = <<>> <=> Len(prepared) = 0
    BY <1>1
  <1>3. EndDesc \in Descriptors /\ EndDesc = At(curTxDesc, Len(prepared))
    <2>1. CASE prepared = <<>>
      BY <1>1, <1>2, <2>1, AtIsDescriptor, RingSize DEF EndDesc
    <2>2. CASE prepared # <<>>
      BY <2>2, PreparedPlaces DEF EndDesc, BInv, Preparing
    <2>3. QED  BY <2>1, <2>2
  <1>4. ASSUME NEW i \in 1..Len(prepared)
        PROVE  prepared[i] \in Descriptors /\ prepared[i] = At(curTxDesc, i - 1)
    <2>1. prepared # <<>> /\ prepared[i] \in Descriptors
      BY <1>1
    <2>2. QED  BY <2>1 DEF BInv, Preparing
  <1>5. ToSet(prepared) = {prepared[i] : i \in 1..Len(prepared)}
    BY <1>1, ToSets
  <1>6. Owned \in 0..N /\ EndDesc = At(dma, Owned)
    <2>1. CASE EndDesc \in own /\ dma = EndDesc
      BY <1>1, <2>1, ArcEnd, RingSize DEF Owned
    <2>2. CASE ~(EndDesc \in own /\ dma = EndDesc)
      <3>1. Owned = Distance(dma, EndDesc)
        BY <2>2 DEF Owned
      <3>2. Distance(dma, EndDesc) \in 0..N-1
        BY <1>1, <1>3, DistanceInRing
      <3>3. QED  BY <1>1, <1>3, <3>1, <3>2, ArcEnd, RingSize
    <2>3. QED  BY <2>1, <2>2
  <1>7. QED  BY <1>1, <1>2, <1>3, <1>4, <1>5, <1>6

(* Where the descriptors of the DMA are: the last Len(prepared) places of  *)
(* the arc are those of the packet that is prepared, read ones are gone.   *)
LEMMA ArcIs ==
  ASSUME BInv, Arc
  PROVE  /\ \A i \in 1..Len(prepared) :
              /\ prepared[i] \in own <=> Len(prepared) - i < Owned
              /\ prepared[i] \in own =>
                   Distance(dma, prepared[i]) = Owned - (Len(prepared) - i) - 1
         /\ \A d \in Descriptors :
              d \in Complete <=> Distance(dma, d) + Len(prepared) < Owned
         /\ Complete \subseteq own /\ Complete \subseteq Descriptors
         /\ \A d \in own : d \in Complete \/ \E i \in 1..Len(prepared) : d = prepared[i]
  <1>1. /\ dma \in Descriptors /\ curTxDesc \in Descriptors
        /\ own \subseteq Descriptors /\ Len(prepared) \in 0..N /\ Owned \in 0..N
        /\ \A i \in 1..Len(prepared) :
             prepared[i] \in Descriptors /\ prepared[i] = At(curTxDesc, i - 1)
        /\ ToSet(prepared) = {prepared[i] : i \in 1..Len(prepared)}
        /\ At(dma, Owned) = At(curTxDesc, Len(prepared))
    BY EndIs
  <1>2. \A d \in Descriptors : Distance(dma, d) \in 0..N-1
    BY <1>1, DistanceInRing
  <1>3. ASSUME NEW i \in 1..Len(prepared)
        PROVE  /\ prepared[i] \in own <=> Len(prepared) - i < Owned
               /\ prepared[i] \in own =>
                    Distance(dma, prepared[i]) = Owned - (Len(prepared) - i) - 1
               /\ ~(Distance(dma, prepared[i]) + Len(prepared) < Owned)
    <2> DEFINE l == Len(prepared)  k == Owned
    <2>1. l \in 1..N /\ i \in 1..l /\ k \in 0..N
      BY <1>1
    <2>2. At(dma, k) = At(curTxDesc, l)
      BY <1>1
    <2> HIDE DEF l, k
    <2>3. Distance(dma, At(curTxDesc, i - 1))
            = IF l - i < k THEN k - (l - i) - 1 ELSE k - (l - i) - 1 + N
      BY <1>1, <2>1, <2>2, PlaceInArc
    <2>4. prepared[i] \in own <=> Distance(dma, prepared[i]) < k
      BY <1>1 DEF Arc, k
    <2>5. prepared[i] = At(curTxDesc, i - 1)
      BY <1>1
    <2>6. /\ Distance(dma, prepared[i]) < k <=> l - i < k
          /\ Distance(dma, prepared[i]) < k =>
               Distance(dma, prepared[i]) = k - (l - i) - 1
          /\ ~(Distance(dma, prepared[i]) + l < k)
      BY <2>1, <2>3, <2>5, RingSize
    <2>7. QED  BY <2>4, <2>6 DEF l, k
  <1>4. ASSUME NEW d \in Descriptors, d \in own,
               ~(Distance(dma, d) + Len(prepared) < Owned)
        PROVE  d \in ToSet(prepared)
    <2> DEFINE l == Len(prepared)  k == Owned  i == Distance(dma, d) + l + 1 - k
    <2>1. Distance(dma, d) < k /\ Distance(dma, d) \in 0..N-1
      BY <1>2, <1>4 DEF Arc
    <2>2. i \in 1..l /\ l \in 1..N /\ k \in 0..N
      BY <1>1, <1>4, <2>1
    <2>3. l - i < k /\ k - (l - i) - 1 = Distance(dma, d)
      BY <1>1, <1>4, <2>1, RingSize
    <2>4. At(dma, k) = At(curTxDesc, l) /\ prepared[i] = At(curTxDesc, i - 1)
      BY <1>1, <2>2
    <2>5. prepared[i] \in ToSet(prepared) /\ prepared[i] \in Descriptors
      BY <1>1, <2>2
    <2> HIDE DEF i, l, k
    <2>6. Distance(dma, prepared[i]) = Distance(dma, d)
      BY <1>1, <2>2, <2>3, <2>4, PlaceInArc
    <2>7. prepared[i] = d
      BY <1>1, <2>5, <2>6, ArcEnd
    <2>8. QED  BY <2>5, <2>7
  <1>5. ASSUME NEW d \in Descriptors
        PROVE  d \in Complete <=> Distance(dma, d) + Len(prepared) < Owned
    <2>1. CASE Distance(dma, d) + Len(prepared) < Owned
      <3>1. d \in own
        BY <1>1, <1>2, <2>1 DEF Arc
      <3>2. d \notin ToSet(prepared)
        BY <1>1, <1>3, <2>1
      <3>3. QED  BY <2>1, <3>1, <3>2 DEF Complete
    <2>2. CASE ~(Distance(dma, d) + Len(prepared) < Owned)
      BY <1>4, <2>2 DEF Complete
    <2>3. QED  BY <2>1, <2>2
  <1>6. \A d \in own : d \in Complete \/ \E i \in 1..Len(prepared) : d = prepared[i]
    BY <1>1 DEF Complete
  <1>7. Complete \subseteq own
    BY DEF Complete
  <1>8. QED  BY <1>1, <1>3, <1>5, <1>6, <1>7
-----------------------------------------------------------------------------
(* The steps that move the ends of the arc. *)
LEMMA ArcGrows ==
  ASSUME BInv, BInv', Arc, EndDesc \notin own, own' = own \union {EndDesc},
         dma' = dma, EndDesc' = Succ(EndDesc)
  PROVE  Arc' /\ Owned' = Owned + 1 /\ Owned \in 0..N-1
         /\ Distance(dma, EndDesc) = Owned
  <1>1. dma \in Descriptors /\ EndDesc \in Descriptors
        /\ Owned \in 0..N /\ EndDesc = At(dma, Owned)
    BY EndIs
  <1>2. \A d \in Descriptors : Distance(dma, d) \in 0..N-1
    BY <1>1, DistanceInRing
  <1>3. Owned \in 0..N-1
    <2>1. Distance(dma, EndDesc) \in 0..N-1 /\ ~(Distance(dma, EndDesc) < Owned)
      BY <1>1, <1>2 DEF Arc
    <2>2. QED  BY <1>1, <2>1, RingSize
  <1>4. Distance(dma, EndDesc) = Owned
    BY <1>1, <1>3, ArcEnd
  <1>5. EndDesc' = At(dma, Owned + 1)
    BY <1>1, <1>3, ArcEnd
  <1>6. Owned' = Owned + 1
    <2>1. CASE Owned = N - 1
      <3>1. EndDesc' = dma
        BY <1>1, <1>5, <2>1, ArcEnd, RingSize
      <3>2. dma \in own'
        <4>1. CASE Owned = 0
          <5>1. EndDesc = dma
            BY <1>1, <1>4, <4>1, DistanceInRing
          <5>2. QED  BY <5>1
        <4>2. CASE Owned # 0
          <5>1. Distance(dma, dma) = 0
            BY <1>1, DistanceInRing
          <5>2. dma \in own
            BY <1>1, <1>3, <4>2, <5>1 DEF Arc
          <5>3. QED  BY <5>2
        <4>3. QED  BY <4>1, <4>2
      <3>3. QED  BY <2>1, <3>1, <3>2, RingSize DEF Owned
    <2>2. CASE Owned # N - 1
      <3>1. Owned + 1 \in 0..N-1
        BY <1>3, <2>2, RingSize
      <3>2. Distance(dma, EndDesc') = Owned + 1
        BY <1>1, <1>5, <3>1, ArcEnd
      <3>3. EndDesc' # dma
        <4>1. Distance(dma, dma) = 0
          BY <1>1, DistanceInRing
        <4>2. QED  BY <1>3, <3>2, <4>1
      <3>4. QED  BY <3>2, <3>3 DEF Owned, Distance
    <2>3. QED  BY <2>1, <2>2
  <1>7. ASSUME NEW d \in Descriptors
        PROVE  d \in own' <=> Distance(dma, d) < Owned + 1
    <2>1. d \in own <=> Distance(dma, d) < Owned
      BY DEF Arc
    <2>2. Distance(dma, d) = Owned => d = EndDesc
      BY <1>1, ArcEnd
    <2>3. Distance(dma, d) \in 0..N-1
      BY <1>2
    <2>4. QED  BY <1>3, <1>4, <2>1, <2>2, <2>3
  <1>8. Arc'
    BY <1>6, <1>7 DEF Arc, Distance
  <1>9. QED  BY <1>3, <1>4, <1>6, <1>8

LEMMA ArcShrinks ==
  ASSUME BInv, Arc, dma \in own, own' = own \ {dma}, dma' = Succ(dma),
         EndDesc' = EndDesc
  PROVE  Arc' /\ Owned \in 1..N /\ Owned' = Owned - 1
  <1>1. dma \in Descriptors /\ EndDesc \in Descriptors /\ Owned \in 0..N
        /\ EndDesc = At(dma, Owned) /\ Succ(dma) \in Descriptors
    BY EndIs, SuccIsDescriptor
  <1>2. Owned \in 1..N
    <2>1. Distance(dma, dma) = 0 /\ Distance(dma, dma) < Owned
      BY <1>1, DistanceInRing DEF Arc
    <2>2. QED  BY <1>1, <2>1
  <1>3. Owned' = Owned - 1
    <2>1. CASE dma = EndDesc
      <3>1. Owned = N
        BY <2>1 DEF Owned
      <3>2. EndDesc' \notin own' /\ Distance(dma', EndDesc') = N - 1
        BY <1>1, <2>1, DistanceInRing
      <3>3. QED  BY <3>1, <3>2 DEF Owned, Distance
    <2>2. CASE dma # EndDesc
      <3>1. Owned = Distance(dma, EndDesc)
        BY <2>2 DEF Owned
      <3>2. EndDesc \notin own
        BY <1>1, <3>1, DistanceInRing, RingSize DEF Arc
      <3>3. Distance(dma', EndDesc') = Owned - 1
        BY <1>1, <2>2, <3>1, DistanceInRing
      <3>4. QED  BY <3>2, <3>3 DEF Owned, Distance
    <2>3. QED  BY <2>1, <2>2
  <1>4. ASSUME NEW d \in Descriptors
        PROVE  d \in own' <=> Distance(dma', d) < Owned'
    <2>1. d \in own <=> Distance(dma, d) < Owned
      BY DEF Arc
    <2>2. CASE d = dma
      <3>1. Distance(dma', d) = N - 1
        BY <1>1, <2>2, DistanceInRing
      <3>2. QED  BY <1>2, <1>3, <2>2, <3>1, RingSize
    <2>3. CASE d # dma
      <3>1. Distance(dma', d) = Distance(dma, d) - 1 /\ Distance(dma, d) \in 0..N-1
        BY <1>1, <2>3, DistanceInRing
      <3>2. QED  BY <1>2, <1>3, <2>1, <2>3, <3>1
    <2>4. QED  BY <2>2, <2>3
  <1>5. Arc'
    BY <1>4 DEF Arc, Distance
  <1>6. QED  BY <1>2, <1>3, <1>5

LEMMA SendBeginArc ==
  ASSUME BInv, BInv', Arc, SendBegin
  PROVE  /\ Arc' /\ Complete' = Complete /\ Owned' = Owned + 1
         /\ Owned \in 0..N-1 /\ Distance(dma, curTxDesc) = Owned
         /\ Len(prepared) = 0 /\ Len(prepared') = 1
  <1>1. /\ prepared = <<>> /\ prepared' = <<curTxDesc>> /\ curTxDesc \notin own
        /\ own' = own \union {curTxDesc}
        /\ dma' = dma /\ curTxDesc' = curTxDesc
    BY DEF SendBegin, BInv, Preparing, Accepts, Busy, dmaVars, listVars
  <1>2. curTxDesc \in Descriptors /\ own \subseteq Descriptors
    BY DEF BInv, TypeOK
  <1>3. EndDesc = curTxDesc /\ EndDesc' = Succ(EndDesc)
    BY <1>1, <1>2 DEF EndDesc, NextDesc, Last
  <1>4. Len(prepared) = 0 /\ Len(prepared') = 1
    BY <1>1
  <1>5. ToSet(prepared) = {} /\ ToSet(prepared') = {curTxDesc}
    BY <1>1, <1>2, ToSets
  <1>6. QED  BY <1>1, <1>3, <1>4, <1>5, ArcGrows DEF Complete

LEMMA PrepareNextArc ==
  ASSUME BInv, BInv', Arc, PrepareNext
  PROVE  /\ Arc' /\ Complete' = Complete /\ Owned' = Owned + 1
         /\ Owned \in 0..N-1 /\ Distance(dma, NextDesc) = Owned
         /\ Len(prepared') = Len(prepared) + 1
  <1>1. /\ prepared' = Append(prepared, NextDesc) /\ NextDesc \notin own
        /\ own' = own \union {NextDesc}
        /\ dma' = dma /\ curTxDesc' = curTxDesc /\ prepared # <<>>
    BY DEF PrepareNext, BInv, Preparing, Busy, dmaVars, listVars
  <1>2. NextDesc \in Descriptors /\ prepared \in Seq(Descriptors)
    BY PreparedPlaces DEF BInv, TypeOK, PrepareNext
  <1>3. /\ prepared' # <<>> /\ Len(prepared') = Len(prepared) + 1
        /\ prepared'[Len(prepared) + 1] = NextDesc
    BY <1>1, <1>2, Appended
  <1>4. EndDesc = NextDesc /\ EndDesc' = Succ(EndDesc)
    BY <1>1, <1>3 DEF EndDesc, NextDesc, Last
  <1>5. ToSet(prepared') = ToSet(prepared) \union {NextDesc}
    BY <1>1, <1>2, ToSets
  <1>6. QED  BY <1>1, <1>3, <1>4, <1>5, ArcGrows DEF Complete

(* A packet that is taken back whole leaves what was complete before it. *)
LEMMA PrepareFailsArc ==
  ASSUME BInv, Arc, PrepareFails, ~torn'
  PROVE  /\ Arc' /\ Complete' = Complete /\ own' = Complete /\ Read = 0
         /\ prepared' = <<>>
  <1>1. /\ prepared # <<>> /\ prepared' = <<>> /\ own' = own \ ToSet(prepared)
        /\ dma' = dma /\ curTxDesc' = curTxDesc /\ ToSet(prepared) \subseteq own
    BY DEF PrepareFails, BInv, Preparing, dmaVars, listVars
  <1>2. /\ dma \in Descriptors /\ curTxDesc \in Descriptors
        /\ Len(prepared) \in 1..N /\ Owned \in 0..N
        /\ prepared[1] = curTxDesc /\ prepared[1] \in ToSet(prepared)
    <2>1. Len(prepared) \in 1..N /\ 1 \in 1..Len(prepared)
      BY <1>1, EndIs
    <2>2. prepared[1] = At(curTxDesc, 1 - 1) /\ prepared[1] \in ToSet(prepared)
      BY <2>1, EndIs
    <2>3. QED  BY <2>1, <2>2, EndIs, AtIsDescriptor, RingSize
  <1>3. Complete' = Complete /\ own' = Complete
    BY <1>1, <1>2, ToSets DEF Complete
  <1>4. /\ Len(prepared) - 1 < Owned
        /\ Distance(dma, curTxDesc) = Owned - (Len(prepared) - 1) - 1
    <2>1. 1 \in 1..Len(prepared) /\ prepared[1] \in own
      BY <1>1, <1>2
    <2>2. QED  BY <1>2, <2>1, ArcIs
  <1>5. EndDesc' = curTxDesc /\ curTxDesc \notin own'
    BY <1>1, <1>2 DEF EndDesc
  <1>6. Owned' = Owned - Len(prepared)
    BY <1>1, <1>2, <1>4, <1>5 DEF Owned, Distance
  <1>7. \A d \in Descriptors : Distance(dma, d) \in 0..N-1
    BY <1>2, DistanceInRing
  <1>8. \A d \in Descriptors : d \in own' <=> Distance(dma, d) < Owned'
    BY <1>2, <1>3, <1>6, <1>7, ArcIs, RingSize
  <1>9. Arc'
    BY <1>1, <1>8 DEF Arc, Distance
  <1>10. Read = 0
    BY <1>2, <1>4 DEF Read
  <1>11. QED  BY <1>1, <1>3, <1>9, <1>10

LEMMA PrepareEndArc ==
  ASSUME BInv, Arc, PrepareEnd
  PROVE  Arc' /\ Complete' = own /\ Owned' = Owned /\ prepared' = <<>>
  <1>1. /\ prepared # <<>> /\ prepared' = <<>> /\ own' = own
        /\ dma' = dma /\ curTxDesc' = NextDesc
    BY DEF PrepareEnd, BInv, Preparing
  <1>2. EndDesc' = EndDesc
    BY <1>1 DEF EndDesc
  <1>3. Owned' = Owned
    BY <1>1, <1>2 DEF Owned, Distance
  <1>4. Arc'
    BY <1>1, <1>3 DEF Arc, Distance
  <1>5. QED  BY <1>1, <1>3, <1>4, ToSets DEF Complete

(* The DMA moves on, whether it sends the buffer or drops it. *)
DmaMoves ==
  /\ dma \in own /\ own' = own \ {dma} /\ dma' = Succ(dma)
  /\ UNCHANGED <<first, last, data, suspended, started, phase, packet, prepared,
                 listVars, releaseVars, packetVars, torn, unmarked>>

LEMMA DmaSteps == DmaSends \/ DmaDrops => DmaMoves
  BY DEF DmaSends, DmaDrops, DmaMoves, history

LEMMA DmaMovesArc ==
  ASSUME BInv, Arc, DmaMoves
  PROVE  Arc' /\ Complete' = Complete \ {dma} /\ Owned \in 1..N /\ Owned' = Owned - 1
  <1>1. EndDesc' = EndDesc /\ prepared' = prepared
    BY DEF DmaMoves, listVars, EndDesc, NextDesc, Last
  <1>2. QED  BY <1>1, ArcShrinks DEF DmaMoves, Complete
-----------------------------------------------------------------------------
(* A step that leaves the complete descriptors and their packets alone. *)
Undisturbed ==
  /\ Complete' = Complete /\ dma' = dma
  /\ \A d \in Complete :
       /\ data'[d] = data[d]
       /\ d \in last' <=> d \in last
       /\ d \in first' => d \in first
       /\ address'[d] = address[d]
       /\ data[d][1] \in held' \ {packet'}
       /\ size'[data[d][1]] = size[data[d][1]]
       /\ number'[data[d][1]] = number[data[d][1]]

LEMMA UndisturbedPlaces ==
  ASSUME Places, Undisturbed
  PROVE  Places'
  <1>1. ASSUME NEW d \in Complete
        PROVE  Placed(d)' /\ Ends(d)'
    <2>1. Placed(d)'
      BY DEF Placed, Undisturbed
    <2>2. Ends(d)'
      BY DEF Places, Ends, Undisturbed, Distance
    <2>3. QED  BY <2>1, <2>2
  <1>2. QED  BY <1>1 DEF Places, Undisturbed

(* What the invariant says of a complete descriptor's packet. *)
LEMMA CompletePacket ==
  ASSUME BInv, Arc, Places, NEW d \in Complete
  PROVE  /\ d \in Descriptors /\ d \in own
         /\ data[d][1] \in held /\ data[d][1] \in Packets
         /\ data[d][1] # packet /\ data[d][1] # NoPacket
         /\ data[d] \in Buffers /\ data[d] = <<data[d][1], data[d][2]>>
         /\ data[d][2] \in 1..MaxBuffers
         /\ d \notin ToSet(prepared)
  <1>1. d \in own /\ d \notin ToSet(prepared) /\ own \subseteq Descriptors
    BY EndIs DEF Complete
  <1>2. data[d] \in Buffers
    BY <1>1 DEF BInv, Written
  <1>3. data[d][1] \in Packets /\ data[d] = <<data[d][1], data[d][2]>>
        /\ data[d][2] \in 1..MaxBuffers
    BY <1>2 DEF Buffers
  <1>4. data[d][1] \in held \ {packet}
    BY DEF Places, Placed
  <1>5. QED  BY <1>1, <1>2, <1>3, <1>4, RingSize

(* The descriptor that comes next is not among those that are prepared. *)
LEMMA PreparedDiffer ==
  ASSUME BInv, phase = "prepare", Len(prepared) < size[packet]
  PROVE  /\ Len(prepared) \in 1..N-1
         /\ \A i \in 1..Len(prepared) :
              prepared[i] \in Descriptors /\ prepared[i] # NextDesc
  <1>1. /\ Len(prepared) \in 1..N /\ NextDesc = At(curTxDesc, Len(prepared))
        /\ packet \in Packets
    BY PreparedPlaces
  <1>2. Len(prepared) \in 1..N-1
    <2>1. size[packet] <= N /\ size[packet] \in Nat
      BY <1>1 DEF BInv, TypeOK, Preparing
    <2>2. QED  BY <1>1, <2>1, RingSize
  <1>3. ASSUME NEW i \in 1..Len(prepared)
        PROVE  prepared[i] \in Descriptors /\ prepared[i] # NextDesc
    <2>1. prepared[i] \in Descriptors /\ prepared[i] = At(curTxDesc, i - 1)
          /\ curTxDesc \in Descriptors
      BY EndIs
    <2>2. i - 1 \in 0..N-1 /\ Len(prepared) \in 0..N-1 /\ i - 1 # Len(prepared)
      BY <1>2, RingSize
    <2>3. At(curTxDesc, i - 1) # At(curTxDesc, Len(prepared))
      BY <2>1, <2>2, AtOnce
    <2>4. QED  BY <1>1, <2>1, <2>3
  <1>4. QED  BY <1>2, <1>3

LEMMA SendBeginQuiet ==
  ASSUME BInv, BInv', AInv, SendBegin
  PROVE  Undisturbed /\ PreparedPlaced' /\ SuspendedBehind'
  <1>1. PICK p \in Packets \ held, n \in 1..MaxBuffers :
          /\ packet' = p /\ held' = held \union {p}
          /\ size' = [size EXCEPT ![p] = n]
          /\ number' = [number EXCEPT ![p] = sends + 1]
          /\ data' = [data EXCEPT ![curTxDesc] = <<p, 1>>]
    BY DEF SendBegin
  <1>2. /\ first' = first \union {curTxDesc} /\ last' = last
        /\ dma' = dma /\ suspended' = suspended /\ address' = address
        /\ prepared' = <<curTxDesc>> /\ curTxDesc \notin own
    BY DEF SendBegin, dmaVars, listVars, Accepts, Busy, BInv, Preparing
  <1>3. Complete' = Complete /\ Complete \subseteq own
    BY SendBeginArc, ArcIs DEF AInv
  <1>4. curTxDesc \notin Complete /\ curTxDesc \in Descriptors
    BY <1>2, <1>3 DEF BInv, TypeOK
  <1>5. /\ size \in [Packets -> 0..MaxBuffers] /\ number \in [Packets -> 0..MaxSends]
        /\ data \in [Descriptors -> Buffers \union {<<>>}]
    BY DEF BInv, TypeOK
  <1>6. ASSUME NEW d \in Complete
        PROVE  /\ data'[d] = data[d]
               /\ d \in last' <=> d \in last
               /\ d \in first' => d \in first
               /\ address'[d] = address[d]
               /\ data[d][1] \in held' \ {packet'}
               /\ size'[data[d][1]] = size[data[d][1]]
               /\ number'[data[d][1]] = number[data[d][1]]
    <2>1. data[d][1] \in held /\ d # curTxDesc /\ d \in Descriptors
          /\ data[d][1] \in Packets
      BY <1>4, CompletePacket DEF AInv
    <2>2. data[d][1] # p
      BY <2>1
    <2>3. QED  BY <1>1, <1>2, <1>5, <2>1, <2>2
  <1>7. Undisturbed
    BY <1>2, <1>3, <1>6 DEF Undisturbed
  <1>8. data'[curTxDesc] = <<packet', 1>>
    BY <1>1, <1>4, <1>5
  <1>9. PreparedPlaced'
    BY <1>2, <1>8 DEF PreparedPlaced
  <1>10. QED  BY <1>2, <1>3, <1>7, <1>9 DEF AInv, SuspendedBehind

LEMMA PrepareNextQuiet ==
  ASSUME BInv, BInv', AInv, PrepareNext
  PROVE  Undisturbed /\ PreparedPlaced' /\ SuspendedBehind'
  <1>1. /\ data' = [data EXCEPT ![NextDesc] = <<packet, Len(prepared) + 1>>]
        /\ first' = first \ {NextDesc} /\ last' = last \ {Last(prepared)}
        /\ dma' = dma /\ suspended' = suspended /\ address' = address
        /\ held' = held /\ packet' = packet /\ size' = size /\ number' = number
        /\ prepared' = Append(prepared, NextDesc) /\ NextDesc \notin own
    BY DEF PrepareNext, dmaVars, listVars, packetVars, Busy
  <1>2. Complete' = Complete /\ Complete \subseteq own
    BY PrepareNextArc, ArcIs DEF AInv
  <1>3. /\ NextDesc \in Descriptors /\ NextDesc \notin Complete
        /\ Len(prepared) \in 1..N /\ Last(prepared) = prepared[Len(prepared)]
    BY <1>1, <1>2, PreparedPlaces DEF PrepareNext, Last
  <1>4. /\ data \in [Descriptors -> Buffers \union {<<>>}]
        /\ prepared \in Seq(Descriptors)
    BY DEF BInv, TypeOK
  <1>5. Last(prepared) \in ToSet(prepared)
    BY <1>3, <1>4, ToSets
  <1>6. ASSUME NEW d \in Complete
        PROVE  /\ data'[d] = data[d]
               /\ d \in last' <=> d \in last
               /\ d \in first' => d \in first
               /\ address'[d] = address[d]
               /\ data[d][1] \in held' \ {packet'}
               /\ size'[data[d][1]] = size[data[d][1]]
               /\ number'[data[d][1]] = number[data[d][1]]
    <2>1. data[d][1] \in held /\ data[d][1] # packet /\ d # NextDesc
          /\ d # Last(prepared) /\ d \in Descriptors
      BY <1>3, <1>5, CompletePacket DEF AInv
    <2>2. QED  BY <1>1, <1>4, <2>1
  <1>7. Undisturbed
    BY <1>1, <1>2, <1>6 DEF Undisturbed
  <1>8. /\ Len(prepared') = Len(prepared) + 1
        /\ \A i \in 1..Len(prepared) : prepared'[i] = prepared[i]
        /\ prepared'[Len(prepared) + 1] = NextDesc
    BY <1>1, <1>3, <1>4, Appended
  <1>9. \A i \in 1..Len(prepared) :
          prepared[i] \in Descriptors /\ prepared[i] # NextDesc
    BY PreparedDiffer DEF PrepareNext
  <1>10. ASSUME NEW i \in 1..Len(prepared')
         PROVE  data'[prepared'[i]] = <<packet', i>>
    <2>1. CASE i \in 1..Len(prepared)
      BY <1>1, <1>4, <1>8, <1>9, <2>1 DEF AInv, PreparedPlaced
    <2>2. CASE i = Len(prepared) + 1
      BY <1>1, <1>3, <1>4, <1>8, <2>2
    <2>3. QED  BY <1>3, <1>8, <2>1, <2>2
  <1>11. PreparedPlaced'
    BY <1>10 DEF PreparedPlaced
  <1>12. QED  BY <1>1, <1>2, <1>7, <1>11 DEF AInv, SuspendedBehind

LEMMA PrepareFailsQuiet ==
  ASSUME BInv, AInv, PrepareFails, ~torn'
  PROVE  Undisturbed /\ PreparedPlaced' /\ SuspendedBehind'
  <1>1. /\ first' = first \ {NextDesc} /\ last' = last \ {Last(prepared)}
        /\ held' = held \ {packet} /\ packet' = NoPacket /\ prepared' = <<>>
        /\ size' = [size EXCEPT ![packet] = 0]
        /\ number' = [number EXCEPT ![packet] = 0]
        /\ data' = data /\ dma' = dma /\ suspended' = suspended
        /\ address' = address
    BY DEF PrepareFails, dmaVars, listVars
  <1>2. Complete' = Complete
    BY PrepareFailsArc DEF AInv
  <1>3. /\ prepared \in Seq(Descriptors) /\ size \in [Packets -> 0..MaxBuffers]
        /\ number \in [Packets -> 0..MaxSends]
    BY DEF BInv, TypeOK
  <1>4. Last(prepared) = prepared[Len(prepared)] /\ Len(prepared) \in 1..N
    BY PreparedPlaces DEF PrepareFails, Last
  <1>5. Last(prepared) \in ToSet(prepared)
    BY <1>3, <1>4, ToSets
  <1>6. ASSUME NEW d \in Complete
        PROVE  /\ data'[d] = data[d]
               /\ d \in last' <=> d \in last
               /\ d \in first' => d \in first
               /\ address'[d] = address[d]
               /\ data[d][1] \in held' \ {packet'}
               /\ size'[data[d][1]] = size[data[d][1]]
               /\ number'[data[d][1]] = number[data[d][1]]
    <2>1. /\ data[d][1] \in held /\ data[d][1] # packet /\ data[d][1] # NoPacket
          /\ data[d][1] \in Packets /\ d # Last(prepared)
      BY <1>5, CompletePacket DEF AInv
    <2>2. QED  BY <1>1, <1>3, <2>1
  <1>7. Undisturbed
    BY <1>1, <1>2, <1>6 DEF Undisturbed
  <1>8. PreparedPlaced'
    BY <1>1 DEF PreparedPlaced
  <1>9. QED  BY <1>1, <1>2, <1>7, <1>8 DEF AInv, SuspendedBehind

(* A packet is released when the DMA owns no descriptor of it. *)
LEMMA ReleasePacketQuiet ==
  ASSUME BInv, AInv, ReleasePacket
  PROVE  Undisturbed /\ PreparedPlaced' /\ SuspendedBehind' /\ Arc'
  <1>1. /\ address[idx] # NoPacket /\ idx \notin own
        /\ held' = held \ {address[idx]}
        /\ size' = [size EXCEPT ![address[idx]] = 0]
        /\ number' = [number EXCEPT ![address[idx]] = 0]
        /\ address' = [address EXCEPT ![idx] = NoPacket]
        /\ own' = own /\ first' = first /\ last' = last /\ data' = data
        /\ dma' = dma /\ suspended' = suspended
        /\ packet' = packet /\ prepared' = prepared /\ curTxDesc' = curTxDesc
    BY DEF ReleasePacket, descVars, dmaVars
  <1>2. Complete' = Complete /\ Complete \subseteq own
    BY <1>1 DEF Complete
  <1>3. /\ idx \in Descriptors /\ own \subseteq Descriptors
        /\ address \in [Descriptors -> Packets \union {NoPacket}]
        /\ size \in [Packets -> 0..MaxBuffers] /\ number \in [Packets -> 0..MaxSends]
    BY DEF BInv, TypeOK
  <1>4. ASSUME NEW d \in Complete
        PROVE  /\ data'[d] = data[d]
               /\ d \in last' <=> d \in last
               /\ d \in first' => d \in first
               /\ address'[d] = address[d]
               /\ data[d][1] \in held' \ {packet'}
               /\ size'[data[d][1]] = size[data[d][1]]
               /\ number'[data[d][1]] = number[data[d][1]]
    <2>1. /\ data[d][1] \in held /\ data[d][1] # packet /\ data[d][1] \in Packets
          /\ data[d][1] # NoPacket /\ d \in Descriptors /\ d # idx
      BY <1>1, CompletePacket DEF AInv
    <2>2. PICK e \in Complete : address[e] = data[d][1]
      BY DEF AInv, Places, Ends
    <2>3. e \in Descriptors /\ e # idx
      BY <1>1, <1>2, <1>3
    <2>4. data[d][1] # address[idx]
      BY <1>3, <2>1, <2>2, <2>3 DEF BInv, HeldOnce
    <2>5. QED  BY <1>1, <1>3, <2>1, <2>4
  <1>5. Undisturbed
    BY <1>1, <1>2, <1>4 DEF Undisturbed
  <1>6. PreparedPlaced' /\ SuspendedBehind'
    BY <1>1, <1>2 DEF AInv, PreparedPlaced, SuspendedBehind
  <1>7. Arc'
    BY <1>1 DEF AInv, Arc, Owned, EndDesc, NextDesc, Last, Distance
  <1>8. QED  BY <1>5, <1>6, <1>7

(* The steps that touch no descriptor and no packet. *)
StillVars == <<own, first, last, data, dma, packet, prepared, address,
               curTxDesc, held, size, number>>

LEMMA StillQuiet ==
  ASSUME AInv, UNCHANGED StillVars
  PROVE  Undisturbed /\ PreparedPlaced' /\ Arc' /\ Complete' = Complete
         /\ Owned' = Owned /\ Read' = Read
  <1>1. Complete' = Complete
    BY DEF StillVars, Complete
  <1>2. Undisturbed
    BY <1>1 DEF StillVars, Undisturbed, AInv, Places, Placed
  <1>3. PreparedPlaced'
    BY DEF StillVars, AInv, PreparedPlaced
  <1>4. Owned' = Owned /\ Read' = Read
    BY DEF StillVars, Owned, EndDesc, NextDesc, Last, Distance, Read
  <1>5. Arc'
    BY <1>4 DEF StillVars, AInv, Arc, Distance
  <1>6. QED  BY <1>1, <1>2, <1>3, <1>4, <1>5

(* A packet that is prepared to the end lies behind all others. *)
LEMMA PrepareEndPlaces ==
  ASSUME BInv, AInv, PrepareEnd
  PROVE  Places' /\ PreparedPlaced' /\ SuspendedBehind'
  <1>1. /\ address' = [address EXCEPT ![Last(prepared)] = packet]
        /\ packet' = NoPacket /\ prepared' = <<>> /\ own' = own
        /\ data' = data /\ dma' = dma /\ held' = held /\ suspended' = FALSE
        /\ phase = "prepare"
    BY DEF PrepareEnd, packetVars
  <1>2. /\ Len(prepared) \in 1..N /\ packet \in held
        /\ Last(prepared) \in Descriptors
        /\ Last(prepared) = prepared[Len(prepared)]
        /\ packet \in Packets /\ NoPacket \notin Packets
    BY <1>1, PreparedPlaces, RingSize DEF BInv, Preparing, Last
  <1>3. Complete' = own
    BY PrepareEndArc DEF AInv
  <1>4. address \in [Descriptors -> Packets \union {NoPacket}]
    BY DEF BInv, TypeOK
  <1>5. Last(prepared) \notin Complete /\ Complete \subseteq own
    BY <1>2, EndIs DEF Complete
  <1>6. ASSUME NEW d \in Complete
        PROVE  Placed(d)' /\ Ends(d)'
    <2>1. data[d][1] \in held /\ data[d][1] # NoPacket
      BY CompletePacket DEF AInv
    <2>2. PICK e \in Complete :
            address[e] = data[d][1] /\ Distance(dma, d) <= Distance(dma, e)
      BY DEF AInv, Places, Ends
    <2>3. address'[e] = address[e]
      BY <1>1, <1>4, <1>5, <2>2, CompletePacket DEF AInv
    <2>4. QED  BY <1>1, <1>3, <1>5, <2>1, <2>2, <2>3 DEF Placed, Ends, Distance
  <1>7. ASSUME NEW i \in 1..Len(prepared), NEW d \in own, d = prepared[i]
        PROVE  Placed(d)' /\ Ends(d)'
    <2>1. data[d] = <<packet, i>> /\ data[d][1] = packet
      <3>1. data[prepared[i]] = <<packet, i>>
        BY DEF AInv, PreparedPlaced
      <3>2. data[d] = <<packet, i>>
        BY <1>7, <3>1
      <3>3. QED  BY <3>2
    <2>2. /\ Len(prepared) \in 1..Len(prepared) /\ Owned \in 0..N
          /\ Len(prepared) - i < Owned
          /\ Distance(dma, d) = Owned - (Len(prepared) - i) - 1
      BY <1>2, <1>7, ArcIs, EndIs DEF AInv
    <2>3. /\ Last(prepared) \in own
          /\ Distance(dma, Last(prepared)) = Owned - (Len(prepared) - Len(prepared)) - 1
      <3>1. Len(prepared) - Len(prepared) < Owned
        BY <1>2, <2>2
      <3>2. QED  BY <1>2, <2>2, <3>1, ArcIs DEF AInv
    <2>4. Distance(dma, d) <= Distance(dma, Last(prepared))
      BY <1>2, <2>2, <2>3
    <2>5. address'[Last(prepared)] = packet
      BY <1>1, <1>2, <1>4
    <2>6. Placed(d)'
      BY <1>1, <1>2, <2>1 DEF Placed
    <2>7. Ends(d)'
      BY <1>1, <1>3, <2>1, <2>3, <2>4, <2>5 DEF Ends, Distance
    <2>8. QED  BY <2>6, <2>7
  <1>8. \A d \in own : d \in Complete \/ \E i \in 1..Len(prepared) : d = prepared[i]
    BY ArcIs DEF AInv
  <1>9. \A d \in own : Placed(d)' /\ Ends(d)'
    BY <1>6, <1>7, <1>8
  <1>10. Places'
    BY <1>3, <1>9 DEF Places
  <1>11. QED  BY <1>1, <1>10 DEF PreparedPlaced, SuspendedBehind

LEMMA DmaMovesPlaces ==
  ASSUME BInv, AInv, DmaMoves
  PROVE  Places' /\ PreparedPlaced' /\ SuspendedBehind'
  <1>1. /\ dma' = Succ(dma) /\ data' = data /\ address' = address
        /\ packet' = packet /\ prepared' = prepared /\ held' = held
        /\ suspended' = suspended
    BY DEF DmaMoves, listVars, packetVars
  <1>2. Complete' = Complete \ {dma}
    BY DmaMovesArc DEF AInv
  <1>3. dma \in Descriptors /\ Complete \subseteq Descriptors
    BY EndIs, ArcIs DEF AInv
  <1>4. /\ Distance(dma, dma) = 0
        /\ \A d \in Descriptors : d # dma =>
             /\ Distance(Succ(dma), d) = Distance(dma, d) - 1
             /\ Distance(dma, d) \in 1..N-1
    BY <1>3, DistanceInRing
  <1>5. ASSUME NEW d \in Complete, d # dma
        PROVE  Placed(d)' /\ Ends(d)'
    <2>1. Placed(d)'
      BY <1>1 DEF AInv, Places, Placed
    <2>2. PICK e \in Complete :
            address[e] = data[d][1] /\ Distance(dma, d) <= Distance(dma, e)
      BY DEF AInv, Places, Ends
    <2>3. Distance(dma, d) \in 1..N-1
      BY <1>3, <1>4, <1>5
    <2>4. e # dma
      BY <1>4, <2>2, <2>3
    <2>5. Distance(Succ(dma), d) <= Distance(Succ(dma), e)
      BY <1>3, <1>4, <1>5, <2>2, <2>4
    <2>6. QED  BY <1>1, <1>2, <2>1, <2>2, <2>4, <2>5 DEF Ends, Distance
  <1>6. Places'
    BY <1>2, <1>5 DEF Places
  <1>7. QED  BY <1>1, <1>2, <1>6 DEF AInv, PreparedPlaced, SuspendedBehind

(* The actions by what they do to the descriptors. *)
LEMMA StepKinds ==
  ASSUME [Next]_vars
  PROVE  \/ SendBegin \/ PrepareNext \/ PrepareFails \/ PrepareEnd
         \/ DmaSends \/ DmaDrops \/ DmaSuspends \/ ReleasePacket \/ Stop
         \/ /\ UNCHANGED StillVars /\ UNCHANGED <<frame, sent, sentNumber, history>>
            /\ suspended' => suspended
            /\ phase' = phase \/ (phase # "prepare" /\ phase' # "prepare")
  BY DEF Next, Work, SendRefused, ReleaseBegin, ReleaseSkips,
         ReleaseEnd, Start, vars, descVars, dmaVars, listVars, packetVars, StillVars

LEMMA HistoryGrows ==
  ASSUME [Next]_vars
  PROVE  (torn => torn') /\ (misread => misread') /\ (unmarked => unmarked')
  <1>1. CASE PrepareFails
    BY <1>1 DEF PrepareFails
  <1>2. CASE DmaSends
    BY <1>2 DEF DmaSends
  <1>3. ~PrepareFails /\ ~DmaSends => UNCHANGED history
    BY StepKinds DEF SendBegin, PrepareNext, PrepareEnd, DmaDrops, DmaSuspends,
       ReleasePacket, Stop
  <1>4. QED  BY <1>1, <1>2, <1>3 DEF history

LEMMA AInvStep ==
  ASSUME BInv, BInv', AInv, [Next]_vars, ~torn'
  PROVE  AInv'
  <1>1. CASE SendBegin
    BY <1>1, SendBeginArc, SendBeginQuiet, UndisturbedPlaces DEF AInv
  <1>2. CASE PrepareNext
    BY <1>2, PrepareNextArc, PrepareNextQuiet, UndisturbedPlaces DEF AInv
  <1>3. CASE PrepareFails
    BY <1>3, PrepareFailsArc, PrepareFailsQuiet, UndisturbedPlaces DEF AInv
  <1>4. CASE PrepareEnd
    BY <1>4, PrepareEndArc, PrepareEndPlaces DEF AInv
  <1>5. CASE DmaSends \/ DmaDrops
    BY <1>5, DmaSteps, DmaMovesArc, DmaMovesPlaces DEF AInv
  <1>6. CASE DmaSuspends
    <2>1. UNCHANGED StillVars /\ dma \notin own
      BY <1>6 DEF DmaSuspends, descVars, listVars, packetVars, StillVars
    <2>2. Complete = {}
      <3>1. dma \in Descriptors /\ Distance(dma, dma) = 0 /\ Len(prepared) \in 0..N
            /\ Owned \in 0..N
        BY EndIs, DistanceInRing
      <3>2. Owned = 0
        BY <2>1, <3>1 DEF AInv, Arc
      <3>3. \A d \in Descriptors : Distance(dma, d) \in 0..N-1
        BY <3>1, DistanceInRing
      <3>4. \A d \in Descriptors : d \notin Complete
        BY <3>1, <3>2, <3>3, ArcIs DEF AInv
      <3>5. QED  BY <3>4, ArcIs DEF AInv
    <2>3. QED  BY <2>1, <2>2, StillQuiet, UndisturbedPlaces DEF AInv, SuspendedBehind
  <1>7. CASE ReleasePacket
    BY <1>7, ReleasePacketQuiet, UndisturbedPlaces DEF AInv
  <1>8. CASE UNCHANGED StillVars /\ (suspended' => suspended)
    BY <1>8, StillQuiet, UndisturbedPlaces DEF AInv, SuspendedBehind
  <1>9. Stop => UNCHANGED StillVars /\ (suspended' => suspended)
    BY DEF Stop, descVars, listVars, packetVars, StillVars
  <1>10. QED  BY <1>1, <1>2, <1>3, <1>4, <1>5, <1>6, <1>7, <1>8, <1>9, StepKinds

LEMMA InitAInv == Init => AInv
  <1> SUFFICES ASSUME Init PROVE AInv
    OBVIOUS
  <1>1. own = {} /\ prepared = <<>> /\ dma = 0 /\ curTxDesc = 0 /\ BInv
    BY InitBInv DEF Init
  <1>2. EndDesc = 0 /\ Owned = 0 /\ Complete = {}
    BY <1>1 DEF EndDesc, Owned, Complete, Distance
  <1>3. \A d \in Descriptors : Distance(dma, d) \in Nat
    BY <1>1, RingSize DEF Descriptors, Distance
  <1>4. Arc
    BY <1>1, <1>2, <1>3 DEF Arc
  <1>5. QED  BY <1>1, <1>2, <1>4 DEF AInv, Places, PreparedPlaced, SuspendedBehind

(* The inductive invariant of the ring, until a packet is torn. *)
THEOREM RingInvariance == SafeSpec => [](BInv /\ (~torn => AInv))
  <1>1. Init => BInv /\ (~torn => AInv)
    BY InitBInv, InitAInv
  <1>2. BInv /\ (~torn => AInv) /\ [Next]_vars => (BInv /\ (~torn => AInv))'
    BY BInvStep, AInvStep, HistoryGrows
  <1>3. QED  BY <1>1, <1>2, PTL DEF SafeSpec

LEMMA ReleasedHolds ==
  ASSUME BInv, AInv, NEW d \in own
  PROVE  data[d][1] \in held
  <1>1. CASE d \in Complete
    BY <1>1, CompletePacket DEF AInv
  <1>2. CASE d \notin Complete
    <2>1. PICK i \in 1..Len(prepared) : d = prepared[i]
      BY <1>2, ArcIs DEF AInv
    <2>2. data[d] = <<packet, i>>
      BY <2>1 DEF AInv, PreparedPlaced
    <2>3. prepared # <<>>
      BY <2>1, EndIs
    <2>4. QED  BY <2>2, <2>3 DEF BInv, Preparing
  <1>3. QED  BY <1>1, <1>2

(* No descriptor of a released packet is left with the DMA: its memory can *)
(* be used for the next packet.  It takes a packet that is taken back      *)
(* while the DMA reads it to break that, and nothing else does: no early   *)
(* reading as such, no wrong mark.                                         *)
THEOREM ReleasedAreSent == SafeSpec => []OnlyTornIsReused
  <1>1. BInv /\ (~torn => AInv) => OnlyTornIsReused
    BY ReleasedHolds DEF OnlyTornIsReused, ReleasedIsSent
  <1>2. QED  BY RingInvariance, <1>1, PTL
-----------------------------------------------------------------------------
(***************************************************************************)
(* What leaves.  As long as the DMA reads the marks LS that the driver     *)
(* means, every descriptor has the buffer that follows the one before it,  *)
(* and what the DMA has of a frame is the beginning of a packet.           *)
(***************************************************************************)

(* A complete descriptor has a mark FS on a first buffer only, and a mark  *)
(* LS on the last one, which remembers the packet.                         *)
Piece(d) ==
  /\ data[d][2] \in 1..size[data[d][1]]
  /\ d \in first => data[d][2] = 1
  /\ d \in last <=> data[d][2] = size[data[d][1]]
  /\ address[d] = IF d \in last THEN data[d][1] ELSE NoPacket

(* What is read before it is the buffer before it, or the end of a packet. *)
Follows(d) ==
  \E c \in Complete :
    /\ d = Succ(c)
    /\ IF c \in last THEN data[d][2] = 1
                     ELSE data[d] = <<data[c][1], data[c][2] + 1>>

Pieces == \A d \in Complete : Piece(d) /\ (d # dma => Follows(d))

PreparedMarks ==
  \A i \in 1..Len(prepared) :
    /\ prepared[i] \in first => i = 1
    /\ i < Len(prepared) => prepared[i] \notin last

(* The first n buffers of a packet. *)
Buffered(p, n) == [i \in 1..n |-> <<p, i>>]

(* What the DMA has gone past of the packet it is at. *)
SoFar ==
  IF dma \in Complete THEN Buffered(data[dma][1], data[dma][2] - 1)
  ELSE IF phase = "prepare" /\ Read < size[packet] THEN Buffered(packet, Read)
  ELSE <<>>

FrameSoFar == frame = SoFar \/ frame = <<>>

MInv == Pieces /\ PreparedMarks /\ FrameSoFar
-----------------------------------------------------------------------------
(* The next buffer completes what was read of its packet. *)
LEMMA BufferedAppend ==
  ASSUME NEW p, NEW n \in Nat \ {0}
  PROVE  /\ Append(Buffered(p, n - 1), <<p, n>>) = Buffered(p, n)
         /\ <<<<p, 1>>>> = Buffered(p, 1)
         /\ Buffered(p, n) # <<>> /\ Buffered(p, n)[1] = <<p, 1>>
  <1>1. <<<<p, 1>>>> = Buffered(p, 1)
    BY DEF Buffered
  <1>2. Append(Buffered(p, n - 1), <<p, n>>) = Buffered(p, n)
    <2> DEFINE S == {p} \X Nat
    <2>1. Buffered(p, n - 1) \in Seq(S) /\ Len(Buffered(p, n - 1)) = n - 1
      BY DEF Buffered
    <2>2. Append(Buffered(p, n - 1), <<p, n>>)
            = [i \in 1..(n - 1) + 1 |->
                 IF i = (n - 1) + 1 THEN <<p, n>> ELSE Buffered(p, n - 1)[i]]
      BY <2>1
    <2>3. (n - 1) + 1 = n
      OBVIOUS
    <2>4. \A i \in 1..n : (IF i = n THEN <<p, n>> ELSE Buffered(p, n - 1)[i]) = <<p, i>>
      BY DEF Buffered
    <2>5. QED  BY <2>2, <2>3, <2>4 DEF Buffered
  <1>3. Len(Buffered(p, n)) = n /\ Buffered(p, n)[1] = <<p, 1>>
    BY DEF Buffered
  <1>4. Buffered(p, n) # <<>>
    BY <1>3
  <1>5. QED  BY <1>1, <1>2, <1>3, <1>4

LEMMA NoneBuffered ==
  ASSUME NEW p
  PROVE  Buffered(p, 0) = <<>>
  BY DEF Buffered

(* Where the DMA is: at a complete descriptor, in the packet that is       *)
(* prepared, or behind everything.                                         *)
LEMMA DmaIs ==
  ASSUME BInv, Arc
  PROVE  /\ Read \in 0..Len(prepared)
         /\ dma \in Complete => Read = 0
         /\ dma \notin Complete /\ dma \in own =>
              Read + 1 \in 1..Len(prepared) /\ dma = prepared[Read + 1]
         /\ dma \notin own => Owned = 0 /\ Read = Len(prepared) /\ own = {}
  <1>1. /\ dma \in Descriptors /\ Len(prepared) \in 0..N /\ Owned \in 0..N
        /\ own \subseteq Descriptors /\ Complete \subseteq own
    BY EndIs, ArcIs
  <1>2. \A d \in Descriptors : Distance(dma, d) \in 0..N-1
    BY <1>1, DistanceInRing
  <1>3. Distance(dma, dma) = 0
    BY <1>1, DistanceInRing
  <1>4. Read \in 0..Len(prepared)
    BY <1>1, RingSize DEF Read
  <1>5. ASSUME dma \in Complete PROVE Read = 0
    <2>1. dma \notin ToSet(prepared) /\ dma \in own
      BY <1>5 DEF Complete
    <2>2. ~(Owned < Len(prepared))
      <3>1. SUFFICES ASSUME Owned < Len(prepared) PROVE FALSE
        OBVIOUS
      <3>2. Owned > 0
        BY <1>1, <1>3, <2>1 DEF Arc
      <3>3. \E i \in 1..Len(prepared) : dma = prepared[i]
        <4>1. Len(prepared) - Owned + 1 \in 1..Len(prepared)
          BY <1>1, <3>1, <3>2
        <4> DEFINE i == Len(prepared) - Owned + 1
        <4>2. prepared[i] \in own /\ Distance(dma, prepared[i]) = 0
          <5>1. Len(prepared) - i = Owned - 1
            BY <1>1
          <5>2. Len(prepared) - i < Owned /\ Owned - (Len(prepared) - i) - 1 = 0
            BY <1>1, <5>1
          <5> HIDE DEF i
          <5>3. QED  BY <4>1, <5>2, ArcIs DEF i
        <4>3. prepared[i] = dma
          BY <1>1, <4>2, DistanceInRing
        <4>4. QED  BY <4>1, <4>3
      <3>4. QED  BY <2>1, <3>3, EndIs
    <2>3. QED  BY <2>2 DEF Read
  <1>6. ASSUME dma \notin Complete, dma \in own
        PROVE  Read + 1 \in 1..Len(prepared) /\ dma = prepared[Read + 1]
    <2>1. PICK i \in 1..Len(prepared) : dma = prepared[i]
      BY <1>6, EndIs DEF Complete
    <2>2. /\ Len(prepared) - i < Owned
          /\ Distance(dma, dma) = Owned - (Len(prepared) - i) - 1
      BY <1>6, <2>1, ArcIs
    <2>3. Owned = Len(prepared) - i + 1
      BY <1>1, <1>3, <2>2
    <2>4. Read = i - 1
      BY <1>1, <2>3 DEF Read
    <2>5. QED  BY <1>1, <2>1, <2>4
  <1>7. ASSUME dma \notin own
        PROVE  Owned = 0 /\ Read = Len(prepared) /\ own = {}
    <2>1. Owned = 0
      BY <1>1, <1>3, <1>7 DEF Arc
    <2>2. \A d \in Descriptors : d \notin own
      BY <1>2, <2>1 DEF Arc
    <2>3. QED  BY <1>1, <2>1, <2>2 DEF Read
  <1>8. QED  BY <1>4, <1>5, <1>6, <1>7
-----------------------------------------------------------------------------
LEMMA UndisturbedPieces ==
  ASSUME BInv, Arc, Places, Pieces, Undisturbed
  PROVE  Pieces' /\ (dma \in Complete => SoFar' = SoFar)
  <1>1. ASSUME NEW d \in Complete
        PROVE  Piece(d)' /\ (d # dma => Follows(d)')
    <2>1. Piece(d) /\ (d # dma => Follows(d))
      BY DEF Pieces
    <2>2. Piece(d)'
      BY <2>1 DEF Piece, Undisturbed
    <2>3. d # dma => Follows(d)'
      BY <2>1 DEF Follows, Undisturbed
    <2>4. QED  BY <2>2, <2>3
  <1>2. Pieces'
    BY <1>1 DEF Pieces, Undisturbed
  <1>3. dma \in Complete => SoFar' = SoFar
    BY DEF SoFar, Undisturbed, Buffered
  <1>4. QED  BY <1>2, <1>3

LEMMA SendBeginMarks ==
  ASSUME BInv, BInv', AInv, MInv, SendBegin
  PROVE  Pieces' /\ PreparedMarks' /\ SoFar' = SoFar
  <1>1. Undisturbed /\ Pieces' /\ (dma \in Complete => SoFar' = SoFar)
    BY SendBeginQuiet, UndisturbedPieces DEF AInv, MInv
  <1>2. /\ phase = "idle" /\ phase' = "prepare" /\ dma' = dma
        /\ prepared' = <<curTxDesc>>
    BY DEF SendBegin, dmaVars
  <1>3. PreparedMarks'
    BY <1>2 DEF PreparedMarks
  <1>4. ASSUME dma \notin Complete PROVE SoFar' = SoFar
    <2>1. dma \notin own
      BY <1>4, DmaIs, SendBeginArc DEF AInv
    <2>2. Owned' = 1 /\ Len(prepared') = 1
      BY <2>1, DmaIs, SendBeginArc DEF AInv
    <2>3. Read' = 0
      BY <2>2 DEF Read
    <2>4. SoFar = <<>>
      BY <1>2, <1>4 DEF SoFar
    <2>5. dma' \notin Complete'
      BY <1>1, <1>4 DEF Undisturbed
    <2>6. SoFar' = <<>>
      BY <1>2, <2>3, <2>5, NoneBuffered DEF SoFar, Buffered
    <2>7. QED  BY <2>4, <2>6
  <1>5. QED  BY <1>1, <1>3, <1>4

LEMMA PrepareNextMarks ==
  ASSUME BInv, BInv', AInv, MInv, PrepareNext
  PROVE  Pieces' /\ PreparedMarks' /\ SoFar' = SoFar
  <1>1. Undisturbed /\ Pieces' /\ (dma \in Complete => SoFar' = SoFar)
    BY PrepareNextQuiet, UndisturbedPieces DEF AInv, MInv
  <1>2. /\ phase = "prepare" /\ phase' = phase /\ packet' = packet /\ size' = size
        /\ prepared' = Append(prepared, NextDesc)
        /\ first' = first \ {NextDesc} /\ last' = last \ {Last(prepared)}
    BY DEF PrepareNext, packetVars
  <1>3. /\ prepared \in Seq(Descriptors) /\ NextDesc \in Descriptors
        /\ Len(prepared) \in 1..N /\ Last(prepared) = prepared[Len(prepared)]
        /\ Owned \in 0..N
    BY <1>2, PreparedPlaces, EndIs DEF PrepareNext, Last
  <1>4. /\ Len(prepared') = Len(prepared) + 1
        /\ \A i \in 1..Len(prepared) : prepared'[i] = prepared[i]
        /\ prepared'[Len(prepared) + 1] = NextDesc
    BY <1>2, <1>3, Appended
  <1>5. PreparedMarks'
    <2>1. ASSUME NEW i \in 1..Len(prepared')
          PROVE  /\ prepared'[i] \in first' => i = 1
                 /\ i < Len(prepared') => prepared'[i] \notin last'
      <3>1. CASE i = Len(prepared) + 1
        BY <1>2, <1>3, <1>4, <3>1
      <3>2. CASE i = Len(prepared)
        <4>1. prepared'[i] = prepared[i] /\ i \in 1..Len(prepared)
          BY <1>3, <1>4, <3>2
        <4>2. prepared'[i] \notin last'
          BY <1>2, <1>3, <3>2, <4>1
        <4>3. prepared'[i] \in first' => i = 1
          BY <1>2, <4>1 DEF MInv, PreparedMarks
        <4>4. QED  BY <4>2, <4>3
      <3>3. CASE i < Len(prepared)
        <4>1. prepared'[i] = prepared[i] /\ i \in 1..Len(prepared)
          BY <1>3, <1>4, <3>3
        <4>2. QED  BY <1>2, <3>3, <4>1 DEF MInv, PreparedMarks
      <3>4. QED  BY <1>3, <1>4, <3>1, <3>2, <3>3
    <2>2. QED  BY <2>1 DEF PreparedMarks
  <1>6. Read' = Read
    BY <1>3, <1>4, PrepareNextArc DEF AInv, Read
  <1>7. dma \notin Complete => SoFar' = SoFar
    BY <1>1, <1>2, <1>6 DEF SoFar, Undisturbed, Buffered
  <1>8. QED  BY <1>1, <1>5, <1>7

LEMMA PrepareFailsMarks ==
  ASSUME BInv, AInv, MInv, PrepareFails, ~torn'
  PROVE  Pieces' /\ PreparedMarks' /\ SoFar' = SoFar
  <1>1. Undisturbed /\ Pieces' /\ (dma \in Complete => SoFar' = SoFar)
    BY PrepareFailsQuiet, UndisturbedPieces DEF AInv, MInv
  <1>2. phase' = "idle" /\ prepared' = <<>>
    BY DEF PrepareFails
  <1>3. PreparedMarks'
    BY <1>2 DEF PreparedMarks
  <1>4. dma \notin Complete => SoFar' = SoFar
    BY <1>1, <1>2, PrepareFailsArc, NoneBuffered DEF AInv, SoFar, Undisturbed
  <1>5. QED  BY <1>1, <1>3, <1>4

LEMMA ReleasePacketMarks ==
  ASSUME BInv, AInv, MInv, ReleasePacket
  PROVE  Pieces' /\ PreparedMarks' /\ SoFar' = SoFar
  <1>1. Undisturbed /\ Pieces' /\ (dma \in Complete => SoFar' = SoFar)
    BY ReleasePacketQuiet, UndisturbedPieces DEF AInv, MInv
  <1>2. /\ phase # "prepare" /\ phase' # "prepare"
        /\ prepared' = prepared /\ first' = first /\ last' = last
    BY DEF ReleasePacket, descVars
  <1>3. PreparedMarks'
    BY <1>2 DEF MInv, PreparedMarks
  <1>4. dma \notin Complete => SoFar' = SoFar
    BY <1>1, <1>2 DEF SoFar, Undisturbed
  <1>5. QED  BY <1>1, <1>3, <1>4

LEMMA StillMarks ==
  ASSUME BInv, AInv, MInv, UNCHANGED StillVars,
         phase' = phase \/ (phase # "prepare" /\ phase' # "prepare")
  PROVE  Pieces' /\ PreparedMarks' /\ SoFar' = SoFar
  <1>1. /\ Undisturbed /\ Pieces' /\ (dma \in Complete => SoFar' = SoFar)
        /\ Read' = Read
    BY StillQuiet, UndisturbedPieces DEF AInv, MInv
  <1>2. PreparedMarks'
    BY DEF StillVars, MInv, PreparedMarks
  <1>3. dma \notin Complete => SoFar' = SoFar
    BY <1>1 DEF SoFar, Undisturbed, StillVars, Buffered
  <1>4. QED  BY <1>1, <1>2, <1>3

(* The complete descriptor that is read last has the mark LS. *)
LEMMA LastEnds ==
  ASSUME BInv, AInv, Pieces, NEW d \in Complete,
         \A e \in Complete : Distance(dma, e) <= Distance(dma, d)
  PROVE  d \in last
  <1>1. PICK e \in Complete :
          address[e] = data[d][1] /\ Distance(dma, d) <= Distance(dma, e)
    BY DEF AInv, Places, Ends
  <1>2. /\ dma \in Descriptors /\ d \in Descriptors /\ e \in Descriptors
        /\ data[d][1] # NoPacket
    BY EndIs, CompletePacket DEF AInv
  <1>3. e = At(dma, Distance(dma, e)) /\ d = At(dma, Distance(dma, d))
        /\ Distance(dma, e) \in 0..N-1 /\ Distance(dma, d) \in 0..N-1
    BY <1>2, DistanceInRing
  <1>4. Distance(dma, e) = Distance(dma, d)
    BY <1>1, <1>3, RingSize
  <1>5. d = e
    BY <1>3, <1>4
  <1>6. QED  BY <1>1, <1>2, <1>5 DEF Pieces, Piece

(* The descriptors of the packet are complete with their marks. *)
LEMMA PrepareEndMarks ==
  ASSUME BInv, AInv, MInv, PrepareEnd
  PROVE  Pieces' /\ PreparedMarks' /\ SoFar' = SoFar
  <1> DEFINE l == Len(prepared)
  <1>1. /\ address' = [address EXCEPT ![Last(prepared)] = packet]
        /\ last' = last \union {Last(prepared)} /\ first' = first
        /\ own' = own /\ data' = data /\ dma' = dma /\ size' = size
        /\ prepared' = <<>> /\ phase = "prepare" /\ phase' = "idle" /\ l = size[packet]
    BY DEF PrepareEnd, packetVars
  <1>2. /\ l \in 1..N /\ Last(prepared) \in Descriptors
        /\ Last(prepared) = prepared[l]
        /\ packet \in Packets /\ NoPacket \notin Packets
    BY <1>1, PreparedPlaces, RingSize DEF Last
  <1>3. Complete' = own /\ Complete \subseteq own
    BY PrepareEndArc, ArcIs DEF AInv
  <1>4. address \in [Descriptors -> Packets \union {NoPacket}]
        /\ own \subseteq Descriptors /\ dma \in Descriptors /\ Owned \in 0..N
    BY EndIs DEF BInv, TypeOK
  <1>5. /\ \A i \in 1..l : prepared[i] \in Descriptors /\ address[prepared[i]] = NoPacket
        /\ \A i \in 1..l : data[prepared[i]] = <<packet, i>>
        /\ \A i \in 1..l : prepared[i] \in first => i = 1
        /\ \A i \in 1..l : i < l => prepared[i] \notin last
    BY <1>1, EndIs DEF BInv, Preparing, AInv, PreparedPlaced, MInv, PreparedMarks
  <1>6. \A i \in 1..l : i < l => prepared[i] # Last(prepared)
    BY <1>2, <1>5
  <1>7. PreparedMarks'
    BY <1>1 DEF PreparedMarks
  <1>8. ASSUME NEW d \in Complete
        PROVE  Piece(d)' /\ (d # dma => Follows(d)')
    <2>1. Piece(d) /\ (d # dma => Follows(d))
      BY DEF MInv, Pieces
    <2>2. \A e \in Complete : e # Last(prepared) /\ e \in Descriptors
      BY <1>2, EndIs, CompletePacket DEF AInv, Complete
    <2>3. Piece(d)'
      BY <1>1, <1>4, <2>1, <2>2 DEF Piece
    <2>4. d # dma => Follows(d)'
      BY <1>1, <1>3, <2>1, <2>2 DEF Follows
    <2>5. QED  BY <2>3, <2>4
  <1>9. ASSUME NEW i \in 1..l, NEW d \in own, d = prepared[i]
        PROVE  Piece(d)' /\ (d # dma => Follows(d)')
    <2>1. data[d] = <<packet, i>> /\ data[d][1] = packet /\ data[d][2] = i
      <3>1. data[d] = <<packet, i>>
        BY <1>5, <1>9
      <3>2. QED  BY <3>1
    <2>2. d \in last' <=> i = l
      BY <1>1, <1>2, <1>5, <1>6, <1>9
    <2>3. address'[d] = IF i = l THEN packet ELSE NoPacket
      BY <1>1, <1>2, <1>4, <1>5, <1>6, <1>9
    <2>4. Piece(d)'
      <3>1. i \in 1..size[packet] /\ (d \in first => i = 1)
        BY <1>1, <1>5, <1>9
      <3>2. QED  BY <1>1, <2>1, <2>2, <2>3, <3>1 DEF Piece
    <2>5. ASSUME d # dma PROVE Follows(d)'
      <3>1. /\ Distance(dma, d) = Owned - (l - i) - 1 /\ l - i < Owned
            /\ Distance(dma, d) \in 1..N-1
        <4>1. Distance(dma, d) = Owned - (l - i) - 1 /\ l - i < Owned
          BY <1>9, ArcIs DEF AInv
        <4>2. Distance(dma, d) \in 0..N-1 /\ Distance(dma, d) # 0
          BY <1>4, <2>5, DistanceInRing
        <4>3. Distance(dma, d) \in 1..N-1
          BY <4>2, RingSize
        <4>4. QED  BY <4>1, <4>3
      <3>2. PICK c \in Descriptors : c = At(dma, Distance(dma, d) - 1)
        BY <1>4, <3>1, AtIsDescriptor, RingSize
      <3>3. d = Succ(c) /\ Distance(dma, c) = Distance(dma, d) - 1
        BY <1>4, <3>1, <3>2, ArcEnd, AtIsDescriptor, RingSize
      <3>4. c \in own
        BY <1>4, <3>1, <3>3, RingSize DEF AInv, Arc
      <3>5. CASE i = 1
        <4>1. Distance(dma, c) = Owned - l - 1
          BY <1>2, <1>4, <3>1, <3>3, <3>5
        <4>2. \A e \in Descriptors :
                e \in Complete <=> Distance(dma, e) < Owned - l
          <5>1. \A e \in Descriptors :
                  e \in Complete <=> Distance(dma, e) + Len(prepared) < Owned
            BY ArcIs DEF AInv
          <5>2. \A e \in Descriptors : Distance(dma, e) \in 0..N-1
            BY <1>4, DistanceInRing
          <5>3. ASSUME NEW e \in Descriptors
                PROVE  e \in Complete <=> Distance(dma, e) < Owned - Len(prepared)
            <6>1. Distance(dma, e) \in Nat /\ Owned \in Nat /\ Len(prepared) \in Nat
              BY <1>2, <1>4, <5>2, RingSize
            <6>2. QED  BY <5>1, <6>1
          <5>4. QED  BY <5>3
        <4>3. c \in Complete
          BY <1>2, <1>4, <4>1, <4>2
        <4>4. \A e \in Complete : Distance(dma, e) <= Distance(dma, c)
          <5>1. \A e \in Descriptors : Distance(dma, e) \in 0..N-1
            BY <1>4, DistanceInRing
          <5>2. QED  BY <1>2, <1>3, <1>4, <4>1, <4>2, <5>1, RingSize
        <4>5. c \in last
          BY <4>3, <4>4, LastEnds DEF MInv
        <4>6. QED  BY <1>1, <1>3, <2>1, <3>3, <3>4, <3>5, <4>5 DEF Follows
      <3>6. CASE i > 1
        <4> DEFINE j == i - 1
        <4>1. j \in 1..l /\ j < l /\ l - j = l - i + 1
          BY <1>2, <3>6
        <4>2. l - j < Owned
          BY <1>2, <1>4, <3>1, <4>1
        <4>3. prepared[j] \in own
              /\ Distance(dma, prepared[j]) = Owned - (l - j) - 1
          <5> HIDE DEF j
          <5>1. QED  BY <4>1, <4>2, ArcIs DEF AInv
        <4>4. Distance(dma, prepared[j]) = Distance(dma, c)
          BY <1>2, <1>4, <3>1, <3>3, <4>1, <4>3
        <4>5. c = prepared[j]
          <5> HIDE DEF j
          <5>1. c = At(dma, Distance(dma, c))
                /\ prepared[j] = At(dma, Distance(dma, prepared[j]))
            BY <1>4, <1>5, <4>1, DistanceInRing
          <5>2. QED  BY <4>4, <5>1
        <4>6. c \notin last'
          <5> HIDE DEF j
          <5>1. QED  BY <1>1, <1>5, <1>6, <4>1, <4>5
        <4>7. data[c] = <<packet, j>> /\ data[c][1] = packet /\ data[c][2] + 1 = i
          <5>1. data[c] = <<packet, j>>
            <6> HIDE DEF j
            <6>1. QED  BY <1>5, <4>1, <4>5
          <5>2. QED  BY <5>1
        <4>8. QED  BY <1>1, <1>3, <2>1, <3>3, <3>4, <4>6, <4>7 DEF Follows
      <3>7. QED  BY <3>5, <3>6
    <2>6. QED  BY <2>4, <2>5
  <1>10. \A d \in own : d \in Complete \/ \E i \in 1..l : d = prepared[i]
    BY ArcIs DEF AInv
  <1>11. \A d \in own : Piece(d)' /\ (d # dma => Follows(d)')
    BY <1>8, <1>9, <1>10
  <1>12. Pieces'
    BY <1>1, <1>3, <1>11 DEF Pieces
  <1>13. SoFar' = SoFar
    <2>1. CASE dma \in Complete
      BY <1>1, <1>3, <2>1 DEF SoFar, Buffered
    <2>2. CASE dma \notin own
      <3>1. Read = size[packet] /\ dma \notin Complete
        BY <1>1, <1>3, <2>2, DmaIs DEF AInv
      <3>2. SoFar = <<>>
        BY <1>2, <1>1, <3>1 DEF SoFar
      <3>3. QED  BY <1>1, <1>3, <2>2, <3>2 DEF SoFar
    <2>3. CASE dma \in own /\ dma \notin Complete
      <3>1. Read + 1 \in 1..l /\ dma = prepared[Read + 1] /\ Read \in 0..l
        BY <2>3, DmaIs DEF AInv
      <3>2. data[dma] = <<packet, Read + 1>>
        BY <1>5, <3>1
      <3>3. data[dma][1] = packet /\ data[dma][2] - 1 = Read /\ Read < size[packet]
        BY <1>1, <1>2, <3>1, <3>2
      <3>4. SoFar = Buffered(packet, Read)
        BY <1>1, <2>3, <3>3 DEF SoFar
      <3>5. SoFar' = Buffered(data[dma][1], data[dma][2] - 1)
        BY <1>1, <1>3, <2>3 DEF SoFar, Buffered
      <3>6. QED  BY <3>3, <3>4, <3>5
    <2>4. QED  BY <2>1, <2>2, <2>3
  <1>14. QED  BY <1>7, <1>12, <1>13

(* The buffer the DMA comes to is the next one of its packet. *)
LEMMA NextBuffer ==
  ASSUME BInv, AInv, MInv, dma \in own
  PROVE  \E p \in Packets, n \in 1..MaxBuffers :
           /\ data[dma] = <<p, n>> /\ n \in 1..size[p]
           /\ SoFar = Buffered(p, n - 1)
           /\ dma \in first => n = 1
           /\ dma \in Complete => (dma \in last <=> n = size[p])
           /\ dma \notin Complete =>
                /\ dma \in ToSet(prepared) /\ p = packet /\ n = Read + 1
                /\ n \in 1..Len(prepared) /\ phase = "prepare"
  <1>1. CASE dma \in Complete
    <2>1. /\ data[dma] = <<data[dma][1], data[dma][2]>>
          /\ data[dma][1] \in Packets /\ data[dma][2] \in 1..MaxBuffers
      BY <1>1, CompletePacket DEF AInv
    <2>2. Piece(dma)
      BY <1>1 DEF MInv, Pieces
    <2>3. SoFar = Buffered(data[dma][1], data[dma][2] - 1)
      BY <1>1 DEF SoFar
    <2>4. QED  BY <1>1, <2>1, <2>2, <2>3 DEF Piece
  <1>2. CASE dma \notin Complete
    <2> DEFINE n == Read + 1
    <2>1. /\ n \in 1..Len(prepared) /\ dma = prepared[n] /\ Read \in 0..Len(prepared)
          /\ Len(prepared) \in 0..N
      BY <1>2, DmaIs, EndIs DEF AInv
    <2>2. phase = "prepare"
      BY <2>1, EndIs DEF BInv, Preparing
    <2>3. /\ Len(prepared) <= size[packet] /\ packet \in Packets
          /\ size[packet] \in 0..MaxBuffers
      BY <2>2, PreparedPlaces DEF BInv, TypeOK, Preparing
    <2>4. data[dma] = <<packet, n>>
      <3> HIDE DEF n
      <3>1. QED  BY <2>1 DEF AInv, PreparedPlaced
    <2>5. dma \in first => n = 1
      <3> HIDE DEF n
      <3>1. QED  BY <2>1 DEF MInv, PreparedMarks
    <2>6. dma \in ToSet(prepared)
      BY <1>2 DEF Complete
    <2>7. n \in 1..size[packet] /\ n \in 1..MaxBuffers /\ n - 1 = Read /\ Read < size[packet]
      BY <2>1, <2>3, RingSize
    <2>8. SoFar = Buffered(packet, Read)
      BY <1>2, <2>2, <2>7 DEF SoFar
    <2>9. SoFar = Buffered(packet, n - 1)
      BY <2>7, <2>8
    <2> HIDE DEF n
    <2>10. QED
      BY <1>2, <2>1, <2>2, <2>3, <2>4, <2>5, <2>6, <2>7, <2>9 DEF n
  <1>3. QED  BY <1>1, <1>2

(* What is left of the descriptors when the DMA moves on. *)
LEMMA DmaMovesMarks ==
  ASSUME BInv, AInv, MInv, DmaMoves
  PROVE  Pieces' /\ PreparedMarks'
  <1>1. /\ own' = own \ {dma} /\ dma' = Succ(dma)
        /\ first' = first /\ last' = last /\ data' = data /\ address' = address
        /\ prepared' = prepared /\ size' = size
    BY DEF DmaMoves, listVars, packetVars
  <1>2. Complete' = Complete \ {dma}
    BY DmaMovesArc DEF AInv
  <1>3. PreparedMarks'
    BY <1>1 DEF MInv, PreparedMarks
  <1>4. ASSUME NEW d \in Complete, d # dma
        PROVE  Piece(d)' /\ (d # Succ(dma) => Follows(d)')
    <2>1. Piece(d) /\ Follows(d)
      BY <1>4 DEF MInv, Pieces
    <2>2. Piece(d)'
      BY <1>1, <2>1 DEF Piece
    <2>3. d # Succ(dma) => Follows(d)'
      BY <1>1, <1>2, <2>1 DEF Follows
    <2>4. QED  BY <2>2, <2>3
  <1>5. Pieces'
    BY <1>1, <1>2, <1>4 DEF Pieces
  <1>6. QED  BY <1>3, <1>5

(* And what it has gone past. *)
LEMMA DmaMovesSoFar ==
  ASSUME BInv, BInv', AInv, AInv', MInv, DmaMoves,
         NEW p, NEW n \in Nat \ {0}, data[dma] = <<p, n>>,
         dma \in last <=> n = size[p],
         dma \notin Complete => p = packet /\ n = Read + 1 /\ phase = "prepare"
                                /\ n \in 1..size[p]
  PROVE  SoFar' = IF dma \in last THEN <<>> ELSE Buffered(p, n)
  <1>1. /\ own' = own \ {dma} /\ dma' = Succ(dma) /\ dma \in own
        /\ data' = data /\ prepared' = prepared /\ size' = size
        /\ packet' = packet /\ phase' = phase
    BY DEF DmaMoves, listVars, packetVars
  <1>2. /\ Complete' = Complete \ {dma} /\ Owned' = Owned - 1 /\ Owned \in 1..N
        /\ Len(prepared) \in 0..N
    BY DmaMovesArc, EndIs DEF AInv
  <1>3. dma \in Descriptors /\ Succ(dma) \in Descriptors /\ Complete \subseteq Descriptors
        /\ \A d \in Descriptors : Distance(dma, d) \in 0..N-1
    BY EndIs, ArcIs, SuccIsDescriptor, DistanceInRing DEF AInv
  <1>4. data[dma][1] = p /\ data[dma][2] = n
    OBVIOUS
  <1>5. CASE Succ(dma) \in Complete'
    <2>1. Succ(dma) \in Complete /\ Succ(dma) # dma
      BY <1>2, <1>5
    <2>2. PICK c \in Complete :
            /\ Succ(dma) = Succ(c)
            /\ IF c \in last THEN data[Succ(dma)][2] = 1
                             ELSE data[Succ(dma)] = <<data[c][1], data[c][2] + 1>>
      BY <2>1 DEF MInv, Pieces, Follows
    <2>3. c = dma
      BY <1>3, <2>2, RingSize DEF Descriptors, Succ
    <2>4. SoFar' = Buffered(data[Succ(dma)][1], data[Succ(dma)][2] - 1)
      BY <1>1, <1>5 DEF SoFar, Buffered
    <2>5. CASE dma \in last
      <3>1. data[Succ(dma)][2] - 1 = 0
        BY <2>2, <2>3, <2>5
      <3>2. QED  BY <2>4, <2>5, <3>1, NoneBuffered
    <2>6. CASE dma \notin last
      <3>1. data[Succ(dma)] = <<p, n + 1>>
        BY <1>4, <2>2, <2>3, <2>6
      <3>2. data[Succ(dma)][1] = p /\ data[Succ(dma)][2] - 1 = n
        BY <3>1
      <3>3. QED  BY <2>4, <2>6, <3>2
    <2>7. QED  BY <2>5, <2>6
  <1>6. CASE Succ(dma) \notin Complete' /\ dma \in Complete
    <2>1. \A d \in Descriptors : d \in Complete <=> Distance(dma, d) + Len(prepared) < Owned
      BY ArcIs DEF AInv
    <2>2. \A d \in Complete : d = dma
      <3>1. SUFFICES ASSUME NEW d \in Complete, d # dma PROVE FALSE
        OBVIOUS
      <3>2. Distance(dma, d) \in 1..N-1 /\ Distance(dma, d) + Len(prepared) < Owned
        BY <1>3, <2>1, <3>1, DistanceInRing
      <3>3. N > 1 /\ Succ(dma) # dma /\ Distance(dma, Succ(dma)) = 1
        BY <1>3, <3>2, RingSize DEF Descriptors, Succ, Distance
      <3>4. Succ(dma) \in Complete
        BY <1>2, <1>3, <2>1, <3>2, <3>3
      <3>5. QED  BY <1>2, <1>6, <3>3, <3>4
    <2>3. dma \in last
      <3>1. \A e \in Complete : Distance(dma, e) <= Distance(dma, dma)
        BY <1>3, <2>2
      <3>2. QED  BY <1>6, <3>1, LastEnds DEF MInv
    <2>4. Read' = 0
      <3>1. Read' \in 0..Len(prepared) /\ Len(prepared) < Owned
        BY <1>1, <1>2, <1>3, <1>6, <2>1, DistanceInRing DEF Read
      <3>2. ~(Owned' < Len(prepared'))
        BY <1>1, <1>2, <3>1
      <3>3. QED  BY <3>2 DEF Read
    <2>5. SoFar' = <<>>
      BY <1>1, <1>6, <2>4, NoneBuffered DEF SoFar
    <2>6. QED  BY <2>3, <2>5
  <1>7. CASE dma \notin Complete
    <2>1. dma' \notin Complete'
      <3>1. \A d \in Descriptors : d \in Complete <=> Distance(dma, d) + Len(prepared) < Owned
        BY ArcIs DEF AInv
      <3>2. ~(Len(prepared) < Owned)
        BY <1>2, <1>3, <1>7, <3>1, DistanceInRing
      <3>3. Complete = {}
        BY <1>2, <1>3, <3>1, <3>2, RingSize
      <3>4. QED  BY <1>2, <3>3
    <2>2. Read' = Read + 1
      <3>1. Owned <= Len(prepared)
        <4>1. \A d \in Descriptors : d \in Complete <=> Distance(dma, d) + Len(prepared) < Owned
          BY ArcIs DEF AInv
        <4>2. QED  BY <1>2, <1>3, <1>7, <4>1, DistanceInRing
      <3>2. QED  BY <1>1, <1>2, <3>1 DEF Read
    <2>3. /\ SoFar' = IF Read + 1 < size[packet] THEN Buffered(packet, Read + 1) ELSE <<>>
      BY <1>1, <1>7, <2>1, <2>2 DEF SoFar, Buffered
    <2>4. /\ p = packet /\ n = Read + 1 /\ n \in 1..size[p] /\ phase = "prepare"
      BY <1>7
    <2>5. size[p] \in Nat
      <3>1. packet \in Packets
        BY <2>4, PreparedPlaces
      <3>2. size \in [Packets -> 0..MaxBuffers]
        BY DEF BInv, TypeOK
      <3>3. QED  BY <2>4, <3>1, <3>2, RingSize
    <2>6. Read + 1 < size[packet] <=> dma \notin last
      BY <2>4, <2>5
    <2>7. QED  BY <2>3, <2>4, <2>6
  <1>8. QED  BY <1>5, <1>6, <1>7

(* What the DMA sends is the beginning of a packet, or the whole of it. *)
LEMMA DmaSendsMarks ==
  ASSUME BInv, BInv', AInv, AInv', MInv, DmaSends, ~misread'
  PROVE  \E p \in Packets, n \in 1..MaxBuffers :
           /\ data[dma] = <<p, n>> /\ n \in 1..size[p]
           /\ dma \in last <=> n = size[p]
           /\ IF dma \in last
              THEN frame' = <<>> /\ sent' = Buffered(p, n) /\ sentNumber' = number[p]
              ELSE frame' = Buffered(p, n) /\ sent' = sent /\ sentNumber' = sentNumber
           /\ frame' = SoFar'
  <1>1. PICK p \in Packets, n \in 1..MaxBuffers :
           /\ data[dma] = <<p, n>> /\ n \in 1..size[p]
           /\ SoFar = Buffered(p, n - 1)
           /\ dma \in first => n = 1
           /\ dma \in Complete => (dma \in last <=> n = size[p])
           /\ dma \notin Complete =>
                /\ dma \in ToSet(prepared) /\ p = packet /\ n = Read + 1
                /\ n \in 1..Len(prepared) /\ phase = "prepare"
    BY NextBuffer DEF DmaSends
  <1>2. n \in Nat \ {0} /\ data[dma][2] = n
    BY <1>1
  <1>3. dma \in last <=> n = size[p]
    <2>1. dma \in ToSet(prepared) => (dma \in last <=> data[dma][2] = size[packet])
      BY DEF DmaSends
    <2>2. QED  BY <1>1, <1>2, <2>1
  <1> DEFINE whole == IF dma \in first THEN <<data[dma]>> ELSE Append(frame, data[dma])
  <1>4. whole = Buffered(p, n)
    <2>1. CASE dma \in first
      <3>1. whole = <<<<p, 1>>>> /\ n = 1
        BY <1>1, <2>1
      <3> HIDE DEF whole
      <3>2. QED  BY <3>1, BufferedAppend
    <2>2. CASE dma \notin first
      <3>1. frame = Buffered(p, n - 1)
        BY <1>1, <2>2 DEF DmaSends, MInv, FrameSoFar
      <3>2. QED  BY <1>1, <1>2, <2>2, <3>1, BufferedAppend
    <2>3. QED  BY <2>1, <2>2
  <1>5. IF dma \in last
        THEN frame' = <<>> /\ sent' = whole /\ sentNumber' = number[whole[1][1]]
        ELSE frame' = whole /\ sent' = sent /\ sentNumber' = sentNumber
    BY DEF DmaSends
  <1> HIDE DEF whole
  <1>6. whole[1][1] = p
    <2>1. whole[1] = <<p, 1>>
      BY <1>2, <1>4, BufferedAppend
    <2>2. QED  BY <2>1
  <1>7. SoFar' = IF dma \in last THEN <<>> ELSE Buffered(p, n)
    BY <1>1, <1>2, <1>3, DmaSteps, DmaMovesSoFar
  <1>8. QED  BY <1>1, <1>3, <1>4, <1>5, <1>6, <1>7

LEMMA MInvStep ==
  ASSUME BInv, BInv', AInv, AInv', MInv, [Next]_vars, ~torn', ~misread'
  PROVE  MInv'
  <1>1. CASE SendBegin
    BY <1>1, SendBeginMarks DEF SendBegin, dmaVars, MInv, FrameSoFar
  <1>2. CASE PrepareNext
    BY <1>2, PrepareNextMarks DEF PrepareNext, dmaVars, MInv, FrameSoFar
  <1>3. CASE PrepareFails
    BY <1>3, PrepareFailsMarks DEF PrepareFails, dmaVars, MInv, FrameSoFar
  <1>4. CASE PrepareEnd
    BY <1>4, PrepareEndMarks DEF PrepareEnd, MInv, FrameSoFar
  <1>5. CASE DmaSends
    BY <1>5, DmaSteps, DmaMovesMarks, DmaSendsMarks DEF MInv, FrameSoFar
  <1>6. CASE DmaDrops
    <2>1. frame' = <<>>
      BY <1>6 DEF DmaDrops
    <2>2. QED  BY <1>6, <2>1, DmaSteps, DmaMovesMarks DEF MInv, FrameSoFar
  <1>7. CASE ReleasePacket
    BY <1>7, ReleasePacketMarks DEF ReleasePacket, dmaVars, MInv, FrameSoFar
  <1>8. CASE /\ UNCHANGED StillVars /\ frame' \in {frame, <<>>}
             /\ phase' = phase \/ (phase # "prepare" /\ phase' # "prepare")
    BY <1>8, StillMarks DEF MInv, FrameSoFar
  <1>9. DmaSuspends \/ Stop =>
             /\ UNCHANGED StillVars /\ frame' \in {frame, <<>>}
             /\ phase' = phase \/ (phase # "prepare" /\ phase' # "prepare")
    BY DEF Stop, DmaSuspends, descVars, listVars, packetVars, StillVars
  <1>10. QED
    BY <1>1, <1>2, <1>3, <1>4, <1>5, <1>6, <1>7, <1>8, <1>9, StepKinds

LEMMA InitMInv == Init => MInv
  <1> SUFFICES ASSUME Init PROVE MInv
    OBVIOUS
  <1>1. Complete = {} /\ prepared = <<>> /\ frame = <<>>
    BY DEF Init, Complete
  <1>2. QED  BY <1>1 DEF MInv, Pieces, PreparedMarks, FrameSoFar

(* Whatever leaves is a packet that was sent, its whole chain in order,    *)
(* also after packets that were taken back untouched, and next to packets  *)
(* that have lost the mark FS: they leave nothing in the frames after      *)
(* them.  It takes a torn packet, or a mark LS that the DMA reads before   *)
(* it is right, to break that.                                             *)
THEOREM SentAreWhole == SafeSpec => []SentIsWhole
  <1> DEFINE Good == ~torn /\ ~misread
             Inv  == BInv /\ (~torn => AInv) /\ (Good => MInv) /\ SentIsWhole
  <1>1. Init => Inv
    BY InitBInv, InitAInv, InitMInv DEF Init, SentIsWhole
  <1>2. Inv /\ [Next]_vars => Inv'
    <2> SUFFICES ASSUME Inv, [Next]_vars PROVE Inv'
      OBVIOUS
    <2>1. BInv' /\ (~torn' => ~torn) /\ (~misread' => ~misread)
      BY BInvStep, HistoryGrows
    <2>2. ~torn' => AInv'
      BY <2>1, AInvStep
    <2>3. Good' => MInv'
      BY <2>1, <2>2, MInvStep
    <2>4. ASSUME Good' PROVE SentIsWhole'
      <3>1. CASE DmaSends
        <4>1. PICK p \in Packets, n \in 1..MaxBuffers :
                sent' = Buffered(p, n) \/ sent' = sent
          BY <2>1, <2>2, <2>4, <3>1, DmaSendsMarks
        <4>2. QED  BY <2>1, <2>4, <4>1 DEF SentIsWhole, Buffered
      <3>2. CASE ~DmaSends
        <4>1. sent' = sent
          BY <3>2, StepKinds DEF SendBegin, PrepareNext, PrepareFails, PrepareEnd,
             DmaDrops, DmaSuspends, ReleasePacket, Stop, dmaVars
        <4>2. QED  BY <2>1, <2>4, <4>1 DEF SentIsWhole
      <3>3. QED  BY <3>1, <3>2
    <2>5. SentIsWhole'
      BY <2>4 DEF SentIsWhole
    <2>6. QED  BY <2>1, <2>2, <2>3, <2>5
  <1>3. Inv => SentIsWhole
    OBVIOUS
  <1>4. QED  BY <1>1, <1>2, <1>3, PTL DEF SafeSpec
-----------------------------------------------------------------------------
(***************************************************************************)
(* The order.  As long as nothing goes wrong between the HAL and the DMA,  *)
(* no frame is dropped, and packets that are not sent lie in the ring in   *)
(* the order in which they were accepted.                                  *)
(***************************************************************************)
FInv == WaitingIsMarked /\ frame = SoFar

(* The descriptors that end a packet the DMA has not sent. *)
Unsent == {d \in own : data[d][2] = size[data[d][1]]}

(* Sends are numbered: a packet that is prepared is the last one. *)
Seen == IF Unfinished THEN sends - 1 ELSE sends

Numbered ==
  /\ Unfinished => number[packet] = sends
  /\ \A d \in Unsent : number[data[d][1]] <= Seen

(* The numbers grow from the descriptor the DMA uses next. *)
Growing ==
  \A d, e \in Unsent :
    Distance(dma, d) < Distance(dma, e) => number[data[d][1]] < number[data[e][1]]

SInv == AInv /\ MInv /\ FInv /\ Numbered /\ Growing
-----------------------------------------------------------------------------
LEMMA OwnedFacts ==
  ASSUME BInv, AInv
  PROVE  /\ own \subseteq Descriptors
         /\ \A d \in own : /\ data[d][1] \in held /\ data[d][1] \in Packets
                           /\ number[data[d][1]] \in Nat
                           /\ data[d] = <<data[d][1], data[d][2]>>
                           /\ Distance(dma, d) \in Nat /\ Distance(dma, d) < Owned
         /\ sends \in Nat /\ sends <= MaxSends /\ Owned \in 0..N
         /\ dma \in Descriptors
  <1>1. /\ own \subseteq Descriptors /\ dma \in Descriptors /\ held \subseteq Packets
        /\ number \in [Packets -> 0..MaxSends] /\ sends \in 0..MaxSends
        /\ Owned \in 0..N
    BY EndIs DEF BInv, TypeOK
  <1>2. ASSUME NEW d \in own
        PROVE  data[d][1] \in held /\ data[d] = <<data[d][1], data[d][2]>>
    <2>1. data[d][1] \in held
      BY ReleasedHolds
    <2>2. data[d] \in Buffers
      BY DEF BInv, Written
    <2>3. QED  BY <2>1, <2>2 DEF Buffers
  <1>3. \A d \in own : number[data[d][1]] \in Nat
    BY <1>1, <1>2, RingSize
  <1>4. \A d \in own : Distance(dma, d) \in Nat /\ Distance(dma, d) < Owned
    <2>1. \A d \in Descriptors : Distance(dma, d) \in 0..N-1
      BY <1>1, DistanceInRing
    <2>2. \A d \in Descriptors : d \in own => Distance(dma, d) < Owned
      BY DEF AInv, Arc
    <2>3. QED  BY <1>1, <2>1, <2>2, RingSize
  <1>5. QED  BY <1>1, <1>2, <1>3, <1>4, RingSize

LEMMA FInvStep ==
  ASSUME BInv, BInv', AInv, AInv', MInv, FInv, [Next]_vars, Sound'
  PROVE  FInv' /\ ~DmaDrops
  <1>1. ~torn' /\ ~misread' /\ ~unmarked'
    BY DEF Sound
  <1>2. CASE SendBegin
    <2>1. PICK p \in Packets : data' = [data EXCEPT ![curTxDesc] = <<p, 1>>]
      BY <1>2 DEF SendBegin
    <2>2. /\ first' = first \union {curTxDesc} /\ own' = own \union {curTxDesc}
          /\ frame' = frame /\ data \in [Descriptors -> Buffers \union {<<>>}]
          /\ own \subseteq Descriptors
      BY <1>2 DEF SendBegin, dmaVars, BInv, TypeOK
    <2>3. WaitingIsMarked'
      BY <2>1, <2>2 DEF FInv, WaitingIsMarked
    <2>4. QED  BY <1>2, <2>2, <2>3, SendBeginMarks DEF FInv, SendBegin, DmaDrops
  <1>3. CASE PrepareNext
    <2>1. /\ first' = first \ {NextDesc} /\ own' = own \union {NextDesc}
          /\ data' = [data EXCEPT ![NextDesc] = <<packet, Len(prepared) + 1>>]
          /\ frame' = frame /\ NextDesc \notin own
      BY <1>3 DEF PrepareNext, Busy, dmaVars
    <2>2. /\ data \in [Descriptors -> Buffers \union {<<>>}] /\ own \subseteq Descriptors
          /\ NextDesc \in Descriptors /\ Len(prepared) \in 1..N
      BY <1>3, PreparedPlaces DEF PrepareNext, BInv, TypeOK
    <2>3. data'[NextDesc][2] # 1
      <3>1. data'[NextDesc] = <<packet, Len(prepared) + 1>>
        BY <2>1, <2>2
      <3>2. data'[NextDesc][2] = Len(prepared) + 1
        BY <3>1
      <3>3. QED  BY <2>2, <3>2, RingSize
    <2>4. \A d \in own : d # NextDesc /\ data'[d] = data[d]
      BY <2>1, <2>2
    <2>5. WaitingIsMarked'
      BY <2>1, <2>3, <2>4 DEF FInv, WaitingIsMarked
    <2>6. QED  BY <1>3, <2>1, <2>5, PrepareNextMarks DEF FInv, PrepareNext, DmaDrops
  <1>4. CASE PrepareFails
    <2>1. /\ first' = first \ {NextDesc} /\ own' \subseteq own /\ data' = data
          /\ frame' = frame /\ NextDesc \notin own \intersect first
      BY <1>1, <1>4 DEF PrepareFails, dmaVars
    <2>2. WaitingIsMarked'
      BY <2>1 DEF FInv, WaitingIsMarked
    <2>3. QED
      BY <1>1, <1>4, <2>1, <2>2, PrepareFailsMarks DEF FInv, PrepareFails, DmaDrops
  <1>5. CASE PrepareEnd
    BY <1>5, PrepareEndMarks DEF PrepareEnd, DmaDrops, FInv, WaitingIsMarked
  <1>6. CASE DmaSends
    <2>1. frame' = SoFar'
      BY <1>1, <1>6, DmaSendsMarks
    <2>2. own' \subseteq own /\ first' = first /\ data' = data /\ dma \in own
      BY <1>6 DEF DmaSends
    <2>3. ~DmaDrops
      BY <1>6 DEF DmaSends, DmaDrops
    <2>4. QED  BY <2>1, <2>2, <2>3 DEF FInv, WaitingIsMarked
  <1>7. CASE DmaDrops
    <2>1. dma \in own /\ dma \notin first /\ frame = <<>>
      BY <1>7 DEF DmaDrops
    <2>2. PICK p \in Packets, n \in 1..MaxBuffers :
            data[dma] = <<p, n>> /\ SoFar = Buffered(p, n - 1)
      BY <2>1, NextBuffer
    <2>3. n # 1
      <3>1. data[dma][2] = n
        BY <2>2
      <3>2. QED  BY <2>1, <3>1 DEF FInv, WaitingIsMarked
    <2>4. n - 1 \in Nat \ {0}
      BY <2>3, RingSize
    <2>5. Buffered(p, n - 1) # <<>>
      BY <2>4, BufferedAppend
    <2>6. QED  BY <2>1, <2>2, <2>5 DEF FInv
  <1>8. CASE ReleasePacket
    BY <1>8, ReleasePacketMarks
       DEF ReleasePacket, DmaDrops, descVars, dmaVars, FInv, WaitingIsMarked
  <1>9. CASE Stop
    <2>1. /\ UNCHANGED StillVars /\ phase' = phase /\ phase = "idle" /\ frame' = <<>>
          /\ frame = <<>> \/ suspended
      BY <1>9 DEF Stop, descVars, listVars, packetVars, StillVars
    <2>2. SoFar' = SoFar
      BY <2>1, StillMarks
    <2>3. SoFar = <<>>
      <3>1. CASE frame = <<>>
        BY <3>1 DEF FInv
      <3>2. CASE suspended
        <4>1. dma \notin Complete
          BY <3>2 DEF AInv, SuspendedBehind
        <4>2. QED  BY <2>1, <4>1 DEF SoFar
      <3>3. QED  BY <2>1, <3>1, <3>2
    <2>4. WaitingIsMarked'
      BY <2>1 DEF StillVars, FInv, WaitingIsMarked
    <2>5. ~DmaDrops
      BY <1>9 DEF Stop, DmaDrops
    <2>6. QED  BY <2>1, <2>2, <2>3, <2>4, <2>5 DEF FInv
  <1>10. CASE /\ UNCHANGED StillVars /\ frame' = frame
              /\ phase' = phase \/ (phase # "prepare" /\ phase' # "prepare")
    <2>1. FInv'
      BY <1>10, StillMarks DEF StillVars, FInv, WaitingIsMarked
    <2>2. ~DmaDrops
      <3>1. own' = own
        BY <1>10 DEF StillVars
      <3>2. QED  BY <3>1 DEF DmaDrops
    <2>3. QED  BY <2>1, <2>2
  <1>11. DmaSuspends =>
              /\ UNCHANGED StillVars /\ frame' = frame
              /\ phase' = phase \/ (phase # "prepare" /\ phase' # "prepare")
    BY DEF DmaSuspends, descVars, listVars, packetVars, StillVars
  <1>12. QED
    BY <1>2, <1>3, <1>4, <1>5, <1>6, <1>7, <1>8, <1>9, <1>10, <1>11, StepKinds
-----------------------------------------------------------------------------
(* A step that leaves alone what is not sent. *)
Kept ==
  /\ Unsent' = Unsent /\ dma' = dma
  /\ \A d \in Unsent : number'[data'[d][1]] = number[data[d][1]]

LEMMA KeptStep ==
  ASSUME Growing, Kept
  PROVE  Growing' /\ Waiting' = Waiting
  <1>1. Growing'
    BY DEF Growing, Kept, Distance
  <1>2. Waiting' = {number'[data'[d][1]] : d \in Unsent'}
    BY DEF Waiting, Unsent
  <1>3. Waiting' = Waiting
    BY <1>2 DEF Waiting, Unsent, Kept
  <1>4. QED  BY <1>1, <1>3

(* The DMA gets descriptor k, for a buffer of the packet with the highest  *)
(* number: the packet is accepted when it is the last one.                 *)
LEMMA GivenStep ==
  ASSUME BInv, AInv, Growing, NEW k \in Descriptors, NEW s \in Nat,
         k \notin own, own' = own \union {k}, dma' = dma,
         Distance(dma, k) = Owned, number'[data'[k][1]] = s,
         \A d \in own : /\ data'[d] = data[d]
                        /\ size'[data[d][1]] = size[data[d][1]]
                        /\ number'[data[d][1]] = number[data[d][1]],
         \A d \in Unsent : number[data[d][1]] < s
  PROVE  /\ Growing'
         /\ Unsent' = IF data'[k][2] = size'[data'[k][1]] THEN Unsent \union {k}
                                                         ELSE Unsent
         /\ \A d \in Unsent' : number'[data'[d][1]] <= s
         /\ Waiting' = IF data'[k][2] = size'[data'[k][1]] THEN Waiting \union {s}
                                                          ELSE Waiting
         /\ Cardinality(Waiting) < N
  <1>1. Unsent' = IF data'[k][2] = size'[data'[k][1]] THEN Unsent \union {k} ELSE Unsent
    BY DEF Unsent
  <1>2. /\ \A d \in Unsent : /\ d \in own /\ d # k
                             /\ number'[data'[d][1]] = number[data[d][1]]
                             /\ number[data[d][1]] \in Nat
                             /\ Distance(dma, d) < Owned /\ Distance(dma, d) \in Nat
        /\ Owned \in Nat
    BY OwnedFacts, RingSize DEF Unsent
  <1>3. Growing'
    <2>1. ASSUME NEW d \in Unsent', NEW e \in Unsent',
                 Distance(dma, d) < Distance(dma, e)
          PROVE  number'[data'[d][1]] < number'[data'[e][1]]
      <3>1. d # k
        BY <1>1, <1>2, <2>1
      <3>2. d \in Unsent
        BY <1>1, <3>1
      <3>3. CASE e = k
        BY <1>2, <3>2, <3>3
      <3>4. CASE e # k
        <4>1. e \in Unsent
          BY <1>1, <3>4
        <4>2. QED  BY <1>2, <2>1, <3>2, <4>1 DEF Growing
      <3>5. QED  BY <3>3, <3>4
    <2>2. QED  BY <2>1 DEF Growing, Distance
  <1>4. \A d \in Unsent' : number'[data'[d][1]] <= s
    BY <1>1, <1>2
  <1>5. Waiting = {number[data[d][1]] : d \in Unsent}
    BY DEF Waiting, Unsent
  <1>6. Waiting' = IF data'[k][2] = size'[data'[k][1]] THEN Waiting \union {s} ELSE Waiting
    <2>1. Waiting' = {number'[data'[d][1]] : d \in Unsent'}
      BY DEF Waiting, Unsent
    <2>2. QED  BY <1>1, <1>2, <1>5, <2>1
  <1>7. Cardinality(Waiting) < N
    <2> DEFINE Others == Descriptors \ {k}
               Numbers == {number[data[d][1]] : d \in Unsent}
               numberOf == [d \in Unsent |-> number[data[d][1]]]
    <2>1. IsFiniteSet(Others) /\ Cardinality(Others) = N - 1
      <3>1. N \in Nat /\ N >= 1
        BY RingSize
      <3>2. IsFiniteSet(0..N-1) /\ Cardinality(0..N-1) = N
        BY <3>1, FS_Interval
      <3>3. IsFiniteSet(Descriptors) /\ Cardinality(Descriptors) = N
        BY <3>2 DEF Descriptors
      <3>4. QED  BY <3>3, FS_RemoveElement
    <2>2. Unsent \subseteq Others
      BY <1>2, OwnedFacts
    <2>3. /\ IsFiniteSet(Unsent) /\ Cardinality(Unsent) \in Nat
          /\ Cardinality(Unsent) <= N - 1
      BY <2>1, <2>2, FS_Subset, FS_CardinalityType
    <2>4. numberOf \in Surjection(Unsent, Numbers)
      BY DEF Surjection
    <2>5. IsFiniteSet(Numbers) /\ Cardinality(Numbers) <= Cardinality(Unsent)
      BY <2>3, <2>4, FS_Surjection
    <2> HIDE DEF Numbers
    <2>6. Cardinality(Numbers) \in Nat
      BY <2>5, FS_CardinalityType
    <2>7. Cardinality(Numbers) < N
      BY <2>3, <2>5, <2>6, RingSize
    <2>8. QED  BY <1>5, <2>7 DEF Numbers
  <1>8. QED  BY <1>1, <1>3, <1>4, <1>6, <1>7

(* Sending begins: a packet of one buffer is accepted at once. *)
LEMMA SendBeginOrder ==
  ASSUME BInv, BInv', SInv, SendBegin
  PROVE  /\ Numbered' /\ Growing'
         /\ \/ Seen' = Seen /\ Waiting' = Waiting
            \/ /\ Seen' = Seen + 1 /\ Waiting' = Waiting \union {Seen'}
               /\ Cardinality(Waiting) < N
  <1>1. PICK p \in Packets \ held, n \in 1..MaxBuffers :
          /\ packet' = p /\ size' = [size EXCEPT ![p] = n]
          /\ number' = [number EXCEPT ![p] = sends + 1]
          /\ data' = [data EXCEPT ![curTxDesc] = <<p, 1>>]
    BY DEF SendBegin
  <1>2. /\ phase = "idle" /\ phase' = "prepare" /\ prepared' = <<curTxDesc>>
        /\ sends' = sends + 1 /\ dma' = dma
        /\ own' = own \union {curTxDesc} /\ curTxDesc \notin own
        /\ Len(prepared') = 1
    BY DEF SendBegin, dmaVars, Accepts, Busy
  <1>3. AInv /\ Growing /\ Distance(dma, curTxDesc) = Owned
    BY SendBeginArc DEF SInv, AInv
  <1>4. /\ data \in [Descriptors -> Buffers \union {<<>>}] /\ curTxDesc \in Descriptors
        /\ size \in [Packets -> 0..MaxBuffers] /\ number \in [Packets -> 0..MaxSends]
        /\ sends \in Nat
    <2>1. sends \in Nat
      BY <1>3, OwnedFacts
    <2>2. QED  BY <2>1 DEF BInv, TypeOK
  <1>5. data'[curTxDesc] = <<p, 1>> /\ size'[p] = n /\ number'[p] = sends + 1
    BY <1>1, <1>4
  <1>6. data'[curTxDesc][1] = p /\ data'[curTxDesc][2] = 1
    BY <1>5
  <1>7. \A d \in own : /\ data'[d] = data[d]
                       /\ size'[data[d][1]] = size[data[d][1]]
                       /\ number'[data[d][1]] = number[data[d][1]]
    BY <1>1, <1>2, <1>3, <1>4, OwnedFacts
  <1>8. ~Unfinished /\ Seen = sends
    BY <1>2 DEF Unfinished, Seen
  <1>9. \A d \in Unsent : number[data[d][1]] < sends + 1
    BY <1>3, <1>4, <1>8, OwnedFacts DEF SInv, Numbered, Unsent
  <1>10. /\ Growing'
         /\ \A d \in Unsent' : number'[data'[d][1]] <= sends + 1
         /\ Waiting' = IF 1 = n THEN Waiting \union {sends + 1} ELSE Waiting
         /\ Unsent' = IF 1 = n THEN Unsent \union {curTxDesc} ELSE Unsent
         /\ Cardinality(Waiting) < N
    <2>1. sends + 1 \in Nat
      BY <1>4
    <2>2. QED
      BY <1>2, <1>3, <1>4, <1>5, <1>6, <1>7, <1>9, <2>1, GivenStep
  <1>11. /\ Unfinished' <=> n # 1
         /\ Seen' = IF n = 1 THEN sends + 1 ELSE sends
    <2>1. Unfinished' <=> 1 < n
      BY <1>1, <1>2, <1>5 DEF Unfinished
    <2>2. QED  BY <1>2, <1>4, <2>1 DEF Seen
  <1>12. Numbered'
    <2>1. CASE n = 1
      BY <1>2, <1>10, <1>11, <2>1 DEF Numbered
    <2>2. CASE n # 1
      <3>1. \A d \in Unsent : number'[data'[d][1]] = number[data[d][1]]
        BY <1>7 DEF Unsent
      <3>2. \A d \in Unsent : number[data[d][1]] <= sends
        BY <1>8 DEF SInv, Numbered
      <3>3. QED  BY <1>1, <1>2, <1>5, <1>10, <1>11, <2>2, <3>1, <3>2 DEF Numbered
    <2>3. QED  BY <2>1, <2>2
  <1>13. QED  BY <1>8, <1>10, <1>11, <1>12

(* The last buffer is given to the DMA: the packet is accepted. *)
LEMMA PrepareNextOrder ==
  ASSUME BInv, BInv', SInv, PrepareNext
  PROVE  /\ Numbered' /\ Growing'
         /\ \/ Seen' = Seen /\ Waiting' = Waiting
            \/ /\ Seen' = Seen + 1 /\ Waiting' = Waiting \union {Seen'}
               /\ Cardinality(Waiting) < N
  <1>1. /\ phase = "prepare" /\ phase' = phase /\ sends' = sends /\ dma' = dma
        /\ packet' = packet /\ size' = size /\ number' = number
        /\ Len(prepared) < size[packet]
        /\ data' = [data EXCEPT ![NextDesc] = <<packet, Len(prepared) + 1>>]
        /\ own' = own \union {NextDesc} /\ NextDesc \notin own
    BY DEF PrepareNext, dmaVars, packetVars, Busy
  <1>2. /\ AInv /\ Growing /\ Distance(dma, NextDesc) = Owned
        /\ Len(prepared') = Len(prepared) + 1
    BY PrepareNextArc DEF SInv, AInv
  <1>3. /\ data \in [Descriptors -> Buffers \union {<<>>}] /\ NextDesc \in Descriptors
        /\ size \in [Packets -> 0..MaxBuffers] /\ packet \in Packets
        /\ sends \in Nat /\ Len(prepared) \in Nat /\ own \subseteq Descriptors
    <2>1. /\ NextDesc \in Descriptors /\ packet \in Packets /\ Len(prepared) \in Nat
      BY <1>1, PreparedPlaces, RingSize
    <2>2. sends \in Nat
      BY <1>2, OwnedFacts
    <2>3. QED  BY <2>1, <2>2 DEF BInv, TypeOK
  <1>4. size[packet] \in Nat
    BY <1>3, RingSize
  <1>5. data'[NextDesc] = <<packet, Len(prepared) + 1>>
    BY <1>1, <1>3
  <1>6. data'[NextDesc][1] = packet /\ data'[NextDesc][2] = Len(prepared) + 1
    BY <1>5
  <1>7. \A d \in own : /\ data'[d] = data[d]
                       /\ size'[data[d][1]] = size[data[d][1]]
                       /\ number'[data[d][1]] = number[data[d][1]]
    BY <1>1, <1>3
  <1>8. Unfinished /\ Seen = sends - 1 /\ number[packet] = sends
    BY <1>1 DEF Unfinished, Seen, SInv, Numbered
  <1>9. \A d \in Unsent : number[data[d][1]] < sends
    BY <1>2, <1>3, <1>8, OwnedFacts DEF SInv, Numbered, Unsent
  <1>10. /\ Growing'
         /\ \A d \in Unsent' : number'[data'[d][1]] <= sends
         /\ Waiting' = IF Len(prepared) + 1 = size[packet] THEN Waiting \union {sends}
                                                          ELSE Waiting
         /\ Unsent' = IF Len(prepared) + 1 = size[packet] THEN Unsent \union {NextDesc}
                                                         ELSE Unsent
         /\ Cardinality(Waiting) < N
    BY <1>1, <1>2, <1>3, <1>6, <1>7, <1>8, <1>9, GivenStep
  <1>11. /\ Unfinished' <=> Len(prepared) + 1 # size[packet]
         /\ Seen' = IF Len(prepared) + 1 = size[packet] THEN sends ELSE sends - 1
    <2>1. Unfinished' <=> Len(prepared) + 1 < size[packet]
      BY <1>1, <1>2 DEF Unfinished
    <2>2. QED  BY <1>1, <1>3, <1>4, <2>1 DEF Seen
  <1>12. Numbered'
    <2>1. CASE Len(prepared) + 1 = size[packet]
      BY <1>10, <1>11, <2>1 DEF Numbered
    <2>2. CASE Len(prepared) + 1 # size[packet]
      <3>1. \A d \in Unsent : number'[data'[d][1]] = number[data[d][1]]
        BY <1>7 DEF Unsent
      <3>2. \A d \in Unsent : number[data[d][1]] <= sends - 1
        BY <1>8 DEF SInv, Numbered
      <3>3. QED  BY <1>1, <1>8, <1>10, <1>11, <2>2, <3>1, <3>2 DEF Numbered
    <2>3. QED  BY <2>1, <2>2
  <1>13. QED  BY <1>3, <1>8, <1>10, <1>11, <1>12

(* The DMA ends the packet with the lowest number, or no packet. *)
LEMMA DmaSendsOrder ==
  ASSUME BInv, BInv', SInv, AInv', DmaSends, ~misread'
  PROVE  /\ Numbered' /\ Growing' /\ Seen' = Seen
         /\ \/ Waiting' = Waiting /\ sent' = sent /\ sentNumber' = sentNumber
            \/ /\ sentNumber' \in Waiting /\ sent' # <<>>
               /\ \A g \in Waiting : sentNumber' <= g
               /\ Waiting' = Waiting \ {sentNumber'}
  <1>1. AInv /\ MInv /\ Numbered /\ Growing
    BY DEF SInv
  <1>2. PICK k \in Descriptors : k = dma
    BY <1>1, OwnedFacts
  <1>3. /\ own' = own \ {k} /\ dma' = Succ(k) /\ k \in own
        /\ UNCHANGED <<data, size, number, sends, packet, phase, prepared>>
    BY <1>2 DEF DmaSends, packetVars
  <1>4. PICK p \in Packets, n \in 1..MaxBuffers :
           /\ data[k] = <<p, n>>
           /\ k \in last <=> n = size[p]
           /\ IF k \in last
              THEN frame' = <<>> /\ sent' = Buffered(p, n) /\ sentNumber' = number[p]
              ELSE frame' = Buffered(p, n) /\ sent' = sent /\ sentNumber' = sentNumber
    BY <1>1, <1>2, DmaSendsMarks
  <1>5. data[k][1] = p /\ data[k][2] = n
    BY <1>4
  <1>6. k \in last <=> k \in Unsent
    BY <1>3, <1>4, <1>5 DEF Unsent
  <1>7. Unsent' = Unsent \ {k}
    BY <1>3 DEF Unsent
  <1>8. Seen' = Seen /\ Numbered'
    <2>1. (Unfinished' <=> Unfinished) /\ Seen' = Seen
      BY <1>3 DEF Unfinished, Seen
    <2>2. QED  BY <1>1, <1>3, <1>7, <2>1 DEF Numbered
  <1>9. \A d \in Unsent : d \in Descriptors /\ number[data[d][1]] \in Nat
    BY <1>1, OwnedFacts DEF Unsent
  <1>10. /\ \A d \in Descriptors : /\ Distance(k, d) \in 0..N-1
                                   /\ d # k => Distance(k, d) > 0
                                   /\ d # k => Distance(Succ(k), d) = Distance(k, d) - 1
         /\ Distance(k, k) = 0
    BY DistanceInRing
  <1>11. Growing'
    <2>1. ASSUME NEW d \in Unsent', NEW e \in Unsent',
                 Distance(Succ(k), d) < Distance(Succ(k), e)
          PROVE  number[data[d][1]] < number[data[e][1]]
      <3>1. d \in Unsent /\ e \in Unsent /\ Distance(k, d) < Distance(k, e)
        BY <1>7, <1>9, <1>10, <2>1
      <3>2. QED  BY <1>1, <1>2, <3>1 DEF Growing
    <2>2. QED  BY <1>3, <2>1 DEF Growing, Distance
  <1>12. /\ Waiting = {number[data[d][1]] : d \in Unsent}
         /\ Waiting' = {number[data[d][1]] : d \in Unsent \ {k}}
    <2>1. Waiting' = {number'[data'[d][1]] : d \in Unsent'}
      BY DEF Waiting, Unsent
    <2>2. QED  BY <1>3, <1>7, <2>1 DEF Waiting, Unsent
  <1>13. CASE k \in last
    <2>1. k \in Unsent /\ sentNumber' = number[data[k][1]]
      BY <1>4, <1>5, <1>6, <1>13
    <2>2. sent' # <<>>
      <3>1. n \in Nat \ {0} /\ sent' = Buffered(p, n)
        BY <1>4, <1>13, RingSize
      <3>2. QED  BY <3>1, BufferedAppend
    <2>3. \A d \in Unsent : d # k => number[data[k][1]] < number[data[d][1]]
      BY <1>1, <1>2, <1>9, <1>10, <2>1 DEF Growing
    <2> DEFINE f == number[data[k][1]]
    <2>4. f \in Waiting /\ Waiting' = Waiting \ {f}
      BY <1>9, <1>12, <2>1, <2>3
    <2>5. \A g \in Waiting : f <= g
      BY <1>9, <1>12, <2>1, <2>3
    <2>6. QED  BY <1>8, <1>11, <2>1, <2>2, <2>4, <2>5
  <1>14. CASE k \notin last
    <2>1. k \notin Unsent
      BY <1>6, <1>14
    <2>2. QED  BY <1>4, <1>8, <1>11, <1>12, <1>14, <2>1
  <1>15. QED  BY <1>13, <1>14

(* The other steps leave the packets that are not sent alone. *)
LEMMA OtherOrder ==
  ASSUME BInv, SInv, [Next]_vars, ~torn', ~SendBegin, ~PrepareNext, ~DmaSends, ~DmaDrops
  PROVE  /\ Numbered' /\ Growing' /\ Waiting' = Waiting
         /\ sent' = sent /\ sentNumber' = sentNumber
         /\ Seen' = Seen \/ (Seen' = Seen + 1 /\ Seen < MaxSends)
  <1>1. AInv /\ MInv /\ Numbered /\ Growing /\ sends \in Nat /\ sends <= MaxSends
    BY OwnedFacts DEF SInv
  <1>2. CASE PrepareFails
    <2>1. /\ own' = Complete /\ Undisturbed
      BY <1>1, <1>2, PrepareFailsArc, PrepareFailsQuiet DEF AInv
    <2>2. /\ Unfinished /\ ~Unfinished' /\ sends' = sends /\ data' = data
      BY <1>2 DEF PrepareFails, Unfinished
    <2>3. Unsent \subseteq Complete
      <3>1. ASSUME NEW d \in own, d \notin Complete
            PROVE  d \notin Unsent
        <4>1. PICK i \in 1..Len(prepared) : d = prepared[i]
          BY <1>1, <3>1, ArcIs DEF AInv
        <4>2. data[d] = <<packet, i>>
          BY <1>1, <4>1 DEF AInv, PreparedPlaced
        <4>3. data[d][1] = packet /\ data[d][2] = i
          BY <4>2
        <4>4. i # size[packet]
          <5>1. Len(prepared) \in 0..N /\ Len(prepared) < size[packet]
            BY <2>2, EndIs DEF Unfinished
          <5>2. size[packet] \in Nat
            <6>1. packet \in Packets
              BY <2>2, PreparedPlaces DEF Unfinished
            <6>2. size \in [Packets -> 0..MaxBuffers]
              BY DEF BInv, TypeOK
            <6>3. QED  BY <6>1, <6>2, RingSize
          <5>3. QED  BY <5>1, <5>2, RingSize
        <4>5. QED  BY <4>3, <4>4 DEF Unsent
      <3>2. QED  BY <3>1 DEF Unsent
    <2>4. Kept
      BY <2>1, <2>2, <2>3 DEF Kept, Unsent, Undisturbed, Complete
    <2>5. Growing' /\ Waiting' = Waiting
      BY <1>1, <2>4, KeptStep
    <2>6. Seen' = Seen + 1 /\ Seen < MaxSends /\ Seen' = sends
      BY <1>1, <2>2, RingSize DEF Seen
    <2>7. Numbered'
      <3>1. \A d \in Unsent : number[data[d][1]] <= sends
        BY <1>1, <2>2, OwnedFacts DEF Numbered, Seen, Unsent
      <3>2. QED  BY <2>2, <2>4, <2>6, <3>1 DEF Numbered, Kept
    <2>8. sent' = sent /\ sentNumber' = sentNumber
      BY <1>2 DEF PrepareFails, dmaVars
    <2>9. QED  BY <2>5, <2>6, <2>7, <2>8
  <1>3. CASE ReleasePacket
    <2>1. Undisturbed /\ Complete = own
      <3>1. prepared = <<>>
        BY <1>3 DEF ReleasePacket, BInv, Preparing
      <3>2. QED  BY <1>1, <1>3, <3>1, ReleasePacketQuiet, ToSets DEF Complete
    <2>2. /\ own' = own /\ data' = data /\ sends' = sends /\ ~Unfinished /\ ~Unfinished'
          /\ sent' = sent /\ sentNumber' = sentNumber
      BY <1>3 DEF ReleasePacket, descVars, dmaVars, Unfinished
    <2>3. Kept
      BY <2>1, <2>2 DEF Kept, Unsent, Undisturbed
    <2>4. Growing' /\ Waiting' = Waiting
      BY <1>1, <2>3, KeptStep
    <2>5. QED  BY <1>1, <2>2, <2>3, <2>4 DEF Numbered, Seen, Kept
  <1>4. CASE /\ UNCHANGED <<own, data, size, number, dma, sent, sentNumber>>
             /\ (Unfinished' <=> Unfinished) /\ packet' = packet /\ sends' = sends
    <2>1. Kept
      BY <1>4 DEF Kept, Unsent
    <2>2. Growing' /\ Waiting' = Waiting
      BY <1>1, <2>1, KeptStep
    <2>3. QED  BY <1>1, <1>4, <2>1, <2>2 DEF Numbered, Seen, Kept
  <1>5. CASE /\ UNCHANGED <<own, data, size, number, dma, sent, sentNumber>>
             /\ ~Unfinished /\ ~Unfinished' /\ sends' \in {sends, sends + 1}
             /\ sends' # sends => sends < MaxSends
    <2>1. Kept
      BY <1>5 DEF Kept, Unsent
    <2>2. Growing' /\ Waiting' = Waiting
      BY <1>1, <2>1, KeptStep
    <2>3. \A d \in Unsent : number[data[d][1]] <= sends /\ number[data[d][1]] \in Nat
      BY <1>1, <1>5, OwnedFacts DEF Numbered, Seen, Unsent
    <2>4. Numbered'
      BY <1>1, <1>5, <2>1, <2>3 DEF Numbered, Seen, Kept
    <2>5. Seen' = sends' /\ Seen = sends
      BY <1>5 DEF Seen
    <2>6. QED  BY <1>5, <2>2, <2>4, <2>5
  <1>6. SendRefused \/ PrepareEnd =>
             /\ UNCHANGED <<own, data, size, number, dma, sent, sentNumber>>
             /\ ~Unfinished /\ ~Unfinished' /\ sends' \in {sends, sends + 1}
             /\ sends' # sends => sends < MaxSends
    <2>1. ASSUME PrepareEnd PROVE ~Unfinished
      <3>1. Len(prepared) = size[packet] /\ Len(prepared) \in 0..N
        BY <2>1, EndIs DEF PrepareEnd
      <3>2. QED  BY <3>1, RingSize DEF Unfinished
    <2>2. QED
      BY <2>1 DEF SendRefused, PrepareEnd, descVars, dmaVars, packetVars, Unfinished
  <1>7. \/ SendRefused \/ PrepareEnd \/ PrepareFails \/ ReleasePacket
        \/ /\ UNCHANGED <<own, data, size, number, dma, sent, sentNumber>>
           /\ UNCHANGED <<prepared, packet, sends>>
           /\ phase' = phase \/ (phase # "prepare" /\ phase' # "prepare")
    BY DEF Next, Work, DmaSuspends, ReleaseBegin, ReleaseSkips, ReleaseEnd, Start, Stop,
           vars, descVars, dmaVars, packetVars
  <1>8. QED  BY <1>2, <1>3, <1>4, <1>5, <1>6, <1>7 DEF Unfinished

(* Every step of the ring is a step of the queue, as long as nothing goes  *)
(* wrong.                                                                  *)
LEMMA SoundStep ==
  ASSUME BInv, BInv', SInv, [Next]_vars, Sound'
  PROVE  SInv' /\ [Queue!Next]_(Queue!vars)
  <1> DEFINE Left == IF sent = <<>> THEN {} ELSE {sentNumber}
  <1> USE DEF Queue!Next, Queue!vars
  <1>1. ~torn' /\ ~misread' /\ AInv /\ MInv /\ FInv
    BY DEF Sound, SInv
  <1>2. AInv'
    BY <1>1, AInvStep
  <1>3. MInv'
    BY <1>1, <1>2, MInvStep
  <1>4. FInv' /\ ~DmaDrops
    BY <1>1, <1>2, FInvStep
  <1>5. sends \in Nat /\ sends' \in Nat /\ sends' <= MaxSends /\ MaxSends \in Nat
    <2>1. sends \in 0..MaxSends /\ sends' \in 0..MaxSends
      BY DEF BInv, TypeOK
    <2>2. QED  BY <2>1, RingSize
  <1>6. Seen \in Int /\ Seen' \in Int /\ Seen' <= MaxSends
    <2>1. Seen \in Int
      BY <1>5 DEF Seen
    <2>2. Seen' = sends' \/ Seen' = sends' - 1
      BY DEF Seen
    <2>3. Seen' \in Int
      BY <1>5, <2>2
    <2>4. Seen' <= MaxSends
      BY <1>5, <2>2
    <2>5. QED  BY <2>1, <2>3, <2>4
  <1>7. Queue!Cardinality(Waiting) = Cardinality(Waiting)
    BY DEF Queue!Cardinality, Cardinality
  <1>8. CASE SendBegin \/ PrepareNext
    <2>1. /\ Numbered' /\ Growing'
          /\ \/ Seen' = Seen /\ Waiting' = Waiting
             \/ /\ Seen' = Seen + 1 /\ Waiting' = Waiting \union {Seen'}
                /\ Cardinality(Waiting) < N
      BY <1>8, SendBeginOrder, PrepareNextOrder
    <2>2. Left' = Left
      BY <1>8 DEF SendBegin, PrepareNext, dmaVars
    <2>3. CASE Seen' = Seen /\ Waiting' = Waiting
      BY <1>2, <1>3, <1>4, <2>1, <2>2, <2>3 DEF SInv, Seen
    <2>4. CASE /\ Seen' = Seen + 1 /\ Waiting' = Waiting \union {Seen'}
               /\ Cardinality(Waiting) < N
      <3>1. Seen < MaxSends /\ Queue!Cardinality(Waiting) < N
        BY <1>5, <1>6, <1>7, <2>4
      <3>2. Queue!Accept
        BY <2>2, <2>4, <3>1 DEF Queue!Accept, Seen
      <3>3. QED  BY <1>2, <1>3, <1>4, <2>1, <3>2 DEF SInv
    <2>5. QED  BY <2>1, <2>3, <2>4
  <1>9. CASE DmaSends
    <2>1. /\ Numbered' /\ Growing' /\ Seen' = Seen
          /\ \/ Waiting' = Waiting /\ sent' = sent /\ sentNumber' = sentNumber
             \/ /\ sentNumber' \in Waiting /\ sent' # <<>>
                /\ \A g \in Waiting : sentNumber' <= g
                /\ Waiting' = Waiting \ {sentNumber'}
      BY <1>1, <1>2, <1>9, DmaSendsOrder
    <2>2. CASE Waiting' = Waiting /\ sent' = sent /\ sentNumber' = sentNumber
      BY <1>2, <1>3, <1>4, <2>1, <2>2 DEF SInv, Seen
    <2>3. CASE /\ sentNumber' \in Waiting /\ sent' # <<>>
               /\ \A g \in Waiting : sentNumber' <= g
               /\ Waiting' = Waiting \ {sentNumber'}
      <3>1. Queue!Deliver
        BY <2>1, <2>3 DEF Queue!Deliver, Seen
      <3>2. QED  BY <1>2, <1>3, <1>4, <2>1, <3>1 DEF SInv
    <2>4. QED  BY <2>1, <2>2, <2>3
  <1>10. CASE ~SendBegin /\ ~PrepareNext /\ ~DmaSends
    <2>1. /\ Numbered' /\ Growing' /\ Waiting' = Waiting
          /\ sent' = sent /\ sentNumber' = sentNumber
          /\ Seen' = Seen \/ (Seen' = Seen + 1 /\ Seen < MaxSends)
      BY <1>1, <1>4, <1>10, OtherOrder
    <2>2. CASE Seen' = Seen
      BY <1>2, <1>3, <1>4, <2>1, <2>2 DEF SInv, Seen
    <2>3. CASE Seen' = Seen + 1 /\ Seen < MaxSends
      <3>1. Queue!Lose
        BY <2>1, <2>3 DEF Queue!Lose, Seen
      <3>2. QED  BY <1>2, <1>3, <1>4, <2>1, <3>1 DEF SInv
    <2>4. QED  BY <2>1, <2>2, <2>3
  <1>11. QED  BY <1>8, <1>9, <1>10

(* Until something goes wrong between the HAL and the DMA, the ring is a   *)
(* queue of packets: each one NetX sends is refused or accepted, and those *)
(* accepted leave once each, in the order in which they were sent; a       *)
(* packet for which the ring was too full never leaves.                    *)
THEOREM PacketsInOrder ==
  SafeSpec => Queue!Init /\ [][Sound' => Queue!Next]_(Queue!vars)
  <1> DEFINE Inv == BInv /\ (Sound => SInv)
  <1>1. Init => Inv /\ Queue!Init
    <2> SUFFICES ASSUME Init PROVE Inv /\ Queue!Init
      OBVIOUS
    <2>1. own = {} /\ prepared = <<>> /\ frame = <<>> /\ phase = "idle" /\ sends = 0
          /\ sent = <<>>
      BY DEF Init
    <2>2. Numbered /\ Growing /\ FInv
      BY <2>1 DEF Numbered, Growing, FInv, Unsent, Unfinished, WaitingIsMarked, SoFar,
         Complete
    <2>3. Queue!Init
      BY <2>1 DEF Queue!Init, Waiting, Unfinished
    <2>4. QED  BY <2>2, <2>3, InitBInv, InitAInv, InitMInv DEF SInv
  <1>2. Inv /\ [Next]_vars => Inv' /\ [Sound' => Queue!Next]_(Queue!vars)
    <2> SUFFICES ASSUME Inv, [Next]_vars
                 PROVE  Inv' /\ [Sound' => Queue!Next]_(Queue!vars)
      OBVIOUS
    <2>1. BInv' /\ (Sound' => Sound)
      BY BInvStep, HistoryGrows DEF Sound
    <2>2. QED  BY <2>1, SoundStep
  <1>3. QED  BY <1>1, <1>2, PTL DEF SafeSpec
=============================================================================
