# Stm32NetX in TLA+

Stm32NetX is a C++ layer over the NetX Duo TCP/IP stack for STM32
microcontrollers, with its own variant of the STM32 Ethernet driver. This
directory holds TLA+ models of it, TLC configurations that check them on small
instances, and theorems that TLAPS proves for every instance. All paths below
start at the root of the repository (`src/...`).

`PROJECT.json` is the index: which definition stands for which lines, which run
checks which property, which mutation of a definition each property detects.

## 1. The system

One core, ThreadX, a NetX IP helper thread, a network thread, the threads of
DHCP client and application, the Ethernet interrupt, and beside the core the
Ethernet DMA and the PHY.

```
  application                     network thread                DHCP client thread
  waits for HAS_IP,               Stm32NetX.cpp: boot,          address, gateway, record
  restart()                       link and address loop              |
      |   \______________ flags ______/  |  \__ stop, start ________/
      |                                  |
      +-------- NetX calls under nx_ip_protection --------+
                                         |
   IP thread: events, deferred part      |  commands: initialise, enable,
   of the driver                         |  disable, join, leave, send
      |                                  |
  +---v----------------------------------v-------------------------------+
  | nx_stm32_eth_driver.c over stm32f4xx_hal_eth.c                       |
  | deferred events | receive ring | transmit ring | link state, filter   |
  +---^-------------------^---------------^---------------^--------------+
      | interrupt         | DMA           | DMA           | PHY, error interrupt
```

### Components

| Component | State | Operations | Correct when | Model |
|---|---|---|---|---|
| Interrupt handshake (`src/src/Driver/nx_stm32_eth_driver.c`, HAL interrupt handler, `nx_ip_thread_entry.c`) | latched status bits, recorded deferred events, event flags of the IP thread, IP mutex | completion callbacks, deferred processing | nothing completed is forgotten, everything is served, the driver runs under the mutex | `DeferredEvents` |
| Reception (driver callbacks, HAL `HAL_ETH_ReadData`, `ETH_UpdateDescriptor`) | descriptors, indices, counts, chain, packet pool | read, link, allocate, rebuild, start, stop | no buffer lost or used twice, frames whole, in order, once; reception never ends | `RxRing`, `FrameQueue` |
| Transmission (driver send, HAL `ETH_Prepare_Tx_Descriptors`, `HAL_ETH_ReleaseTxPacket`) | descriptors, packet addresses, indices, counts | send, roll back, release, start, stop | packets leave whole and in order and are released once, after they left | `TxRing`, `FrameQueue` |
| Driver commands | driver state, HAL state, DMA bits, interrupt mask, multicast counter, filter | initialise, enable, disable, join, leave, error interrupt | the places that say "enabled" agree; counter and filter match the groups; mode written only when stopped | `EthDriver`, `LinkDriver` |
| Network thread (`src/src/Stm32NetX.cpp`) with the wrappers it calls | flags, link and address state, configuration; bits of NetX, the DHCP client's record, resolvers | boot, loop, `restart()` | flags tell the truth, losses are announced, a good link is used in the end | `NetworkThread` |
| IP instance, DHCP, DNS, pool, ARP, ICMP, UDP, TCP wrappers | the NetX object each holds | create, enable, set, clear | called in the right order; failures seen | part of `NetworkThread` |
| URI (`src/src/Address/Uri.hpp`) | members of the object | construct, replace, to_string | reads and writes the documented format | `Uri`, `UriFormat` |
| Packet wrappers (`src/src/Packet`) and the NetX packet pool | the pointer of each object; the pool's free packets, waiting threads, chains | allocate, append, copy, release, send, take over, wait, time out | each packet has one owner; chains are whole; no thread waits in vain | `PacketPool` |
| Address, AddressPrinter, prefix length | a version and a number | conversions, comparison | text and address correspond, a mask and its length | `Addresses` |
| Results, exceptions, X509, C++ wrapper, configuration, IpInstance's plain passes | none of interest | tables, one-line calls | - | not modelled |
| `src/examples`: NetX Duo, ThreadX, HAL, BSP | - | - | vendored | only what the above depends on |

The Ethernet HAL of the example is vendored code, but the driver is a thin layer
over its descriptor rings: the properties that matter are properties of both.
The rings are modelled from the HAL's source. The DNS client, Stm32ThreadX,
Stm32Common and Stm32ItmLogger are not part of the repository; what is used of
them is modelled from its use and marked external. Nearly all lines under `src/` are
vendored (NetX Duo, ThreadX, CMSIS, HAL): of the code that is this project's own,
about 6500 lines, all parts with state are modelled.

### What makes it hard

- The DMA is never stopped by a mutex: it runs between any two instructions that
  prepare, read or rebuild descriptors.
- The interrupt signals the IP thread only for the first recorded event; a lost
  signal is lost for ever.
- Three threads change link state, address and gateway, each call atomic under
  `nx_ip_protection`, none of the sequences.
- Loops poll at three and six seconds and cancel what is under way.
- Pools and rings run empty, and refilling hangs on events that need them.
- A packet is released, handed to a waiting thread and timed out by three threads in
  short sections with interrupts disabled; an append or copy can run out of packets
  half way.
- Start, stop, failures and roll-backs leave counts and indices behind.

`PROJECT.json` lists the hazards one by one, each at its line, with the
properties that cover it or why none does yet.

## 2. The modules

| Module | Models | Size of a step |
|---|---|---|
| `DeferredEvents` | the interrupt handler, the two completion callbacks, the IP thread's loop, other callers of NetX | one access to shared state: the DMA steps any time, a thread only outside the interrupt handler |
| `RxRing` | `HAL_ETH_ReadData`, `ETH_UpdateDescriptor`, the allocate and link callbacks, start and stop | one turn of a loop; the DMA between any two |
| `TxRing` | `HAL_ETH_Transmit_IT` with `ETH_Prepare_Tx_Descriptors`, `HAL_ETH_ReleaseTxPacket`, start and stop | one descriptor; the DMA between any two |
| `FrameQueue` | abstract: frames accepted or lost, delivered once, in order | - |
| `DeferredWork` | abstract: work the DMA completes and a thread does after an event | - |
| `EthDriver` | the commands and the HAL calls they make, the error interrupt, the PHY | the parts of a command the interrupt can come between |
| `LinkDriver` | abstract: each command one step | - |
| `NetworkThread` | `networkThread()`, `restart()`, IP thread's initialisation, DHCP client and server | one NetX call |
| `PacketPool` | `BasePacket`, `Packet` and the NetX functions they call: allocate, release, append, copy, the timeout | one section with interrupts disabled, or what a thread does to its own packets between two |
| `Uri` | the constructors, parsers and `to_string` of `Uri.hpp` as operators on sequences of characters | - |
| `UriFormat` | the documented format as a machine that grows URIs and constructs objects from them | one construction |
| `Addresses` | `Address`, `AddressWriter` and `ipMaskCidrGet` as operators on numbers | - |
| `MCPacketPool`, `MCConversions` | objects and wait options; the finite functions of the character set | - |
| `DeferredEventsProofs`, `NetworkThreadProofs`, `EthDriverProofs`, `RxRingProofs`, `TxRingProofs`, `UriFormatProofs` | theorems on the module of that name | - |
| `PacketPoolProofs` | theorems on `PacketPool`: waiting threads, owners, and lemmas on chains of packets: what walking, adding up, linking and filling do to them | - |
| `PacketsConservedProofs` | theorems on `PacketPool` that need those lemmas | - |

How the modules fit. `DeferredEvents` counts completed frames and packets, `RxRing`
and `TxRing` say what becomes of them. `DeferredWork` is where the first two meet:
`DeferredEvents` shows that interrupts, event flags and IP thread implement it, for
both directions; `RxRing`, which has a flag for the whole of that machinery, that its
reading loop does. `RxRing` and `TxRing` implement `FrameQueue`. `EthDriver`
implements `LinkDriver`, and `NetworkThread`, whose `driver` variable is the same
state, uses the driver as `LinkDriver` allows (`UsesLinkDriver`). `PacketPool` is the
pool that `RxRing` and `TxRing` see as packets that come and go: what they give to
NetX or send is `received` and `sent` there.

### DeferredEvents

`rs` and `ts` are the status bits the DMA latches, `isr` is where the handler is,
`deferredEvents` is `nx_driver_information_deferred_events`, `ipEvents` the event
flags. The contents of the rings are the counters `rxDone`, `txQueued`, `txDone`.
The callback's test of "no event recorded" and its signal are one action, as no
thread runs in between. The swap with interrupts off is one action. The IP
thread's reading loops are actions of their own, and the DMA completes
descriptors in the middle of them.

`HAL_ETH_ReleaseTxPacket` stops at the first remembered descriptor the DMA owns. That can
be a later packet's, prepared in the first descriptor of a packet of several buffers that
is sent but not released, so the loop may end with a sent packet left (`IpReleaseEnd`).
It does so only while the DMA owns a packet, whose interrupt brings the loop back:
`PacketsAreNoticed` and the `ahead` of `DeferredWork` say just that. Every packet the DMA
completes raises its interrupt here; one that does not leave because its FS was cleared is
`TxRing`'s.

### RxRing and TxRing

A descriptor's bits (`own`, `first`, `last`), its buffer (`buf`, DESC2, in the
receive ring), the indices and the counts are the HAL's. Packets are model
values, frames are numbers. A received frame takes one buffer or
more, as many as the DMA finds. `pool`,
`chain` and `stack` say where packets are that are not in the ring; `Release` and
`Allocate` are the rest of the system using the pool, at any time, before the first start
too. A packet to send takes one
to `MaxBuffers` descriptors and may be too long for the ring or meet a descriptor
in use, in which case the code rolls back.

No parameter restricts what the code or the DMA may do. Where a promise ends because
something has gone wrong, a history variable, which no guard reads, says that it has, and
the property says how far it holds:

- `dirty` (`RxRing`): the driver was stopped while the ring was not at rest (`AtRest`:
  every descriptor with the DMA, nothing half read). It is stopped at any moment between
  two calls; after such a stop builder and reader may be apart (`rx_reuse`).
- `torn` (`TxRing`): a packet was taken back after the DMA had read a part of it.
- `misread` (`TxRing`): the DMA has read a descriptor of a half-prepared packet before its
  mark LS was right.
- `unmarked` (`TxRing`): a packet that waits in the ring has lost its mark FS, which
  `ETH_Prepare_Tx_Descriptors` clears before it tests whether a descriptor is in use.

The DMA of `TxRing` reads a descriptor as soon as it owns it. A frame begins where FS is
set; one without FS does not leave, its descriptors are closed one by one and the interrupt
of the last one may or may not come (`DmaDrops`). Stopping flushes the FIFO, and with it
what was read of a frame that has no descriptor to go on.

The first start of `RxRing` may find fewer packets than descriptors.
`ETH_DMARxDescListInit` gave all descriptors to the DMA with no address,
`HAL_ETH_Start_IT` builds those it has packets for and enables the DMA regardless. When the DMA
comes to one without address it is taken to meet a fatal bus error (`DmaHalts`, an
assumption about the memory at address 0): the state becomes `HAL_ETH_STATE_ERROR`, which
`HAL_ETH_Stop` and `HAL_ETH_ReadData` refuse, so the driver stays `halted`. Nothing is
written anywhere, which is what `DmaWritesIntoRing` is about; that nothing is received
either is excepted from the liveness, and listed in section 4.

A packet sent is not always released by the wakeup of its own frame: a later packet may be
prepared in the first descriptor of one that is sent but not released, and stops the releasing
there until it is sent too. `AcceptedIsReleased` shows that this ends, and `DeferredWork` allows
for it (`ahead`).

### PacketPool

`available` and `suspended` are the pool's two lists, `cleanup` the threads whose
timeout can still act, `noPreempt` who has disabled preemption, `object` the pointers of
the wrapper objects, `call` where each thread is in a call. Data are counted in units:
a packet has room for `Room`, the headers an allocation leaves place for take some.
`Careless = FALSE` keeps callers from allocating into an object that holds a packet,
which the class does not: with `TRUE` the packet is lost and `PoolConserved` violated.
A copy of an object, two pointers to one packet, is not modelled.

### EthDriver

A command that takes several HAL steps is several actions (`EnableStarts`,
`StartsDma`, `EnableEnds`), between which `DmaFaults` and `IsrError` may come.
`Registered` is NetX's table of multicast groups, external. The counter wraps at
`Wrap`. `EarlyJoins = FALSE` excludes joins before the driver is initialised,
which nothing in this code does; with `TRUE` the initialisation clears the counter
of groups already joined and `FilterMatchesGroups` is violated. NetX's own join of
the all-hosts group when IGMP is enabled is left out: this code does not enable
IGMP, and the group would be one more that is never left.

### NetworkThread

`pc` walks through `networkThread()`, `app` through `restart()`. Services are
created in the order of the source and fail either by choice (`CanFail`) or
because NetX's creation checks miss what they need (`Needs`). The DHCP client is
its state, whether a server's answer is under way, and its record of the lease,
as far as `nxd_dhcp_client.c` lets them decide what address is set and removed.
Addresses are `"none"`, `"lease"`, `"static"`; gateways `"none"`, `"router"`,
`"static"`. A static gateway is refused, as NetX does, only while an address leased
from another network is set. The configuration changes when the application
restarts. The calls that `IpInstance` and `Dns` wrap are operators of their own
(`LinkStatus`, `IpAddressSet`, `DriverDirectCommand`, ...), shared by the thread and
`restart()`.

### Uri and UriFormat

Characters are model values with the separators distinguished, so that parsing is
modelled by what it does: positions, cuts, throws. An object is a set with one
record, or empty when the constructor throws. `UriFormat` takes the grammar from
the class comment and compares the members with the parts a text was composed of.
Two operators limit the comparison. `WellFormed` leaves out parts whose text has
more than one reading or a spelling `to_string` does not keep: a user without
password, a colon in a domain, a port with leading zeros. `Writable` leaves out,
where a text is written, hierarchical URIs without authority: `to_string` writes
`//` for them too, so that `a:b` becomes `a://b`.

`Alphabet` gives the characters of each part, `Stanzas` the pairs of a query.
`FormatAssumption` keeps out of a part the characters that end it or a part before it,
which is what makes the format readable at all; `UriAssumption` says of the character
set what `tolower`, the digits and the blanks are. `Stoul` is `std::stoul` with the blanks and sign it
passes over and the trailing characters it leaves; `parse_port` takes digits only, a
port from components whatever `std::stoul` takes, though `UriFormat` gives it numerals. `Number` and `Numeral` (`std::stoul` and
`std::to_string`) are recursive functions over the digits.

`DenotesParts` says what each constructor does, also where a comment promises more:
`SchemeIsKept`, a scheme read from a text is in lower case and any other as it was given;
`DictionaryIsQuery`, the dictionary is filled from a text and empty otherwise. Section 4
lists the two comments.

### Addresses

A text is the sequence of its numbers, an assignment the only operation that changes an
object; in `conversions` a behaviour converts a URI or an address. Octets have
`OctetBits` bits instead of eight, so that every address and mask can be enumerated; shifting and or-ing are the code's, with
its missing check of the range. `PrefixLength` clears the lowest bit until none is left.

## 3. The runs

| Run | Question | Bounds |
|---|---|---|
| `deferred` | Is any completion left without wakeup or service? Is the driver under the mutex? | 2 frames, 2 packets |
| `network` | Do flags, driver, address and lease record stay consistent with failing boots, a fluttering cable, restarts, DHCP and static configuration? Are losses announced, does a stable link connect? | all services that may fail separately; one restart at a time, unbounded in number |
| `static_restart` (violation) | Is an announced interface enabled, with a static address? | stable cable, static mode |
| `rx_ring` | Are buffers conserved, do reader, builder and DMA stay apart, is the ring a queue that leaves no frame without an event, with the pool running dry, a pool too small at the first start, and stops at any moment? | 2 descriptors, 3 packets, 3 frames |
| `rx_reuse` (violation) | Is only received once what is received, with restarts at any time? | 3 descriptors, 4 packets, 4 frames |
| `rx_stall` (violation) | Does reception go on after the pool was empty? | 2 descriptors, 3 packets |
| `tx_ring` | Are packets sent whole, in order, released once and only when sent, all in the end, with a DMA that reads at any time? | 2 descriptors, 3 packets of 1 to 3 buffers, 4 sends |
| `tx_release` (violation) | Is a released packet sent, whatever the DMA has read? | 2 descriptors, 2 packets, 5 sends |
| `tx_mark` (violation) | Does a packet that waits in the ring keep the mark it needs to leave? | 2 descriptors, 2 packets, 5 sends |
| `eth_driver` | Do the places that say "enabled" agree, the counter count, the mode stay? Are the commands atomic to NetX? | 3 groups in a table of 2, each joined at most twice, 2 modes, `Wrap` 4 |
| `conversions` | Are the documented parts of a URI read and written, and only invalid ones refused? Do addresses and masks convert? | 3 characters beyond the shortest URI, paths of `a`, `/`, `:`; octets of 2 bits, numbers up to 5, texts of up to 4 numbers |
| `packet_pool` | Has every packet one owner, is every chain whole, is no waiting thread forgotten, does a wait end? | 2 application threads with 3 objects and the IP thread, 3 packets of 2 units, appends of 2 behind an offset of 1 |

Why the bounds are enough:

- *Rings.* The interesting cases are wrap-around, full, empty, a frame over the
  seam, and an index that overtakes another. Two descriptors with one more packet have
  all of them: the pool runs dry with one free packet beside the ring, the first start
  finds packets for both descriptors, for one or for none, a packet of three
  buffers is too long for two descriptors, one of two meets a descriptor in use. Three frames
  and four sends go round the rings at least once with something in them; the transmit
  ring must have a power of two, as the code masks its index. Larger instances were
  checked once, and are too long for a run: `TxRing` with 5 sends (423 000 states), `RxRing`
  with 3 descriptors, 3 packets and 3 frames (3.1 million), with 3, 4 and 2, and with
  2, 3 and 4 (1.6 million each).
- *Handshake.* With two frames one can complete while the other is read, with two
  packets one while the other is released; the theorems drop the bound.
- *Network thread.* Nothing is bounded but the sets of values: the state space is
  finite by itself.
- *Commands.* Three groups in a table of two let a join be refused; two joins let a
  leave be not the last one.
- *URIs.* Three characters beyond the shortest URI give every pair of optional
  parts with their separators, two stanzas with and without equals sign and with
  equal keys, and ports of none to three digits against an `UlongMax` of 90, so that both
  sides of the overflow occur.
- *Packets.* An append of two units to a packet filled up to one takes one more packet, a
  copy of the result two; with three packets, two threads and frames arriving,
  each can run out at any point, and a release meets none, one or two waiting threads,
  with and without a timeout under way. The safety properties were checked once with four
  packets, appends of three units and both offsets, too (767 000 states up to
  a permutation of the packets).
- *Addresses.* Two bits per octet have numbers in range, out of range by one and by more
  than a bit, at every place.

Deadlock is checked except in `deferred` (without traffic everybody sleeps), `rx_reuse` (a
halted driver that has all packets stands still), `packet_pool` (two threads that
wait for ever may wait for each other, `Exhausted`) and `conversions` (a construction
ends).

### Safety

- Handshake: `EventsAreSignalled` (an event is recorded exactly when the IP thread has
  or gets its signal), `WorkIsNoticed` (whatever is completed has an interrupt, an event
  or a loop that will see it; a sent packet may also wait for the
  interrupt of one the DMA still owns), `DeferredUnderMutex`.
- Receive ring: `PacketsConserved` (every packet in exactly one place),
  `DmaWritesIntoRing` (never to the address of a buffer that was read), `BuildsBehindDma`
  (rebuilding stays between reader and DMA).
- Transmit ring: `BooksBalance` (the packets held are those remembered by a descriptor
  or in hand, each once, and the releasing loop's counts cover them), `OnlyTornIsReused`
  (a packet is released only after it was sent, unless one was taken back half read),
  `SentIsWhole`.
- Commands: `EnabledIsRunning`, `FilterMatchesGroups`, `ModeChangesStopped` (an
  action property).
- Network thread: `IpImpliesLink`, `DriverIsInitialized`, `LeaseIsRemembered`.
- Packets: `PoolConserved`, `ChainsAreWhole` (also after an append or copy that ran out
  of packets; a copy has the length of its source), `NobodyWaitsInVain`.
- Conversions: `DenotesParts`, `ThrowsWhenInvalid`, `WritesFormat`,
  `AddressesConvert` (a number above 255 spoils its own octet and those
  before it only).

### Refinement

`DeliversAll` and `SendsInOrder` say that the rings implement `FrameQueue`, with
its liveness; `WorkIsServed` and `FramesAreRead` that handshake and reading implement
`DeferredWork`, with its liveness; `ImplementsLinkDriver` that `EthDriver` implements
`LinkDriver`, and `UsesLinkDriver` that the threads use no other driver. The mappings
are in the modules: the queue is the set of the numbers of complete frames in the ring or
the chain, of which the lowest is delivered next; the link counts as enabled from the moment the PHY was asked; work is
done when the DMA has written the end of a frame, and has an event from the interrupt
on.

### Liveness and fairness

- `DeferredEvents`: weak fairness of the interrupt handler, the IP thread and the
  holder of the mutex. The interrupt is level-triggered and has priority over
  threads; the IP thread is among the highest priorities, and ThreadX runs the
  highest ready thread; a NetX call ends. Nothing is assumed of DMA or timers.
  The release of packets is promised only if the read loop ends (`WorkIsServed`): frames of an unknown
  type that arrive faster than they are read would keep the IP thread in it.
- `RxRing`: the IP thread goes on, a start ends, and the DMA ends a frame it has
  begun. Nothing is promised of a driver that is `halted` or `dirty`. `PoolSpec`, for `rx_stall` only, adds that packets are released again and
  again, so that the counterexample does not blame the application.
- `TxRing`: the thread with the mutex goes on; releasing, starting and the DMA (`DmaSends`
  or `DmaDrops`) get strong fairness, as the mutex is handed on in the end and links that
  are stopped and started still let frames leave.
- `NetworkThread`: strong fairness of the network thread and of `restart()`, since
  ThreadX gives a mutex to a waiting thread, so that none is overtaken for ever;
  weak fairness of the IP thread's initialisation and of the DHCP client's steps.
  `PromptServer` is an assumption about the environment: if attempts that can reach
  a server are made for ever, some are answered within the six seconds the thread
  waits before it cancels them. Without it no lease need ever be taken, and the
  code gives no more.
- `PacketPool`: weak fairness of threads inside a call and of timeouts; strong fairness
  of what releases packets, NetX and the application, each again and again. `WaitsEnd`
  excepts `Exhausted`, where all packets are with threads that wait for ever: nothing in
  the library prevents it, and waiting for ever is the default of `Packet`.
- `EthDriver` and `UriFormat` state safety only.

## 4. Disagreements the runs show

- `static_restart`: `restart()` disables the link after the thread's
  `NX_LINK_ENABLE` and before it sets the static address; the address is then
  announced and the link never enabled again, although the code says "Connected
  and IP set". With DHCP the stop of the client takes the address away and the
  loop recovers (`LeasedIsEnabled`).
- `rx_stall`: when the pool is empty as the last descriptor is read, nothing calls
  the rebuilding again, and reception ends although all packets come back.
- `tx_release`: the DMA may send the first buffer of a packet that is then rolled
  back; DMA and `CurTxDesc` part, and a later packet is released while the DMA
  still has one of its buffers.
- `tx_mark`: `ETH_Prepare_Tx_Descriptors` clears the mark FS of the next descriptor before it
  tests whether it is in use, so that a roll-back takes it from a packet that waits in the
  ring and was accepted; the packet does not leave.
- `rx_reuse`: the driver is stopped while a descriptor waits to be built for want of
  packets; after the start builder and reader are one descriptor apart, and with an empty
  pool the reader chains a packet that NetX has had before.

Each is a run that must fail, with the quoted line in `PROJECT.json`.

Limits, which the properties leave out or state as the code has them:

- `_nx_driver_hardware_enable` ignores the result of `HAL_ETH_Start_IT`, so that after a
  fatal bus error enable succeeds with the DMA halted (`EnabledIsRunning` is about a driver
  without a fault).
- A first start with fewer packets than descriptors gives the DMA descriptors without an
  address, though the comment says "Build all descriptors"; see section 2.
- `get_scheme` promises lower case (`Uri.hpp:218`), but the constructor from components
  keeps the case it is given (`:91`), and a URI made from that one by replacing components
  keeps it too; two such URIs differ. `DenotesParts` states both cases.
- `get_query_dictionary` promises the query's pairs (`Uri.hpp:337`), but only a URI read from a
  text has them; from components or from another URI the dictionary is empty whatever
  the query (`:150`). `DenotesParts` states that, too.
- `@` in a path makes the parser take the host for a user name and throw.
- No two `Address` objects with IPv6 addresses are equal, as the arrays are compared by
  where they are.
- A group joined before the driver is initialised loses its count.

## 5. What is proved

| Theorem | For every |
|---|---|
| `DeferredEventsProofs`: `TypeCorrect`, `NoLostWakeup`, `NothingForgotten`, `DriverUnderMutex`, `FramesServed`, `TransmissionsServed` | number of frames and packets |
| `NetworkThreadProofs`: `TypeCorrect`, `AnnouncementConsistent`, `DriverInitializedFirst`, `DriverUsedAsSpecified`, `LeaseRemembered` | set of failing services, modes and gateway |
| `RxRingProofs`: `TypeCorrect`, `DmaSafe`, `NoBufferLost`, `EndsNeverCross`, `FramesInOrder`, `NoFrameForgotten` | ring of two or more descriptors and any pool, also one that does not fill it, frames of any length, stops at any moment; `TypeCorrect` and `DmaSafe` always, the others until `dirty` |
| `TxRingProofs`: `TypeCorrect`, `BooksBalanced`, `ReleasedAreSent`, `SentAreWhole`, `PacketsInOrder` | ring of a power of two, packets, buffers and sends, with a DMA that reads at any time; the last three until a history variable of theirs is set |
| `EthDriverProofs`: `TypeCorrect`, `EnabledRuns`, `ModeIsSafe`, `DriverImplementsLink`; `FilterCorrect` without early joins | finite set of groups, table, modes |
| `PacketPoolProofs`: `NobodyForgotten`, `NoPacketShared`; `PacketsConservedProofs`: `Types`, `ChainsStayWhole` | set of threads, objects and packets, size of packets and data, wait option; `Careless` or not |
| `PacketsConservedProofs`: `NoPacketLost` | the same, with callers that are not careless |
| `UriFormatProofs`: `PartsAreDenoted`, `ThrowsOnlyWhenInvalid`, `TheFormatIsWritten` | character set, alphabets of the parts and stanzas, length of each part, number of stanzas, range of ports |

Each follows from the named assumption of its module (`LimitAssumption`,
`ConfigAssumption`, `RingAssumption`, `DriverAssumption`, `PoolAssumption`,
`UriAssumption` with `FormatAssumption`) and an inductive invariant: initial states
satisfy it, one lemma per action or group of actions shows that a step preserves it, the
theorem of the property is a consequence. Two hypotheses stand in the theorems
themselves, `~Careless` and `~EarlyJoins`; they are the parameters of `PacketPool` and
`EthDriver` described above, and without them what section 2 says is lost. The theorems on the
rings have none. Their properties end where a history variable says that something has
happened which the violations `rx_reuse`, `tx_release` and `tx_mark` show the code to do:
`ReleasedAreSent` needs `torn` only, `SentAreWhole` also `misread`, `PacketsInOrder` also
`unmarked`.

- `DeferredEvents`: the safety properties are nearly inductive together, none is
  alone. What is missing is that an event is signalled once (`SignalledOnce`: the
  flag is not both in the group and in the thread's hand) and that the counters
  stay within their limits (`WithinLimits`). A sent packet that the release loop leaves is
  noticed because it is left only with `txQueued > 0`, and a completion latches `ts`.
- `NetworkThread`: that the flag and the local state agree (`FlagMatchesState`),
  where the loop is when a link has been seen (`LinkSeen`), and what has happened by
  each step of the boot (`BootOrder`, `BootUnannounced`). `LeaseIsRemembered` is
  inductive only because the client's mutex is held while it sets address and
  gateway, and nothing else touches its record then.
- `RxRing`: `PacketsConserved` needs that every descriptor without a buffer is among
  those that wait to be built, which end where the thread reads (`Geometry`), that
  DESC2 names the buffer of its descriptor (`AddressesAgree`: it is from DESC2 that
  the reader takes the buffer back), and what is left over between calls
  (`Phases`). What the DMA can fill, its descriptors that
  have an address (`Armed`), is the arc of the ring from its descriptor to where the
  rebuilding goes on, and what it has written the arc before that
  (`OwnershipInv`): `BuildsBehindDma` follows.
- `RxRing` as a queue: `FInv` adds which frame each written descriptor belongs to: numbers
  do not decrease from the reader to the DMA, the chain is the beginning of the frame the
  reader is in, and an end that nobody reads has an event (`NoneMissed`).
- `TxRing`: `BInv` says that a loop of `inUse` turns from `releaseIdx` ends
  at `curTxDesc` (a remainder, as the count is written back only when a packet is
  released, and may exceed the ring) and meets every descriptor that remembers a packet.
  `AInv`, until `torn`, adds that what the DMA owns is one arc from its
  descriptor to the one the driver fills next (`Arc`), of which the descriptors being
  prepared are the end, as far as the DMA has not read them, and that every complete
  descriptor belongs to a packet that a later one in the arc remembers (`Places`): so none
  of a released packet is left. A roll-back of a packet of which nothing is read takes
  away the end of the arc only.
- `TxRing`, what leaves: `MInv`, until `misread` too, says that along the arc lie the buffers
  of one packet after another (`Pieces`: marks only where they belong, `Follows`), and that
  what the DMA has of a frame is what it has gone past of its packet (`SoFar`), or nothing
  when the FS of the packet was lost (`FrameSoFar`).
- `TxRing` as a queue: until `unmarked` too, every waiting packet has its FS, so nothing is
  dropped (`FInv`); the numbers of the packets grow along the arc (`Growing`), and the
  packet being prepared has the highest one (`Numbered`). That never more than `N` wait is
  by cardinality: each ends in a descriptor of its own.
- `EthDriver`: `Steps` says what the HAL's state, the DMA bits and the interrupt
  mask are at each step of a command and after a fault. The counter's proof is by
  cardinality: `Join` adds one group, `Leave` removes one, the repeated join or
  leave of a group changes no registration.
- `PacketPool`: the list of waiting threads has each once, and exactly those that are
  suspended and can still be timed out; a release that has taken one from the list has
  disabled preemption, so that the one it has in hand stays suspended.
- `PacketPool`, who owns what (`OwnInv`): every place that can name a packet (a free
  packet's own mark, an object, a variable of a call, what NetX holds, the link of another
  packet) is a slot, and two slots never hold the same packet (`Exclusive`). A step moves
  at most two packets, each to a slot from one that loses it (`Moved`), so that the proof
  needs to know where a chain begins and what follows a packet, but not to walk along it.
  `Phases` says which call is where; the pointer of an object counts for nothing while its
  packet is being released; and the invariant of waiting is needed too, as a packet is only
  handed to a thread that still waits. `NoPacketShared` is what `PoolConserved` says about owners,
  also for objects that forget their packets; that no packet is lost is `NoPacketLost`.
- `PacketPool`, chains (also in `PacketPoolProofs`). `Follow`, `SumAlong` and `Left` are
  recursive functions, and the prover has no induction over an operator. It has the
  pigeonhole principle, and from that `CountingUp`: a set that has `l` and with each number
  the next has all numbers from `l` on, for otherwise adding one would map a finite set
  into itself without one of its elements. With the set of the numbers for which a walk or
  a sum is as it should be, that is induction. As two slots never hold the same packet and a
  chain's first packet is held by something other than a link, a walk never meets a packet
  twice (`ChainInjective`), so it ends, after at most as many packets as there are, at the
  last one (`FollowIsChain`). Complete chains (`Complete`) are what `Whole` says; an append
  turns one into a ready one, in which all new packets are empty and the last one is needed
  (`Ready`), and the data into a complete one again (`LinkReady`, `FillDone`).
- `PacketPool`, whole and conserved (`PacketsConservedProofs`): `ChainsAreWhole` and
  `PoolConserved` say nothing of a thread half-way in a call, so neither is inductive.
  `Good` adds `ThreadOK`, what each thread has at each point of its call: which variables
  are in use (`Sparse`), that the object of a call is still its own (`Aims`), that an append
  collects no more packets than it needs and fills a ready chain (`Extending`), that a copy
  has as much as the packets of the source before the next one (`Copied`), which lets the
  last test of `_nx_packet_copy` hold. `AllHeld` says that there are no other allocated
  packets; it is what needs `~Careless`. A step of one thread leaves the chains of
  the others and of the network as they are (`ChainUntouched`), since by `OwnInv` it cannot
  name a packet of theirs; so a lemma for each action is about the acting thread, or,
  where a release gives a packet to a waiting thread, about two. `Types` is a consequence,
  and not simple: that no packet is filled beyond its room rests on `Ready`.

- `UriFormat`: the invariant is plain (`Sound`: an object is there only after a
  constructor, was made of parts of the format, and denotes them); the work is in what one
  construction does to a text of any length. A text is a row of parts with marks between
  them and no part has a character that would end it, so the iterator stops at the end of
  the part it is in (`Across`) and what is cut out is that part (`Cut`). From that follow
  the outline (`SetupRead`: scheme, content, query, fragment), the authority with user, host
  and port (`BodyWithAuthority`; without one `BodyWithoutAuthority` and
  `BodyNonHierarchical`), and with `CountingUp` the stanzas of a query, which start exactly
  behind the separators, and the digits of a port (`NumberReads`, `NumeralOfNumber`).
  `ParseRead`, `ComponentsRead` and `Replaced` say what the three ways to construct make of
  the parts, `TextWritten` what `to_string` writes. Objects keep a scheme from components
  as it was given and one from a text in lower case; that a URI read from its own text
  denotes the same parts needs lower case to be idempotent (`LowerTwice`).

Refinement, as far as it is safety: `FramesServed` and `TransmissionsServed` show that the
handshake implements `DeferredWork`, `NoFrameForgotten` that the reading loop does,
`FramesInOrder` and `PacketsInOrder` that the rings implement `FrameQueue`. Each maps
every step to a step or a stutter of the abstract module, under the same mapping as the
property that TLC checks with the fairness (`WorkIsServed`, `FramesAreRead`,
`DeliversAll`, `SendsInOrder`).

`DriverUsedAsSpecified` composes by hand: every action of `NetworkThread` is a step or a
stutter of `LinkDriver`, because the driver is initialised before it is commanded
(`CommandIsStep`, `StepIsLinkStep`), and `DriverImplementsLink` shows that `EthDriver` is
such a driver. `DmaSafe` has an invariant of its own (`DmaInv`), which no stop disturbs:
a descriptor that was read had an address, and what the DMA owns has the address
of the ring's buffer, or neither (`Served`, `AddressesAgree`); that the reader meets stale
descriptors after a restart (`rx_reuse`) and that the first start may leave descriptors
without a buffer does not break it.

Only model-checked:

- all liveness, the fairness of `FrameQueue` and `DeferredWork` included: the prover has
  neither fairness nor `ENABLED`;
- `AddressesConvert`: the bit operators of the community modules are recursive operators,
  which the prover does not take.

## 6. What is not modelled

- Contents, lengths, checksums, time stamps, the Ethernet header, and which NetX
  queue a delivered frame goes to.
- The DHCP exchange beyond whether an answer comes; ARP, TCP, UDP, ICMP: NetX's.
- Attach, get status, capabilities, uninitialise: no state that anything here
  depends on, or never issued.
- The PHY's implementation: any mode, negotiation and loss at any time. The driver
  reads the mode once when the link is enabled and does not follow it; as this is
  by design, no property is stated about it.
- A frame in more than one packet at the interface to NetX: `RxRing` has frames over several
  buffers, but lengths are abstracted there, and `PacketPool` receives single packets.
  The link callback leaves `nx_packet_last` and the whole length of such a chain unset;
  the example's buffers hold a whole frame.
- Allocating into an object that holds a packet (`Careless`), and copies of packet
  objects.
- A DMA that suspends between `HAL_ETH_Transmit_IT`'s test of TBUS and its poll: the two
  are one step of `TxRing` (`PrepareEnd`).
- A processor cache and memory order: the part has neither a data cache nor
  reordering between the core and its bus, and the code has the barriers.

## 7. Plan

Done: `DeferredEvents` with `DeferredWork`, `NetworkThread` over `LinkDriver`,
`FrameQueue` with `RxRing` and `TxRing`, `LinkDriver` with `EthDriver`, `PacketPool`,
`Uri` with `UriFormat`, `Addresses`, and the theorems above.

Next, in this order:

1. Test and poll of `HAL_ETH_Transmit_IT` as two steps of `TxRing`, with a DMA that suspends
   between them.
2. Frames over several packets through the link callback into `PacketPool`.

A run whose question becomes part of a stronger one is merged with it, so that
each run still asks one question of its own.
