# Formal models of hypercast-micro

hypercast-micro runs the HyperCast overlay on an ESP32: devices on one Wi-Fi
multicast group organise themselves into a spanning tree (SPT protocol) and
flood overlay messages along trusted neighbours. These modules model the code
under `src/components/` in TLA+; TLC checks small instances, TLAPS proves the
results listed below for every value of the constants.

File names without a directory are in `src/components/hypercast/`, `spt.c` and
`spt.h` in `src/components/hypercast_protocols/`.

## 1. The system

| Component | State | Operations | Interacts with |
|---|---|---|---|
| SPT state machine (`spt.c`, `spt.h`) | tree info (id, root, ancestor, cost), neighborhood table, adjacency table with ping rings, time of the last beacon | `spt_handle_beacon_message`, `spt_maintenance`, `spt_overlay_sender_trusted`, parent choice, table and ping-ring helpers | engine loop calls it; it pushes beacons to the send buffer; reads and sets the system clock |
| Packet buffer (`hc_buffer.c`) | ring of packet pointers, front, size, mutex | allocate, push, pop | three tasks: receive task, engine, send task |
| Engine loop (`hc_engine.c`) | the packet in hand | maintenance, pop one packet, dispatch; `hc_forward` | all of the above |
| Dispatch (`hc_protocols.c`) | – | checks protocol id, overlay hash, length | `spt_parse` |
| Overlay messages (`hc_overlay.c`) | a message and its extension slots | parse, encode, route record, payload | engine, send buffer, API callback |
| Socket tasks (`hc_socket_interface.c`) | receive counter | receive and filter own packets; send | both buffers, UDP multicast |
| Wire codec (`hc_buffer.c`, `spt_parse`, `spt_encode`) | – | read and write bit fields | parsers and encoders |
| Initialisation (`hypercast.c`) | the `hypercast_t` global | random address, tables, tasks | everything |
| Clock (`hc_lib.c`) | system time | `get_epoch`, `set_epoch` | SPT |
| Measurements (`hc_measure.c`) | – | post the tables over HTTP every so often | reads SPT's tables without a lock |
| Wi-Fi start-up (`src/main/network_station_main.c`) | retry counter, event bits | event handler, socket set-up | starts `hc_init` |

`src/hypercast/` is an earlier copy of the buffer and socket code outside the
build, and is not considered.

What makes each correct, and hard:

* **SPT.** One fact is kept twice, by address (`ancestorId`) and by flag
  (`isAncestor`), and different branches update the two. Tables have a limit.
  Beacons are stale, lost and reordered; devices restart and forget; clocks
  jump. The parents must form no cycle, costs must not count to infinity, a
  silent parent must be left, a live one kept, and the tree must settle.
* **Packet buffer.** Three tasks, early returns under a mutex, wrap-around, the
  full ring.
* **Engine and dispatch.** Which packets are dropped and what a dropped one
  leaves behind.
* **Overlay.** Flooding with duplicates, route records at their limit,
  partially parsed messages.
* **Measurements.** A reader of tables that another task is changing.
* **Start-up.** Connection events before and after the handlers are gone.

`PROJECT.json` lists every hazard at its line with the properties that watch it.

## 2. Modules

| Module | What it is |
|---|---|
| `Spt` | the protocol of one device as operators on a record: every handler and helper of `spt.c` |
| `SptNode` | one device, its engine loop and arbitrary peers |
| `SptNetwork` | devices that all run `Spt`, a lossy reordering medium, crashes and restarts |
| `Table` | the neighborhood table as an array, its three writers and the unlocked reader |
| `NeighborSet` | what `Spt` takes the table for; `Table` implements it |
| `HcBuffer` | the ring buffer between concurrent tasks |
| `BoundedFifo` | what a packet buffer promises; `HcBuffer` implements it |
| `Overlay` | overlay messages in memory and on the wire, as operators and recursive functions |
| `Floods` | devices, links and payloads, shared by the next two |
| `OverlayNet` | devices that forward encoded messages between bounded buffers |
| `Flooding` | what forwarding promises; `OverlayNet` implements it |
| `Station` | `app_main`, `event_handler`, `hc_socket_init`, the tasks `hc_init` starts |
| `Device` | engine, receive and send task and who owns a packet |
| `Firmware` | `Station` and `Device` composed, with faults, an exhausted heap and restarts |
| `MC...` | small instances for TLC |
| `SptProofs` | lemmas on the operators of `Spt` |
| `SptNodeProofs`, `SptNetworkProofs`, `HcBufferProofs`, `FloodingProofs`, `OverlayNetProofs`, `TableProofs`, `FirmwareProofs` | theorems |

How they fit together: `Spt` is the computation of one engine turn. `SptNode`
and `SptNetwork` run it against arbitrary peers and against itself. `Table`
justifies that `Spt` takes the neighborhood table for a set, `HcBuffer` that
`Device` and `OverlayNet` take a buffer for a bounded queue. `OverlayNet` is
the other kind of packet an engine handles; it meets the tree only in what a
device trusts, which changes freely. `Device` has the handling of any packet
without its contents, and `Firmware` starts and stops it.

Definitions named after what they get wrong (`MaintainOrphan`,
`RefreshNothing`, `AddPutOneMore`, ...) are mutants: each alters one definition
as a plausible bug would, and the property paired with it in `PROJECT.json`
fails on it. No specification uses them.

### Spt: correspondence with the code

* A record `spt` holds `protocol_spt` with its tables. Tables are sets of
  records: the order of entries decides only which of several entries for one
  address is found, and `EntriesUnique` shows that there is only ever one.
* A timestamp is kept as its age, so comparisons with `get_epoch()` become
  comparisons of ages, and `set_epoch` ages everything at once. Ages saturate
  at `MaxAge`, larger than every limit they are compared with. The initial
  `lastBeacon = 0` is an age beyond every limit because `get_epoch` adds
  `HC_FIXED_TIME_MIN_VALUE` to the clock.
* The ring of pings is kept newest first. A new ring is not initialised by the
  code (`spt.c:464`): it holds any values.
* `HandleBeacon` is the whole of `spt_handle_beacon_message`, in its order:
  clock, link, reliability test, parent choice with its side effect
  (`CheckAncestor`), then one of three branches. `Maintain` is
  `spt_maintenance` with both timeouts. Integers are reduced modulo `Word`.
* `Encode` is the beacon as it is on the wire: the root field carries the
  sender's own address (`spt.c:209`).
* Left out, because written and never read: sequence number, physical address,
  backup-ancestor and core tables, the tree info's own `pathMetric`, the
  beacon's reliability and sender count. The goodbye handler is empty.
* Addresses are below 999 (`hypercast.c:55`), so the 16-bit fields hold them.

### SptNode

`Maintenance`, `Idle` and `Receive` are the engine loop, which alternates
maintenance and at most one packet. Peers send any beacon the wire format can
carry: any root, parent and cost up to `MaxCost`, with or without a report on
our link. Peers may fall silent for good. `Tick` is one second and may come
between any two steps.

### SptNetwork

All devices run `Spt`. A beacon goes at once into a set per receiver that
stands for send buffer, medium and receive buffer together; it may be lost
(`Lossy`), overtaken, delayed without limit, or dropped at a full inbox, but is
not duplicated. A device's maintenance and reading are not forced to alternate,
which includes every order the engine loop takes. `Crash` empties a device and
its inbox, `Boot` starts it again. `Prompt` restricts time to pass when nothing
is waiting: an assumption that every hop of a beacon, each polled twice a second
or more often, takes less than the one second of the model's clock. `NetLossy`
and `NetConverge` make it, and of the theorems only `ParentIsStable`.
A multicast may come back to its sender, whose receive handler drops it.

### Table

* A step is one access to `entries[]` or to `size`, which is what the reader on
  the other core can see. `spt_add_neighbor` is `AddPut` and `Grow`,
  `spt_remove_neighbor` is `RemoveSwap` and `Shrink`, the timeout loop of
  `spt_maintenance` is `SweepStart`, `TestEntry`, `Shift`, `Shrink`, `SweepEnd`.
  The inner loop reads one slot past the table's last entry, and when the table
  is full one past the array: an over-read in the code (`spt.c:395`, array of
  `spt.c:270`) and in `Shift`, where `At` stands for whatever lies there. What
  `TableSound` and `SetSpec` show is that the word never counts as an entry.
* `AddPut` takes an entry only if it is not in the table: the callers look an
  address up first, and `EntriesUnique` shows in `Spt` that this suffices.
* Entries are never freed in the code, so a pointer is its entry. Which entries
  are too old is any set: `Spt` has the ages.
* The reader tests `size` anew for every row. The code fetches the pointer for
  every field (`hc_measure.c:77-83`), the model once for the id and once for the
  rest, enough for a row of two entries.

### HcBuffer

Calls are split at the lock, the slot and the counters. `fresh`, `taken` and
`lost` are history. The mapping to `BoundedFifo` counts a popped packet as gone
once its slot is cleared and a pushed one as in once it is counted.

### Overlay and OverlayNet

* The fixed header fields are a record, the extensions a sequence of bytes of
  `Byte` values: type of the next, 1, length, data. Lengths are reduced modulo
  `Byte` where the code writes one byte; numbers read past the end are -1.
* In memory the extensions are the open-addressed table of `hc_overlay.c`, with
  its probing (`Insert`, `Retrieve`) and its message order. `Extensions` is the
  parser's loop with its own notion of where the next extension starts, and
  ends where that loop ends: `Turn` is one iteration, and `Read`, inside
  `Extensions`, iterates it. Addresses are four bytes. `Parse` undoes `Encode` for what
  this code composes, which is the theorem `EncodedIsParsed`; `WireOrder` shows
  where it does not.
* What is looped over is a recursive function, with one named function or operator
  for the body of each loop (`Turn`, `Written`, `Ordered`), so that it can be proved about.
* `Forward` is `hc_forward` past its three early returns, `Bounce` those
  returns: unreadable, source not trusted, own address on the route record. The
  callback is part of `Forward`; the copy that goes on has the decremented
  `hopLimit`, the previous hop, and a route record begun or extended.
* `Retrust` is all that the tree does to forwarding: a device's neighborhood
  table changes at any time. `Send` loses any of the receivers; a full buffer
  drops.
* A packet in a buffer carries the abstract copy its bytes stand for (`copy`).
  No action looks at it; the refinement of `Flooding` and the invariants do.
* One message is sent per behaviour, by a test or another implementation, since
  nothing in the repository originates one.

### Station, Device and Firmware

* `Station` has three threads of control, `app_main` (`main`), the event loop
  (`handler`, `events`) and `hc_socket_init` (`socket`), and the driver
  (`radio`). Setting a bit and starting the socket task are steps of their own,
  since `app_main` may run between them. A handler is not unregistered while it
  runs: the event loop's mutex, external.
* `Device` follows a packet from `malloc` to `free`. `Malloced` gives out the
  lowest free place. The engine frees a packet a turn later (`FreePrevious`); the
  send task frees none. `Read` is every outcome of a received packet, as to what
  it pushes.
* `Firmware` adds what ends everything. `Fault` is a failed `ESP_ERROR_CHECK`, a
  failed socket call, or an error of `recvfrom`: the build's task wrapper aborts
  when a task returns (`sdkconfig:672`) and a panic restarts the chip
  (`sdkconfig:482`). `Exhausted` is a `malloc` whose NULL is written through.

## 3. Runs

Every run finishes within three minutes on two idle cores.

| Run | Question | Result |
|---|---|---|
| `NodeRoomy` | one device, any beacons of two peers, room for both: unique entries, flag and `ancestorId`, parent recorded, parent given up only for a reason, silent parent left | holds, 17,776 states |
| `NetLossy` | three devices, loss, a crash: usable links, cycles, costs, mixed tree info, swaps | holds, 1,100,249 states |
| `NetConverge` | with the code's own 5, 8 and 20 seconds: does the tree settle after a crash, and is a parent that runs ever lost? | settles; never lost, 96,523 states |
| `Table` | adds, removals and timeouts of an array against an unlocked reader: what is written and what the reader fetches is in the array, no lost or double entry, exact timeouts, a set, right reports of a table left alone, both loops end | holds, 573,775 states |
| `Buffer` | mutual exclusion, ring bookkeeping, refinement of `BoundedFifo`, every call returns, every packet leaves | holds, 15,672 states |
| `Wire` | do encoded messages flood a ring of four: no copy in circles, hops counted, every flood ends, undisturbed it gets everywhere? | holds, 29,580 states |
| `Firmware` | start-up, restarts and packets: no event after its group is gone, no early failure, no packet used after it is freed, only sent ones leak, start-up decided, tasks started, full buffers emptied | holds, 255,638 states |

Five further runs end in a violation on purpose; each shows a comment of the
code that the code does not keep:

| Run | Comment | What happens |
|---|---|---|
| `NetRoot` | root field "message->rootLogicalAdddress" (`spt.c:209`, `334`) | carries the sender's own address |
| `NodeForgotten` | "once we know that our neighborhood table is correct" (`spt.c:548`) | a full table dropped the parent's entry; the parent can then never time out |
| `NodeAdjacency` | "Table Max Sizes" (`spt.h:19`) | the adjacency table has no limit |
| `WireOrder` | "so the next one starts in the right place" (`hc_overlay.c:54`) | past a route record the parser does not know where the next extension starts |
| `MeasureRace` | "First we write the number of entries" (`hc_measure.c:71`) | the engine changes the table meanwhile: other rows than announced, rows of two entries |

Three more comments disagree with the code on sight and have no run: a "better
parent" (`spt.c:716`) is compared with a stale cost, the flag of
`spt.h:81` ("the single entry that is our ancestor") outlives the ancestor when
the device becomes root (`spt.c:557-560`), and the trust test "needs to be in
adjacency table" (`spt.c:604`) searches the neighborhood table.

The adjacency table overruns its array when more devices than
`SPT_TABLE_ADJACENCY_MAX_SIZE` are heard. What the heap does then is not
modelled: the set of links just grows, and the results below presuppose an
array that is long enough.

`NetRoot` has consequences. Because the root field carries the sender's own address,
a device takes as parent only a smaller address, so no cycle and no counting to
infinity is possible (`ParentsDescend`, `CostBounded`); the swap policy can
never fire among such devices (`ParentSticky`). With `rootId` in the field
instead, the mutant `EncodeTreeRoot`, cycles and unbounded costs appear: the
code has no other protection.

`Wire` has one, too: the hop limit is never tested, and what ends a flood is the
route record alone. Without a begun record (`ForwardedUnrecorded`) copies circulate.

### Bounds

* **Three addresses**, `Self = 2` in `SptNode`: one smaller and one larger peer
  exercise every comparison of addresses. `SptNetwork` with three devices has
  chains of two hops, an orphan with a child, and a root that returns.
* **Times** are 1 with `MaxAge` 2 where only the order of events matters, which
  keeps fresh, limit and overdue apart; in `NetLossy` links expire after 0
  seconds, which halves the run and leaves the neighbour times alone;
  `NetConverge` uses the code's numbers, in seconds.
* **Ping ring** of 1 slot, `BeaconInterval` 2 (1000 in `NetConverge`, where
  every beacon is in time): interval 0, one interval, a miss. `Jumps = {1}`:
  with `MaxAge` 2 one second already passes a limit. Rings of any length, with
  anything in them, are in the theorem `LinksStayUsable`.
* **Costs**: `MaxCost` 0 with `JumpThreshold` 0 in the node runs, `Word` 8,
  `FullValue` 4 and `JumpThreshold` 1 in the network runs, so that the metric is
  above and below the threshold and may wrap.
* **Inbox** of 1 or 2: full and not full. **One crash**: a device that returns
  to neighbours that still know it. Proofs remove all of these bounds.
* **Buffer** of 2 slots, four packets, two tasks on each side (the code has one
  or two): full, empty and wrapped more than once.
* **Table** of 2 slots and three entries: full, and a removal at each end and
  of neighbours in the array. The code's table has 10.
* **Overlay**: 32-value bytes, so that a route record of up to 7 addresses of 4
  bytes fits its length byte (63 in the code), 4 extension slots for 2 types,
  hop limit 4 in a word of 8, buffers of 2. A ring of four devices has two paths
  to the device opposite, a copy that meets its source again, and a route as
  long as there are devices.
* **Firmware**: a heap of 4 packets and buffers of 2, so that buffers fill, the
  heap is reused and runs out; one retry, one fault.

### Fairness

* `SptNode`: time passes, and the engine task runs: it sleeps at most half a
  second (`hc_engine.c:40`) and nothing else in the loop blocks.
* `SptNetwork`: time passes, and what the devices have to do is not put off for
  ever: one condition on maintenance and reading of all devices together, less
  than a scheduler that gives every task its turn. `Prompt` adds that it comes
  before the next second.
* `HcBuffer`: a task that may run does; strong fairness for the mutex because
  all tasks have one priority and sleep between their calls.
* `OverlayNet`: some task with a packet goes on, one condition on all of them.
* `Table`: an operation or a report once begun goes on; neither task waits for
  anything in it. Whether one is begun is left open.
* `Firmware`: the start-up tasks and the driver, the engine and the sender each
  go on. The driver's answer is part of it: `esp_wifi_connect` ends in an event.
* Nothing is assumed of crashing, booting, faults, falling silent, arriving
  packets or loss.

## 4. Theorems

`SptNodeProofs`: the invariant is `IInv`, types with `Sound`: the state is in
its type, entries are unique in both tables, and the flag agrees with
`ancestorId`. The flag part is the strengthening: it must also say that there is
at most one flagged entry while the device is its own root, because the next
adoption removes only one. From it `TypeCorrect`, `EntriesAreUnique` and
`AncestorFlagAgrees` for any peers, beacons, table sizes and timeouts.
`ParentIsRecorded` adds `Roomy` (every neighbour is a peer; a parent is in the
table) under the assumption that the table has room for every peer, without
which `NodeForgotten` refutes it. `ParentIsKept`, an action property, adds
`ParentBelow`: the parent's entry names a root that is not beyond the device.
That is what the swap policy compares with, so only the parent's own beacon can
make the device a root again. Beside the room it assumes that no peer has the
device's own address.

`SptNetworkProofs`: `NInv` says of each device that it is sound and that its
parent, root and cost descend, and of each waiting beacon that it is one some
sound device could have sent (`Honest`): its root is its sender, its cost is at
most its sender. A beacon in flight is judged by itself, not by what its sender
now is, which is why loss, delay, reordering and restarts do not matter.
`NoParentCycle` and `CostsAreBounded` follow for any number of devices;
`TreeInfoIsConsistent` and `ParentIsSticky` where the neighborhood table has
room for all other devices. `LinksStayUsable` adds `QInv`: both sides' qualities
of every link, and every report of one in a waiting beacon, are above zero. It
is inductive because the ping that is just being recorded counts, whatever else
an uninitialised ring holds. `ParentIsStable` is about a network that keeps its
time (`Steady`): no loss, no late beacons, engines that do what is due before
the next second, a heartbeat no longer than the neighbor timeout (5 and 8
seconds in the code), and room in tables and inboxes. Until something crashes,
`CalmInv` holds: everybody is up, no clock is set, at most one beacon of a
device waits at another, none that is older than its sender's last, and the
parent's entry is as young as the parent's last beacon unless the next is
waiting. The entry's age is thus bounded by the parent's heartbeat, not by the
device's own.

`HcBufferProofs`: `BInv` extends the property to the moments when a task is half
way: `Window` says which slots are occupied then, `InsideOK` what the task
inside has tested. `BufferTypeCorrect` includes mutual exclusion.
`BufferImplementsFifo` is the refinement of `BoundedFifo`. It adds that packets
on their way in are no longer fresh and pairwise different (`Apart`) and that
the one put in a slot and not yet counted is the one behind the last (`Stored`).
The abstract queue moves when a counter does; every other half of a call is a
stutter.

`TableProofs`: `TInv` adds to types and `TableSound` a `Phase` (what the
engine's place in an operation says of `hole`, `i` and `size`) and `Passed` (the
timeout loop keeps what it must, and nothing below its index is due). The reader
needs no more than that `size` never exceeds the array. `TimeoutLoopExact` and
`TableKeepsEntries` follow for any size; `CalmReportsRight` adds that rows
written while the engine is calm agree with the array. `TableImplementsSet` is
the refinement of `NeighborSet`: an entry is in the set from `Grow` until its
slot is given up (`hole`).

`FloodingProofs`: what is in the air is `Good`: its trail is simple, begins at
its source, and its hop limit has lost exactly the trail's length. A device adds
itself only to a trail that it is not on. A simple trail is at most as long as
there are devices, so the hop limit of at most as many never wraps. These are
theorems of the abstract flood.

`OverlayNetProofs` brings them to the code's bytes. `EncodedIsParsed` is the
round trip: `Parse` of the `Encode` of a message is that message, for any
payload and any route record whose lengths fit a byte. The proof follows the
parser's loop turn by turn; after a route record its next position is wrong, and
it does no harm because the type 0 behind it has already ended the loop.
`NetworkFloods` is the refinement of `Flooding`. Its invariant `CInv`: every
packet in a buffer carries a copy that is `Good` and is what its bytes parse to
(`Boxed`); a packet's trail ends at the device in whose send buffer it is, and
elsewhere in a receive buffer (`Sided`); the ways of any two packets, the trail
and the device it waits at, part at some hop before either ends (`Apart`); and
there is one message at a time (`Idle`). `Apart` is the point: without it two
packets in one place could be one copy, and taking in the first would not remove
the copy from what is on the way, as `Flooding` has it. `NetworkTrailsSimple`
and `NetworkHopsCounted` then follow from the theorems on `Flooding`. All four
are about messages of this repository's own making (`Own`): payload first, 1 to
255 bytes of it, with or without a route record, addresses of four bytes, and at
most 63 devices, since the length byte of a longer route wraps
(`hc_overlay.c:178`). Loss, full buffers, changes of trust and the order of
tasks are free. Induction on the number of turns and bytes is done without the
library's induction theorems: a set of naturals with 0 that is closed under
successor is all of them (`NatInd`), since the part of it up to the least number
missing would map one-to-one into a smaller finite set.

`FirmwareProofs`: `SInv` says what may be posted in which state of the driver
(`Posted`), that the group lives while a handler is registered (`Phases`), and
that each retry was for a failure (`Counted`). `DInv` is `Owned` with
`OnlySentLeak` and the engine's variable empty when it pops; that is inductive
over all three tasks because a place is given out only while it is not live. A
restart re-establishes both.

Assumptions are the named `ASSUME`s of the modules, which TLC evaluates in every
run, and the hypotheses named above: table size, distinct addresses, `Steady`,
`Own`.

Only model-checked: the liveness properties (`SilentParentLeft`, `Converges`,
`CallsReturn`, `Drains`, `Quiesces`, `Reaches`, `SweepEnds`, `ReportEnds`,
`Decided`, `Runs`, `Handled`), which are outside the prover's reach. Every
safety property, action property and refinement that a passing run checks is
stated by a theorem.

## 5. Not modelled, and what could follow

Left out, with the reason:

* **A second address before the handlers are gone**, which starts a second
  engine on the same global (`network_station_main.c:67`): two engines on one
  `Device` would share its buffers and global. A failed `xTaskCreate`, and DHCP
  that never answers, are left out as well; a link that breaks after start-up
  is modelled, and no code reconnects.
* **Overlay at its limits**: a route of 64 hops whose length byte wraps (the
  operators wrap, no run gets there), packets beyond 1024 bytes, a message
  without payload, whose callback arguments are uninitialised, a table of
  extensions that is full.
* **Addresses**: one that does not fit 16 bits, which only another
  implementation could have, and two devices that share one. The theorems of
  `SptNodeProofs`, but for `ParentIsKept`, hold for a peer with the device's own
  address; the runs have none.
* **Socket tasks**: the flush branch is dead code, its counter is never
  incremented.
* **Wire codec**: half bytes and the field layout of beacons, where only the
  root field is unexpected. **Measurements**: the layout of a report and the
  HTTP post; the adjacency rows, read by a loop like the one modelled. Leaks of
  other memory than packets.
* **For good**: HTTP and NVS calls, logging, the contents of payloads, the
  constant overlay hash, build files, the earlier copy in `src/hypercast/`.

Next, in this order: beacons that take up to a few seconds through the polled
stages, in place of `Prompt`, for `NetConverge` and `ParentIsStable`; a packet whose
table of extensions is full, and an extension behind a route record, in the
codec's theorem (what is parsed then, instead of that nothing else is); the beacon's
field layout; the ring of pings with its start index against `RecordPing`.
