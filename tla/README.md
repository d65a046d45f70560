# cmcserver, verified

This directory is a TLA+ development of cmcserver, a Minecraft 1.18.1 server in
C: two threads, an `io_uring` server loop, a packet receiver that works like a
coroutine, the encoding of packets, two bump allocators that are swapped once a
game tick, a clocked game loop, and the locks, pools and hash maps under them. The
modules are written from the code under `src/`; where the code and its own comments
disagree, the models do what the code does and a run shows the disagreement.

## 1. Inventory

Two threads run after `main` has set things up.

| part | files | state | operations | used by |
|---|---|---|---|---|
| ticket lock | `sync/ticket_lock.[ch]` | two counters | enter, leave | tick arenas |
| spin lock | `sync/spin_lock.[ch]` | one word | enter, leave | pools, requests |
| tick arenas | `minecraft/tick_arena.[ch]` | two arenas, the pointers to them, users and offsets of each | switch (game loop thread), get, allocate, return (network thread) | dispatcher, game loop |
| game loop | `minecraft/game.c` | clocks, ticks of this second | tick, sleep, resume after a signal, count | tick arenas |
| server loop | `net/server.c`, `net/client.h` | ring, requests and their pool, clients | accept, recv, send, disconnect, send a packet | - |
| client list | `lib/list.h` | next and prev of each node | add_tail, del | server loop |
| buffer pools | `net/buffer_pool.c` | three stacks of free mappings | get, return | server, receiver, senders |
| receiver | `net/receiver.c` | `receiver_state_t` of each client | consume_data | server loop |
| dispatcher and senders | generated by `scripts/protodef.py` from `artifacts/protocol.json` | - | dispatch_packet, dispatch_x, send_x | receiver, handlers |
| handlers | `minecraft/protocol/{handshaking,status,login}.c` | `client->state` | process_x | dispatcher |
| number encodings | `minecraft/protocol/protocol.c` | cursor and size that is left | read and write of fixed and variable integers, uuids | readers, senders |
| readers and writers | generated by `scripts/protodef.py` | cursor, size, offset of the arena | one of each for a kind of field | dispatcher, senders |
| hash maps and arrays | `lib/stb_ds.h` | entries, index, strings of the keys | put, get, delete, free; push, pop | arrays: pools, requests; maps: no caller yet |
| nbt | `minecraft/protocol/nbt.c` | - | stubs that return -1 | nobody |
| errors, build, macros | `lib/except.*`, `lib/cpp_magic.h`, `lib/defs.h`, `Makefile` | - | - | all |

The game loop thread calls `switch_tick_arenas` once a tick and sleeps. The
network thread runs `server_start`: it takes completions from the ring and, for
each, accepts a client, or has `receiver_consume_data` cut the received bytes
into packets, dispatch them (into a tick arena) and queue replies, or gives back
the buffer of a reply. The two threads meet in the tick arenas only; the kernel
is the second actor of everything else.

What is hard, and for each part what makes it correct:

- *locks*: single accesses interleave, the counters wrap. At most one thread
  inside; the ticket lock serves in order and starves nobody; the spin lock is
  not idle while it is wanted.
- *tick arenas*: the switch may fall at any step of a packet. A packet keeps the
  arena it got and what it allocated there; `users` counts the holders; the
  switch waits for the holders of the old arena, and returns.
- *server loop*: completions come in any order and may be failures; a client has
  several requests under way; the submission queue has a limit. Each request and
  buffer is in one place; each client has exactly one recv and the server one
  accept under way; no freed client is used; no client can stop the server.
- *receiver*: a call may end anywhere in a packet. Packets do not depend on how
  the bytes were cut, and come as soon as they are whole.
- *pools*: senders interleave, and the kernel may take pages given back. What a
  sender wrote stays until it returns the buffer; no buffer is lost.
- *handlers*: a packet decides the phase of its sender. No packet leads to a
  phase that nobody handles.
- *readers and writers*: cursor and size are kept by hand next to each other, over
  lengths that a peer chose. They agree; what is sent is the encoding of its values
  and fits; what is accepted was read to its end and is what was meant; arrays do
  not overlap in the arena.
- *game loop*: it is held up and interrupted anywhere, and takes time from two
  clocks. It keeps ticking, pauses between ticks and keeps the rate.
- *hash maps*: a long sequence of puts and deletes leaves tombstones and rebuilds.
  The map stays an ordered map, probes end, strings live as long as their entries.

`PROJECT.json` lists under `hazards` each place in the code where one of these can
go wrong, with the properties that speak of it.

## 2. Plan

Done, in this order: the ticket lock and its proof; the tick arenas on top of
what the lock promises, and their proof; the server loop; receiver; pools; the
spin lock put into the pool it guards; conservation of buffers in the server; the
hash maps; the encoding of packets; the clocked game loop; then the proofs of the
pool with its spin lock, of the first-come first-served lock, of the server loop, of
the receiver, of the game loop, of the packet readers and writers, and of the
hash maps.

Every safety property of a passing run is now also a theorem. Next, to prove more:

1. `ClientList` and `StringArena` have no runs of their own; what `ServerProofs` and
   `HashMapProofs` show of them for one caller could be stated for any caller.
2. `ServerProofs` and `ReceiverProofs` side by side: that what `Server` takes from
   `Receiver` (packets come whole, a buffer is kept between recvs) is what
   `FrameStream` promises.

## 3. Modules

| module | models | abstracts |
|---|---|---|
| `FifoMutex` | what a ticket lock promises: a queue and a holder | - |
| `TicketLock` | `ticket_lock.c`, one action per shared access; `size_t` is `0..W-1` | pauses |
| `Mutex` | what a spin lock promises | - |
| `SpinLock` | `spin_lock.c`, one action per shared access; extended by the module of what the lock guards | spurious failures of the weak exchange, which x86 does not have |
| `TickArena` | `tick_arena.c` with both threads; uses `FifoMutex` for `m_arena_lock` | an offset counts pages; contents of packets; `start` |
| `BufferPool` | the send pool, its spin lock step by step, and what the kernel may do to the pages | a failed mmap |
| `GameLoop` | `game.c`: the arithmetic of ticks and sleeps on clocks that go on | a second has few nanoseconds |
| `Encoding` | what client and server agree a packet looks like, as a function of its values | - |
| `Codec` | `protocol.c` and the generated readers and writers, field by field; uses `Encoding` | a byte has few bits; a layout is a sequence of kinds of fields |
| `MCCodec` | the layouts of the packets of the three phases, and values | - |
| `OrderedMap` | what a hash map promises: an array of distinct keys | - |
| `StringArena` | `stbds_string_arena`: blocks filled from their end | bytes of a string |
| `HashMap` | the maps of `stb_ds.h`: entries, index, probes, tombstones, rebuilds, copies of keys; uses `StringArena` | hash functions are a parameter; an entry is its key |
| `MCHashMap` | a hash function with collisions and reserved values | - |
| `ClientList` | `list.h` as operators on two pointer functions | - |
| `Protocol` | the dispatcher's decisions and the handlers | a packet is its id, whether it is exactly as long as its fields, and the two fields of `set_protocol` |
| `Server` | `server.c`, with the pools and the receiver as it sees them; uses `Protocol` and `ClientList` | bytes; addresses; short writes; failing allocations; which of the free objects a pool hands out |
| `MCServer` | packets for TLC: one of each kind the dispatcher tells apart | - |
| `FrameStream` | what the receiver promises: packets out of a stream | - |
| `Receiver` | `receiver.c`, call by call | the contents of a packet are told apart but not interpreted |
| `TicketLockProofs`, `TickArenaProofs`, `BufferPoolProofs`, `ServerProofs`, `ReceiverProofs`, `GameLoopProofs`, `CodecProofs`, `HashMapProofs` | theorems about the module each is named after | - |

How state and actions correspond to the code:

- `TicketLock`: `now_serving` and `next_ticket` are the fields; `ticket` and `new`
  the locals; `Draw`, `Served` are the two lines of enter, `LeaveLoad`, `LeaveStore`
  those of leave. `SpinLock` likewise; a turn of a loop that changes nothing is a
  stutter.
- `BufferPool`: `Wait`, `GetEnter` and `ReturnEnter` are the turns of
  `spin_lock_enter` in the two functions; then one action per access to the pool,
  `madvise` and `mmap` each one of their own. `Reclaim` is the kernel.
- `TickArena`: `cur` and `nxt` are `m_current_tick_arena` and `m_next_tick_arena`.
  Actions `G...` are the game loop in `switch_tick_arenas` and `reset_arena`, in the
  order of the code (the reset before the wait, the wait on the new arena);
  actions `N...` are `get_tick_arena`, the allocations of a packet and
  `return_tick_arena` (which decrements the arena that is current at that moment).
  `lost`, `hit` and `crossed` are history: pages of an array of this packet were given
  to the kernel, a switch fell into this packet, a switch ever fell into a packet.
- `Server`: `pc` is the place in `server_start`; `req` the contents of each
  `request_t`; `sq` and `inflight` are the ring before and after submission. The
  loop sees only the head of the completion queue, so a completion happens in the
  model when the loop takes it up (`NextCqe`); this loses no behaviour because
  nothing the loop does depends on completions it has not taken up. Use of freed
  memory ends a behaviour with `pc = "fault"`. When the ring is full
  `io_uring_get_sqe` returns NULL and `CHECK_ERRNO` takes the error from `errno`,
  which may be 0: both outcomes are modelled. `overflowed` and `sendFailed` are
  history: the two events after which less is guaranteed.
- `GameLoop`: `TickStart` and `TickEnd` are the two readings of the clock around a
  tick, `TickEnd` also `safe_sleep` up to its loop, `Signal` and `Resume` an `EINTR`
  and the next turn with what was left, `Count` the report of a second. `Pass` is a
  nanosecond that goes by wherever the loop is; `stay` bounds how long it is held up
  in one place. `idle`, `turned` and `turns` are history.
- `Codec`: one behaviour is one packet, either ours (`origin = "ours"`: one action a
  field, `WriteByte` one turn of the loop of a variable integer), or one that a peer
  encoded from values, or arbitrary bytes. `size`, `pos` and `offset` are the
  variables that the code keeps by hand. A buffer has zeros behind what was received,
  as its mapping has. `negative` is history: an array with a negative length was
  read, after which some guarantees are gone and the properties say which.
- `HashMap`: one operation is one action, since a map has one user. `index` is
  `stbds_hash_index` with the buckets as one function of slots; `Probe` is the order
  in which `stbds_hm_find_slot` visits them; `Rebuilt` is `stbds_make_hash_index` with
  an old table; `copies` counts the strings of `stbds_strdup` that nobody freed.
- `Receiver`: `pc` and `line` are the place in `receiver_consume_data` during a call
  and between calls. A length is one byte because the loop tests a field that is
  never assigned.

## 4. Runs

Passing runs (bounds are in the cfg files):

| run | instance | shows |
|---|---|---|
| `ticket_lock` | 3 threads, counters modulo 4 | mutual exclusion, the window of tickets, that the counters implement `FifoMutex`, no starvation |
| `buffer_pool` | 3 senders with the real spin lock, 4 buffers | the word implements `Mutex` and is not idle while wanted; packets stay as written, no buffer lost or doubled, no more buffers than senders |
| `tick_arena` | arenas of 3 pages, arrays of 1 or 2, 2 arrays a packet, counters modulo 8 | get is atomic, counters balance, packets end; the arrays of each packet into which no switch falls are intact; exact users, and ticking for ever, while no switch falls into a packet |
| `receiver` | 5 bytes out of 5, in pieces up to 3, lengths up to 3, buffers of 2 | packets do not depend on the cuts and come at once; calls return |
| `server` | 2 clients, 7 requests, 2 replies at a time, 2 packets a recv, a submission queue of 3, 6 kinds of packets | each request and buffer is in one place, buffers get lost in the three named ways only, the list does not dangle, whatever happens; while the queue never overflowed: one recv a client, one accept, no client stops the server, data is consumed; while no send failed: no buffer of the pool is received into |
| `hash_map` | 5 keys, buckets of 4, 2 seeds, 4 strings in an arena of blocks from 2 to 4 | `OrderedMap` is implemented; every probe ends; index and array agree; copies of keys are neither leaked nor freed twice; resizes are apart |
| `codec` | 2 bits a group, integers of 5 bits, 2 bytes a fixed field, 6 bytes to write into, 6 arbitrary bytes out of 4, an arena of 4 | what is sent is the encoding; only negatives run away; cursor and size agree; what a peer meant is understood; arrays lie apart |
| `game_loop` | seconds of 6 milliseconds of 2 nanoseconds, 3 ticks a second, held up for 13 in a place | pauses are whole, the rate is kept, the loop goes on ticking |

An invariant like `MapConsistent` is a conjunction of named parts (`TypeOK`,
`IndexIsArray`, `RoomForLength`), so that a run checks the parts and a reader and a
proof can name each.

Why the bounds suffice: with 3 threads and W = 4 the tickets wrap with threads on
both sides of the wrap, and W = threads + 1 is the least that the algorithm allows.
Arenas of 3 pages are filled and overflow with arrays of 2, and the slack of 1 page
makes the reset give pages back. With 7 requests the server lacks one only after
overflows (an accept, two recvs, two replies, the one being handled, and one that
an overflow lost). Two clients are the least for which the list, the buffers and
the order of completions matter. A submission queue of 3 has room for what one
accept prepares and one more, so both a batch that fits and one that does not
occur. In `receiver` the bytes are 0, 1, 2, 3 and 6: all lengths, and 6 is 2 with the high bit.
In `hash_map` 5 keys fill the smallest table beyond its thresholds in both
directions, with homes that collide and the two hash values that the code reserves;
a bucket of 4 is what `STBDS_INTERNAL_SMALL_BUCKET` builds. In `codec` a variable
integer has up to 3 groups, of which the last is cut by the width as the fifth of 32
bits is; contents reach the length of 5, which takes two groups; the buffer is left
by fixed, variable and array fields alike, and the arena by arrays before and in the
packet. In `game_loop` a tick of 13 nanoseconds outlasts a second of 12 and can meet two new ones.
`CHECK_DEADLOCK FALSE` is set for the server, which may stop (a failed accept) or
wait for peers for ever, for the receiver, whose client may stop sending, and for
`codec`, where a packet ends.

Violations, each of a sentence that the code says of itself or of what it plainly
means to do (`findings` in `PROJECT.json` quotes them):

| run | shows |
|---|---|
| `tick_arena_switch` | the game loop may wait for ever, even when packets have stopped |
| `receiver_length` | a length of several bytes is cut after the first |
| `server_free` | a completion uses a freed client |
| `server_list` | a second client pushes the first out of the list |

Met on the way and left without a run of their own, since a property of a passing
run excepts or describes it:

- `return_tick_arena` ignores its parameter, `switch_tick_arenas` waits on the new
  arena, and the reset disturbs a packet that is still being parsed: what holds in
  spite of them is `ContractUnlessCrossed`, which also says that such a packet hurts
  no later one.
- With a full submission queue a client is left without a recv and the server
  without an accept: `OneRecvPerClient`, `AlwaysAccepting` and `DataIsConsumed` speak of
  behaviours without `overflowed`.
- A failed send leaks its buffer, dropping a client in the middle of a packet leaks
  another, and a reply for which the submission queue has no room a third:
  `BuffersLost` says that these are the only three.
- A packet buffer of the receiver is returned to the pool of send buffers
  (`receiver.c:110`), so that pool grows and the receiver's is always empty.
- Writing a negative variable integer runs off the buffer, because the shift keeps
  the sign (`protocol.c:139`): `OnlyNegativesRunAway`.
- A buffer with a negative length parts cursor and size (`protodef.py:480`), and any
  array with one moves the arena back (`tick_arena.c:122`): `negative` in `CursorAgrees`
  and `ArraysApart`.
- The reader of an option reads whether there is a value and not the value
  (`protodef.py:610`), so a packet with one is refused: `Understood`.
- `tick_duration` divides nanoseconds by 10^9 where milliseconds are meant
  (`game.c:73`), so a tick's time is not taken off its pause unless a new second
  began, and then there is no pause: `PauseIsWhole` and `RateKept` say both.
- `disconnect_client` shuts sockets down and never closes them (not modelled).

Fairness: threads that are inside a call, or hold a lock, keep being scheduled
(weak fairness of their steps); no thread has to ask for a lock, no packet has to
come, nothing has to complete. `Receiver` has weak fairness of a call that began.
The server loop has weak fairness of its own steps and none of completions. The game
loop is scheduled (weak fairness of `Loop`) and time goes by between any two signals
(strong fairness of `Pass`, which a signal disables for a moment); without the latter
signals could follow one another in no time. `Codec` and `HashMap` are sequential and
have safety properties only.

Each property of a passing run has a mutant: a plausible slip in one definition
under which the run reports that property. The mutants stand in the modules
in front of the definitions they replace and are marked as such.

## 5. Proofs

- `TicketLockProofs`: type correctness, mutual exclusion, the window of tickets and
  that the counters implement `FifoMutex`, for every finite set of threads smaller than W. The inductive invariant says that
  the number of drawn tickets is the distance between the counters, that drawn
  tickets are distinct and within that distance, and that a thread inside has the
  ticket being served; the last is what makes two threads inside the same thread,
  and is kept only because tickets are distinct. The lemmas are about the distance
  modulo W under `Succ`, and cardinalities when a thread joins or leaves. The
  implementation rests on one more fact: as many tickets are drawn as there are
  distances below their number, and they are distinct, so every such distance is
  taken and the queue that the tickets encode has no gaps (a pigeonhole argument);
  drawing a ticket then appends to that queue and leaving takes its head away.
  Assumption: fewer threads than values of a counter (`TicketAssumption`).
- `TickArenaProofs`: type correctness, `GetIsCurrent`, `UsersConserved`,
  `ContractUnlessCrossed`, and that the pointers name two arenas (`PointersDistinct`,
  which no run checks), for all sizes. The invariant ties each thread's place to
  the holder of the lock (so a swap and a get exclude each other), says that the
  two counters sum to the open packets modulo W, and, while no switch fell into the
  packet at hand, that its arena is the current one and its arrays lie disjoint
  below the offset (`Unhit`), whatever earlier packets left in counters and offsets;
  what is counted is given back as long as no switch fell into any (`Uncrossed`). Assumption: an array added to a full arena does not wrap a
  `size_t` (`ArenaAssumption`; `Codec` models the sizes for which it does).
- `BufferPoolProofs`: `PoolConsistent` (which holds `TypeOK`, `WordIsLock` and
  `BuffersAccounted`), `PacketKept`, `NoMoreThanSenders` and `ImplementsMutex`, for every
  finite set of senders and any number of buffers. The invariant says that exactly
  the one thread in a locked place holds the word; that a thread in an owner place
  has a buffer, and one that still has to advise the kernel finds its buffer in the
  pool (nobody else can have popped it); that no page of a packet may be taken; and
  that buffers and threads about to map one are together no more than threads. The
  last is why the gap between finding the pool empty and mapping does no harm: when
  the pool is empty, buffers are as many as owners (a pigeonhole argument).
  Assumption: finitely many threads (`PoolAssumption`).

- `ServerProofs`: every safety property of the run `server` (`Ownership`,
  `OneRecvPerClient`, `AlwaysAccepting`, `ClientsCannotStop`, `ListNeverDangles`,
  `QuietUnlessSendFailed` and the action property `BuffersLost`), for any numbers of
  clients, requests, buffers, packets of a recv and entries of the ring. A request in
  its last step no longer counts (`Working`); the invariant says of the others: each
  is in one place and was allocated (`PlaceInv`) and has a meaning (`ContentInv`); the
  step at hand fits the completion it handles (`SubjectInv`); a client's recv fills
  the client's own buffer, and there is at most one (`RecvInv`), and unless the queue
  overflowed at least one, or the next step prepares it (`ListenInv`), and so for
  the accept (`AcceptInv`); buffers were mapped and have one use (`MapInv`,
  `BufferInv`); the nodes of clients in use point at the head of the list only,
  which is what `list_add_tail` makes of them and why nothing dangles (`ListInv`);
  what is forgotten with a recycled request is still elsewhere (`RecycleInv`); only a
  failed accept stops the loop (`StopInv`). `BuffersLost` is then a matter of each
  step: which buffers had an owner before it and have none after. Assumption: the ring
  has an entry (`ServerAssumption`).
- `ReceiverProofs`: `ReceiverConsistent` and `ImplementsFrameStream`, for any bytes, any
  sizes and any cuts. The invariant says that the packet in work is as long as its
  first byte says, that what is in its buffer and what is still to come make up that
  length, and that it has a buffer of its own exactly while it is pieced together; a
  packet that is dispatched is whole. The stream of `FrameStream` is the piece in work
  followed by the data not consumed, which a copy moves from the one to the other
  without changing it. Assumption: the sizes are naturals (`ReceiverAssumption`).
- `GameLoopProofs`: `RateKept` and `PauseIsWhole`, for any resolution of the clocks. The
  invariant says that what was slept and what is left is a whole pause, and that the
  pauses of the ticks counted fit into the part of the second that has passed and what
  is still owed of the present pause. Since a second is a whole number of pauses, that
  bounds the ticks. Assumption: pauses divide a second and there is more than one
  (`LoopAssumption`; with one a tick as long as the second would be counted twice). As in
  the model, the wall clock is not set back.
- `CodecProofs`: `WrittenIsEncoding`, `OnlyNegativesRunAway`, `ReaderConsistent`,
  `Understood` and `ArraysApart`, for integers and groups of any number of bits, any
  layouts and values, any buffer and any arena. It has three layers. First the arithmetic:
  powers, that the digits of a number add up to it (`NumberOfDigits`), and that digits
  are those of the number they add up to (`DigitsOfNumber`). Then the functions of `protocol.c`: reading what
  was written of a variable integer gives its value back, negative or not
  (`VarintRead`), only one length can be read there (`ReadsVarint`), swapping twice gives
  a fixed integer back (`FixedRead`), and the loop of `protocol_write_varlong`, whose
  shift keeps the sign, writes exactly the groups of the encoding of a value that is
  not negative (`LoopWrites`). Last the invariant: what is written is the encoding of the
  earlier fields and the groups of the value so far (`WriteInv`); cursor and size make
  up the packet (`ReadInv`); arrays lie below the offset, in order (`ArenaInv`); and what
  is read of a peer's packet are the values that were meant, with the cursor where
  their encoding ends and the offset where their arrays end (`PeerInv`). The reader is
  out of step only behind an option whose value it leaves unread; the option is the
  last field, so what is left over makes it refuse the packet. Assumptions: values have
  the types of their fields and an array's length fits an `int32_t`
  (`ValuesAssumption`); the layouts are like those of `protocol.json`: an option ends a
  packet, and only the first field of a packet of ours is a variable integer that is not
  a length, for which the buffer has room (`LayoutAssumption`). TLC evaluates them for
  the packets of the three phases in run `codec`.

- `HashMapProofs`: `MapConsistent`, `ProbesEnd`, `KeysKept`, `ResizesAreApart` and
  `ImplementsOrderedMap`, for any keys, any hash function, any seeds and both lengths of
  a bucket. It has three layers too. First the arithmetic of probing: the number of
  buckets is a power of two, the triangular numbers below it differ modulo it
  (`TrianglesDiffer`), so by a pigeonhole argument a probe comes to every cell
  (`ProbesMeet`). Then the tables: a table is `Good` for an array if every cell in use
  names an entry and its hash, no two name the same, each is met by the probe of its
  key before any empty cell, and the counters count; it is `Complete` if every entry has a
  cell. This is kept when a table is built from an old one (`RebuiltGood`, an induction
  over the cells that were moved), when a key is put into the first tombstone or the
  empty cell (`PutInGood`), and when the last entry is moved into the gap of a deleted
  one (`ClosedGood`). The thresholds leave an empty cell (`Thresholds`, `Roomy`), and
  with one a probe ends and finds the key exactly if an entry has it (`Finds`,
  `FindsEntry`). Last the strings: one that is placed in the arena disturbs no other
  (`StrAllocIs`). The invariant puts them together: header and array (`HeaderInv`), a
  good and complete index (`IndexInv`) below its thresholds (`LoadInv`), distinct entries
  (`NoRepeats`), sound blocks (`StringsInv`), and `KeysKept`. `ResizesAreApart` needs one
  more fact, that a table above the smallest size is at least a quarter full
  (`MinInv`). Assumptions: a bucket has 4 or 8 cells, a hash is a natural number and a
  key has a length (`MapAssumption`), blocks have a positive size (`BlockAssumption`).

How inductions are done: the library's induction theorems take an operator as a
parameter, which no prover here instantiates. `WFMin`, that a set has a least element
under a well-founded relation, takes none; with the set of counterexamples for the
set, it is induction (`Induct`). From it follows that functions defined by recursion
exist (`Recursion`, `RecursionTo`), so what is defined in this way (`Power`, `Positional`,
`Encode`, `ElementsOf`, `Rebuilt`, `Power2`) can be unfolded. What needs a fold of the community modules, `^` or a
RECURSIVE operator stays out of reach.

Model-checked only: all liveness (`EventuallyServed`, `SomebodyEnters`, `PacketsFinish`,
`TicksUnlessCrossed`, `CallsReturn`, `DataIsConsumed`, `KeepsTicking`), since the prover knows
neither fairness nor `ENABLED`.

## 6. Not modelled

- `nbt.c` (stubs that return -1), `main.c` (straight line before the threads run),
  the macros of `cpp_magic.h` and `defs.h`, printing, the build.
- Of the generated code, what only PLAY packets have: switches, bitfields, the reading
  of rest data, arrays of structures. PLAY has no dispatcher yet, so nothing reaches
  them. Nor `protocol_read_varlong` and the floats, which no dispatched or sent packet
  has.
- Of `stb_ds.h`: the hash functions (a parameter), what an entry has besides its key
  (stored by the caller at the answered index), `arrins`, `arrdel` and the `temp_key` of
  `shputs`, which nobody calls.
- Of the server: how much of a reply a write takes, the order of writes to one socket,
  descriptors, failing allocations.
- A wall clock that is set back while the game loop counts (`game.c:77`).
- Encryption and compression: `CHECK_FAIL` in the code, and nothing switches them on.
