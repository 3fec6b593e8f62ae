# Tachyon in TLA+

A verification project for the Tachyon web server: TLA+ models of its io_uring
reactor, of the path of a request through scanner, router and output slot, of the
worker threads around the reactors, of the packet capture ring and of the byte
helpers; TLC configurations that check them on small instances; and TLAPS proofs
of what should hold for every size of ring, pool, chunk and header. File names
without a directory are under `src/src/library/`.

## 1. The system

Tachyon runs one worker thread per CPU (`server.rs`, `run`). Workers share the
port (SO_REUSEPORT) and the process's descriptor table, and nothing else. A
worker owns one io_uring instance and loops for ever in `sq_poll`.

| Component | State | Operations | Modelled by |
|---|---|---|---|
| Reactor (`server.rs`) | control, `sync_now`, rates | `register_buffers`, `sq_poll`, `wideband_send`, `process_entry`, restart | `Reactor` |
| Provided buffers (`server.rs`) | `buffers`, `released_buffers` | `register_buffers`, `request_reply`, `release_buffers` | `Reactor`, `BufferPool` |
| Client tables (`server.rs`) | `client_fds`, `client_out_buffers` (a `SmallLake` each) | `process_entry_accept`, `request_reply`, `wideband_send`, `close_connection` | `Reactor`, `Service` |
| UBDMA mode (`server.rs`, `utils/shift.rs`) | `CURRENT_KERNEL_BUF`, buffer bytes | `ubdma`, `shift_ub_inplace`, `l_trim256` | `Reactor`, `ByteOps` |
| Operations (`uring/kernel_cmds.rs`) | none | `provide_buffer`, `accept_multi`, `recv_multi`, `poll_add`, `send` | `Reactor` (the entries), `Kernel` (their execution) |
| Kernel and peers (external) | rings, pool, sockets, descriptors | execute, complete, connect, send, leave | `Kernel` |
| Operation tags (`server_internals.rs`) | none | `pack_user_data`, `unpack_user_data` | `UserData` |
| Request scanner (`utils/http.rs`) | scan position, starts | `find_request_starts_avx2`, `parse_http_methods_paths`, `parse_one_manual` | `HttpScan` |
| Router and response builder (`main.rs`, `server.rs`) | `hot_json_buf`, `hot_data_lake`, `hot_internal_cache`, the slot | `handler`, the loop and the write of `request_reply` | `RequestPath` |
| Worker supervision (`server.rs`, `utils/faf_helpers.rs`) | threads, listeners, rings, descriptor table, reuseport group | `run`, `build_listener`, `build_uring`, `attach_reuseport_cbpf`, accept, close, restart, panic | `Workers` |
| Packet ring (`network/tsocket.rs`) | one shared block, its status | `setup_packet_socket`, BPF filter, `read_packets`, `get_ipv4_addr` | `PacketRing` |
| Packet parser (`network/tsocket.rs`) | offset, slices | `parse_ipv4_tcp_packets` | `PacketParser` |
| Byte helpers (`utils/trim.rs`, `shift.rs`, `memory.rs`, `kernel.rs`) | none | trims, shifts, zeroing, flattening, `get_kernel_owned_buffer` | `ByteOps` |
| Socket options, raw calls, configuration, logging | none | straight-line calls | not modelled (section 9) |

How they interact. The reactor pushes submissions to a queue whose tail it
publishes by hand (`sq.sync`), enters the kernel (`submit`, `submit_and_wait`),
reads completions after another manual `cq.sync`, and dispatches each on its
tag. A receive completion names a buffer of the provided group; the scanner
cuts its requests; the router builds one response after the other in
`hot_data_lake`, collects them in `hot_internal_cache` and writes the whole to
the client's output slot; the next `wideband_send` queues one send per slot,
which points into the slot's memory; the buffer goes to `released_buffers` and
from there back to the kernel. When a system call fails, `sq_poll` returns, its
ring and listener are dropped, and `run`'s loop starts a fresh instance. The
packet ring is a separate path of its own, which no other code calls yet.

What is hard about it:

* a queued operation is executed later, on whatever its descriptor and its
  memory are by then;
* the two views of each ring: a push that nobody publishes, a queue that looks
  full because the head was not read;
* several operations per client complete independently, in any order, before
  and after the client is closed;
* multishot operations end silently (ENOBUFS, EMFILE) and nothing arms them again;
* the worker blocks without a timeout, so every piece of work must be handed
  over before it sleeps;
* a failing system call restarts the worker in the middle of anything, and its
  clients' descriptors stay behind in a table that all workers share;
* buffers without bounds checks, whose sizes only constants elsewhere justify;
* vectors that straddle the end of a buffer, and lengths taken from packets;
* a block of packets that goes back to the kernel before it has been parsed.

`PROJECT.json` lists these hazards at their lines, with the properties that
watch them.

## 2. Modules

| Module | What it is |
|---|---|
| `Kernel` | the environment: both views of the rings, provided buffers, descriptor table, multishot operations, peers |
| `Reactor` | one worker, an action per handler; extends `Kernel` |
| `BufferPool` | abstract specification: a buffer has one owner and goes round worker, ring, kernel, completion, worker |
| `Service` | abstract specification: a peer that waits gets the answers to its own chunks, one at a time, in order, each once |
| `MC_Reactor` | the reactor for TLC, with peers interchangeable |
| `ReactorProofs` | theorems about `Reactor`: types, no sleep with work |
| `BufferProofs` | the provided buffers: one place each, refinement of `BufferPool` |
| `ClientProofs` | the clients: tables, separation, what peers are sent, refinement of `Service`, the sizes that suffice |
| `HttpScan`, `HttpScanProofs` | the scanner and its theorems |
| `RequestPath`, `MC_RequestPath`, `RequestPathProofs` | scanner, router and slot composed; its instance with the lengths of `main.rs`; its theorems |
| `Workers`, `WorkersProofs` | the process: threads, shared descriptor table, reuseport group; its theorems |
| `PacketParser` | `parse_ipv4_tcp_packets` on arbitrary headers |
| `PacketRing`, `MC_PacketRing`, `PacketProofs` | kernel, block and reader, composed with the parser; instance; theorems |
| `UserData` | the 64-bit tag, with narrower fields |
| `ByteOps` | the byte loops of `utils` |
| `MC_Helpers`, `HelperProofs` | `UserData` and `ByteOps` side by side in one run; their theorems |

### Reactor and Kernel

`pc` is the place in the code: `boot` (register_buffers), `arm` (accepts),
`reserve`, `top` (start of a loop iteration), `drain` (the `while let` over the
batch), `relPush` and `relClear` (inside `release_buffers`), `failed`,
`aborted` (a panic: the thread is gone). A system call is the states `enter`
and `inside`, with `then` the place to return to; `back` is the caller of
`release_buffers`. Between two system calls a handler is one step: the worker is
a single thread, and what the kernel does meanwhile (completions, writes to
provided buffers) commutes with the handler except through `cq.sync`, which is
in `LoopTop`, a step of its own.

`LoopTop` is everything from the head of the loop to the choice between
`submit_and_wait(1)`, `submit` and neither: the sends in the order of the slots,
`reset_pos`, `sq.sync` if `sync_now`, `cq.sync`. `Execute` runs one published
submission; a send reads the slot's memory *then*. `Return` leaves the call.
After a wait the worker goes on with an empty batch, because `cq.next` sees only
what the last `cq.sync` saw.

Abstractions of data. A unit is a chunk of complete requests and the responses
to it; a slot holds `LakeCap` of them. Buffer bytes are `front` (where the
kernel writes) and `tail` (where `shift_ub_inplace` moves them). Rates are
zero or not. `ubdma` acts on six requests or more; the model does not count
them and allows both outcomes. A buffer is written by the kernel in one step:
reading a half-written one is left out. A write beyond a slot's end changes
memory that is not modelled and is seen by the next `wideband_send`. Completions
of sends without error do not exist (SKIP_SUCCESS). `register_files` can only
fail (`EnterFails`); `prepare_incoming_socket` and the clock have no effect on the
state kept here. `request_reply` returns early, without listing the buffer, for
more than `BUFFER_SIZE` bytes; every buffer is provided with that size, so the
kernel never reports more and the path is left out.

### HttpScan and RequestPath

A chunk is its length, the positions of the marks (`GET`, `POS`) and of the
spaces. The wide loop (two vectors per turn), the narrow loop, the recording of
the bits of a mask and the parse loop are actions. `loads` holds the offsets of
the vectors read in a step. When the first space is the last byte of a vector,
`mask >> 32` is a shift by the full width, which an optimised x86 build leaves
as it was; the model keeps that outcome, and the properties say what holds
outside of it.

`RequestPath` goes on where the scanner ends. `handler` is one call of the route
handler: it resets the two scratch buffers, builds the body, the parts of the
response (status, type, date and length, fixed headers, body) and appends the
bytes to the cache. Which of the three routes a request takes is a choice, because
the comparison of method and path decides it and any request may be any of them.
Bytes are counted, part by part; the Content-Length is the two digits that
`write_num_str_fixed` keeps. `request_reply` writes the cache to the slot.

### Workers

`file` is the kernel's descriptor table; `listener`, `ring` and `client_fds` are
the numbers the workers believe they hold. A new descriptor is the lowest free
number, as POSIX has it, so numbers are reused at once and across workers.
`build_listener` appends to the reuseport group; a listener that is closed leaves
it, and the kernel moves the last one to its place; the CPU program goes with the
last listener. `Fds` stands for all numbers below RLIMIT_NOFILE, and `CursedFd`, the
0xFF that `close_connection` falls back on, may be one of them. The end of a
connection can be reported twice (`cursed_close` is how, seen from inside the
reactor); `late` counts the second reports on their way, and `close_again` is the
close of 0xFF that such a report causes, whoever holds the number: a listener, whose
accepts keep it alive until they end (`ListenerGone`), a ring, whose worker fails with
its next system call (`ring_lost`), or a client of any worker. A client is the pair of
its connection and its number, because after such a close the two may part. A panic ends the thread and
drops its instance, or the process where `panic = "abort"` holds (the release
profile of `Cargo.toml`); `aborts` chooses between the two builds. `sq_poll_ends`
is the failure that `Reactor` models from the inside. `core_ids[thread]` panics
for workers beyond the known cores.

### PacketRing and PacketParser

`setup_packet_socket` takes one of its seven calls per step, so that traffic
arrives between any two of them; each may fail. The kernel fills the block, its
timer retires it, the reader walks it, gives it back and only then returns the
range. The packets keep the place, the length and what the tests of
`read_packets` and the filter look at. Since the range is parsed after the block
went back, the parser meets arbitrary headers in each turn: its properties do
not depend on anything the capture has checked.

### UserData and ByteOps

Widths are parameters, the arithmetic of the tags (`+` before `|`, subtraction
before the masks) and the overflow are the code's. A word is the set of the
positions of its one-bits: or and masks are union and intersection, and sums have
their carry as a formula, not by recursion, so that the prover can use it.
`MC_Helpers` has an assumption, evaluated by TLC, that sum, difference and
comparison are those of integers modulo the word. The tags are exact for the
operations the server uses: client ids from 100 up and kinds below 0x8000. For
client id 0 the offset leaves bit 63 clear, which is why the reserved ids matter.

In `ByteOps` each input byte is zero or tagged with its position, so that a byte
that ends up in the wrong place shows. One step is one turn of a loop, a vector or
a byte, and records the highest index it read and wrote. `op = "ubdma"` is the
composition that the server uses: `shift_ub_inplace`, then `l_trim256`.

## 3. Properties

Reactor:

* `TypeOK`: entries of the rings carry what their kind needs; sends fit.
* `BufferOwnedOnce`: each buffer is in exactly one place: a queued provide, the
  kernel, one unprocessed completion, or `released_buffers`.
* `BufferProtocol`: the reactor implements `BufferPool`; the mapping computes the
  owner from the rings, the pool and the list.
* `TablesAgree`: `client_fds`, `client_out_buffers` and the descriptor table
  match, and before the first restart no descriptor leaks.
* `ClientsAreSeparate`: operations and pending responses of a known client
  belong to its connection, oldest first. (Order is what the proof covers:
  `reactor_churn` has one chunk per connection.)
* `NoBlankResponse`: no peer is sent bytes of a slot that nobody wrote; in
  `reactor_tight` also none that ubdma made of a buffer without a request, however
  long that buffer is released, shifted, refilled or left from before a restart.
* `NoSleepWithWork`: nothing unpublished, unprocessed or unsent while the worker
  sleeps.
* `NoDeafClient`: a client whose peer is there has a receive queued or armed.
* `NoPanic`: the worker thread survives clients that wait for their responses.
* `ServiceKept`: for those the reactor implements `Service`; the mapping takes what
  a peer has sent for its questions and what it has received for the answers. So
  responses match requests (`ResponsesMatchRequests`, which follows), and no answer
  comes without a question or together with another.
* `NothingLost`: what was received from a client the worker knows and not answered is
  in a completion, in the slot or in a queued send. It is the safety half of
  `EveryRequestAnswered`. (A restart forgets its clients with all their requests.)
* `ReleaseHasRoom`: release_buffers finds room when it pushes, so that its retry
  loop does not spin: the converse of the run `release_spins`.
* `EveryRequestAnswered`, `AlwaysBackToLoop`: liveness.

Request path: `LoadsInBounds`, `StartsInOrder`, `NoStartMissed`, `SlicesInBounds`
(scanner); `BuffersHold` (four buffers that nobody checks), `ResponsesTile`
(nothing of an earlier request in a response, order, Content-Length) and
`OneResponseEach` (from the marks in the chunk to the responses in the cache).

Workers: `DescriptorsApart` (every number but 0xFF that a worker holds is its own,
no client has two holders, nothing is open under two numbers), `OnlyRestartsLeak`,
`GroupIsListening` (its first and third parts tie the kernel's group to open
listeners and to where the workers are), `WorkersComeBack` (after finitely many
failures; the run has one), `BacklogIsServed`.

Packet ring: `WalkInBlock`, `RangeCoversWanted` (the range holds every wanted packet
that was passed, and begins and ends with one), `FilteredFromSecondBlock`,
`BlockGoesBack`, and of the parser `ReadsInBounds`, `PayloadsDisjoint`,
`ParserStops`.

Helpers: `TagSurvives`, `AccessesInBounds`, `TrimUndoesShift`, `HelpersCompute`,
`HelpersReturn`. `HelpersCompute` says what each helper returns, which for two of them
is less than their comments promise: see section 6.

Each property of a passing run has a mutant in `PROJECT.json`: an operator
marked "A slip" in the modules, under which TLC finds the property violated.

## 4. Runs and bounds

| Run | Instance | Shows |
|---|---|---|
| `reactor_calm` | 2 clients, 2 chunks each, 1 at a time, 3 buffers, fairness | answers arrive, in order, none lost; no panic, no deaf client, no spinning; `Service` |
| `reactor_churn` | 2 connections, any way of leaving, lossy sends, one failing call anywhere | tables, clients and buffers under churn |
| `reactor_tight` | `--ubdma`, 2 pipelining clients, ring of 2, 1 buffer, 1 client slot, one failing call | all limits at once, poll path and its stale buffer, restart; `BufferPool` |
| `request_path` | vectors of 6 bytes, chunks up to 20, limit 2 | both scan loops, their seam, the tail, all mixes of routes |
| `workers` | 3 workers on 2 known cores, 5 descriptors, one of them 0xFF, 2 connections, 1 accept each, 1 restart | shared descriptors, the group, coming back |
| `packet_ring` | 2 blocks of up to 2 packets, frames of 2 or 4 bytes | set-up against traffic, walk, parse |
| `helpers` | tags with fields of 3, 2 and 3 bits; buffers up to 8 bytes, vectors of 3 | every word, every buffer, every length |
| `cursed_close`, `lazy_batching`, `release_spins`, `stray_response` | 1 or 2 clients | section 6 |
| `stuck_walk` | that of `packet_ring` | section 6 |

Why these are enough to be interesting. Three buffers give a release threshold
of two with one buffer in reserve, so that both the threshold and the idle
release happen; one buffer for two pipelining clients gives ENOBUFS at once. Two
descriptors for two connections force reuse after a close. A ring of two entries
is full after the start and after one receive. Two vectors of six bytes and a
chunk of twenty put marks on both sides of every seam of the scan loops, and
leave room for a request behind a request. The parts of a response have their
real lengths (responses of 204, 224 and 209 bytes); cache and slot hold exactly two
of the longest, so that a byte too many shows. In the code 50 responses of at
most 224 bytes, 11200 bytes, meet a cache of 14336 and a slot of 21504: the
`SizeAssumption` of the proofs holds there too. Five descriptors for three
workers and two connections run out in some behaviours and suffice in others;
0xFF is the third of the five, so that it is now a listener, now a ring, now a client;
one accept per ring is gone after one EMFILE, which is the case of interest;
three CPUs and two cores make the index panic happen. Two packets and a second
block are what the walk and the filter need. Vectors of three and buffers of
eight bytes have two whole vectors and a rest.

What bounds leave out: more than one restart, more than two connections at a
time, pipelining by several clients that also leave. `MaxReq`, `Pipeline`,
`MaxRestarts`, `Conns`, `MaxLen`, `MaxPkts` and `MaxBlocks` are the bounds;
nothing else is cut off. Peers are interchangeable model values, so symmetry
over them is used in the safety runs.

`Rest` and `Over` are the stuttering of a system that has come to an end: a worker
that sleeps with nothing to wake it, spins in `release_buffers` or has panicked;
a process that is over or where nobody connects any more; a capture without
another block. Any other stop is a deadlock for TLC.

## 5. Fairness

* `Reactor`, `FairSpec`: the worker thread is scheduled (`WF(Worker)`; it runs at
  maximum priority on its own core) and the kernel delivers what is armed: an
  accept for a connection in the backlog, a receive or its end for data that
  arrived, a poll event. Each is weak fairness on one action of one connection,
  which a kernel with its own soft interrupts justifies. Nothing is assumed of
  the peers, and nothing of `EnterFails`. The clock tick is a choice inside
  `LoopTop` without fairness: liveness does not depend on an idle second.
* `Workers`: weak fairness of each thread's own progress (`Thread(t)`: building
  its listener and ring, taking an accept), and of the kernel's letting go of a
  listener that nothing refers to (`ListenerGone`). No fairness makes peers connect or
  leave or `sq_poll` fail, and none makes the main thread spawn.
* `PacketRing`: the calling thread runs, and the kernel's retire timer fires
  (`tp_retire_blk_tov` is set). No packet is ever assumed to arrive.
* `MC_Helpers`: a loop that can take a turn takes it.

## 6. Findings

Five statements of the code's own comments fail; each has a run that expects
the violation.

* `cursed_close` (`server.rs:475`, "If we use this, something has gone terribly
  wrong"): a reset reported by a send and then by the receive closes the client
  twice, the second time descriptor 255.
  With more than 252 descriptors open, 255 is a listener, a ring or a client, perhaps
  of another worker, which goes on using a number that is closed or by then something
  else. `DescriptorsApart` says that it stays with this one number.
* `lazy_batching` (`uring/mod.rs:35`, "we want every submission to be flushed
  immediately"): while completions wait the sends are not submitted, and the next
  response to the same client overwrites the queued one. It takes a client that
  sends a chunk before it has the response to the last.
* `release_spins` (`server.rs:150`, "Spam the kernel until it finally takes our
  offering"): the loop reads nothing from the kernel; with the queue full in the
  worker's view it spins for ever.
* `stray_response` (`server.rs:246`, "Do we still know this client?"): the check
  is made when the send is queued; it may run on the descriptor's next owner.
* `stuck_walk` (`network/tsocket.rs:274`, "Iterate over all the packets in this
  block"): the `continue` of a packet that is skipped does not advance, so that the
  packets behind it are never looked at. `RangeCoversWanted` is about those it passes.
  Nothing calls `read_packets` yet.

The models also keep behaviours that a reader of the code should know of. They
are stated as what does hold:

* A receive that ends with ENOBUFS is not armed again: the handler returns the buffers
  and the client is never served again. `NoDeafClient` and `NeverDeaf` are about as
  many clients as the buffers suffice for.
* `shift_safe` erases a front that is the whole buffer, where its comment has it moved
  to the end (`utils/shift.rs:6-8`). `get_kernel_owned_buffer` is written for 6272-byte
  buffers and `BUFFER_SIZE` is 7168: it stays inside the slab, but only buffer 0 is
  where it looks for `&buffers[index]` (`utils/kernel.rs:27`). Neither has a caller.
  `HelpersCompute` leaves these cases out.
* The range is parsed after the block went back to the kernel, and the filter is
  attached after the capture began: `ReadsInBounds` and its companions assume
  nothing of the bytes, `FilteredFromSecondBlock` starts with the second block.
* A chunk is parsed on its own: a request that TCP cuts in two is found in neither
  part, requests behind the fiftieth are dropped, and so is one that begins in the
  last 33 bytes of its chunk. `OneResponseEach` has these as preconditions.
* A restart closes no client descriptor (`OnlyRestartsLeak`), EMFILE takes one
  accept for good (`BacklogIsServed` is conditional on it), and in the release
  build a panic ends all workers, where the comment at `server.rs:829` speaks of
  the thread.
* `num_cpus::get().max(1) as u8` is 0 on a machine with 256 CPUs.
* A response to a request whose FIN is processed in the same batch is dropped with
  the slot, and a receive that ends with ETIMEDOUT leaves its client in the tables.

## 7. Proofs

`ReactorProofs`, from the assumptions of `Kernel` and `Reactor` on their
constants alone:

* `TypeCorrect`: `Spec => []TypeOK`. One lemma per action of the environment and
  of the worker. The step that carries content is `LoopTop`: a send fits its slot
  because the slice of `wideband_send` has been checked (`~Overrun`). `RoomForClient`
  is what keeps client ids inside the slots.
* `NeverSleepsWithWork`: `Spec => []NoSleepWithWork`, in every mode and across
  restarts. It is not inductive. `SleepInv` adds
  `SyncRemembered` (an unpublished submission implies `sync_now`, and from the
  start until the accepts are pushed `sync_now` holds: the reason why the missing
  `sq.sync` at start is harmless), `SlotsHaveClients` (so that `wideband_send`
  skips no slot) and `BatchDone` (the batch is empty wherever control is on its
  way to the top of the loop).
* `LoopStartsDrained`: the first `cq.is_empty()` of each iteration is true. The
  model has that test as a guard of `LoopTop`; the theorem says the guard never
  blocks.

`BufferProofs` extends it with the buffers, from the same assumptions:

* `BuffersOwnedOnce`: `Spec => []BufferOwnedOnce`. Instead of cardinalities the
  invariant `BufInv` speaks of one buffer at a time. `HeldOnce`: it is in at most
  one place of each kind (`Single`) and in exactly one kind of place (`Held`).
  `BootClean`: before `register_buffers` nothing is queued, completed or armed,
  so that the first provides meet no older ones. `OneBatch`: provides are only in
  the published part of the ring, and only inside the call that hands them over;
  it is what keeps a buffer from being offered again while `released_buffers`
  still names it, between the push and `clear()`.
* `BufferProtocolImplemented`: `Spec => BufferProtocol`, the refinement. Every
  action of worker and environment is shown to be quiet (no buffer changes its
  owner) or one of the moves of `BufferPool`; `OneBatch` gives that no batch is
  offered while an earlier one is in the ring.

`ClientProofs` extends that with the clients:

* `NoBlankResponses`: `Spec => []NoBlankResponse`, with ubdma too. `Known`: all client ids in
  rings, operations and slots are below `next_id`, so that a new client finds
  nothing of an older one. `Written`: every byte of a slot below `pos`, of a
  filled buffer and of what a queued send points to was written by somebody,
  also when the client of the send is gone.
* `TablesAlwaysAgree`: `Spec => [](Uncursed => TablesAgree)`. `Uncursed` says
  that 0xFF is no client's descriptor. It is necessary: the second close of
  `cursed_close` would otherwise close the descriptor of a client that stays.
  `Tables` adds that accept completions still to be processed name different
  descriptors, all open, none a client's.
* `ClientsSeparate`: `Spec => [](Uncursed => ClientsAreSeparate)`. `Armed`: queued
  and armed operations carry the descriptor of their client. `Inboxes`: the
  chunks of a socket are numbered in a row. `Answers`: completions and the slot
  of a client hold chunks of its connection, in increasing order, those of the
  slot before those of the completions.
* `LockstepAnswers`: `Spec => [](Lockstep => ResponsesMatchRequests)`. `Lockstep`
  is a condition on the constants: one chunk of a connection at a time, nobody
  leaves, no send is refused or cut, no ubdma. None can be dropped: the run
  `lazy_batching` is the first without it, `stray_response` the second; a cut or
  refused send is not repeated, and ubdma answers requests a second time. The
  number of clients, buffers and restarts is free, and `Uncursed` is not needed
  because nothing closes (`PeersStay`). The invariant `Lock` follows the one
  chunk that is under way: `Turn` (a peer has its first answers and at most one
  more chunk in the system), and for each client `Due` (that chunk is in a
  completion, or in the slot, or in the one queued send, whose memory still holds
  its response when the kernel reads it).
* `NeverPanics`: `Spec => [](Lockstep /\ Ample => NoPanic)`. `Ample` relates sizes to
  the number F of descriptors that clients may get: an id and a slot for each, and
  a queue of 2 * `AcceptMulti` + `BUFFERS_COUNT` + 4F entries. The sizes of `main.rs`
  (4096, 1024, 16) meet it up to F = 760. The queue's bound is sufficient and not
  tight (`reactor_calm` gets by with 10 entries where it asks for 13). The argument
  counts entries: accepts sit in the first `AcceptMulti` places (`AcceptsFirst`), each
  buffer has one provide, each client one send and one receive (`ArmsKnown`), and the
  unpublished part holds neither provides nor sends (`OneBatch`, `SendsShared`), so
  `Short` and `Published` bound both views of the queue, what the kernel took and
  the worker has not seen included. `Numbered` counts ids, `Due` bounds the slot.
* `NeverDeaf`: `Spec => [](Lockstep /\ Ample /\ Plenty => NoDeafClient)`. `Plenty`
  says F <= `BUFFERS_COUNT` - `Part` + 1 and `Part` >= 1: 343 clients for the 1024 buffers
  of `server.rs`. `reactor_calm` is at that bound; one client more, and a client
  goes deaf. The core is the lemma `Fed`: when a chunk of a client waits in its
  socket, a buffer is left. A buffer that the kernel does not have is listed in
  `released_buffers` (`OffersListed`: what release_buffers pushed it still lists) or
  filled for some client, one each, and none for the client that waits; fewer than
  `Part` are listed, or exactly `Part` and one more client has its only chunk in its
  slot (`Hoarded`). `Listens` is then kept: a receive is queued at the accept, since
  there is room, and executed on the client's own connection.
* `ReleaseNeverSpins`: `Spec => [](Lockstep /\ Ample /\ Roomy => ReleaseHasRoom)`.
  `Roomy` asks for a queue of 2 * `AcceptMulti` + `BUFFERS_COUNT` + 3F + `Part` entries
  (and `Part` >= 1), which `Ample` already gives when F >= `Part`, and the sizes of
  `main.rs` up to F = 786. `Hoarded` says that no more than `Part` buffers are pushed at
  once; `Short` and `Published` say what else can be in the queue as the worker sees
  it. The push comes after a submit but before the head is read again, so all that
  the submit handed over still counts.
* `NothingIsLost`: `Spec => [](Lockstep => NothingLost)`, with no condition on sizes:
  a worker that panicked or spins has lost nothing, it only stands still. The
  invariant `Kept` puts the unanswered chunk of each client in one of the three
  places. It is kept only together with two others. `Receivers`: buffers are filled
  for known clients, so that request_reply writes to a slot that wideband_send will
  visit. `Fresh`: nothing has been received yet on a connection whose accept is
  still to be processed, nor will be before a client is there for it, so that a new
  client starts with nothing to answer.
* `WorkerIsService`: `Lockstep => (Spec => ServiceKept)`, the refinement of `Service`.
  `got` changes only when the kernel executes a send (`GotStep`), and then by the one
  answer that `Due` says is in flight (`SendExecuted`), for a chunk that was taken
  from the inbox and hence sent; `sent` changes only when the peer asks (`SentStep`).

`HttpScanProofs` proves the four scanner properties for every width above 3,
every limit and every chunk. The inductive invariant `ScanInv` adds the type of
the state, that every mark below the scan position is recorded or still in the
current mask, and that recorded marks lie below those still in the mask. Without
the second part `NoStartMissed` says nothing at the seam between the loops.

`RequestPathProofs` builds on `ScanInv`. From `SizeAssumption` (each response fits
the lake, N of any one route fit cache and slot, bodies have two-digit lengths) it
proves `BuffersHold` for every mix of routes and `ResponsesTile`. The invariant
`PathInv` adds that responses are never more than the requests cut out, those never
more than the starts recorded, and that the bytes so far are at most that many
times the longest response. `OneResponseForEach` needs more: `CutInv` adds that the
marks lie in the chunk (so there are finitely many, and an injection into the
starts counts them) and that of well-formed requests every start parsed gave a
slice (`AllCut`); with `NoStartMissed` the starts are then all of the marks.

`PacketProofs` proves the six invariants of the packet ring and its types, for every length of
headers, frames and blocks. `RangeAlwaysCovers` is about `RangeCoversWanted`. `RingInv` adds that frames lie in a row, that the range
ends with the packet before the current one or with the last of the block
(`RangeEnds`; the walk may end in two ways), and that nothing is given back before
the set-up is complete (`SetUpFirst`, from which the filter property follows).
`ParserInv` adds that the payloads found so far end before the current offset.
The parser needs nothing of the ring but that its buffer's length is not
negative, which is what `RangeIsRun` gives.

`WorkersProofs` proves `TypeOK`, `DescriptorsApart`, `OnlyRestartsLeak` and
`GroupIsListening` for every number of workers, cores, descriptors, connections and
restarts, whether 0xFF is one of the descriptors or not. None of them is inductive.
`WorkersInv` adds `HoldsAsItIs` (which descriptors a worker holds follows from where it
is, so that a worker that begins again holds none), `OnlyOpenHaveFds` (a connection
that still waits has no descriptor, so that accepting it makes no second one) and
`ListedWereAccepted` (clients, leaked ones too, were accepted once, so that a new
client is no old one under another number). `DescriptorsApart` also rests on
`OnlyRestartsLeak`: whatever is open has its holder, so a worker that begins again,
holding nothing, has nothing open, and its new listener and ring are its only ones.
`WithoutTakesOne` is about the kernel's removal from the reuseport group, which moves the last listener
into the gap: exactly one leaves and no one is listed twice. `EndPreserves` and
`CloseOnePreserves` are the steps with content: dropping an instance, or closing any
number, frees numbers that were the closer's own, or 0xFF.

`HelperProofs` proves the three invariants of the byte helpers for every vector
width, buffer and length. What the loops compute needs no induction over data: each
loop has its own invariant about the bytes it has passed (`LTrim`, `RTrim`,
`ShiftUb`, ...), `ByteInv` is their conjunction by helper, and the reference
definitions that take a least position are met by the well-ordering of the
naturals. The assumption on the constants is the code's: `get_kernel_owned_buffer`
is written for a size that is a multiple of a vector and at most `BUFFER_SIZE`.

It also proves `TagSurvives` for fields of any width. A carry
of the addition of the offset runs through every position above the lowest bit of
the client id, and the borrow of the subtraction starts at the same position
(`ZeroBelow`), so that they cancel and the other fields pass unchanged (`RawBits`);
`UnpackInvertsPack` follows. A client id that is not zero is what sets the top bit
and keeps a tag apart from the two plain ones: hence the assumption that some ids
are reserved, and that a kind leaves the top bit of its field clear.

Only model-checked: liveness and anything about fairness (`EveryRequestAnswered`,
`AlwaysBackToLoop`, `WorkersComeBack`, `BacklogIsServed`, `BlockGoesBack`,
`HelpersReturn`), which is out of the prover's reach. What the safety half of
`EveryRequestAnswered` and `AlwaysBackToLoop` needs is proved: the request is never
lost, somebody always listens, nothing panics, spins or sleeps on work. What
remains with TLC is that fairness then makes each step happen.

`NoDeafClient`, `NoPanic` and `ReleaseHasRoom` are proved for peers in lockstep and
sizes that suffice, which is where they hold; `release_spins` and `reactor_tight` show
what becomes of other clients.

## 8. Plan

The plan is done: the components of section 1 are modelled, and every invariant and
refinement that a passing run checks is proved, where it holds for every instance
or under the stated conditions. What could follow:

1. `NeverPanics` and `NeverDeaf` for peers that leave: a closed client's id is not
   given out again, so the tables must then hold every connection ever accepted, and
   a receive may also end because its peer is gone.
2. `NothingIsLost` for peers that pipeline, in a version of wideband_send that does
   not reuse a slot's memory before the kernel has read it (section 6,
   `lazy_batching`); with the code as it is, it is false.

## 9. Not modelled

* SQPOLL mode (off in `main.rs`) and the constructors of `kernel_cmds.rs` that have
  no caller.
* `prepare_incoming_socket` and the options of `build_listener`: a list of
  `setsockopt` calls whose results nobody reads. `sys_call5`: one instruction.
* Configuration and logging: setters, getters and messages.
* Response bytes, dates and JSON: data that the properties do not look at; their
  lengths are in `RequestPath`.
* The alarm clock of rates and the date: `Reactor` has the tick as a choice.
* Overflow of the completion queue (twice the submission queue's entries): the queue
  of `Kernel` has no end. The kernel keeps what does not fit aside, and ends the
  multishot operation it came from; nothing would arm that one again, as after
  ENOBUFS and EMFILE. Likewise the other errors that end an accept.
* In `Workers`, the moment between the kernel's accept and process_entry_accept: the
  descriptor is the client's at once. An accept that is armed when no descriptor is
  free ends with the first connection that waits, not before. The two closes of a
  dropped instance are one step. That 255 is closed and becomes another
  worker's listener between a worker's `build_listener` and its arming of accepts,
  which would then accept from the wrong listener: the model arms none.
* That the kernel and the worker may touch a provided buffer at the same time in
  the middle of a copy: each side's access is one step.

## 10. Running

    tlc -config reactor_calm.cfg MC_Reactor
    tlc -config request_path.cfg MC_RequestPath
    tlc -config workers.cfg Workers
    tlc -config packet_ring.cfg MC_PacketRing
    tlc -config helpers.cfg MC_Helpers
    tlapm ReactorProofs.tla
    tlapm BufferProofs.tla
    tlapm ClientProofs.tla
    tlapm HttpScanProofs.tla
    tlapm RequestPathProofs.tla
    tlapm PacketProofs.tla
    tlapm WorkersProofs.tla
    tlapm HelperProofs.tla

The runs take between five seconds and two minutes, the proofs about a quarter of an
hour in all.
