# A verification model of OpenISAC

TLA+ models, TLC checks and TLAPS proofs about the control logic of OpenISAC,
an OFDM integrated sensing and communication stack: a base station (`BS`), a
user equipment (`UE`), a channel simulator that stands for the radio, a stand
alone PHY library (`cpp_phy`) and a driver library (`libyunsdr-isac`). Paths
below are relative to the repository's `src/`.

The signal processing is numeric and stays out. What is modelled is what runs
around it: sequence numbers, windows, queues, clocks, restarts, threads, the
layout of a frame, and what they promise.

## 1. The system

| Component | Code | State | Interacts through |
|---|---|---|---|
| ARQ windows | `include/OFDMCore.hpp` (5018-5490) | transmit window (map of entries, retries, timestamps, one mutex); receive window (base, 64-bit bitmap, delivery cursor, reorder buffer) | called by the engines |
| BS engine | `src/BS.cpp` | packet rings, `_dl_arq_tx`, `_ul_arq_rx`, transmit slots with their frame numbers, restart and alignment commands | radio streams, UDP sockets, ZMQ control, the receivers below |
| UE engine | `src/UE.cpp` | synchronisation state, frame, sensing and LLR queues, buffer pools, `_dl_arq_rx`, restart and alignment atomics | same |
| Uplink TX engine | `include/UplinkTxEngine.hpp` | packet ring, period queue, `_ul_arq_tx`, timing atomics, restart epochs | owned by the UE, driven by its decode and sync threads |
| Uplink RX engine | `include/UplinkRxEngine.hpp` | frame assembly, generations, frame and LLR queues, decode thread | owned by the BS, restarted by its transmit thread |
| Frame grid and packet framing | `include/OFDMCore.hpp`, `include/Common.hpp` | which resource element is pilot, comb, marker, header, data; a queue of packets | both modulators and both demodulators |
| Sensing channel | `src/SensingChannel.cpp`, `include/Common.hpp` (AggregatedSensingDataSender) | receive thread, paired queue, batch in the making, stride, output, pending frames | transmit thread, control thread, viewers |
| Channel simulator | `src/ChannelSimulator.cpp`, `src/SimBackend.cpp`, `include/ShmRing.hpp` | shared-memory rings with a timeline, control block with the sample clock | three processes over POSIX shared memory |
| Shared runtime | `include/Common.hpp` | SPSC rings, seqlock, buffer pools, UDP senders and pacer, ordered workers, configuration | used everywhere |
| Async logger | `src/AsyncLogger.cpp` | bounded queues, one consumer thread | all threads |
| ZMQ transport | `include/ZmqTransport.hpp` | peers, bounded publication queue | viewers and controllers |
| cpp_phy pipelines | `cpp_phy/src/*_pipeline.cpp`, `ldpc_frame_decoder.cpp` | worker pools with bounded queues and in-order results | the PHY tools |
| libyunsdr transceiver | `libyunsdr-isac/src/` | device life cycle, RX/TX threads and queues | vendor library |

Hard behaviours, and what correctness means for each component:

* **ARQ.** Frames and ACKs are lost; copies arrive late; numbers wrap at 2^16;
  four threads (encode and decode at each end) act between any two steps of one
  another. Right means: nothing delivered twice; in order when asked for; an
  ACK never makes the sender forget a packet that can still be taken; what is
  ACKed is kept until delivered; the windows empty once traffic stops.
* **Simulated radio.** A sample stamped with time *t* is heard at time *t*,
  whatever the order in which streams start, stop, time out and start again;
  no cycle of full and empty rings stops the air.
* **Synchronisation.** Receive thread, process thread and uplink transmit thread
  talk through a dozen atomics. Right means: the uplink stays at its distance
  from the downlink frame through resets, alignments and restarts, no timing
  error is corrected twice, and a UE that lost the frames comes back to them.
* **Restarts.** The BS restarts its burst under receivers that are half way
  through a frame. Right means: what a receiver pairs, numbers and decodes
  belongs to the frame on the air at that time, before, during and after.
* **Workers and pipelines.** Results come out in input order; bounded queues
  drop, block or cancel without losing the wake-up that ends them, nor a buffer.
* **Frame grid.** Transmitter and receiver compute the place of every resource
  element apart, for TDD and FDD, with pilots, combs, guards and clamped ranges.
  Right means: both compute the same, and a packet never blocks the queue.
* **Sensing output.** Batches are cut while stride, output and batch change and
  frames are lost. Right means: the training symbol is never sensed; channels
  that saw the same cut the same batches, or nothing can be joined.
* **Logger, transports.** Shutdown drains or discards but never hangs.

`PROJECT.json` lists the hazards at their lines, with the property that covers
each or the reason none does. The repository's own test of the ARQ
(`scripts/test_arq_helpers.py`) drives the helper classes one call at a time;
the orders of arrival, the threads and the wrap are what it does not reach. The
threads of the engines have no test at all.

## 2. The modules

```
ArqSeq <- ArqRxWindow <- ArqReceiver <- ArqLink -- implements --> Delivery
ArqSeq <- ArqTxWindow <----------------'
FramePipeline -- implements --> FrameQueue          DecoderPool    Logger    Seqlock
ShmRing <- SimAir                                   UplinkTx <- UeSync
BsTransmitter, SensingRx, UplinkRx <- BsReceivers   OrderedWorkers (twice) <- UeReceive
FrameGrid <- FrameLink                              SensingOutput
```

Each has an `MC` module with what a finite instance needs.

### ARQ

`ArqSeq` is the sequence arithmetic, with half the sequence space as the
parameter `HalfSpace` (32768 in the program). `ArqRxWindow` and `ArqTxWindow`
are the two window classes, as operators on a record and on a function: one
operator per method. `ArqReceiver` is the receiving end (`_process_decoded_packets`
of the UE or `_handle_arq_uplink_payload` of the BS) as actions, and has a
specification of its own, under any arrivals (`RxSpec`). `ArqLink` composes it
with the encode thread of the sender and a lossy air. `Delivery` is the abstract
datagram link that `ArqLink` implements.

| Model | Code |
|---|---|
| `rx` | `ArqRxWindow` fields; `ackBitmap` is the set of set bits, `reorderBuffer` a total function with `NoPayload` where the map has no key |
| `ackDue` | whether `should_send_ack` would answer true |
| `udpOut` | what the last frame sent to UDP |
| `feedback` | `_arq_pending_feedback` and the frames that carry it |
| `entries` | `ArqTxWindow::_entries`; `due` abstracts the timestamp against the retransmission timeout |
| `enc` | where the encode thread is (`at`), the snapshot of `get_retransmit` (`retx`), the packet in hand (`frame`) |
| `nextPos` | `_ldpc_packet_seq` / `_packet_seq`, 32 bits wide; a frame's header has only `nextPos % SeqSpace` |
| `air` | `_data_packet_buffer` / `_packet_buffer` and everything after it up to the decoder |

Each critical section of the transmit window's mutex is one step, and every
other step of the encode thread that another thread can see is one action, so
an ACK can be processed between the snapshot, the copy, the push and
`mark_transmitted`. The BS queues a packet and then tracks it; the UE tracks it
and then queues it: `Downlink` selects the order, the eRTM injection and the
deferral at 3/4 of the queue, which only the BS has.

Abstracted: payload bytes (a packet is its ordinal), clocks (a timeout or the
feedback interval may elapse at any moment), log counters, datagrams too long
for a frame (dropped before being numbered), shutdown, measurement payloads.
ACKs are not sent as frames of the opposite direction but on a queue of their
own with the same losses. Air and ACKs keep their order, as one radio stream
does; retransmission still reorders packets against one another.

### The simulated air: ShmRing, SimAir

`ShmRing` is the ring of shared memory with its two timelines, `SimAir` the base
station's transmit thread, the hub and the receive streams, and the UE's uplink
transmitter: `send()` and `recv()` with their timeouts, silence before a timed
start, overwritten and missing samples, a stream command while a `recv()` is
going on. Time is counted in samples. A cell carries the air time it was meant
for and the one it was aired at, which is all the properties compare. The hub's
channel is one path without delay and its clock is not resampled.

### Synchronisation of the UE: UplinkTx, UeSync

`UplinkTx` is the period loop of the uplink transmitter with its timed restarts,
epochs and stream shift; `UeSync` the receive thread's states (search, alignment,
normal), the process thread's tracking and the restarts they ask for. Each atomic
the threads share is a step of its own where the order matters. Positions are
counted modulo a frame: `uplink` and `downlink` say where the frames of each
direction begin. A request with its values and its epoch is taken in one step;
the 750 ms timeout of `wait_for_restart_submitted` does not expire; the timing
advance does not change while running.

### The receivers of the BS: BsTransmitter, SensingRx, UplinkRx, BsReceivers

`BsTransmitter` is the transmit loop (slots, frame numbers, what each receiver is
told of a restart), `SensingRx` a monostatic sensing channel from its stream to
the pair of frames it hands on, `UplinkRx` the uplink receiver through its
process and decode threads; `BsReceivers` runs them on one bounded clock, with
lost samples and the operator's `ALGN` and `DUTI` commands. One symbol of each
frame stands for the frame; alignment is set by the receive thread alone; a
reset and its pending flag are one step. A sender is at most a slot late;
sensing keeps up with every slot and the uplink is one behind.

### The receive chain of the UE: OrderedWorkers, UeReceive

`OrderedWorkers` is the pool of workers that commit in order (`OrderedWorkerPool`),
instanced once for demodulation and once for decoding. `UeReceive` puts them into
the chain of the receive, process, sensing and bit threads with their queues and
buffer pools, resynchronisation with its generation, the measurement that an
alignment owes, dropped frames, and `stop()` in its order. A worker's pop, run and
commit are one step, and so is the dispatcher's pop with its dispatch; `stop()` is
called after the last frame arrived.

### Frames and packets: FrameGrid, FrameLink

`FrameGrid` computes, from a configuration, the duplex layout, the pilots, the
sensing comb and the places of data at either end. `FrameLink` has the queue of
packets that the modulation thread fills frames from, the air that may damage one
resource element of a frame, and the reader that cuts frames into packets again.
A resource element has its role and, for data, which bit group of which packet;
idle random symbols are one value.

### Sensing output: SensingOutput

What a channel makes of its pairs: batches at a stride, of a regular mask or of a
sparse one, updates of stride and output, batch resets, restarts; and the sender
that joins the parts of all channels. The transmit thread hands a frame to one channel
after the other (`EnqueueTxSymbols`) and then counts it (`CountFrame`); a command may
come at any point of this, and reads the counter. A batch is the sequence of its
symbols. The
receive and transmit queues of a channel are one queue of pairs, a generation and
its flag change in one step, and the bistatic path, the direct sender, the
publisher's own high-water mark and the metadata are left out.

### Seqlock

`Seqlock` is `SeqlockedChannelEstimate`: `store()` of the equaliser thread and
`load()` of any number of readers, each read and each write of memory a step.
`seq` and `buf` are `_seq` and `_buf`; `pending` holds the writes of the last
`store()` that have not reached memory, and the `todo` of a reader's `load` the reads
it has still to do. `InOrder` chooses between program order (x86) and what
`memory_order_acquire`/`release`/`relaxed` leave free (aarch64, for which the
header has code). The model begins a `store()` when the writes of the one before
are all in memory: two stores are a frame apart.

### FramePipeline and FrameQueue

`FramePipeline` is `DynamicLinkPipeline`, whose twins `DynamicFramePipeline` and
`Rank4TimePipeline` differ in the stages they call. A critical section of
`mutex` is one action, and what a thread does to its slot outside is another;
`asleep` are the threads waiting on their condition variable, which a
notification removes from it. `slot` has of a slot what can be confused: its
state, the `frame_id` of its output, its `failure`. Preparing and decoding are
opaque and may throw. `FrameQueue` is what the three promise: a queue in order
with room for two.

### DecoderPool

`DecoderPool` is `LdpcFrameDecoder`: `generation`, `finished`, `failure` and
`stopping` are its fields, `at`, `observed` and `block` the locals of each worker,
`input` and `blockCount` the job, and `result` says for which call each block was
last decoded. The workers read and write these without the mutex, block by
block. The constructor may fail half-way, and the destructor comes between
calls, as the pipelines that own the pool do it. `mode` tells a pool of one
worker, which has no thread: the caller's loop is one action there, since
`call_mutex` keeps everybody out.

### Logger

`Logger` is `AsyncLogger` from the constructor of its guard to the end of
`shutdown()`: `queue` are the queues, in the order of `kSchedule`; `at` is where
each logging thread is in `submit_realtime` or `submit_guaranteed`; `holder` is
there because the check of the wait's predicate and the sleep are two steps with
the queue's mutex held, between which `shutdown()`, which takes no mutex, can
act. The worker's wait has a timeout of 20 ms and is a step that is always
possible. `try_lock` may fail at any time.

### The proofs

`M_proofs` extends `M`, or its MC module where that one states the properties, and
holds what is proved of it: `ArqLink_proofs` (which begins with the receiver alone, and
with lemmas about the sequence arithmetic and the window's operators), `SimAir_proofs`,
`UeSync_proofs`, `BsReceivers_proofs`, `UeReceive_proofs`, `SensingOutput_proofs`,
`FramePipeline_proofs`, `Logger_proofs`. Two small models, which share nothing with their
neighbours, have their proofs in the last part of another one's: `Seqlock` in
`BsReceivers_proofs`, `DecoderPool` in `UeReceive_proofs`. Section 4 tells what
they show.

## 3. The runs

| Run | Model | Checked | Shows |
|---|---|---|---|
| `link_downlink` | `ArqLink`, BS to UE, ordered | `SelectivelyAckedAreBuffered`, `AcceptedIsKept`, `AckedIsSettled`, `NewestIsAccepted`, `DeliveryImplemented`, `LinkDrains` | with losses both ways and unlimited retries: cursor, bitmap and reorder buffer agree, nothing accepted is lost but to a frame a window ahead, no ACK releases a packet that can still be taken, the link implements `Delivery`, and the window empties |
| `link_uplink` | `ArqLink`, UE to BS, unordered, one retry, an outage of any length | `WindowOutlastsOutage` | packets are given up while copies, ACKs and timeouts are under way and the receiver falls half the number space behind: the transmit window still empties |
| `frame_pipeline` | `FramePipeline` | `PipelineInv`, `QueueImplemented`, `NothingIsLeftWaiting` | no slot lost or shared, each frame its own failure, results in order, no lost wake-up, the destructor ends everybody |
| `decoder_pool` | `DecoderPool` | `WorkersQuietBetweenCalls`, `CallsAreAnswered` | a call returns its own results, no worker outlives it, none is left asleep |
| `logger` | `Logger` | `LoggerInv`, `BacklogIsWritten`, `NobodyIsHeldUp` | nothing guaranteed is lost, no queue starves, the backlog is written, nobody waits for ever |
| `seqlock_ordered` | `Seqlock`, `InOrder` | `SnapshotIsSound` | every copy is one whole estimate, no older than the call, where memory keeps program order |
| `sim_air` | `SimAir` | `HeardWhenAired`, `StampIsAirTime`, `SentOnTime`, `AirKeepsMoving` | samples are heard when they were sent for, through timeouts, restarts and stream commands; the air never stops |
| `ue_sync` | `UeSync` | `UplinkFollowsDownlink`, `StartsTogether`, `CorrectionIsFresh`, `Converges` | the uplink stays tied to the frame, no error is corrected twice, the receiver comes back to rest |
| `bs_receivers` | `BsReceivers` | `PairedInTime`, `OnlyFirstIsOlder`, `BoundaryRestored`, `UplinkRestored`, `AnchorsAgree` | restarts of the burst under receivers at work: what is paired was on the air together, and the boundaries come back |
| `ue_receive` | `UeReceive` | `BuffersSuffice`, `MeasurementIsOwed`, `InFrameOrder`, `EverythingEnds` | order, buffers, measurements owed until the receiver resynchronises, and the end of pipeline and `stop()` |
| `frame_grid` | `FrameLink` | `ReferencesStay`, `CombIsRecognised`, `PacketsComeBack`, `QueueMoves` | both ends agree where every packet is; no packet blocks the queue |
| `sensing_output` | `SensingOutput` | `TrainingIsNeverSensed`, `InStep`, `OnlyTheLateLose` | the training symbol is never sensed; channels that lost nothing and were told in time stay in step; a batch is given up only when a channel has passed it or comes later than the sender waits |

### Bounds

Each bound is a constant of a `.cfg`, and each is chosen so that the case the
properties are about happens.

* `link_downlink`: `HalfSpace` 4 and `FirstPos` 6 (the receiver joins a sender
  that has numbered six frames, and the numbers wrap at 8, after two more),
  `Window` 2, `BitmapBits` 3, `TxWindow` 2, `MaxRetries` 0
  (unlimited), `MaxBurst` 1 (`get_retransmit` must leave an entry for later),
  `AirCap` 2, three packets, one eRTM report, one ACK on its way.
* `link_uplink`: `HalfSpace` 3, `BitmapBits` 2, `Window` and `TxWindow` 2,
  `AirCap` 1, one retry, no limit on the burst, no eRTM. Five packets from
  `FirstPos` 4 are more than half the number space, and wrap at 6: a receiver
  that took the first and lost three takes the fifth for an old one.
* `frame_pipeline`: the two slots of the code, three frames (a slot is used
  again), two producers and two receivers (a notification may wake the wrong one).
* `decoder_pool`: one or three workers, two callers, up to four blocks (more
  than workers, and fewer), two calls (a worker may sleep through one).
* `logger`: three threads, a guaranteed queue with room for one and a real-time
  one with room for two, three messages (each queue can overflow).
* `seqlock_ordered`: two slots, two readers (interchangeable, hence the
  symmetry), three stores, a counter that does not wrap.
* `sim_air`: rings of two samples, frames of two, a clock up to 5, starts at 2
  or 4 (early and late), one stream command, one abandoned uplink period.
* `ue_sync`: a frame of four positions found at phase 2, timing advance 1, queues
  of one, one failed period and one disturbance: one correction may overtake one.
* `bs_receivers`: frames of four samples, clock up to 5 frames, restart one frame
  ahead, queues of one, batches of three, two losses, commands or restarts in
  all, sensing alone or the uplink alone (they share only the transmitter).
* `ue_receive`: two demodulators and one decoder, queues and pools sized by the
  code's formulas for depth 1, three frames, one trouble (drop,
  resynchronisation or alignment).
* `frame_grid`: ten configurations of frames of at most nine symbols of four
  subcarriers, packets of 1, 2 and 6 blocks (one does not fit), a queue of two.
* `sensing_output`: two channels, six symbols of which the last is training,
  batches of two, stride 4 and commands for 1 (refused) and 3, three frames, two events. A channel
  may lag as far as its pairs wait (one queued, one in hand) and as its batches do,
  which is more than the two pending frames of the sender (16 or 64 pairs and
  four frames in the code); a batch reset one frame ahead (four in the code).

`CHECK_DEADLOCK FALSE` is given where the system really stops: `bs_receivers` and
`sensing_output` end with their clock or frames, and `frame_pipeline`,
`decoder_pool` and `logger` are shut down. The other runs check for deadlock.

### Fairness

Only loops that a thread runs by itself are fair. `ArqLink`: weak for the encode
loop, the retransmission timeout and the feedback interval, strong for the
arrival of frames and of ACKs (the radio does not lose a packet for ever).
`link_uplink` is about the outage, and assumes less: weak for the encode loop, the
retransmission timeout and the frames leaving their queue, lost or not; nothing
of arrivals or ACKs.
`FramePipeline`: weak for each submit under way, the consumer, each receive under
way, and for somebody calling `receive()`. `DecoderPool`: weak for the constructor,
each call and each worker. `Logger`: weak for the rest of `shutdown()`, the worker and
each submit under way. `SimAir`: weak for both transmitters, the hub and each
receiver. `UeSync`: weak for the three threads, strong for finding a frame that
is there. `UeReceive`: weak for each thread and each step of `stop()`.
`FrameLink`: weak for both builders, the air and the readers. Nobody is ever
made to submit, to log, to call `shutdown()` or a destructor. A mutex is taken
at once when it is free: starvation on mutexes is not studied.

### Disagreements

Where the code does something else than a comment, a default or a document of
the repository says. Each was met while modelling; the models follow the code.

* The bitmap of an ACK has 64 bits and the receive window defaults to 256
  (`include/OFDMCore.hpp:5343`, `config/UE_Sim.yaml:46`): a packet 64 or more
  ahead moves the base over numbers that never arrived, without any loss needed.
* With ordered delivery "the payload is buffered until it can be delivered
  contiguously" (`include/OFDMCore.hpp:5322`). A packet a whole window ahead makes
  `_skip_to_include` (5430) purge packets that were accepted and ACKed, and that
  the sender has therefore forgotten. Also where both ends have the same window: the
  sender's counts packets outstanding (`has_room`, 5227), the receiver's is a span
  of numbers, so one packet lost for long with its successors ACKed lets the
  sender run ahead. `AcceptedIsKept` excepts the arrival that does it; as
  an invariant without the exception it fails for `HalfSpace` 8, `Window` 3,
  `BitmapBits` 3, `TxWindow` 3, `AirCap` 1, `MaxPackets` 6, and with `Window` 2,
  `TxWindow` 2 and one eRTM report for `MaxPackets` 4.
* An eRTM report uses up a data number that the ARQ never sees
  (`src/BS.cpp:1783`, `config/UE_Sim.yaml:45`): ordered delivery waits there until
  the window pushes it on. `LinkDrains` excuses exactly this.
* `arq_ordered_delivery` of the uplink is accepted and the buffer is never
  drained (`src/BS.cpp:1988`, `config/BS_Sim.yaml:97`).
* The seqlock's comment promises whole snapshots (`include/Common.hpp:868`); its
  relaxed increments (889) do not give them on aarch64, and do on x86.
* A BS restarted under a running hub: `SimTxStream::send` may time out in the
  silence before a timed start (`src/SimBackend.cpp:88`), the time is cleared
  after every send (`src/BS.cpp:1501`), and the retry sends the frame early for
  good, against the comment at 1489. `sim_air` starts both ends together.
* `handle_alignment` unmutes without looking at the state again
  (`src/UE.cpp:3691`), while a reset mutes and then stores its state (3293, 3325):
  the search may run unmuted, which `CHANGELOG.md:645` excludes.
* `make_uplink_config` (`include/Common.hpp:1637`) keeps the TDD window in the
  grid it derives, which loses data symbols when `ul_start < ul_count - ul_guard`,
  against the comment at 1624-1636. `frame_grid` excludes these (`UplinkIsWhole`).
* A guard over the sync symbol makes the BS send silence there (`src/BS.cpp:2495`),
  though `src/BS.cpp:1631` writes the symbol. Excluded (`SyncIsAired`).

### Limits

What the code does outside of what the runs and the proofs cover.

* ARQ: with limited retries and half of the number space given up in a row,
  new packets are taken for old: `NewestIsAccepted` fails with the constants of
  `link_uplink`. A long outage may end in a link that takes nothing for half
  the number space; that the sender's window empties meanwhile
  (`WindowOutlastsOutage`) is what the code keeps. A sender that restarts from 0 meets the
  receiver's old window (`include/OFDMCore.hpp:5329`). Payloads have no checksum
  of their own (`src/UE.cpp:5829`), so a damaged one is delivered and ACKed.
  Flagged ACKs are recognised only with downlink ARQ enabled (`src/UE.cpp:5916`).
* Shared runtime: the seqlock's counter wraps after 2^31 stores
  (`include/Common.hpp:904`); `SPSCRingBuffer::size()` from a third thread (787).
* Pipelines: `submit` and `receive` in one thread may wait for itself
  (`cpp_phy/src/dynamic_link_pipeline.cpp:138`).
* Logger: a message pushed after the worker has left stays (`src/AsyncLogger.cpp:542`).
* Simulator: a process restarted on a live segment (`include/ShmRing.hpp:126`).
* BS receivers: a second `request_reacquire` between the flag and the values of
  the first leaves a stream without a time (`src/SensingChannel.cpp:1753-1763`,
  `include/UplinkRxEngine.hpp:620-630`), which `timed` and `start > 0` except; negative
  frame numbers are clamped (`src/SensingChannel.cpp:328`); a pending boundary
  correction survives a restart taken in the slot wait
  (`include/UplinkRxEngine.hpp:678`); an alignment frame dropped by a full queue
  shifts again (`src/SensingChannel.cpp:1894-1901`).
* UE receive chain: a frame may stay in `frame_queue_` after `stop()`; an alignment
  frame dropped by a full queue (`src/UE.cpp:3652`) loses its measurement. So does
  a resynchronisation while the frame that was to measure waits for the sensing
  thread, which drops frames of an earlier generation (5728-5736); the alignment
  that ends it forces a measurement only when it is not 0 (5428-5430).
  `MeasurementIsOwed` is for the generation in which the alignment was
  collected. An LLR
  buffer is moved from when a push fails at the stop (5484-5508).
* Sensing output: a frame lost to one channel only
  (`src/SensingChannel.cpp:1993-2001`), or a restart with an older frame in hand,
  puts channels out of step; there is one slot for a pending change (1294);
  a batch reset keeps rows of a regular mask (2005). A change of stride or output
  takes the number of the next frame from a counter (`src/BS.cpp:986`) that moves on
  only after the frame was handed to every channel (2827-2841): a change in between is
  for a frame that a channel may have begun, which then applies it late, at
  another symbol than the others. `InStep` excepts a channel told late (`missed`).
  A channel may lag by its pair queue (`paired_frame_queue_size`: 16 by default,
  `include/Common.hpp:1189`, 64 in `config/BS_Sim.yaml:139`), but the sender keeps four
  incomplete frames (`include/Common.hpp:6300`): from a channel later than that it gives
  up frames that would still be completed, which `OnlyTheLateLose` excepts.
  `RequestBatchReset` reads the counter and stores the frame it is for
  in two accesses (`src/BS.cpp:793-801`), one step here: its lead is four frames.
* UE synchronisation: a restart that overtakes a tracking correction leaves the
  uplink off by that correction until the next one.

## 4. The proofs

Machine-checked with TLAPS for every value of the constants that the named
assumptions of the modules allow. TLC checked every inductive invariant on the
run's instance before it was proved.

| Theorem | States |
|---|---|
| `ArqLink_proofs!LinkTypeCorrect`, `LinkKeepsWhatItAcks`, `AcceptedStays` | the whole link is well typed; what is ACKed is buffered, and what is accepted stays until delivered |
| `ArqLink_proofs!AcksSettle`, `NewestTaken`, `LinkRefinesDelivery` | no ACK releases a packet that could still be taken, none is mistaken for an old one, and the link implements `Delivery` |
| `ArqLink_proofs!ReceiverTypeCorrect`, `ReceiverKeepsWhatItAcks`, `ReceiverDeliversRuns` | the receive window under any arrivals whatever |
| `SimAir_proofs!AirSound`, `AirTypeCorrect`, `HeardInTime` | whatever a receiver will read was sent for the time at which it reads it, or is silence |
| `SimAir_proofs!StampsAreAirTimes`, `AlwaysSentOnTime` | a block's stamp is the air time of its first sample; a frame goes out at the time it was made for |
| `BsReceivers_proofs!StationSound`, `AnchorsAlwaysAgree` | a restart's time and its frame number stay together in both receivers |
| `BsReceivers_proofs!BatchesAreOfOneGeneration`, `PairsAreInTime` | a pair is of one moment, a batch after its first pair of one burst |
| `BsReceivers_proofs!ChannelComesBack`, `UplinkComesBack` | three quiet frames after a disturbance the sensing channel, and two after one the uplink, is back at its boundary |
| `BsReceivers_proofs!SnapshotsAreCurrent`, `UndisturbedSnapshots` | whatever memory reorders: no sample of a copy is older than the call, and a copy that no store disturbed is whole |
| `UeReceive_proofs!UeInvariant`, `PacketsInFrameOrder` | packets are handled in the order of their frames |
| `UeReceive_proofs!MeasurementStaysOwed`, `RingsAlwaysSuffice` | an alignment stays owed its measurement until the receiver resynchronises; a worker never finds its rings full |
| `UeReceive_proofs!BuffersAlwaysSuffice` | every buffer is in its pool or in exactly one other place |
| `UeReceive_proofs!PoolInvariant`, `PoolWorkersQuiet` | no decoding worker outlives a call |
| `SensingOutput_proofs!StrideInvariant`, `TrainingUnsensed` | the training symbol is never sensed |
| `FramePipeline_proofs!RoundInvariant`, `PipelineSound`, `PipelineRefinesQueue` | slots, failures and order of the pipeline; it implements `FrameQueue` |
| `Logger_proofs!BacklogInvariant`, `LoggerSound` | messages are conserved, capacities kept, no queue starves |
| `UeSync_proofs!SyncSound`, `SyncTypeCorrect`, `StreamsShareTheirStart` | the three threads' types; receive and transmit stream share the start of a restart |
| `UeSync_proofs!UplinkIsAnchored`, `CorrectedOnce` | the uplink stays tied to the receiver's frames, and no error is corrected twice |

**ARQ receiver.** Circular comparison is the difficulty: `SeqLess` is not an
order. The first lemmas of `ArqLink_proofs` show that within half the space it is
the order of the distances from any point, and say what each method of the
window does to base, bitmap, cursor and buffer. `ReceiverKeepsWhatItAcks` is
`SelectivelyAckedAreBuffered` (the buffer holds exactly what the bitmap
acknowledges) with `HeldUnderOwnNumber` (each packet under its number);
`ReceiverDeliversRuns` says that what a frame hands over is the run of
consecutive numbers that ends at the cursor. They are theorems of `RxSpec`, in
which any number may arrive at any time: the receiver of `ArqLink` under the most
hostile air. Assumed: the window is less than half the space, and each number
names a payload; the bitmap may have any width. `HeldUnderOwnNumber` and
`DeliveredRunEndsAtCursor` are proved only; no run checks them.

**ARQ link.** Three theorems need no more than `TypeInv`: types, the window in
step, and every entry of the transmit window under its own number. The other three
need to know that no number under way is ambiguous. `LinkInv` gives every circular
number a position, the value of the 32-bit packet counter it came from: `A` is the
position of the base of the last ACK applied, `B` that of the receiver's base, `fb`
those of the ACKs under way, and `A <= fb[1] <= fb[2] <= ... <= B`, since ACKs keep
their order. The rest of it, part by part:

* `NumbersInv`: positions and datagrams are given out together, so that the order of
  positions is the order of datagrams, among all packets tracked, in hand, on the
  air or accepted.
* `SenderInv`: no tracked packet is older than `A`. With unlimited retries, the
  sender numbers at most `Span + TxWindow + ertm` beyond `A`: past the span of
  the last ACK, each number belongs to a tracked packet or to an eRTM report.
* `AirInv`: nothing on the air is half the space behind what was accepted or
  queued later.
* `ReceiverInv`, `FeedbackInv`: the bits of the window and of each ACK under way
  stand for accepted packets, from the position of their base.
* `DeliveredInv`: what was delivered was accepted, once, with ordered delivery in
  order and below `B`; what was accepted above `B` is in the buffer.

With that an arrival is decided as if numbers were unbounded
(`OpenedAtPositions`), also the first one, which fixes the base. An ACK, however
old, is read at the position it was made at. And a step that delivers is a step of
`Delivery`; every other one is a stutter, or takes datagrams.

`LinkFits` is the hypothesis of these three: retries are unlimited and
`Span + TxWindow + MaxErtm < HalfSpace`, or all the numbers given out are at most
`HalfSpace`. With `arq_max_retries: 0` and the default window of 256, the first says
64 + 256 + eRTM reports < 32768: any number of datagrams, through any number of
wraps; the uplink has no eRTM. `MaxErtm` counts all reports ever: a hole that
a report leaves is never ACKed, and the proof does not follow it out of the window.
With limited retries, as by default (5), the second covers the first 32768 frames. Some
such hypothesis is needed, as the counterexample under Limits shows. The bound
on what is given up in a row would be the exact one; the model does not
count it. `LinkRefinesDelivery` also assumes that ordered delivery is asked for at
the UE only, as the BS never drains its buffer (Disagreements). `LinkInv` was
model-checked on instances of either case before it was proved, with both orders
of queueing and tracking; `link_downlink` is an instance of the second, and `link_uplink`,
which outruns half the space, of neither.

**Simulated air.** `AirInv` says of every list of samples - the cells of each ring, the
two halves of the hub's chunk, the block a receiver is filling - that it begins at an
air time, and that each sample in it is silence or was sent at its own (`OnAir`). A
ring's list begins at `origin + read`. The hub passes a chunk on in five steps, and
what has to be invariant is where its lists begin half way through them:

* `ChunkInv`: the downlink has been read exactly to the end of the chunk, and the
  receive rings end at its start plus what was passed on.
* `UplinkInv`: the uplink has never been read past the chunk, so what `skip` drops is
  older than the chunk, and silence fills the rest.
* `StampInv`: stamp plus samples taken is where the receiver's ring is read next.
* `BsInv`, `UeInv`: a transmitter in a call is at the sample of its frame that the ring
  has come to. The base station never leaves its one burst; the UE may, and then fills
  the gap up to the time its next frame is due, unless it gave up a period, which is
  what `SentOnTime` excepts.

**Seqlock.** `SeqlockInv` says what holds on every platform, in whatever order the
relaxed accesses take effect and however often the counter wraps: the last write of a
store is the release that ends it (`SlotsFollowStores`), so a slot holds the last
estimate, or the one before it while its store is pending; a slot copied since the
call is not older than what was in memory then (`CopyIsCurrent`). From it follow that a
copy is never stale and that one no store disturbed is whole. A copy that a store
did disturb is whole only where memory keeps program order and the counter does not
wrap; `seqlock_ordered` checks that, and no theorem claims it. `UndisturbedIsWhole` is
proved only; `SnapshotIsCurrent` is half of what the run checks.

**Receivers of the BS.** `StationInv` begins with the one fact all else hangs on: the
transmit loop keeps the time of a frame and its number in step (`TxInv`), so a restart's
pair of values, wherever it has come to, is `time = SlotTime(number)`. From there:

* `PairInv`: nothing is sent in a generation before the sensing thread was told of it
  (`Told`), so two frames of one generation and number are of one moment. A received
  frame is off by half a frame at most, and by one frame more only when it was
  heard `early`, before the first frame of its stream, whose number it is then given.
* `BatchInv`: unless a new batch was asked for, what is gathered is of the generation
  last told, but for the first.
* `StreamInv`: a frame moves the stream on by half a frame at least (`Reached`), so a few
  quiet frames bring it past the start that the restart gave; a correction needs one
  frame to be found and one to take effect (`Settled`).
* `UlInv`: a pending correction of the uplink is less than half a frame back, so the
  boundary never goes below the start; after it the boundary is within the jitter of
  the measurement (`Near`).

`SensingAssumption` keeps the alignments within a frame either way, as the `ALGN` command
clamps them. A frame is quiet if nothing moved the stream and, while aligning,
no full queue dropped it.

**Receive chain of the UE.** `UeInv` cuts the frames received at the last one that has
left each part: the queue, demodulation, the LLR queue, decoding (`Cuts`). Everything in
a part is later than the cut after it and not later than the one before it
(`OrderInv`), so order within each part gives order along the chain. Between them
are two pools of ordered workers, `StageInv` for both: tasks are handed out in turn
and results collected in turn, so from the worker whose turn it is to be collected
up to the one to be given a task, workers hold one frame more than the others
(`Balanced`), and frames are in the order of their place in a worker's rings, then of
the turns to that worker (`InTurn`). `StageGiven` and `StageCollected` show this once for any
pool. `OwedInv` places the alignment to be measured among the frames collected;
`MeasurementInv` adds to `MeasurementIsOwed` that its generation is not a later one.
`Counted` makes `pending` the number of frames in a worker's two rings, and
`ProcRoom` and `BitRoom` keep the room tested for until it is used, which gives
`RingsSuffice`.

The sums of `BuffersSuffice` have an invariant of their own, `BooksInv`: one account for
each pool (`RxBooks`, `LlrBooks`, `SensingBooks`), which adds up what is in the pool, in
queues and hands, and with the workers. What workers hold is counted by places, pairs
of a worker and a number in its ring (`Spots`): a task handed out, run or collected
adds one place or takes one away (`SpotsGiven`, `SpotsTaken`, where the places behind
move up one by one), so no induction over the workers is needed. Each step
is shown to change the terms of an account by numbers that sum to 0 (`RxBalance`,
`LlrBalance`, `SensingBalance`). Two facts are needed beside the accounts (`HandOver`).
A process thread that has parted with a result's sensing buffer has a result that had
one, and `stop()` leaves decoding running until that thread has ended, so LLRs
for which it found no room are waited for and never thrown away with their buffer.

**Decoder pool.** `PoolInv` is about generations: a worker whose observed
generation is the current one has been counted in `finished`, or is at work and not
counted. So `finished = workers` leaves nobody inside.

**Sensing output.** `StrideInv` finds the reason why runtime strides are safe:
every stride accepted and the position it is applied at keep the position's
residue, modulo a divisor common to stride and frame, away from the training
symbol's. It holds across batches and frames because the frame's length is a
multiple of the divisor, and a change of stride that would break it is refused.

**Frame pipeline.** `RoundInv` says that the slots in the hands of the producer,
queued, being decoded, ready and being received (`Pipe`), followed by those that are free
or being prepared (`Open`), are one round through all slots. Every step leaves
the round or turns it by one place. With that, frames in the pipe rise, the failure
in a slot is the one of the frame in it, and `SlotIsInOnePlace` follows by
counting places. `PipelineRefinesQueue` maps each critical section to a step of
`FrameQueue` or a stutter; the queue's capacity holds because the slot of the
producer that is preparing is outside of the pipe.

**Logger.** `BacklogInv` has five parts beside types. `Intake`: nothing is
submitted before the start. `Submits`: each submit has a message of its own, for
a queue of its kind. `Pushed`: what a queue was given is what was written from
it, then what the worker holds of it, then what is queued, in order, less what was
evicted from a real-time queue. `Room`: a thread between its test for room and its
push holds the queue's mutex, and the room is still there. `Turns`: for each queue,
the messages written from others since it last had its turn, plus the distance
from where the next search starts, is less than the number of queues. The last
is why `NoQueueStarves` holds: a message of another queue brings the search
nearer by at least one.

**UE synchronisation.** The steps are those between two accesses to shared atomics,
so `SyncInv` has to say what each of the three threads may count on while
another is half way through. Its parts, beside types:

* `RestartInv`: a restart is known by its epoch. The epochs submitted, taken over
  by the transmit thread and raised by the receiver stand in this order, and the
  hand-over of the order, its flag and its start is one of five states. `StartsTogether`
  is one line of it.
* `StreamInv`: once a period has gone out, the samples on the air are off by
  exactly the shift that the thread has applied, unless a failed period waits for its
  restart.
* `GenerationInv`: nothing is from a later generation than the current one, and from
  a reset until the receiver has seen it no current frame is queued, so the search
  begins on frames of its own.
* `AlignmentInv`: there is one alignment at a time, from its schedule by the
  process thread until the receiver has read it.
* `GateInv`: of the frames in line, those being demodulated and those queued, that
  are of this generation and not marked by a gate, each begins where the receiver is
  now and no aligned frame comes after it, or the latch bars it. This is what
  makes `CorrectedOnce` true: a frame that may schedule a correction was received
  after the last one.
* `AnchorInv`: the uplink's shift, the receiver's position and the correction pending
  between them add up to a whole number of frames, at each of the steps in which one
  of them has been changed and another has not. `overtaken`, a history variable,
  marks the restart that resets the position in the middle of such a
  correction (Limits).

A long list of lemmas says how each step moves the two queues as one line:
`Part` is the relation of a list to one that it was picked from in order, and the
queue statements of `GateInv` survive being picked from. `SyncInv` was model-checked
before it was proved with the run's constants, with more failures, more
disturbances, and with both queues of two.

### Assumptions

Those of the modules (`RxWindowAssumption`, `LoggerAssumption` and the like): positive
sizes, windows of less than half the number space, capacities of at least one, a name for
"nobody" that is no thread's, and, in `EntryAssumption`, that the packets of the
transmit window are the frames of the link. TLC evaluates each on the run's
constants. The bounds
that make the runs finite (`MaxMessages`, `MaxFrames`, `MaxStores`) are constants
of the theorems too: they hold for all values.

### Model-checked only

* Liveness (`LinkDrains`, `WindowOutlastsOutage`, `NothingIsLeftWaiting`, `CallsAreAnswered`, `BacklogIsWritten`,
  `NobodyIsHeldUp`, `AirKeepsMoving`, `Converges`, `EverythingEnds`, `QueueMoves`): the prover has
  no rule for fairness and `ENABLED`.
* The grid: what its recursive and counting definitions compute for every
  configuration needs induction over data, which the prover cannot do.
* `ReferencesStay`, `CombIsRecognised` and `PacketsComeBack` of `FrameLink`, for the same reason.
* That a copy of the seqlock made across a store is whole, under program order.
* `InStep` and `OnlyTheLateLose` of `SensingOutput`: they compare what channels made
  of the same pairs, one after the other, so an inductive invariant would have to say
  what a channel's batch is after any sequence of pairs, a recursion over the
  history of updates.

## 5. What is not modelled, and the plan

About 15 % of the implementation's lines are behind a definition. The rest is, by
size: signal processing and its CUDA twins, configuration parsing and
validation, command-line tools, buffers of samples and sockets, displays and
logging. The codecs, the modulation and the transforms are numeric kernels that
a model checker cannot say anything about.

Not modelled though they could be: `include/ZmqTransport.hpp` (peer routing and a
bounded publication queue), the life cycle of the `libyunsdr` transceiver, the reorder
buffer of `cpp_phy/tools/video_channel_bridge.cpp`, the capture buffer and the
table of link modes of `cpp_phy`, the bistatic path of the sensing channel, the
uplink's framing, the cursors of `SPSCRingBuffer` and the UDP pacer. The `note` of
each component in `PROJECT.json` has the details.

Next, in this order:

1. `InStep` of `SensingOutput`, with a history of the updates as a function of the
   frame number.
2. For `ArqLink`, a count of what was given up in a row, for the exact hypothesis in the
   place of `LinkFits` when retries are limited.
3. The parts above that are not modelled, the ZMQ transport first.
