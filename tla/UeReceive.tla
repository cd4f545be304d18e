----------------------------- MODULE UeReceive ------------------------------
(***************************************************************************)
(* What becomes of a frame at the UE, from the radio to its packets        *)
(* (src/UE.cpp): the receive thread, the process thread with its           *)
(* demodulation workers, the sensing thread, the bit-processing thread     *)
(* with its decoding workers, the rings between them, the pools their      *)
(* buffers come from, and the order in which stop() ends them.             *)
(*                                                                         *)
(* When the receiver searches, tracks and resets is the subject of UeSync; *)
(* here it does so at any time.                                            *)
(***************************************************************************)
EXTENDS Integers, Sequences, FiniteSets

CONSTANTS
  Demodulators, \* demodulation workers
  Decoders,     \* LDPC workers
  Depth,        \* kPipelineDepth
  FrameCap,     \* capacity of frame_queue_
  SensingCap,   \* capacity of sensing_queue_
  LlrCap,       \* capacity of _data_llr_buffer
  Payloads,     \* whether frames carry data
  Frames,       \* bound: frames received
  Troubles      \* bound: resets, stream restarts, alignments scheduled by tracking

ASSUME UeReceiveAssumption ==
  /\ {Demodulators, Decoders, Depth, FrameCap, SensingCap, LlrCap} \subseteq Nat \ {0}
  /\ {Frames, Troubles} \subseteq Nat
  /\ Payloads \subseteq BOOLEAN /\ Payloads # {}

VARIABLES
  sync,       \* state_, _sync_generation, _recovery_queue_clear_requested
  rx,         \* the receive thread: the frame in its hand and whether it aligns;
              \* frame_queue_
  proc,       \* the process thread: where it is, what it does after collecting,
              \* _ertm_remeasure_deferred_after_sensing_drop
  demod, demodNext, demodTurn,     \* its workers
  sensing,    \* sensing_queue_
  llrs,       \* _data_llr_buffer
  bit,        \* the bit-processing thread, as proc
  decode, decodeNext, decodeTurn,  \* its workers
  pool,       \* buffers available in each pool; less than 0: allocated since
  stop,       \* how far stop() has come
  seen,       \* observer: the last frame decoded; the last alignment not yet measured
              \* and its generation
  budget      \* what is left of the bounds

demodVars  == <<demod, demodNext, demodTurn>>
decodeVars == <<decode, decodeNext, decodeTurn>>
vars == <<sync, rx, proc, demodVars, sensing, llrs, bit, decodeVars, pool, stop, seen,
          budget>>

D == INSTANCE OrderedWorkers WITH Workers <- Demodulators, slots <- demod,
                                  launch <- demodNext, collect <- demodTurn
L == INSTANCE OrderedWorkers WITH Workers <- Decoders, slots <- decode,
                                  launch <- decodeNext, collect <- decodeTurn

Margin == 2  \* kPoolMargin

\* _prefill_pools_for_topology
Target ==
  [rx      |-> FrameCap + Demodulators * Depth + 1 + Margin,
   llr     |-> LlrCap + Demodulators * Depth + Decoders * Depth + 1 + Margin,
   sensing |-> SensingCap + Demodulators * Depth + 1 + Margin]

Init ==
  /\ D!Init /\ L!Init
  /\ sync = [state |-> "SYNC_SEARCH", gen |-> 0, clear |-> FALSE]
  /\ rx = [hand |-> <<>>, aligning |-> FALSE, queue |-> <<>>]
  /\ proc = [pc |-> "collect", then |-> "clear", deferred |-> FALSE]
  /\ sensing = <<>>
  /\ llrs = <<>>
  /\ bit = [pc |-> "collect", then |-> "launch"]
  /\ pool = Target
  /\ stop = "no"
  /\ seen = [decoded |-> 0, unmeasured |-> 0, gen |-> 0]
  /\ budget = [frame |-> 1, troubles |-> Troubles]

\* running_, sensing_running_ and _bit_processing_running.
Running        == stop = "no"
SensingRunning == stop \in {"no", "engine"}
BitRunning     == stop \in {"no", "engine", "sensing"}

Stale(f) == f.gen # sync.gen

-----------------------------------------------------------------------------
(* The receive thread.                                                     *)

Receives(f, aligning) ==
  /\ Running /\ rx.hand = <<>>
  /\ budget.frame <= Frames
  /\ rx' = [rx EXCEPT !.hand = <<f>>, !.aligning = aligning]
  /\ budget' = [budget EXCEPT !.frame = @ + 1]
  /\ pool' = [pool EXCEPT !.rx = @ - 1]
  /\ UNCHANGED <<sync, proc, demodVars, sensing, llrs, bit, decodeVars, stop, seen>>

\* handle_normal_rx takes a buffer and marks it with the generation, then reads.
RxNormal ==
  /\ sync.state = "NORMAL"
  /\ Receives([n |-> budget.frame, gen |-> sync.gen, align |-> FALSE], FALSE)

\* handle_alignment: a fresh acquisition may find the frames where they are.
RxAlign ==
  /\ sync.state = "ALIGNMENT"
  /\ \E a \in BOOLEAN :
       Receives([n |-> budget.frame, gen |-> sync.gen, align |-> a], TRUE)

\* A full queue drops the newest frame, and so does a read that stop() cuts short.
RxPush ==
  /\ rx.hand # <<>>
  /\ \/ /\ Len(rx.queue) < FrameCap
        /\ rx' = [hand |-> <<>>, aligning |-> FALSE, queue |-> rx.queue \o rx.hand]
        /\ UNCHANGED pool
     \/ /\ Len(rx.queue) = FrameCap \/ ~Running
        /\ rx' = [rx EXCEPT !.hand = <<>>, !.aligning = FALSE]
        /\ pool' = [pool EXCEPT !.rx = @ + 1]
  /\ sync' = IF rx.aligning THEN [sync EXCEPT !.state = "NORMAL"] ELSE sync
  /\ UNCHANGED <<proc, demodVars, sensing, llrs, bit, decodeVars, stop, seen, budget>>

\* A restart of the stream, which may cut a read short
\* (_reset_receive_state_after_stream_restart).
RxRestart ==
  /\ Running
  /\ budget.troubles > 0
  /\ sync' = [state |-> "SYNC_SEARCH", gen |-> sync.gen + 1, clear |-> TRUE]
  /\ rx' = [rx EXCEPT !.hand = <<>>, !.aligning = FALSE]
  /\ pool' = [pool EXCEPT !.rx = @ + Len(rx.hand)]
  /\ budget' = [budget EXCEPT !.troubles = @ - 1]
  /\ UNCHANGED <<proc, demodVars, sensing, llrs, bit, decodeVars, stop, seen>>

Receive == RxNormal \/ RxAlign \/ RxPush \/ RxRestart

-----------------------------------------------------------------------------
(* The demodulation workers.                                               *)

\* What a frame takes from the pools, besides its own buffer.
Acquired(data) ==
  [pool EXCEPT !.sensing = @ - 1, !.llr = IF data THEN @ - 1 ELSE @]

\* _run_cpu_demod_task: a frame of an earlier generation passes as a token; any
\* other takes a sensing buffer, and one for its LLRs if it carries any.
Demodulate(w) ==
  /\ Running
  /\ demod[w].tasks # <<>>
  /\ LET f == Head(demod[w].tasks) IN
     \/ /\ Stale(f)
        /\ D!Work(w, [frame |-> f, dropped |-> TRUE, llr |-> FALSE])
        /\ UNCHANGED pool
     \/ /\ ~Stale(f)
        /\ \E data \in Payloads :
             /\ D!Work(w, [frame |-> f, dropped |-> FALSE, llr |-> data])
             /\ pool' = Acquired(data)
  /\ UNCHANGED <<sync, rx, proc, sensing, llrs, bit, decodeVars, stop, seen, budget>>

-----------------------------------------------------------------------------
(* The process thread: process_proc.                                       *)

At(pc) == proc.pc = pc

\* Collecting has found nothing more, and it is x's turn.
Turn(x) == At(x) \/ (At("collect") /\ proc.then = x /\ ~D!Ready)

\* collect_ready_slots, and what follows it.
Collect(next) == [proc EXCEPT !.pc = "collect", !.then = next]

\* From the top of the loop.
Again == IF Running THEN Collect("clear") ELSE [proc EXCEPT !.pc = "exit"]

\* After a result the next one is looked for, unless the receiver left NORMAL.
Collected ==
  [proc EXCEPT !.pc = IF Running /\ sync.state = "NORMAL" THEN "collect" ELSE proc.then]

\* _release_cpu_demod_result
Released(r) ==
  [rx      |-> pool.rx + 1,
   llr     |-> pool.llr + (IF r.llr THEN 1 ELSE 0),
   sensing |-> pool.sensing + (IF r.dropped THEN 0 ELSE 1)]

Outdated(r) == r.dropped \/ Stale(r.frame)

ProcRelease ==
  /\ At("collect") /\ D!Ready
  /\ Outdated(D!Result)
  /\ D!Pop
  /\ pool' = Released(D!Result)
  /\ proc' = Collected
  /\ UNCHANGED <<sync, rx, sensing, llrs, bit, decodeVars, stop, seen, budget>>

\* Too many bad frames: back to the search, with nothing left to demodulate
\* (_enter_sync_search_state).
ProcReset ==
  /\ At("collect") /\ D!Ready
  /\ ~Outdated(D!Result)
  /\ budget.troubles > 0
  /\ sync' = [sync EXCEPT !.state = "SYNC_SEARCH", !.gen = @ + 1]
  /\ D!Pop
  /\ pool' = [Released(D!Result) EXCEPT !.rx = @ + Len(rx.queue)]
  /\ rx' = [rx EXCEPT !.queue = <<>>]
  /\ proc' = [proc EXCEPT !.pc = proc.then]
  /\ budget' = [budget EXCEPT !.troubles = @ - 1]
  /\ UNCHANGED <<sensing, llrs, bit, decodeVars, stop, seen>>

\* Mutant: a frame that does not reach the sensing thread takes the measurement
\* it was to force with it.
ToSensingOnce(f) ==
  LET force == f.align \/ proc.deferred
      room  == Len(sensing) < SensingCap
  IN  /\ sensing' = IF room
                    THEN Append(sensing, [n |-> f.n, gen |-> f.gen, force |-> force])
                    ELSE sensing
      /\ pool' = IF room THEN pool ELSE [pool EXCEPT !.sensing = @ + 1]
      /\ proc' = [proc EXCEPT !.pc = "llr", !.deferred = FALSE]
      /\ seen' = IF f.align THEN [seen EXCEPT !.unmeasured = f.n, !.gen = f.gen] ELSE seen

\* A frame that moved the boundary forces the eRTM to measure anew; when the
\* sensing queue is full, the next frame does so instead.
ToSensing(f) ==
  LET force == f.align \/ proc.deferred
      room  == Len(sensing) < SensingCap
  IN  /\ sensing' = IF room
                    THEN Append(sensing, [n |-> f.n, gen |-> f.gen, force |-> force])
                    ELSE sensing
      /\ pool' = IF room THEN pool ELSE [pool EXCEPT !.sensing = @ + 1]
      /\ proc' = [proc EXCEPT !.pc = "llr", !.deferred = force /\ ~room]
      /\ seen' = IF f.align THEN [seen EXCEPT !.unmeasured = f.n, !.gen = f.gen] ELSE seen

\* The control part of _collect_cpu_demod_result; tracking may ask for an alignment.
ProcControl ==
  /\ At("collect") /\ D!Ready
  /\ ~Outdated(D!Result)
  /\ \/ UNCHANGED <<sync, budget>>
     \/ /\ budget.troubles > 0
        /\ sync' = [sync EXCEPT !.state = "ALIGNMENT"]
        /\ budget' = [budget EXCEPT !.troubles = @ - 1]
  /\ ToSensing(D!Result.frame)
  /\ UNCHANGED <<rx, demodVars, llrs, bit, decodeVars, stop>>

\* ... and its last part: the LLRs wait for room as long as somebody decodes.
ProcLlr ==
  LET r    == D!Result
      room == Len(llrs) < LlrCap
  IN  /\ At("llr")
      /\ r.llr => room \/ ~BitRunning
      /\ llrs' = IF r.llr /\ room THEN Append(llrs, r.frame) ELSE llrs
      /\ D!Pop
      /\ pool' = [pool EXCEPT !.rx = @ + 1]
      /\ proc' = Collected
      /\ UNCHANGED <<sync, rx, sensing, bit, decodeVars, stop, seen, budget>>

\* _clear_recovery_queues_from_process_thread, and what the state asks for.
ProcClear ==
  /\ Turn("clear")
  /\ sync' = [sync EXCEPT !.clear = FALSE]
  /\ rx' = IF sync.clear THEN [rx EXCEPT !.queue = <<>>] ELSE rx
  /\ pool' = IF sync.clear THEN [pool EXCEPT !.rx = @ + Len(rx.queue)] ELSE pool
  /\ proc' = [proc EXCEPT !.pc = CASE sync.state = "SYNC_SEARCH" -> "search"
                                  [] D!Full -> "launch"
                                  [] OTHER -> "frame"]
  /\ UNCHANGED <<demodVars, sensing, llrs, bit, decodeVars, stop, seen, budget>>

\* process_sync_data finds the frames, ...
ProcFound ==
  /\ At("search")
  /\ Running
  /\ rx' = [rx EXCEPT !.queue = <<>>]
  /\ pool' = [pool EXCEPT !.rx = @ + Len(rx.queue)]
  /\ sync' = [sync EXCEPT !.state = "ALIGNMENT"]
  /\ proc' = Again
  /\ UNCHANGED <<demodVars, sensing, llrs, bit, decodeVars, stop, seen, budget>>

\* ... or there is something else to do.
ProcSearched ==
  /\ At("search")
  /\ D!Ready \/ sync.clear \/ sync.state # "SYNC_SEARCH" \/ ~Running
  /\ proc' = Again
  /\ UNCHANGED <<sync, rx, demodVars, sensing, llrs, bit, decodeVars, pool, stop, seen,
                 budget>>

\* The worker whose turn it is has no room: a result is waited for.
ProcLaunch ==
  /\ At("launch")
  /\ \/ /\ D!Ready
        /\ proc' = Collect("launched")
     \/ /\ ~D!Ready /\ ~Running
        /\ proc' = [proc EXCEPT !.pc = "exit"]
  /\ UNCHANGED <<sync, rx, demodVars, sensing, llrs, bit, decodeVars, pool, stop, seen,
                 budget>>

ProcLaunched ==
  /\ Turn("launched")
  /\ proc' = IF Running /\ ~D!Full THEN [proc EXCEPT !.pc = "frame"] ELSE Again
  /\ UNCHANGED <<sync, rx, demodVars, sensing, llrs, bit, decodeVars, pool, stop, seen,
                 budget>>

\* The next frame goes to the worker whose turn it is, which has room for it,
\* unless it is of an earlier generation.
ProcFrame ==
  /\ Turn("frame")
  /\ Running /\ sync.state = "NORMAL"
  /\ rx.queue # <<>>
  /\ rx' = [rx EXCEPT !.queue = Tail(@)]
  /\ \/ /\ Stale(Head(rx.queue))
        /\ pool' = [pool EXCEPT !.rx = @ + 1]
        /\ proc' = [proc EXCEPT !.pc = "frame"]
        /\ UNCHANGED demodVars
     \/ /\ ~Stale(Head(rx.queue))
        /\ D!Dispatch(Head(rx.queue))
        /\ proc' = Again
        /\ UNCHANGED pool
  /\ UNCHANGED <<sync, sensing, llrs, bit, decodeVars, stop, seen, budget>>

\* Mutant: nothing is collected while frames are waited for.
ProcStalled ==
  /\ Turn("frame")
  /\ ~(Running /\ sync.state = "NORMAL")
  /\ proc' = Again
  /\ UNCHANGED <<sync, rx, demodVars, sensing, llrs, bit, decodeVars, pool, stop, seen,
                 budget>>

\* While there is none, results are collected; the wait ends with NORMAL.
ProcWait ==
  /\ Turn("frame")
  /\ \/ /\ Running /\ sync.state = "NORMAL"
        /\ rx.queue = <<>> /\ D!Ready
        /\ proc' = Collect("frame")
     \/ /\ ~(Running /\ sync.state = "NORMAL")
        /\ proc' = Again
  /\ UNCHANGED <<sync, rx, demodVars, sensing, llrs, bit, decodeVars, pool, stop, seen,
                 budget>>

\* One more result is taken if it is there.
ProcExit ==
  /\ At("exit")
  /\ proc' = IF D!Ready THEN Collect("join") ELSE [proc EXCEPT !.pc = "join"]
  /\ UNCHANGED <<sync, rx, demodVars, sensing, llrs, bit, decodeVars, pool, stop, seen,
                 budget>>

\* How many tasks the workers have yet to run.
Tasks(slots, ids) == UNION {{w} \X DOMAIN slots[w].tasks : w \in ids}
Waiting(slots, ids) == Cardinality(Tasks(slots, ids))

\* Where the demodulators have results, by worker and place, and which of these
\* have taken buffers.
Uncollected == UNION {{w} \X DOMAIN demod[w].results : w \in D!ids}
ResultAt(x) == demod[x[1]].results[x[2]]
WithLlr     == {x \in Uncollected : ResultAt(x).llr}
WithSensing == {x \in Uncollected : ~ResultAt(x).dropped}

\* _stop_cpu_demod_workers: what they still hold is released.
ProcJoin ==
  /\ Turn("join")
  /\ pool' = [rx      |-> pool.rx + Len(rx.queue) + Cardinality(Uncollected)
                            + Waiting(demod, D!ids),
              llr     |-> pool.llr + Cardinality(WithLlr),
              sensing |-> pool.sensing + Cardinality(WithSensing)]
  /\ D!Reset
  /\ rx' = [rx EXCEPT !.queue = <<>>]
  /\ proc' = [proc EXCEPT !.pc = "done"]
  /\ UNCHANGED <<sync, sensing, llrs, bit, decodeVars, stop, seen, budget>>

Process == \/ ProcRelease \/ ProcReset \/ ProcControl \/ ProcLlr
           \/ ProcClear \/ ProcFound \/ ProcSearched \/ ProcLaunch \/ ProcLaunched
           \/ ProcFrame \/ ProcWait \/ ProcExit \/ ProcJoin

-----------------------------------------------------------------------------
(* The sensing thread: sensing_process_proc.                               *)

\* A frame of an earlier generation is released as it is; a forced measurement
\* answers every alignment up to its frame.
Sense ==
  /\ SensingRunning
  /\ sensing # <<>>
  /\ LET s == Head(sensing) IN
     seen' = IF ~Stale(s) /\ s.force /\ s.n >= seen.unmeasured
             THEN [seen EXCEPT !.unmeasured = 0]
             ELSE seen
  /\ sensing' = Tail(sensing)
  /\ pool' = [pool EXCEPT !.sensing = @ + 1]
  /\ UNCHANGED <<sync, rx, proc, demodVars, llrs, bit, decodeVars, stop, budget>>

-----------------------------------------------------------------------------
(* The decoding workers and the bit-processing thread: bit_processing_proc. *)

Decode(w) ==
  /\ BitRunning
  /\ decode[w].tasks # <<>>
  /\ L!Work(w, [frame |-> Head(decode[w].tasks), dropped |-> Stale(Head(decode[w].tasks))])
  /\ pool' = [pool EXCEPT !.llr = @ + 1]
  /\ UNCHANGED <<sync, rx, proc, demodVars, sensing, llrs, bit, stop, seen, budget>>

BitAt(pc) == bit.pc = pc

BitTurn(x) == BitAt(x) \/ (BitAt("collect") /\ bit.then = x /\ ~L!Ready)

BitAgain == IF BitRunning THEN [bit EXCEPT !.pc = "collect", !.then = "launch"]
            ELSE [bit EXCEPT !.pc = "exit"]

\* collect_ready_ldpc: the packets of a frame are handled unless it is out of date.
BitCollect ==
  /\ BitAt("collect") /\ L!Ready
  /\ seen' = IF Outdated(L!Result) THEN seen
             ELSE [seen EXCEPT !.decoded = L!Result.frame.n]
  /\ L!Pop
  /\ UNCHANGED <<sync, rx, proc, demodVars, sensing, llrs, bit, pool, stop, budget>>

\* The worker whose turn it is has no room: a result is waited for.
BitLaunch ==
  /\ BitTurn("launch") /\ L!Full
  /\ \/ /\ L!Ready
        /\ bit' = [bit EXCEPT !.pc = "collect", !.then = "launched"]
     \/ /\ ~L!Ready
        /\ BitAt("collect") \/ ~BitRunning
        /\ bit' = [bit EXCEPT !.pc = IF BitRunning THEN "launch" ELSE "exit"]
  /\ UNCHANGED <<sync, rx, proc, demodVars, sensing, llrs, decodeVars, pool, stop, seen,
                 budget>>

BitLaunched ==
  /\ BitTurn("launched")
  /\ bit' = IF BitRunning /\ ~L!Full THEN [bit EXCEPT !.pc = "take"] ELSE BitAgain
  /\ UNCHANGED <<sync, rx, proc, demodVars, sensing, llrs, decodeVars, pool, stop, seen,
                 budget>>

Taking == BitAt("take") \/ (BitTurn("launch") /\ ~L!Full)

BitTake ==
  /\ Taking
  /\ llrs # <<>>
  /\ llrs' = Tail(llrs)
  /\ bit' = BitAgain
  /\ \/ /\ Stale(Head(llrs))
        /\ pool' = [pool EXCEPT !.llr = @ + 1]
        /\ UNCHANGED decodeVars
     \/ /\ ~Stale(Head(llrs))
        /\ L!Dispatch(Head(llrs))
        /\ UNCHANGED pool
  /\ UNCHANGED <<sync, rx, proc, demodVars, sensing, stop, seen, budget>>

BitIdle ==
  /\ Taking
  /\ llrs = <<>>
  /\ L!Ready \/ ~BitRunning
  /\ bit' = BitAgain
  /\ UNCHANGED <<sync, rx, proc, demodVars, sensing, llrs, decodeVars, pool, stop, seen,
                 budget>>

BitExit ==
  /\ BitAt("exit")
  /\ bit' = [bit EXCEPT !.pc = IF L!Ready THEN "collect" ELSE "join", !.then = "join"]
  /\ UNCHANGED <<sync, rx, proc, demodVars, sensing, llrs, decodeVars, pool, stop, seen,
                 budget>>

\* _stop_cpu_ldpc_workers
BitJoin ==
  /\ BitTurn("join")
  /\ pool' = [pool EXCEPT !.llr = @ + Len(llrs) + Waiting(decode, L!ids)]
  /\ L!Reset
  /\ llrs' = <<>>
  /\ bit' = [bit EXCEPT !.pc = "done"]
  /\ UNCHANGED <<sync, rx, proc, demodVars, sensing, stop, seen, budget>>

Bit == \/ BitCollect \/ BitLaunch \/ BitLaunched \/ BitTake \/ BitIdle
       \/ BitExit \/ BitJoin

-----------------------------------------------------------------------------
(* stop(): the engine, then the sensing thread, then the decoder.          *)

\* Bound: not before every frame has arrived.
StopEngine ==
  /\ stop = "no"
  /\ budget.frame > Frames
  /\ stop' = "engine"
  /\ UNCHANGED <<sync, rx, proc, demodVars, sensing, llrs, bit, decodeVars, pool, seen,
                 budget>>

StopSensing ==
  /\ stop = "engine"
  /\ rx.hand = <<>> /\ At("done")
  /\ stop' = "sensing"
  /\ UNCHANGED <<sync, rx, proc, demodVars, sensing, llrs, bit, decodeVars, pool, seen,
                 budget>>

\* The sensing thread releases what its queue holds and ends.
StopBit ==
  /\ stop = "sensing"
  /\ sensing' = <<>>
  /\ pool' = [pool EXCEPT !.sensing = @ + Len(sensing)]
  /\ stop' = "bit"
  /\ UNCHANGED <<sync, rx, proc, demodVars, llrs, bit, decodeVars, seen, budget>>

StopDone ==
  /\ stop = "bit"
  /\ BitAt("done")
  /\ stop' = "done"
  /\ UNCHANGED <<sync, rx, proc, demodVars, sensing, llrs, bit, decodeVars, pool, seen,
                 budget>>

Stopped == stop = "done" /\ UNCHANGED vars

Next ==
  \/ Receive \/ Process \/ Sense \/ Bit
  \/ \E w \in D!ids : Demodulate(w)
  \/ \E w \in L!ids : Decode(w)
  \/ StopEngine \/ StopSensing \/ StopBit \/ StopDone \/ Stopped

\* Every thread keeps running; nothing obliges the radio to deliver.
Fairness ==
  /\ WF_vars(RxPush) /\ WF_vars(Process) /\ WF_vars(Sense) /\ WF_vars(Bit)
  /\ \A w \in D!ids : WF_vars(Demodulate(w))
  /\ \A w \in L!ids : WF_vars(Decode(w))
  /\ WF_vars(StopSensing \/ StopBit \/ StopDone)

Spec == Init /\ [][Next]_vars /\ Fairness
=============================================================================
