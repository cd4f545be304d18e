------------------------------- MODULE UeSync -------------------------------
(***************************************************************************)
(* How the UE finds the frames of the base station and keeps its uplink    *)
(* tied to them (src/UE.cpp): the receive thread with its three states,    *)
(* the process thread that searches, tracks and resets, and the transmit   *)
(* thread of the uplink (UplinkTx), which share nothing but atomics.       *)
(*                                                                         *)
(* Positions are in samples modulo a frame, counted from the start that    *)
(* the receive and the transmit stream share.                              *)
(***************************************************************************)
EXTENDS UplinkTx, Sequences

CONSTANTS
  Phases,       \* where downlink frames may begin on a newly started stream
  AlignWindow,  \* the largest error that tracking corrects (below the CP)
  ResetHold,    \* _reset_hold_frames
  FrameCap,     \* capacity of frame_queue_
  InFlight,     \* frames the demodulation slots hold at once
  Failures,     \* bound: restarts asked for and periods cut short by the radio
  Disturbances  \* bound: frames with a bad peak and samples of clock drift

ASSUME UeSyncAssumption ==
  /\ Phases \subseteq 0..(FrameLen - 1) /\ Phases # {}
  /\ {AlignWindow, ResetHold, FrameCap, InFlight} \subseteq Nat \ {0}
  /\ {Failures, Disturbances} \subseteq Nat

VARIABLES
  state,      \* state_: SYNC_SEARCH, ALIGNMENT, NORMAL
  gen,        \* _sync_generation
  latch,      \* _sync_in_progress
  discard,    \* discard_samples_
  fresh,      \* _pending_alignment_fresh
  request,    \* _stream_restart_requested, _stream_restart_pending_epoch,
              \* _stream_restart_count, _recovery_queue_clear_requested
  rx,         \* the receive thread, and where its next sample is
  proc,       \* the process thread
  batch,      \* sync_queue_
  frames,     \* frame_queue_
  slots,      \* frames being demodulated, collected in order
  downlink,   \* where the frames of the base station begin
  overtaken,  \* observer: a restart came in the middle of a correction
  budget      \* what is left of the bounds

syncVars == <<state, gen, latch, discard, fresh, request, rx, proc, batch, frames,
              slots, downlink, overtaken, budget>>
vars == <<txVars, syncVars>>

Init ==
  /\ TxInit
  /\ state = "SYNC_SEARCH"
  /\ gen = 0
  /\ latch = FALSE
  /\ discard = 0
  /\ fresh = FALSE
  /\ request = [flag |-> FALSE, epoch |-> 0, count |-> 0, clear |-> FALSE]
  /\ rx = [pc |-> "loop", pos |-> 0, start |-> 1, epoch |-> 0, handled |-> 0,
           gen |-> 0, align |-> 0, past |-> {}]
  /\ proc = [pc |-> "loop", align |-> 0, from |-> "NORMAL", adjust |-> 0, last |-> 0,
             bad |-> 0, found |-> FALSE]
  /\ batch = <<>>
  /\ frames = <<>>
  /\ slots = <<>>
  /\ downlink \in Phases
  /\ overtaken = FALSE
  /\ budget = [failures |-> Failures, disturb |-> Disturbances]

\* _canonical_uplink_tx_alignment_delta: the shorter way round a frame.
Canonical(n) ==
  LET r == n % FrameLen IN IF 2 * r > FrameLen THEN r - FrameLen ELSE r

Size(n) == IF n < 0 THEN -n ELSE n

-----------------------------------------------------------------------------
(* The receive thread: rx_proc.                                            *)

Failing == errors # rx.handled

\* The state is read; the pending alignment is read on entering it.
RxDispatch ==
  /\ rx.pc = "loop"
  /\ ~Failing /\ ~request.flag
  /\ rx' = [rx EXCEPT !.pc = state, !.gen = gen, !.align = discard, !.past = {}]
  /\ UNCHANGED <<txVars, state, gen, latch, discard, fresh, request, proc, batch,
                 frames, slots, downlink, overtaken, budget>>

\* handle_sync_search: two frames' worth of samples, dropped when nobody may
\* use them any more.  The peak may lie before the frame it belongs to.
RxSearch ==
  /\ rx.pc = "SYNC_SEARCH"
  /\ rx' = [rx EXCEPT !.pc = "loop"]
  /\ IF batch # <<>> \/ rx.gen # gen \/ request.flag
     THEN UNCHANGED batch
     ELSE LET r == (downlink - rx.pos) % FrameLen IN
          \E off \in IF r = 0 THEN {0} ELSE {r, r - FrameLen} :
            batch' = <<[gen |-> rx.gen, off |-> off]>>
  /\ UNCHANGED <<txVars, state, gen, latch, discard, fresh, request, proc, frames,
                 slots, downlink, overtaken, budget>>

\* A frame whose first sample is at p, and the delay error it will show: that of
\* its position, or anything when the peak is bad.
Captures(p, g, d) ==
  {[gen |-> g, align |-> d, at |-> p, past |-> rx.past, bad |-> FALSE,
    err |-> Canonical(downlink - p)]}
  \union
  (IF budget.disturb = 0 THEN {} ELSE
     {[gen |-> g, align |-> d, at |-> p, past |-> rx.past, bad |-> TRUE, err |-> e] :
        e \in {-AlignWindow, 0, AlignWindow}})

\* A full frame_queue_ drops the newest frame.
RxPush(f) ==
  /\ frames' = IF Len(frames) < FrameCap THEN Append(frames, f) ELSE frames
  /\ budget' = [budget EXCEPT !.disturb = IF f.bad THEN @ - 1 ELSE @]

\* handle_normal_rx
RxNormal ==
  /\ rx.pc = "NORMAL"
  /\ rx' = [rx EXCEPT !.pc = "loop"]
  /\ \E f \in Captures(rx.pos, rx.gen, 0) : RxPush(f)
  /\ UNCHANGED <<txVars, state, gen, latch, discard, fresh, request, proc, batch,
                 slots, downlink, overtaken>>

\* handle_alignment: align samples are left out, or frame samples not waited
\* for; a fresh acquisition puts the uplink where the frame now begins.
RxAlign ==
  LET p == (rx.pos + rx.align) % FrameLen IN
  /\ rx.pc = "ALIGNMENT"
  /\ rx' = [rx EXCEPT !.pc = "raise", !.pos = p]
  /\ \E f \in Captures(p, gen, rx.align) : RxPush(f)
  /\ fresh' = FALSE
  /\ shift' = IF fresh THEN -Canonical(p) ELSE shift
  /\ overtaken' = (overtaken /\ ~fresh)
  /\ UNCHANGED <<tx, order, loud, errors, submitted, state, gen, latch, discard,
                 request, proc, batch, slots, downlink>>

RxRaise ==
  /\ rx.pc = "raise"
  /\ loud' = TRUE
  /\ rx' = [rx EXCEPT !.pc = "settle"]
  /\ UNCHANGED <<tx, order, shift, errors, submitted, state, gen, latch, discard,
                 fresh, request, proc, batch, frames, slots, downlink, overtaken, budget>>

\* ... whatever happened to the state since it was read.
RxEnterNormal ==
  /\ rx.pc = "settle"
  /\ state' = "NORMAL"
  /\ rx' = [rx EXCEPT !.pc = "loop"]
  /\ UNCHANGED <<txVars, gen, latch, discard, fresh, request, proc, batch, frames,
                 slots, downlink, overtaken, budget>>

Asked == [request EXCEPT !.flag = TRUE, !.epoch = request.count + 1,
                         !.count = request.count + 1]

\* _handle_rx_metadata_error: the read is given up and a restart asked for.
RxError ==
  /\ rx.pc \in {"SYNC_SEARCH", "ALIGNMENT", "NORMAL"}
  /\ budget.failures > 0
  /\ budget' = [budget EXCEPT !.failures = @ - 1]
  /\ request' = Asked
  /\ rx' = [rx EXCEPT !.pc = "loop"]
  /\ UNCHANGED <<txVars, state, gen, latch, discard, fresh, proc, batch, frames, slots,
                 downlink, overtaken>>

\* The shared restart: the errors seen so far are handled, the stream stopped,
\* a later start chosen and _reset_receive_state_after_stream_restart begun.
RxRestart ==
  LET e == IF request.flag /\ request.epoch # 0 THEN request.epoch
           ELSE request.count + 1
  IN  /\ rx.pc = "loop"
      /\ Failing \/ request.flag
      /\ rx' = [rx EXCEPT !.pc = "reset", !.epoch = e, !.handled = errors, !.pos = 0,
                          !.start = @ + 1]
      /\ request' = [flag |-> FALSE, epoch |-> 0, clear |-> TRUE,
                     count |-> IF e > request.count THEN e ELSE request.count]
      /\ gen' = gen + 1
      /\ latch' = FALSE
      /\ proc' = [proc EXCEPT !.adjust = 0, !.last = 0, !.bad = 0]
      /\ downlink' \in Phases
      /\ UNCHANGED <<txVars, state, discard, fresh, batch, frames, slots, overtaken,
                     budget>>

\* The process thread is between the state it read and the correction it makes.
Correcting == proc.pc \in {"discard", "shift", "align"} /\ proc.from # "SYNC_SEARCH"

RxResetShift ==
  /\ rx.pc = "reset"
  /\ discard' = 0
  /\ shift' = 0
  /\ overtaken' = (overtaken \/ Correcting)
  /\ rx' = [rx EXCEPT !.pc = "seek"]
  /\ UNCHANGED <<tx, order, loud, errors, submitted, state, gen, latch, fresh, request,
                 proc, batch, frames, slots, downlink, budget>>

\* ... the uplink is muted and the search begins; reschedule_timed_tx stores the
\* start and its epoch, and then the flag.
RxEnterSearch ==
  /\ rx.pc = "seek"
  /\ loud' = FALSE
  /\ state' = "SYNC_SEARCH"
  /\ order' = [order EXCEPT !.start = rx.start, !.epoch = rx.epoch]
  /\ rx' = [rx EXCEPT !.pc = "flag"]
  /\ UNCHANGED <<tx, shift, errors, submitted, gen, latch, discard, fresh, request, proc,
                 batch, frames, slots, downlink, overtaken, budget>>

RxFlag ==
  /\ rx.pc = "flag"
  /\ order' = [order EXCEPT !.flag = TRUE]
  /\ rx' = [rx EXCEPT !.pc = "wait"]
  /\ UNCHANGED <<tx, shift, loud, errors, submitted, state, gen, latch, discard, fresh,
                 request, proc, batch, frames, slots, downlink, overtaken, budget>>

\* Mutant: the receive stream does not wait for the transmit stream.
RxStartedAtOnce ==
  /\ rx.pc = "wait"
  /\ rx' = [rx EXCEPT !.pc = "loop"]
  /\ UNCHANGED <<txVars, state, gen, latch, discard, fresh, request, proc, batch, frames,
                 slots, downlink, overtaken, budget>>

\* wait_for_restart_submitted (the transmit thread never takes so long that the
\* wait times out), and the start of the receive stream.
RxStarted ==
  /\ rx.pc = "wait"
  /\ submitted >= rx.epoch
  /\ rx' = [rx EXCEPT !.pc = "loop"]
  /\ UNCHANGED <<txVars, state, gen, latch, discard, fresh, request, proc, batch, frames,
                 slots, downlink, overtaken, budget>>

Receive == \/ RxDispatch \/ RxSearch \/ RxNormal \/ RxAlign \/ RxRaise \/ RxEnterNormal
           \/ RxRestart \/ RxResetShift \/ RxEnterSearch \/ RxFlag \/ RxStarted

-----------------------------------------------------------------------------
(* The process thread: process_proc.                                       *)

\* _clear_recovery_queues_from_process_thread
ProcClear ==
  /\ proc.pc = "loop"
  /\ request.clear
  /\ request' = [request EXCEPT !.clear = FALSE]
  /\ frames' = <<>>
  /\ batch' = <<>>
  /\ UNCHANGED <<txVars, state, gen, latch, discard, fresh, rx, proc, slots, downlink,
                 overtaken, budget>>

Idle == proc.pc = "loop" /\ ~request.clear

\* A batch of an earlier generation is dropped, and so is one without a peak.
ProcMiss ==
  /\ Idle
  /\ state = "SYNC_SEARCH"
  /\ batch # <<>>
  /\ batch' = <<>>
  /\ UNCHANGED <<txVars, state, gen, latch, discard, fresh, request, rx, proc, frames,
                 slots, downlink, overtaken, budget>>

\* Mutant: frames that are where they should be need no alignment.
ProcFoundInPlace ==
  /\ Idle
  /\ state = "SYNC_SEARCH"
  /\ batch # <<>>
  /\ Head(batch).gen = gen
  /\ proc' = IF Head(batch).off = 0 THEN proc
             ELSE [proc EXCEPT !.pc = "schedule", !.align = Head(batch).off, !.found = TRUE]
  /\ batch' = <<>>
  /\ frames' = <<>>
  /\ UNCHANGED <<txVars, state, gen, latch, discard, fresh, request, rx, slots, downlink,
                 overtaken, budget>>

\* process_sync_data finds the frames: what the frame queue holds is dropped and
\* an alignment is always scheduled.
ProcFound ==
  /\ Idle
  /\ state = "SYNC_SEARCH"
  /\ batch # <<>>
  /\ Head(batch).gen = gen
  /\ proc' = [proc EXCEPT !.pc = "schedule", !.align = Head(batch).off, !.found = TRUE]
  /\ batch' = <<>>
  /\ frames' = <<>>
  /\ UNCHANGED <<txVars, state, gen, latch, discard, fresh, request, rx, slots, downlink,
                 overtaken, budget>>

\* A frame goes to a demodulation worker, unless it is of an earlier generation.
ProcLaunch ==
  /\ Idle
  /\ state = "NORMAL"
  /\ frames # <<>>
  /\ Len(slots) < InFlight
  /\ frames' = Tail(frames)
  /\ slots' = IF Head(frames).gen = gen THEN Append(slots, Head(frames)) ELSE slots
  /\ UNCHANGED <<txVars, state, gen, latch, discard, fresh, request, rx, proc, batch,
                 downlink, overtaken, budget>>

\* Mutant: one frame is enough, whether a correction is under way or not.
TrackedAtOnce(f) ==
  LET due == Size(f.err) \in 1..AlignWindow IN
  [proc EXCEPT !.pc = IF due THEN "schedule" ELSE "loop",
               !.align = IF due THEN f.err ELSE 0, !.found = FALSE, !.last = f.err]

\* The tracking part of _collect_cpu_demod_result: two frames in a row, newer
\* than the last correction, must show an error in the window; a first one on the
\* other side of the frame before it does not count.
Tracked(f) ==
  LET in   == Size(f.err) \in 1..AlignWindow
      open == ~(latch /\ f.align = 0) /\ "alignment" \notin f.past
      due  == in /\ open /\ proc.adjust >= 1
  IN  [proc EXCEPT !.pc = IF due THEN "schedule" ELSE "loop",
                   !.align = IF due THEN f.err ELSE 0, !.found = FALSE, !.last = f.err,
                   !.adjust = IF in /\ open /\ ~due /\ f.err * proc.last >= 0
                              THEN 1 ELSE 0]

\* _collect_cpu_demod_result, in the order the frames were launched: one of an
\* earlier generation is dropped, enough bad ones in a row reset the receiver.
ProcCollect ==
  LET f    == Head(slots)
      poor == (f.bad \/ Size(f.err) > AlignWindow) /\ "reset" \notin f.past
  IN  /\ Idle
      /\ slots # <<>>
      /\ slots' = Tail(slots)
      /\ \/ /\ f.gen # gen
            /\ UNCHANGED <<proc, latch>>
         \/ /\ f.gen = gen
            /\ poor /\ proc.bad + 1 >= ResetHold
            /\ proc' = [proc EXCEPT !.pc = "forget", !.bad = 0]
            /\ UNCHANGED latch
         \/ /\ f.gen = gen
            /\ ~(poor /\ proc.bad + 1 >= ResetHold)
            /\ proc' = [Tracked(f) EXCEPT !.bad = IF poor THEN @ + 1 ELSE 0]
            /\ latch' = (latch /\ f.align = 0)
      /\ UNCHANGED <<txVars, state, gen, discard, fresh, request, rx, batch, frames,
                     downlink, overtaken, budget>>

\* _schedule_receive_alignment, one atomic after the other.
ProcSchedule ==
  /\ proc.pc = "schedule"
  /\ proc' = [proc EXCEPT !.pc = "discard", !.from = state]
  /\ UNCHANGED <<txVars, state, gen, latch, discard, fresh, request, rx, batch, frames,
                 slots, downlink, overtaken, budget>>

ProcDiscard ==
  /\ proc.pc = "discard"
  /\ discard' = proc.align
  /\ proc' = [proc EXCEPT !.pc = "shift"]
  /\ UNCHANGED <<txVars, state, gen, latch, fresh, request, rx, batch, frames, slots,
                 downlink, overtaken, budget>>

\* Mutant: the uplink is left where it is.
ProcShiftForgotten ==
  /\ proc.pc = "shift"
  /\ fresh' = (proc.from = "SYNC_SEARCH")
  /\ proc' = [proc EXCEPT !.pc = "align"]
  /\ UNCHANGED <<txVars, state, gen, latch, discard, request, rx, batch, frames, slots,
                 downlink, overtaken, budget>>

\* Out of the search, the uplink is placed by the receive thread; otherwise it
\* is moved with the receiver (_apply_uplink_tx_rx_alignment_delta).
ProcShift ==
  /\ proc.pc = "shift"
  /\ fresh' = (proc.from = "SYNC_SEARCH")
  /\ shift' = IF fresh' THEN shift ELSE shift - Canonical(proc.align)
  /\ proc' = [proc EXCEPT !.pc = "align"]
  /\ UNCHANGED <<tx, order, loud, errors, submitted, state, gen, latch, discard, request,
                 rx, batch, frames, slots, downlink, overtaken, budget>>

ProcAlign ==
  /\ proc.pc = "align"
  /\ state' = "ALIGNMENT"
  /\ proc' = [proc EXCEPT !.pc = "mark"]
  /\ UNCHANGED <<txVars, gen, latch, discard, fresh, request, rx, batch, frames, slots,
                 downlink, overtaken, budget>>

\* DemodControlTimeGates: no frame that began before may act any more.  The one
\* being read may have begun or not.
Mark(g, began) ==
  LET old(f) == [f EXCEPT !.past = @ \union {g}] IN
  /\ frames' = [i \in DOMAIN frames |-> old(frames[i])]
  /\ slots' = [i \in DOMAIN slots |-> old(slots[i])]
  /\ rx' = IF began THEN [rx EXCEPT !.past = @ \union {g}] ELSE rx

\* The caller: tracking sets the latch, and both close the gate.
ProcMark ==
  /\ proc.pc = "mark"
  /\ latch' = (latch \/ ~proc.found)
  /\ \E b \in BOOLEAN : Mark("alignment", b)
  /\ proc' = [proc EXCEPT !.pc = "loop", !.align = 0, !.found = FALSE]
  /\ UNCHANGED <<txVars, state, gen, discard, fresh, request, batch, downlink,
                 overtaken, budget>>

\* _enter_sync_search_state
ProcForget ==
  /\ proc.pc = "forget"
  /\ gen' = gen + 1
  /\ latch' = FALSE
  /\ proc' = [proc EXCEPT !.pc = "mute", !.adjust = 0, !.last = 0]
  /\ UNCHANGED <<txVars, state, discard, fresh, request, rx, batch, frames, slots,
                 downlink, overtaken, budget>>

ProcMute ==
  /\ proc.pc = "mute"
  /\ loud' = FALSE
  /\ frames' = <<>>
  /\ batch' = <<>>
  /\ proc' = [proc EXCEPT !.pc = "search"]
  /\ UNCHANGED <<tx, order, shift, errors, submitted, state, gen, latch, discard, fresh,
                 request, rx, slots, downlink, overtaken, budget>>

ProcEnterSearch ==
  /\ proc.pc = "search"
  /\ state' = "SYNC_SEARCH"
  /\ proc' = [proc EXCEPT !.pc = "gate"]
  /\ UNCHANGED <<txVars, gen, latch, discard, fresh, request, rx, batch, frames, slots,
                 downlink, overtaken, budget>>

ProcGate ==
  /\ proc.pc = "gate"
  /\ \E b \in BOOLEAN : Mark("reset", b)
  /\ proc' = [proc EXCEPT !.pc = "loop"]
  /\ UNCHANGED <<txVars, state, gen, latch, discard, fresh, request, batch, downlink,
                 overtaken, budget>>

Process == \/ ProcClear \/ ProcMiss \/ ProcFound \/ ProcLaunch \/ ProcCollect
           \/ ProcSchedule \/ ProcDiscard \/ ProcShift \/ ProcAlign \/ ProcMark
           \/ ProcForget \/ ProcMute \/ ProcEnterSearch \/ ProcGate

-----------------------------------------------------------------------------
(* The radio and the system.                                               *)

\* _tx_async_event_proc: an underflow or a timing error of the uplink.
AsyncError ==
  /\ budget.failures > 0
  /\ budget' = [budget EXCEPT !.failures = @ - 1]
  /\ request' = Asked
  /\ UNCHANGED <<txVars, state, gen, latch, discard, fresh, rx, proc, batch, frames, slots,
                 downlink, overtaken>>

\* The clocks of the base station and the UE drift apart.
Drift ==
  /\ budget.disturb > 0
  /\ budget' = [budget EXCEPT !.disturb = @ - 1]
  /\ downlink' = (downlink + 1) % FrameLen
  /\ UNCHANGED <<txVars, state, gen, latch, discard, fresh, request, rx, proc, batch,
                 frames, slots, overtaken>>

Transmit == TxStep /\ UNCHANGED syncVars

TransmitShort ==
  /\ budget.failures > 0
  /\ budget' = [budget EXCEPT !.failures = @ - 1]
  /\ TxSendShort
  /\ UNCHANGED <<state, gen, latch, discard, fresh, request, rx, proc, batch, frames, slots,
                 downlink, overtaken>>

Next == Receive \/ RxError \/ Process \/ AsyncError \/ Drift \/ Transmit \/ TransmitShort

\* Every thread keeps running; a search that is repeated for ever is in the end
\* successful.
Spec == /\ Init /\ [][Next]_vars
        /\ WF_vars(Receive) /\ WF_vars(Process) /\ WF_vars(Transmit)
        /\ SF_vars(ProcFound)
=============================================================================
