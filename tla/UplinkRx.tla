------------------------------ MODULE UplinkRx ------------------------------
(***************************************************************************)
(* The uplink receiver of the base station (UplinkRxEngine): the ingest    *)
(* thread cuts its stream into frames at a distance from the downlink that *)
(* the operator may move, numbers them by their time and corrects its      *)
(* boundary; two more threads process and decode them.  The transmit       *)
(* thread of the station restarts it while they are at work.               *)
(***************************************************************************)
EXTENDS BsTransmitter

CONSTANTS
  Distances,   \* timing differences the operator may ask for (DUTI)
  FrameCap,    \* frames between the ingest and the processing thread
  LlrCap       \* frames between the processing and the decoding thread

ASSUME UplinkRxAssumption ==
  /\ Distances \subseteq Int /\ 0 \in Distances
  /\ FrameCap \in Nat \ {0} /\ LlrCap \in Nat \ {0}

VARIABLES
  order,       \* _restart_requested, and what the restart is to be
  distance,    \* _dl_ul_timing_diff
  stream,      \* _stream_generation
  ul,          \* the ingest thread: where it is, its stream and its frame
  frames,      \* _rx_frame_queue
  signal,      \* the processing thread: the generation it works for, or 0
  llrs,        \* _llr_queue
  quiet        \* history: frames received since something moved the stream

ulVars == <<order, distance, stream, ul, frames, signal, llrs, quiet>>
ulSide == <<frames, signal, llrs>>

\* Frames in which the boundary may still be off, see UplinkRestored.
Recovering == 2

\* The start of the receiver: what its first frames are counted from is read
\* while the transmit thread is already running.
UlInit ==
  /\ order = [flag |-> FALSE, time |-> 0, base |-> 0]
  /\ distance = 0
  /\ stream = 0
  /\ ul = [pc |-> "begin", start |-> Start * FrameLen, pos |-> 0, base |-> 0,
           applied |-> 0, pending |-> 0, frame |-> 0]
  /\ frames = <<>>
  /\ signal = 0
  /\ llrs = <<>>
  /\ quiet = 0

\* The transmit thread: request_reacquire, what is to be done first.
UlPending ==
  /\ order' = [order EXCEPT !.time = nextTicks, !.base = nextSeq]
  /\ UNCHANGED <<distance, stream, ul, ulSide, quiet>>

UlFlag ==
  /\ order' = [order EXCEPT !.flag = TRUE]
  /\ UNCHANGED <<distance, stream, ul, ulSide, quiet>>

\* DUTI, on the control thread.
SetDistance(samples) ==
  /\ samples # distance
  /\ distance' = samples
  /\ UNCHANGED <<order, stream, ul, ulSide, quiet>>

(***************************************************************************)
(* The ingest thread.                                                      *)
(***************************************************************************)
\* start_stream_and_align: the stream begins at its time and at the distance.
BeginAt(time, base, pending) ==
  /\ stream' = stream + 1
  /\ quiet' = 0
  /\ \E p \in StreamBegins(time) :
       ul' = [ul EXCEPT !.pc = "loop", !.start = time, !.base = base,
                        !.applied = distance % FrameLen,
                        !.pos = p + (distance % FrameLen), !.pending = pending]

UlBegin ==
  /\ ul.pc = "begin"
  /\ BeginAt(ul.start, nextSeq, 0)
  /\ UNCHANGED <<order, distance, ulSide>>

\* apply_pending_restart takes the flag, at the top of the loop or while the
\* thread waits for room.
UlTakeRestart ==
  /\ ul.pc \in {"loop", "slot"} /\ order.flag
  /\ order' = [order EXCEPT !.flag = FALSE]
  /\ ul' = [ul EXCEPT !.pc = IF @ = "loop" THEN "take" ELSE "takeInSlot"]
  /\ UNCHANGED <<distance, stream, ulSide, quiet>>

\* Then what goes with it, under the lock, leaving no time behind.  A restart at
\* the top of the loop forgets the correction that was to come.
UlRestart ==
  /\ ul.pc \in {"take", "takeInSlot"}
  /\ order' = [order EXCEPT !.time = 0]
  /\ BeginAt(order.time, order.base, IF ul.pc = "take" THEN 0 ELSE ul.pending)
  /\ UNCHANGED <<distance, ulSide>>

\* A new distance drops samples; a shorter one most of a frame, for nothing can be
\* read twice.
UlDistance ==
  /\ ul.pc = "loop" /\ ~order.flag
  /\ LET wanted == distance % FrameLen IN
     /\ ul' = [ul EXCEPT !.pc = "slot", !.applied = wanted,
                         !.pos = @ + ((wanted - ul.applied) % FrameLen)]
     /\ quiet' = IF wanted = ul.applied THEN quiet ELSE 0
  /\ UNCHANGED <<order, distance, stream, ulSide>>

UlSlot ==
  /\ ul.pc = "slot"
  /\ Len(frames) < FrameCap
  /\ ul' = [ul EXCEPT !.pc = "read"]
  /\ UNCHANGED <<order, distance, stream, ulSide, quiet>>

\* The stream lost samples: the frame begins after the gap.  One that was to
\* correct the boundary is read to its end all the same, and then given up.
UlLost(n) ==
  /\ ul.pc \in {"loop", "slot", "read", "spoilt"}
  /\ ul.pos + n <= now * FrameLen
  /\ ul' = [ul EXCEPT !.pos = @ + n,
                      !.pc = IF @ = "read" /\ ul.pending # 0 THEN "spoilt" ELSE @]
  /\ quiet' = 0
  /\ UNCHANGED <<order, distance, stream, ulSide>>

UlReceived == ul.pos + FrameLen + ul.pending <= now * FrameLen

\* A frame that was read in vain: it was spoilt, or a restart has been asked for.
UlDropped ==
  /\ UlReceived
  /\ \/ ul.pc = "spoilt"
     \/ ul.pc = "read" /\ order.flag
  /\ ul' = [ul EXCEPT !.pc = "loop", !.pos = @ + FrameLen + ul.pending, !.pending = 0]
  /\ quiet' = 0
  /\ UNCHANGED <<order, distance, stream, ulSide>>

\* _frame_offset_from_first_sample: which frame of the stream it is, and by how
\* much it misses it.
Offset(t) == Nearest(t - ul.start - ul.applied, FrameLen)
Missed(t) == t - ul.start - ul.applied - Offset(t) * FrameLen

\* Metadata may be off by a sample: kMetadataJitterToleranceSamples.
Tolerance == 1
Size(n) == IF n < 0 THEN -n ELSE n

\* Mutant: the boundary is moved the way it is off.
UlReadForward ==
  /\ ul.pc = "read" /\ ~order.flag
  /\ UlReceived
  /\ LET t == ul.pos + ul.pending IN
     /\ ul' = [ul EXCEPT !.pc = "loop", !.pos = t + FrameLen, !.frame = t,
                         !.pending = IF Offset(t) >= 0 /\ Size(Missed(t)) > Tolerance
                                     THEN Residue(Missed(t)) ELSE 0]
     /\ frames' = IF Offset(t) < 0 THEN frames
                  ELSE Append(frames, [gen |-> stream, index |-> ul.base + Offset(t)])
  /\ quiet' = Min({quiet + 1, Recovering})
  /\ UNCHANGED <<order, distance, stream, signal, llrs>>

\* A frame, moved by the correction that was pending; when it misses its boundary
\* the next is to correct it.  One from before the start of the stream is dropped.
UlRead ==
  /\ ul.pc = "read" /\ ~order.flag
  /\ UlReceived
  /\ LET t == ul.pos + ul.pending IN
     /\ ul' = [ul EXCEPT !.pc = "loop", !.pos = t + FrameLen, !.frame = t,
                         !.pending = IF Offset(t) >= 0 /\ Size(Missed(t)) > Tolerance
                                     THEN Residue(-Missed(t)) ELSE 0]
     /\ frames' = IF Offset(t) < 0 THEN frames
                  ELSE Append(frames, [gen |-> stream, index |-> ul.base + Offset(t)])
  /\ quiet' = Min({quiet + 1, Recovering})
  /\ UNCHANGED <<order, distance, stream, signal, llrs>>

(***************************************************************************)
(* The processing and the decoding thread drop what is of another          *)
(* generation of the stream.                                               *)
(***************************************************************************)
SignalTake ==
  /\ signal = 0 /\ frames # <<>>
  /\ IF Head(frames).gen = stream
     THEN signal' = stream /\ UNCHANGED frames
     ELSE frames' = Tail(frames) /\ UNCHANGED signal
  /\ UNCHANGED <<order, distance, stream, ul, llrs, quiet>>

\* The frame keeps its place until it has been processed.
SignalDone ==
  /\ signal # 0 /\ Len(llrs) < LlrCap
  /\ signal' = 0
  /\ frames' = Tail(frames)
  /\ llrs' = Append(llrs, signal)
  /\ UNCHANGED <<order, distance, stream, ul, quiet>>

Decode ==
  /\ llrs # <<>>
  /\ llrs' = Tail(llrs)
  /\ UNCHANGED <<order, distance, stream, ul, frames, signal, quiet>>

Ingest ==
  \/ UlBegin \/ UlTakeRestart \/ UlRestart \/ UlDistance \/ UlSlot
  \/ UlDropped \/ UlRead
ReceiveUplink == Ingest \/ SignalTake \/ SignalDone \/ Decode
=============================================================================
