----------------------------- MODULE SensingRx ------------------------------
(***************************************************************************)
(* A monostatic sensing channel of the base station (SensingChannel): the  *)
(* receive thread cuts its stream into frames, numbers them by their time  *)
(* and corrects its own boundary; the sensing thread pairs them with the   *)
(* frames that were sent and gathers the pairs in batches.  The transmit   *)
(* thread restarts the channel while both are at work.                     *)
(*                                                                         *)
(* One symbol of every paired frame is sampled, and every frame has a time *)
(* (SimRxStream::recv stamps all that it delivers).                        *)
(***************************************************************************)
EXTENDS BsTransmitter

CONSTANTS
  Targets,      \* alignments the operator may ask for (ALGN), the first being 0;
                \* BSEngine clamps them to a frame either way
  PairCap,      \* sensing.paired_frame_queue_size
  BatchLen,     \* ofdm.sensing_symbol_num, in sampled symbols
  ResetLead     \* kResetLeadFrames

ASSUME SensingAssumption ==
  /\ Targets \subseteq -FrameLen .. FrameLen /\ 0 \in Targets
  /\ PairCap \in Nat \ {0} /\ BatchLen \in Nat \ {0} /\ ResetLead \in Nat

NoItem == [seq |-> -1, gen |-> 0]

VARIABLES
  generation,   \* pairing_generation
  computeReset, \* compute_reset_requested
  restart,      \* restart_requested, and what the restart is to be
  target,       \* target_alignment
  srx,          \* the receive thread: where it is, its stream and its frames
  rxq, txq,     \* the paired queue
  resetAt,      \* _shared_batch_reset_symbol, in frames
  sensing,      \* the sensing thread: where it is, and the items it holds
  batch,        \* the generations of the pairs gathered so far
  calm          \* history: frames received since something moved the stream

senseVars == <<generation, computeReset, restart, target, srx, rxq, txq, resetAt,
               sensing, batch, calm>>
rxSide == <<rxq, txq, resetAt, sensing, batch>>

\* Frames in which the boundary may still be off, see BoundaryRestored.
Settling == 3

SensingInit ==
  /\ generation = 1
  /\ computeReset = FALSE
  /\ restart = [flag |-> FALSE, time |-> 0, seq |-> 0]
  /\ target = 0
  /\ srx = [pc |-> "loop", state |-> "ALIGNMENT", discard |-> 0, base |-> 0,
            start |-> Start * FrameLen, pos |-> Start * FrameLen, frame |-> 0]
  /\ rxq = <<>>
  /\ txq = <<>>
  /\ resetAt = 0
  /\ sensing = [pc |-> "top", gen |-> 1, rx |-> NoItem, tx |-> NoItem, reset |-> 0]
  /\ batch = <<>>
  /\ calm = 0

(***************************************************************************)
(* The transmit thread: request_reacquire, a step for each thing others    *)
(* can see, and enqueue_tx_symbols.                                        *)
(***************************************************************************)
SenseNewGeneration ==
  /\ generation' = generation + 1
  /\ UNCHANGED <<computeReset, restart, target, srx, rxSide, calm>>

\* Mutant: a restart that overtakes another leaves it the number.
SensePendingFirstNumber ==
  /\ computeReset' = TRUE
  /\ restart' = [restart EXCEPT !.time = nextTicks, !.seq = IF restart.flag THEN @ ELSE nextSeq]
  /\ UNCHANGED <<generation, target, srx, rxSide, calm>>

SensePending ==
  /\ computeReset' = TRUE
  /\ restart' = [restart EXCEPT !.time = nextTicks, !.seq = nextSeq]
  /\ UNCHANGED <<generation, target, srx, rxSide, calm>>

SenseFlag ==
  /\ restart' = [restart EXCEPT !.flag = TRUE]
  /\ UNCHANGED <<generation, computeReset, target, srx, rxSide, calm>>

\* A full queue drops the newest frame.
Pushed(queue, item) == IF Len(queue) < PairCap THEN Append(queue, item) ELSE queue

EnqueueTxSymbols ==
  /\ txq' = Pushed(txq, [seq |-> nextSeq, gen |-> generation])
  /\ UNCHANGED <<generation, computeReset, restart, target, srx, rxq, resetAt,
                 sensing, batch, calm>>

\* ALGN, on the control thread.
SetTarget(samples) ==
  /\ samples # target
  /\ target' = samples
  /\ calm' = 0
  /\ UNCHANGED <<generation, computeReset, restart, srx, rxSide>>

(***************************************************************************)
(* The receive thread.                                                     *)
(***************************************************************************)
\* apply_pending_restart takes the flag, and then what goes with it under the
\* lock, leaving no time behind.
RxTakeRestart ==
  /\ srx.pc = "loop" /\ restart.flag
  /\ restart' = [restart EXCEPT !.flag = FALSE]
  /\ srx' = [srx EXCEPT !.pc = "take"]
  /\ UNCHANGED <<generation, computeReset, target, rxSide, calm>>

RxRestart ==
  /\ srx.pc = "take"
  /\ restart' = [restart EXCEPT !.time = 0]
  /\ \E p \in StreamBegins(restart.time) :
       srx' = [srx EXCEPT !.pc = "loop", !.state = "ALIGNMENT", !.base = restart.seq,
                          !.start = restart.time, !.pos = p]
  /\ calm' = 0
  /\ UNCHANGED <<generation, computeReset, target, rxSide>>

\* The samples a frame takes from the stream: in ALIGNMENT it is moved by the
\* correction, a later boundary dropping samples and an earlier one padding.
Taken == FrameLen + IF srx.state = "ALIGNMENT" THEN srx.discard ELSE 0
FrameStart == srx.pos + IF srx.state = "ALIGNMENT" THEN srx.discard ELSE 0

\* The samples have been received, and no restart asked for meanwhile.
Received == srx.pos + Taken <= now * FrameLen

\* The stream lost samples: what was read of the frame is dropped and it begins
\* after the gap.
RxLost(n) ==
  /\ srx.pc = "loop"
  /\ srx.pos + n <= now * FrameLen
  /\ srx' = [srx EXCEPT !.pos = @ + n]
  /\ calm' = 0
  /\ UNCHANGED <<generation, computeReset, restart, target, rxSide>>

\* compute_rx_frame_boundary_error_samples, and the move that undoes it.
BoundaryError(t) ==
  LET elapsed == t - srx.start
  IN  Residue(elapsed - Nearest(elapsed, FrameLen) * FrameLen)

Correction == Residue(target - BoundaryError(srx.pos))

\* A frame in ALIGNMENT.  It is numbered and pushed in the next step.
RxAligned ==
  /\ srx.pc = "loop" /\ ~restart.flag /\ srx.state = "ALIGNMENT"
  /\ Received
  /\ srx' = [srx EXCEPT !.pc = "push", !.pos = @ + Taken, !.frame = FrameStart]
  /\ UNCHANGED <<generation, computeReset, restart, target, rxSide, calm>>

\* Mutant: the correction is taken from the boundary alone.
RxNormalUntargeted ==
  /\ srx.pc = "loop" /\ ~restart.flag /\ srx.state = "NORMAL"
  /\ Received
  /\ LET c == Residue(-BoundaryError(srx.pos)) IN
     srx' = [srx EXCEPT !.pc = IF c = 0 THEN "push" ELSE "pushMoved",
                        !.discard = IF c = 0 THEN @ ELSE c,
                        !.state = IF c = 0 THEN @ ELSE "ALIGNMENT",
                        !.pos = @ + Taken, !.frame = FrameStart]
  /\ resetAt' = IF Residue(-BoundaryError(srx.pos)) = 0
                THEN resetAt ELSE Max({resetAt, nextSeq + ResetLead})
  /\ UNCHANGED <<generation, computeReset, restart, target, rxq, txq, sensing, batch, calm>>

\* A frame in NORMAL: when its boundary is off, set_alignment moves the next one
\* and asks for a new batch.
RxNormal ==
  /\ srx.pc = "loop" /\ ~restart.flag /\ srx.state = "NORMAL"
  /\ Received
  /\ IF Correction = 0
     THEN /\ srx' = [srx EXCEPT !.pc = "push", !.pos = @ + Taken, !.frame = FrameStart]
          /\ UNCHANGED resetAt
     ELSE /\ srx' = [srx EXCEPT !.pc = "pushMoved", !.state = "ALIGNMENT",
                                !.discard = Correction,
                                !.pos = @ + Taken, !.frame = FrameStart]
          /\ resetAt' = Max({resetAt, nextSeq + ResetLead})
  /\ UNCHANGED <<generation, computeReset, restart, target, rxq, txq, sensing, batch, calm>>

\* compute_rx_frame_seq_from_time: never before the frame the stream began with.
FrameOffset == Nearest(srx.frame - srx.start - target, FrameLen)
FrameSeq == srx.base + Max({0, FrameOffset})

\* The frame is numbered, given the generation of the moment and pushed.  A frame
\* in ALIGNMENT that finds the queue full leaves the stream in ALIGNMENT.
RxPush ==
  /\ srx.pc \in {"push", "pushMoved"}
  /\ rxq' = Pushed(rxq, [seq |-> FrameSeq, gen |-> generation,
                         off |-> srx.frame - SlotTime(FrameSeq) - target,
                         timed |-> srx.start > 0, early |-> FrameOffset < 0])
  /\ srx' = [srx EXCEPT !.pc = "loop", !.frame = 0,
                        !.state = IF srx.pc = "push" /\ Len(rxq) < PairCap
                                  THEN "NORMAL" ELSE @]
  /\ calm' = IF srx.state = "ALIGNMENT" /\ srx.pc = "push" /\ Len(rxq) = PairCap
             THEN 0 ELSE Min({calm + 1, Settling})
  /\ UNCHANGED <<generation, computeReset, restart, target, txq, resetAt, sensing, batch>>

(***************************************************************************)
(* The sensing thread: PairedFrameQueue::pop_pair and _sensing_loop.       *)
(***************************************************************************)
\* A turn of the loop begins with the generation of the moment; a received frame
\* in hand that is of another one is dropped at once.
PairTop ==
  /\ sensing.pc = "top"
  /\ sensing' =
       IF sensing.rx # NoItem /\ sensing.rx.gen = generation
       THEN [sensing EXCEPT !.pc = "tx", !.gen = generation]
       ELSE [sensing EXCEPT !.pc = "rx", !.gen = generation, !.rx = NoItem]
  /\ UNCHANGED <<generation, computeReset, restart, target, srx, rxq, txq, resetAt,
                 batch, calm>>

\* The next received frame, which may be stale too.
PairRx ==
  /\ sensing.pc = "rx"
  /\ rxq # <<>>
  /\ rxq' = Tail(rxq)
  /\ sensing' = IF Head(rxq).gen = sensing.gen
                THEN [sensing EXCEPT !.pc = "tx", !.rx = Head(rxq)]
                ELSE [sensing EXCEPT !.pc = "top"]
  /\ UNCHANGED <<generation, computeReset, restart, target, srx, txq, resetAt, batch, calm>>

\* Two frames that belong together are a pair; of two that do not, the older is
\* dropped, and so is a stale transmitted one.
Compared(rx, tx) ==
  CASE tx.gen # sensing.gen -> [sensing EXCEPT !.pc = "top", !.tx = NoItem]
    [] tx.gen = sensing.gen /\ rx.seq = tx.seq ->
         [sensing EXCEPT !.pc = "gather", !.tx = tx]
    [] tx.gen = sensing.gen /\ rx.seq < tx.seq ->
         [sensing EXCEPT !.pc = "top", !.rx = NoItem, !.tx = tx]
    [] tx.gen = sensing.gen /\ rx.seq > tx.seq ->
         [sensing EXCEPT !.pc = "top", !.tx = NoItem]

\* The transmitted frame in hand, or the next one.
PairTx ==
  /\ sensing.pc = "tx"
  /\ IF sensing.tx # NoItem
     THEN UNCHANGED txq /\ sensing' = Compared(sensing.rx, sensing.tx)
     ELSE /\ txq # <<>>
          /\ txq' = Tail(txq)
          /\ sensing' = Compared(sensing.rx, Head(txq))
  /\ UNCHANGED <<generation, computeReset, restart, target, srx, rxq, resetAt, batch, calm>>

\* Whether _apply_batch_reset_if_due throws away what was gathered.
BatchResetDue ==
  resetAt # 0 /\ resetAt # sensing.reset /\ sensing.tx.seq >= resetAt

\* Mutant: a new generation does not begin a new batch.
GatherOn ==
  /\ sensing.pc = "gather"
  /\ computeReset' = FALSE
  /\ LET kept == IF BatchResetDue \/ Len(batch) = BatchLen THEN <<>> ELSE batch
     IN  batch' = Append(kept, sensing.rx.gen)
  /\ sensing' = [sensing EXCEPT !.pc = "top", !.rx = NoItem, !.tx = NoItem,
                                !.reset = IF BatchResetDue THEN resetAt ELSE @]
  /\ UNCHANGED <<generation, restart, target, srx, rxq, txq, resetAt, calm>>

\* The resets that are due, then the pair joins the batch; a full batch is
\* processed and the next begins empty.
Gather ==
  /\ sensing.pc = "gather"
  /\ computeReset' = FALSE
  /\ LET kept == IF computeReset \/ BatchResetDue \/ Len(batch) = BatchLen
                 THEN <<>> ELSE batch
     IN  batch' = Append(kept, sensing.rx.gen)
  /\ sensing' = [sensing EXCEPT !.pc = "top", !.rx = NoItem, !.tx = NoItem,
                                !.reset = IF BatchResetDue THEN resetAt ELSE @]
  /\ UNCHANGED <<generation, restart, target, srx, rxq, txq, resetAt, calm>>

Receive == RxTakeRestart \/ RxRestart \/ RxAligned \/ RxNormal \/ RxPush
Sense == PairTop \/ PairRx \/ PairTx \/ Gather
=============================================================================
