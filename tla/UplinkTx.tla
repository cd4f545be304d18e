------------------------------ MODULE UplinkTx ------------------------------
(***************************************************************************)
(* The transmit thread of the uplink (include/UplinkTxEngine.hpp): one     *)
(* period after another on a timed stream, moved by a number of samples    *)
(* that other threads may change at any time, and restarted at a new start *)
(* when it is told to.                                                     *)
(*                                                                         *)
(* The stream is on the air at start + k * FrameLen + slip, for the k-th   *)
(* period of the burst: slip is where the samples really are, applied is   *)
(* where the thread believes them to be.                                   *)
(***************************************************************************)
EXTENDS Integers, FiniteSetsExt

CONSTANTS
  FrameLen,        \* samples of an uplink period and of a downlink frame
  TimingAdvance    \* uplink.ue_timing_advance, in samples

ASSUME UplinkTxAssumption ==
  /\ FrameLen \in Nat \ {0}
  /\ TimingAdvance \in Int

VARIABLES
  tx,          \* the thread
  order,       \* _start_time, _scheduled_restart_epoch, _restart_requested
  shift,       \* _rx_alignment_shift
  loud,        \* _waveform_enabled
  errors,      \* _tx_error_count
  submitted    \* _submitted_restart_epoch

txVars == <<tx, order, shift, loud, errors, submitted>>

\* UEEngine::start: the receiver and the uplink are given the same start.
TxInit ==
  /\ tx = [pc |-> "period", start |-> 1, epoch |-> 0, first |-> TRUE,
           applied |-> 0, slip |-> 0]
  /\ order = [start |-> 1, epoch |-> 0, flag |-> FALSE]
  /\ shift = 0
  /\ loud = FALSE
  /\ errors = 0
  /\ submitted = 0

\* The flag is taken and the burst ended, before the start and the epoch that
\* come with it are read, one after the other.
TxTakeRestart ==
  /\ tx.pc = "period"
  /\ order.flag
  /\ order' = [order EXCEPT !.flag = FALSE]
  /\ tx' = [tx EXCEPT !.pc = "start"]
  /\ UNCHANGED <<shift, loud, errors, submitted>>

TxReadStart ==
  /\ tx.pc = "start"
  /\ tx' = [tx EXCEPT !.pc = "epoch", !.start = order.start, !.first = TRUE,
                      !.applied = 0, !.slip = 0]
  /\ UNCHANGED <<order, shift, loud, errors, submitted>>

TxReadEpoch ==
  /\ tx.pc = "epoch"
  /\ tx' = [tx EXCEPT !.pc = "send", !.epoch = order.epoch]
  /\ UNCHANGED <<order, shift, loud, errors, submitted>>

Target == TimingAdvance + shift

\* What a first period starts from: timed metadata place it on the target.
Placed == IF tx.first THEN [tx EXCEPT !.applied = Target, !.slip = -Target] ELSE tx

\* How far the stream has to be advanced; at most one period of it is dropped.
Advance == Min({Target - Placed.applied, FrameLen})

\* _send_period_with_stream_shift gave n samples to the stream: an advance
\* leaves out the end of the period and a delay adds silence after it; either
\* counts only when all of it went out.
SentPeriod(n) ==
  LET t == Placed IN
  [t EXCEPT !.pc = "period", !.first = @ /\ n = 0, !.slip = @ + n - FrameLen,
            !.applied = IF n = FrameLen - Advance THEN @ + Advance ELSE @]

\* One period of the loop, of which n samples are sent.  The waveform is on or
\* muted, which makes no difference to the timing.
TxSend(n) ==
  /\ \/ tx.pc = "send"
     \/ tx.pc = "period" /\ ~order.flag
  /\ tx' = SentPeriod(n)
  /\ errors' = IF n < FrameLen - Advance THEN errors + 1 ELSE errors
  /\ submitted' = IF tx.first /\ tx.epoch # 0 /\ n > 0 THEN tx.epoch ELSE submitted
  /\ UNCHANGED <<order, shift, loud>>

\* All of it, or less because the radio took no more (_send_samples gives up).
TxSendAll == TxSend(FrameLen - Advance)
TxSendShort == \E n \in 0..(FrameLen - Advance - 1) : TxSend(n)

TxStep == TxTakeRestart \/ TxReadStart \/ TxReadEpoch \/ TxSendAll
=============================================================================
