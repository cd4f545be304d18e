--------------------------- MODULE BsTransmitter ----------------------------
(***************************************************************************)
(* The transmit thread of the base station (BSEngine::_tx_proc) and the    *)
(* clock of the radio it shares with the station's receivers.  It sends a  *)
(* frame for every slot, numbers it, and when the radio reports that it    *)
(* came too late it skips slots and tells every receiver where the frames  *)
(* go on.                                                                  *)
(*                                                                         *)
(* Times are samples; the clock moves a slot of one frame at a time.       *)
(***************************************************************************)
EXTENDS Integers, Sequences, FiniteSets, SequencesExt

CONSTANTS
  FrameLen,     \* samples of a frame
  Start,        \* _start_time, in slots: a timed start is never at zero
  RestartLead,  \* restart_lead_ticks, in slots
  Ahead,        \* slots the radio accepts before it blocks the sender
  Horizon,      \* bound of the model on the clock, in slots
  Troubles      \* bound of the model on what may disturb the station

ASSUME TransmitterAssumption ==
  /\ FrameLen \in Nat \ {0} /\ Start \in Nat \ {0}
  /\ RestartLead \in Nat \ {0} /\ Ahead \in Nat /\ Horizon \in Nat
  /\ Troubles \in Nat

VARIABLES
  now,        \* the clock of the radio, in slots
  nextTicks,  \* next_frame_ticks: when the next frame leaves
  nextSeq,    \* _next_tx_frame_seq: its number
  underflow,  \* _tx_underflow_restart_requested by the thread itself
  troubles,   \* disturbances so far
  txpc,       \* where the thread is
  after       \* where it goes on once the receivers have been told

txVars == <<now, nextTicks, nextSeq, underflow, troubles, txpc, after>>

Reasons == {"UNDERFLOW", "TIME_ERROR"}

TxInit ==
  /\ now = 0
  /\ nextTicks = Start * FrameLen
  /\ nextSeq = 0
  /\ underflow = FALSE
  /\ troubles = 0
  /\ txpc = "loop"
  /\ after = "loop"

Trouble ==
  /\ troubles < Troubles
  /\ troubles' = troubles + 1

\* The sender is never more than a slot late.
Tick ==
  /\ now < Horizon
  /\ nextTicks >= now * FrameLen
  /\ now' = now + 1
  /\ UNCHANGED <<nextTicks, nextSeq, underflow, troubles, txpc, after>>

\* The slots between the next frame and the first that can still be met.
Skipped ==
  LET late == (now + RestartLead) * FrameLen - nextTicks
  IN  IF late > 0 THEN (late + FrameLen - 1) \div FrameLen ELSE 0

\* The thread looks for the one reason to restart after the other, and then
\* sends.  _tx_async_event_proc may have set either flag since it last looked.
Asked(reason) ==
  \/ txpc = "loop" /\ (IF underflow THEN reason = "UNDERFLOW" /\ UNCHANGED troubles
                      ELSE Trouble)
  \/ txpc = "timeError" /\ reason = "TIME_ERROR" /\ Trouble

\* Mutant: slots are skipped and their numbers are not.
RestartBurstUncounted(reason) ==
  /\ Asked(reason)
  /\ underflow' = FALSE
  /\ nextTicks' = nextTicks + Skipped * FrameLen
  /\ after' = IF reason = "UNDERFLOW" THEN "timeError" ELSE "send"
  /\ txpc' = "uplink"
  /\ UNCHANGED <<now, nextSeq>>

\* restart_tx_burst: the burst is ended and goes on in a later slot, under the
\* number of that slot; the receivers are told next.
RestartBurst(reason) ==
  /\ Asked(reason)
  /\ underflow' = FALSE
  /\ nextTicks' = nextTicks + Skipped * FrameLen
  /\ nextSeq' = nextSeq + Skipped
  /\ after' = IF reason = "UNDERFLOW" THEN "timeError" ELSE "send"
  /\ txpc' = "uplink"
  /\ UNCHANGED now

\* A frame leaves in its slot as soon as the radio has room: a modulated one, a
\* blank one when none is ready, or part of one, which asks for a restart.
TxSend(sent) ==
  /\ txpc \in {"loop", "timeError", "send"} /\ ~underflow
  /\ nextTicks < (now + Ahead) * FrameLen
  /\ IF sent = "frame" THEN UNCHANGED troubles ELSE Trouble
  /\ underflow' = (sent = "short")
  /\ txpc' = "loop"
  /\ nextTicks' = nextTicks + FrameLen
  /\ nextSeq' = nextSeq + 1
  /\ UNCHANGED <<now, after>>

\* What a receiver hears at time t belongs to the frame of its slot.
SlotTime(seq) == (Start + seq) * FrameLen

\* Where a receive stream begins that is told to start at t: there, or now when
\* that has passed (or when there is no time), wherever in the frame now is.
StreamBegins(t) ==
  IF t > now * FrameLen
  THEN {t} ELSE (now * FrameLen) .. (now * FrameLen + FrameLen - 1)

\* The quotient nearest to n / d, halves away from zero.
Nearest(n, d) == IF n >= 0 THEN (n + d \div 2) \div d ELSE -((-n + d \div 2) \div d)

\* n reduced to at most half a frame either way, keeping the sign at the half.
Residue(n) ==
  LET r == IF n >= 0 THEN n % FrameLen ELSE -((-n) % FrameLen)
  IN  IF r > FrameLen \div 2 THEN r - FrameLen
      ELSE IF r < -(FrameLen \div 2) THEN r + FrameLen ELSE r
=============================================================================
