--------------------------- MODULE MCBsReceivers ----------------------------
(* Instances of BsReceivers for TLC, and what they check.                  *)
EXTENDS BsReceivers

\* A channel keeps up with the air, the uplink receiver a slot behind it.
MCLag == [sensing |-> 0, uplink |-> 1]

HalfFrame == FrameLen \div 2

\* A received frame is paired with the frame that was on the air with it, give or
\* take half a frame, whatever was lost, skipped, moved or restarted in between;
\* a stream that had to begin without a time, and what is heard before the first
\* frame of a stream, up to a whole one, are other matters (CHANGELOG: frames that do
\* not match are dropped rather than paired wrongly).
PairedInTime ==
  sensing.pc = "gather" /\ sensing.rx.timed
  => Size(sensing.rx.off) <= HalfFrame + IF sensing.rx.early THEN FrameLen ELSE 0

\* A batch is of one generation, except that its first pair may be left from the
\* generation before: the one that was in the hands of the sensing thread when the
\* restart was asked for (_sensing_loop, compute_reset_requested).
OnlyFirstIsOlder ==
  \A i \in 2 .. Len(batch) : batch[i] = batch[Len(batch)]

\* Once nothing has moved the stream for three frames, its frames begin exactly where
\* the operator wants them and carry the number of that place (_handle_normal_rx
\* "apply the corrected ALGN starting from the next frame").
BoundaryRestored ==
  srx.pc \in {"push", "pushMoved"} /\ calm >= Settling /\ srx.start > 0
  => srx.frame = SlotTime(FrameSeq) + target

\* The same of the uplink, up to the jitter of the metadata.
UplinkRestored ==
  quiet >= Recovering /\ ul.start > 0
  => Size(Residue(ul.frame - Start * FrameLen - ul.applied)) <= Tolerance

\* A stream that was restarted at a time counts its frames from the number the
\* transmitter has for that time: time and number are always taken together.
AnchorsAgree ==
  /\ srx.start > 0 => srx.start = SlotTime(srx.base)
  /\ ul.start > 0 /\ stream > 1 => ul.start = SlotTime(ul.base)
=============================================================================
