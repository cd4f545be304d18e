------------------------------ MODULE MCUeSync ------------------------------
(* Instances of UeSync for TLC, and what they check.                       *)
EXTENDS UeSync

\* The samples of the uplink are where its thread believes them to be, whatever
\* moved it meanwhile, unless a period was cut short and the restart that answers
\* it has not come through (UplinkTxEngine.hpp, "metadata follows the target and
\* the sample count change moves the real boundary").
StreamFollowsShift ==
  \/ tx.first
  \/ tx.slip = -tx.applied
  \/ Failing
  \/ rx.pc \in {"reset", "seek", "flag", "wait"}

\* Nobody is about to move anything.
Settled ==
  /\ state = "NORMAL" /\ rx.pc \in {"loop", "NORMAL"} /\ proc.pc = "loop"
  /\ tx.pc = "period" /\ ~tx.first /\ tx.applied = Target
  /\ ~Failing /\ ~request.flag /\ ~order.flag

\* Once everything has settled, the uplink leaves at the start of the UE's own
\* receive frame, less the timing advance: through acquisitions, tracking, resets
\* and restarts.  The one way to lose it is a restart in the middle of a tracking
\* correction, and then until the next acquisition (UE.cpp, "Keep the UL-TX frame
\* anchor tied to the currently aligned UE RX/downlink frame anchor modulo one
\* frame").
AnchorIsKept ==
  Settled => \/ (tx.slip + TimingAdvance - rx.pos) % FrameLen = 0
             \/ overtaken

\* What ties the uplink to the downlink: where its samples are, and where the
\* thread means them to be.
UplinkFollowsDownlink == StreamFollowsShift /\ AnchorIsKept

\* When the receive stream has been started again, the burst on the air is the
\* one that shares its start (UplinkTxEngine::wait_for_restart_submitted).
StartsTogether ==
  rx.pc \in {"loop", "SYNC_SEARCH", "ALIGNMENT", "NORMAL"} => tx.start = rx.start

\* A tracking correction is never made from a frame received before the last one
\* was applied, although frames wait in two queues, so no error is corrected twice
\* (the latch, the gates and the generation of _collect_cpu_demod_result).
CorrectionIsFresh ==
  [][ProcCollect /\ proc'.pc = "schedule" =>
       state = "NORMAL" /\ Head(slots).at = rx.pos]_vars

\* When nothing disturbs the link any more, the receiver comes to rest within
\* the tracking window: no latch, lost search, stale batch or overtaken alignment
\* keeps it off the frames (UE.cpp, "otherwise RX/TX windows can remain at the
\* old/reset position even though sync detection succeeded").
Converges ==
  <>[](state = "NORMAL" /\ Size(Canonical(downlink - rx.pos)) <= AlignWindow)

=============================================================================
