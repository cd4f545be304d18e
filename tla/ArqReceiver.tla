---------------------------- MODULE ArqReceiver -----------------------------
(***************************************************************************)
(* The end of an ARQ link that receives data: the UE for the downlink       *)
(* (src/UE.cpp, _process_decoded_packets) and the BS for the uplink         *)
(* (src/BS.cpp, _handle_arq_uplink_payload).  Both run the frame through    *)
(* the receive window, generate an ACK when the feedback interval allows,   *)
(* and send to UDP; only the UE flushes the reorder buffer.                 *)
(***************************************************************************)
EXTENDS ArqRxWindow, Sequences

CONSTANTS Receiver,    \* "UE" or "BS"
          FeedbackCap  \* bound of the model on the ACKs under way

ASSUME ReceiverAssumption ==
  Receiver \in {"UE", "BS"} /\ FeedbackCap \in Nat \ {0}

VARIABLES rx,          \* the window: _dl_arq_rx of the UE, _ul_arq_rx of the BS
          ackDue,      \* should_send_ack: the feedback interval has elapsed
          udpOut,      \* payloads the last frame sent to the UDP output
          feedback     \* ACKs queued for the other end: _arq_pending_feedback

rxVars == <<rx, ackDue, udpOut, feedback>>

\* Mutant of Flushes: the wrong end flushes.
FlushesAtBs == Ordered /\ Receiver = "BS"

\* The UE consults arq_ordered_delivery before it forwards; the BS does not.
Flushes == Ordered /\ Receiver = "UE"

RxInit ==
  /\ rx = Configured
  /\ ackDue = TRUE
  /\ udpOut = <<>>
  /\ feedback = <<>>

\* One decoded data frame: sequence number seq, payload p.
Receive(seq, p) ==
  \E opened \in {Opened(rx, seq)} :
  \E done \in {IF IsNew(opened, seq) THEN Accept(opened, seq, p) ELSE opened} :
    /\ rx' = IF Flushes THEN Drained(done) ELSE done
    /\ udpOut' = IF Flushes THEN Deliverable(done)
                 ELSE IF IsNew(opened, seq) THEN <<p>> ELSE <<>>
    /\ feedback' = IF ackDue THEN Append(feedback, AckOf(done)) ELSE feedback
    /\ ackDue' = FALSE

\* The feedback interval elapses.
AckInterval ==
  /\ ~ackDue
  /\ Len(feedback) < FeedbackCap
  /\ ackDue' = TRUE
  /\ UNCHANGED <<rx, udpOut, feedback>>

\* The oldest queued ACK leaves for the other end.
TakeFeedback ==
  /\ feedback # <<>>
  /\ feedback' = Tail(feedback)
  /\ UNCHANGED <<rx, ackDue, udpOut>>

(***************************************************************************)
(* The receiver alone, under any arrival of sequence numbers: whatever is   *)
(* lost, repeated or reordered before it.  A payload is its own number.     *)
(***************************************************************************)
RxNext ==
  (\E seq \in Seqs : Receive(seq, seq)) \/ AckInterval \/ TakeFeedback
RxSpec == RxInit /\ [][RxNext]_rxVars

RxTypeOK ==
  /\ rx \in RxWindows
  /\ ackDue \in BOOLEAN
  /\ udpOut \in Seq(Payloads)
  /\ feedback \in Seq(Feedback)

-----------------------------------------------------------------------------
(***************************************************************************)
(* With ordered delivery at the UE, between two frames the delivery cursor  *)
(* stands at the cumulative ACK, and the reorder buffer holds exactly the   *)
(* packets the bitmap acknowledges: what has been ACKed and not delivered   *)
(* is neither more nor less than what is kept.  The three fields are        *)
(* updated by four different loops.                                         *)
(***************************************************************************)
SelectivelyAckedAreBuffered ==
  Flushes => /\ rx.expectedSeq = rx.ackBase
             /\ Held(rx.reorderBuffer) =
                  {SeqAdd(rx.ackBase, i) : i \in rx.ackBitmap}

(***************************************************************************)
(* Where the payloads are the numbers, each is held under its own.          *)
(***************************************************************************)
HeldUnderOwnNumber ==
  Flushes => \A s \in Held(rx.reorderBuffer) : rx.reorderBuffer[s] = s

(***************************************************************************)
(* What the last frame delivered is the run of packets that ends at the     *)
(* cursor, one of each number and in order.                                 *)
(***************************************************************************)
DeliveredRunEndsAtCursor ==
  Flushes =>
    \A i \in 1 .. Len(udpOut) :
      udpOut[i] = SeqAdd(rx.expectedSeq, i - 1 - Len(udpOut))
=============================================================================
