------------------------------ MODULE ArqLink -------------------------------
(***************************************************************************)
(* One direction of the ARQ: the encode thread that owns the transmit       *)
(* window (BS: src/BS.cpp, _udp_encode_proc; UE: include/UplinkTxEngine.hpp *)
(* _ldpc_encode_proc), the lossy air, the receiver, and the ACKs that come  *)
(* back and are applied by the sender's decode thread, between any two      *)
(* steps of the encode thread.                                              *)
(*                                                                         *)
(* A frame carries pos, the value of the 32-bit packet counter; its header  *)
(* has only pos modulo the sequence space.  Its packet is the ordinal of    *)
(* the UDP datagram among those the encode thread took.                     *)
(***************************************************************************)
EXTENDS ArqReceiver, ArqTxWindow

CONSTANTS AirCap,      \* packets the encoded queue holds
          FirstPos,    \* frames numbered before this receiver started
          MaxPackets,  \* bound of the model on the datagrams taken
          MaxErtm      \* bound of the model on the eRTM reports injected

ASSUME LinkAssumption ==
  /\ AirCap \in Nat \ {0} /\ FirstPos \in Nat
  /\ MaxPackets \in Nat /\ MaxErtm \in Nat
  /\ 0 .. (MaxPackets - 1) \subseteq Payloads

VARIABLES entries,     \* _dl_arq_tx of the BS, _ul_arq_tx of the UE
          enc,         \* the encode thread: where it is, and its locals
          nextPos,     \* _ldpc_packet_seq, _packet_seq: frames numbered
          nextPacket,  \* datagrams taken from the raw UDP queue
          ertm,        \* eRTM reports injected
          air,         \* encoded packets on their way, oldest first
          delivered,   \* history: every packet sent to UDP, in order
          accepted     \* history: frames the receive window accepted

txVars == <<entries, enc, nextPos, nextPacket, ertm>>
vars == <<rxVars, txVars, air, delivered, accepted>>

\* The BS sends the downlink and so the UE receives it, and conversely.
Downlink == Receiver = "UE"
NoPacket == MaxPackets
Frames == [pos : FirstPos .. (FirstPos + MaxPackets + MaxErtm), packet : 0 .. NoPacket]
SeqOf(f) == f.pos % SeqSpace

ASSUME EntryAssumption == Packets = Frames /\ NoEntry \notin TxEntries

\* 3/4 of the encoded queue, where the BS defers retransmissions.
HighWater == IF (AirCap * 3) \div 4 > 1 THEN (AirCap * 3) \div 4 ELSE 1

Init ==
  /\ RxInit
  /\ entries = [s \in Seqs |-> NoEntry]
  /\ enc = [at |-> "top", retx |-> {}, frame |-> [pos |-> FirstPos, packet |-> NoPacket]]
  /\ nextPos = FirstPos /\ nextPacket = 0 /\ ertm = 0
  /\ air = <<>>
  /\ delivered = <<>> /\ accepted = {}

Goto(label) == enc' = [enc EXCEPT !.at = label]
Room == Len(air) < AirCap
Push(f) == Room /\ air' = Append(air, f)
HistoryUnchanged == UNCHANGED <<delivered, accepted>>

-----------------------------------------------------------------------------
(***************************************************************************)
(* The encode thread.                                                       *)
(***************************************************************************)
\* drop_abandoned
EncAbandon ==
  /\ enc.at = "top"
  /\ entries' = DropAbandoned(entries)
  /\ Goto("collect")
  /\ UNCHANGED <<rxVars, nextPos, nextPacket, ertm, air>> /\ HistoryUnchanged

\* get_retransmit: at most MaxBurst, of an unordered_map.
EncCollect ==
  /\ enc.at = "collect"
  /\ LET due == Retransmittable(entries)
     IN \E R \in SUBSET due :
          /\ R = due \/ Cardinality(R) = MaxBurst
          /\ Cardinality(R) <= MaxBurst
          /\ enc' = [enc EXCEPT !.at = "retransmit", !.retx = R]
  /\ UNCHANGED <<rxVars, entries, nextPos, nextPacket, ertm, air>>
  /\ HistoryUnchanged

\* get_entry_copy; an entry released since the snapshot is skipped.
EncCopy ==
  /\ enc.at = "retransmit"
  /\ Downlink => Len(air) < HighWater
  /\ \E s \in enc.retx :
       enc' = IF entries[s] = NoEntry THEN [enc EXCEPT !.retx = @ \ {s}]
              ELSE [enc EXCEPT !.at = "repush", !.frame = entries[s].packet]
  /\ UNCHANGED <<rxVars, entries, nextPos, nextPacket, ertm, air>>
  /\ HistoryUnchanged

\* The copy is queued even if an ACK has released its entry meanwhile.
EncRepush ==
  /\ enc.at = "repush"
  /\ Push(enc.frame)
  /\ Goto("mark")
  /\ UNCHANGED <<rxVars, entries, nextPos, nextPacket, ertm>>
  /\ HistoryUnchanged

\* mark_transmitted, a critical section of its own.
EncMark ==
  /\ enc.at = "mark"
  /\ LET s == SeqOf(enc.frame)
     IN  /\ entries' = MarkTransmitted(entries, s)
         /\ enc' = [enc EXCEPT !.at = "retransmit", !.retx = @ \ {s}]
  /\ UNCHANGED <<rxVars, nextPos, nextPacket, ertm, air>> /\ HistoryUnchanged

\* The snapshot is done, or the BS finds the encoded queue high and defers.
EncRetransmitEnd ==
  /\ enc.at = "retransmit"
  /\ enc.retx = {} \/ (Downlink /\ Len(air) >= HighWater)
  /\ enc' = [enc EXCEPT !.at = IF Downlink THEN "ertm" ELSE "new", !.retx = {}]
  /\ UNCHANGED <<rxVars, entries, nextPos, nextPacket, ertm, air>>
  /\ HistoryUnchanged

\* _try_inject_ertm_payload: an untracked frame numbered from the same counter.
EncErtm ==
  /\ enc.at = "ertm"
  /\ ertm < MaxErtm
  /\ Push([pos |-> nextPos, packet |-> NoPacket])
  /\ nextPos' = nextPos + 1
  /\ ertm' = ertm + 1
  /\ Goto("new")
  /\ UNCHANGED <<rxVars, entries, nextPacket>> /\ HistoryUnchanged

\* No report is due.
EncNoErtm ==
  /\ enc.at = "ertm"
  /\ Goto("new")
  /\ UNCHANGED <<rxVars, entries, nextPos, nextPacket, ertm, air>>
  /\ HistoryUnchanged

\* Retransmissions are pending, or no datagram is waiting.
EncIdle ==
  /\ enc.at = "new"
  /\ Goto("top")
  /\ UNCHANGED <<rxVars, entries, nextPos, nextPacket, ertm, air>>
  /\ HistoryUnchanged

\* The window is full: the datagram is dropped before it is numbered.
EncDrop ==
  /\ enc.at = "new"
  /\ nextPacket < MaxPackets
  /\ Retransmittable(entries) = {}
  /\ ~HasRoom(entries)
  /\ nextPacket' = nextPacket + 1
  /\ Goto("top")
  /\ UNCHANGED <<rxVars, entries, nextPos, ertm, air>> /\ HistoryUnchanged

(***************************************************************************)
(* _encode_and_enqueue_payload.  The BS queues the packet and then tracks   *)
(* it; the UE tracks it and then queues it.  Both block on a full queue.    *)
(***************************************************************************)
EncNumber ==
  /\ enc.at = "new"
  /\ nextPacket < MaxPackets
  /\ Retransmittable(entries) = {}
  /\ HasRoom(entries)
  /\ enc' = [enc EXCEPT !.at = IF Downlink THEN "push" ELSE "track",
                        !.frame = [pos |-> nextPos, packet |-> nextPacket]]
  /\ nextPos' = nextPos + 1
  /\ nextPacket' = nextPacket + 1
  /\ UNCHANGED <<rxVars, entries, ertm, air>> /\ HistoryUnchanged

EncTrack ==
  /\ enc.at = "track"
  /\ entries' = TryInsert(entries, SeqOf(enc.frame), enc.frame)
  /\ Goto(IF Downlink THEN "top" ELSE "push")
  /\ UNCHANGED <<rxVars, nextPos, nextPacket, ertm, air>> /\ HistoryUnchanged

EncPush ==
  /\ enc.at = "push"
  /\ Push(enc.frame)
  /\ Goto(IF Downlink THEN "track" ELSE "top")
  /\ UNCHANGED <<rxVars, entries, nextPos, nextPacket, ertm>>
  /\ HistoryUnchanged

Encode ==
  \/ EncAbandon \/ EncCollect \/ EncCopy \/ EncRepush \/ EncMark
  \/ EncRetransmitEnd \/ EncErtm \/ EncNoErtm \/ EncIdle \/ EncDrop
  \/ EncNumber \/ EncTrack \/ EncPush

-----------------------------------------------------------------------------
\* The retransmission timeout of an outstanding packet expires.
Timeout(s) ==
  /\ entries[s] # NoEntry
  /\ ~entries[s].due
  /\ entries' = [entries EXCEPT ![s].due = TRUE]
  /\ UNCHANGED <<rxVars, enc, nextPos, nextPacket, ertm, air>>
  /\ HistoryUnchanged

\* Interference: the oldest packet on the air is not decoded.
FrameLost ==
  /\ air # <<>>
  /\ air' = Tail(air)
  /\ UNCHANGED <<rxVars, txVars>> /\ HistoryUnchanged

\* The oldest packet is decoded; the UE takes eRTM reports out before the ARQ.
FrameArrives ==
  /\ air # <<>>
  /\ air' = Tail(air)
  /\ LET f == Head(air)
     IN  IF f.packet = NoPacket
         THEN UNCHANGED <<rxVars, delivered, accepted>>
         ELSE /\ Receive(SeqOf(f), f.packet)
              /\ delivered' = delivered \o udpOut'
              /\ accepted' = IF IsNew(Opened(rx, SeqOf(f)), SeqOf(f))
                             THEN accepted \cup {f} ELSE accepted
  /\ UNCHANGED txVars

Interval == AckInterval /\ UNCHANGED <<txVars, air>> /\ HistoryUnchanged

AckLost == TakeFeedback /\ UNCHANGED <<txVars, air>> /\ HistoryUnchanged

\* process_ack, on the sender's decode thread.
AckArrives ==
  /\ TakeFeedback
  /\ entries' = ProcessAck(entries, Head(feedback))
  /\ UNCHANGED <<enc, nextPos, nextPacket, ertm, air>> /\ HistoryUnchanged

Next ==
  \/ Encode
  \/ \E s \in Seqs : Timeout(s)
  \/ FrameLost \/ FrameArrives
  \/ Interval \/ AckLost \/ AckArrives

Spec == Init /\ [][Next]_vars

\* Every thread keeps running, and interference does not last for ever.
Fairness ==
  /\ WF_vars(Encode)
  /\ WF_vars(\E s \in Seqs : Timeout(s))
  /\ WF_vars(Interval)
  /\ SF_vars(FrameArrives) /\ SF_vars(AckArrives)

FairSpec == Spec /\ Fairness

\* An outage may last for ever: the frames still leave the queue, and time passes.
OutageFairness ==
  /\ WF_vars(Encode)
  /\ WF_vars(\E s \in Seqs : Timeout(s))
  /\ WF_vars(FrameLost \/ FrameArrives)

OutageSpec == Spec /\ OutageFairness

-----------------------------------------------------------------------------
(***************************************************************************)
(* A packet that an ACK makes the sender let go was accepted by the         *)
(* receiver, or lies behind the receiver's base, where it would never be    *)
(* accepted any more (it came before the first packet seen, or the window   *)
(* was made to skip it).  The sender never stops retransmitting a packet    *)
(* that the receiver would still take, however old the ACK.                 *)
(***************************************************************************)
AckedIsSettled ==
  [][AckArrives =>
       \A s \in Outstanding(entries) \ Outstanding(entries') :
         \/ entries[s].packet \in accepted
         \/ rx.gotAny /\ SeqDiff(s, rx.ackBase) < 0]_vars

(***************************************************************************)
(* With ordered delivery, a packet that was accepted - and so ACKed, and    *)
(* released by the sender - stays in the reorder buffer until it is         *)
(* delivered, in spite of capacity, flush and duplicates.  One event alone  *)
(* may lose it: a frame that arrives a whole window ahead of the base, and  *)
(* makes the window skip (the sender's window counts packets, not numbers). *)
(***************************************************************************)
Safe(f) ==
  \/ \E i \in 1 .. Len(delivered) : delivered[i] = f.packet
  \/ \E s \in Seqs : rx.reorderBuffer[s] = f.packet
Outruns(f) == rx.gotAny /\ SeqDiff(SeqOf(f), rx.ackBase) >= Span
AcceptedIsKept ==
  [][Flushes =>
       \A f \in accepted' :
         (f \in accepted => Safe(f)) =>
           Safe(f)' \/ (FrameArrives /\ Outruns(Head(air)))]_vars

(***************************************************************************)
(* A data packet numbered after every one accepted so far is accepted when  *)
(* it arrives, never mistaken for an old duplicate: the sequence numbers    *)
(* under way stay within half the sequence space of the receiver's base.    *)
(***************************************************************************)
NewestIsAccepted ==
  [][\A f \in Frames :
       /\ FrameArrives /\ f = Head(air) /\ f.packet # NoPacket
       /\ \A g \in accepted : g.pos < f.pos
       => f \in accepted']_vars

(***************************************************************************)
(* What reaches UDP implements the delivery the configuration asks for:     *)
(* packets that were sent, none twice, and in order with ordered delivery.  *)
(***************************************************************************)
Promised == INSTANCE Delivery
              WITH InOrder <- Ordered, taken <- nextPacket, output <- delivered
DeliveryImplemented == Promised!Spec

(***************************************************************************)
(* Once the users pause, the transmit window empties: every packet tracked  *)
(* is released, also the one whose ACK came before it was tracked and the   *)
(* one whose ACK was suppressed by the feedback interval.                   *)
(***************************************************************************)
WindowEmpties == (Outstanding(entries) # {}) ~> (Outstanding(entries) = {})

(***************************************************************************)
(* With limited retries it empties in any outage: every packet tracked is   *)
(* released or given up, whatever copies of it are under way, whatever late *)
(* ACKs are for, and though the receiver has fallen half the sequence space *)
(* behind, so that nothing sent is ACKed any more (drop_abandoned).         *)
(***************************************************************************)
WindowOutlastsOutage == WindowEmpties

(***************************************************************************)
(* With ordered delivery, every hole that a loss leaves is filled: packets  *)
(* are held back for ever only when an eRTM report has used up a number.    *)
(***************************************************************************)
LossesHoldNothing ==
  (Held(rx.reorderBuffer) # {}) ~> (Held(rx.reorderBuffer) = {} \/ ertm > 0)

\* Both ends of the link come to rest.
LinkDrains == WindowEmpties /\ LossesHoldNothing
=============================================================================
