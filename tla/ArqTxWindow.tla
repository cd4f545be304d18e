---------------------------- MODULE ArqTxWindow -----------------------------
(***************************************************************************)
(* ArqTxWindow (include/OFDMCore.hpp): the transmit window of the ARQ, as   *)
(* operators on its map w from sequence numbers to entries.  An entry's     *)
(* timestamp is abstracted to due: whether its retransmission timeout has   *)
(* expired.  Each operator is one critical section of the window's mutex.   *)
(***************************************************************************)
EXTENDS ArqSeq

CONSTANTS TxWindow,    \* arq_window_packets after configure()
          MaxRetries,  \* arq_max_retries; 0 is unlimited
          MaxBurst,    \* get_retransmit's max_count: 16
          Packets,     \* what an entry stores
          NoEntry

ASSUME TxWindowAssumption ==
  /\ TxWindow \in 1 .. (HalfSpace - 1)
  /\ MaxRetries \in Nat
  /\ MaxBurst \in Nat \ {0}

\* With unlimited retries the count is never read, and stays at 0.
TxEntries == [packet : Packets, retries : 0 .. MaxRetries, due : BOOLEAN]

Outstanding(w) == {s \in Seqs : w[s] # NoEntry}
Without(w, S) == [s \in Seqs |-> IF s \in S THEN NoEntry ELSE w[s]]

HasRoom(w) == Cardinality(Outstanding(w)) < TxWindow

\* try_insert_encoded: refused when full; emplace keeps an entry already there.
TryInsert(w, seq, p) ==
  IF HasRoom(w) /\ w[seq] = NoEntry
  THEN [w EXCEPT ![seq] = [packet |-> p, retries |-> 0, due |-> FALSE]]
  ELSE w

\* Mutants of AckedBy: the base taken as received; no cumulative part.
AckedWithBase(w, ack) ==
  {s \in Outstanding(w) : \/ SeqDiff(s, ack.base) <= 0
                          \/ \E i \in ack.bits : s = SeqAdd(ack.base, i)}
AckedSelectively(w, ack) ==
  {s \in Outstanding(w) : \E i \in ack.bits : s = SeqAdd(ack.base, i)}

\* process_ack: cumulative up to the base, selective by the bitmap.
AckedBy(w, ack) ==
  {s \in Outstanding(w) : \/ SeqDiff(s, ack.base) < 0
                          \/ \E i \in ack.bits : s = SeqAdd(ack.base, i)}
ProcessAck(w, ack) == Without(w, AckedBy(w, ack))

\* get_retransmit, has_retransmit_pending: timed out, with a retry left.
Retransmittable(w) ==
  {s \in Outstanding(w) : w[s].due /\ (MaxRetries = 0 \/ w[s].retries < MaxRetries)}

\* mark_transmitted: nothing when the entry has gone meanwhile.
MarkTransmitted(w, seq) ==
  IF w[seq] = NoEntry THEN w
  ELSE [w EXCEPT ![seq].due = FALSE,
                 ![seq].retries = IF MaxRetries = 0 THEN 0 ELSE @ + 1]

\* Mutant of Abandoned: one retry too many is waited for.
AbandonedLate(w) ==
  {s \in Outstanding(w) : MaxRetries > 0 /\ w[s].due /\ w[s].retries > MaxRetries}

\* drop_abandoned: timed out, with no retry left.
Abandoned(w) ==
  {s \in Outstanding(w) : MaxRetries > 0 /\ w[s].due /\ w[s].retries >= MaxRetries}
DropAbandoned(w) == Without(w, Abandoned(w))
=============================================================================
