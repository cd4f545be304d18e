---------------------------- MODULE ArqRxWindow -----------------------------
(***************************************************************************)
(* ArqRxWindow (include/OFDMCore.hpp): the receive window of the ARQ, as    *)
(* operators on the record of its fields.  ackBitmap is the set of the bits *)
(* that are set; reorderBuffer maps each sequence number to the payload     *)
(* held under it, NoPayload where the std::map has no key.  The counters    *)
(* kept for the log lines are left out.                                     *)
(***************************************************************************)
EXTENDS ArqSeq

CONSTANTS Window,      \* arq_window_packets after configure()
          BitmapBits,  \* bits of the ACK bitmap: 64
          Ordered,     \* arq_ordered_delivery
          Payloads,
          NoPayload

\* min(_window_size, 64): how far ahead of ackBase a packet can be recorded.
Span == IF Window < BitmapBits THEN Window ELSE BitmapBits
Offsets == 0 .. (Span - 1)

ASSUME RxWindowAssumption ==
  /\ Window \in 1 .. (HalfSpace - 1)
  /\ BitmapBits \in Nat \ {0}
  /\ Ordered \in BOOLEAN
  /\ NoPayload \notin Payloads

RxWindows ==
  [gotAny : BOOLEAN, expectedSeq : Seqs, ackBase : Seqs,
   ackBitmap : SUBSET Offsets,
   reorderBuffer : [Seqs -> Payloads \cup {NoPayload}]]

Configured ==
  [gotAny |-> FALSE, expectedSeq |-> 0, ackBase |-> 0, ackBitmap |-> {},
   reorderBuffer |-> [s \in Seqs |-> NoPayload]]

Held(buffer) == {s \in Seqs : buffer[s] # NoPayload}
Erase(buffer, S) == [s \in Seqs |-> IF s \in S THEN NoPayload ELSE buffer[s]]

\* Mutant of AdoptFirst: the first packet counted as received already.
AdoptAfterFirst(r, seq) ==
  IF r.gotAny THEN r
  ELSE [r EXCEPT !.gotAny = TRUE, !.expectedSeq = seq,
                 !.ackBase = SeqAdd(seq, 1), !.ackBitmap = {}]

\* The first packet ever received fixes the base, whatever its number.
AdoptFirst(r, seq) ==
  IF r.gotAny THEN r
  ELSE [r EXCEPT !.gotAny = TRUE, !.expectedSeq = seq, !.ackBase = seq,
                 !.ackBitmap = {}]

\* _skip_to_include: slide the window forward until seq is its last offset.
SkipToInclude(r, seq) ==
  LET newBase == SeqAdd(seq, -(Span - 1))
      ahead(s) == SeqDiff(s, newBase) >= 0
  IN  IF SeqDiff(newBase, r.ackBase) <= 0 THEN r
      ELSE [r EXCEPT
             !.ackBase = newBase,
             !.ackBitmap =
                {SeqDiff(SeqAdd(r.ackBase, i), newBase) : i \in @} \cap Offsets,
             !.expectedSeq = IF ahead(@) THEN @ ELSE newBase,
             !.reorderBuffer = Erase(@, {s \in Seqs : ~ahead(s)})]

\* Mutant of Opened: the window is not made to follow a far packet.
OpenedInPlace(r, seq) == AdoptFirst(r, seq)

\* The window once it has been made to reach seq.
Opened(r, seq) ==
  LET r0 == AdoptFirst(r, seq)
  IN  IF SeqDiff(seq, r0.ackBase) >= Span THEN SkipToInclude(r0, seq) ELSE r0

\* Neither behind the base, nor outside the window, nor already recorded.
IsNew(r, seq) == SeqDiff(seq, r.ackBase) \in Offsets \ r.ackBitmap

\* _advance_ack_base: shift out the run of set bits at the bottom.
AdvanceAckBase(r) ==
  LET k == FirstGap(r.ackBitmap, BitmapBits)
  IN  [r EXCEPT !.ackBase = SeqAdd(@, k),
                !.ackBitmap = {i - k : i \in {j \in @ : j >= k}}]

\* Mutant of Buffer: full already when it holds a window of packets.
BufferOffByOne(r, seq, p) ==
  LET held == Held(r.reorderBuffer) \cup {seq}
      full == [r.reorderBuffer EXCEPT ![seq] = p]
      first == CHOOSE s \in held : \A t \in held : s <= t
  IN  [r EXCEPT !.reorderBuffer =
         IF Cardinality(held) >= Span THEN Erase(full, {first}) ELSE full]

\* emplace (a key already there stays), then erase(begin()) over capacity.
Buffer(r, seq, p) ==
  LET held == Held(r.reorderBuffer) \cup {seq}
      full == [r.reorderBuffer EXCEPT ![seq] = IF @ = NoPayload THEN p ELSE @]
      first == CHOOSE s \in held : \A t \in held : s <= t
  IN  [r EXCEPT !.reorderBuffer =
         IF Cardinality(held) > Window THEN Erase(full, {first}) ELSE full]

\* The accepting path of process_received.
Accept(r, seq, p) ==
  LET marked == [r EXCEPT !.ackBitmap = @ \cup {SeqDiff(seq, r.ackBase)}]
      moved == AdvanceAckBase(marked)
  IN  IF Ordered THEN Buffer(moved, seq, p) ELSE moved

\* get_deliverable: how many packets it hands out, which, and what it leaves.
RunLength(r) ==
  FirstGap({i \in 0 .. (Window - 1) :
              SeqAdd(r.expectedSeq, i) \in Held(r.reorderBuffer)}, Window)
Deliverable(r) ==
  [i \in 1 .. RunLength(r) |-> r.reorderBuffer[SeqAdd(r.expectedSeq, i - 1)]]
\* Mutant of Drained: the cursor moves by one, whatever was delivered.
DrainedByOne(r) ==
  IF RunLength(r) = 0 THEN r
  ELSE [r EXCEPT !.expectedSeq = SeqAdd(@, 1),
                 !.reorderBuffer = Erase(@, {r.expectedSeq})]
\* What get_deliverable leaves.
Drained(r) ==
  LET run == {SeqAdd(r.expectedSeq, i) : i \in 0 .. (RunLength(r) - 1)}
  IN  [r EXCEPT !.expectedSeq = SeqAdd(@, RunLength(r)),
                !.reorderBuffer = Erase(@, run)]

\* generate_ack: everything before base, and base + i for every bit i.
Feedback == [base : Seqs, bits : SUBSET Offsets]
AckOf(r) == [base |-> r.ackBase, bits |-> r.ackBitmap]
=============================================================================
