--------------------------- MODULE ArqLink_proofs ---------------------------
(***************************************************************************)
(* The ARQ, for every sequence width, window, bitmap and either end of the  *)
(* link.                                                                    *)
(*                                                                         *)
(* First the lemmas about the sequence arithmetic - modular addition and    *)
(* the signed distance as case distinctions over linear arithmetic, the     *)
(* least gap of a bounded set of offsets - and about what each operation of *)
(* the receive window does to a window whose reorder buffer is in step with *)
(* its offsets: which numbers it holds, and which payloads survive.         *)
(*                                                                         *)
(* Then the receiving end: its types, the agreement of its cursor, bitmap   *)
(* and reorder buffer, and what a frame may do to the packets held.  The    *)
(* lemmas take any payload; RxSpec carries numbers as payloads, hence the   *)
(* hypothesis Seqs \subseteq Payloads of the theorems.                      *)
(*                                                                         *)
(* And one direction of the link, end to end: what the receiver keeps of    *)
(* the packets it has accepted; and, where the numbers under way fit the    *)
(* sequence space, that an ACK only releases what the receiver is done      *)
(* with, that the newest packet is always accepted, and that the link       *)
(* implements Delivery.                                                     *)
(***************************************************************************)
EXTENDS ArqLink, FiniteSetTheorems, WellFoundedInduction, TLAPS

\* Adding a distance shorter than the sequence space wraps at most once.
LEMMA SeqAddCases ==
  ASSUME NEW a \in Seqs, NEW i \in Int, -SeqSpace <= i, i < SeqSpace
  PROVE  SeqAdd(a, i) = IF a + i >= SeqSpace THEN a + i - SeqSpace
                        ELSE IF a + i < 0 THEN a + i + SeqSpace ELSE a + i
<1> DEFINE m == SeqSpace
<1>1. m \in Nat \ {0}
  BY HalfSpaceAssumption DEF SeqSpace
<1>2. a \in 0 .. (m - 1)
  BY DEF Seqs
<1>3. /\ a + i \in 0 .. (m - 1) => (a + i) % m = a + i
      /\ a + i \in m .. (2 * m - 1) => (a + i) % m = a + i - m
      /\ a + i \in (-m) .. (-1) => (a + i) % m = a + i + m
  <2> HIDE DEF m
  <2> QED BY <1>1, <1>2
<1> QED BY <1>1, <1>2, <1>3 DEF SeqAdd

\* Adding to a sequence number gives a sequence number.
LEMMA SeqAddType ==
  ASSUME NEW a \in Seqs, NEW i \in Int, -SeqSpace <= i, i < SeqSpace
  PROVE  SeqAdd(a, i) \in Seqs
<1>1. HalfSpace \in Nat \ {0}
  BY HalfSpaceAssumption
<1> QED BY <1>1, SeqAddCases DEF SeqSpace, Seqs

\* The signed distance is the difference brought into -HalfSpace..HalfSpace-1.
LEMMA SeqDiffCases ==
  ASSUME NEW a \in Seqs, NEW b \in Seqs
  PROVE  SeqDiff(a, b) = IF a - b >= HalfSpace THEN a - b - SeqSpace
                         ELSE IF a - b < -HalfSpace THEN a - b + SeqSpace
                         ELSE a - b
<1> DEFINE m == SeqSpace
<1>1. m \in Nat \ {0} /\ HalfSpace \in Nat \ {0} /\ m = 2 * HalfSpace
  BY HalfSpaceAssumption DEF SeqSpace
<1>2. a \in 0 .. (m - 1) /\ b \in 0 .. (m - 1)
  BY DEF Seqs
<1>3. /\ a - b >= 0 => (a - b) % m = a - b
      /\ a - b < 0 => (a - b) % m = a - b + m
  <2> HIDE DEF m
  <2> QED BY <1>1, <1>2
<1> QED BY <1>1, <1>2, <1>3 DEF SeqDiff

\* A number is at distance zero of itself.
LEMMA SeqDiffSelf ==
  ASSUME NEW b \in Seqs
  PROVE  SeqDiff(b, b) = 0
<1>1. HalfSpace \in Nat \ {0} /\ b \in Int
  BY HalfSpaceAssumption DEF Seqs, SeqSpace
<1> QED BY <1>1, SeqDiffCases

\* A signed distance is less than half the space.
LEMMA SeqDiffType ==
  ASSUME NEW a \in Seqs, NEW b \in Seqs
  PROVE  SeqDiff(a, b) \in (-HalfSpace) .. (HalfSpace - 1)
<1>1. HalfSpace \in Nat \ {0}
  BY HalfSpaceAssumption
<1> QED BY <1>1, SeqDiffCases DEF SeqSpace, Seqs

\* Moving by a distance and measuring it back, both ways round.
LEMMA SeqDiffOfAdd ==
  ASSUME NEW b \in Seqs, NEW i \in (-HalfSpace) .. (HalfSpace - 1)
  PROVE  SeqDiff(SeqAdd(b, i), b) = i
<1>1. HalfSpace \in Nat \ {0}
  BY HalfSpaceAssumption
<1> DEFINE a == SeqAdd(b, i)
<1>2. a \in Seqs
  BY <1>1, SeqAddType DEF SeqSpace
<1>3. a = IF b + i >= SeqSpace THEN b + i - SeqSpace
          ELSE IF b + i < 0 THEN b + i + SeqSpace ELSE b + i
  BY <1>1, SeqAddCases DEF SeqSpace
<1> HIDE DEF a
<1>4. SeqDiff(a, b) = IF a - b >= HalfSpace THEN a - b - SeqSpace
                      ELSE IF a - b < -HalfSpace THEN a - b + SeqSpace
                      ELSE a - b
  BY <1>2, SeqDiffCases
<1>5. SeqDiff(a, b) = i
  BY <1>1, <1>2, <1>3, <1>4 DEF SeqSpace, Seqs
<1> QED BY <1>5 DEF a

\* The distance from b to a, added to b, gives a.
LEMMA SeqAddOfDiff ==
  ASSUME NEW a \in Seqs, NEW b \in Seqs
  PROVE  SeqAdd(b, SeqDiff(a, b)) = a
<1>1. HalfSpace \in Nat \ {0}
  BY HalfSpaceAssumption
<1> DEFINE d == SeqDiff(a, b)
<1>2. d \in (-HalfSpace) .. (HalfSpace - 1)
  BY SeqDiffType
<1>3. d = IF a - b >= HalfSpace THEN a - b - SeqSpace
          ELSE IF a - b < -HalfSpace THEN a - b + SeqSpace ELSE a - b
  BY SeqDiffCases
<1> HIDE DEF d
<1>4. SeqAdd(b, d) = IF b + d >= SeqSpace THEN b + d - SeqSpace
                     ELSE IF b + d < 0 THEN b + d + SeqSpace ELSE b + d
  BY <1>1, <1>2, SeqAddCases DEF SeqSpace
<1>5. SeqAdd(b, d) = a
  BY <1>1, <1>2, <1>3, <1>4 DEF SeqSpace, Seqs
<1> QED BY <1>5 DEF d

\* Two moves are one, as long as neither nor their sum goes round.
LEMMA SeqAddAdd ==
  ASSUME NEW a \in Seqs, NEW i \in Int, NEW j \in Int,
         -SeqSpace <= i, i < SeqSpace, -SeqSpace <= j, j < SeqSpace,
         -SeqSpace <= i + j, i + j < SeqSpace
  PROVE  SeqAdd(SeqAdd(a, i), j) = SeqAdd(a, i + j)
<1>1. HalfSpace \in Nat \ {0}
  BY HalfSpaceAssumption
<1>2. SeqAdd(a, i) \in Seqs
  BY SeqAddType
<1>3. i + j \in Int
  OBVIOUS
<1> QED BY <1>1, <1>2, <1>3, SeqAddCases DEF SeqSpace, Seqs

(***************************************************************************)
(* A frame's position is the value of an unbounded counter; its number is   *)
(* the position modulo SeqSpace.                                            *)
(***************************************************************************)
LEMMA Division ==
  ASSUME NEW a \in Int
  PROVE  /\ a % SeqSpace \in Seqs
         /\ \E q \in Int : a = SeqSpace * q + (a % SeqSpace)
<1> DEFINE m == SeqSpace
<1>1. m \in Nat \ {0}
  BY HalfSpaceAssumption DEF SeqSpace
<1> HIDE DEF m
<1>2. /\ a % m \in 0 .. (m - 1) /\ a \div m \in Int
      /\ a = (m * (a \div m)) + (a % m)
  BY <1>1
<1> QED BY <1>2 DEF m, Seqs

\* Quotient and remainder are unique.
LEMMA DivisionUnique ==
  ASSUME NEW q \in Int, NEW r \in Seqs
  PROVE  (SeqSpace * q + r) % SeqSpace = r
<1> DEFINE m == SeqSpace
<1>1. m \in Nat \ {0} /\ r \in 0 .. (m - 1)
  BY HalfSpaceAssumption DEF SeqSpace, Seqs
<1> HIDE DEF m
<1>2. (m * q + r) % m = r
  BY <1>1
<1> QED BY <1>2 DEF m

\* Moving the counter moves the number.
LEMMA NumberOfSum ==
  ASSUME NEW a \in Int, NEW i \in Int, -SeqSpace <= i, i < SeqSpace
  PROVE  (a + i) % SeqSpace = SeqAdd(a % SeqSpace, i)
<1> DEFINE m == SeqSpace
           r == a % SeqSpace
           t == SeqAdd(r, i)
<1>1. m \in Nat \ {0}
  BY HalfSpaceAssumption DEF SeqSpace
<1>7. r \in Seqs
  BY Division
<1>2. PICK q \in Int : a = m * q + r
  BY Division
<1>3. /\ t \in Seqs
      /\ t = IF r + i >= m THEN r + i - m ELSE IF r + i < 0 THEN r + i + m ELSE r + i
  BY <1>7, SeqAddCases, SeqAddType
<1>4. r \in Int /\ t \in Int
  BY <1>7, <1>3 DEF Seqs
<1> HIDE DEF r, t
<1>5. PICK c \in {-1, 0, 1} : r + i = m * c + t
  <2> HIDE DEF m
  <2>1. r + i = t + m \/ r + i = t - m \/ r + i = t
    BY <1>1, <1>3, <1>4
  <2>2. t + m = m * 1 + t /\ t - m = m * (-1) + t /\ t = m * 0 + t
    BY <1>1, <1>4
  <2> QED BY <2>1, <2>2
<1>6. a + i = m * (q + c) + t /\ q + c \in Int
  <2> HIDE DEF m
  <2> QED BY <1>1, <1>2, <1>4, <1>5
<1> QED BY <1>3, <1>6, DivisionUnique DEF r, t

\* Within half the space, the distance of the numbers is that of the positions.
LEMMA DistanceOfNumbers ==
  ASSUME NEW a \in Int, NEW b \in Int, -HalfSpace <= a - b, a - b < HalfSpace
  PROVE  SeqDiff(a % SeqSpace, b % SeqSpace) = a - b
<1>1. HalfSpace \in Nat \ {0} /\ b % SeqSpace \in Seqs
  BY HalfSpaceAssumption, Division
<1>2. a - b \in (-HalfSpace) .. (HalfSpace - 1) /\ b + (a - b) = a
      /\ -SeqSpace <= a - b /\ a - b < SeqSpace
  BY <1>1 DEF SeqSpace
<1>3. a % SeqSpace = SeqAdd(b % SeqSpace, a - b)
  BY <1>2, NumberOfSum
<1> QED BY <1>1, <1>2, <1>3, SeqDiffOfAdd

\* and two positions closer than the space have different numbers.
LEMMA NumbersDiffer ==
  ASSUME NEW a \in Int, NEW b \in Int, a # b,
         -SeqSpace < a - b, a - b < SeqSpace
  PROVE  a % SeqSpace # b % SeqSpace
<1> DEFINE m == SeqSpace
<1>1. m \in Nat \ {0}
  BY HalfSpaceAssumption DEF SeqSpace
<1>2. PICK q \in Int : a = m * q + (a % SeqSpace)
  BY Division
<1>3. PICK p \in Int : b = m * p + (b % SeqSpace)
  BY Division
<1>4. SUFFICES ASSUME a % SeqSpace = b % SeqSpace PROVE FALSE
  OBVIOUS
<1> DEFINE r == a % SeqSpace
<1>5. r \in Int /\ a = m * q + r /\ b = m * p + r
  BY <1>2, <1>3, <1>4, Division DEF Seqs
<1> HIDE DEF r
<1>6. -m < a - b /\ a - b < m
  OBVIOUS
<1> HIDE DEF m
<1>7. a - b = m * (q - p)
  BY <1>1, <1>5
<1>8. q - p >= 1 \/ q - p <= -1
  BY <1>5, <1>1
<1>9. m * (q - p) >= m \/ m * (q - p) <= -m
  <2> DEFINE d == q - p
  <2>1. d \in Int /\ (d >= 1 \/ d <= -1)
    BY <1>8
  <2> HIDE DEF d
  <2>2. m * d >= m \/ m * d <= -m
    BY <1>1, <2>1
  <2> QED BY <2>2 DEF d
<1> QED BY <1>1, <1>6, <1>7, <1>9

\* A bounded set of offsets has a least gap, and FirstGap is it.
LEMMA FirstGapProperties ==
  ASSUME NEW n \in Nat, NEW S \in SUBSET (0 .. (n - 1))
  PROVE  /\ FirstGap(S, n) \in 0 .. n
         /\ FirstGap(S, n) \notin S
         /\ \A j \in 0 .. (FirstGap(S, n) - 1) : j \in S
<1> DEFINE Gaps == (0 .. n) \ S
           T == {0 .. k : k \in Gaps}
<1>1. n \in Gaps
  OBVIOUS
<1>2. T \subseteq FiniteSubsetsOf(Nat)
  <2> SUFFICES ASSUME NEW k \in Gaps PROVE 0 .. k \in FiniteSubsetsOf(Nat)
    OBVIOUS
  <2>1. IsFiniteSet(0 .. k)
    BY FS_Interval
  <2> QED BY <2>1 DEF FiniteSubsetsOf
<1>3. PICK x \in T : \A y \in T : <<y, x>> \notin StrictSubsetOrdering(Nat)
  <2>1. T # {}
    BY <1>1
  <2>2. IsWellFoundedOn(StrictSubsetOrdering(Nat), FiniteSubsetsOf(Nat))
    BY FS_StrictSubsetOrderingWellFounded
  <2> HIDE DEF T
  <2> QED BY <1>2, <2>1, <2>2, WFMin
<1>4. PICK k \in Gaps : x = 0 .. k
  OBVIOUS
<1>5. ASSUME NEW j \in 0 .. (k - 1) PROVE j \in S
  <2> SUFFICES ASSUME j \notin S PROVE FALSE
    OBVIOUS
  <2>1. 0 .. j \in T
    OBVIOUS
  <2>2. 0 .. j \subseteq 0 .. k /\ 0 .. j # 0 .. k
    <3>1. k \in 0 .. k /\ k \notin 0 .. j
      OBVIOUS
    <3> QED BY <3>1
  <2>3. <<0 .. j, x>> \in StrictSubsetOrdering(Nat)
    BY <1>4, <2>2 DEF StrictSubsetOrdering
  <2> QED BY <1>3, <2>1, <2>3
<1> QED BY <1>5 DEF FirstGap

\* The least gap does not depend on the bound given.
LEMMA FirstGapUnique ==
  ASSUME NEW n \in Nat, NEW S \in SUBSET (0 .. (n - 1)),
         NEW k \in Nat, k \notin S, \A j \in 0 .. (k - 1) : j \in S
  PROVE  FirstGap(S, n) = k
<1> DEFINE g == FirstGap(S, n)
<1>1. g \in 0 .. n /\ g \notin S /\ \A j \in 0 .. (g - 1) : j \in S
  BY FirstGapProperties
<1> HIDE DEF g
<1>2. ~(g < k) /\ ~(k < g)
  BY <1>1
<1> QED BY <1>1, <1>2 DEF g

-----------------------------------------------------------------------------
\* The buffer holds the numbers at the offsets B above b, and no other.
Keeps(buffer, b, B) ==
  \A s \in Seqs : buffer[s] # NoPayload <=> SeqDiff(s, b) \in B

\* The buffer, the cursor and the bitmap tell the same story.
InStep(r) ==
  r.expectedSeq = r.ackBase /\ Keeps(r.reorderBuffer, r.ackBase, r.ackBitmap)

Buffers == [Seqs -> Payloads \cup {NoPayload}]

\* The offsets B once the window has moved up by c.
Lowered(B, c) == {i - c : i \in {j \in B : j >= c}}

\* The window's span is positive and less than half the space.
LEMMA SpanFacts ==
  /\ Span \in Nat \ {0} /\ Span <= Window /\ Span <= BitmapBits
  /\ Span < HalfSpace /\ HalfSpace \in Nat \ {0} /\ Window < HalfSpace
  /\ Window \in Nat /\ BitmapBits \in Nat
BY HalfSpaceAssumption, RxWindowAssumption DEF Span

\* Keeps in the terms of the ACKed numbers.
LEMMA KeepsIsHeld ==
  ASSUME NEW buffer \in Buffers, NEW b \in Seqs, NEW B \in SUBSET Offsets,
         Keeps(buffer, b, B)
  PROVE  Held(buffer) = {SeqAdd(b, i) : i \in B}
<1>2. \A s \in Seqs : s \in Held(buffer) <=> SeqDiff(s, b) \in B
  BY DEF Keeps, Held
<1>3. ASSUME NEW i \in B
      PROVE  SeqAdd(b, i) \in Seqs /\ SeqDiff(SeqAdd(b, i), b) = i
  <2>1. i \in Int /\ 0 <= i /\ i < HalfSpace /\ i < SeqSpace /\ -SeqSpace <= i
    BY SpanFacts DEF Offsets, SeqSpace
  <2> QED BY <2>1, SpanFacts, SeqAddType, SeqDiffOfAdd
<1>4. ASSUME NEW s \in Seqs, SeqDiff(s, b) \in B
      PROVE  s = SeqAdd(b, SeqDiff(s, b))
  BY SeqAddOfDiff
<1>5. Held(buffer) \subseteq {SeqAdd(b, i) : i \in B}
  BY <1>2, <1>4 DEF Held
<1>6. {SeqAdd(b, i) : i \in B} \subseteq Held(buffer)
  BY <1>2, <1>3
<1> QED BY <1>5, <1>6

\* Offsets seen from a base moved up by c.
LEMMA OffsetFromMovedBase ==
  ASSUME NEW b \in Seqs, NEW c \in 0 .. (HalfSpace - 1), NEW s \in Seqs,
         NEW j \in Int, -HalfSpace <= j, j + c < HalfSpace
  PROVE  SeqDiff(s, SeqAdd(b, c)) = j <=> SeqDiff(s, b) = j + c
<1> DEFINE nb == SeqAdd(b, c)
<1>1. HalfSpace \in Nat \ {0}
  BY SpanFacts
<1>2. /\ nb \in Seqs
      /\ nb = IF b + c >= SeqSpace THEN b + c - SeqSpace ELSE b + c
  BY <1>1, SeqAddCases, SeqAddType DEF SeqSpace, Seqs
<1> HIDE DEF nb
<1>3. SeqDiff(s, nb) = IF s - nb >= HalfSpace THEN s - nb - SeqSpace
                       ELSE IF s - nb < -HalfSpace THEN s - nb + SeqSpace
                       ELSE s - nb
  BY <1>2, SeqDiffCases
<1>4. SeqDiff(s, b) = IF s - b >= HalfSpace THEN s - b - SeqSpace
                      ELSE IF s - b < -HalfSpace THEN s - b + SeqSpace
                      ELSE s - b
  BY SeqDiffCases
<1>5. SeqDiff(s, nb) = j <=> SeqDiff(s, b) = j + c
  BY <1>1, <1>2, <1>3, <1>4 DEF SeqSpace, Seqs
<1> QED BY <1>5 DEF nb

\* Offsets seen from a base moved up by c.
LEMMA LoweredOffsets ==
  ASSUME NEW b \in Seqs, NEW c \in 0 .. (HalfSpace - 1),
         NEW B \in SUBSET Offsets, NEW s \in Seqs
  PROVE  /\ Lowered(B, c) \in SUBSET Offsets
         /\ SeqDiff(s, SeqAdd(b, c)) \in Lowered(B, c) <=>
              SeqDiff(s, b) \in B /\ SeqDiff(s, b) >= c
<1>0. c \in Nat /\ c < HalfSpace /\ Span \in Nat \ {0}
      /\ Span < HalfSpace /\ HalfSpace \in Nat
  BY SpanFacts
<1>1. Lowered(B, c) \in SUBSET Offsets
  <2> SUFFICES ASSUME NEW i \in B, i >= c PROVE i - c \in Offsets
    BY DEF Lowered
  <2>1. i \in 0 .. (Span - 1)
    BY DEF Offsets
  <2> QED BY <1>0, <2>1 DEF Offsets
<1>2. c \in 0 .. (HalfSpace - 1)
  OBVIOUS
<1>3. ASSUME SeqDiff(s, SeqAdd(b, c)) \in Lowered(B, c)
      PROVE  SeqDiff(s, b) \in B /\ SeqDiff(s, b) >= c
  <2>1. PICK i \in B : i >= c /\ SeqDiff(s, SeqAdd(b, c)) = i - c
    BY <1>3 DEF Lowered
  <2>2. i \in Int /\ i - c \in Int /\ -HalfSpace <= i - c /\ (i - c) + c < HalfSpace
        /\ (i - c) + c = i
    <3>1. i \in 0 .. (Span - 1)
      BY DEF Offsets
    <3> QED BY <1>0, <2>1, <3>1
  <2>3. SeqDiff(s, b) = i
    BY <1>2, <2>1, <2>2, OffsetFromMovedBase
  <2> QED BY <2>1, <2>3
<1>4. ASSUME SeqDiff(s, b) \in B, SeqDiff(s, b) >= c
      PROVE  SeqDiff(s, SeqAdd(b, c)) \in Lowered(B, c)
  <2> DEFINE i == SeqDiff(s, b)
  <2>1. i \in B /\ i >= c
    BY <1>4
  <2>2. i \in Int /\ i - c \in Int /\ -HalfSpace <= i - c /\ (i - c) + c < HalfSpace
        /\ (i - c) + c = i
    <3>1. i \in 0 .. (Span - 1)
      BY <2>1 DEF Offsets
    <3> HIDE DEF i
    <3> QED BY <1>0, <2>1, <3>1
  <2>3. SeqDiff(s, SeqAdd(b, c)) = i - c
    <3>1. SeqDiff(s, b) = i
      OBVIOUS
    <3> HIDE DEF i
    <3> QED BY <1>2, <2>2, <3>1, OffsetFromMovedBase
  <2> HIDE DEF i
  <2> QED BY <2>1, <2>3 DEF Lowered
<1> QED BY <1>1, <1>3, <1>4

\* AdoptFirst: a fresh window at the first packet, no change afterwards.
LEMMA AdoptFirstProperties ==
  ASSUME NEW r \in RxWindows, NEW seq \in Seqs
  PROVE  /\ AdoptFirst(r, seq) \in RxWindows
         /\ AdoptFirst(r, seq).gotAny
         /\ AdoptFirst(r, seq).reorderBuffer = r.reorderBuffer
         /\ AdoptFirst(r, seq).ackBase = IF r.gotAny THEN r.ackBase ELSE seq
         /\ AdoptFirst(r, seq).ackBitmap = IF r.gotAny THEN r.ackBitmap ELSE {}
         /\ 0 \notin r.ackBitmap => 0 \notin AdoptFirst(r, seq).ackBitmap
         /\ InStep(r) /\ (~r.gotAny => r.ackBitmap = {})
              => InStep(AdoptFirst(r, seq))
<1> DEFINE a == AdoptFirst(r, seq)
<1>1. CASE r.gotAny
  BY <1>1 DEF AdoptFirst
<1>2. CASE ~r.gotAny
  <2>1. /\ a \in RxWindows /\ a.gotAny /\ a.ackBitmap = {}
        /\ a.expectedSeq = seq /\ a.ackBase = seq
        /\ a.reorderBuffer = r.reorderBuffer
    BY <1>2 DEF AdoptFirst, RxWindows
  <2>2. InStep(r) /\ r.ackBitmap = {} => InStep(a)
    <3> HIDE DEF a
    <3> QED BY <2>1 DEF InStep, Keeps
  <2> QED BY <1>2, <2>1, <2>2
<1> QED BY <1>1, <1>2

\* Erase on the buffers.
LEMMA EraseType ==
  ASSUME NEW buffer \in Buffers, NEW S
  PROVE  Erase(buffer, S) \in Buffers
BY DEF Erase, Buffers

\* _skip_to_include, called for a packet beyond the window.
LEMMA SkipToIncludeProperties ==
  ASSUME NEW r \in RxWindows, NEW seq \in Seqs,
         SeqDiff(seq, r.ackBase) >= Span
  PROVE  /\ SkipToInclude(r, seq) \in RxWindows
         /\ SkipToInclude(r, seq).gotAny = r.gotAny
         /\ IsNew(SkipToInclude(r, seq), seq)
         /\ SkipToInclude(r, seq).ackBase = SeqAdd(seq, -(Span - 1))
         /\ SkipToInclude(r, seq).ackBitmap =
              Lowered(r.ackBitmap, SeqDiff(seq, r.ackBase) - (Span - 1))
         /\ \A s \in Seqs : SkipToInclude(r, seq).reorderBuffer[s] \in
                             {r.reorderBuffer[s], NoPayload}
         /\ InStep(r) => InStep(SkipToInclude(r, seq))
<1> DEFINE d == SeqDiff(seq, r.ackBase)
           c == d - (Span - 1)
           newBase == SeqAdd(seq, -(Span - 1))
           q == SkipToInclude(r, seq)
<1>0. /\ Span \in Nat \ {0} /\ Span < HalfSpace /\ HalfSpace \in Nat \ {0}
      /\ r.ackBase \in Seqs /\ r.expectedSeq \in Seqs
      /\ r.ackBitmap \in SUBSET Offsets /\ r.reorderBuffer \in Buffers
  BY SpanFacts DEF RxWindows, Buffers
<1>1. d \in Span .. (HalfSpace - 1) /\ c \in 1 .. (HalfSpace - Span)
  <2>1. d \in (-HalfSpace) .. (HalfSpace - 1) /\ d >= Span
    BY <1>0, SeqDiffType
  <2> HIDE DEF d
  <2> QED BY <1>0, <2>1
<1>2. newBase = SeqAdd(r.ackBase, c) /\ newBase \in Seqs
  <2>1. seq = SeqAdd(r.ackBase, d)
    BY <1>0, SeqAddOfDiff
  <2> HIDE DEF d
  <2>2. /\ d \in Int /\ -(Span - 1) \in Int /\ d + -(Span - 1) = c
        /\ -SeqSpace <= d /\ d < SeqSpace
        /\ -SeqSpace <= -(Span - 1) /\ -(Span - 1) < SeqSpace
        /\ -SeqSpace <= c /\ c < SeqSpace
    BY <1>0, <1>1 DEF SeqSpace
  <2>3. SeqAdd(SeqAdd(r.ackBase, d), -(Span - 1)) = SeqAdd(r.ackBase, c)
    BY <1>0, <2>2, SeqAddAdd
  <2> QED BY <2>1, <2>2, <2>3, SeqAddType
<1>3. \A j \in Int : -HalfSpace <= j /\ j + c < HalfSpace =>
        \A s \in Seqs : SeqDiff(s, newBase) = j <=> SeqDiff(s, r.ackBase) = j + c
  <2>1. c \in 0 .. (HalfSpace - 1)
    <3> HIDE DEF c
    <3> QED BY <1>0, <1>1
  <2> HIDE DEF c, newBase
  <2> QED BY <1>0, <1>2, <2>1, OffsetFromMovedBase
<1>4. SeqDiff(newBase, r.ackBase) = c /\ SeqDiff(r.ackBase, newBase) = -c
  <2>1. SeqDiff(newBase, r.ackBase) = c
    <3> HIDE DEF c, newBase
    <3>1. c \in (-HalfSpace) .. (HalfSpace - 1)
      BY <1>0, <1>1
    <3> QED BY <1>0, <1>2, <3>1, SeqDiffOfAdd
  <2>2. SeqDiff(r.ackBase, newBase) = -c
    <3>1. SeqDiff(r.ackBase, r.ackBase) = 0
      BY <1>0, SeqDiffSelf
    <3> HIDE DEF c, newBase
    <3>2. -c \in Int /\ -HalfSpace <= -c /\ -c + c < HalfSpace /\ -c + c = 0
      BY <1>0, <1>1
    <3> QED BY <1>0, <1>3, <3>1, <3>2
  <2> QED BY <2>1, <2>2
<1>5. q = [r EXCEPT
             !.ackBase = newBase,
             !.ackBitmap = {SeqDiff(SeqAdd(r.ackBase, i), newBase) : i \in r.ackBitmap}
                             \cap Offsets,
             !.expectedSeq = IF SeqDiff(r.expectedSeq, newBase) >= 0
                             THEN r.expectedSeq ELSE newBase,
             !.reorderBuffer =
                Erase(r.reorderBuffer, {s \in Seqs : ~(SeqDiff(s, newBase) >= 0)})]
  <2>1. ~(SeqDiff(newBase, r.ackBase) <= 0)
    <3> HIDE DEF c, newBase
    <3> QED BY <1>0, <1>1, <1>4
  <2> QED BY <2>1 DEF SkipToInclude
<1>6. q.ackBitmap = Lowered(r.ackBitmap, c)
  <2> DEFINE remapped ==
        {SeqDiff(SeqAdd(r.ackBase, i), newBase) : i \in r.ackBitmap} \cap Offsets
  <2>0. q.ackBitmap = remapped
    <3> HIDE DEF q, newBase
    <3> QED BY <1>5 DEF RxWindows
  <2>1. ASSUME NEW i \in r.ackBitmap
        PROVE  /\ i \in 0 .. (Span - 1)
               /\ SeqAdd(r.ackBase, i) \in Seqs
               /\ SeqDiff(SeqAdd(r.ackBase, i), r.ackBase) = i
    <3>1. i \in 0 .. (Span - 1)
      BY <1>0 DEF Offsets
    <3>2. i \in (-HalfSpace) .. (HalfSpace - 1) /\ -SeqSpace <= i /\ i < SeqSpace
      BY <1>0, <3>1 DEF SeqSpace
    <3> QED BY <1>0, <3>1, <3>2, SeqAddType, SeqDiffOfAdd
  <2> HIDE DEF c, newBase
  <2>2. ASSUME NEW x \in remapped PROVE x \in Lowered(r.ackBitmap, c)
    <3>1. PICK i \in r.ackBitmap : x = SeqDiff(SeqAdd(r.ackBase, i), newBase)
      OBVIOUS
    <3>2. x \in Int /\ -HalfSpace <= x /\ x + c < HalfSpace /\ x >= 0
      BY <1>0, <1>1 DEF Offsets
    <3>3. i = x + c
      BY <1>3, <2>1, <3>1, <3>2
    <3>4. i >= c /\ x = i - c
      BY <1>1, <3>2, <3>3
    <3> QED BY <3>4 DEF Lowered
  <2>3. ASSUME NEW x \in Lowered(r.ackBitmap, c) PROVE x \in remapped
    <3>1. PICK i \in r.ackBitmap : i >= c /\ x = i - c
      BY DEF Lowered
    <3>2. /\ x \in Int /\ -HalfSpace <= x /\ x + c < HalfSpace /\ i = x + c
          /\ x \in Offsets
      BY <1>0, <1>1, <2>1, <3>1 DEF Offsets
    <3>3. SeqDiff(SeqAdd(r.ackBase, i), newBase) = x
      BY <1>3, <2>1, <3>2
    <3> QED BY <3>2, <3>3
  <2>4. remapped = Lowered(r.ackBitmap, c)
    <3> HIDE DEF remapped
    <3> QED BY <2>2, <2>3
  <2> HIDE DEF q, remapped
  <2> QED BY <2>0, <2>4
<1>7. /\ q.ackBase = newBase /\ q.gotAny = r.gotAny
      /\ q.reorderBuffer =
           Erase(r.reorderBuffer, {s \in Seqs : ~(SeqDiff(s, newBase) >= 0)})
      /\ q.expectedSeq = IF SeqDiff(r.expectedSeq, newBase) >= 0
                         THEN r.expectedSeq ELSE newBase
  <2> HIDE DEF q, newBase
  <2> QED BY <1>5 DEF RxWindows
<1>8. q \in RxWindows
  <2>1. Erase(r.reorderBuffer, {s \in Seqs : ~(SeqDiff(s, newBase) >= 0)}) \in Buffers
    BY <1>0, EraseType
  <2> HIDE DEF q, newBase
  <2> QED BY <1>0, <1>2, <1>5, <2>1 DEF RxWindows, Buffers
<1>9. IsNew(q, seq)
  <2>1. SeqDiff(seq, newBase) = Span - 1
    <3>1. SeqDiff(seq, r.ackBase) = d
      OBVIOUS
    <3> HIDE DEF newBase, d
    <3>2. /\ Span - 1 \in Int /\ -HalfSpace <= Span - 1
          /\ (Span - 1) + c < HalfSpace /\ (Span - 1) + c = d
      BY <1>0, <1>1
    <3> HIDE DEF c
    <3> QED BY <1>3, <3>1, <3>2
  <2>2. Span - 1 \in Offsets
    BY <1>0 DEF Offsets
  <2>3. Span - 1 \notin Lowered(r.ackBitmap, c)
    <3> HIDE DEF c
    <3>1. \A i \in r.ackBitmap : i \in 0 .. (Span - 1)
      BY <1>0 DEF Offsets
    <3> QED BY <1>0, <1>1, <3>1 DEF Lowered
  <2> HIDE DEF q, newBase, c
  <2> QED BY <1>6, <1>7, <2>1, <2>2, <2>3 DEF IsNew
<1>10. ASSUME InStep(r) PROVE InStep(q)
  <2> HIDE DEF newBase, c, q
  <2>1. q.expectedSeq = newBase
    <3>1. r.expectedSeq = r.ackBase
      BY <1>10 DEF InStep
    <3>2. ~(SeqDiff(r.ackBase, newBase) >= 0)
      BY <1>0, <1>1, <1>4
    <3> QED BY <1>7, <3>1, <3>2
  <2>2. ASSUME NEW s \in Seqs
        PROVE  q.reorderBuffer[s] # NoPayload <=>
                 SeqDiff(s, newBase) \in Lowered(r.ackBitmap, c)
    <3>1. q.reorderBuffer[s] = IF SeqDiff(s, newBase) >= 0
                               THEN r.reorderBuffer[s] ELSE NoPayload
      BY <1>7 DEF Erase
    <3>2. r.reorderBuffer[s] # NoPayload <=> SeqDiff(s, r.ackBase) \in r.ackBitmap
      BY <1>10 DEF InStep, Keeps
    <3>3. SeqDiff(s, newBase) \in Lowered(r.ackBitmap, c) <=>
            SeqDiff(s, r.ackBase) \in r.ackBitmap /\ SeqDiff(s, r.ackBase) >= c
      <4>1. c \in 0 .. (HalfSpace - 1)
        BY <1>0, <1>1
      <4> QED BY <1>0, <1>2, <4>1, LoweredOffsets
    <3>4. Lowered(r.ackBitmap, c) \subseteq Nat
      <4>1. \A i \in r.ackBitmap : i \in 0 .. (Span - 1)
        BY <1>0 DEF Offsets
      <4> QED BY <1>0, <1>1, <4>1 DEF Lowered
    <3>5. ASSUME SeqDiff(s, r.ackBase) \in r.ackBitmap,
                 ~(SeqDiff(s, r.ackBase) >= c)
          PROVE  ~(SeqDiff(s, newBase) >= 0)
      <4> DEFINE i == SeqDiff(s, r.ackBase)
      <4>1. i \in 0 .. (Span - 1) /\ i < c
        <5>1. i \in 0 .. (Span - 1)
          BY <1>0, <3>5 DEF Offsets
        <5> HIDE DEF i
        <5>2. ~(i >= c)
          BY <3>5 DEF i
        <5> QED BY <1>1, <5>1, <5>2
      <4>2. SeqDiff(s, r.ackBase) = i
        OBVIOUS
      <4> HIDE DEF i
      <4>3. /\ i - c \in Int /\ -HalfSpace <= i - c /\ (i - c) + c < HalfSpace
            /\ (i - c) + c = i /\ i - c < 0
        BY <1>0, <1>1, <4>1
      <4>4. SeqDiff(s, newBase) = i - c
        BY <1>3, <4>2, <4>3
      <4> QED BY <4>3, <4>4
    <3> QED BY <3>1, <3>2, <3>3, <3>4, <3>5
  <2> QED BY <1>6, <1>7, <2>1, <2>2 DEF InStep, Keeps
<1>11. \A s \in Seqs : q.reorderBuffer[s] \in {r.reorderBuffer[s], NoPayload}
  BY <1>7 DEF Erase
<1> QED BY <1>6, <1>7, <1>8, <1>9, <1>10, <1>11

\* A packet a whole window ahead of the base, which makes the window skip.
Beyond(r, seq) == r.gotAny /\ SeqDiff(seq, r.ackBase) >= Span

\* The window made to reach seq: either seq is new to it, or nothing moved.
LEMMA OpenedProperties ==
  ASSUME NEW r \in RxWindows, NEW seq \in Seqs
  PROVE  /\ Opened(r, seq) \in RxWindows
         /\ Opened(r, seq).gotAny
         /\ 0 \notin r.ackBitmap =>
              0 \notin Opened(r, seq).ackBitmap \/ IsNew(Opened(r, seq), seq)
         /\ \A s \in Seqs : Opened(r, seq).reorderBuffer[s] \in
                             {r.reorderBuffer[s], NoPayload}
         /\ ~Beyond(r, seq) => Opened(r, seq).reorderBuffer = r.reorderBuffer
         /\ InStep(r) /\ (~r.gotAny => r.ackBitmap = {})
              => InStep(Opened(r, seq))
<1> DEFINE a == AdoptFirst(r, seq)
<1>1. /\ a \in RxWindows /\ a.gotAny
      /\ a.reorderBuffer = r.reorderBuffer
      /\ 0 \notin r.ackBitmap => 0 \notin a.ackBitmap
      /\ InStep(r) /\ (~r.gotAny => r.ackBitmap = {}) => InStep(a)
  BY AdoptFirstProperties
<1>2. Opened(r, seq) = IF SeqDiff(seq, a.ackBase) >= Span
                       THEN SkipToInclude(a, seq) ELSE a
  BY DEF Opened
<1>0. SeqDiff(seq, a.ackBase) >= Span => Beyond(r, seq)
  <2>1. a.ackBase = IF r.gotAny THEN r.ackBase ELSE seq
    BY AdoptFirstProperties
  <2>2. SeqDiff(seq, seq) = 0 /\ ~(0 >= Span)
    BY SeqDiffSelf, SpanFacts
  <2> HIDE DEF a
  <2> QED BY <2>1, <2>2 DEF Beyond
<1> HIDE DEF a
<1>3. CASE SeqDiff(seq, a.ackBase) >= Span
  BY <1>0, <1>1, <1>2, <1>3, SkipToIncludeProperties
<1>4. CASE ~(SeqDiff(seq, a.ackBase) >= Span)
  BY <1>1, <1>2, <1>4
<1> QED BY <1>3, <1>4

\* The run of set bits: never longer than the window, the same for any bound.
LEMMA RunOfBits ==
  ASSUME NEW B \in SUBSET Offsets, NEW n \in Nat, Span <= n
  PROVE  LET k == FirstGap(B, n)
         IN  /\ k \in 0 .. Span /\ k \notin B
             /\ \A j \in 0 .. (k - 1) : j \in B
             /\ k = FirstGap(B, BitmapBits)
<1> DEFINE k == FirstGap(B, n)
           g == FirstGap(B, BitmapBits)
<1>1. /\ B \in SUBSET (0 .. (n - 1)) /\ B \in SUBSET (0 .. (BitmapBits - 1))
      /\ Span \in Nat /\ BitmapBits \in Nat
  BY SpanFacts DEF Offsets
<1>2. k \in 0 .. n /\ k \notin B /\ \A j \in 0 .. (k - 1) : j \in B
  BY <1>1, FirstGapProperties
<1> HIDE DEF k
<1>3. k <= Span
  <2> SUFFICES ASSUME Span < k PROVE FALSE
    BY <1>1, <1>2
  <2>1. Span \in 0 .. (k - 1)
    BY <1>1, <1>2
  <2> QED BY <1>1, <1>2, <2>1 DEF Offsets
<1>4. g = k
  BY <1>1, <1>2, FirstGapUnique
<1> HIDE DEF g
<1> QED BY <1>1, <1>2, <1>3, <1>4 DEF k, g

\* A buffer in step with its offsets never exceeds the capacity.
LEMMA KeptFits ==
  ASSUME NEW buffer \in Buffers, NEW b \in Seqs,
         NEW B \in SUBSET Offsets, Keeps(buffer, b, B)
  PROVE  Cardinality(Held(buffer)) <= Window
<1> DEFINE f == [i \in B |-> SeqAdd(b, i)]
<1>1. Held(buffer) = {SeqAdd(b, i) : i \in B}
  BY KeepsIsHeld
<1>2. f \in Surjection(B, Held(buffer))
  BY <1>1 DEF Surjection
<1>3. IsFiniteSet(Offsets) /\ Cardinality(Offsets) = Span
  BY SpanFacts, FS_Interval DEF Offsets
<1>4. /\ IsFiniteSet(B) /\ Cardinality(B) <= Cardinality(Offsets)
  BY <1>3, FS_Subset
<1> HIDE DEF f
<1>5. IsFiniteSet(Held(buffer)) /\ Cardinality(Held(buffer)) <= Cardinality(B)
  BY <1>2, <1>4, FS_Surjection
<1>6. Cardinality(B) \in Nat /\ Cardinality(Held(buffer)) \in Nat
  BY <1>4, <1>5, FS_CardinalityType
<1> QED BY <1>3, <1>4, <1>5, <1>6, SpanFacts

\* _advance_ack_base on any bitmap.
LEMMA AdvanceAckBaseProperties ==
  ASSUME NEW r \in RxWindows
  PROVE  LET k == FirstGap(r.ackBitmap, BitmapBits)
             q == AdvanceAckBase(r)
         IN  /\ q \in RxWindows
             /\ q.ackBase = SeqAdd(r.ackBase, k)
             /\ q.ackBitmap = Lowered(r.ackBitmap, k)
             /\ 0 \notin q.ackBitmap
             /\ q.gotAny = r.gotAny /\ q.expectedSeq = r.expectedSeq
             /\ q.reorderBuffer = r.reorderBuffer
<1> DEFINE B == r.ackBitmap
           k == FirstGap(B, BitmapBits)
           q == AdvanceAckBase(r)
<1>1. B \in SUBSET Offsets /\ r.ackBase \in Seqs
  BY DEF RxWindows
<1>2. k \in 0 .. Span /\ k \notin B
  BY <1>1, SpanFacts, RunOfBits
<1>3. SeqAdd(r.ackBase, k) \in Seqs
  <2> HIDE DEF k
  <2>1. k \in Int /\ -SeqSpace <= k /\ k < SeqSpace
    BY <1>2, SpanFacts DEF SeqSpace
  <2> QED BY <1>1, <2>1, SeqAddType
<1>4. Lowered(B, k) \in SUBSET Offsets /\ 0 \notin Lowered(B, k)
  <2> HIDE DEF k, B
  <2> SUFFICES ASSUME NEW i \in B, i >= k PROVE i - k \in Offsets /\ i - k # 0
    BY DEF Lowered
  <2>1. i \in 0 .. (Span - 1) /\ k \in 0 .. Span /\ i # k
    BY <1>1, <1>2 DEF Offsets
  <2> QED BY <2>1, SpanFacts DEF Offsets
<1>5. q = [r EXCEPT !.ackBase = SeqAdd(r.ackBase, k), !.ackBitmap = Lowered(B, k)]
  BY DEF AdvanceAckBase, Lowered
<1> HIDE DEF k, q
<1>6. /\ q \in RxWindows /\ q.ackBase = SeqAdd(r.ackBase, k)
      /\ q.ackBitmap = Lowered(B, k)
      /\ q.gotAny = r.gotAny /\ q.expectedSeq = r.expectedSeq
      /\ q.reorderBuffer = r.reorderBuffer
  BY <1>1, <1>3, <1>4, <1>5 DEF RxWindows
<1> QED BY <1>4, <1>6 DEF k, q

\* Buffer changes the buffer alone; whether it evicts or not, it stays one.
LEMMA BufferType ==
  ASSUME NEW r \in RxWindows, NEW seq \in Seqs, NEW p \in Payloads
  PROVE  /\ Buffer(r, seq, p) =
              [r EXCEPT !.reorderBuffer = Buffer(r, seq, p).reorderBuffer]
         /\ Buffer(r, seq, p).reorderBuffer \in Buffers
<1> DEFINE held == Held(r.reorderBuffer) \cup {seq}
           full == [r.reorderBuffer EXCEPT ![seq] =
                      IF @ = NoPayload THEN p ELSE @]
           first == CHOOSE s \in held : \A t \in held : s <= t
           q == Buffer(r, seq, p)
<1>1. r.reorderBuffer \in Buffers
  BY DEF RxWindows, Buffers
<1>2. full \in Buffers /\ Erase(full, {first}) \in Buffers
  BY <1>1, EraseType DEF Buffers
<1>3. q = [r EXCEPT !.reorderBuffer =
             IF Cardinality(held) > Window THEN Erase(full, {first}) ELSE full]
  BY DEF Buffer
<1> HIDE DEF q, full, held, first
<1>4. q.reorderBuffer =
        IF Cardinality(held) > Window THEN Erase(full, {first}) ELSE full
  BY <1>3 DEF RxWindows
<1>5. q = [r EXCEPT !.reorderBuffer = q.reorderBuffer] /\ q.reorderBuffer \in Buffers
  BY <1>2, <1>3, <1>4
<1> QED BY <1>5 DEF q

\* With the buffer in step, a new packet is kept and nothing is evicted.
LEMMA BufferKeeps ==
  ASSUME NEW r \in RxWindows, NEW seq \in Seqs, NEW p \in Payloads,
         NEW b \in Seqs, NEW B \in SUBSET Offsets,
         Keeps(r.reorderBuffer, b, B), SeqDiff(seq, b) \in Offsets \ B
  PROVE  LET kept == Buffer(r, seq, p).reorderBuffer
         IN  /\ kept = [r.reorderBuffer EXCEPT ![seq] = p]
             /\ Keeps(kept, b, B \cup {SeqDiff(seq, b)})
<1> DEFINE buffer == r.reorderBuffer
           held == Held(buffer) \cup {seq}
           full == [buffer EXCEPT ![seq] = IF @ = NoPayload THEN p ELSE @]
           first == CHOOSE s \in held : \A t \in held : s <= t
           q == Buffer(r, seq, p)
           C == B \cup {SeqDiff(seq, b)}
<1>1. buffer \in Buffers /\ p # NoPayload
  BY RxWindowAssumption DEF RxWindows, Buffers
<1>2. C \in SUBSET Offsets /\ buffer[seq] = NoPayload
  BY DEF Keeps
<1>3. q.reorderBuffer =
        IF Cardinality(held) > Window THEN Erase(full, {first}) ELSE full
  BY DEF Buffer, RxWindows
<1>4. ASSUME NEW s \in Seqs, SeqDiff(s, b) = SeqDiff(seq, b) PROVE s = seq
  <2>1. s = SeqAdd(b, SeqDiff(s, b)) /\ seq = SeqAdd(b, SeqDiff(seq, b))
    BY SeqAddOfDiff
  <2> QED BY <1>4, <2>1
<1>5. full = [buffer EXCEPT ![seq] = p] /\ full \in Buffers
  BY <1>1, <1>2 DEF Buffers
<1>6. Keeps(full, b, C)
  <2> SUFFICES ASSUME NEW s \in Seqs
               PROVE  full[s] # NoPayload <=> SeqDiff(s, b) \in C
    BY DEF Keeps
  <2>1. buffer[s] # NoPayload <=> SeqDiff(s, b) \in B
    BY DEF Keeps
  <2>2. full[s] = IF s = seq THEN p ELSE buffer[s]
    <3> HIDE DEF full
    <3> QED BY <1>1, <1>5 DEF Buffers
  <2> HIDE DEF full, buffer
  <2> QED BY <1>1, <1>4, <2>1, <2>2
<1>7. held = Held(full)
  <2> HIDE DEF full
  <2> QED BY <1>1, <1>5 DEF Held, Buffers
<1>8. held \in SUBSET Seqs
  BY DEF Held
<1> HIDE DEF buffer, held, full, first, q, C
<1>9. Cardinality(held) <= Window
  BY <1>2, <1>5, <1>6, <1>7, KeptFits
<1>10. Cardinality(held) \in Int /\ Window \in Int
  <2>1. IsFiniteSet(Seqs)
    BY FS_Interval, SpanFacts DEF Seqs, SeqSpace
  <2> QED BY <1>8, <2>1, FS_Subset, FS_CardinalityType, SpanFacts
<1>11. q.reorderBuffer = full
  BY <1>3, <1>9, <1>10
<1> QED BY <1>5, <1>6, <1>11 DEF q, C, buffer

\* The accepting path: the bitmap moves on, the buffer keeps one packet more.
LEMMA AcceptProperties ==
  ASSUME NEW r \in RxWindows, NEW seq \in Seqs, NEW p \in Payloads, IsNew(r, seq)
  PROVE  LET q == Accept(r, seq, p)
             B == r.ackBitmap \cup {SeqDiff(seq, r.ackBase)}
             k == FirstGap(B, BitmapBits)
         IN  /\ q \in RxWindows /\ q.gotAny = r.gotAny
             /\ B \in SUBSET Offsets
             /\ q.ackBase = SeqAdd(r.ackBase, k)
             /\ q.ackBitmap = Lowered(B, k)
             /\ 0 \notin q.ackBitmap
             /\ q.expectedSeq = r.expectedSeq
             /\ Ordered /\ Keeps(r.reorderBuffer, r.ackBase, r.ackBitmap)
                  => /\ q.reorderBuffer = [r.reorderBuffer EXCEPT ![seq] = p]
                     /\ Keeps(q.reorderBuffer, r.ackBase, B)
<1> DEFINE q == Accept(r, seq, p)
           B == r.ackBitmap \cup {SeqDiff(seq, r.ackBase)}
           marked == [r EXCEPT !.ackBitmap = @ \cup {SeqDiff(seq, r.ackBase)}]
           moved == AdvanceAckBase(marked)
<1>1. B \in SUBSET Offsets /\ SeqDiff(seq, r.ackBase) \in Offsets
  BY DEF IsNew, RxWindows
<1>2. /\ marked \in RxWindows /\ marked.ackBitmap = B
      /\ marked.ackBase = r.ackBase /\ marked.gotAny = r.gotAny
      /\ marked.expectedSeq = r.expectedSeq
      /\ marked.reorderBuffer = r.reorderBuffer
  BY <1>1 DEF RxWindows
<1>3. q = IF Ordered THEN Buffer(moved, seq, p) ELSE moved
  BY DEF Accept
<1> HIDE DEF marked
<1>4. /\ moved \in RxWindows
      /\ moved.ackBase = SeqAdd(r.ackBase, FirstGap(B, BitmapBits))
      /\ moved.ackBitmap = Lowered(B, FirstGap(B, BitmapBits))
      /\ 0 \notin moved.ackBitmap
      /\ moved.gotAny = r.gotAny /\ moved.expectedSeq = r.expectedSeq
      /\ moved.reorderBuffer = r.reorderBuffer
  BY <1>2, AdvanceAckBaseProperties
<1> HIDE DEF moved, q, B
<1>5. ASSUME ~Ordered
      PROVE  /\ q \in RxWindows /\ q.gotAny = r.gotAny
             /\ q.ackBase = moved.ackBase /\ q.ackBitmap = moved.ackBitmap
             /\ q.expectedSeq = r.expectedSeq
  BY <1>3, <1>4, <1>5
<1>6. ASSUME Ordered
      PROVE  /\ q \in RxWindows /\ q.gotAny = r.gotAny
             /\ q.ackBase = moved.ackBase /\ q.ackBitmap = moved.ackBitmap
             /\ q.expectedSeq = r.expectedSeq
             /\ q.reorderBuffer = Buffer(moved, seq, p).reorderBuffer
  <2> DEFINE buffer == Buffer(moved, seq, p).reorderBuffer
  <2>1. q = [moved EXCEPT !.reorderBuffer = buffer] /\ buffer \in Buffers
    BY <1>3, <1>4, <1>6, BufferType
  <2> HIDE DEF buffer
  <2>2. /\ q \in RxWindows /\ q.reorderBuffer = buffer
        /\ q.ackBase = moved.ackBase /\ q.ackBitmap = moved.ackBitmap
        /\ q.gotAny = moved.gotAny /\ q.expectedSeq = moved.expectedSeq
    BY <1>4, <2>1 DEF RxWindows, Buffers
  <2> QED BY <1>4, <2>2 DEF buffer
<1>7. ASSUME Ordered, Keeps(r.reorderBuffer, r.ackBase, r.ackBitmap)
      PROVE  /\ q.reorderBuffer = [r.reorderBuffer EXCEPT ![seq] = p]
             /\ Keeps(q.reorderBuffer, r.ackBase, B)
  <2>1. /\ r.ackBase \in Seqs /\ r.ackBitmap \in SUBSET Offsets
        /\ SeqDiff(seq, r.ackBase) \in Offsets \ r.ackBitmap
    BY DEF RxWindows, IsNew
  <2> DEFINE kept == Buffer(moved, seq, p).reorderBuffer
  <2>2. /\ moved \in RxWindows
        /\ Keeps(moved.reorderBuffer, r.ackBase, r.ackBitmap)
    BY <1>4, <1>7
  <2>3. /\ kept = [moved.reorderBuffer EXCEPT ![seq] = p]
        /\ Keeps(kept, r.ackBase, r.ackBitmap \cup {SeqDiff(seq, r.ackBase)})
    BY <2>1, <2>2, BufferKeeps
  <2>4. q.reorderBuffer = kept
    BY <1>6, <1>7
  <2> HIDE DEF kept
  <2> QED BY <1>4, <2>3, <2>4 DEF B
<1>8. Ordered \in BOOLEAN
  BY RxWindowAssumption
<1>9. /\ q \in RxWindows /\ q.gotAny = r.gotAny
      /\ q.ackBase = moved.ackBase /\ q.ackBitmap = moved.ackBitmap
      /\ q.expectedSeq = r.expectedSeq
  BY <1>5, <1>6, <1>8
<1> QED BY <1>1, <1>4, <1>7, <1>9 DEF q, B

\* get_deliverable: the cursor and the buffer move on by the run of bits.
LEMMA DrainedType ==
  ASSUME NEW r \in RxWindows
  PROVE  LET q == Drained(r)
         IN  /\ q \in RxWindows /\ q.gotAny = r.gotAny
             /\ q.ackBase = r.ackBase /\ q.ackBitmap = r.ackBitmap
             /\ Deliverable(r) \in Seq(Payloads)
             /\ \A s \in Seqs : q.reorderBuffer[s] \in {r.reorderBuffer[s], NoPayload}
             /\ \A s \in Seqs :
                  \/ q.reorderBuffer[s] = r.reorderBuffer[s]
                  \/ \E i \in 1 .. Len(Deliverable(r)) :
                       Deliverable(r)[i] = r.reorderBuffer[s]
<1> DEFINE S == {i \in 0 .. (Window - 1) :
                   SeqAdd(r.expectedSeq, i) \in Held(r.reorderBuffer)}
           k == RunLength(r)
           q == Drained(r)
           run == {SeqAdd(r.expectedSeq, i) : i \in 0 .. (k - 1)}
<1>1. /\ r.expectedSeq \in Seqs /\ r.reorderBuffer \in Buffers
      /\ Window \in Nat /\ Window < HalfSpace /\ HalfSpace \in Nat \ {0}
  BY SpanFacts DEF RxWindows, Buffers
<1>2. k \in 0 .. Window /\ \A j \in 0 .. (k - 1) : j \in S
  BY <1>1, FirstGapProperties DEF RunLength
<1> HIDE DEF S, k
<1>3. SeqAdd(r.expectedSeq, k) \in Seqs
  BY <1>1, <1>2, SeqAddType DEF SeqSpace
<1>4. Erase(r.reorderBuffer, run) \in Buffers
  BY <1>1, EraseType
<1>5. q = [r EXCEPT !.expectedSeq = SeqAdd(r.expectedSeq, k),
                    !.reorderBuffer = Erase(r.reorderBuffer, run)]
  BY DEF Drained, k
<1> HIDE DEF q, run
<1>6. /\ q \in RxWindows /\ q.gotAny = r.gotAny
      /\ q.ackBase = r.ackBase /\ q.ackBitmap = r.ackBitmap
      /\ q.reorderBuffer = Erase(r.reorderBuffer, run)
  BY <1>3, <1>4, <1>5 DEF RxWindows, Buffers
<1>8. \A s \in Seqs : q.reorderBuffer[s] = IF s \in run THEN NoPayload
                                             ELSE r.reorderBuffer[s]
  BY <1>6 DEF Erase
<1>9. ASSUME NEW s \in Seqs, s \in run
      PROVE  \E i \in 1 .. Len(Deliverable(r)) :
               Deliverable(r)[i] = r.reorderBuffer[s]
  <2>1. PICK i \in 0 .. (k - 1) : s = SeqAdd(r.expectedSeq, i)
    BY <1>9 DEF run
  <2>2. /\ i + 1 \in 1 .. k /\ (i + 1) - 1 = i
    BY <1>2
  <2>3. Deliverable(r) = [j \in 1 .. k |-> r.reorderBuffer[SeqAdd(r.expectedSeq, j - 1)]]
    BY DEF Deliverable, k
  <2>4. Len(Deliverable(r)) = k
    <3> DEFINE out == Deliverable(r)
    <3>1. out = [j \in 1 .. k |-> r.reorderBuffer[SeqAdd(r.expectedSeq, j - 1)]]
      BY <2>3
    <3>2. k \in Nat
      BY <1>2
    <3> HIDE DEF out
    <3>3. Len(out) = k
      BY <3>1, <3>2
    <3> QED BY <3>3 DEF out
  <2>5. /\ i + 1 \in 1 .. Len(Deliverable(r))
        /\ Deliverable(r)[i + 1] = r.reorderBuffer[s]
    BY <2>1, <2>2, <2>3, <2>4
  <2> QED BY <2>5
<1>7. Deliverable(r) \in Seq(Payloads)
  <2>1. ASSUME NEW i \in 1 .. k
        PROVE  r.reorderBuffer[SeqAdd(r.expectedSeq, i - 1)] \in Payloads
    <3>1. i - 1 \in 0 .. (k - 1)
      BY <1>2
    <3>2. SeqAdd(r.expectedSeq, i - 1) \in Held(r.reorderBuffer)
      BY <1>2, <3>1 DEF S
    <3> QED BY <1>1, <3>2 DEF Held, Buffers
  <2>2. Deliverable(r) \in [1 .. k -> Payloads]
    BY <2>1 DEF Deliverable, k
  <2> QED BY <1>2, <2>2
<1> QED BY <1>6, <1>7, <1>8, <1>9 DEF q

\* Draining delivers the run at the cursor and leaves cursor and buffer in step.
LEMMA DrainedKeeps ==
  ASSUME NEW r \in RxWindows, NEW B \in SUBSET Offsets,
         Keeps(r.reorderBuffer, r.expectedSeq, B)
  PROVE  LET k == FirstGap(B, BitmapBits)
             q == Drained(r)
         IN  /\ RunLength(r) = k
             /\ q.expectedSeq = SeqAdd(r.expectedSeq, k)
             /\ Keeps(q.reorderBuffer, SeqAdd(r.expectedSeq, k), Lowered(B, k))
<1> DEFINE e == r.expectedSeq
           k == FirstGap(B, BitmapBits)
           S == {i \in 0 .. (Window - 1) : SeqAdd(e, i) \in Held(r.reorderBuffer)}
           run == {SeqAdd(e, i) : i \in 0 .. (k - 1)}
           q == Drained(r)
<1>1. /\ e \in Seqs /\ r.reorderBuffer \in Buffers
      /\ Window \in Nat /\ Window < HalfSpace /\ HalfSpace \in Nat \ {0}
      /\ Span \in Nat \ {0} /\ Span <= Window
  BY SpanFacts DEF RxWindows, Buffers
<1>2. ASSUME NEW i \in 0 .. (Window - 1)
      PROVE  SeqAdd(e, i) \in Seqs /\ SeqDiff(SeqAdd(e, i), e) = i
  <2>1. i \in Int /\ i \in (-HalfSpace) .. (HalfSpace - 1)
        /\ -SeqSpace <= i /\ i < SeqSpace
    BY <1>1 DEF SeqSpace
  <2> HIDE DEF e
  <2> QED BY <1>1, <2>1, SeqAddType, SeqDiffOfAdd
<1>3. \A s \in Seqs : s \in Held(r.reorderBuffer) <=> SeqDiff(s, e) \in B
  BY DEF Held, Keeps
<1>4. S = B
  <2>1. B \in SUBSET (0 .. (Window - 1))
    BY <1>1 DEF Offsets
  <2> HIDE DEF e
  <2> QED BY <1>2, <1>3, <2>1
<1>5. /\ k \in 0 .. Span /\ k \notin B /\ \A j \in 0 .. (k - 1) : j \in B
      /\ k = FirstGap(B, Window)
  BY <1>1, RunOfBits, SpanFacts
<1>6. RunLength(r) = k
  BY <1>4, <1>5 DEF RunLength
<1> HIDE DEF k, S
<1>7. q = [r EXCEPT !.expectedSeq = SeqAdd(e, k),
                    !.reorderBuffer = Erase(r.reorderBuffer, run)]
  BY <1>6 DEF Drained
<1>8. q.expectedSeq = SeqAdd(e, k) /\ q.reorderBuffer = Erase(r.reorderBuffer, run)
  <2> HIDE DEF q, e, run
  <2> QED BY <1>7 DEF RxWindows
<1>9. ASSUME NEW s \in Seqs
      PROVE  q.reorderBuffer[s] # NoPayload <=>
               SeqDiff(s, SeqAdd(e, k)) \in Lowered(B, k)
  <2>1. q.reorderBuffer[s] = IF s \in run THEN NoPayload ELSE r.reorderBuffer[s]
    BY <1>8 DEF Erase
  <2>2. r.reorderBuffer[s] # NoPayload <=> SeqDiff(s, e) \in B
    BY DEF Keeps
  <2>3. SeqDiff(s, SeqAdd(e, k)) \in Lowered(B, k) <=>
          SeqDiff(s, e) \in B /\ SeqDiff(s, e) >= k
    <3>1. k \in 0 .. (HalfSpace - 1)
      BY <1>1, <1>5
    <3> HIDE DEF e
    <3> QED BY <1>1, <3>1, LoweredOffsets
  <2>4. s \in run <=> SeqDiff(s, e) \in 0 .. (k - 1)
    <3>1. 0 .. (k - 1) \subseteq 0 .. (Window - 1)
      BY <1>1, <1>5
    <3>2. s = SeqAdd(e, SeqDiff(s, e))
      BY <1>1, SeqAddOfDiff
    <3> HIDE DEF e
    <3> QED BY <1>2, <3>1, <3>2
  <2>5. ASSUME SeqDiff(s, e) \in B
        PROVE  ~(SeqDiff(s, e) >= k) <=> SeqDiff(s, e) \in 0 .. (k - 1)
    <3>1. SeqDiff(s, e) \in 0 .. (Span - 1)
      BY <2>5 DEF Offsets
    <3> DEFINE d == SeqDiff(s, e)
    <3>2. d \in 0 .. (Span - 1)
      BY <3>1
    <3> HIDE DEF d
    <3>3. ~(d >= k) <=> d \in 0 .. (k - 1)
      BY <1>1, <1>5, <3>2
    <3> QED BY <3>3 DEF d
  <2> QED BY <2>1, <2>2, <2>3, <2>4, <2>5
<1>10. Keeps(q.reorderBuffer, SeqAdd(e, k), Lowered(B, k))
  BY <1>9 DEF Keeps
<1> QED BY <1>6, <1>8, <1>10 DEF k, q

\* Flushing a window that is in step and waits for its base changes nothing.
LEMMA DrainedInStep ==
  ASSUME NEW r \in RxWindows, InStep(r), 0 \notin r.ackBitmap
  PROVE  InStep(Drained(r))
<1> DEFINE B == r.ackBitmap
           q == Drained(r)
<1>1. B \in SUBSET Offsets /\ r.expectedSeq \in Seqs
  BY DEF RxWindows
<1>2. FirstGap(B, BitmapBits) = 0
  <2>1. B \in SUBSET (0 .. (BitmapBits - 1)) /\ BitmapBits \in Nat
    BY <1>1, SpanFacts DEF Offsets
  <2> QED BY <2>1, FirstGapUnique
<1>3. SeqAdd(r.expectedSeq, 0) = r.expectedSeq
  <2>1. HalfSpace \in Nat \ {0}
    BY SpanFacts
  <2> QED BY <1>1, <2>1, SeqAddCases DEF SeqSpace, Seqs
<1>4. Lowered(B, 0) = B
  <2>1. \A i \in B : i \in Nat
    BY <1>1, SpanFacts DEF Offsets
  <2> HIDE DEF B
  <2> QED BY <2>1 DEF Lowered
<1>5. Keeps(r.reorderBuffer, r.expectedSeq, B)
  BY DEF InStep
<1>6. /\ q.expectedSeq = SeqAdd(r.expectedSeq, 0)
      /\ Keeps(q.reorderBuffer, SeqAdd(r.expectedSeq, 0), Lowered(B, 0))
  BY <1>1, <1>2, <1>5, DrainedKeeps
<1>7. q.ackBase = r.ackBase /\ q.ackBitmap = r.ackBitmap
  BY DrainedType
<1> QED BY <1>3, <1>4, <1>6, <1>7 DEF InStep

\* Flushing after an accepted packet brings the cursor back to the base.
LEMMA DrainedAfterAccept ==
  ASSUME Ordered, NEW r \in RxWindows, NEW seq \in Seqs, NEW p \in Payloads,
         IsNew(r, seq), InStep(r)
  PROVE  InStep(Drained(Accept(r, seq, p)))
<1> DEFINE B == r.ackBitmap \cup {SeqDiff(seq, r.ackBase)}
           k == FirstGap(B, BitmapBits)
           a == Accept(r, seq, p)
           q == Drained(a)
<1>1. Keeps(r.reorderBuffer, r.ackBase, r.ackBitmap) /\ r.expectedSeq = r.ackBase
  BY DEF InStep
<1>3. /\ a \in RxWindows /\ B \in SUBSET Offsets
      /\ a.ackBase = SeqAdd(r.ackBase, k) /\ a.ackBitmap = Lowered(B, k)
      /\ a.expectedSeq = r.ackBase /\ Keeps(a.reorderBuffer, r.ackBase, B)
  <2> HIDE DEF B, k, a
  <2>1. /\ a \in RxWindows /\ B \in SUBSET Offsets
        /\ a.ackBase = SeqAdd(r.ackBase, k) /\ a.ackBitmap = Lowered(B, k)
        /\ a.expectedSeq = r.expectedSeq /\ Keeps(a.reorderBuffer, r.ackBase, B)
    BY <1>1, AcceptProperties DEF a, B, k
  <2> QED BY <1>1, <2>1
<1> HIDE DEF B, a
<1>4. /\ q.expectedSeq = SeqAdd(r.ackBase, k)
      /\ Keeps(q.reorderBuffer, SeqAdd(r.ackBase, k), Lowered(B, k))
  BY <1>3, DrainedKeeps
<1>5. q.ackBase = a.ackBase /\ q.ackBitmap = a.ackBitmap
  BY <1>3, DrainedType
<1>6. InStep(q)
  BY <1>3, <1>4, <1>5 DEF InStep
<1> QED BY <1>6 DEF a

\* The inductive invariant: in step between frames, with the base missing.
WindowInv ==
  /\ RxTypeOK
  /\ 0 \notin rx.ackBitmap
  /\ ~rx.gotAny => rx.ackBitmap = {}
  /\ Flushes => InStep(rx)

\* What a frame makes of the window, before the flush.
Taken(r, seq, p) ==
  IF IsNew(Opened(r, seq), seq) THEN Accept(Opened(r, seq), seq, p)
  ELSE Opened(r, seq)

\* A buffer that has changed at most by packets going and by p coming under seq.
OnlyAdds(buffer, old, seq, p) ==
  \A s \in Seqs : \/ buffer[s] \in {old[s], NoPayload}
                  \/ s = seq /\ buffer[s] = p

\* The receive window starts empty and in step.
LEMMA RxInitWindow == RxInit => WindowInv
<1> SUFFICES ASSUME RxInit PROVE WindowInv
  OBVIOUS
<1>1. 0 \in Seqs
  BY SpanFacts DEF Seqs, SeqSpace
<1>2. rx \in RxWindows
  BY <1>1 DEF RxInit, Configured, RxWindows
<1>3. RxTypeOK
  BY <1>2 DEF RxTypeOK, RxInit
<1>4. InStep(rx)
  BY DEF RxInit, Configured, InStep, Keeps
<1> QED BY <1>3, <1>4 DEF WindowInv, RxInit, Configured

\* Taking a frame in keeps the window typed and in step.
LEMMA TakenProperties ==
  ASSUME NEW r \in RxWindows, NEW seq \in Seqs, NEW p \in Payloads,
         0 \notin r.ackBitmap, ~r.gotAny => r.ackBitmap = {}
  PROVE  LET q == Taken(r, seq, p)
         IN  /\ q \in RxWindows /\ q.gotAny /\ 0 \notin q.ackBitmap
             /\ Ordered /\ InStep(r) =>
                  /\ InStep(Drained(q))
                  /\ \E B \in SUBSET Offsets :
                       Keeps(q.reorderBuffer, q.expectedSeq, B)
                  /\ OnlyAdds(q.reorderBuffer, r.reorderBuffer, seq, p)
                  /\ ~Beyond(r, seq) =>
                       \A s \in Seqs : r.reorderBuffer[s] # NoPayload =>
                         q.reorderBuffer[s] = r.reorderBuffer[s]
                  /\ IsNew(Opened(r, seq), seq) => q.reorderBuffer[seq] = p
<1> DEFINE o == Opened(r, seq)
           q == Taken(r, seq, p)
           Kept == \E B \in SUBSET Offsets : Keeps(q.reorderBuffer, q.expectedSeq, B)
           Values == OnlyAdds(q.reorderBuffer, r.reorderBuffer, seq, p)
           Holds == ~Beyond(r, seq) =>
                      \A s \in Seqs : r.reorderBuffer[s] # NoPayload =>
                        q.reorderBuffer[s] = r.reorderBuffer[s]
<1>1. /\ o \in RxWindows /\ o.gotAny
      /\ 0 \notin o.ackBitmap \/ IsNew(o, seq)
      /\ InStep(r) => InStep(o)
      /\ \A s \in Seqs : o.reorderBuffer[s] \in {r.reorderBuffer[s], NoPayload}
      /\ ~Beyond(r, seq) => o.reorderBuffer = r.reorderBuffer
  BY OpenedProperties
<1>2. q = IF IsNew(o, seq) THEN Accept(o, seq, p) ELSE o
  BY DEF Taken
<1> HIDE DEF o, q
<1>4. ASSUME IsNew(o, seq)
      PROVE  /\ q \in RxWindows /\ q.gotAny /\ 0 \notin q.ackBitmap
             /\ Ordered /\ InStep(r) =>
                  InStep(Drained(q)) /\ Kept /\ Values /\ Holds
                  /\ q.reorderBuffer[seq] = p
  <2>1. q = Accept(o, seq, p)
    BY <1>2, <1>4
  <2>2. q \in RxWindows /\ q.gotAny /\ 0 \notin q.ackBitmap
    BY <1>1, <1>4, <2>1, AcceptProperties
  <2>3. Ordered /\ InStep(r) => InStep(Drained(q))
    BY <1>1, <1>4, <2>1, DrainedAfterAccept
  <2>4. ASSUME Ordered, InStep(r)
        PROVE  Kept /\ Values /\ Holds /\ q.reorderBuffer[seq] = p
    <3> DEFINE B == o.ackBitmap \cup {SeqDiff(seq, o.ackBase)}
    <3>1. /\ Keeps(o.reorderBuffer, o.ackBase, o.ackBitmap)
          /\ o.expectedSeq = o.ackBase
      BY <1>1, <2>4 DEF InStep
    <3>2. /\ B \in SUBSET Offsets /\ q.expectedSeq = o.expectedSeq
          /\ Keeps(q.reorderBuffer, o.ackBase, B)
          /\ q.reorderBuffer = [o.reorderBuffer EXCEPT ![seq] = p]
      BY <1>1, <1>4, <2>1, <2>4, <3>1, AcceptProperties
    <3> HIDE DEF B
    <3>3. Kept
      BY <3>1, <3>2
    <3>4. \A s \in Seqs : q.reorderBuffer[s] = IF s = seq THEN p
                                                ELSE o.reorderBuffer[s]
      BY <1>1, <3>2 DEF RxWindows
    <3>5. Values
      BY <1>1, <3>4 DEF OnlyAdds
    <3>6. o.reorderBuffer[seq] = NoPayload
      BY <1>4, <3>1 DEF Keeps, IsNew
    <3>7. Holds
      BY <1>1, <3>4, <3>6
    <3> QED BY <3>3, <3>4, <3>5, <3>7
  <2> QED BY <2>2, <2>3, <2>4
<1>5. ASSUME ~IsNew(o, seq)
      PROVE  /\ q \in RxWindows /\ q.gotAny /\ 0 \notin q.ackBitmap
             /\ Ordered /\ InStep(r) =>
                  InStep(Drained(q)) /\ Kept /\ Values /\ Holds
  <2>1. q = o
    BY <1>2, <1>5
  <2>2. InStep(r) => InStep(Drained(q))
    BY <1>1, <1>5, <2>1, DrainedInStep
  <2>3. InStep(r) => Kept
    BY <1>1, <2>1 DEF InStep, RxWindows
  <2>4. Values /\ Holds
    BY <1>1, <2>1 DEF OnlyAdds
  <2> QED BY <1>1, <1>5, <2>1, <2>2, <2>3, <2>4
<1>6. /\ q \in RxWindows /\ q.gotAny /\ 0 \notin q.ackBitmap
      /\ Ordered /\ InStep(r) =>
           InStep(Drained(q)) /\ Kept /\ Values /\ Holds
           /\ (IsNew(o, seq) => q.reorderBuffer[seq] = p)
  BY <1>4, <1>5
<1> QED BY <1>6 DEF q, o

\* Receive in terms of Taken.
LEMMA ReceiveIsTaken ==
  ASSUME NEW seq, NEW p, Receive(seq, p)
  PROVE  LET done == Taken(rx, seq, p)
         IN  /\ rx' = IF Flushes THEN Drained(done) ELSE done
             /\ udpOut' = IF Flushes THEN Deliverable(done)
                          ELSE IF IsNew(Opened(rx, seq), seq) THEN <<p>> ELSE <<>>
             /\ feedback' = IF ackDue THEN Append(feedback, AckOf(done)) ELSE feedback
             /\ ackDue' = FALSE
BY DEF Receive, Taken

\* One frame keeps the window's invariant.
LEMMA ReceiveWindow ==
  ASSUME WindowInv, NEW seq \in Seqs, NEW p \in Payloads, Receive(seq, p)
  PROVE  WindowInv'
<1> DEFINE done == Taken(rx, seq, p)
<1>1. /\ rx \in RxWindows /\ 0 \notin rx.ackBitmap
      /\ ~rx.gotAny => rx.ackBitmap = {}
      /\ udpOut \in Seq(Payloads) /\ feedback \in Seq(Feedback)
      /\ ackDue \in BOOLEAN
      /\ Flushes => Ordered /\ InStep(rx)
  BY DEF WindowInv, RxTypeOK, Flushes
<1>2. /\ rx' = IF Flushes THEN Drained(done) ELSE done
      /\ udpOut' = IF Flushes THEN Deliverable(done)
                   ELSE IF IsNew(Opened(rx, seq), seq) THEN <<p>> ELSE <<>>
      /\ feedback' = IF ackDue THEN Append(feedback, AckOf(done)) ELSE feedback
      /\ ackDue' = FALSE
  BY ReceiveIsTaken
<1>3. /\ done \in RxWindows /\ done.gotAny /\ 0 \notin done.ackBitmap
      /\ Ordered /\ InStep(rx) => InStep(Drained(done))
  BY <1>1, TakenProperties
<1> HIDE DEF done
<1>4. /\ Drained(done) \in RxWindows /\ Drained(done).gotAny = done.gotAny
      /\ Drained(done).ackBitmap = done.ackBitmap
      /\ Deliverable(done) \in Seq(Payloads)
  BY <1>3, DrainedType
<1>5. rx' \in RxWindows /\ rx'.gotAny /\ 0 \notin rx'.ackBitmap
  BY <1>2, <1>3, <1>4
<1>6. RxTypeOK'
  <2>1. udpOut' \in Seq(Payloads)
    BY <1>2, <1>4
  <2>2. AckOf(done) \in Feedback
    BY <1>3 DEF AckOf, Feedback, RxWindows
  <2>3. feedback' \in Seq(Feedback)
    BY <1>1, <1>2, <2>2
  <2> QED BY <1>2, <1>5, <2>1, <2>3 DEF RxTypeOK
<1>7. Flushes => InStep(rx')
  BY <1>1, <1>2, <1>3
<1>8. Flushes' = Flushes /\ InStep(rx)' = InStep(rx')
  BY DEF Flushes, InStep, Keeps
<1> QED BY <1>5, <1>6, <1>7, <1>8 DEF WindowInv

\* What one frame does to the packets held: none goes but to UDP, unless the
\* window skips; and a new one is held or goes to UDP.
LEMMA ReceiveKeeps ==
  ASSUME WindowInv, Flushes, NEW seq \in Seqs, NEW p \in Payloads, Receive(seq, p)
  PROVE  /\ ~Beyond(rx, seq) =>
              \A s \in Seqs : rx.reorderBuffer[s] # NoPayload =>
                \/ rx'.reorderBuffer[s] = rx.reorderBuffer[s]
                \/ \E i \in 1 .. Len(udpOut') : udpOut'[i] = rx.reorderBuffer[s]
         /\ IsNew(Opened(rx, seq), seq) =>
              \/ rx'.reorderBuffer[seq] = p
              \/ \E i \in 1 .. Len(udpOut') : udpOut'[i] = p
<1> DEFINE done == Taken(rx, seq, p)
<1>1. /\ rx \in RxWindows /\ 0 \notin rx.ackBitmap
      /\ ~rx.gotAny => rx.ackBitmap = {}
      /\ Ordered /\ InStep(rx)
  BY DEF WindowInv, RxTypeOK, Flushes
<1>2. rx' = Drained(done) /\ udpOut' = Deliverable(done)
  BY ReceiveIsTaken
<1>3. /\ done \in RxWindows
      /\ ~Beyond(rx, seq) =>
           \A s \in Seqs : rx.reorderBuffer[s] # NoPayload =>
             done.reorderBuffer[s] = rx.reorderBuffer[s]
      /\ IsNew(Opened(rx, seq), seq) => done.reorderBuffer[seq] = p
  BY <1>1, TakenProperties
<1> HIDE DEF done
<1>4. \A s \in Seqs :
        \/ Drained(done).reorderBuffer[s] = done.reorderBuffer[s]
        \/ \E i \in 1 .. Len(Deliverable(done)) :
             Deliverable(done)[i] = done.reorderBuffer[s]
  BY <1>3, DrainedType
<1>5. \A s \in Seqs :
        \/ rx'.reorderBuffer[s] = done.reorderBuffer[s]
        \/ \E i \in 1 .. Len(udpOut') : udpOut'[i] = done.reorderBuffer[s]
  BY <1>2, <1>4
<1> QED BY <1>3, <1>5

-----------------------------------------------------------------------------
(***************************************************************************)
(* The receiver alone, with numbers as payloads.                            *)
(***************************************************************************)
OwnNumbers(buffer) == \A s \in Seqs : buffer[s] \in {s, NoPayload}

RxInv ==
  /\ WindowInv
  /\ Flushes => OwnNumbers(rx.reorderBuffer)
  /\ DeliveredRunEndsAtCursor

\* The receiver's invariant holds at the start.
LEMMA RxInitInv == RxInit => RxInv
<1> SUFFICES ASSUME RxInit PROVE RxInv
  OBVIOUS
<1>1. WindowInv
  BY RxInitWindow
<1>2. OwnNumbers(rx.reorderBuffer)
  BY DEF RxInit, Configured, OwnNumbers
<1>3. DeliveredRunEndsAtCursor
  BY DEF RxInit, DeliveredRunEndsAtCursor
<1> QED BY <1>1, <1>2, <1>3 DEF RxInv

\* The run handed out ends where the cursor comes to stand.
LEMMA DeliverableEndsAtCursor ==
  ASSUME Seqs \subseteq Payloads, NEW r \in RxWindows, NEW b \in Seqs,
         b = r.expectedSeq, NEW B \in SUBSET Offsets,
         Keeps(r.reorderBuffer, b, B), OwnNumbers(r.reorderBuffer)
  PROVE  LET out == Deliverable(r)
         IN  \A i \in 1 .. Len(out) :
               out[i] = SeqAdd(Drained(r).expectedSeq, i - 1 - Len(out))
<1> DEFINE k == FirstGap(B, BitmapBits)
           out == Deliverable(r)
<1>1. RunLength(r) = k /\ Drained(r).expectedSeq = SeqAdd(b, k)
  BY DrainedKeeps
<1>2. k \in 0 .. Span /\ \A j \in 0 .. (k - 1) : j \in B
  BY RunOfBits, SpanFacts
<1>3. Span \in Nat \ {0} /\ Span < HalfSpace /\ HalfSpace \in Nat \ {0}
  BY SpanFacts
<1> HIDE DEF k
<1>4. /\ out = [i \in 1 .. k |-> r.reorderBuffer[SeqAdd(b, i - 1)]]
      /\ Len(out) = k
  BY <1>1, <1>2 DEF Deliverable
<1> HIDE DEF out
<1>5. ASSUME NEW i \in 1 .. k
      PROVE  out[i] = SeqAdd(SeqAdd(b, k), i - 1 - k)
  <2>1. /\ i - 1 \in 0 .. (k - 1) /\ i - 1 \in B
        /\ i - 1 \in (-HalfSpace) .. (HalfSpace - 1)
        /\ -SeqSpace <= i - 1 /\ i - 1 < SeqSpace
    BY <1>2, <1>3 DEF SeqSpace
  <2>2. SeqAdd(b, i - 1) \in Seqs /\ SeqDiff(SeqAdd(b, i - 1), b) = i - 1
    BY <2>1, SeqAddType, SeqDiffOfAdd
  <2>3. out[i] = SeqAdd(b, i - 1)
    BY <1>4, <2>1, <2>2 DEF Keeps, OwnNumbers
  <2>4. SeqAdd(SeqAdd(b, k), i - 1 - k) = SeqAdd(b, k + (i - 1 - k))
    <3>1. /\ k \in Int /\ i - 1 - k \in Int
          /\ -SeqSpace <= k /\ k < SeqSpace
          /\ -SeqSpace <= i - 1 - k /\ i - 1 - k < SeqSpace
          /\ -SeqSpace <= k + (i - 1 - k) /\ k + (i - 1 - k) < SeqSpace
      BY <1>2, <1>3 DEF SeqSpace
    <3> QED BY <3>1, SeqAddAdd
  <2>5. k + (i - 1 - k) = i - 1
    BY <1>2
  <2> QED BY <2>3, <2>4, <2>5
<1> QED BY <1>1, <1>4, <1>5 DEF out

\* One frame keeps the invariant.
LEMMA ReceiveInv ==
  ASSUME Seqs \subseteq Payloads, RxInv, NEW seq \in Seqs, Receive(seq, seq)
  PROVE  RxInv'
<1> DEFINE done == Taken(rx, seq, seq)
<1>1. WindowInv /\ seq \in Payloads
  BY DEF RxInv
<1>2. WindowInv'
  BY <1>1, ReceiveWindow
<1>3. ASSUME Flushes
      PROVE  /\ OwnNumbers(rx'.reorderBuffer)
             /\ \A i \in 1 .. Len(udpOut') :
                  udpOut'[i] = SeqAdd(rx'.expectedSeq, i - 1 - Len(udpOut'))
  <2>1. /\ rx \in RxWindows /\ 0 \notin rx.ackBitmap
        /\ ~rx.gotAny => rx.ackBitmap = {}
        /\ Ordered /\ InStep(rx) /\ OwnNumbers(rx.reorderBuffer)
    BY <1>3 DEF RxInv, WindowInv, RxTypeOK, Flushes
  <2>2. rx' = Drained(done) /\ udpOut' = Deliverable(done)
    BY <1>3, ReceiveIsTaken
  <2>3. /\ done \in RxWindows
        /\ \E B \in SUBSET Offsets : Keeps(done.reorderBuffer, done.expectedSeq, B)
        /\ OnlyAdds(done.reorderBuffer, rx.reorderBuffer, seq, seq)
    BY <1>1, <2>1, TakenProperties
  <2> HIDE DEF done
  <2>4. OwnNumbers(done.reorderBuffer)
    BY <2>1, <2>3 DEF OnlyAdds, OwnNumbers
  <2>5. \A s \in Seqs : Drained(done).reorderBuffer[s] \in
                         {done.reorderBuffer[s], NoPayload}
    BY <2>3, DrainedType
  <2>6. OwnNumbers(Drained(done).reorderBuffer)
    BY <2>4, <2>5 DEF OwnNumbers
  <2>7. PICK B \in SUBSET Offsets :
          Keeps(done.reorderBuffer, done.expectedSeq, B)
    BY <2>3
  <2>8. done.expectedSeq \in Seqs
    BY <2>3 DEF RxWindows
  <2>9. \A i \in 1 .. Len(Deliverable(done)) :
          Deliverable(done)[i] =
            SeqAdd(Drained(done).expectedSeq, i - 1 - Len(Deliverable(done)))
    BY <2>3, <2>4, <2>7, <2>8, DeliverableEndsAtCursor
  <2> QED BY <2>2, <2>6, <2>9
<1>4. Flushes' = Flushes
  BY DEF Flushes
<1>5. DeliveredRunEndsAtCursor'
  BY <1>3, <1>4 DEF DeliveredRunEndsAtCursor
<1> QED BY <1>2, <1>3, <1>4, <1>5 DEF RxInv, OwnNumbers

\* The steps that leave the window alone keep its invariant.
LEMMA WindowUnchanged ==
  ASSUME WindowInv, UNCHANGED rx,
         ackDue' \in BOOLEAN, udpOut' \in Seq(Payloads), feedback' \in Seq(Feedback)
  PROVE  WindowInv'
BY DEF WindowInv, RxTypeOK, InStep, Keeps, Flushes

\* The feedback steps leave the window alone.
LEMMA AckIntervalWindow ==
  WindowInv /\ (AckInterval \/ TakeFeedback \/ UNCHANGED rxVars) => WindowInv'
<1> SUFFICES ASSUME WindowInv, AckInterval \/ TakeFeedback \/ UNCHANGED rxVars
             PROVE  WindowInv'
  OBVIOUS
<1>1. ackDue \in BOOLEAN /\ udpOut \in Seq(Payloads) /\ feedback \in Seq(Feedback)
  BY DEF WindowInv, RxTypeOK
<1>2. UNCHANGED rx /\ ackDue' \in BOOLEAN /\ udpOut' \in Seq(Payloads)
  BY <1>1 DEF AckInterval, TakeFeedback, rxVars
<1>3. feedback' \in Seq(Feedback)
  <2>1. CASE TakeFeedback
    BY <1>1, <2>1 DEF TakeFeedback
  <2>2. CASE UNCHANGED feedback
    BY <1>1, <2>2
  <2> QED BY <2>1, <2>2 DEF AckInterval, rxVars
<1> QED BY <1>2, <1>3, WindowUnchanged

\* Every step of the receiver keeps its invariant.
LEMMA RxStepInv ==
  Seqs \subseteq Payloads /\ RxInv /\ [RxNext]_rxVars => RxInv'
<1> SUFFICES ASSUME Seqs \subseteq Payloads, RxInv, [RxNext]_rxVars
             PROVE  RxInv'
  OBVIOUS
<1>1. CASE \E seq \in Seqs : Receive(seq, seq)
  BY <1>1, ReceiveInv
<1>2. CASE AckInterval \/ TakeFeedback \/ UNCHANGED rxVars
  <2>1. WindowInv'
    BY <1>2, AckIntervalWindow DEF RxInv
  <2>2. UNCHANGED <<rx, udpOut>>
    BY <1>2 DEF AckInterval, TakeFeedback, rxVars
  <2> QED BY <2>1, <2>2 DEF RxInv, OwnNumbers, Flushes, DeliveredRunEndsAtCursor
<1> QED BY <1>1, <1>2 DEF RxNext

\* In step is what the ACKs say.
LEMMA WindowIsBuffered == WindowInv => SelectivelyAckedAreBuffered
<1> SUFFICES ASSUME WindowInv, Flushes
             PROVE  /\ rx.expectedSeq = rx.ackBase
                    /\ Held(rx.reorderBuffer) =
                         {SeqAdd(rx.ackBase, i) : i \in rx.ackBitmap}
  BY DEF SelectivelyAckedAreBuffered
<1>1. /\ rx.reorderBuffer \in Buffers /\ rx.ackBase \in Seqs
      /\ rx.ackBitmap \in SUBSET Offsets /\ InStep(rx)
  BY DEF WindowInv, RxTypeOK, RxWindows, Buffers
<1> QED BY <1>1, KeepsIsHeld DEF InStep

\* What the runs check follows from the invariant.
LEMMA RxInvImplies ==
  RxInv => /\ RxTypeOK /\ SelectivelyAckedAreBuffered /\ HeldUnderOwnNumber
           /\ DeliveredRunEndsAtCursor
<1> SUFFICES ASSUME RxInv
             PROVE  SelectivelyAckedAreBuffered /\ HeldUnderOwnNumber
  BY DEF RxInv, WindowInv
<1>1. SelectivelyAckedAreBuffered
  BY WindowIsBuffered DEF RxInv
<1>2. HeldUnderOwnNumber
  BY DEF RxInv, OwnNumbers, HeldUnderOwnNumber, Held
<1> QED BY <1>1, <1>2

-----------------------------------------------------------------------------
(***************************************************************************)
(* The fields of the receive window keep their ranges under any arrival of  *)
(* frames (process_received, get_deliverable): no bit is set beyond the     *)
(* window, however the window is made to skip, and every payload handed to  *)
(* UDP is one that was received.                                            *)
(***************************************************************************)
THEOREM ReceiverTypeCorrect ==
  ASSUME Seqs \subseteq Payloads
  PROVE  RxSpec => []RxTypeOK
<1>1. RxInit => RxInv
  BY RxInitInv
<1>2. RxInv /\ [RxNext]_rxVars => RxInv'
  BY RxStepInv
<1>3. RxInv => RxTypeOK
  BY RxInvImplies
<1> QED BY <1>1, <1>2, <1>3, PTL DEF RxSpec

(***************************************************************************)
(* At the UE with ordered delivery, after every frame the cursor is at the  *)
(* cumulative ACK and the reorder buffer holds exactly what the bitmap      *)
(* acknowledges, each packet under its number, for every window, bitmap and *)
(* sequence width.                                                          *)
(***************************************************************************)
THEOREM ReceiverKeepsWhatItAcks ==
  ASSUME Seqs \subseteq Payloads
  PROVE  RxSpec => [](SelectivelyAckedAreBuffered /\ HeldUnderOwnNumber)
<1>1. RxInit => RxInv
  BY RxInitInv
<1>2. RxInv /\ [RxNext]_rxVars => RxInv'
  BY RxStepInv
<1>3. RxInv => SelectivelyAckedAreBuffered /\ HeldUnderOwnNumber
  BY RxInvImplies
<1> QED BY <1>1, <1>2, <1>3, PTL DEF RxSpec

(***************************************************************************)
(* What one frame makes the UE send to UDP is the run of consecutive        *)
(* packets that ends at the cursor.                                         *)
(***************************************************************************)
THEOREM ReceiverDeliversRuns ==
  ASSUME Seqs \subseteq Payloads
  PROVE  RxSpec => []DeliveredRunEndsAtCursor
<1>1. RxInit => RxInv
  BY RxInitInv
<1>2. RxInv /\ [RxNext]_rxVars => RxInv'
  BY RxStepInv
<1>3. RxInv => DeliveredRunEndsAtCursor
  BY RxInvImplies
<1> QED BY <1>1, <1>2, <1>3, PTL DEF RxSpec

-----------------------------------------------------------------------------
(* The link, end to end.                                                   *)

Labels == {"top", "collect", "retransmit", "repush", "mark", "ertm", "new",
           "push", "track"}
Data(f) == f.packet # NoPacket

LinkTypeOK ==
  /\ RxTypeOK
  /\ entries \in [Seqs -> TxEntries \cup {NoEntry}]
  /\ enc \in [at : Labels, retx : SUBSET Seqs, frame : Frames]
  /\ nextPos \in Nat /\ nextPacket \in 0 .. MaxPackets /\ ertm \in 0 .. MaxErtm
  /\ FirstPos <= nextPos /\ nextPos <= FirstPos + nextPacket + ertm
  /\ air \in Seq(Frames)
  /\ delivered \in Seq(Payloads)
  /\ accepted \in SUBSET {f \in Frames : Data(f)}

\* Entries are kept under their own numbers, and only data is retransmitted,
\* by entries that have a retry left.
EntriesOK ==
  /\ \A s \in Seqs : entries[s] # NoEntry =>
       SeqOf(entries[s].packet) = s /\ Data(entries[s].packet)
  /\ enc.at \in {"push", "track", "repush"} => Data(enc.frame)
  /\ enc.at \in {"repush", "mark"} => SeqOf(enc.frame) \in enc.retx
  /\ enc.at \in {"retransmit", "repush", "mark"} =>
       \A s \in enc.retx : \/ entries[s] = NoEntry
                           \/ MaxRetries = 0 \/ entries[s].retries < MaxRetries

\* The types, and the window in step: inductive for every value of the constants.
TypeInv == WindowInv /\ LinkTypeOK /\ EntriesOK

\* A frame has a number that its header can carry, and data is a payload.
LEMMA FrameFacts ==
  /\ FirstPos \in Nat /\ MaxPackets \in Nat /\ MaxErtm \in Nat
  /\ \A f \in Frames : /\ f.pos \in Nat /\ FirstPos <= f.pos
                       /\ f.packet \in 0 .. MaxPackets
                       /\ SeqOf(f) \in Seqs
                       /\ Data(f) => f.packet \in Payloads /\ f.packet < MaxPackets
<1>1. /\ FirstPos \in Nat /\ MaxPackets \in Nat /\ MaxErtm \in Nat
      /\ 0 .. (MaxPackets - 1) \subseteq Payloads
  BY LinkAssumption
<1>2. ASSUME NEW f \in Frames
      PROVE  /\ f.pos \in Nat /\ FirstPos <= f.pos
             /\ f.packet \in 0 .. MaxPackets
             /\ SeqOf(f) \in Seqs
             /\ Data(f) => f.packet \in Payloads /\ f.packet < MaxPackets
  <2>1. f.pos \in Nat /\ FirstPos <= f.pos /\ f.packet \in 0 .. MaxPackets
    BY <1>1 DEF Frames, NoPacket
  <2>2. SeqOf(f) \in Seqs
    BY <2>1, Division DEF SeqOf
  <2>3. Data(f) => f.packet \in Payloads /\ f.packet < MaxPackets
    BY <1>1, <2>1 DEF Data, NoPacket
  <2> QED BY <2>1, <2>2, <2>3
<1> QED BY <1>1, <1>2

\* The program starts well typed.
LEMMA TypeInit == Init => TypeInv
<1> SUFFICES ASSUME Init PROVE TypeInv
  OBVIOUS
<1>1. WindowInv
  BY RxInitWindow DEF Init
<1>2. RxTypeOK
  BY <1>1 DEF WindowInv
<1>3. [pos |-> FirstPos, packet |-> NoPacket] \in Frames
  BY FrameFacts DEF Frames, NoPacket
<1>4. enc \in [at : Labels, retx : SUBSET Seqs, frame : Frames]
  BY <1>3 DEF Init, Labels
<1>5. /\ nextPos = FirstPos /\ nextPacket = 0 /\ ertm = 0
      /\ FirstPos \in Nat /\ MaxPackets \in Nat /\ MaxErtm \in Nat
  BY FrameFacts DEF Init
<1>6. /\ nextPos \in Nat /\ nextPacket \in 0 .. MaxPackets /\ ertm \in 0 .. MaxErtm
      /\ FirstPos <= nextPos /\ nextPos <= FirstPos + nextPacket + ertm
  BY <1>5
<1>7. EntriesOK
  BY DEF Init, EntriesOK
<1> QED BY <1>1, <1>2, <1>4, <1>6, <1>7 DEF Init, TypeInv, LinkTypeOK

-----------------------------------------------------------------------------
(***************************************************************************)
(* The operations of the transmit window.                                   *)
(***************************************************************************)
TxMaps == [Seqs -> TxEntries \cup {NoEntry}]

\* v holds no entry that w does not, with the same packet and retries.
FewerEntries(v, w) ==
  \A t \in Seqs : v[t] # NoEntry =>
    /\ w[t] # NoEntry
    /\ v[t].packet = w[t].packet /\ v[t].retries = w[t].retries

\* Releasing entries leaves the others as they were.
LEMMA WithoutProperties ==
  ASSUME NEW w \in TxMaps, NEW S
  PROVE  Without(w, S) \in TxMaps /\ FewerEntries(Without(w, S), w)
BY DEF Without, TxMaps, FewerEntries

\* A timeout changes no packet and no count of retries.
LEMMA DueProperties ==
  ASSUME NEW w \in TxMaps, NEW s \in Seqs, w[s] # NoEntry
  PROVE  LET v == [w EXCEPT ![s].due = TRUE]
         IN  v \in TxMaps /\ FewerEntries(v, w) /\ FewerEntries(w, v)
<1> DEFINE v == [w EXCEPT ![s].due = TRUE]
           e == [w[s] EXCEPT !.due = TRUE]
<1>1. w[s] \in TxEntries
  BY DEF TxMaps
<1>2. e \in TxEntries /\ e.packet = w[s].packet /\ e.retries = w[s].retries
  BY <1>1 DEF TxEntries
<1>5. e # NoEntry
  <2> HIDE DEF e
  <2> QED BY <1>2, EntryAssumption
<1>3. v = [w EXCEPT ![s] = e]
  BY DEF TxMaps
<1> HIDE DEF v, e
<1>4. v \in TxMaps /\ \A t \in Seqs : v[t] = IF t = s THEN e ELSE w[t]
  BY <1>2, <1>3 DEF TxMaps
<1> QED BY <1>2, <1>4, <1>5 DEF FewerEntries, v

\* mark_transmitted spends a retry of one entry.
LEMMA MarkProperties ==
  ASSUME NEW w \in TxMaps, NEW s \in Seqs,
         w[s] = NoEntry \/ MaxRetries = 0 \/ w[s].retries < MaxRetries
  PROVE  LET v == MarkTransmitted(w, s)
         IN  /\ v \in TxMaps
             /\ \A t \in Seqs : t # s => v[t] = w[t]
             /\ v[s] # NoEntry <=> w[s] # NoEntry
             /\ v[s] # NoEntry => v[s].packet = w[s].packet
<1> DEFINE v == MarkTransmitted(w, s)
           e == [w[s] EXCEPT !.due = FALSE,
                             !.retries = IF MaxRetries = 0 THEN 0 ELSE @ + 1]
<1>1. CASE w[s] = NoEntry
  BY <1>1 DEF MarkTransmitted
<1>2. CASE w[s] # NoEntry
  <2>1. w[s] \in TxEntries /\ MaxRetries \in Nat
    BY <1>2, TxWindowAssumption DEF TxMaps
  <2>2. e \in TxEntries /\ e.packet = w[s].packet
    <3>1. (IF MaxRetries = 0 THEN 0 ELSE w[s].retries + 1) \in 0 .. MaxRetries
      BY <1>2, <2>1 DEF TxEntries
    <3> QED BY <2>1, <3>1 DEF TxEntries
  <2>3. v = [w EXCEPT ![s] = e]
    BY <1>2 DEF MarkTransmitted, TxMaps
  <2> HIDE DEF v, e
  <2>4. v \in TxMaps /\ \A t \in Seqs : v[t] = IF t = s THEN e ELSE w[t]
    BY <2>2, <2>3 DEF TxMaps
  <2>5. e # NoEntry
    BY <2>2, EntryAssumption
  <2> QED BY <1>2, <2>2, <2>4, <2>5 DEF v
<1> QED BY <1>1, <1>2

\* try_insert_encoded adds at most the entry of its packet.
LEMMA TryInsertProperties ==
  ASSUME NEW w \in TxMaps, NEW s \in Seqs, NEW f \in Frames
  PROVE  LET v == TryInsert(w, s, f)
         IN  /\ v \in TxMaps
             /\ \A t \in Seqs : t # s => v[t] = w[t]
             /\ IF HasRoom(w) /\ w[s] = NoEntry
                THEN v[s] # NoEntry /\ v[s].packet = f
                ELSE v[s] = w[s]
<1> DEFINE v == TryInsert(w, s, f)
           e == [packet |-> f, retries |-> 0, due |-> FALSE]
<1>1. e \in TxEntries /\ e # NoEntry /\ e.packet = f
  <2>1. 0 \in 0 .. MaxRetries /\ f \in Packets
    BY TxWindowAssumption, EntryAssumption
  <2>2. e \in TxEntries
    BY <2>1 DEF TxEntries
  <2> HIDE DEF e
  <2>3. e # NoEntry
    BY <2>2, EntryAssumption
  <2> QED BY <2>2, <2>3 DEF e
<1> HIDE DEF e
<1>2. v = IF HasRoom(w) /\ w[s] = NoEntry THEN [w EXCEPT ![s] = e] ELSE w
  BY DEF TryInsert, e
<1> HIDE DEF v
<1>3. v \in TxMaps /\ (\A t \in Seqs : t # s => v[t] = w[t])
  BY <1>1, <1>2 DEF TxMaps
<1>4. v[s] = IF HasRoom(w) /\ w[s] = NoEntry THEN e ELSE w[s]
  BY <1>2 DEF TxMaps
<1> QED BY <1>1, <1>3, <1>4 DEF v

-----------------------------------------------------------------------------
(***************************************************************************)
(* Every step keeps TypeInv.                                                *)
(***************************************************************************)
LEMMA EncodeType ==
  ASSUME TypeInv, Encode
  PROVE  TypeInv'
<1>1. /\ WindowInv /\ RxTypeOK
      /\ entries \in TxMaps
      /\ enc \in [at : Labels, retx : SUBSET Seqs, frame : Frames]
      /\ nextPos \in Nat /\ nextPacket \in 0 .. MaxPackets /\ ertm \in 0 .. MaxErtm
      /\ FirstPos <= nextPos /\ nextPos <= FirstPos + nextPacket + ertm
      /\ air \in Seq(Frames)
      /\ delivered \in Seq(Payloads)
      /\ accepted \in SUBSET {f \in Frames : Data(f)}
      /\ EntriesOK
  BY DEF TypeInv, LinkTypeOK, TxMaps
<1>2. UNCHANGED <<rxVars, delivered, accepted>>
  BY DEF Encode, EncAbandon, EncCollect, EncCopy, EncRepush, EncMark,
         EncRetransmitEnd, EncErtm, EncNoErtm, EncIdle, EncDrop, EncNumber,
         EncTrack, EncPush, HistoryUnchanged
<1>3. WindowInv' /\ RxTypeOK'
  BY <1>1, <1>2, AckIntervalWindow DEF WindowInv
<1>4. SUFFICES
        /\ entries' \in TxMaps
        /\ enc' \in [at : Labels, retx : SUBSET Seqs, frame : Frames]
        /\ nextPos' \in Nat /\ nextPacket' \in 0 .. MaxPackets /\ ertm' \in 0 .. MaxErtm
        /\ FirstPos <= nextPos' /\ nextPos' <= FirstPos + nextPacket' + ertm'
        /\ air' \in Seq(Frames)
        /\ EntriesOK'
  BY <1>1, <1>2, <1>3 DEF TypeInv, LinkTypeOK, TxMaps
<1>5. CASE EncAbandon
  <2>1. entries' \in TxMaps /\ FewerEntries(entries', entries)
    BY <1>1, <1>5, WithoutProperties DEF EncAbandon, DropAbandoned
  <2>2. /\ enc' = [enc EXCEPT !.at = "collect"]
        /\ UNCHANGED <<nextPos, nextPacket, ertm, air>>
    BY <1>5 DEF EncAbandon, Goto
  <2>3. enc' \in [at : Labels, retx : SUBSET Seqs, frame : Frames] /\ enc'.at = "collect"
    BY <1>1, <2>2 DEF Labels
  <2>4. EntriesOK'
    BY <1>1, <2>1, <2>3 DEF EntriesOK, FewerEntries
  <2> QED BY <1>1, <2>1, <2>2, <2>3, <2>4
<1>6. CASE EncCollect
  <2>1. PICK R \in SUBSET Retransmittable(entries) :
          enc' = [enc EXCEPT !.at = "retransmit", !.retx = R]
    BY <1>6 DEF EncCollect
  <2>2. UNCHANGED <<entries, nextPos, nextPacket, ertm, air>>
    BY <1>6 DEF EncCollect
  <2>3. /\ enc' \in [at : Labels, retx : SUBSET Seqs, frame : Frames]
        /\ enc'.at = "retransmit" /\ enc'.retx = R
    BY <1>1, <2>1 DEF Labels, Retransmittable, Outstanding
  <2>4. \A s \in R : MaxRetries = 0 \/ entries[s].retries < MaxRetries
    BY DEF Retransmittable
  <2>5. EntriesOK'
    BY <1>1, <2>2, <2>3, <2>4 DEF EntriesOK
  <2> QED BY <1>1, <2>2, <2>3, <2>5
<1>7. CASE EncCopy
  <2>1. PICK s \in enc.retx :
          enc' = IF entries[s] = NoEntry THEN [enc EXCEPT !.retx = @ \ {s}]
                 ELSE [enc EXCEPT !.at = "repush", !.frame = entries[s].packet]
    BY <1>7 DEF EncCopy
  <2>2. enc.at = "retransmit" /\ UNCHANGED <<entries, nextPos, nextPacket, ertm, air>>
    BY <1>7 DEF EncCopy
  <2>3. s \in Seqs
    BY <1>1
  <2>4. CASE entries[s] = NoEntry
    <3>1. /\ enc' \in [at : Labels, retx : SUBSET Seqs, frame : Frames]
          /\ enc'.at = "retransmit" /\ enc'.retx \subseteq enc.retx
      BY <1>1, <2>1, <2>2, <2>4
    <3>2. EntriesOK'
      BY <1>1, <2>2, <3>1 DEF EntriesOK
    <3> QED BY <1>1, <2>2, <3>1, <3>2
  <2>5. CASE entries[s] # NoEntry
    <3>1. entries[s].packet \in Frames
      BY <1>1, <2>3, <2>5, EntryAssumption DEF TxMaps, TxEntries
    <3>2. /\ enc' \in [at : Labels, retx : SUBSET Seqs, frame : Frames]
          /\ enc'.at = "repush" /\ enc'.retx = enc.retx
          /\ enc'.frame = entries[s].packet
      BY <1>1, <2>1, <2>5, <3>1 DEF Labels
    <3>3. SeqOf(entries[s].packet) = s /\ Data(entries[s].packet)
      BY <1>1, <2>3, <2>5 DEF EntriesOK
    <3>4. EntriesOK'
      BY <1>1, <2>2, <3>2, <3>3 DEF EntriesOK
    <3> QED BY <1>1, <2>2, <3>2, <3>4
  <2> QED BY <2>4, <2>5
<1>8. CASE EncRepush
  <2>1. /\ enc' = [enc EXCEPT !.at = "mark"] /\ air' = Append(air, enc.frame)
        /\ enc.at = "repush" /\ UNCHANGED <<entries, nextPos, nextPacket, ertm>>
    BY <1>8 DEF EncRepush, Goto, Push
  <2>2. /\ enc' \in [at : Labels, retx : SUBSET Seqs, frame : Frames]
        /\ enc'.at = "mark" /\ enc'.retx = enc.retx /\ enc'.frame = enc.frame
    BY <1>1, <2>1 DEF Labels
  <2>3. EntriesOK'
    BY <1>1, <2>1, <2>2 DEF EntriesOK
  <2>4. air' \in Seq(Frames)
    BY <1>1, <2>1
  <2> QED BY <1>1, <2>1, <2>2, <2>3, <2>4
<1>9. CASE EncMark
  <2> DEFINE s == SeqOf(enc.frame)
  <2>1. /\ entries' = MarkTransmitted(entries, s)
        /\ enc' = [enc EXCEPT !.at = "retransmit", !.retx = @ \ {s}]
        /\ enc.at = "mark" /\ UNCHANGED <<nextPos, nextPacket, ertm, air>>
    BY <1>9 DEF EncMark
  <2>2. /\ s \in enc.retx /\ s \in Seqs
        /\ entries[s] = NoEntry \/ MaxRetries = 0 \/ entries[s].retries < MaxRetries
    BY <1>1, <2>1 DEF EntriesOK
  <2> HIDE DEF s
  <2>3. /\ entries' \in TxMaps
        /\ \A t \in Seqs : t # s => entries'[t] = entries[t]
        /\ entries'[s] # NoEntry => /\ entries[s] # NoEntry
                                    /\ entries'[s].packet = entries[s].packet
    BY <1>1, <2>1, <2>2, MarkProperties
  <2>4. /\ enc' \in [at : Labels, retx : SUBSET Seqs, frame : Frames]
        /\ enc'.at = "retransmit" /\ enc'.retx = enc.retx \ {s}
    BY <1>1, <2>1 DEF Labels
  <2>5. EntriesOK'
    BY <1>1, <2>1, <2>2, <2>3, <2>4 DEF EntriesOK
  <2> QED BY <1>1, <2>1, <2>3, <2>4, <2>5
<1>10. CASE EncRetransmitEnd \/ EncNoErtm \/ EncIdle
  <2>1. /\ UNCHANGED <<entries, nextPos, nextPacket, ertm, air>>
        /\ enc' \in [at : Labels, retx : SUBSET Seqs, frame : Frames]
        /\ enc'.at \in {"ertm", "new", "top"}
    BY <1>1, <1>10 DEF EncRetransmitEnd, EncNoErtm, EncIdle, Goto, Labels
  <2>2. EntriesOK'
    BY <1>1, <2>1 DEF EntriesOK
  <2> QED BY <1>1, <2>1, <2>2
<1>11. CASE EncErtm
  <2> DEFINE f == [pos |-> nextPos, packet |-> NoPacket]
  <2>1. /\ enc' = [enc EXCEPT !.at = "new"] /\ air' = Append(air, f)
        /\ nextPos' = nextPos + 1 /\ ertm' = ertm + 1 /\ ertm < MaxErtm
        /\ UNCHANGED <<entries, nextPacket>>
    BY <1>11 DEF EncErtm, Goto, Push
  <2>2. f \in Frames
    BY <1>1, <2>1, FrameFacts DEF Frames, NoPacket
  <2>3. /\ enc' \in [at : Labels, retx : SUBSET Seqs, frame : Frames]
        /\ enc'.at = "new"
    BY <1>1, <2>1 DEF Labels
  <2>4. EntriesOK'
    BY <1>1, <2>1, <2>3 DEF EntriesOK
  <2> HIDE DEF f
  <2>5. air' \in Seq(Frames)
    BY <1>1, <2>1, <2>2
  <2>6. /\ nextPos' \in Nat /\ ertm' \in 0 .. MaxErtm
        /\ FirstPos <= nextPos' /\ nextPos' <= FirstPos + nextPacket' + ertm'
    BY <1>1, <2>1, FrameFacts
  <2> QED BY <1>1, <2>1, <2>3, <2>4, <2>5, <2>6
<1>12. CASE EncDrop
  <2>1. /\ enc' = [enc EXCEPT !.at = "top"] /\ nextPacket < MaxPackets
        /\ nextPacket' = nextPacket + 1 /\ UNCHANGED <<entries, nextPos, ertm, air>>
    BY <1>12 DEF EncDrop, Goto
  <2>2. /\ enc' \in [at : Labels, retx : SUBSET Seqs, frame : Frames]
        /\ enc'.at = "top"
    BY <1>1, <2>1 DEF Labels
  <2>3. EntriesOK'
    BY <1>1, <2>1, <2>2 DEF EntriesOK
  <2>4. nextPacket' \in 0 .. MaxPackets /\ nextPos' <= FirstPos + nextPacket' + ertm'
    BY <1>1, <2>1, FrameFacts
  <2> QED BY <1>1, <2>1, <2>2, <2>3, <2>4
<1>13. CASE EncNumber
  <2> DEFINE f == [pos |-> nextPos, packet |-> nextPacket]
  <2>1. /\ enc' = [enc EXCEPT !.at = IF Downlink THEN "push" ELSE "track", !.frame = f]
        /\ nextPacket < MaxPackets /\ nextPacket' = nextPacket + 1
        /\ nextPos' = nextPos + 1 /\ UNCHANGED <<entries, ertm, air>>
    BY <1>13 DEF EncNumber
  <2>2. f \in Frames /\ Data(f)
    BY <1>1, <2>1, FrameFacts DEF Frames, NoPacket, Data
  <2> HIDE DEF f
  <2>3. /\ enc' \in [at : Labels, retx : SUBSET Seqs, frame : Frames]
        /\ enc'.at \in {"push", "track"} /\ enc'.frame = f
    BY <1>1, <2>1, <2>2 DEF Labels
  <2>4. EntriesOK'
    BY <1>1, <2>1, <2>2, <2>3 DEF EntriesOK
  <2>5. /\ nextPacket' \in 0 .. MaxPackets /\ nextPos' \in Nat
        /\ FirstPos <= nextPos' /\ nextPos' <= FirstPos + nextPacket' + ertm'
    BY <1>1, <2>1, FrameFacts
  <2> QED BY <1>1, <2>1, <2>3, <2>4, <2>5
<1>14. CASE EncTrack
  <2> DEFINE f == enc.frame
             s == SeqOf(f)
  <2>1. /\ entries' = TryInsert(entries, s, f) /\ enc.at = "track"
        /\ enc' = [enc EXCEPT !.at = IF Downlink THEN "top" ELSE "push"]
        /\ UNCHANGED <<nextPos, nextPacket, ertm, air>>
    BY <1>14 DEF EncTrack, Goto
  <2>2. f \in Frames /\ s \in Seqs /\ Data(f)
    BY <1>1, <2>1, FrameFacts DEF EntriesOK
  <2>3. /\ enc' \in [at : Labels, retx : SUBSET Seqs, frame : Frames]
        /\ enc'.at \in {"push", "top"} /\ enc'.frame = f
    BY <1>1, <2>1 DEF Labels
  <2>4. SeqOf(f) = s
    OBVIOUS
  <2> HIDE DEF s, f
  <2>5. /\ entries' \in TxMaps
        /\ \A t \in Seqs : t # s => entries'[t] = entries[t]
        /\ entries'[s] = entries[s] \/ entries'[s].packet = f
    BY <1>1, <2>1, <2>2, TryInsertProperties
  <2>6. EntriesOK'
    BY <1>1, <2>2, <2>3, <2>4, <2>5 DEF EntriesOK
  <2> QED BY <1>1, <2>1, <2>3, <2>5, <2>6
<1>15. CASE EncPush
  <2>1. /\ enc' = [enc EXCEPT !.at = IF Downlink THEN "track" ELSE "top"]
        /\ air' = Append(air, enc.frame) /\ enc.at = "push"
        /\ UNCHANGED <<entries, nextPos, nextPacket, ertm>>
    BY <1>15 DEF EncPush, Goto, Push
  <2>2. /\ enc' \in [at : Labels, retx : SUBSET Seqs, frame : Frames]
        /\ enc'.at \in {"track", "top"} /\ enc'.frame = enc.frame
    BY <1>1, <2>1 DEF Labels
  <2>3. EntriesOK'
    BY <1>1, <2>1, <2>2 DEF EntriesOK
  <2>4. air' \in Seq(Frames)
    BY <1>1, <2>1
  <2> QED BY <1>1, <2>1, <2>2, <2>3, <2>4
<1> QED BY <1>5, <1>6, <1>7, <1>8, <1>9, <1>10, <1>11, <1>12, <1>13, <1>14,
           <1>15 DEF Encode

\* A frame that arrives: data goes through the window, a report leaves it alone.
LEMMA ArrivalType ==
  ASSUME TypeInv, FrameArrives
  PROVE  TypeInv'
<1> DEFINE f == Head(air)
<1>1. /\ WindowInv /\ air \in Seq(Frames) /\ delivered \in Seq(Payloads)
      /\ accepted \in SUBSET {g \in Frames : Data(g)}
  BY DEF TypeInv, LinkTypeOK
<1>2. f \in Frames /\ air' \in Seq(Frames) /\ UNCHANGED txVars
  BY <1>1 DEF FrameArrives
<1>3. CASE ~Data(f)
  <2>1. UNCHANGED <<rxVars, delivered, accepted>>
    BY <1>3 DEF FrameArrives, Data
  <2>2. WindowInv'
    BY <1>1, <2>1, AckIntervalWindow
  <2> QED BY <1>2, <2>1, <2>2 DEF TypeInv, LinkTypeOK, EntriesOK, txVars, WindowInv
<1>4. CASE Data(f)
  <2>1. /\ Receive(SeqOf(f), f.packet)
        /\ delivered' = delivered \o udpOut'
        /\ accepted' = IF IsNew(Opened(rx, SeqOf(f)), SeqOf(f))
                       THEN accepted \cup {f} ELSE accepted
    BY <1>4 DEF FrameArrives, Data
  <2>2. SeqOf(f) \in Seqs /\ f.packet \in Payloads
    BY <1>2, <1>4, FrameFacts
  <2> HIDE DEF f
  <2>3. WindowInv'
    BY <1>1, <2>1, <2>2, ReceiveWindow
  <2>4. udpOut' \in Seq(Payloads) /\ RxTypeOK'
    BY <2>3 DEF WindowInv, RxTypeOK
  <2>5. delivered' \in Seq(Payloads)
    BY <1>1, <2>1, <2>4
  <2>6. accepted' \in SUBSET {g \in Frames : Data(g)}
    BY <1>1, <1>2, <1>4, <2>1
  <2> QED BY <1>2, <2>3, <2>4, <2>5, <2>6 DEF TypeInv, LinkTypeOK, EntriesOK, txVars
<1> QED BY <1>3, <1>4

\* Every step of either end keeps the types.
LEMMA TypeStep == TypeInv /\ [Next]_vars => TypeInv'
<1> SUFFICES ASSUME TypeInv, [Next]_vars PROVE TypeInv'
  OBVIOUS
<1>1. CASE Encode
  BY <1>1, EncodeType
<1>2. CASE FrameArrives
  BY <1>2, ArrivalType
<1>3. ASSUME UNCHANGED <<enc, nextPos, nextPacket, ertm, delivered, accepted>>,
             AckInterval \/ TakeFeedback \/ UNCHANGED rxVars,
             entries' \in TxMaps, FewerEntries(entries', entries), air' \in Seq(Frames)
      PROVE  TypeInv'
  <2>1. WindowInv'
    BY <1>3, AckIntervalWindow DEF TypeInv
  <2>2. EntriesOK'
    BY <1>3 DEF TypeInv, LinkTypeOK, EntriesOK, FewerEntries
  <2> QED BY <1>3, <2>1, <2>2 DEF TypeInv, LinkTypeOK, WindowInv, TxMaps
<1>4. /\ entries \in TxMaps /\ air \in Seq(Frames) /\ FewerEntries(entries, entries)
  BY DEF TypeInv, LinkTypeOK, TxMaps, FewerEntries
<1>5. ASSUME NEW s \in Seqs, Timeout(s) PROVE TypeInv'
  <2>1. entries' \in TxMaps /\ FewerEntries(entries', entries)
    BY <1>4, <1>5, DueProperties DEF Timeout
  <2> QED BY <1>3, <1>4, <1>5, <2>1 DEF Timeout, HistoryUnchanged
<1>6. CASE FrameLost
  <2>1. air' \in Seq(Frames)
    BY <1>4, <1>6 DEF FrameLost
  <2> QED BY <1>3, <1>4, <1>6, <2>1 DEF FrameLost, HistoryUnchanged, txVars
<1>7. CASE Interval \/ AckLost
  BY <1>3, <1>4, <1>7 DEF Interval, AckLost, HistoryUnchanged, txVars
<1>8. CASE AckArrives
  <2>1. entries' \in TxMaps /\ FewerEntries(entries', entries)
    BY <1>4, <1>8, WithoutProperties DEF AckArrives, ProcessAck
  <2> QED BY <1>3, <1>4, <1>8, <2>1 DEF AckArrives, HistoryUnchanged
<1>9. CASE UNCHANGED vars
  BY <1>3, <1>4, <1>9 DEF vars, txVars
<1> QED BY <1>1, <1>2, <1>5, <1>6, <1>7, <1>8, <1>9 DEF Next

(***************************************************************************)
(* The link stays well typed: every entry of the transmit window is a frame *)
(* that was numbered, with at most MaxRetries retries spent; the numbers,   *)
(* the air and the receiver's fields keep their ranges.                     *)
(***************************************************************************)
THEOREM LinkTypeCorrect == Spec => []LinkTypeOK
<1>1. TypeInv => LinkTypeOK
  BY DEF TypeInv
<1> QED BY <1>1, TypeInit, TypeStep, PTL DEF Spec

(***************************************************************************)
(* Over the whole link, with what the sender really sends, whatever is lost *)
(* or repeated on the way and however far the window is made to skip: at    *)
(* the UE with ordered delivery the reorder buffer holds exactly the        *)
(* packets that the bitmap acknowledges.                                    *)
(***************************************************************************)
THEOREM LinkKeepsWhatItAcks == Spec => []SelectivelyAckedAreBuffered
<1>1. TypeInv => SelectivelyAckedAreBuffered
  BY WindowIsBuffered DEF TypeInv
<1> QED BY <1>1, TypeInit, TypeStep, PTL DEF Spec

\* One step keeps every packet that is safe, and makes a new one safe.
LEMMA StepKeepsAccepted ==
  ASSUME TypeInv, [Next]_vars, Flushes, NEW f \in accepted',
         f \in accepted => Safe(f), ~(FrameArrives /\ Outruns(Head(air)))
  PROVE  Safe(f)'
<1>1. CASE UNCHANGED <<rx, delivered, accepted>>
  BY <1>1 DEF Safe
<1>2. CASE FrameArrives
  <2> DEFINE g == Head(air)
             s == SeqOf(g)
             p == g.packet
  <2>1. /\ WindowInv /\ air \in Seq(Frames) /\ delivered \in Seq(Payloads)
        /\ rx.reorderBuffer \in Buffers
        /\ accepted \in SUBSET {h \in Frames : Data(h)}
    BY DEF TypeInv, LinkTypeOK, RxTypeOK, RxWindows, Buffers
  <2>2. g \in Frames
    BY <1>2, <2>1 DEF FrameArrives
  <2>3. CASE ~Data(g)
    BY <1>1, <1>2, <2>3 DEF FrameArrives, Data, rxVars
  <2>4. CASE Data(g)
    <3>1. /\ Receive(s, p) /\ delivered' = delivered \o udpOut'
          /\ accepted' = IF IsNew(Opened(rx, s), s) THEN accepted \cup {g} ELSE accepted
      BY <1>2, <2>4 DEF FrameArrives, Data
    <3>2. s \in Seqs /\ p \in Payloads
      BY <2>2, <2>4, FrameFacts
    <3>3. ~Beyond(rx, s)
      BY <1>2 DEF Outruns, Beyond
    <3> HIDE DEF s, p
    <3>4. /\ \A t \in Seqs : rx.reorderBuffer[t] # NoPayload =>
               \/ rx'.reorderBuffer[t] = rx.reorderBuffer[t]
               \/ \E i \in 1 .. Len(udpOut') : udpOut'[i] = rx.reorderBuffer[t]
          /\ IsNew(Opened(rx, s), s) =>
               \/ rx'.reorderBuffer[s] = p
               \/ \E i \in 1 .. Len(udpOut') : udpOut'[i] = p
      BY <2>1, <3>1, <3>2, <3>3, ReceiveKeeps
    <3>5. udpOut' \in Seq(Payloads)
      <4>1. WindowInv'
        BY <2>1, <3>1, <3>2, ReceiveWindow
      <4> QED BY <4>1 DEF WindowInv, RxTypeOK
    <3>6. /\ \A i \in 1 .. Len(delivered) :
               i \in 1 .. Len(delivered') /\ delivered'[i] = delivered[i]
          /\ \A i \in 1 .. Len(udpOut') :
               /\ Len(delivered) + i \in 1 .. Len(delivered')
               /\ delivered'[Len(delivered) + i] = udpOut'[i]
      BY <2>1, <3>1, <3>5
    <3>7. \A x : (\E i \in 1 .. Len(udpOut') : udpOut'[i] = x)
                 => \E i \in 1 .. Len(delivered') : delivered'[i] = x
      BY <3>6
    <3>8. Safe(f)' <=> \/ \E i \in 1 .. Len(delivered') : delivered'[i] = f.packet
                       \/ \E t \in Seqs : rx'.reorderBuffer[t] = f.packet
      BY DEF Safe
    <3>9. CASE f \in accepted
      <4>1. f.packet \in Payloads
        BY <2>1, <3>9, FrameFacts
      <4>2. CASE \E i \in 1 .. Len(delivered) : delivered[i] = f.packet
        BY <3>6, <3>8, <4>2
      <4>3. ASSUME NEW t \in Seqs, rx.reorderBuffer[t] = f.packet PROVE Safe(f)'
        <5>1. rx.reorderBuffer[t] # NoPayload
          BY <4>1, <4>3, RxWindowAssumption
        <5> QED BY <3>4, <3>7, <3>8, <4>3, <5>1
      <4> QED BY <3>9, <4>2, <4>3 DEF Safe
    <3>10. CASE f \notin accepted
      <4>1. f = g /\ IsNew(Opened(rx, s), s)
        BY <3>1, <3>10
      <4>2. p = f.packet
        BY <4>1 DEF p
      <4> QED BY <3>2, <3>4, <3>7, <3>8, <4>1, <4>2
    <3> QED BY <3>9, <3>10
  <2> QED BY <2>3, <2>4
<1>3. [Next]_vars => FrameArrives \/ UNCHANGED <<rx, delivered, accepted>>
  BY DEF Next, Encode, EncAbandon, EncCollect, EncCopy, EncRepush, EncMark,
         EncRetransmitEnd, EncErtm, EncNoErtm, EncIdle, EncDrop, EncNumber,
         EncTrack, EncPush, Timeout, FrameLost, Interval, AckInterval, AckLost,
         AckArrives, TakeFeedback, HistoryUnchanged, vars, rxVars
<1> QED BY <1>1, <1>2, <1>3

(***************************************************************************)
(* A packet that the receiver has accepted stays in the reorder buffer      *)
(* until it is delivered, for every window, bitmap, number of packets and   *)
(* of losses: capacity, flush and duplicates never lose one.  Only a frame  *)
(* that arrives a whole window ahead may.                                   *)
(***************************************************************************)
THEOREM AcceptedStays == Spec => AcceptedIsKept
<1>1. TypeInv /\ [Next]_vars =>
        (Flushes =>
           \A f \in accepted' :
             (f \in accepted => Safe(f)) =>
               Safe(f)' \/ (FrameArrives /\ Outruns(Head(air))))
  BY StepKeepsAccepted
<1> QED BY <1>1, TypeInit, TypeStep, PTL DEF Spec, AcceptedIsKept

-----------------------------------------------------------------------------
(***************************************************************************)
(* The receive window in positions: B is that of its base before the frame  *)
(* at position x, O once the window reaches x, C after the frame.           *)
(***************************************************************************)
LEMMA LoweredMember ==
  ASSUME NEW S \in SUBSET Offsets, NEW c \in Int, NEW z \in Int
  PROVE  z \in Lowered(S, c) <=> z + c \in S /\ z >= 0
<1>1. \A i \in S : i \in Int
  BY SpanFacts DEF Offsets
<1>2. z \in Lowered(S, c) <=> \E i \in S : i >= c /\ z = i - c
  BY DEF Lowered
<1>3. ASSUME NEW i \in S, i >= c, z = i - c PROVE z + c \in S /\ z >= 0
  <2>1. z + c = i /\ z >= 0
    BY <1>1, <1>3
  <2> QED BY <2>1
<1>4. ASSUME z + c \in S, z >= 0 PROVE \E i \in S : i >= c /\ z = i - c
  <2>1. z + c >= c /\ z = (z + c) - c
    BY <1>4
  <2> QED BY <1>4, <2>1
<1> QED BY <1>2, <1>3, <1>4

\* The window opened for a frame, in positions: circular numbers within half the
\* space of the base tell old from new, and place the base the window moves to.
LEMMA OpenedAtPositions ==
  ASSUME NEW r \in RxWindows, NEW x \in Nat, NEW B \in Nat,
         IF r.gotAny THEN r.ackBase = B % SeqSpace ELSE B = x /\ r.ackBitmap = {},
         -HalfSpace <= x - B, x - B < HalfSpace
  PROVE  LET seq == x % SeqSpace
             o == Opened(r, seq)
         IN  /\ IsNew(o, seq) <=> x >= B /\ x - B \notin r.ackBitmap
             /\ \E O \in Nat :
                  /\ B <= O /\ (O = B \/ (O <= x /\ IsNew(o, seq)))
                  /\ o.ackBase = O % SeqSpace
                  /\ SeqDiff(seq, o.ackBase) = x - O
                  /\ \A y \in Int :
                       y - O \in o.ackBitmap <=> y >= O /\ y - B \in r.ackBitmap
<1> DEFINE seq == x % SeqSpace
           a == AdoptFirst(r, seq)
           o == Opened(r, seq)
<1>1. /\ Span \in Nat \ {0} /\ Span < HalfSpace /\ HalfSpace \in Nat \ {0}
      /\ seq \in Seqs /\ r.ackBitmap \in SUBSET Offsets
  BY SpanFacts, Division DEF RxWindows
<1>2. /\ a \in RxWindows /\ a.ackBase = B % SeqSpace /\ a.ackBitmap = r.ackBitmap
  <2>1. /\ a \in RxWindows /\ a.ackBase = IF r.gotAny THEN r.ackBase ELSE seq
        /\ a.ackBitmap = IF r.gotAny THEN r.ackBitmap ELSE {}
    BY <1>1, AdoptFirstProperties
  <2>2. ~r.gotAny => seq = B % SeqSpace /\ r.ackBitmap = {}
    OBVIOUS
  <2> HIDE DEF a, seq
  <2> QED BY <2>1, <2>2
<1>3. SeqDiff(seq, B % SeqSpace) = x - B
  BY DistanceOfNumbers
<1>4. o = IF SeqDiff(seq, a.ackBase) >= Span THEN SkipToInclude(a, seq) ELSE a
  BY DEF Opened
<1>5. \A i \in r.ackBitmap : i \in Int /\ 0 <= i /\ i < Span
  BY <1>1 DEF Offsets
<1> HIDE DEF seq, a, o
<1>6. CASE ~(x - B >= Span)
  <2>1. o = a /\ o.ackBase = B % SeqSpace /\ o.ackBitmap = r.ackBitmap
    BY <1>2, <1>3, <1>4, <1>6
  <2>2. IsNew(o, seq) <=> x >= B /\ x - B \notin r.ackBitmap
    BY <1>1, <1>3, <1>6, <2>1 DEF IsNew, Offsets
  <2>3. \A y \in Int : y - B \in o.ackBitmap <=> y >= B /\ y - B \in r.ackBitmap
    BY <1>5, <2>1
  <2>4. SeqDiff(seq, o.ackBase) = x - B
    BY <1>3, <2>1
  <2> QED BY <2>1, <2>2, <2>3, <2>4 DEF seq, o
<1>7. CASE x - B >= Span
  <2> DEFINE O == x - (Span - 1)
  <2>1. O \in Nat /\ B <= O /\ O <= x /\ (x - B) - (Span - 1) = O - B
        /\ x - O = Span - 1 /\ x + (-(Span - 1)) = O
        /\ -(Span - 1) \in Int /\ -SeqSpace <= -(Span - 1) /\ -(Span - 1) < SeqSpace
        /\ -HalfSpace <= x - O /\ x - O < HalfSpace
    BY <1>1, <1>7 DEF SeqSpace
  <2>2. /\ SeqDiff(seq, a.ackBase) >= Span
        /\ o = SkipToInclude(a, seq)
    BY <1>2, <1>3, <1>4, <1>7
  <2>3. /\ IsNew(o, seq) /\ o.ackBase = SeqAdd(seq, -(Span - 1))
        /\ o.ackBitmap = Lowered(a.ackBitmap, SeqDiff(seq, a.ackBase) - (Span - 1))
    BY <1>1, <1>2, <2>2, SkipToIncludeProperties
  <2>4. o.ackBase = O % SeqSpace
    <3> HIDE DEF O
    <3>1. (x + (-(Span - 1))) % SeqSpace = SeqAdd(seq, -(Span - 1))
      BY <2>1, NumberOfSum DEF seq
    <3> QED BY <2>1, <2>3, <3>1
  <2>5. o.ackBitmap = Lowered(r.ackBitmap, O - B)
    BY <1>2, <1>3, <2>1, <2>3
  <2> HIDE DEF O
  <2>6. ASSUME NEW y \in Int
        PROVE  y - O \in o.ackBitmap <=> y >= O /\ y - B \in r.ackBitmap
    <3>1. y - O \in Int /\ O - B \in Int /\ (y - O) + (O - B) = y - B
          /\ (y - O >= 0 <=> y >= O)
      BY <2>1
    <3>2. y - O \in Lowered(r.ackBitmap, O - B) <=>
            (y - O) + (O - B) \in r.ackBitmap /\ y - O >= 0
      BY <1>1, <3>1, LoweredMember
    <3> QED BY <2>5, <3>1, <3>2
  <2>7. SeqDiff(seq, o.ackBase) = x - O
    BY <2>1, <2>4, DistanceOfNumbers DEF seq
  <2>8. x >= B /\ x - B \notin r.ackBitmap
    BY <1>1, <1>5, <1>7
  <2> QED BY <2>1, <2>3, <2>4, <2>6, <2>7, <2>8 DEF seq, o
<1> QED BY <1>6, <1>7

\* q: the window o, its base at O, once position x is recorded; its base at C.
AcceptedAt(q, o, x, O, C) ==
  /\ O <= C /\ q.ackBase = C % SeqSpace
  /\ \A y \in Int : y - C \in q.ackBitmap <=>
                   y >= C /\ (y - O \in o.ackBitmap \/ y = x)
  /\ \A y \in O .. (C - 1) : y - O \in o.ackBitmap \/ y = x
  /\ Ordered /\ InStep(o) =>
       RunLength(q) = C - O /\ q.expectedSeq = O % SeqSpace

\* The accepting path: the base goes from O past the run of recorded positions.
LEMMA AcceptAtPositions ==
  ASSUME NEW o \in RxWindows, NEW x \in Nat, NEW p \in Payloads, NEW O \in Nat,
         o.ackBase = O % SeqSpace, SeqDiff(x % SeqSpace, o.ackBase) = x - O,
         IsNew(o, x % SeqSpace)
  PROVE  \E C \in Nat : AcceptedAt(Accept(o, x % SeqSpace, p), o, x, O, C)
<1> DEFINE seq == x % SeqSpace
           q == Accept(o, seq, p)
           S == o.ackBitmap \cup {SeqDiff(seq, o.ackBase)}
           k == FirstGap(S, BitmapBits)
           C == O + k
<1>1. /\ Span \in Nat \ {0} /\ Span < HalfSpace /\ HalfSpace \in Nat \ {0}
      /\ Span <= BitmapBits /\ BitmapBits \in Nat /\ seq \in Seqs
  BY SpanFacts, Division
<1>2. /\ q \in RxWindows /\ S \in SUBSET Offsets
      /\ q.ackBase = SeqAdd(o.ackBase, k) /\ q.ackBitmap = Lowered(S, k)
      /\ q.expectedSeq = o.expectedSeq
      /\ Ordered /\ Keeps(o.reorderBuffer, o.ackBase, o.ackBitmap) =>
           Keeps(q.reorderBuffer, o.ackBase, S)
  BY <1>1, AcceptProperties
<1>3. k \in 0 .. Span /\ \A j \in 0 .. (k - 1) : j \in S
  <2> HIDE DEF S
  <2> QED BY <1>1, <1>2, RunOfBits
<1>4. \A j \in Int : j \in S <=> j \in o.ackBitmap \/ j = x - O
  OBVIOUS
<1> HIDE DEF S, k, q
<1>5. C \in Nat /\ O <= C /\ k \in Int /\ -SeqSpace <= k /\ k < SeqSpace
  BY <1>1, <1>3 DEF SeqSpace
<1>6. q.ackBase = C % SeqSpace
  BY <1>2, <1>5, NumberOfSum
<1> HIDE DEF C
<1>7. C = O + k
  BY DEF C
<1>8. ASSUME NEW y \in Int
      PROVE  y - C \in q.ackBitmap <=> y >= C /\ (y - O \in o.ackBitmap \/ y = x)
  <2>1. y - C \in Int /\ (y - C) + k = y - O /\ (y - C >= 0 <=> y >= C)
        /\ y - O \in Int /\ (y - O = x - O <=> y = x)
    BY <1>5, <1>7
  <2>2. y - C \in Lowered(S, k) <=> (y - C) + k \in S /\ y - C >= 0
    BY <1>2, <1>5, <2>1, LoweredMember
  <2> QED BY <1>2, <1>4, <2>1, <2>2
<1>9. ASSUME NEW y \in O .. (C - 1) PROVE y - O \in o.ackBitmap \/ y = x
  <2>1. y - O \in 0 .. (k - 1) /\ y - O \in Int /\ (y - O = x - O <=> y = x)
    BY <1>3, <1>7
  <2> QED BY <1>3, <1>4, <2>1
<1>10. ASSUME Ordered, InStep(o)
       PROVE  RunLength(q) = C - O /\ q.expectedSeq = O % SeqSpace
  <2>1. /\ q.expectedSeq = o.ackBase
        /\ Keeps(q.reorderBuffer, q.expectedSeq, S)
    BY <1>2, <1>10 DEF InStep
  <2>2. RunLength(q) = k
    BY <1>2, <2>1, DrainedKeeps DEF k
  <2>3. C - O = k
    BY <1>3, <1>7
  <2> QED BY <2>1, <2>2, <2>3
<1>11. AcceptedAt(q, o, x, O, C)
  BY <1>5, <1>6, <1>8, <1>9, <1>10 DEF AcceptedAt
<1> QED BY <1>5, <1>11 DEF q

\* q: the window r, its base at B, once it is made to follow x, its base at O,
\* and position x is recorded if it is new; its base then at C.
NewAt(r, x, B) == x >= B /\ x - B \notin r.ackBitmap
TakenAt(q, r, x, B, O, C) ==
  /\ B <= O /\ O <= C /\ (O = B \/ (O <= x /\ NewAt(r, x, B)))
  /\ q.ackBase = C % SeqSpace
  /\ \A y \in Int : y - C \in q.ackBitmap <=>
       y >= C /\ (y - B \in r.ackBitmap \/ (NewAt(r, x, B) /\ y = x))
  /\ \A y \in O .. (C - 1) : y - B \in r.ackBitmap \/ (NewAt(r, x, B) /\ y = x)
  /\ Ordered /\ InStep(r) =>
       RunLength(q) = C - O /\ q.expectedSeq = O % SeqSpace

\* A frame at position x, the whole way: what is new, and where the base goes.
LEMMA TakenAtPositions ==
  ASSUME NEW r \in RxWindows, NEW x \in Nat, NEW p \in Payloads, NEW B \in Nat,
         IF r.gotAny THEN r.ackBase = B % SeqSpace ELSE B = x /\ r.ackBitmap = {},
         0 \notin r.ackBitmap,
         -HalfSpace <= x - B, x - B < HalfSpace
  PROVE  LET seq == x % SeqSpace
         IN  /\ IsNew(Opened(r, seq), seq) <=> NewAt(r, x, B)
             /\ \E O \in Nat, C \in Nat : TakenAt(Taken(r, seq, p), r, x, B, O, C)
<1> DEFINE seq == x % SeqSpace
           o == Opened(r, seq)
           q == Taken(r, seq, p)
           new == NewAt(r, x, B)
<1>1. seq \in Seqs /\ Span \in Nat \ {0}
  BY Division, SpanFacts
<1>2. /\ o \in RxWindows /\ (0 \notin o.ackBitmap \/ IsNew(o, seq))
      /\ InStep(r) => InStep(o)
  BY <1>1, OpenedProperties
<1>3. IsNew(o, seq) <=> new
  BY OpenedAtPositions DEF NewAt
<1>4. PICK O \in Nat :
        /\ B <= O /\ (O = B \/ (O <= x /\ IsNew(o, seq)))
        /\ o.ackBase = O % SeqSpace
        /\ SeqDiff(seq, o.ackBase) = x - O
        /\ \A y \in Int : y - O \in o.ackBitmap <=> y >= O /\ y - B \in r.ackBitmap
  BY OpenedAtPositions
<1>5. q = IF IsNew(o, seq) THEN Accept(o, seq, p) ELSE o
  BY DEF Taken
<1> HIDE DEF o, q, new
<1>6. CASE new
  <2>1. q = Accept(o, x % SeqSpace, p) /\ IsNew(o, x % SeqSpace)
    BY <1>3, <1>5, <1>6
  <2>2. /\ o \in RxWindows /\ o.ackBase = O % SeqSpace
        /\ SeqDiff(x % SeqSpace, o.ackBase) = x - O
    BY <1>2, <1>4
  <2>3. PICK C \in Nat : AcceptedAt(q, o, x, O, C)
    BY <2>1, <2>2, AcceptAtPositions
  <2>4. /\ O <= C /\ q.ackBase = C % SeqSpace
        /\ \A y \in Int : y - C \in q.ackBitmap <=>
                         y >= C /\ (y - O \in o.ackBitmap \/ y = x)
        /\ \A y \in O .. (C - 1) : y - O \in o.ackBitmap \/ y = x
        /\ Ordered /\ InStep(o) =>
             RunLength(q) = C - O /\ q.expectedSeq = O % SeqSpace
    BY <2>3 DEF AcceptedAt
  <2>5. \A y \in Int : y - C \in q.ackBitmap <=>
          y >= C /\ (y - B \in r.ackBitmap \/ (new /\ y = x))
    <3>1. \A y \in Int : y >= C => y >= O
      BY <2>4
    <3> QED BY <1>4, <1>6, <2>4, <3>1
  <2>6. \A y \in O .. (C - 1) : y - B \in r.ackBitmap \/ (new /\ y = x)
    BY <1>4, <1>6, <2>4
  <2>7. TakenAt(q, r, x, B, O, C)
    BY <1>2, <1>3, <1>4, <2>4, <2>5, <2>6 DEF TakenAt, new
  <2> QED BY <1>3, <2>7 DEF o, q, new
<1>7. CASE ~new
  <2>1. q = o /\ O = B /\ 0 \notin o.ackBitmap
    BY <1>2, <1>3, <1>4, <1>5, <1>7
  <2>2. ASSUME Ordered, InStep(r)
        PROVE  RunLength(q) = O - O /\ q.expectedSeq = O % SeqSpace
    <3>1. InStep(o) /\ o.ackBitmap \in SUBSET Offsets
      BY <1>2, <2>2 DEF RxWindows
    <3>2. Keeps(o.reorderBuffer, o.expectedSeq, o.ackBitmap) /\ o.expectedSeq = o.ackBase
      BY <3>1 DEF InStep
    <3>3. FirstGap(o.ackBitmap, BitmapBits) = 0
      <4>1. o.ackBitmap \in SUBSET (0 .. (BitmapBits - 1)) /\ BitmapBits \in Nat
        BY <3>1, SpanFacts DEF Offsets
      <4> QED BY <2>1, <4>1, FirstGapUnique
    <3>4. RunLength(o) = FirstGap(o.ackBitmap, BitmapBits)
      BY <1>2, <3>1, <3>2, DrainedKeeps
    <3> QED BY <1>4, <2>1, <3>2, <3>3, <3>4
  <2>3. \A y \in Int : y - O \in q.ackBitmap <=>
          y >= O /\ (y - B \in r.ackBitmap \/ (new /\ y = x))
    BY <1>4, <1>7, <2>1
  <2>4. TakenAt(q, r, x, B, O, O)
    <3>1. O .. (O - 1) = {}
      OBVIOUS
    <3> QED BY <1>4, <1>7, <2>1, <2>2, <2>3, <3>1 DEF TakenAt, new
  <2> QED BY <1>3, <2>4 DEF o, q, new
<1> QED BY <1>6, <1>7

-----------------------------------------------------------------------------
(***************************************************************************)
(* Where the numbers under way fit: the sender's window bounds them when    *)
(* nothing is given up, and otherwise their count does.                     *)
(***************************************************************************)
LinkFits ==
  \/ MaxRetries = 0 /\ Span + TxWindow + MaxErtm < HalfSpace
  \/ MaxPackets + MaxErtm <= HalfSpace

Tracked == {entries[s].packet : s \in Outstanding(entries)}
InHand == IF enc.at \in {"push", "track", "repush"} THEN {enc.frame} ELSE {}
OnAir == {air[i] : i \in 1 .. Len(air)}
Known == Tracked \cup InHand \cup {f \in OnAir : Data(f)} \cup accepted

\* A frame has been numbered; and the transmit window does not have it yet.
Numbered == enc.at \in {"push", "track"}
Untracked == enc.at = "track" \/ (Downlink /\ enc.at = "push")
Fresh == IF Untracked THEN {enc.frame} ELSE {}

\* Positions and datagrams are given out together, in increasing order.
NumbersInv ==
  /\ \A f \in Known : f.pos < nextPos /\ f.packet < nextPacket
  /\ \A f, g \in Known : f.pos < g.pos <=> f.packet < g.packet
  /\ \A f \in OnAir : f.pos < nextPos
  /\ Numbered => enc.frame.pos = nextPos - 1
  /\ Untracked => HasRoom(entries) /\ \A f \in Tracked : f.pos < nextPos - 1

\* Positions beyond the span of the last ACK of which the sender holds no packet.
Unaccounted(A) ==
  ((A + Span) .. (nextPos - 1)) \ {f.pos : f \in Tracked \cup Fresh}

\* A: the base of the last ACK applied.
SenderInv(A) ==
  /\ FirstPos <= A /\ A <= nextPos
  /\ \A f \in Tracked : A <= f.pos + 1
  /\ \A f \in InHand : nextPos <= f.pos + HalfSpace
  /\ MaxRetries = 0 => /\ nextPos <= A + Span + TxWindow + ertm
                       /\ Cardinality(Unaccounted(A)) <= ertm

\* No frame on the air is left behind by half the space.
AirInv ==
  /\ \A i \in 1 .. Len(air), g \in accepted : g.pos < air[i].pos + HalfSpace
  /\ \A i, j \in 1 .. Len(air) : i < j => air[i].pos < air[j].pos + HalfSpace

Recorded(base, bits) == \A i \in bits : \E g \in accepted : g.pos = base + i

\* B: the position of the receiver's base.
ReceiverInv(A, B) ==
  /\ A <= B
  /\ IF rx.gotAny
     THEN /\ rx.ackBase = B % SeqSpace
          /\ \E g \in accepted : B <= g.pos + 1
     ELSE /\ A = FirstPos /\ accepted = {} /\ delivered = <<>> /\ feedback = <<>>
  /\ Recorded(B, rx.ackBitmap)
  /\ \A g \in accepted : g.pos < B \/ g.pos - B \in rx.ackBitmap

\* fb: the positions of the bases of the ACKs under way.
FeedbackInv(A, B, fb) ==
  /\ Len(fb) = Len(feedback)
  /\ \A i \in 1 .. Len(fb) : /\ A <= fb[i] /\ fb[i] <= B
                             /\ feedback[i].base = fb[i] % SeqSpace
                             /\ Recorded(fb[i], feedback[i].bits)
  /\ \A i, j \in 1 .. Len(fb) : i < j => fb[i] <= fb[j]

\* What was delivered was accepted, once and in order; the rest is held.
DeliveredInv(B) ==
  /\ \A i \in 1 .. Len(delivered) : \E g \in accepted :
       g.packet = delivered[i] /\ (Flushes => g.pos < B)
  /\ \A i, j \in 1 .. Len(delivered) : i < j =>
       delivered[i] # delivered[j] /\ (Flushes => delivered[i] < delivered[j])
  /\ Flushes => \A g \in accepted :
       g.pos >= B => rx.reorderBuffer[SeqOf(g)] = g.packet

Placed(A, B, fb) ==
  /\ SenderInv(A) /\ ReceiverInv(A, B) /\ FeedbackInv(A, B, fb) /\ DeliveredInv(B)

LinkInv ==
  /\ TypeInv /\ NumbersInv /\ AirInv
  /\ \E A \in Nat, B \in Nat, fb \in Seq(Nat) : Placed(A, B, fb)

-----------------------------------------------------------------------------
(***************************************************************************)
(* The parts of the invariant under the sender's steps.                     *)
(***************************************************************************)
LEMMA LinkFacts ==
  ASSUME TypeInv
  PROVE  /\ HalfSpace \in Nat \ {0} /\ Span \in Nat \ {0} /\ TxWindow \in Nat
         /\ FirstPos \in Nat /\ MaxPackets \in Nat /\ MaxErtm \in Nat
         /\ MaxRetries \in Nat
         /\ nextPos \in Nat /\ nextPacket \in 0 .. MaxPackets /\ ertm \in 0 .. MaxErtm
         /\ FirstPos <= nextPos /\ nextPos <= FirstPos + nextPacket + ertm
         /\ Known \in SUBSET Frames /\ OnAir \in SUBSET Frames
         /\ \A f \in Known : Data(f)
         /\ Fresh \in SUBSET InHand /\ entries \in TxMaps /\ air \in Seq(Frames)
<1>1. /\ HalfSpace \in Nat \ {0} /\ Span \in Nat \ {0} /\ TxWindow \in Nat
      /\ FirstPos \in Nat /\ MaxPackets \in Nat /\ MaxErtm \in Nat
      /\ MaxRetries \in Nat
  BY SpanFacts, TxWindowAssumption, FrameFacts
<1>2. /\ nextPos \in Nat /\ nextPacket \in 0 .. MaxPackets /\ ertm \in 0 .. MaxErtm
      /\ FirstPos <= nextPos /\ nextPos <= FirstPos + nextPacket + ertm
      /\ entries \in TxMaps /\ air \in Seq(Frames)
      /\ accepted \in SUBSET {f \in Frames : Data(f)}
      /\ enc.frame \in Frames
  BY DEF TypeInv, LinkTypeOK, TxMaps
<1>3. OnAir \in SUBSET Frames
  BY <1>2 DEF OnAir
<1>4. \A f \in Tracked : f \in Frames /\ Data(f)
  <2>1. ASSUME NEW s \in Outstanding(entries)
        PROVE  entries[s].packet \in Frames /\ Data(entries[s].packet)
    <3>1. s \in Seqs /\ entries[s] # NoEntry /\ entries[s] \in TxEntries
      BY <1>2 DEF Outstanding, TxMaps
    <3>2. entries[s].packet \in Frames
      BY <3>1, EntryAssumption DEF TxEntries
    <3> QED BY <3>1, <3>2 DEF TypeInv, EntriesOK
  <2> QED BY <2>1 DEF Tracked
<1>5. \A f \in InHand : f \in Frames /\ Data(f)
  BY <1>2 DEF InHand, TypeInv, EntriesOK
<1>6. Fresh \in SUBSET InHand
  BY DEF Fresh, InHand, Untracked
<1>7. Known \in SUBSET Frames /\ \A f \in Known : Data(f)
  BY <1>2, <1>3, <1>4, <1>5 DEF Known
<1> QED BY <1>1, <1>2, <1>3, <1>6, <1>7

\* v holds packets that w holds.
HoldsNoMore(v, w) ==
  \A t \in Seqs : v[t] # NoEntry => w[t] # NoEntry /\ v[t].packet = w[t].packet

\* The transmit window is finite, so that its entries can be counted.
LEMMA OutstandingFinite ==
  ASSUME NEW w PROVE IsFiniteSet(Outstanding(w))
<1>1. IsFiniteSet(Seqs)
  <2>1. SeqSpace - 1 \in Int
    BY HalfSpaceAssumption DEF SeqSpace
  <2> QED BY <2>1, FS_Interval DEF Seqs
<1> QED BY <1>1, FS_Subset DEF Outstanding

\* Releasing entries never takes room away.
LEMMA RoomKept ==
  ASSUME NEW v, NEW w, Outstanding(v) \subseteq Outstanding(w), HasRoom(w)
  PROVE  HasRoom(v)
<1>1. /\ IsFiniteSet(Outstanding(w)) /\ IsFiniteSet(Outstanding(v))
      /\ Cardinality(Outstanding(v)) <= Cardinality(Outstanding(w))
  BY OutstandingFinite, FS_Subset
<1>2. Cardinality(Outstanding(v)) \in Nat /\ Cardinality(Outstanding(w)) \in Nat
  BY <1>1, FS_CardinalityType
<1> QED BY <1>1, <1>2, TxWindowAssumption DEF HasRoom

\* A step that only releases entries tracks no other packets and keeps room.
LEMMA FewerTracked ==
  ASSUME HoldsNoMore(entries', entries)
  PROVE  /\ Tracked' \subseteq Tracked
         /\ Outstanding(entries') \subseteq Outstanding(entries)
         /\ HasRoom(entries) => HasRoom(entries')
<1>1. /\ Tracked' \subseteq Tracked
      /\ Outstanding(entries') \subseteq Outstanding(entries)
  BY DEF Tracked, Outstanding, HoldsNoMore
<1> QED BY <1>1, RoomKept

\* A step that keeps every entry tracks all that was tracked.
LEMMA MoreTracked ==
  ASSUME HoldsNoMore(entries, entries')
  PROVE  Tracked \subseteq Tracked'
BY DEF Tracked, Outstanding, HoldsNoMore

\* The numbers under way fit half the space.
LEMMA Bounds ==
  ASSUME LinkFits, TypeInv, NumbersInv, NEW A \in Nat, SenderInv(A)
  PROVE  /\ nextPos <= A + HalfSpace
         /\ \A f \in Tracked \cup InHand : nextPos <= f.pos + HalfSpace
         /\ \A f \in Known : f.pos \in Nat /\ f.packet \in Nat
<1>1. /\ HalfSpace \in Nat \ {0} /\ Span \in Nat \ {0} /\ TxWindow \in Nat
      /\ FirstPos \in Nat /\ MaxPackets \in Nat /\ MaxErtm \in Nat
      /\ nextPos \in Nat /\ nextPacket \in 0 .. MaxPackets /\ ertm \in 0 .. MaxErtm
      /\ nextPos <= FirstPos + nextPacket + ertm
      /\ Known \in SUBSET Frames
  BY LinkFacts
<1>2. /\ FirstPos <= A
      /\ \A f \in Tracked : A <= f.pos + 1
      /\ \A f \in InHand : nextPos <= f.pos + HalfSpace
      /\ MaxRetries = 0 => nextPos <= A + Span + TxWindow + ertm
  BY DEF SenderInv
<1>3. \A f \in Known : f.pos \in Nat /\ FirstPos <= f.pos /\ f.packet \in Nat
  BY <1>1, FrameFacts
<1>4. Tracked \subseteq Known
  BY DEF Known
<1>5. CASE MaxRetries = 0 /\ Span + TxWindow + MaxErtm < HalfSpace
  BY <1>1, <1>2, <1>3, <1>4, <1>5
<1>6. CASE MaxPackets + MaxErtm <= HalfSpace
  BY <1>1, <1>2, <1>3, <1>4, <1>6
<1> QED BY <1>3, <1>5, <1>6 DEF LinkFits

\* A step that numbers nothing.
LEMMA NumbersQuiet ==
  ASSUME TypeInv, TypeInv', NumbersInv, nextPos' = nextPos, nextPacket <= nextPacket',
         Known' \subseteq Known, OnAir' \subseteq OnAir \cup Known,
         Numbered' => Numbered /\ enc'.frame = enc.frame,
         Untracked' => Untracked /\ HasRoom(entries') /\ Tracked' \subseteq Tracked
  PROVE  NumbersInv'
<1>1. /\ nextPacket \in Nat /\ nextPacket' \in Nat /\ nextPos \in Nat
      /\ \A f \in Known : f.pos \in Nat /\ f.packet \in Nat
  <2>1. \A f \in Frames : f.pos \in Nat /\ f.packet \in Nat
    BY FrameFacts
  <2>2. nextPacket \in Nat /\ nextPacket' \in Nat
    BY DEF TypeInv, LinkTypeOK
  <2> QED BY <2>1, <2>2, LinkFacts
<1>2. /\ \A f \in Known : f.pos < nextPos /\ f.packet < nextPacket
      /\ \A f, g \in Known : f.pos < g.pos <=> f.packet < g.packet
      /\ \A f \in OnAir : f.pos < nextPos
      /\ Numbered => enc.frame.pos = nextPos - 1
      /\ Untracked => \A f \in Tracked : f.pos < nextPos - 1
  BY DEF NumbersInv
<1>3. \A f \in Known' : f.pos < nextPos' /\ f.packet < nextPacket'
  BY <1>1, <1>2
<1>4. \A f, g \in Known' : f.pos < g.pos <=> f.packet < g.packet
  BY <1>2
<1>5. \A f \in OnAir' : f.pos < nextPos'
  BY <1>2
<1>6. Numbered' => enc'.frame.pos = nextPos' - 1
  BY <1>2
<1>7. Untracked' => HasRoom(entries') /\ \A f \in Tracked' : f.pos < nextPos' - 1
  BY <1>2
<1> QED BY <1>3, <1>4, <1>5, <1>6, <1>7 DEF NumbersInv

\* SenderInv holds on when no number is given out and no packet leaves unnoticed.
LEMMA SenderQuiet ==
  ASSUME LinkFits, TypeInv, TypeInv', NumbersInv, NEW A \in Nat, SenderInv(A),
         nextPos' = nextPos, ertm' = ertm,
         Tracked' \subseteq Tracked \cup Fresh, InHand' \subseteq InHand \cup Tracked,
         MaxRetries = 0 => Tracked \cup Fresh \subseteq Tracked' \cup Fresh'
  PROVE  SenderInv(A)'
<1>1. /\ nextPos <= A + HalfSpace
      /\ \A f \in Tracked \cup InHand : nextPos <= f.pos + HalfSpace
      /\ \A f \in Known : f.pos \in Nat
  BY Bounds
<1>2. /\ FirstPos <= A /\ A <= nextPos
      /\ \A f \in Tracked : A <= f.pos + 1
      /\ MaxRetries = 0 => /\ nextPos <= A + Span + TxWindow + ertm
                           /\ Cardinality(Unaccounted(A)) <= ertm
  BY DEF SenderInv
<1>3. /\ Fresh \subseteq {enc.frame} /\ (Fresh # {} => Untracked /\ Numbered)
      /\ Fresh \subseteq InHand /\ InHand \subseteq Known
  BY DEF Fresh, Untracked, Numbered, InHand, Known
<1>4. \A f \in Fresh : f.pos = nextPos - 1
  BY <1>3 DEF NumbersInv
<1>5. \A f \in Tracked' : A <= f.pos + 1
  <2>1. nextPos \in Nat
    BY LinkFacts
  <2> QED BY <1>2, <1>4, <2>1
<1>6. \A f \in InHand' : nextPos' <= f.pos + HalfSpace
  BY <1>1
<1>7. ASSUME MaxRetries = 0
      PROVE  nextPos' <= A + Span + TxWindow + ertm' /\ Cardinality(Unaccounted(A)') <= ertm'
  <2>1. Unaccounted(A)' \subseteq Unaccounted(A)
    BY <1>7 DEF Unaccounted
  <2>2. IsFiniteSet(Unaccounted(A))
    <3>1. A + Span \in Int /\ nextPos - 1 \in Int
      BY LinkFacts
    <3>2. IsFiniteSet((A + Span) .. (nextPos - 1))
      BY <3>1, FS_Interval
    <3>3. Unaccounted(A) \subseteq (A + Span) .. (nextPos - 1)
      BY DEF Unaccounted
    <3> QED BY <3>2, <3>3, FS_Subset
  <2>3. /\ IsFiniteSet(Unaccounted(A)')
        /\ Cardinality(Unaccounted(A)') <= Cardinality(Unaccounted(A))
    BY <2>1, <2>2, FS_Subset
  <2>4. /\ Cardinality(Unaccounted(A)) \in Nat /\ Cardinality(Unaccounted(A)') \in Nat
        /\ ertm \in Nat
    BY <2>2, <2>3, FS_CardinalityType, LinkFacts
  <2> QED BY <1>2, <1>7, <2>3, <2>4
<1> QED BY <1>2, <1>5, <1>6, <1>7 DEF SenderInv

\* A frame is queued, or leaves the queue.
LEMMA AirQuiet ==
  ASSUME LinkFits, TypeInv, NumbersInv, AirInv, NEW A \in Nat, SenderInv(A),
         accepted' = accepted,
         \/ air' = air
         \/ air # <<>> /\ air' = Tail(air)
         \/ \E f \in Frames : /\ air' = Append(air, f)
                              /\ nextPos <= f.pos + HalfSpace
  PROVE  AirInv'
<1>1. /\ air \in Seq(Frames) /\ nextPos \in Nat /\ HalfSpace \in Nat
      /\ \A f \in Frames : f.pos \in Nat
      /\ Known \in SUBSET Frames
  BY LinkFacts, FrameFacts
<1>2. /\ \A i \in 1 .. Len(air), g \in accepted : g.pos < air[i].pos + HalfSpace
      /\ \A i, j \in 1 .. Len(air) : i < j => air[i].pos < air[j].pos + HalfSpace
  BY DEF AirInv
<1>3. CASE air' = air
  BY <1>2, <1>3 DEF AirInv
<1>4. CASE air # <<>> /\ air' = Tail(air)
  <2>1. /\ Len(air') = Len(air) - 1 /\ Len(air) \in Nat
        /\ \A i \in 1 .. Len(air') : i + 1 \in 1 .. Len(air) /\ air'[i] = air[i + 1]
    BY <1>1, <1>4
  <2>2. \A i \in 1 .. Len(air'), g \in accepted' : g.pos < air'[i].pos + HalfSpace
    BY <1>2, <2>1
  <2>3. \A i, j \in 1 .. Len(air') : i < j => air'[i].pos < air'[j].pos + HalfSpace
    <3>1. \A i, j \in 1 .. Len(air') : i < j => i + 1 < j + 1
      OBVIOUS
    <3> QED BY <1>2, <2>1, <3>1
  <2> QED BY <2>2, <2>3 DEF AirInv
<1>5. ASSUME NEW f \in Frames, air' = Append(air, f), nextPos <= f.pos + HalfSpace
      PROVE  AirInv'
  <2>1. /\ Len(air') = Len(air) + 1 /\ Len(air) \in Nat
        /\ \A i \in 1 .. Len(air) : air'[i] = air[i]
        /\ air'[Len(air) + 1] = f
    BY <1>1, <1>5
  <2>2. \A i \in 1 .. Len(air') : i \in 1 .. Len(air) \/ i = Len(air) + 1
    BY <2>1
  <2>3. \A g \in accepted : g.pos \in Nat /\ g.pos < nextPos
    BY <1>1 DEF NumbersInv, Known
  <2>4. \A i \in 1 .. Len(air) : air[i].pos \in Nat /\ air[i].pos < nextPos
    <3>1. \A i \in 1 .. Len(air) : air[i] \in OnAir
      BY DEF OnAir
    <3>2. \A h \in OnAir : h.pos < nextPos /\ h \in Frames
      BY LinkFacts DEF NumbersInv
    <3> QED BY <1>1, <3>1, <3>2
  <2>5. \A i \in 1 .. Len(air'), g \in accepted' : g.pos < air'[i].pos + HalfSpace
    BY <1>1, <1>2, <1>5, <2>1, <2>2, <2>3
  <2>6. ASSUME NEW i \in 1 .. Len(air'), NEW j \in 1 .. Len(air'), i < j
        PROVE  air'[i].pos < air'[j].pos + HalfSpace
    <3>1. i \in 1 .. Len(air) /\ air'[i] = air[i]
      BY <2>1, <2>2, <2>6
    <3>2. CASE j \in 1 .. Len(air)
      BY <1>2, <2>1, <2>6, <3>1, <3>2
    <3>3. CASE j = Len(air) + 1
      BY <1>1, <1>5, <2>1, <2>4, <3>1, <3>3
    <3> QED BY <2>2, <3>2, <3>3
  <2> QED BY <2>5, <2>6 DEF AirInv
<1> QED BY <1>3, <1>4, <1>5

\* A step of the sender that numbers and tracks nothing.
LEMMA EncodeQuiet ==
  ASSUME LinkFits, TypeInv, TypeInv', NumbersInv, AirInv, NEW A \in Nat, SenderInv(A),
         nextPos' = nextPos, ertm' = ertm, nextPacket <= nextPacket',
         accepted' = accepted,
         HoldsNoMore(entries', entries), MaxRetries = 0 => HoldsNoMore(entries, entries'),
         InHand' \subseteq InHand \cup Tracked, Fresh' = Fresh,
         Numbered' => Numbered /\ enc'.frame = enc.frame, Untracked' => Untracked,
         \/ air' = air
         \/ air # <<>> /\ air' = Tail(air)
         \/ InHand = {enc.frame} /\ air' = Append(air, enc.frame)
  PROVE  NumbersInv' /\ SenderInv(A)' /\ AirInv'
<1>1. /\ Tracked' \subseteq Tracked
      /\ HasRoom(entries) => HasRoom(entries')
      /\ MaxRetries = 0 => Tracked \subseteq Tracked'
  BY FewerTracked, MoreTracked
<1>2. /\ air \in Seq(Frames) /\ Known \in SUBSET Frames
      /\ \A f \in Known : Data(f)
  BY LinkFacts
<1>3. OnAir' \subseteq OnAir \cup InHand
  <2>1. CASE air' = air
    BY <2>1 DEF OnAir
  <2>2. CASE air # <<>> /\ air' = Tail(air)
    <3>1. /\ Len(air') = Len(air) - 1 /\ Len(air) \in Nat
          /\ \A i \in 1 .. Len(air') : i + 1 \in 1 .. Len(air) /\ air'[i] = air[i + 1]
      BY <1>2, <2>2
    <3> QED BY <3>1 DEF OnAir
  <2>3. CASE InHand = {enc.frame} /\ air' = Append(air, enc.frame)
    <3>1. enc.frame \in Frames
      BY DEF TypeInv, LinkTypeOK
    <3>2. \A i \in 1 .. Len(air') : air'[i] = enc.frame
                                    \/ (i \in 1 .. Len(air) /\ air'[i] = air[i])
      BY <1>2, <2>3, <3>1
    <3> QED BY <2>3, <3>2 DEF OnAir
  <2> QED BY <2>1, <2>2, <2>3
<1>4. Known' \subseteq Known
  BY <1>1, <1>3 DEF Known, Data, NoPacket
<1>5. OnAir' \subseteq OnAir \cup Known
  BY <1>3 DEF Known
<1>6. Untracked => HasRoom(entries)
  BY DEF NumbersInv
<1>7. NumbersInv'
  BY <1>1, <1>4, <1>5, <1>6, NumbersQuiet
<1>8. SenderInv(A)'
  BY <1>1, SenderQuiet
<1>9. AirInv'
  <2>1. CASE InHand = {enc.frame} /\ air' = Append(air, enc.frame)
    <3>1. enc.frame \in Frames /\ nextPos <= enc.frame.pos + HalfSpace
      BY <2>1, Bounds DEF TypeInv, LinkTypeOK
    <3> QED BY <2>1, <3>1, AirQuiet
  <2> QED BY <2>1, AirQuiet
<1> QED BY <1>7, <1>8, <1>9

\* The frame in hand, numbered last, is tracked: there is room, and no entry
\* has its number.
LEMMA EncTrackInv ==
  ASSUME LinkFits, TypeInv, TypeInv', NumbersInv, AirInv, NEW A \in Nat, SenderInv(A),
         EncTrack
  PROVE  NumbersInv' /\ SenderInv(A)' /\ AirInv'
<1> DEFINE f == enc.frame
           s == SeqOf(f)
<1>1. /\ entries' = TryInsert(entries, s, f) /\ enc.at = "track"
      /\ enc' = [enc EXCEPT !.at = IF Downlink THEN "top" ELSE "push"]
      /\ UNCHANGED <<nextPos, nextPacket, ertm, air, accepted>>
  BY DEF EncTrack, Goto, HistoryUnchanged
<1>2. /\ entries \in TxMaps /\ f \in Frames
      /\ enc \in [at : Labels, retx : SUBSET Seqs, frame : Frames]
      /\ nextPos \in Nat /\ nextPacket \in Nat /\ Known \in SUBSET Frames
  <2>1. /\ entries \in TxMaps /\ nextPos \in Nat /\ nextPacket \in Nat
        /\ Known \in SUBSET Frames
    BY LinkFacts
  <2>2. enc \in [at : Labels, retx : SUBSET Seqs, frame : Frames]
    BY DEF TypeInv, LinkTypeOK
  <2> QED BY <2>1, <2>2
<1>3. /\ enc'.at = (IF Downlink THEN "top" ELSE "push") /\ enc'.frame = f
  BY <1>1, <1>2
<1>4. /\ InHand = {f} /\ Fresh = {f} /\ Numbered /\ Untracked
      /\ InHand' \subseteq {f} /\ Fresh' = {} /\ ~Untracked'
      /\ enc'.frame = enc.frame
  BY <1>1, <1>3 DEF InHand, Fresh, Numbered, Untracked, Downlink
<1>5. f.pos = nextPos - 1 /\ HasRoom(entries) /\ \A g \in Tracked : g.pos < nextPos - 1
  BY <1>4 DEF NumbersInv
<1>6. entries[s] = NoEntry
  <2>1. SUFFICES ASSUME entries[s] # NoEntry PROVE FALSE
    OBVIOUS
  <2>2. s \in Seqs
    BY <1>2, FrameFacts
  <2> DEFINE g == entries[s].packet
  <2>3. g \in Tracked /\ SeqOf(g) = s
    BY <2>1, <2>2 DEF Tracked, Outstanding, TypeInv, EntriesOK
  <2> HIDE DEF g
  <2>4. g.pos < f.pos /\ nextPos <= g.pos + HalfSpace /\ g.pos \in Nat /\ f.pos \in Nat
    <3>1. g \in Known
      BY <2>3 DEF Known
    <3> QED BY <1>2, <1>5, <2>3, <3>1, Bounds, FrameFacts
  <2>5. g.pos # f.pos /\ -SeqSpace < g.pos - f.pos /\ g.pos - f.pos < SeqSpace
    BY <1>2, <1>5, <2>4, HalfSpaceAssumption DEF SeqSpace
  <2> QED BY <2>3, <2>4, <2>5, NumbersDiffer DEF SeqOf
<1>7. s \in Seqs
  BY <1>2, FrameFacts
<1> HIDE DEF f, s
<1>8. /\ \A t \in Seqs : t # s => entries'[t] = entries[t]
      /\ entries'[s] # NoEntry /\ entries'[s].packet = f
  BY <1>1, <1>2, <1>5, <1>6, <1>7, TryInsertProperties
<1>9. Tracked' \subseteq Tracked \cup Fresh /\ Tracked \cup Fresh \subseteq Tracked'
  <2>1. ASSUME NEW g \in Tracked' PROVE g \in Tracked \cup {f}
    <3>1. PICK t \in Seqs : entries'[t] # NoEntry /\ g = entries'[t].packet
      BY <2>1 DEF Tracked, Outstanding
    <3>2. CASE t = s
      BY <1>8, <3>1, <3>2
    <3>3. CASE t # s
      BY <1>8, <3>1, <3>3 DEF Tracked, Outstanding
    <3> QED BY <3>2, <3>3
  <2>2. ASSUME NEW g \in Tracked PROVE g \in Tracked'
    <3>1. PICK t \in Seqs : entries[t] # NoEntry /\ g = entries[t].packet
      BY <2>2 DEF Tracked, Outstanding
    <3>2. t # s
      BY <1>6, <3>1
    <3> QED BY <1>8, <3>1, <3>2 DEF Tracked, Outstanding
  <2>3. f \in Tracked'
    BY <1>7, <1>8 DEF Tracked, Outstanding
  <2> QED BY <1>4, <2>1, <2>2, <2>3
<1>10. OnAir' = OnAir /\ Known' \subseteq Known
  <2>1. OnAir' = OnAir
    BY <1>1 DEF OnAir
  <2> QED BY <1>1, <1>4, <1>9, <2>1 DEF Known, Data, NoPacket
<1>11. NumbersInv'
  BY <1>1, <1>2, <1>4, <1>10, NumbersQuiet
<1>12. SenderInv(A)'
  BY <1>1, <1>4, <1>9, SenderQuiet
<1>13. AirInv'
  BY <1>1, AirQuiet
<1> QED BY <1>11, <1>12, <1>13

\* The sender holds no more packets than its window has room for, so the
\* positions given out run ahead of the last ACK by that at most.
LEMMA RoomForNumber ==
  ASSUME TypeInv, MaxRetries = 0, NEW A \in Nat, SenderInv(A), HasRoom(entries),
         Fresh = {}
  PROVE  nextPos + 1 <= A + Span + TxWindow + ertm
<1> DEFINE I == (A + Span) .. (nextPos - 1)
           U == Unaccounted(A)
           P == {entries[s].packet.pos : s \in Outstanding(entries)}
<1>1. /\ nextPos \in Nat /\ ertm \in Nat /\ Span \in Nat /\ TxWindow \in Nat
  BY LinkFacts
<1>2. /\ IsFiniteSet(I)
      /\ Cardinality(I) = IF A + Span > nextPos - 1 THEN 0
                          ELSE (nextPos - 1) - (A + Span) + 1
  <2>1. A + Span \in Int /\ nextPos - 1 \in Int
    BY <1>1
  <2> QED BY <2>1, FS_Interval
<1>3. IsFiniteSet(U) /\ Cardinality(U) <= ertm /\ Cardinality(U) \in Nat
  <2>1. U \subseteq I
    BY DEF Unaccounted
  <2>2. IsFiniteSet(U)
    BY <1>2, <2>1, FS_Subset
  <2> QED BY <2>2, FS_CardinalityType DEF SenderInv
<1>4. IsFiniteSet(P) /\ Cardinality(P) <= Cardinality(Outstanding(entries))
      /\ Cardinality(P) \in Nat /\ Cardinality(Outstanding(entries)) \in Nat
  <2> DEFINE S == Outstanding(entries)
  <2>1. IsFiniteSet(S)
    BY OutstandingFinite
  <2> DEFINE h == [s \in S |-> entries[s].packet.pos]
  <2>2. h \in Surjection(S, P)
    BY DEF Surjection
  <2> HIDE DEF h, S, P
  <2>3. IsFiniteSet(P) /\ Cardinality(P) <= Cardinality(S)
    BY <2>1, <2>2, FS_Surjection
  <2> QED BY <2>1, <2>3, FS_CardinalityType DEF S
<1>5. I \subseteq U \cup P
  BY DEF Unaccounted, Tracked
<1> HIDE DEF I, U, P
<1>6. /\ IsFiniteSet(U \cup P)
      /\ Cardinality(U \cup P) = Cardinality(U) + Cardinality(P) - Cardinality(U \cap P)
      /\ Cardinality(U \cap P) \in Nat
  <2>1. IsFiniteSet(U \cap P)
    BY <1>3, FS_Subset
  <2> QED BY <1>3, <1>4, <2>1, FS_Union, FS_CardinalityType
<1>7. Cardinality(I) <= Cardinality(U \cup P) /\ Cardinality(I) \in Nat
      /\ Cardinality(U \cup P) \in Nat
  BY <1>2, <1>5, <1>6, FS_Subset, FS_CardinalityType
<1>8. Cardinality(Outstanding(entries)) < TxWindow
  BY DEF HasRoom
<1> QED BY <1>1, <1>2, <1>3, <1>4, <1>6, <1>7, <1>8

\* Numbering a datagram: the room in the window, or the count of datagrams, keeps
\* the new number within half the space of all that is under way.
LEMMA EncNumberInv ==
  ASSUME LinkFits, TypeInv, TypeInv', NumbersInv, AirInv, NEW A \in Nat, SenderInv(A),
         EncNumber
  PROVE  NumbersInv' /\ SenderInv(A)' /\ AirInv'
<1> DEFINE f == [pos |-> nextPos, packet |-> nextPacket]
<1>1. /\ enc.at = "new" /\ HasRoom(entries)
      /\ enc' = [enc EXCEPT !.at = IF Downlink THEN "push" ELSE "track", !.frame = f]
      /\ nextPos' = nextPos + 1 /\ nextPacket' = nextPacket + 1
      /\ UNCHANGED <<entries, ertm, air, accepted>>
  BY DEF EncNumber, HistoryUnchanged
<1>2. /\ nextPos \in Nat /\ nextPacket \in Nat /\ ertm \in Nat /\ HalfSpace \in Nat \ {0}
      /\ Span \in Nat /\ TxWindow \in Nat
      /\ Known \in SUBSET Frames /\ \A g \in Frames : g.pos \in Nat /\ g.packet \in Nat
  BY LinkFacts, FrameFacts
<1>3. enc'.at = (IF Downlink THEN "push" ELSE "track") /\ enc'.frame = f
  BY <1>1 DEF TypeInv, LinkTypeOK
<1>4. f.pos = nextPos /\ f.packet = nextPacket
  OBVIOUS
<1> HIDE DEF f
<1>5. /\ InHand = {} /\ Fresh = {} /\ InHand' = {f} /\ Fresh' = {f}
      /\ Tracked' = Tracked /\ OnAir' = OnAir
  BY <1>1, <1>3 DEF InHand, Fresh, Untracked, Downlink, Tracked, OnAir
<1>6. Known' \subseteq Known \cup {f}
  BY <1>1, <1>5 DEF Known, Data, NoPacket
<1>7. /\ \A g \in Known : g.pos < nextPos /\ g.packet < nextPacket
                          /\ g.pos \in Nat /\ g.packet \in Nat
      /\ \A g, h \in Known : g.pos < h.pos <=> g.packet < h.packet
      /\ \A g \in OnAir : g.pos < nextPos /\ g.pos \in Nat
  BY <1>2, LinkFacts DEF NumbersInv
<1>8. NumbersInv'
  <2>1. \A g \in Known' : g.pos < nextPos' /\ g.packet < nextPacket'
    BY <1>1, <1>2, <1>4, <1>6, <1>7
  <2>2. ASSUME NEW g \in Known', NEW h \in Known'
        PROVE  g.pos < h.pos <=> g.packet < h.packet
    <3>1. (g \in Known \/ g = f) /\ (h \in Known \/ h = f)
      BY <1>6
    <3> QED BY <1>2, <1>4, <1>7, <3>1
  <2>3. \A g \in OnAir' : g.pos < nextPos'
    BY <1>1, <1>2, <1>5, <1>7
  <2>4. enc'.frame.pos = nextPos' - 1
    BY <1>1, <1>2, <1>3, <1>4
  <2>5. HasRoom(entries') /\ \A g \in Tracked' : g.pos < nextPos' - 1
    BY <1>1, <1>2, <1>5, <1>7 DEF Known
  <2> QED BY <2>1, <2>2, <2>3, <2>4, <2>5 DEF NumbersInv
<1>9. SenderInv(A)'
  <2>1. /\ FirstPos <= A /\ A <= nextPos
        /\ \A g \in Tracked : A <= g.pos + 1
        /\ MaxRetries = 0 => Cardinality(Unaccounted(A)) <= ertm
    BY DEF SenderInv
  <2>2. \A g \in InHand' : nextPos' <= g.pos + HalfSpace
    BY <1>1, <1>2, <1>4, <1>5
  <2>3. ASSUME MaxRetries = 0
        PROVE  /\ nextPos' <= A + Span + TxWindow + ertm'
               /\ Cardinality(Unaccounted(A)') <= ertm'
    <3>1. Unaccounted(A)' \subseteq Unaccounted(A)
      <4>1. ASSUME NEW y \in Unaccounted(A)' PROVE y \in Unaccounted(A)
        <5>1. /\ y \in (A + Span) .. nextPos /\ y # f.pos
              /\ \A g \in Tracked : y # g.pos
          BY <1>1, <1>2, <1>5 DEF Unaccounted
        <5>2. y \in (A + Span) .. (nextPos - 1)
          BY <1>2, <1>4, <5>1
        <5> QED BY <1>5, <5>1, <5>2 DEF Unaccounted
      <4> QED BY <4>1
    <3>2. IsFiniteSet(Unaccounted(A))
      <4>1. A + Span \in Int /\ nextPos - 1 \in Int
        BY <1>2
      <4>2. IsFiniteSet((A + Span) .. (nextPos - 1))
        BY <4>1, FS_Interval
      <4> QED BY <4>2, FS_Subset DEF Unaccounted
    <3>3. /\ Cardinality(Unaccounted(A)') <= Cardinality(Unaccounted(A))
          /\ Cardinality(Unaccounted(A)) \in Nat /\ Cardinality(Unaccounted(A)') \in Nat
      BY <3>1, <3>2, FS_Subset, FS_CardinalityType
    <3>4. nextPos + 1 <= A + Span + TxWindow + ertm
      BY <1>1, <1>5, <2>3, RoomForNumber
    <3> QED BY <1>1, <1>2, <2>1, <2>3, <3>3, <3>4
  <2> QED BY <1>1, <1>2, <1>5, <2>1, <2>2, <2>3 DEF SenderInv
<1>10. AirInv'
  BY <1>1 DEF AirInv
<1> QED BY <1>8, <1>9, <1>10

\* Numbering an eRTM report, which no window ever counts.
LEMMA EncErtmInv ==
  ASSUME LinkFits, TypeInv, TypeInv', NumbersInv, AirInv, NEW A \in Nat, SenderInv(A),
         EncErtm
  PROVE  NumbersInv' /\ SenderInv(A)' /\ AirInv'
<1> DEFINE f == [pos |-> nextPos, packet |-> NoPacket]
<1>1. /\ enc.at = "ertm" /\ air' = Append(air, f) /\ enc' = [enc EXCEPT !.at = "new"]
      /\ nextPos' = nextPos + 1 /\ ertm' = ertm + 1 /\ ertm < MaxErtm
      /\ UNCHANGED <<entries, nextPacket, accepted>>
  BY DEF EncErtm, Push, Goto, HistoryUnchanged
<1>2. /\ nextPos \in Nat /\ nextPacket \in Nat /\ ertm \in Nat /\ HalfSpace \in Nat \ {0}
      /\ Span \in Nat /\ TxWindow \in Nat /\ air \in Seq(Frames)
      /\ Known \in SUBSET Frames /\ \A g \in Frames : g.pos \in Nat /\ g.packet \in Nat
  BY LinkFacts, FrameFacts
<1>3. enc'.at = "new"
  BY <1>1 DEF TypeInv, LinkTypeOK
<1>4. f.pos = nextPos /\ ~Data(f)
  BY DEF Data
<1>11. f \in Frames
  <2>1. /\ MaxPackets \in Nat /\ FirstPos \in Nat /\ nextPacket \in 0 .. MaxPackets
        /\ MaxErtm \in Nat
        /\ FirstPos <= nextPos /\ nextPos <= FirstPos + nextPacket + ertm
    BY LinkFacts
  <2> QED BY <1>1, <1>2, <2>1 DEF Frames, NoPacket
<1> HIDE DEF f
<1>5. /\ InHand' = {} /\ Fresh = {} /\ Fresh' = {} /\ Tracked' = Tracked
      /\ ~Numbered' /\ ~Untracked'
  BY <1>1, <1>3 DEF InHand, Fresh, Numbered, Untracked, Tracked
<1>6. OnAir' \subseteq OnAir \cup {f}
  <2>1. \A i \in 1 .. Len(air') : air'[i] = f \/ (i \in 1 .. Len(air) /\ air'[i] = air[i])
    BY <1>1, <1>2, <1>11
  <2> QED BY <2>1 DEF OnAir
<1>7. Known' \subseteq Known
  BY <1>1, <1>4, <1>5, <1>6 DEF Known, Data, NoPacket
<1>8. NumbersInv'
  <2>1. /\ \A g \in Known : g.pos < nextPos /\ g.packet < nextPacket /\ g.pos \in Nat
        /\ \A g, h \in Known : g.pos < h.pos <=> g.packet < h.packet
        /\ \A g \in OnAir : g.pos < nextPos /\ g.pos \in Nat
    BY <1>2, LinkFacts DEF NumbersInv
  <2>2. \A g \in Known' : g.pos < nextPos' /\ g.packet < nextPacket'
    BY <1>1, <1>2, <1>7, <2>1
  <2>3. \A g \in OnAir' : g.pos < nextPos'
    BY <1>1, <1>2, <1>4, <1>6, <2>1
  <2>4. \A g, h \in Known' : g.pos < h.pos <=> g.packet < h.packet
    BY <1>7, <2>1
  <2> QED BY <1>5, <2>2, <2>3, <2>4 DEF NumbersInv
<1>9. SenderInv(A)'
  <2>1. /\ FirstPos <= A /\ A <= nextPos
        /\ \A g \in Tracked : A <= g.pos + 1
        /\ MaxRetries = 0 => /\ nextPos <= A + Span + TxWindow + ertm
                             /\ Cardinality(Unaccounted(A)) <= ertm
    BY DEF SenderInv
  <2>3. ASSUME MaxRetries = 0
        PROVE  /\ nextPos' <= A + Span + TxWindow + ertm'
               /\ Cardinality(Unaccounted(A)') <= ertm'
    <3>1. Unaccounted(A)' \subseteq Unaccounted(A) \cup {nextPos}
      <4>1. ASSUME NEW y \in Unaccounted(A)', y # nextPos PROVE y \in Unaccounted(A)
        <5>1. /\ y \in (A + Span) .. nextPos
              /\ \A g \in Tracked : y # g.pos
          BY <1>1, <1>2, <1>5 DEF Unaccounted
        <5>2. y \in (A + Span) .. (nextPos - 1)
          BY <1>2, <4>1, <5>1
        <5> QED BY <1>5, <5>1, <5>2 DEF Unaccounted
      <4> QED BY <4>1
    <3>2. IsFiniteSet(Unaccounted(A))
      <4>1. A + Span \in Int /\ nextPos - 1 \in Int
        BY <1>2
      <4>2. IsFiniteSet((A + Span) .. (nextPos - 1))
        BY <4>1, FS_Interval
      <4> QED BY <4>2, FS_Subset DEF Unaccounted
    <3>3. /\ IsFiniteSet(Unaccounted(A) \cup {nextPos})
          /\ Cardinality(Unaccounted(A) \cup {nextPos}) <= Cardinality(Unaccounted(A)) + 1
          /\ Cardinality(Unaccounted(A)) \in Nat
          /\ Cardinality(Unaccounted(A) \cup {nextPos}) \in Nat
      <4>1. /\ IsFiniteSet(Unaccounted(A) \cup {nextPos})
            /\ Cardinality(Unaccounted(A) \cup {nextPos}) =
                 IF nextPos \in Unaccounted(A) THEN Cardinality(Unaccounted(A))
                 ELSE Cardinality(Unaccounted(A)) + 1
        BY <3>2, FS_AddElement
      <4>2. Cardinality(Unaccounted(A)) \in Nat
        BY <3>2, FS_CardinalityType
      <4> QED BY <4>1, <4>2
    <3>4. /\ Cardinality(Unaccounted(A)') <= Cardinality(Unaccounted(A) \cup {nextPos})
          /\ Cardinality(Unaccounted(A)') \in Nat
      <4>1. IsFiniteSet(Unaccounted(A) \cup {nextPos})
        BY <3>3
      <4>2. /\ IsFiniteSet(Unaccounted(A)')
            /\ Cardinality(Unaccounted(A)') <= Cardinality(Unaccounted(A) \cup {nextPos})
        BY <3>1, <4>1, FS_Subset
      <4> QED BY <4>2, FS_CardinalityType
    <3>5. Cardinality(Unaccounted(A)') <= Cardinality(Unaccounted(A)) + 1
      BY <3>3, <3>4
    <3>6. /\ nextPos' = nextPos + 1 /\ ertm' = ertm + 1 /\ ertm \in Nat /\ nextPos \in Nat
          /\ A + Span + TxWindow \in Nat
      BY <1>1, <1>2
    <3>7. nextPos <= A + Span + TxWindow + ertm /\ Cardinality(Unaccounted(A)) <= ertm
      BY <2>1, <2>3
    <3>8. nextPos' <= A + Span + TxWindow + ertm'
      BY <3>6, <3>7
    <3>9. Cardinality(Unaccounted(A)') <= ertm'
      BY <3>3, <3>4, <3>5, <3>6, <3>7
    <3> QED BY <3>8, <3>9
  <2> QED BY <1>1, <1>2, <1>5, <2>1, <2>3 DEF SenderInv
<1>10. AirInv'
  <2>1. nextPos <= f.pos + HalfSpace
    BY <1>2, <1>4
  <2> QED BY <1>1, <1>11, <2>1, AirQuiet
<1> QED BY <1>8, <1>9, <1>10

\* Every step of the encode thread keeps the sender's part.
LEMMA EncodeInv ==
  ASSUME LinkFits, TypeInv, TypeInv', NumbersInv, AirInv, NEW A \in Nat, SenderInv(A),
         Encode
  PROVE  NumbersInv' /\ SenderInv(A)' /\ AirInv'
<1>1. /\ entries \in TxMaps /\ nextPacket \in Nat
      /\ enc \in [at : Labels, retx : SUBSET Seqs, frame : Frames]
      /\ \A v : HoldsNoMore(v, v)
      /\ \A v, w : FewerEntries(v, w) => HoldsNoMore(v, w)
  <2>1. entries \in TxMaps /\ nextPacket \in Nat
    BY LinkFacts
  <2> QED BY <2>1 DEF TypeInv, LinkTypeOK, HoldsNoMore, FewerEntries
<1>2. accepted' = accepted
  BY DEF Encode, EncAbandon, EncCollect, EncCopy, EncRepush, EncMark,
         EncRetransmitEnd, EncErtm, EncNoErtm, EncIdle, EncDrop, EncNumber,
         EncTrack, EncPush, HistoryUnchanged
<1>3. CASE EncAbandon
  <2>1. /\ enc.at = "top" /\ entries' = DropAbandoned(entries)
        /\ enc' = [enc EXCEPT !.at = "collect"]
        /\ UNCHANGED <<nextPos, nextPacket, ertm, air>>
    BY <1>3 DEF EncAbandon, Goto
  <2>2. HoldsNoMore(entries', entries)
    BY <1>1, <2>1, WithoutProperties DEF DropAbandoned
  <2>3. MaxRetries = 0 => HoldsNoMore(entries, entries')
    BY <1>1, <2>1 DEF DropAbandoned, Abandoned, Without, HoldsNoMore
  <2>4. enc'.at = "collect"
    BY <1>1, <2>1
  <2>5. /\ InHand' = {} /\ Fresh' = {} /\ Fresh = {} /\ ~Numbered' /\ ~Untracked'
    BY <2>1, <2>4 DEF InHand, Fresh, Numbered, Untracked
  <2> QED BY <1>1, <1>2, <2>1, <2>2, <2>3, <2>5, EncodeQuiet
<1>4. CASE EncCollect \/ EncRetransmitEnd \/ EncNoErtm \/ EncIdle \/ EncDrop
  <2>1. /\ enc.at \in {"collect", "retransmit", "ertm", "new"}
        /\ enc'.at \in {"retransmit", "ertm", "new", "top"}
        /\ UNCHANGED <<entries, nextPos, ertm, air>>
    BY <1>1, <1>4 DEF EncCollect, EncRetransmitEnd, EncNoErtm, EncIdle, EncDrop, Goto
  <2>2. nextPacket' = nextPacket \/ nextPacket' = nextPacket + 1
    BY <1>4 DEF EncCollect, EncRetransmitEnd, EncNoErtm, EncIdle, EncDrop
  <2>3. /\ InHand' = {} /\ Fresh' = {} /\ Fresh = {} /\ ~Numbered' /\ ~Untracked'
    BY <2>1 DEF InHand, Fresh, Numbered, Untracked
  <2>4. nextPacket <= nextPacket'
    BY <1>1, <2>2
  <2> QED BY <1>1, <1>2, <2>1, <2>3, <2>4, EncodeQuiet
<1>5. CASE EncCopy
  <2>1. PICK s \in enc.retx :
          enc' = IF entries[s] = NoEntry THEN [enc EXCEPT !.retx = @ \ {s}]
                 ELSE [enc EXCEPT !.at = "repush", !.frame = entries[s].packet]
    BY <1>5 DEF EncCopy
  <2>2. enc.at = "retransmit" /\ UNCHANGED <<entries, nextPos, nextPacket, ertm, air>>
    BY <1>5 DEF EncCopy
  <2>3. s \in Seqs
    BY <1>1
  <2>4. /\ entries[s] = NoEntry => enc'.at = "retransmit"
        /\ entries[s] # NoEntry => enc'.at = "repush" /\ enc'.frame = entries[s].packet
    BY <1>1, <2>1, <2>2
  <2>5. InHand' \subseteq Tracked
    BY <2>3, <2>4 DEF InHand, Tracked, Outstanding
  <2>6. Fresh' = {} /\ Fresh = {} /\ ~Numbered' /\ ~Untracked'
    BY <2>2, <2>4 DEF Fresh, Numbered, Untracked
  <2> QED BY <1>1, <1>2, <2>2, <2>5, <2>6, EncodeQuiet
<1>6. CASE EncRepush
  <2>1. /\ enc.at = "repush" /\ enc' = [enc EXCEPT !.at = "mark"]
        /\ air' = Append(air, enc.frame)
        /\ UNCHANGED <<entries, nextPos, nextPacket, ertm>>
    BY <1>6 DEF EncRepush, Push, Goto
  <2>2. enc'.at = "mark"
    BY <1>1, <2>1
  <2>3. /\ InHand = {enc.frame} /\ InHand' = {} /\ Fresh' = {} /\ Fresh = {}
        /\ ~Numbered' /\ ~Untracked'
    BY <2>1, <2>2 DEF InHand, Fresh, Numbered, Untracked
  <2> QED BY <1>1, <1>2, <2>1, <2>3, EncodeQuiet
<1>7. CASE EncMark
  <2> DEFINE s == SeqOf(enc.frame)
  <2>1. /\ entries' = MarkTransmitted(entries, s)
        /\ enc' = [enc EXCEPT !.at = "retransmit", !.retx = @ \ {s}]
        /\ enc.at = "mark" /\ UNCHANGED <<nextPos, nextPacket, ertm, air>>
    BY <1>7 DEF EncMark
  <2>2. /\ s \in Seqs
        /\ entries[s] = NoEntry \/ MaxRetries = 0 \/ entries[s].retries < MaxRetries
    BY <1>1, <2>1 DEF TypeInv, EntriesOK
  <2>3. enc'.at = "retransmit"
    BY <1>1, <2>1
  <2> HIDE DEF s
  <2>4. /\ \A t \in Seqs : t # s => entries'[t] = entries[t]
        /\ entries'[s] # NoEntry <=> entries[s] # NoEntry
        /\ entries'[s] # NoEntry => entries'[s].packet = entries[s].packet
    BY <1>1, <2>1, <2>2, MarkProperties
  <2>5. HoldsNoMore(entries', entries) /\ HoldsNoMore(entries, entries')
    BY <2>4 DEF HoldsNoMore
  <2>6. InHand' = {} /\ Fresh' = {} /\ Fresh = {} /\ ~Numbered' /\ ~Untracked'
    BY <2>1, <2>3 DEF InHand, Fresh, Numbered, Untracked
  <2> QED BY <1>1, <1>2, <2>1, <2>5, <2>6, EncodeQuiet
<1>8. CASE EncErtm
  BY <1>8, EncErtmInv
<1>9. CASE EncNumber
  BY <1>9, EncNumberInv
<1>10. CASE EncTrack
  BY <1>10, EncTrackInv
<1>11. CASE EncPush
  <2>1. /\ enc' = [enc EXCEPT !.at = IF Downlink THEN "track" ELSE "top"]
        /\ air' = Append(air, enc.frame) /\ enc.at = "push"
        /\ UNCHANGED <<entries, nextPos, nextPacket, ertm>>
    BY <1>11 DEF EncPush, Goto, Push
  <2>2. enc'.at = (IF Downlink THEN "track" ELSE "top") /\ enc'.frame = enc.frame
    BY <1>1, <2>1
  <2>3. /\ InHand = {enc.frame} /\ InHand' \subseteq InHand /\ Fresh' = Fresh
        /\ Numbered /\ (Untracked' <=> Untracked)
    BY <2>1, <2>2 DEF InHand, Fresh, Numbered, Untracked, Downlink
  <2> QED BY <1>1, <1>2, <2>1, <2>2, <2>3, EncodeQuiet
<1> QED BY <1>3, <1>4, <1>5, <1>6, <1>7, <1>8, <1>9, <1>10, <1>11 DEF Encode

-----------------------------------------------------------------------------
(***************************************************************************)
(* The receiver's part, and the ACKs.                                       *)
(***************************************************************************)
LEMMA ReceiverQuiet ==
  ASSUME NEW A \in Nat, NEW B \in Nat, NEW fb \in Seq(Nat),
         ReceiverInv(A, B), FeedbackInv(A, B, fb), DeliveredInv(B),
         UNCHANGED <<rx, feedback, delivered, accepted>>
  PROVE  ReceiverInv(A, B)' /\ FeedbackInv(A, B, fb)' /\ DeliveredInv(B)'
<1>1. ReceiverInv(A, B)'
  BY DEF ReceiverInv, Recorded
<1>2. FeedbackInv(A, B, fb)'
  BY DEF FeedbackInv, Recorded
<1>3. DeliveredInv(B)'
  BY DEF DeliveredInv
<1> QED BY <1>1, <1>2, <1>3

\* The oldest ACK under way, and those behind it.
LEMMA OldestAck ==
  ASSUME TypeInv, NEW A \in Nat, NEW B \in Nat, NEW fb \in Seq(Nat),
         ReceiverInv(A, B), FeedbackInv(A, B, fb), feedback # <<>>
  PROVE  /\ rx.gotAny /\ Head(feedback) \in Feedback
         /\ Head(fb) \in Nat /\ A <= Head(fb) /\ Head(fb) <= B
         /\ Head(feedback).base = Head(fb) % SeqSpace
         /\ Recorded(Head(fb), Head(feedback).bits)
         /\ Tail(fb) \in Seq(Nat) /\ Len(Tail(fb)) = Len(Tail(feedback))
         /\ \A i \in 1 .. Len(Tail(fb)) :
              /\ Head(fb) <= Tail(fb)[i] /\ Tail(fb)[i] <= B
              /\ Tail(feedback)[i].base = Tail(fb)[i] % SeqSpace
              /\ Recorded(Tail(fb)[i], Tail(feedback)[i].bits)
         /\ \A i, j \in 1 .. Len(Tail(fb)) : i < j => Tail(fb)[i] <= Tail(fb)[j]
<1>1. /\ Len(fb) = Len(feedback) /\ feedback \in Seq(Feedback)
      /\ \A i \in 1 .. Len(fb) : /\ A <= fb[i] /\ fb[i] <= B
                                 /\ feedback[i].base = fb[i] % SeqSpace
                                 /\ Recorded(fb[i], feedback[i].bits)
      /\ \A i, j \in 1 .. Len(fb) : i < j => fb[i] <= fb[j]
  BY DEF FeedbackInv, TypeInv, LinkTypeOK, RxTypeOK
<1>2. rx.gotAny
  BY DEF ReceiverInv
<1>3. fb # <<>> /\ 1 \in 1 .. Len(fb) /\ Head(fb) = fb[1] /\ Head(feedback) = feedback[1]
      /\ Head(fb) \in Nat /\ Head(feedback) \in Feedback
  BY <1>1
<1>4. /\ Tail(fb) \in Seq(Nat) /\ Len(Tail(fb)) = Len(fb) - 1
      /\ Len(Tail(feedback)) = Len(feedback) - 1 /\ Len(fb) \in Nat
      /\ \A i \in 1 .. Len(Tail(fb)) :
           /\ i + 1 \in 1 .. Len(fb) /\ 1 < i + 1
           /\ Tail(fb)[i] = fb[i + 1] /\ Tail(feedback)[i] = feedback[i + 1]
  BY <1>1, <1>3
<1>5. \A i \in 1 .. Len(Tail(fb)) :
        /\ Head(fb) <= Tail(fb)[i] /\ Tail(fb)[i] <= B
        /\ Tail(feedback)[i].base = Tail(fb)[i] % SeqSpace
        /\ Recorded(Tail(fb)[i], Tail(feedback)[i].bits)
  BY <1>1, <1>3, <1>4
<1>6. \A i, j \in 1 .. Len(Tail(fb)) : i < j => Tail(fb)[i] <= Tail(fb)[j]
  <2>1. \A i, j \in 1 .. Len(Tail(fb)) : i < j => i + 1 < j + 1
    OBVIOUS
  <2> QED BY <1>1, <1>4, <2>1
<1> QED BY <1>1, <1>2, <1>3, <1>4, <1>5, <1>6

\* Where a tracked frame stands to the base C of an ACK.
LEMMA AckedPositions ==
  ASSUME LinkFits, TypeInv, NumbersInv, NEW A \in Nat, NEW B \in Nat,
         SenderInv(A), ReceiverInv(A, B), rx.gotAny,
         NEW C \in Nat, A <= C, C <= B, NEW f \in Tracked
  PROVE  /\ SeqDiff(SeqOf(f), C % SeqSpace) = f.pos - C
         /\ \A i \in Offsets : SeqOf(f) = SeqAdd(C % SeqSpace, i) => f.pos = C + i
         /\ f.pos \in Nat /\ B <= nextPos
<1>1. /\ nextPos <= A + HalfSpace /\ nextPos <= f.pos + HalfSpace
      /\ f.pos \in Nat /\ f.pos < nextPos
      /\ HalfSpace \in Nat /\ nextPos \in Nat
  <2>1. f \in Known
    BY DEF Known
  <2> QED BY <2>1, Bounds, LinkFacts DEF NumbersInv
<1>2. B <= nextPos
  <2>1. PICK g \in accepted : B <= g.pos + 1
    BY DEF ReceiverInv
  <2>2. g.pos \in Nat /\ g.pos < nextPos
    <3>1. g \in Known
      BY DEF Known
    <3> QED BY <3>1, Bounds DEF NumbersInv
  <2> QED BY <1>1, <2>1, <2>2
<1>3. -HalfSpace <= f.pos - C /\ f.pos - C < HalfSpace
  BY <1>1, <1>2
<1>4. SeqDiff(SeqOf(f), C % SeqSpace) = f.pos - C
  BY <1>1, <1>3, DistanceOfNumbers DEF SeqOf
<1>5. ASSUME NEW i \in Offsets, SeqOf(f) = SeqAdd(C % SeqSpace, i)
      PROVE  f.pos = C + i
  <2>1. i \in (-HalfSpace) .. (HalfSpace - 1) /\ C % SeqSpace \in Seqs /\ i \in Nat
    BY SpanFacts, Division DEF Offsets
  <2>2. SeqDiff(SeqAdd(C % SeqSpace, i), C % SeqSpace) = i
    BY <2>1, SeqDiffOfAdd
  <2>3. f.pos - C = i /\ i \in Nat /\ f.pos \in Nat
    BY <1>1, <1>4, <1>5, <2>1, <2>2
  <2> QED BY <2>3
<1> QED BY <1>1, <1>2, <1>4, <1>5

\* What an ACK releases, and what it leaves.
LEMMA Released ==
  ASSUME LinkFits, TypeInv, NumbersInv, NEW A \in Nat, NEW B \in Nat,
         NEW fb \in Seq(Nat), Placed(A, B, fb), AckArrives
  PROVE  LET C == Head(fb)
         IN  /\ HoldsNoMore(entries', entries)
             /\ \A s \in Outstanding(entries) \ Outstanding(entries') :
                  LET f == entries[s].packet
                  IN  \/ f.pos < C
                      \/ f.pos < C + Span /\ \E g \in accepted : g.pos = f.pos
             /\ \A f \in Tracked' : C <= f.pos
             /\ \A f \in Tracked : f \in Tracked' \/ f.pos < C + Span
<1> DEFINE C == Head(fb)
           ack == Head(feedback)
<1>1. /\ SenderInv(A) /\ ReceiverInv(A, B) /\ FeedbackInv(A, B, fb)
      /\ feedback # <<>> /\ entries' = ProcessAck(entries, ack)
  BY DEF Placed, AckArrives, TakeFeedback
<1>2. /\ rx.gotAny /\ ack \in Feedback /\ C \in Nat /\ A <= C /\ C <= B
      /\ ack.base = C % SeqSpace /\ Recorded(C, ack.bits)
  BY <1>1, OldestAck
<1>3. /\ entries \in TxMaps /\ ack.bits \in SUBSET Offsets
      /\ Span \in Nat \ {0}
  BY <1>2, LinkFacts DEF Feedback
<1> HIDE DEF C, ack
<1>4. HoldsNoMore(entries', entries)
  BY <1>1, <1>3, WithoutProperties DEF ProcessAck, HoldsNoMore, FewerEntries
<1>5. \A s \in Outstanding(entries) :
        /\ s \in Seqs /\ entries[s].packet \in Tracked /\ SeqOf(entries[s].packet) = s
  BY DEF Outstanding, Tracked, TypeInv, EntriesOK
<1>6. \A f \in Tracked : /\ SeqDiff(SeqOf(f), ack.base) = f.pos - C
                         /\ \A i \in Offsets : SeqOf(f) = SeqAdd(ack.base, i)
                                                => f.pos = C + i
                         /\ f.pos \in Nat
  BY <1>1, <1>2, AckedPositions
<1>7. \A i \in Offsets : i \in Nat /\ i < Span
  BY <1>3 DEF Offsets
<1>8. \A s \in Outstanding(entries) : s \in AckedBy(entries, ack) <=>
        \/ SeqDiff(s, ack.base) < 0
        \/ \E i \in ack.bits : s = SeqAdd(ack.base, i)
  BY DEF AckedBy
<1>9. \A s \in Outstanding(entries) :
        \/ s \in Outstanding(entries') /\ entries'[s] = entries[s]
           /\ s \notin AckedBy(entries, ack)
        \/ s \in AckedBy(entries, ack)
  BY <1>1 DEF ProcessAck, Without, Outstanding
<1>10. \A s \in Outstanding(entries') :
         s \in Outstanding(entries) /\ entries'[s] = entries[s]
         /\ s \notin AckedBy(entries, ack)
  BY <1>1 DEF ProcessAck, Without, Outstanding
<1>11. ASSUME NEW s \in Outstanding(entries), s \in AckedBy(entries, ack)
       PROVE  LET f == entries[s].packet
              IN  \/ f.pos < C
                  \/ f.pos < C + Span /\ \E g \in accepted : g.pos = f.pos
  <2> DEFINE f == entries[s].packet
  <2>1. f \in Tracked /\ SeqOf(f) = s
    BY <1>5
  <2> HIDE DEF f
  <2>2. CASE SeqDiff(s, ack.base) < 0
    BY <1>2, <1>6, <2>1, <2>2 DEF f
  <2>3. ASSUME NEW i \in ack.bits, s = SeqAdd(ack.base, i)
        PROVE  f.pos < C + Span /\ \E g \in accepted : g.pos = f.pos
    <3>1. i \in Offsets /\ f.pos = C + i
      BY <1>3, <1>6, <2>1, <2>3
    <3>2. \E g \in accepted : g.pos = C + i
      BY <1>2 DEF Recorded
    <3> QED BY <1>2, <1>3, <1>7, <3>1, <3>2
  <2> QED BY <1>8, <1>11, <2>2, <2>3 DEF f
<1>12. \A s \in Outstanding(entries) \ Outstanding(entries') :
         LET f == entries[s].packet
         IN  \/ f.pos < C
             \/ f.pos < C + Span /\ \E g \in accepted : g.pos = f.pos
  BY <1>9, <1>11
<1>13. ASSUME NEW f \in Tracked' PROVE C <= f.pos
  <2>1. PICK s \in Outstanding(entries') : f = entries'[s].packet
    BY DEF Tracked
  <2>2. f = entries[s].packet /\ s \in Outstanding(entries)
        /\ s \notin AckedBy(entries, ack)
    BY <1>10, <2>1
  <2>3. ~(SeqDiff(s, ack.base) < 0) /\ f \in Tracked /\ SeqOf(f) = s
    BY <1>5, <1>8, <2>2
  <2> QED BY <1>2, <1>6, <2>3
<1>14. ASSUME NEW f \in Tracked, f \notin Tracked' PROVE f.pos < C + Span
  <2>1. PICK s \in Outstanding(entries) : f = entries[s].packet
    BY DEF Tracked
  <2>2. s \in AckedBy(entries, ack)
    BY <1>9, <1>14, <2>1 DEF Tracked
  <2> QED BY <1>2, <1>3, <1>6, <1>11, <2>1, <2>2
<1> QED BY <1>4, <1>12, <1>13, <1>14 DEF C

\* An ACK processed, however late: it moves A up to the base it was made at.
LEMMA AckArrivesInv ==
  ASSUME LinkFits, TypeInv, TypeInv', NumbersInv, AirInv, NEW A \in Nat, NEW B \in Nat,
         NEW fb \in Seq(Nat), Placed(A, B, fb), AckArrives
  PROVE  /\ NumbersInv' /\ AirInv'
         /\ \E C \in Nat, rest \in Seq(Nat) : Placed(C, B, rest)'
<1> DEFINE C == Head(fb)
<1>1. /\ SenderInv(A) /\ ReceiverInv(A, B) /\ FeedbackInv(A, B, fb) /\ DeliveredInv(B)
      /\ feedback # <<>> /\ feedback' = Tail(feedback)
      /\ UNCHANGED <<rx, enc, nextPos, nextPacket, ertm, air, delivered, accepted>>
  BY DEF Placed, AckArrives, TakeFeedback, HistoryUnchanged
<1>2. /\ rx.gotAny /\ C \in Nat /\ A <= C /\ C <= B
      /\ Tail(fb) \in Seq(Nat) /\ Len(Tail(fb)) = Len(Tail(feedback))
      /\ \A i \in 1 .. Len(Tail(fb)) :
           /\ C <= Tail(fb)[i] /\ Tail(fb)[i] <= B
           /\ Tail(feedback)[i].base = Tail(fb)[i] % SeqSpace
           /\ Recorded(Tail(fb)[i], Tail(feedback)[i].bits)
      /\ \A i, j \in 1 .. Len(Tail(fb)) : i < j => Tail(fb)[i] <= Tail(fb)[j]
  BY <1>1, OldestAck
<1>3. /\ HoldsNoMore(entries', entries)
      /\ \A f \in Tracked' : C <= f.pos
      /\ \A f \in Tracked : f \in Tracked' \/ f.pos < C + Span
  BY Released
<1> DEFINE rest == Tail(fb)
<1> HIDE DEF C, rest
<1>4. /\ Tracked' \subseteq Tracked
      /\ HasRoom(entries) => HasRoom(entries')
  BY <1>3, FewerTracked
<1>5. /\ InHand' = InHand /\ Fresh' = Fresh /\ OnAir' = OnAir
      /\ (Numbered' <=> Numbered) /\ (Untracked' <=> Untracked)
      /\ enc'.frame = enc.frame
  BY <1>1 DEF InHand, Fresh, OnAir, Numbered, Untracked
<1>6. /\ nextPacket \in Nat /\ nextPos \in Nat /\ Span \in Nat /\ TxWindow \in Nat
      /\ ertm \in Nat /\ FirstPos \in Nat
  BY LinkFacts
<1>7. NumbersInv'
  <2>1. Known' \subseteq Known
    BY <1>1, <1>4, <1>5 DEF Known, Data, NoPacket
  <2>2. Untracked => HasRoom(entries)
    BY DEF NumbersInv
  <2> QED BY <1>1, <1>4, <1>5, <1>6, <2>1, <2>2, NumbersQuiet
<1>8. AirInv'
  BY <1>1, AirQuiet
<1>9. SenderInv(C)'
  <2>1. /\ FirstPos <= A /\ A <= nextPos
        /\ \A f \in InHand : nextPos <= f.pos + HalfSpace
        /\ MaxRetries = 0 => /\ nextPos <= A + Span + TxWindow + ertm
                             /\ Cardinality(Unaccounted(A)) <= ertm
    BY <1>1 DEF SenderInv
  <2>2. C <= nextPos
    <3>1. PICK g \in accepted : B <= g.pos + 1
      BY <1>1, <1>2 DEF ReceiverInv
    <3>2. g.pos \in Nat /\ g.pos < nextPos
      <4>1. g \in Known
        BY DEF Known
      <4> QED BY <1>1, <4>1, Bounds DEF NumbersInv
    <3> QED BY <1>2, <1>6, <3>1, <3>2
  <2>3. \A f \in Tracked' : C <= f.pos + 1
    <3>1. \A f \in Tracked' : f.pos \in Nat
      BY <1>1, <1>4, Bounds DEF Known
    <3> QED BY <1>2, <1>3, <3>1
  <2>4. ASSUME MaxRetries = 0
        PROVE  /\ nextPos' <= C + Span + TxWindow + ertm'
               /\ Cardinality(Unaccounted(C)') <= ertm'
    <3>1. Unaccounted(C)' \subseteq Unaccounted(A)
      <4>1. ASSUME NEW y \in Unaccounted(C)' PROVE y \in Unaccounted(A)
        <5>1. /\ y \in (C + Span) .. (nextPos - 1)
              /\ \A f \in Tracked' : y # f.pos
              /\ \A f \in Fresh : y # f.pos
          BY <1>1, <1>5 DEF Unaccounted
        <5>2. y \in (A + Span) .. (nextPos - 1)
          BY <1>2, <1>6, <5>1
        <5>3. \A f \in Tracked : f.pos \in Nat
          BY <1>1, Bounds DEF Known
        <5>4. \A f \in Tracked : y # f.pos
          BY <1>2, <1>3, <1>6, <5>1, <5>3
        <5> QED BY <5>1, <5>2, <5>4 DEF Unaccounted
      <4> QED BY <4>1
    <3>2. IsFiniteSet(Unaccounted(A))
      <4>1. A + Span \in Int /\ nextPos - 1 \in Int
        BY <1>6
      <4>2. IsFiniteSet((A + Span) .. (nextPos - 1))
        BY <4>1, FS_Interval
      <4> QED BY <4>2, FS_Subset DEF Unaccounted
    <3>3. /\ Cardinality(Unaccounted(C)') <= Cardinality(Unaccounted(A))
          /\ Cardinality(Unaccounted(A)) \in Nat /\ Cardinality(Unaccounted(C)') \in Nat
      BY <3>1, <3>2, FS_Subset, FS_CardinalityType
    <3> QED BY <1>1, <1>2, <1>6, <2>1, <2>4, <3>3
  <2> QED BY <1>1, <1>2, <1>5, <1>6, <2>1, <2>2, <2>3, <2>4 DEF SenderInv
<1>10. ReceiverInv(C, B)' /\ DeliveredInv(B)'
  <2>1. ReceiverInv(C, B)'
    BY <1>1, <1>2 DEF ReceiverInv, Recorded
  <2>2. DeliveredInv(B)'
    BY <1>1 DEF DeliveredInv
  <2> QED BY <2>1, <2>2
<1>11. FeedbackInv(C, B, rest)'
  BY <1>1, <1>2 DEF FeedbackInv, Recorded, rest
<1>12. Placed(C, B, rest)' /\ C \in Nat /\ rest \in Seq(Nat)
  BY <1>2, <1>9, <1>10, <1>11 DEF Placed, rest
<1> QED BY <1>7, <1>8, <1>12

-----------------------------------------------------------------------------
(***************************************************************************)
(* A data frame arrives.                                                    *)
(***************************************************************************)
\* A frame is known by its position, and by its packet.
LEMMA SameFrame ==
  ASSUME TypeInv, NumbersInv, NEW f \in Known, NEW g \in Known,
         f.pos = g.pos \/ f.packet = g.packet
  PROVE  f = g
<1>1. /\ f \in Frames /\ g \in Frames
      /\ f.pos \in Nat /\ g.pos \in Nat /\ f.packet \in Nat /\ g.packet \in Nat
  <2>1. f \in Frames /\ g \in Frames
    BY LinkFacts
  <2> QED BY <2>1, FrameFacts
<1>2. (f.pos < g.pos <=> f.packet < g.packet) /\ (g.pos < f.pos <=> g.packet < f.packet)
  BY DEF NumbersInv
<1>3. f.pos = g.pos /\ f.packet = g.packet
  BY <1>1, <1>2
<1> QED BY <1>1, <1>3 DEF Frames

\* Where the oldest frame on the air stands to the position B of the base;
\* the first one fixes it.
Reached(B) ==
  LET x == Head(air).pos
  IN  /\ IF rx.gotAny THEN rx.ackBase = B % SeqSpace ELSE B = x /\ rx.ackBitmap = {}
      /\ -HalfSpace <= x - B /\ x - B < HalfSpace

\* What is known of the data frame that arrives next.
LEMMA OldestFrame ==
  ASSUME TypeInv, air # <<>>, Data(Head(air))
  PROVE  /\ Head(air) \in Known /\ Head(air) \in Frames
         /\ Head(air) = air[1] /\ 1 \in 1 .. Len(air)
         /\ Head(air).pos \in Nat /\ Head(air).packet \in Payloads
         /\ FirstPos <= Head(air).pos
<1>1. air \in Seq(Frames)
  BY LinkFacts
<1>2. Head(air) = air[1] /\ 1 \in 1 .. Len(air) /\ Head(air) \in Frames
  BY <1>1
<1>3. Head(air) \in Known
  BY <1>2 DEF Known, OnAir
<1> QED BY <1>2, <1>3, FrameFacts

\* The base has a position within half the space of the frame that arrives, also
\* when this frame is the first and so fixes the base.
LEMMA ArrivalPosition ==
  ASSUME LinkFits, TypeInv, NumbersInv, AirInv, NEW A \in Nat, NEW B \in Nat,
         NEW fb \in Seq(Nat), Placed(A, B, fb), air # <<>>, Data(Head(air))
  PROVE  \E D \in Nat : Placed(A, D, fb) /\ Reached(D)
<1> DEFINE f == Head(air)
<1>1. /\ f \in Known /\ f = air[1] /\ 1 \in 1 .. Len(air)
      /\ f.pos \in Nat /\ FirstPos <= f.pos
  BY OldestFrame
<1>2. SenderInv(A) /\ ReceiverInv(A, B) /\ FeedbackInv(A, B, fb) /\ DeliveredInv(B)
  BY DEF Placed
<1>3. /\ f.pos < nextPos /\ nextPos <= A + HalfSpace
      /\ nextPos \in Nat /\ HalfSpace \in Nat \ {0}
  BY <1>1, <1>2, Bounds, LinkFacts DEF NumbersInv
<1>4. CASE rx.gotAny
  <2>1. A <= B /\ rx.ackBase = B % SeqSpace /\ \E g \in accepted : B <= g.pos + 1
    BY <1>2, <1>4 DEF ReceiverInv
  <2>2. PICK g \in accepted : B <= g.pos + 1
    BY <2>1
  <2>3. g.pos < f.pos + HalfSpace
    BY <1>1 DEF AirInv
  <2>4. g.pos \in Nat
    BY <1>2, Bounds DEF Known
  <2>5. -HalfSpace <= f.pos - B /\ f.pos - B < HalfSpace
    BY <1>1, <1>3, <2>1, <2>2, <2>3, <2>4
  <2>6. Reached(B)
    BY <1>4, <2>1, <2>5 DEF Reached
  <2> QED BY <2>6
<1>5. CASE ~rx.gotAny
  <2>1. A = FirstPos /\ accepted = {} /\ delivered = <<>> /\ feedback = <<>>
    BY <1>2, <1>5 DEF ReceiverInv
  <2>2. rx.ackBitmap = {}
    BY <1>5 DEF TypeInv, WindowInv
  <2>3. ReceiverInv(A, f.pos)
    BY <1>1, <1>5, <2>1, <2>2 DEF ReceiverInv, Recorded
  <2>4. FeedbackInv(A, f.pos, fb)
    <3>1. Len(fb) = 0
      BY <1>2, <2>1 DEF FeedbackInv
    <3> QED BY <2>1, <3>1 DEF FeedbackInv
  <2>5. DeliveredInv(f.pos)
    BY <2>1 DEF DeliveredInv
  <2>6. Reached(f.pos)
    BY <1>1, <1>3, <1>5, <2>2 DEF Reached
  <2>7. Placed(A, f.pos, fb)
    BY <1>2, <2>3, <2>4, <2>5 DEF Placed
  <2> QED BY <1>1, <2>6, <2>7
<1> QED BY <1>4, <1>5

\* The sender's part: what is accepted was known already.
LEMMA ArrivalSender ==
  ASSUME LinkFits, TypeInv, TypeInv', NumbersInv, AirInv, NEW A \in Nat, SenderInv(A),
         FrameArrives
  PROVE  NumbersInv' /\ SenderInv(A)' /\ AirInv'
<1> DEFINE f == Head(air)
<1>1. /\ air # <<>> /\ air' = Tail(air)
      /\ UNCHANGED <<entries, enc, nextPos, nextPacket, ertm>>
      /\ accepted' \subseteq accepted \cup {f}
      /\ ~Data(f) => accepted' = accepted
  BY DEF FrameArrives, txVars, Data
<1>2. /\ air \in Seq(Frames) /\ nextPacket \in Nat /\ HalfSpace \in Nat
  BY LinkFacts
<1>3. /\ Len(air') = Len(air) - 1 /\ Len(air) \in Nat
      /\ \A i \in 1 .. Len(air') : /\ i + 1 \in 1 .. Len(air) /\ 1 < i + 1
                                   /\ air'[i] = air[i + 1]
      /\ f = air[1] /\ 1 \in 1 .. Len(air)
  BY <1>1, <1>2
<1> HIDE DEF f
<1>4. /\ Tracked' = Tracked /\ InHand' = InHand /\ Fresh' = Fresh
      /\ (Numbered' <=> Numbered) /\ (Untracked' <=> Untracked)
      /\ OnAir' \subseteq OnAir
  BY <1>1, <1>3 DEF InHand, Fresh, OnAir, Numbered, Untracked, Tracked
<1>5. Known' \subseteq Known
  <2>1. f \in OnAir
    BY <1>3 DEF OnAir
  <2>2. accepted' \subseteq accepted \cup {g \in OnAir : Data(g)}
    BY <1>1, <2>1
  <2> QED BY <1>4, <2>2 DEF Known, Data, NoPacket
<1>6. NumbersInv'
  <2>1. Untracked => HasRoom(entries)
    BY DEF NumbersInv
  <2> QED BY <1>1, <1>2, <1>4, <1>5, <2>1, NumbersQuiet
<1>7. SenderInv(A)'
  BY <1>1, <1>4, SenderQuiet
<1>8. AirInv'
  <2>1. /\ \A i \in 1 .. Len(air), g \in accepted : g.pos < air[i].pos + HalfSpace
        /\ \A i, j \in 1 .. Len(air) : i < j => air[i].pos < air[j].pos + HalfSpace
    BY DEF AirInv
  <2>2. \A i \in 1 .. Len(air'), g \in accepted' : g.pos < air'[i].pos + HalfSpace
    BY <1>1, <1>3, <2>1
  <2>3. \A i, j \in 1 .. Len(air') : i < j => air'[i].pos < air'[j].pos + HalfSpace
    <3>1. \A i, j \in 1 .. Len(air') : i < j => i + 1 < j + 1
      OBVIOUS
    <3> QED BY <1>3, <2>1, <3>1
  <2> QED BY <2>2, <2>3 DEF AirInv
<1> QED BY <1>6, <1>7, <1>8

\* The window once the oldest frame on the air is through it, before the flush.
After == Taken(rx, SeqOf(Head(air)), Head(air).packet)
IsNewAt(B) == NewAt(rx, Head(air).pos, B)
TakesTo(B, O, C) == TakenAt(After, rx, Head(air).pos, B, O, C)

\* The arrival, in positions: the frame is taken exactly if it is new at B.
LEMMA ArrivalTaken ==
  ASSUME TypeInv, NEW B \in Nat, Reached(B), FrameArrives, Data(Head(air))
  PROVE  /\ Receive(SeqOf(Head(air)), Head(air).packet)
         /\ delivered' = delivered \o udpOut'
         /\ IsNew(Opened(rx, SeqOf(Head(air))), SeqOf(Head(air))) <=> IsNewAt(B)
         /\ accepted' = IF IsNewAt(B) THEN accepted \cup {Head(air)} ELSE accepted
         /\ \E O \in Nat, C \in Nat : TakesTo(B, O, C)
<1> DEFINE f == Head(air)
           x == f.pos
           p == f.packet
<1>1. /\ x \in Nat /\ p \in Payloads
  BY OldestFrame DEF FrameArrives
<1>2. /\ rx \in RxWindows /\ 0 \notin rx.ackBitmap
  BY DEF TypeInv, WindowInv, RxTypeOK
<1>3. /\ IF rx.gotAny THEN rx.ackBase = B % SeqSpace ELSE B = x /\ rx.ackBitmap = {}
      /\ -HalfSpace <= x - B /\ x - B < HalfSpace
  BY DEF Reached
<1>4. /\ Receive(SeqOf(f), p) /\ delivered' = delivered \o udpOut'
      /\ accepted' = IF IsNew(Opened(rx, SeqOf(f)), SeqOf(f))
                     THEN accepted \cup {f} ELSE accepted
  BY DEF FrameArrives, Data
<1>5. SeqOf(f) = x % SeqSpace
  BY DEF SeqOf
<1> HIDE DEF x, p
<1>6. /\ IsNew(Opened(rx, x % SeqSpace), x % SeqSpace) <=> NewAt(rx, x, B)
      /\ \E O \in Nat, C \in Nat : TakenAt(Taken(rx, x % SeqSpace, p), rx, x, B, O, C)
  BY <1>1, <1>2, <1>3, TakenAtPositions
<1> HIDE DEF f
<1>7. /\ IsNewAt(B) <=> NewAt(rx, x, B)
      /\ \A O, C : TakesTo(B, O, C) <=>
                     TakenAt(Taken(rx, SeqOf(f), p), rx, x, B, O, C)
  BY DEF IsNewAt, TakesTo, After, f, x, p
<1>8. \E O \in Nat, C \in Nat : TakesTo(B, O, C)
  BY <1>5, <1>6, <1>7
<1> QED BY <1>4, <1>5, <1>6, <1>7, <1>8 DEF f, p

\* What the window holds and hands over after the arrival.
LEMMA AfterWindow ==
  ASSUME TypeInv, FrameArrives, Data(Head(air))
  PROVE  LET f == Head(air)
         IN  /\ After \in RxWindows /\ After.gotAny
             /\ rx' = (IF Flushes THEN Drained(After) ELSE After)
             /\ udpOut' = IF Flushes THEN Deliverable(After)
                          ELSE IF IsNew(Opened(rx, SeqOf(f)), SeqOf(f))
                          THEN <<f.packet>> ELSE <<>>
             /\ feedback' = IF ackDue THEN Append(feedback, AckOf(After)) ELSE feedback
             /\ rx'.gotAny /\ rx'.ackBase = After.ackBase
             /\ rx'.ackBitmap = After.ackBitmap
             /\ After.ackBitmap \in SUBSET Offsets
<1> DEFINE f == Head(air)
           s == SeqOf(f)
           p == f.packet
<1>1. s \in Seqs /\ p \in Payloads
  BY OldestFrame, FrameFacts DEF FrameArrives
<1>2. /\ rx \in RxWindows /\ 0 \notin rx.ackBitmap
      /\ ~rx.gotAny => rx.ackBitmap = {}
  BY DEF TypeInv, WindowInv, RxTypeOK
<1>3. Receive(s, p)
  BY DEF FrameArrives, Data
<1>4. After = Taken(rx, s, p)
  BY DEF After
<1> HIDE DEF s, p
<1>5. After \in RxWindows /\ After.gotAny
  BY <1>1, <1>2, <1>4, TakenProperties
<1>6. /\ rx' = (IF Flushes THEN Drained(After) ELSE After)
      /\ udpOut' = IF Flushes THEN Deliverable(After)
                   ELSE IF IsNew(Opened(rx, s), s) THEN <<p>> ELSE <<>>
      /\ feedback' = IF ackDue THEN Append(feedback, AckOf(After)) ELSE feedback
  BY <1>3, <1>4, ReceiveIsTaken
<1> HIDE DEF After
<1>7. /\ Drained(After).gotAny = After.gotAny
      /\ Drained(After).ackBase = After.ackBase
      /\ Drained(After).ackBitmap = After.ackBitmap
  BY <1>5, DrainedType
<1>8. After.ackBitmap \in SUBSET Offsets
  BY <1>5 DEF RxWindows
<1> QED BY <1>5, <1>6, <1>7, <1>8 DEF s, p

\* The base and the bitmap: what they record has been accepted.
LEMMA ArrivalReceiver ==
  ASSUME TypeInv, NEW A \in Nat, NEW B \in Nat, NEW fb \in Seq(Nat),
         ReceiverInv(A, B), FeedbackInv(A, B, fb), Reached(B),
         FrameArrives, Data(Head(air)),
         NEW O \in Nat, NEW C \in Nat, TakesTo(B, O, C)
  PROVE  /\ ReceiverInv(A, C)'
         /\ \E ack \in Seq(Nat) : FeedbackInv(A, C, ack)'
         /\ \A y \in O .. (C - 1) : \E g \in accepted' : g.pos = y
<1> DEFINE f == Head(air)
           x == f.pos
           new == IsNewAt(B)
<1>1. /\ x \in Nat
      /\ accepted' = IF new THEN accepted \cup {f} ELSE accepted
      /\ \A g \in accepted' : g.pos \in Nat
  <2>1. x \in Nat
    BY OldestFrame DEF FrameArrives
  <2>2. accepted' = IF new THEN accepted \cup {f} ELSE accepted
    BY ArrivalTaken
  <2>3. \A g \in accepted : g.pos \in Nat
    BY FrameFacts DEF TypeInv, LinkTypeOK
  <2> QED BY <2>1, <2>2, <2>3
<1>2. /\ B <= O /\ O <= C /\ (O = B \/ (O <= x /\ new))
      /\ After.ackBase = C % SeqSpace
  BY DEF TakesTo, TakenAt, IsNewAt
<1>12. ASSUME NEW y \in Int
       PROVE  y - C \in After.ackBitmap <=>
                y >= C /\ (y - B \in rx.ackBitmap \/ (new /\ y = x))
  BY DEF TakesTo, TakenAt, IsNewAt
<1>15. \A y \in O .. (C - 1) : y - B \in rx.ackBitmap \/ (new /\ y = x)
  BY DEF TakesTo, TakenAt, IsNewAt
<1>3. new <=> x >= B /\ x - B \notin rx.ackBitmap
  BY DEF IsNewAt, NewAt
<1>4. /\ A <= B /\ Recorded(B, rx.ackBitmap)
      /\ \A g \in accepted : g.pos < B \/ g.pos - B \in rx.ackBitmap
      /\ rx.gotAny => \E g \in accepted : B <= g.pos + 1
      /\ ~rx.gotAny => B = x /\ rx.ackBitmap = {} /\ accepted = {} /\ A = FirstPos
  BY DEF ReceiverInv, Reached
<1>5. /\ rx'.gotAny /\ rx'.ackBase = After.ackBase /\ rx'.ackBitmap = After.ackBitmap
      /\ feedback' = IF ackDue THEN Append(feedback, AckOf(After)) ELSE feedback
      /\ After.ackBitmap \in SUBSET Offsets
  BY AfterWindow
<1> HIDE DEF f, x, new
<1>6. \A y \in Int : (y - B \in rx.ackBitmap \/ (new /\ y = x))
                     => \E g \in accepted' : g.pos = y
  <2>1. ASSUME NEW y \in Int, y - B \in rx.ackBitmap PROVE \E g \in accepted' : g.pos = y
    <3>1. PICK g \in accepted : g.pos = B + (y - B)
      BY <1>4, <2>1 DEF Recorded
    <3>2. g \in accepted' /\ g.pos = y
      BY <1>1, <3>1
    <3> QED BY <3>2
  <2>2. new => f \in accepted' /\ f.pos = x
    BY <1>1 DEF x
  <2> QED BY <2>1, <2>2
<1>7. \A i \in After.ackBitmap : \E g \in accepted' : g.pos = C + i
  <2>1. ASSUME NEW i \in After.ackBitmap PROVE \E g \in accepted' : g.pos = C + i
    <3>1. i \in Int
      BY <1>5, SpanFacts DEF Offsets
    <3>2. PICK y \in Int : y = C + i /\ y - C = i
      BY <3>1
    <3>3. y - B \in rx.ackBitmap \/ (new /\ y = x)
      BY <1>12, <3>2
    <3> QED BY <1>6, <3>2, <3>3
  <2> QED BY <2>1
<1>8. ASSUME NEW g \in accepted' PROVE g.pos < C \/ g.pos - C \in After.ackBitmap
  <2>1. g.pos \in Int /\ (g \in accepted \/ (new /\ g.pos = x))
    BY <1>1 DEF x
  <2>2. g.pos - C \in After.ackBitmap <=>
          g.pos >= C /\ (g.pos - B \in rx.ackBitmap \/ (new /\ g.pos = x))
    BY <1>12, <2>1
  <2>3. g.pos < C \/ g.pos >= B
    BY <1>2, <2>1
  <2>4. g \in accepted => g.pos < B \/ g.pos - B \in rx.ackBitmap
    BY <1>4
  <2>5. ~(g.pos < B) <=> g.pos >= B
    BY <2>1
  <2>6. ~(g.pos < C) <=> g.pos >= C
    BY <2>1
  <2> QED BY <2>1, <2>2, <2>3, <2>4, <2>5, <2>6
<1>9. \E g \in accepted' : C <= g.pos + 1
  <2>1. CASE C > O
    <3>1. C - 1 \in O .. (C - 1) /\ C - 1 \in Int
      BY <2>1
    <3>2. PICK g \in accepted' : g.pos = C - 1
      BY <1>6, <1>15, <3>1
    <3> QED BY <1>1, <3>2
  <2>2. CASE C = O /\ O = B
    <3>1. CASE rx.gotAny
      BY <1>1, <1>4, <2>2, <3>1
    <3>2. CASE ~rx.gotAny
      <4>1. new /\ B = x
        BY <1>1, <1>3, <1>4, <3>2
      <4>2. f \in accepted' /\ C <= f.pos + 1
        BY <1>1, <2>2, <4>1 DEF x
      <4> QED BY <4>2
    <3> QED BY <3>1, <3>2
  <2>3. CASE C = O /\ O # B
    <3>1. C <= x /\ new
      BY <1>2, <2>3
    <3>2. f \in accepted' /\ C <= f.pos + 1
      BY <1>1, <3>1 DEF x
    <3> QED BY <3>2
  <2> QED BY <1>2, <2>1, <2>2, <2>3
<1>10. ReceiverInv(A, C)'
  <2>1. A <= C
    BY <1>2, <1>4
  <2> QED BY <1>2, <1>5, <1>7, <1>8, <1>9, <2>1 DEF ReceiverInv, Recorded
<1>11. /\ Len(fb) = Len(feedback) /\ feedback \in Seq(Feedback)
       /\ \A i \in 1 .. Len(fb) : /\ A <= fb[i] /\ fb[i] <= B /\ fb[i] \in Nat
                                  /\ feedback[i].base = fb[i] % SeqSpace
                                  /\ Recorded(fb[i], feedback[i].bits)
       /\ \A i, j \in 1 .. Len(fb) : i < j => fb[i] <= fb[j]
  <2>1. feedback \in Seq(Feedback)
    BY DEF TypeInv, LinkTypeOK, RxTypeOK
  <2>2. \A i \in 1 .. Len(fb) : fb[i] \in Nat
    OBVIOUS
  <2> QED BY <2>1, <2>2 DEF FeedbackInv
<1>16. \A i \in 1 .. Len(fb) : /\ A <= fb[i] /\ fb[i] <= C
                               /\ \A k \in feedback[i].bits :
                                    \E g \in accepted' : g.pos = fb[i] + k
  <2>1. \A i \in 1 .. Len(fb) : A <= fb[i] /\ fb[i] <= C
    BY <1>2, <1>11
  <2>2. \A i \in 1 .. Len(fb) : \A k \in feedback[i].bits :
          \E g \in accepted' : g.pos = fb[i] + k
    BY <1>1, <1>11 DEF Recorded
  <2> QED BY <2>1, <2>2
<1>17. \A y \in O .. (C - 1) : \E g \in accepted' : g.pos = y
  BY <1>6, <1>15
<1>13. CASE ~ackDue
  <2>1. feedback' = feedback
    BY <1>5, <1>13
  <2>4. FeedbackInv(A, C, fb)'
    BY <1>11, <1>16, <2>1 DEF FeedbackInv, Recorded
  <2> QED BY <1>10, <1>17, <2>4
<1>14. CASE ackDue
  <2> DEFINE ack == Append(fb, C)
             a == AckOf(After)
  <2>1. feedback' = Append(feedback, a)
    BY <1>5, <1>14
  <2>2. a.base = C % SeqSpace /\ a.bits = After.ackBitmap
    BY <1>2 DEF AckOf
  <2> HIDE DEF a
  <2>3. /\ ack \in Seq(Nat) /\ Len(ack) = Len(fb) + 1 /\ Len(feedback') = Len(feedback) + 1
        /\ \A i \in 1 .. Len(fb) : ack[i] = fb[i] /\ feedback'[i] = feedback[i]
        /\ ack[Len(fb) + 1] = C /\ feedback'[Len(fb) + 1] = a
        /\ Len(fb) \in Nat
    <3>1. /\ ack \in Seq(Nat) /\ Len(ack) = Len(fb) + 1 /\ Len(fb) \in Nat
          /\ ack[Len(fb) + 1] = C
          /\ \A i \in 1 .. Len(fb) : ack[i] = fb[i]
      OBVIOUS
    <3>2. /\ Len(feedback') = Len(feedback) + 1
          /\ feedback'[Len(feedback) + 1] = a
          /\ \A i \in 1 .. Len(feedback) : feedback'[i] = feedback[i]
      BY <1>11, <2>1
    <3> QED BY <1>11, <3>1, <3>2
  <2> HIDE DEF ack
  <2>4. \A i \in 1 .. Len(ack) : i \in 1 .. Len(fb) \/ i = Len(fb) + 1
    BY <2>3
  <2>6. ASSUME NEW i \in 1 .. Len(ack)
        PROVE  /\ A <= ack[i] /\ ack[i] <= C
               /\ feedback'[i].base = ack[i] % SeqSpace
               /\ \A k \in feedback'[i].bits : \E g \in accepted' : g.pos = ack[i] + k
    <3>1. CASE i \in 1 .. Len(fb)
      BY <1>11, <1>16, <2>3, <3>1
    <3>2. CASE i = Len(fb) + 1
      <4>1. A <= C
        BY <1>2, <1>4
      <4> QED BY <1>7, <2>2, <2>3, <3>2, <4>1, SMTT(20)
    <3> QED BY <2>4, <3>1, <3>2
  <2>8. ASSUME NEW i \in 1 .. Len(ack), NEW j \in 1 .. Len(ack), i < j
        PROVE  ack[i] <= ack[j]
    <3>1. i \in 1 .. Len(fb)
      BY <2>3, <2>4, <2>8
    <3>2. CASE j \in 1 .. Len(fb)
      BY <1>11, <2>3, <2>8, <3>1, <3>2
    <3>3. CASE j = Len(fb) + 1
      BY <1>16, <2>3, <3>1, <3>3
    <3> QED BY <2>4, <3>2, <3>3
  <2>9. FeedbackInv(A, C, ack)'
    BY <1>11, <2>3, <2>6, <2>8 DEF FeedbackInv, Recorded
  <2> QED BY <1>10, <1>17, <2>3, <2>9
<1> QED BY <1>13, <1>14

\* What is held, or handed out, under a number is the packet that came with it.
LEMMA HeldValues ==
  ASSUME LinkFits, TypeInv, NumbersInv, AirInv, NEW A \in Nat, NEW B \in Nat,
         SenderInv(A), A <= B, DeliveredInv(B), Reached(B),
         FrameArrives, Data(Head(air)), Flushes,
         NEW g \in accepted', B <= g.pos
  PROVE  /\ SeqOf(g) \in Seqs /\ g.pos \in Nat /\ g.packet \in Payloads
         /\ After.reorderBuffer[SeqOf(g)] \in {g.packet, NoPayload}
<1> DEFINE f == Head(air)
           s == SeqOf(f)
           p == f.packet
           new == IsNew(Opened(rx, s), s)
<1>1. /\ f \in Known /\ f \in Frames /\ f = air[1] /\ 1 \in 1 .. Len(air)
      /\ f.pos \in Nat /\ p \in Payloads /\ s \in Seqs
  BY OldestFrame, FrameFacts DEF FrameArrives
<1>2. accepted' = IF new THEN accepted \cup {f} ELSE accepted
  BY DEF FrameArrives, Data
<1>3. /\ After = Taken(rx, s, p) /\ rx \in RxWindows /\ 0 \notin rx.ackBitmap
      /\ ~rx.gotAny => rx.ackBitmap = {}
      /\ Ordered /\ InStep(rx)
  BY DEF After, TypeInv, WindowInv, RxTypeOK, Flushes
<1>4. g \in Known /\ g \in Frames
  BY <1>1, <1>2, LinkFacts DEF Known
<1>5. g.pos \in Nat /\ SeqOf(g) \in Seqs /\ g.packet \in Payloads
  BY <1>4, LinkFacts, FrameFacts
<1> HIDE DEF f, s, p, new
<1>6. /\ OnlyAdds(After.reorderBuffer, rx.reorderBuffer, s, p)
      /\ new => After.reorderBuffer[s] = p
  BY <1>1, <1>3, TakenProperties DEF new
<1>7. CASE g \in accepted
  <2>1. rx.reorderBuffer[SeqOf(g)] = g.packet
    BY <1>5, <1>7 DEF DeliveredInv
  <2>2. /\ f.pos < nextPos /\ nextPos <= A + HalfSpace
        /\ nextPos \in Nat /\ HalfSpace \in Nat \ {0}
    BY <1>1, Bounds, LinkFacts DEF NumbersInv
  <2>3. g.pos < f.pos + HalfSpace
    BY <1>1, <1>7 DEF AirInv
  <2>4. -SeqSpace < g.pos - f.pos /\ g.pos - f.pos < SeqSpace
    BY <1>1, <1>5, <2>2, <2>3 DEF SeqSpace
  <2>5. SeqOf(g) = s => g.packet = p
    <3>1. SUFFICES ASSUME SeqOf(g) = s PROVE g.packet = p
      OBVIOUS
    <3>2. g.pos = f.pos
      BY <1>1, <1>5, <2>4, <3>1, NumbersDiffer DEF SeqOf, s
    <3>3. g = f
      BY <1>1, <1>4, <3>2, SameFrame
    <3> QED BY <3>3 DEF p
  <2> QED BY <1>5, <1>6, <2>1, <2>5 DEF OnlyAdds
<1>8. CASE g \notin accepted
  <2>1. g = f /\ new
    BY <1>2, <1>8
  <2> QED BY <1>5, <1>6, <2>1 DEF s, p
<1> QED BY <1>5, <1>7, <1>8

\* With ordered delivery, what the arrival delivers is new, in order, and follows
\* all that was delivered before.
LEMMA ArrivalFlush ==
  ASSUME LinkFits, TypeInv, TypeInv', NumbersInv, NumbersInv', AirInv,
         NEW A \in Nat, NEW B \in Nat,
         SenderInv(A), A <= B, DeliveredInv(B), Reached(B),
         FrameArrives, Data(Head(air)), Flushes,
         NEW O \in Nat, NEW C \in Nat, TakesTo(B, O, C), ReceiverInv(A, C)',
         \A y \in O .. (C - 1) : \E g \in accepted' : g.pos = y
  PROVE  /\ \A i \in 1 .. Len(udpOut') :
              \E g \in accepted' : g.pos = O + (i - 1) /\ g.packet = udpOut'[i]
         /\ Len(udpOut') = C - O
         /\ \A g \in accepted' :
              g.pos >= C => rx'.reorderBuffer[SeqOf(g)] = g.packet
<1>1. /\ After \in RxWindows /\ rx' = Drained(After) /\ udpOut' = Deliverable(After)
      /\ rx'.gotAny /\ rx'.ackBase = After.ackBase /\ rx'.ackBitmap = After.ackBitmap
      /\ After.ackBitmap \in SUBSET Offsets
  BY AfterWindow
<1>2. Ordered /\ InStep(rx)
  BY DEF TypeInv, WindowInv, Flushes
<1>3. /\ B <= O /\ O <= C /\ After.ackBase = C % SeqSpace
      /\ RunLength(After) = C - O /\ After.expectedSeq = O % SeqSpace
  BY <1>2 DEF TakesTo, TakenAt
<1>4. InStep(rx')
  <2>1. Flushes' = Flushes /\ InStep(rx)' = InStep(rx')
    BY DEF Flushes, InStep, Keeps
  <2> QED BY <2>1 DEF TypeInv, WindowInv
<1> HIDE DEF After
<1>5. /\ Deliverable(After) \in Seq(Payloads)
      /\ \A t \in Seqs : rx'.reorderBuffer[t] \in {After.reorderBuffer[t], NoPayload}
  BY <1>1, DrainedType
<1>6. \A g \in accepted' : B <= g.pos =>
        /\ SeqOf(g) \in Seqs /\ g.pos \in Nat /\ g.packet \in Payloads
        /\ After.reorderBuffer[SeqOf(g)] \in {g.packet, NoPayload}
  BY HeldValues
<1>7. \A g \in accepted' : g.pos \in Nat /\ g.pos < nextPos'
  <2>1. \A g \in accepted' : g \in Known'
    BY DEF Known
  <2>2. \A g \in accepted' : g.pos \in Nat
    BY FrameFacts DEF TypeInv, LinkTypeOK
  <2> QED BY <2>1, <2>2 DEF NumbersInv
<1>8. /\ HalfSpace \in Nat \ {0} /\ nextPos' = nextPos /\ nextPos \in Nat
      /\ nextPos <= A + HalfSpace
  BY Bounds, LinkFacts DEF FrameArrives, txVars
<1>9. /\ Len(udpOut') = C - O
      /\ \A i \in 1 .. Len(udpOut') :
           /\ udpOut'[i] = After.reorderBuffer[SeqAdd(O % SeqSpace, i - 1)]
           /\ udpOut'[i] # NoPayload
  <2>1. /\ Deliverable(After) = [i \in 1 .. (C - O) |->
             After.reorderBuffer[SeqAdd(O % SeqSpace, i - 1)]]
        /\ C - O \in Nat
    BY <1>3 DEF Deliverable
  <2>2. Len(udpOut') = C - O
    BY <1>1, <2>1
  <2>3. \A i \in 1 .. Len(udpOut') : udpOut'[i] \in Payloads
    BY <1>1, <1>5
  <2> QED BY <1>1, <2>1, <2>2, <2>3, RxWindowAssumption
<1>10. ASSUME NEW i \in 1 .. Len(udpOut')
       PROVE  \E g \in accepted' : g.pos = O + (i - 1) /\ g.packet = udpOut'[i]
  <2>1. /\ O + (i - 1) \in O .. (C - 1) /\ i - 1 \in Int /\ i - 1 >= 0
        /\ O + (i - 1) >= B
    BY <1>3, <1>9
  <2>2. PICK g \in accepted' : g.pos = O + (i - 1)
    BY <2>1
  <2>3. -SeqSpace <= i - 1 /\ i - 1 < SeqSpace
    BY <1>3, <1>7, <1>8, <2>1, <2>2 DEF SeqSpace
  <2>4. SeqOf(g) = SeqAdd(O % SeqSpace, i - 1)
    BY <2>1, <2>2, <2>3, NumberOfSum DEF SeqOf
  <2>5. udpOut'[i] = After.reorderBuffer[SeqOf(g)] /\ udpOut'[i] # NoPayload
    BY <1>9, <2>4
  <2> QED BY <1>6, <2>1, <2>2, <2>5
<1>11. ASSUME NEW g \in accepted', g.pos >= C
       PROVE  rx'.reorderBuffer[SeqOf(g)] = g.packet
  <2>1. g.pos \in Nat /\ B <= g.pos
    BY <1>3, <1>7, <1>11
  <2>2. g.pos - C \in rx'.ackBitmap /\ g.pos - C \in Offsets
    BY <1>1, <1>11, <2>1 DEF ReceiverInv
  <2>3. -HalfSpace <= g.pos - C /\ g.pos - C < HalfSpace
    <3>1. Span < HalfSpace /\ Span \in Nat /\ HalfSpace \in Nat
      BY SpanFacts
    <3> QED BY <2>2, <3>1 DEF Offsets
  <2>4. SeqDiff(SeqOf(g), rx'.ackBase) = g.pos - C
    BY <1>1, <1>3, <2>1, <2>3, DistanceOfNumbers DEF SeqOf
  <2>5. SeqOf(g) \in Seqs /\ After.reorderBuffer[SeqOf(g)] \in {g.packet, NoPayload}
    BY <1>6, <2>1
  <2>6. rx'.reorderBuffer[SeqOf(g)] # NoPayload
    BY <1>4, <2>2, <2>4, <2>5 DEF InStep, Keeps
  <2> QED BY <1>5, <2>5, <2>6
<1> QED BY <1>9, <1>10, <1>11

\* What is handed out at the BS, or without ordered delivery, is the new packet.
LEMMA ArrivalForward ==
  ASSUME TypeInv, NEW B \in Nat, Reached(B), FrameArrives, Data(Head(air)), ~Flushes,
         \A g \in accepted : g.pos < B \/ g.pos - B \in rx.ackBitmap
  PROVE  /\ Len(udpOut') \in {0, 1}
         /\ \A i \in 1 .. Len(udpOut') :
              \E g \in accepted' : g \notin accepted /\ g.packet = udpOut'[i]
<1> DEFINE f == Head(air)
           new == IsNew(Opened(rx, SeqOf(f)), SeqOf(f))
<1>1. /\ udpOut' = IF new THEN <<f.packet>> ELSE <<>>
      /\ accepted' = IF new THEN accepted \cup {f} ELSE accepted
  BY AfterWindow DEF FrameArrives, Data
<1>2. new <=> IsNewAt(B)
  BY ArrivalTaken
<1>3. f.pos \in Nat
  BY OldestFrame DEF FrameArrives
<1>4. IsNewAt(B) => f \notin accepted
  BY <1>3 DEF IsNewAt, NewAt
<1> HIDE DEF f, new
<1>5. CASE new
  <2>1. udpOut' = <<f.packet>> /\ f \in accepted'
    BY <1>1, <1>5
  <2>2. f \notin accepted
    BY <1>2, <1>4, <1>5
  <2>3. Len(udpOut') = 1 /\ udpOut'[1] = f.packet
    BY <2>1
  <2> QED BY <2>1, <2>2, <2>3
<1>6. CASE ~new
  <2>1. Len(udpOut') = 0
    BY <1>1, <1>6
  <2> QED BY <2>1
<1> QED BY <1>5, <1>6

\* The history of deliveries stays in step with the window, in both modes.
LEMMA ArrivalDelivered ==
  ASSUME LinkFits, TypeInv, TypeInv', NumbersInv, NumbersInv', AirInv,
         NEW A \in Nat, NEW B \in Nat,
         SenderInv(A), ReceiverInv(A, B), DeliveredInv(B), Reached(B),
         FrameArrives, Data(Head(air)),
         NEW O \in Nat, NEW C \in Nat, TakesTo(B, O, C), ReceiverInv(A, C)',
         \A y \in O .. (C - 1) : \E g \in accepted' : g.pos = y
  PROVE  DeliveredInv(C)'
<1>1. /\ A <= B /\ \A g \in accepted : g.pos < B \/ g.pos - B \in rx.ackBitmap
  BY DEF ReceiverInv
<1>2. /\ delivered' = delivered \o udpOut'
      /\ accepted \subseteq accepted'
      /\ delivered \in Seq(Payloads) /\ udpOut' \in Seq(Payloads)
  BY ArrivalTaken DEF TypeInv, LinkTypeOK, RxTypeOK
<1>3. /\ Len(delivered) \in Nat /\ Len(udpOut') \in Nat
      /\ \A i \in 1 .. Len(delivered) : delivered'[i] = delivered[i]
      /\ \A i \in 1 .. Len(delivered') :
           \/ i \in 1 .. Len(delivered)
           \/ /\ i - Len(delivered) \in 1 .. Len(udpOut')
              /\ delivered'[i] = udpOut'[i - Len(delivered)]
              /\ i > Len(delivered)
  <2>1. /\ Len(delivered) \in Nat /\ Len(udpOut') \in Nat
        /\ Len(delivered') = Len(delivered) + Len(udpOut')
    BY <1>2
  <2>2. \A i \in 1 .. Len(delivered') :
          delivered'[i] = IF i <= Len(delivered) THEN delivered[i]
                          ELSE udpOut'[i - Len(delivered)]
    BY <1>2
  <2>3. \A i \in 1 .. Len(delivered) : i \in 1 .. Len(delivered') /\ i <= Len(delivered)
    BY <2>1
  <2>4. \A i \in 1 .. Len(delivered') :
          \/ i \in 1 .. Len(delivered)
          \/ /\ i - Len(delivered) \in 1 .. Len(udpOut') /\ i > Len(delivered)
             /\ ~(i <= Len(delivered))
    BY <2>1
  <2> QED BY <2>1, <2>2, <2>3, <2>4
<1>4. /\ B <= O /\ O <= C
  BY DEF TakesTo, TakenAt
<1>5. /\ \A i \in 1 .. Len(delivered) : \E g \in accepted :
           g.packet = delivered[i] /\ (Flushes => g.pos < B)
      /\ \A i, j \in 1 .. Len(delivered) : i < j =>
           delivered[i] # delivered[j] /\ (Flushes => delivered[i] < delivered[j])
  BY DEF DeliveredInv
<1>6. /\ \A g \in accepted' : g \in Known' /\ g.pos \in Nat /\ g.packet \in Nat
      /\ \A g, h \in accepted' : g.pos < h.pos <=> g.packet < h.packet
      /\ \A g, h \in accepted' : g.packet = h.packet => g = h
  <2>1. \A g \in accepted' : g \in Known'
    BY DEF Known
  <2>2. \A g \in accepted' : g.pos \in Nat /\ g.packet \in Nat /\ g \in Frames
    BY FrameFacts DEF TypeInv, LinkTypeOK
  <2>3. \A g, h \in Known' : g.pos < h.pos <=> g.packet < h.packet
    BY DEF NumbersInv
  <2>4. \A g, h \in accepted' : g.packet = h.packet => g.pos = h.pos
    BY <2>1, <2>2, <2>3
  <2>5. \A g, h \in Frames : g.packet = h.packet /\ g.pos = h.pos => g = h
    BY DEF Frames
  <2> QED BY <2>1, <2>2, <2>3, <2>4, <2>5
<1>7. CASE Flushes
  <2>1. /\ \A i \in 1 .. Len(udpOut') :
             \E g \in accepted' : g.pos = O + (i - 1) /\ g.packet = udpOut'[i]
        /\ Len(udpOut') = C - O
        /\ \A g \in accepted' :
             g.pos >= C => rx'.reorderBuffer[SeqOf(g)] = g.packet
    BY <1>1, <1>7, ArrivalFlush
  <2>2. \A i \in 1 .. Len(delivered) :
          \E g \in accepted' : g.packet = delivered'[i] /\ g.pos < B
    BY <1>2, <1>3, <1>5, <1>7
  <2>3. ASSUME NEW i \in 1 .. Len(delivered'), i > Len(delivered)
        PROVE  \E g \in accepted' : /\ g.pos = O + (i - Len(delivered) - 1)
                                    /\ g.packet = delivered'[i]
                                    /\ g.pos < C /\ B <= g.pos
    <3> DEFINE k == i - Len(delivered)
    <3>1. k \in 1 .. Len(udpOut') /\ delivered'[i] = udpOut'[k]
      BY <1>3, <2>3
    <3> HIDE DEF k
    <3>2. PICK g \in accepted' : g.pos = O + (k - 1) /\ g.packet = udpOut'[k]
      BY <2>1, <3>1
    <3>3. g.pos < C /\ B <= g.pos
      BY <1>3, <1>4, <2>1, <3>1, <3>2
    <3>4. g.pos = O + (i - Len(delivered) - 1)
      BY <3>2 DEF k
    <3> QED BY <3>1, <3>2, <3>3, <3>4
  <2>4. \A i \in 1 .. Len(delivered') : i \in 1 .. Len(delivered) \/ i > Len(delivered)
    BY <1>3
  <2>5. \A i \in 1 .. Len(delivered') :
          \E g \in accepted' : g.packet = delivered'[i] /\ g.pos < C
    <3>1. \A g \in accepted' : g.pos < B => g.pos < C
      BY <1>4, <1>6
    <3> QED BY <2>2, <2>3, <2>4, <3>1
  <2>6. ASSUME NEW i \in 1 .. Len(delivered'), NEW j \in 1 .. Len(delivered'), i < j
        PROVE  delivered'[i] # delivered'[j] /\ delivered'[i] < delivered'[j]
    <3>1. CASE j \in 1 .. Len(delivered)
      <4>1. i \in 1 .. Len(delivered)
        BY <2>6, <3>1
      <4> QED BY <1>3, <1>5, <1>7, <2>6, <3>1, <4>1
    <3>2. CASE i \in 1 .. Len(delivered) /\ j > Len(delivered)
      <4>1. PICK g \in accepted' : g.packet = delivered'[i] /\ g.pos < B
        BY <2>2, <3>2
      <4>2. PICK h \in accepted' : h.packet = delivered'[j] /\ B <= h.pos
        BY <2>3, <3>2
      <4>3. g.pos < h.pos
        BY <1>6, <4>1, <4>2
      <4>4. g.packet < h.packet /\ g.packet \in Nat /\ h.packet \in Nat
        BY <1>6, <4>3
      <4> QED BY <4>1, <4>2, <4>4
    <3>3. CASE i > Len(delivered) /\ j > Len(delivered)
      <4>1. PICK g \in accepted' : /\ g.packet = delivered'[i]
                                   /\ g.pos = O + (i - Len(delivered) - 1)
        BY <2>3, <3>3
      <4>2. PICK h \in accepted' : /\ h.packet = delivered'[j]
                                   /\ h.pos = O + (j - Len(delivered) - 1)
        BY <2>3, <3>3
      <4>3. g.pos < h.pos
        BY <1>3, <2>6, <4>1, <4>2
      <4>4. g.packet < h.packet /\ g.packet \in Nat /\ h.packet \in Nat
        BY <1>6, <4>3
      <4> QED BY <4>1, <4>2, <4>4
    <3> QED BY <2>4, <3>1, <3>2, <3>3
  <2> QED BY <1>7, <2>1, <2>5, <2>6 DEF DeliveredInv
<1>8. CASE ~Flushes
  <2>1. /\ Len(udpOut') \in {0, 1}
        /\ \A i \in 1 .. Len(udpOut') :
             \E g \in accepted' : g \notin accepted /\ g.packet = udpOut'[i]
    BY <1>1, <1>8, ArrivalForward
  <2>2. \A i \in 1 .. Len(delivered) : \E g \in accepted : g.packet = delivered'[i]
    BY <1>3, <1>5
  <2>3. \A i \in 1 .. Len(delivered') :
          \/ i \in 1 .. Len(delivered)
          \/ /\ i = Len(delivered) + 1
             /\ \E g \in accepted' : g \notin accepted /\ g.packet = delivered'[i]
    BY <1>3, <2>1
  <2>4. \A i \in 1 .. Len(delivered') : \E g \in accepted' : g.packet = delivered'[i]
    BY <1>2, <2>2, <2>3
  <2>5. ASSUME NEW i \in 1 .. Len(delivered'), NEW j \in 1 .. Len(delivered'), i < j
        PROVE  delivered'[i] # delivered'[j]
    <3>1. i \in 1 .. Len(delivered)
      BY <1>3, <2>3, <2>5
    <3>2. CASE j \in 1 .. Len(delivered)
      BY <1>3, <1>5, <2>5, <3>1, <3>2
    <3>3. CASE j \notin 1 .. Len(delivered)
      <4>1. PICK g \in accepted : g.packet = delivered'[i]
        BY <2>2, <3>1
      <4>2. PICK h \in accepted' : h \notin accepted /\ h.packet = delivered'[j]
        BY <2>3, <3>3
      <4> QED BY <1>2, <1>6, <4>1, <4>2
    <3> QED BY <3>2, <3>3
  <2> QED BY <1>8, <2>4, <2>5 DEF DeliveredInv
<1> QED BY <1>7, <1>8

\* The arrival of a frame keeps the invariant, with the base at its new position.
LEMMA ArrivalInv ==
  ASSUME LinkInv, LinkFits, TypeInv', FrameArrives
  PROVE  LinkInv'
<1>1. /\ TypeInv /\ NumbersInv /\ AirInv
      /\ \E A \in Nat, B \in Nat, fb \in Seq(Nat) : Placed(A, B, fb)
  BY DEF LinkInv
<1>2. PICK A \in Nat, B \in Nat, fb \in Seq(Nat) : Placed(A, B, fb)
  BY <1>1
<1>3. SenderInv(A)
  BY <1>2 DEF Placed
<1>4. NumbersInv' /\ SenderInv(A)' /\ AirInv'
  BY <1>1, <1>3, ArrivalSender
<1>5. CASE ~Data(Head(air))
  <2>1. UNCHANGED <<rx, feedback, delivered, accepted>>
    BY <1>5 DEF FrameArrives, Data, rxVars
  <2>2. Placed(A, B, fb)'
    BY <1>2, <1>4, <2>1, ReceiverQuiet DEF Placed
  <2> QED BY <1>4, <2>2 DEF LinkInv
<1>6. CASE Data(Head(air))
  <2>1. PICK D \in Nat : Placed(A, D, fb) /\ Reached(D)
    BY <1>1, <1>2, <1>6, ArrivalPosition DEF FrameArrives
  <2>2. ReceiverInv(A, D) /\ FeedbackInv(A, D, fb) /\ DeliveredInv(D)
    BY <2>1 DEF Placed
  <2>3. PICK O \in Nat, C \in Nat : TakesTo(D, O, C)
    BY <1>1, <1>6, <2>1, ArrivalTaken
  <2>4. /\ ReceiverInv(A, C)'
        /\ \E ack \in Seq(Nat) : FeedbackInv(A, C, ack)'
        /\ \A y \in O .. (C - 1) : \E g \in accepted' : g.pos = y
    BY <1>1, <1>6, <2>1, <2>2, <2>3, ArrivalReceiver
  <2>5. PICK ack \in Seq(Nat) : FeedbackInv(A, C, ack)'
    BY <2>4
  <2>6. DeliveredInv(C)'
    BY <1>1, <1>3, <1>4, <1>6, <2>1, <2>2, <2>3, <2>4, ArrivalDelivered
  <2>7. Placed(A, C, ack)'
    BY <1>4, <2>4, <2>5, <2>6 DEF Placed
  <2> QED BY <1>4, <2>7 DEF LinkInv
<1> QED BY <1>5, <1>6

\* The invariant holds with all positions at the first frame's.
LEMMA LinkInit == Init => LinkInv
<1> SUFFICES ASSUME Init PROVE LinkInv
  OBVIOUS
<1>1. TypeInv
  BY TypeInit
<1>2. /\ entries = [s \in Seqs |-> NoEntry] /\ enc.at = "top" /\ nextPos = FirstPos
      /\ ertm = 0 /\ air = <<>> /\ delivered = <<>> /\ accepted = {}
      /\ rx = Configured /\ feedback = <<>>
  BY DEF Init, RxInit
<1>3. /\ FirstPos \in Nat /\ Span \in Nat /\ TxWindow \in Nat /\ HalfSpace \in Nat
  BY <1>1, LinkFacts
<1>4. /\ Tracked = {} /\ InHand = {} /\ OnAir = {} /\ Known = {} /\ Fresh = {}
      /\ ~Numbered /\ ~Untracked
  <2>1. /\ Tracked = {} /\ InHand = {} /\ Fresh = {} /\ ~Numbered /\ ~Untracked
    BY <1>2 DEF Tracked, Outstanding, InHand, Fresh, Numbered, Untracked
  <2>2. OnAir = {}
    <3>1. Len(air) = 0
      BY <1>2
    <3> QED BY <3>1 DEF OnAir
  <2> QED BY <1>2, <2>1, <2>2 DEF Known
<1>5. NumbersInv
  BY <1>4 DEF NumbersInv
<1>6. AirInv
  <2>1. Len(air) = 0
    BY <1>2
  <2> QED BY <2>1 DEF AirInv
<1>7. SenderInv(FirstPos)
  <2>1. Unaccounted(FirstPos) = {}
    BY <1>2, <1>3 DEF Unaccounted
  <2>2. Cardinality(Unaccounted(FirstPos)) = 0
    BY <2>1, FS_EmptySet
  <2> QED BY <1>2, <1>3, <1>4, <2>2 DEF SenderInv
<1>8. ReceiverInv(FirstPos, FirstPos)
  BY <1>2, <1>3 DEF ReceiverInv, Recorded, Configured
<1>9. FeedbackInv(FirstPos, FirstPos, <<>>)
  BY <1>2 DEF FeedbackInv
<1>10. DeliveredInv(FirstPos)
  BY <1>2 DEF DeliveredInv
<1>11. Placed(FirstPos, FirstPos, <<>>) /\ <<>> \in Seq(Nat)
  BY <1>7, <1>8, <1>9, <1>10 DEF Placed
<1> QED BY <1>1, <1>3, <1>5, <1>6, <1>11 DEF LinkInv

\* Every step of the link keeps the invariant.
LEMMA LinkStep ==
  ASSUME LinkFits, LinkInv, [Next]_vars
  PROVE  LinkInv'
<1>1. /\ TypeInv /\ NumbersInv /\ AirInv
      /\ \E A \in Nat, B \in Nat, fb \in Seq(Nat) : Placed(A, B, fb)
  BY DEF LinkInv
<1>2. TypeInv'
  BY <1>1, TypeStep
<1>3. PICK A \in Nat, B \in Nat, fb \in Seq(Nat) : Placed(A, B, fb)
  BY <1>1
<1>4. SenderInv(A) /\ ReceiverInv(A, B) /\ FeedbackInv(A, B, fb) /\ DeliveredInv(B)
  BY <1>3 DEF Placed
<1>5. ASSUME NumbersInv', AirInv', SenderInv(A)',
             UNCHANGED <<rx, feedback, delivered, accepted>>
      PROVE  LinkInv'
  <2>1. Placed(A, B, fb)'
    BY <1>4, <1>5, ReceiverQuiet DEF Placed
  <2> QED BY <1>2, <1>5, <2>1 DEF LinkInv
<1>6. CASE Encode
  <2>1. UNCHANGED <<rx, feedback, delivered, accepted>>
    BY <1>6 DEF Encode, EncAbandon, EncCollect, EncCopy, EncRepush, EncMark,
         EncRetransmitEnd, EncErtm, EncNoErtm, EncIdle, EncDrop, EncNumber,
         EncTrack, EncPush, HistoryUnchanged, rxVars
  <2> QED BY <1>1, <1>2, <1>4, <1>5, <1>6, <2>1, EncodeInv
<1>7. ASSUME UNCHANGED <<enc, nextPos, nextPacket, ertm, accepted>>,
             HoldsNoMore(entries', entries), HoldsNoMore(entries, entries'),
             air' = air \/ (air # <<>> /\ air' = Tail(air))
      PROVE  NumbersInv' /\ SenderInv(A)' /\ AirInv'
  <2>1. /\ InHand' = InHand /\ Fresh' = Fresh
        /\ (Numbered' <=> Numbered) /\ (Untracked' <=> Untracked)
        /\ enc'.frame = enc.frame
    BY <1>7 DEF InHand, Fresh, Numbered, Untracked
  <2>2. nextPacket \in Nat
    BY <1>1, LinkFacts
  <2> QED BY <1>1, <1>2, <1>4, <1>7, <2>1, <2>2, EncodeQuiet
<1>8. HoldsNoMore(entries, entries)
  BY DEF HoldsNoMore
<1>9. ASSUME NEW s \in Seqs, Timeout(s) PROVE LinkInv'
  <2>1. entries \in TxMaps
    BY <1>1, LinkFacts
  <2>2. FewerEntries(entries', entries) /\ FewerEntries(entries, entries')
    BY <1>9, <2>1, DueProperties DEF Timeout
  <2>3. HoldsNoMore(entries', entries) /\ HoldsNoMore(entries, entries')
    BY <2>2 DEF FewerEntries, HoldsNoMore
  <2> QED BY <1>5, <1>7, <1>9, <2>3 DEF Timeout, HistoryUnchanged, rxVars
<1>10. CASE FrameLost
  BY <1>5, <1>7, <1>8, <1>10 DEF FrameLost, HistoryUnchanged, rxVars, txVars
<1>11. CASE FrameArrives
  BY <1>2, <1>11, ArrivalInv
<1>12. CASE Interval \/ UNCHANGED vars
  BY <1>5, <1>7, <1>8, <1>12
     DEF Interval, AckInterval, HistoryUnchanged, vars, rxVars, txVars
<1>13. CASE AckLost
  <2>1. /\ feedback # <<>> /\ feedback' = Tail(feedback)
        /\ UNCHANGED <<rx, entries, enc, nextPos, nextPacket, ertm, air, delivered,
                       accepted>>
    BY <1>13 DEF AckLost, TakeFeedback, HistoryUnchanged, txVars
  <2>2. NumbersInv' /\ SenderInv(A)' /\ AirInv'
    BY <1>7, <1>8, <2>1
  <2>3. /\ Tail(fb) \in Seq(Nat) /\ Len(Tail(fb)) = Len(Tail(feedback))
        /\ Head(fb) \in Nat /\ A <= Head(fb) /\ rx.gotAny
        /\ \A i \in 1 .. Len(Tail(fb)) :
             /\ Head(fb) <= Tail(fb)[i] /\ Tail(fb)[i] <= B
             /\ Tail(feedback)[i].base = Tail(fb)[i] % SeqSpace
             /\ Recorded(Tail(fb)[i], Tail(feedback)[i].bits)
        /\ \A i, j \in 1 .. Len(Tail(fb)) : i < j => Tail(fb)[i] <= Tail(fb)[j]
    BY <1>1, <1>4, <2>1, OldestAck
  <2> DEFINE rest == Tail(fb)
             c == Head(fb)
  <2>6. \A i \in 1 .. Len(rest) : rest[i] \in Nat
    BY <2>3
  <2> HIDE DEF rest, c
  <2>7. \A i \in 1 .. Len(rest) : A <= rest[i]
    BY <2>3, <2>6 DEF rest
  <2>4. FeedbackInv(A, B, rest)'
    BY <2>1, <2>3, <2>7 DEF FeedbackInv, Recorded, rest
  <2>5. ReceiverInv(A, B)' /\ DeliveredInv(B)'
    <3>1. ReceiverInv(A, B)'
      BY <1>4, <2>1, <2>3 DEF ReceiverInv, Recorded
    <3>2. DeliveredInv(B)'
      BY <1>4, <2>1 DEF DeliveredInv
    <3> QED BY <3>1, <3>2
  <2>8. Placed(A, B, rest)' /\ rest \in Seq(Nat)
    BY <2>2, <2>3, <2>4, <2>5 DEF Placed, rest
  <2> QED BY <1>2, <2>2, <2>8 DEF LinkInv
<1>14. CASE AckArrives
  <2>1. /\ NumbersInv' /\ AirInv'
        /\ \E C \in Nat, rest \in Seq(Nat) : Placed(C, B, rest)'
    BY <1>1, <1>2, <1>3, <1>14, AckArrivesInv
  <2> QED BY <1>2, <2>1 DEF LinkInv
<1> QED BY <1>6, <1>9, <1>10, <1>11, <1>12, <1>13, <1>14 DEF Next

\* The invariant of the whole link, wherever the numbers under way fit.
LEMMA LinkInvariant ==
  ASSUME LinkFits
  PROVE  Spec => []LinkInv
<1>1. LinkInv /\ [Next]_vars => LinkInv'
  BY LinkStep
<1> QED BY <1>1, LinkInit, PTL DEF Spec

\* A packet released by an ACK is accepted, or behind the receiver's base.
LEMMA AckStep ==
  ASSUME LinkFits, LinkInv, AckArrives,
         NEW s \in Outstanding(entries) \ Outstanding(entries')
  PROVE  \/ entries[s].packet \in accepted
         \/ rx.gotAny /\ SeqDiff(s, rx.ackBase) < 0
<1> DEFINE f == entries[s].packet
<1>1. /\ TypeInv /\ NumbersInv
      /\ \E A \in Nat, B \in Nat, fb \in Seq(Nat) : Placed(A, B, fb)
  BY DEF LinkInv
<1>2. PICK A \in Nat, B \in Nat, fb \in Seq(Nat) : Placed(A, B, fb)
  BY <1>1
<1>3. SenderInv(A) /\ ReceiverInv(A, B) /\ FeedbackInv(A, B, fb) /\ feedback # <<>>
  BY <1>2 DEF Placed, AckArrives, TakeFeedback
<1>4. f \in Tracked /\ SeqOf(f) = s
  BY <1>1 DEF Tracked, Outstanding, TypeInv, EntriesOK
<1>5. rx.gotAny /\ Head(fb) \in Nat /\ Head(fb) <= B /\ A <= B
  BY <1>1, <1>3, OldestAck DEF ReceiverInv
<1>6. f.pos < Head(fb) \/ \E g \in accepted : g.pos = f.pos
  BY <1>1, <1>2, Released
<1> HIDE DEF f
<1>7. CASE f.pos < Head(fb)
  <2>1. SeqDiff(SeqOf(f), B % SeqSpace) = f.pos - B /\ f.pos \in Nat
    BY <1>1, <1>3, <1>4, <1>5, AckedPositions
  <2>2. rx.ackBase = B % SeqSpace
    BY <1>3, <1>5 DEF ReceiverInv
  <2> QED BY <1>4, <1>5, <1>7, <2>1, <2>2
<1>8. ASSUME NEW g \in accepted, g.pos = f.pos PROVE f \in accepted
  <2>1. g \in Known /\ f \in Known
    BY <1>4 DEF Known
  <2> QED BY <1>1, <1>8, <2>1, SameFrame
<1> QED BY <1>6, <1>7, <1>8 DEF f

(***************************************************************************)
(* process_ack (OFDMCore.hpp) releases only what the receiver is done with: *)
(* a packet it has accepted, or one behind its base that it would never     *)
(* accept any more; however old the ACK, whatever was lost and repeated,    *)
(* for every width of the numbers, window, bitmap and number of packets.    *)
(***************************************************************************)
THEOREM AcksSettle ==
  ASSUME LinkFits
  PROVE  Spec => AckedIsSettled
<1>1. LinkInv /\ [Next]_vars =>
        (AckArrives =>
           \A s \in Outstanding(entries) \ Outstanding(entries') :
             \/ entries[s].packet \in accepted
             \/ rx.gotAny /\ SeqDiff(s, rx.ackBase) < 0)
  BY AckStep
<1> QED BY <1>1, LinkInvariant, PTL DEF Spec, AckedIsSettled

\* A frame numbered after all accepted ones is taken when it arrives.
LEMMA NewestStep ==
  ASSUME LinkFits, LinkInv, FrameArrives, Data(Head(air)),
         \A g \in accepted : g.pos < Head(air).pos
  PROVE  Head(air) \in accepted'
<1> DEFINE x == Head(air).pos
<1>1. /\ TypeInv /\ NumbersInv /\ AirInv
      /\ \E A \in Nat, B \in Nat, fb \in Seq(Nat) : Placed(A, B, fb)
  BY DEF LinkInv
<1>2. PICK A \in Nat, B \in Nat, fb \in Seq(Nat) : Placed(A, B, fb)
  BY <1>1
<1>3. PICK D \in Nat : Placed(A, D, fb) /\ Reached(D)
  BY <1>1, <1>2, ArrivalPosition DEF FrameArrives
<1>4. ReceiverInv(A, D)
  BY <1>3 DEF Placed
<1>5. /\ x \in Nat /\ \A g \in accepted : g.pos \in Nat /\ g.pos < x
  BY <1>1, OldestFrame, FrameFacts DEF FrameArrives, TypeInv, LinkTypeOK
<1>6. accepted' = IF IsNewAt(D) THEN accepted \cup {Head(air)} ELSE accepted
  BY <1>1, <1>3, ArrivalTaken
<1>7. CASE rx.gotAny
  <2>1. x >= D
    BY <1>4, <1>5, <1>7 DEF ReceiverInv
  <2>2. x - D \notin rx.ackBitmap
    <3>1. SUFFICES ASSUME x - D \in rx.ackBitmap PROVE FALSE
      OBVIOUS
    <3>2. PICK g \in accepted : g.pos = D + (x - D)
      BY <1>4, <3>1 DEF ReceiverInv, Recorded
    <3> QED BY <1>5, <3>2
  <2> QED BY <1>6, <2>1, <2>2 DEF IsNewAt, NewAt
<1>8. CASE ~rx.gotAny
  <2>1. x = D /\ rx.ackBitmap = {}
    BY <1>3, <1>8 DEF Reached
  <2> QED BY <1>5, <1>6, <2>1 DEF IsNewAt, NewAt
<1> QED BY <1>7, <1>8

(***************************************************************************)
(* process_received (OFDMCore.hpp) never takes a packet numbered after all  *)
(* it has accepted for an old duplicate, however far the base is left       *)
(* behind by losses and by a receiver that joined late.                     *)
(***************************************************************************)
THEOREM NewestTaken ==
  ASSUME LinkFits
  PROVE  Spec => NewestIsAccepted
<1>1. LinkInv /\ [Next]_vars =>
        \A f \in Frames :
          /\ FrameArrives /\ f = Head(air) /\ f.packet # NoPacket
          /\ \A g \in accepted : g.pos < f.pos
          => f \in accepted'
  BY NewestStep DEF Data
<1> QED BY <1>1, LinkInvariant, PTL DEF Spec, NewestIsAccepted

\* A frame that arrives delivers in the sense of Delivery, or delivers nothing.
LEMMA ArrivalDelivers ==
  ASSUME Ordered => Receiver = "UE", LinkInv, LinkInv', FrameArrives
  PROVE  Promised!Deliver \/ UNCHANGED <<nextPacket, delivered>>
<1>1. nextPacket' = nextPacket
  BY DEF FrameArrives, txVars
<1>2. CASE ~Data(Head(air))
  BY <1>1, <1>2 DEF FrameArrives, Data
<1>3. CASE Data(Head(air))
  <2>1. /\ delivered' = delivered \o udpOut'
        /\ delivered \in Seq(Payloads) /\ udpOut' \in Seq(Payloads)
    BY <1>3 DEF FrameArrives, Data, LinkInv, TypeInv, LinkTypeOK, RxTypeOK
  <2>2. CASE udpOut' = <<>>
    BY <1>1, <2>1, <2>2
  <2>3. CASE udpOut' # <<>>
    <3>1. /\ Len(delivered') > Len(delivered)
          /\ SubSeq(delivered', 1, Len(delivered)) = delivered
      BY <2>1, <2>3
    <3>2. \E C \in Nat : DeliveredInv(C)'
      BY DEF LinkInv, Placed
    <3>3. PICK C \in Nat : DeliveredInv(C)'
      BY <3>2
    <3>4. \A g \in accepted' : g.packet \in Nat /\ g.packet < nextPacket
      <4>1. \A g \in accepted' : g \in Known'
        BY DEF Known
      <4>2. \A g \in accepted' : g.packet \in Nat
        BY FrameFacts DEF LinkInv, TypeInv, LinkTypeOK
      <4> QED BY <1>1, <4>1, <4>2 DEF LinkInv, NumbersInv
    <3>5. \A i \in 1 .. Len(delivered') : delivered'[i] \in 0 .. (nextPacket - 1)
      <4>1. nextPacket \in Nat
        BY LinkFacts DEF LinkInv
      <4>2. \A i \in 1 .. Len(delivered') : \E g \in accepted' : g.packet = delivered'[i]
        BY <3>3 DEF DeliveredInv
      <4> QED BY <3>4, <4>1, <4>2
    <3>6. \A i, j \in 1 .. Len(delivered') :
            i < j => /\ delivered'[i] # delivered'[j]
                     /\ Ordered => delivered'[i] < delivered'[j]
      BY <3>3 DEF DeliveredInv, Flushes
    <3> QED BY <1>1, <3>1, <3>5, <3>6 DEF Promised!Deliver
  <2> QED BY <2>2, <2>3
<1> QED BY <1>2, <1>3

(***************************************************************************)
(* The link implements Delivery: whatever the air loses and the sender      *)
(* repeats, the UDP output gets packets that were taken, none twice, and    *)
(* with ordered delivery in the order they were taken.  The order is the    *)
(* UE's: the BS forwards without consulting arq_ordered_delivery.           *)
(***************************************************************************)
THEOREM LinkRefinesDelivery ==
  ASSUME LinkFits, Ordered => Receiver = "UE"
  PROVE  Spec => DeliveryImplemented
<1>1. Init => Promised!Init
  BY DEF Init, Promised!Init
<1>2. LinkInv /\ LinkInv' /\ [Next]_vars =>
        [Promised!Take \/ Promised!Deliver]_<<nextPacket, delivered>>
  <2> SUFFICES ASSUME LinkInv, LinkInv', [Next]_vars
               PROVE  \/ Promised!Take \/ Promised!Deliver
                      \/ UNCHANGED <<nextPacket, delivered>>
    OBVIOUS
  <2>1. CASE FrameArrives
    BY <2>1, ArrivalDelivers
  <2>2. CASE EncDrop \/ EncNumber
    BY <2>2 DEF EncDrop, EncNumber, HistoryUnchanged, Promised!Take
  <2>3. [Next]_vars => \/ FrameArrives \/ EncDrop \/ EncNumber
                       \/ UNCHANGED <<nextPacket, delivered>>
    BY DEF Next, Encode, EncAbandon, EncCollect, EncCopy, EncRepush, EncMark,
           EncRetransmitEnd, EncErtm, EncNoErtm, EncIdle, EncTrack, EncPush,
           Timeout, FrameLost, Interval, AckInterval, AckLost, AckArrives,
           TakeFeedback, HistoryUnchanged, vars, txVars
  <2> QED BY <2>1, <2>2, <2>3
<1> QED BY <1>1, <1>2, LinkInvariant, PTL DEF Spec, DeliveryImplemented, Promised!Spec
=============================================================================
