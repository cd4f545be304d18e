--------------------------- MODULE SimAir_proofs ---------------------------
(***************************************************************************)
(* The simulated air, for every capacity, frame, chunk and block length and *)
(* for any starts, commands and errors: a frame goes on the air at the time *)
(* it was made for, what waits on a receive ring was on the air when the    *)
(* receiver will read it, and a block's stamp is its first sample's time.   *)
(*                                                                         *)
(* Every list of samples - the cells of a ring, the two halves of the hub's *)
(* chunk, a receiver's block - begins at an air time, and each sample in it *)
(* is silence or was sent at its own (OnAir).  What has to be shown is      *)
(* where each list begins while a step of the hub is half way through: the  *)
(* chunk's own start, less what was passed on, is where the receive rings   *)
(* end, and the uplink has never been read past the chunk.                  *)
(***************************************************************************)
EXTENDS MCSimAir, TLAPS

TxPlaces == {"idle", "call", "gap", "push"}
HubPlaces == {"pop", "publish", "uplink", "skip", "drain", "answer"}
RxPlaces == {"idle", "seek", "skip", "pop"}
Rings == TxRings \cup RxRings

Cells == [meant : Int, aired : Int]
RingStates == [origin : Nat \cup {Unset}, written : Nat, read : Nat, cells : Seq(Cells)]
Senders == [pc : TxPlaces, inBurst : BOOLEAN, first : BOOLEAN, next : Nat,
            sob : BOOLEAN, timed : BOOLEAN, at : Nat, gap : Nat, left : 0 .. FrameLen,
            refused : BOOLEAN, errors : Nat]
Hubs == [pc : HubPlaces, start : Nat, line : Seq(Cells), ul : Seq(Cells), size : Nat,
         stale : Nat]
Receivers == [pc : RxPlaces, streaming : BOOLEAN, pending : BOOLEAN, requested : Nat,
              target : Nat, skip : Nat, stamp : Int, late : BOOLEAN, got : Seq(Cells)]

AirTypeOK ==
  /\ ring \in [Rings -> RingStates]
  /\ clock \in Nat
  /\ snd \in [TxRings -> Senders]
  /\ hub \in Hubs
  /\ rcv \in [RxRings -> Receivers]
  /\ budget \in [commands : Nat, errors : Nat]

\* A list of samples that begins at t holds what was sent at its time, or silence.
On(cell, t) == cell = Silence \/ cell.aired = t
OnAir(list, t) == \A i \in 1 .. Len(list) : On(list[i], t + i - 1)

\* A ring keeps its books: it holds what was written and not read, at its air time.
Sound(r) ==
  /\ r.written = r.read + Len(r.cells)
  /\ Len(r.cells) <= RingCapacity
  /\ r.origin = Unset => r.written = 0
  /\ OnAir(r.cells, r.origin + r.read)
RingInv == \A r \in Rings : Sound(ring[r])

Consumed(r) == ring[r].origin + ring[r].read
Produced(r) == ring[r].origin + ring[r].written
Set(r) == ring[r].origin # Unset

\* The hub's chunk: what it took from the downlink, has passed on, and still holds.
ChunkInv ==
  /\ Set("rx.comm") <=> Set("rx.ul")
  /\ ~Set("rx.comm") => /\ hub.pc = "pop" /\ ring["tx"].read = 0
                        /\ hub.start = 0 /\ hub.size = 0
  /\ Set("rx.comm") =>
       /\ Set("tx")
       /\ Consumed("tx") = hub.start + hub.size
       /\ Produced("rx.comm") = hub.start + hub.size - Len(hub.line)
       /\ Produced("rx.ul") = hub.start + (IF hub.pc \in {"pop", "answer"}
                                           THEN hub.size - Len(hub.ul) ELSE 0)
  /\ hub.pc = "publish" <=> hub.line # <<>>
  /\ hub.pc = "pop" => hub.ul = <<>>
  /\ hub.pc = "answer" => Len(hub.ul) <= hub.size
  /\ OnAir(hub.line, hub.start + hub.size - Len(hub.line))
  /\ hub.pc = "drain" => OnAir(hub.ul, hub.start) /\ Len(hub.ul) <= hub.size
  /\ hub.pc = "answer" => OnAir(hub.ul, hub.start + hub.size - Len(hub.ul))

\* How far the uplink has been read: never past the end of the chunk.
UplinkInv ==
  /\ hub.pc \in {"skip", "drain"} => Set("ul.tx")
  /\ ring["ul.tx"].read = 0 \/
       Consumed("ul.tx") <= hub.start + (IF hub.pc \in {"publish", "uplink"}
                                         THEN 0 ELSE hub.size)
  /\ hub.pc = "skip" => Consumed("ul.tx") + hub.stale = hub.start /\ hub.ul = <<>>
  /\ hub.pc = "drain" =>
       Len(hub.ul) = hub.size \/ Consumed("ul.tx") = hub.start + Len(hub.ul)

\* A receiver's stamp is the air time of the first sample it has taken.
StampInv ==
  \A r \in RxRings :
    /\ rcv[r].streaming => rcv[r].pending \/ rcv[r].pc = "seek" \/ Set(r)
    /\ rcv[r].pc \in {"skip", "pop"} => Set(r)
    /\ rcv[r].pc = "pop" => rcv[r].stamp + Len(rcv[r].got) = Consumed(r)
    /\ Len(rcv[r].got) <= RecvLen
    /\ OnAir(rcv[r].got, rcv[r].stamp)

\* A sender t in a call is at the sample of its frame that its ring r has come to.
AtSample(r, t) == r.origin + r.written = t.next + FrameLen - t.left

\* The base station never leaves its one burst, and starts each frame where it is due.
BsAt(r, t) ==
  /\ t.pc # "gap"
  /\ t.pc # "idle" => r.origin # Unset /\ t.left > 0
  /\ r.origin # Unset =>
       /\ t.inBurst
       /\ t.pc = "idle" => r.origin + r.written = t.next /\ ~t.first
       /\ t.pc # "idle" => AtSample(r, t)
       /\ t.pc = "call" => ~t.sob
       /\ t.pc = "push" /\ t.sob => t.left = FrameLen

\* So does the UE, unless it gave up a period; a frame that starts a burst starts it
\* at its own time.
UeAt(r, t) ==
  /\ t.pc # "idle" => r.origin # Unset /\ t.left > 0
  /\ t.errors = 0 =>
       /\ t.pc = "idle" =>
            t.first \/ (r.origin # Unset /\ r.origin + r.written = t.next)
       /\ t.pc = "idle" => (t.first <=> ~t.inBurst)
       /\ t.pc # "idle" =>
            IF t.sob THEN t.timed /\ t.at = t.next /\ t.left = FrameLen
                     ELSE t.inBurst /\ AtSample(r, t)
       /\ t.pc = "push" => t.inBurst /\ AtSample(r, t)
       /\ t.pc = "gap" => t.sob /\ t.gap + r.origin + r.written = t.next

BsInv == BsAt(ring["tx"], snd["tx"])
UeInv == UeAt(ring["ul.tx"], snd["ul.tx"])

AirInv ==
  /\ AirTypeOK /\ RingInv /\ ChunkInv /\ UplinkInv /\ StampInv /\ BsInv /\ UeInv

-----------------------------------------------------------------------------
(* Numbers and lists of samples.                                           *)

\* What the assumptions say of each constant.
LEMMA Constants ==
  /\ RingCapacity \in Nat \ {0} /\ FrameLen \in Nat \ {0} /\ ChunkMax \in Nat \ {0}
  /\ RecvLen \in Nat \ {0} /\ StartLead \in Nat \ {0}
  /\ Horizon \in Nat /\ CommandLimit \in Nat /\ UlErrors \in Nat
  /\ StartTimes \subseteq Nat
BY SimAirAssumption

\* The smaller of two numbers.
LEMMA MinOfTwo ==
  ASSUME NEW a \in Int, NEW b \in Int
  PROVE  Min({a, b}) = IF a <= b THEN a ELSE b
<1> DEFINE m == IF a <= b THEN a ELSE b
<1>1. m \in {a, b} /\ \A y \in {a, b} : m <= y
  OBVIOUS
<1>2. \A x \in {a, b} : (\A y \in {a, b} : x <= y) => x = m
  OBVIOUS
<1> QED BY <1>1, <1>2 DEF Min

\* The larger of two numbers.
LEMMA MaxOfTwo ==
  ASSUME NEW a \in Int, NEW b \in Int
  PROVE  Max({a, b}) = IF a <= b THEN b ELSE a
<1> DEFINE m == IF a <= b THEN b ELSE a
<1>1. m \in {a, b} /\ \A y \in {a, b} : y <= m
  OBVIOUS
<1>2. \A x \in {a, b} : (\A y \in {a, b} : y <= x) => x = m
  OBVIOUS
<1> QED BY <1>1, <1>2 DEF Max

\* Silence is a sample, and on the air at any time.
LEMMA SilenceIsACell == Silence \in Cells /\ \A t \in Int : On(Silence, t)
BY DEF Silence, Cells, Unset, On

\* A stretch of silence.
LEMMA Quiet ==
  ASSUME NEW n \in Nat, NEW t \in Int
  PROVE  LET q == [i \in 1 .. n |-> Silence]
         IN  q \in Seq(Cells) /\ Len(q) = n /\ OnAir(q, t)
<1> DEFINE q == [i \in 1 .. n |-> Silence]
<1>1. q \in Seq(Cells) /\ Len(q) = n
  BY SilenceIsACell
<1>2. \A i \in 1 .. n : q[i] = Silence
  OBVIOUS
<1> QED BY <1>1, <1>2 DEF OnAir, On

\* A list given by its samples.
LEMMA IsASeq ==
  ASSUME NEW S, NEW n \in Nat, NEW f \in [1 .. n -> S]
  PROVE  f \in Seq(S) /\ Len(f) = n
OBVIOUS

\* Nothing is on the air at any time.
LEMMA NothingOnAir == <<>> \in Seq(Cells) /\ Len(<<>>) = 0 /\ \A t \in Int : OnAir(<<>>, t)
BY DEF OnAir

\* One stretch after the other.
LEMMA OneAfterTheOther ==
  ASSUME NEW a \in Seq(Cells), NEW b \in Seq(Cells), NEW t \in Int,
         OnAir(a, t), OnAir(b, t + Len(a))
  PROVE  /\ a \o b \in Seq(Cells) /\ Len(a \o b) = Len(a) + Len(b)
         /\ OnAir(a \o b, t)
<1>1. a \o b \in Seq(Cells) /\ Len(a \o b) = Len(a) + Len(b)
  OBVIOUS
<1>2. ASSUME NEW i \in 1 .. (Len(a) + Len(b)) PROVE On((a \o b)[i], t + i - 1)
  <2>1. CASE i <= Len(a)
    <3>1. i \in 1 .. Len(a) /\ (a \o b)[i] = a[i]
      BY <2>1
    <3> QED BY <3>1 DEF OnAir
  <2>2. CASE i > Len(a)
    <3>1. i - Len(a) \in 1 .. Len(b) /\ (a \o b)[i] = b[i - Len(a)]
      BY <2>2
    <3>2. On(b[i - Len(a)], t + Len(a) + (i - Len(a)) - 1)
      BY <3>1 DEF OnAir
    <3>3. t + Len(a) + (i - Len(a)) - 1 = t + i - 1
      BY <3>1
    <3> QED BY <3>1, <3>2, <3>3
  <2> QED BY <2>1, <2>2
<1> QED BY <1>1, <1>2 DEF OnAir

\* Part of a stretch.
LEMMA PartOnAir ==
  ASSUME NEW a \in Seq(Cells), NEW t \in Int, OnAir(a, t),
         NEW m \in Nat, NEW n \in Nat, m <= n, n <= Len(a)
  PROVE  LET p == SubSeq(a, m + 1, n)
         IN  p \in Seq(Cells) /\ Len(p) = n - m /\ OnAir(p, t + m)
<1> DEFINE p == SubSeq(a, m + 1, n)
<1>1. p \in Seq(Cells) /\ Len(p) = n - m
  OBVIOUS
<1>2. ASSUME NEW i \in 1 .. (n - m) PROVE On(p[i], t + m + i - 1)
  <2>1. m + i \in 1 .. Len(a) /\ p[i] = a[m + i]
    OBVIOUS
  <2>2. On(a[m + i], t + (m + i) - 1)
    BY <2>1 DEF OnAir
  <2>3. t + (m + i) - 1 = t + m + i - 1
    OBVIOUS
  <2> QED BY <2>1, <2>2, <2>3
<1> QED BY <1>1, <1>2 DEF OnAir

\* The first and the remaining samples of a stretch.
LEMMA SplitOnAir ==
  ASSUME NEW a \in Seq(Cells), NEW t \in Int, OnAir(a, t), NEW n \in Nat, n <= Len(a)
  PROVE  /\ SubSeq(a, 1, n) \in Seq(Cells) /\ Len(SubSeq(a, 1, n)) = n
         /\ OnAir(SubSeq(a, 1, n), t)
         /\ SubSeq(a, n + 1, Len(a)) \in Seq(Cells)
         /\ Len(SubSeq(a, n + 1, Len(a))) = Len(a) - n
         /\ OnAir(SubSeq(a, n + 1, Len(a)), t + n)
<1>1. /\ SubSeq(a, 0 + 1, n) \in Seq(Cells) /\ Len(SubSeq(a, 0 + 1, n)) = n - 0
      /\ OnAir(SubSeq(a, 0 + 1, n), t + 0)
  BY PartOnAir
<1>2. /\ SubSeq(a, n + 1, Len(a)) \in Seq(Cells)
      /\ Len(SubSeq(a, n + 1, Len(a))) = Len(a) - n
      /\ OnAir(SubSeq(a, n + 1, Len(a)), t + n)
  BY PartOnAir
<1> QED BY <1>1, <1>2

-----------------------------------------------------------------------------
(* One ring.                                                               *)

\* Samples written to a ring at the place they are made for.
LEMMA PushedIsSound ==
  ASSUME NEW r \in RingStates, Sound(r), r.origin # Unset,
         NEW xs \in Seq(Cells), Len(xs) <= RingCapacity - Len(r.cells),
         OnAir(xs, r.origin + r.written)
  PROVE  LET q == Pushed(r, xs)
         IN  /\ q \in RingStates /\ Sound(q)
             /\ q.origin = r.origin /\ q.read = r.read
             /\ q.written = r.written + Len(xs) /\ q.cells = r.cells \o xs
<1> DEFINE q == Pushed(r, xs)
<1>1. /\ r.origin \in Nat /\ r.written \in Nat /\ r.read \in Nat /\ r.cells \in Seq(Cells)
      /\ r.written = r.read + Len(r.cells) /\ OnAir(r.cells, r.origin + r.read)
  BY DEF RingStates, Sound
<1>2. /\ r.cells \o xs \in Seq(Cells) /\ Len(r.cells \o xs) = Len(r.cells) + Len(xs)
      /\ OnAir(r.cells \o xs, r.origin + r.read)
  <2>1. r.origin + r.read + Len(r.cells) = r.origin + r.written
    BY <1>1
  <2> QED BY <1>1, <2>1, OneAfterTheOther
<1>3. Len(xs) \in Nat /\ r.written + Len(xs) \in Nat
  BY <1>1
<1>4. /\ q.origin = r.origin /\ q.read = r.read /\ q.written = r.written + Len(xs)
      /\ q.cells = r.cells \o xs /\ q \in RingStates
  BY <1>2, <1>3 DEF Pushed, RingStates
<1>5. Len(q.cells) <= RingCapacity
  BY <1>1, <1>2, <1>3, <1>4, Constants
<1> HIDE DEF q
<1>6. Sound(q)
  BY <1>1, <1>2, <1>4, <1>5 DEF Sound
<1> QED BY <1>4, <1>6 DEF q

\* Samples taken from a ring.
LEMMA PoppedIsSound ==
  ASSUME NEW r \in RingStates, Sound(r), NEW n \in Nat, n <= Len(r.cells)
  PROVE  LET q == Popped(r, n)
         IN  /\ q \in RingStates /\ Sound(q)
             /\ q.origin = r.origin /\ q.read = r.read + n /\ q.written = r.written
             /\ FirstCells(r, n) \in Seq(Cells) /\ Len(FirstCells(r, n)) = n
             /\ OnAir(FirstCells(r, n), r.origin + r.read)
<1> DEFINE q == Popped(r, n)
           rest == SubSeq(r.cells, n + 1, Len(r.cells))
<1>1. /\ r.origin \in Int /\ r.written \in Nat /\ r.read \in Nat /\ r.cells \in Seq(Cells)
      /\ r.written = r.read + Len(r.cells) /\ OnAir(r.cells, r.origin + r.read)
  BY DEF RingStates, Sound, Unset
<1>2. /\ FirstCells(r, n) \in Seq(Cells) /\ Len(FirstCells(r, n)) = n
      /\ OnAir(FirstCells(r, n), r.origin + r.read)
      /\ rest \in Seq(Cells) /\ Len(rest) = Len(r.cells) - n
      /\ OnAir(rest, r.origin + r.read + n)
  BY <1>1, SplitOnAir DEF FirstCells
<1>3. /\ q.origin = r.origin /\ q.read = r.read + n /\ q.written = r.written
      /\ q.cells = rest /\ q \in RingStates
  <2>1. q = [r EXCEPT !.read = r.read + n, !.cells = rest]
    BY DEF Popped
  <2>2. r.read + n \in Nat
    BY <1>1
  <2> HIDE DEF q, rest
  <2> QED BY <1>2, <2>1, <2>2 DEF RingStates
<1> HIDE DEF q, rest
<1>4. Sound(q)
  <2>1. q.written = q.read + Len(q.cells) /\ Len(q.cells) <= RingCapacity
    BY <1>1, <1>2, <1>3, Constants DEF Sound
  <2>2. q.origin + q.read = r.origin + r.read + n
    BY <1>1, <1>3
  <2>3. q.origin = Unset => q.written = 0
    BY <1>3 DEF Sound
  <2> QED BY <1>2, <1>3, <2>1, <2>2, <2>3 DEF Sound
<1> QED BY <1>2, <1>3, <1>4 DEF q

\* A ring is given its origin while it is empty.
LEMMA OriginIsSound ==
  ASSUME NEW r \in RingStates, Sound(r), r.origin = Unset, NEW t \in Nat
  PROVE  LET q == WithOrigin(r, t)
         IN  /\ q \in RingStates /\ Sound(q)
             /\ q.origin = t /\ q.read = 0 /\ q.written = 0 /\ r.read = 0
<1> DEFINE q == WithOrigin(r, t)
<1>1. /\ r.written \in Nat /\ r.read \in Nat /\ r.cells \in Seq(Cells)
      /\ r.written = r.read + Len(r.cells) /\ r.written = 0
  BY DEF RingStates, Sound
<1>2. r.read = 0 /\ Len(r.cells) = 0 /\ Len(r.cells) \in Nat
  BY <1>1
<1>3. /\ q.origin = t /\ q.read = r.read /\ q.written = r.written /\ q.cells = r.cells
      /\ q \in RingStates
  BY DEF WithOrigin, RingStates
<1> HIDE DEF q
<1>4. Sound(q)
  <2>1. OnAir(q.cells, q.origin + q.read)
    BY <1>2, <1>3 DEF OnAir
  <2>2. t # Unset
    BY DEF Unset
  <2>3. Len(q.cells) <= RingCapacity
    BY <1>2, <1>3, Constants
  <2> QED BY <1>1, <1>2, <1>3, <2>1, <2>2, <2>3 DEF Sound
<1> QED BY <1>1, <1>2, <1>3, <1>4 DEF q

-----------------------------------------------------------------------------
(* What a step leaves alone.                                               *)

\* The reader's side of a ring, and the writer's.
ReaderKept(r) ==
  ring'[r].read = ring[r].read /\ (Set(r) => ring'[r].origin = ring[r].origin)
WriterKept(r) ==
  ring'[r].written = ring[r].written /\ ring'[r].origin = ring[r].origin

\* The names of the rings are four.
LEMMA RingNames ==
  /\ TxRings = {"tx", "ul.tx"} /\ RxRings = {"rx.comm", "rx.ul"}
  /\ Rings = {"tx", "ul.tx", "rx.comm", "rx.ul"}
BY DEF TxRings, RxRings, Rings

\* One ring is replaced.
LEMMA RingReplaced ==
  ASSUME AirTypeOK, RingInv, NEW s \in Rings, NEW q \in RingStates, Sound(q),
         ring' = [ring EXCEPT ![s] = q]
  PROVE  /\ ring' \in [Rings -> RingStates] /\ RingInv'
         /\ ring'[s] = q /\ \A p \in Rings \ {s} : ring'[p] = ring[p]
<1>1. /\ ring' \in [Rings -> RingStates]
      /\ ring'[s] = q /\ \A p \in Rings \ {s} : ring'[p] = ring[p]
  BY DEF AirTypeOK
<1>2. \A p \in Rings : Sound(ring'[p])
  BY <1>1 DEF RingInv
<1> QED BY <1>1, <1>2 DEF RingInv

\* What a ring holds.
LEMMA RingFacts ==
  ASSUME AirTypeOK, RingInv, NEW r \in Rings
  PROVE  /\ ring[r] \in RingStates /\ Sound(ring[r])
         /\ ring[r].origin \in Int /\ ring[r].written \in Nat /\ ring[r].read \in Nat
         /\ Set(r) => ring[r].origin \in Nat
         /\ Set(r) <=> OriginIsSet(ring[r])
         /\ ~Set(r) => ring[r].origin = Unset /\ ring[r].written = 0 /\ ring[r].read = 0
         /\ ring[r].cells \in Seq(Cells)
         /\ Available(ring[r]) = Len(ring[r].cells)
         /\ FreeSlots(ring[r], RingCapacity) = RingCapacity - Len(ring[r].cells)
         /\ Available(ring[r]) \in Nat /\ FreeSlots(ring[r], RingCapacity) \in Nat
         /\ Set(r) => AbsoluteConsumed(ring[r]) = Consumed(r)
         /\ Set(r) => AbsoluteProduced(ring[r]) = Produced(r)
<1>1. /\ ring[r] \in RingStates /\ Sound(ring[r])
  BY DEF AirTypeOK, RingInv
<1>2. /\ ring[r].origin \in Nat \cup {Unset} /\ ring[r].written \in Nat
      /\ ring[r].read \in Nat /\ ring[r].cells \in Seq(Cells)
  BY <1>1 DEF RingStates
<1>3. /\ Len(ring[r].cells) \in Nat /\ Len(ring[r].cells) <= RingCapacity
      /\ ring[r].written = ring[r].read + Len(ring[r].cells)
      /\ ring[r].origin = Unset => ring[r].written = 0
  BY <1>1, <1>2 DEF Sound
<1>4. Available(ring[r]) = Len(ring[r].cells)
  BY <1>2, <1>3 DEF Available
<1>5. /\ FreeSlots(ring[r], RingCapacity) = RingCapacity - Len(ring[r].cells)
      /\ FreeSlots(ring[r], RingCapacity) \in Nat
  BY <1>3, <1>4, Constants DEF FreeSlots
<1>6. ring[r].origin \in Int /\ (Set(r) => ring[r].origin \in Nat)
  BY <1>2 DEF Set, Unset
<1>7. ~Set(r) => ring[r].origin = Unset /\ ring[r].written = 0 /\ ring[r].read = 0
  BY <1>2, <1>3 DEF Set
<1> QED BY <1>1, <1>2, <1>3, <1>4, <1>5, <1>6, <1>7
        DEF Set, OriginIsSet, AbsoluteConsumed, AbsoluteProduced, Consumed, Produced

\* A step that reads neither the downlink's ring nor writes a receive ring is nothing
\* to the chunk.
LEMMA ChunkKept ==
  ASSUME AirTypeOK, RingInv, ChunkInv, hub' = hub, ReaderKept("tx"),
         WriterKept("rx.comm"), WriterKept("rx.ul")
  PROVE  ChunkInv'
<1>1. /\ Produced("rx.comm")' = Produced("rx.comm")
      /\ Produced("rx.ul")' = Produced("rx.ul")
  BY DEF WriterKept, Produced
<1>2. /\ Set("tx") => Set("tx")' /\ Consumed("tx")' = Consumed("tx")
      /\ ring'["tx"].read = ring["tx"].read
  BY DEF ReaderKept, Set, Consumed
<1>3. /\ (Set("rx.comm") <=> Set("rx.ul"))'
      /\ (~Set("rx.comm") => /\ hub.pc = "pop" /\ ring["tx"].read = 0
                             /\ hub.start = 0 /\ hub.size = 0)'
  BY DEF ChunkInv, WriterKept, ReaderKept, Set
<1>4. (Set("rx.comm") =>
         /\ Set("tx")
         /\ Consumed("tx") = hub.start + hub.size
         /\ Produced("rx.comm") = hub.start + hub.size - Len(hub.line)
         /\ Produced("rx.ul") = hub.start + (IF hub.pc \in {"pop", "answer"}
                                             THEN hub.size - Len(hub.ul) ELSE 0))'
  <2>1. SUFFICES ASSUME Set("rx.comm")'
        PROVE  /\ Set("tx")'
               /\ Consumed("tx")' = hub.start + hub.size
               /\ Produced("rx.comm")' = hub.start + hub.size - Len(hub.line)
               /\ Produced("rx.ul")' = hub.start + (IF hub.pc \in {"pop", "answer"}
                                                    THEN hub.size - Len(hub.ul) ELSE 0)
    OBVIOUS
  <2>2. Set("rx.comm")
    BY <2>1 DEF WriterKept, Set
  <2>3. /\ Set("tx")
        /\ Consumed("tx") = hub.start + hub.size
        /\ Produced("rx.comm") = hub.start + hub.size - Len(hub.line)
        /\ Produced("rx.ul") = hub.start + (IF hub.pc \in {"pop", "answer"}
                                            THEN hub.size - Len(hub.ul) ELSE 0)
    BY <2>2 DEF ChunkInv
  <2>4. Set("tx")' /\ Consumed("tx")' = Consumed("tx")
    BY <1>2, <2>3
  <2>5. /\ Produced("rx.comm")' = Produced("rx.comm")
        /\ Produced("rx.ul")' = Produced("rx.ul")
    BY <1>1
  <2> QED BY <2>3, <2>4, <2>5
<1>5. /\ (hub.pc = "publish" <=> hub.line # <<>>)'
      /\ (hub.pc = "pop" => hub.ul = <<>>)'
      /\ (hub.pc = "answer" => Len(hub.ul) <= hub.size)'
      /\ OnAir(hub.line, hub.start + hub.size - Len(hub.line))'
      /\ (hub.pc = "drain" => OnAir(hub.ul, hub.start) /\ Len(hub.ul) <= hub.size)'
      /\ (hub.pc = "answer" => OnAir(hub.ul, hub.start + hub.size - Len(hub.ul)))'
  BY DEF ChunkInv
<1> QED BY <1>3, <1>4, <1>5 DEF ChunkInv

\* A step that does not read the uplink's ring is nothing to what was read of it.
LEMMA UplinkKept ==
  ASSUME AirTypeOK, RingInv, UplinkInv, hub' = hub, ReaderKept("ul.tx")
  PROVE  UplinkInv'
<1>1. /\ Set("ul.tx") => Set("ul.tx")' /\ Consumed("ul.tx")' = Consumed("ul.tx")
      /\ ring'["ul.tx"].read = ring["ul.tx"].read
  BY DEF ReaderKept, Set, Consumed
<1>2. ~Set("ul.tx") => ring["ul.tx"].read = 0
  BY RingFacts, RingNames
<1> QED BY <1>1, <1>2 DEF UplinkInv

\* A step that reads no receive ring is nothing to the receivers.
LEMMA StampKept ==
  ASSUME StampInv, rcv' = rcv, \A r \in RxRings : ReaderKept(r)
  PROVE  StampInv'
<1>1. \A r \in RxRings : Set(r) => Set(r)' /\ Consumed(r)' = Consumed(r)
  BY DEF ReaderKept, Set, Consumed
<1> QED BY <1>1 DEF StampInv

\* A step that does not write a transmit ring is nothing to its sender.
LEMMA BsKept ==
  ASSUME BsInv, snd'["tx"] = snd["tx"], WriterKept("tx")
  PROVE  BsInv'
BY DEF BsInv, BsAt, WriterKept, AtSample
LEMMA UeKept ==
  ASSUME UeInv, snd'["ul.tx"] = snd["ul.tx"], WriterKept("ul.tx")
  PROVE  UeInv'
BY DEF UeInv, UeAt, WriterKept, AtSample

-----------------------------------------------------------------------------
(* The senders.                                                            *)

\* A call that sent n samples.
LEMMA AfterSendDoes ==
  ASSUME NEW s \in TxRings, NEW t \in Senders, t.left > 0, NEW n \in Nat, n <= t.left
  PROVE  LET u == AfterSend(s, t, n)
         IN  /\ u \in Senders
             /\ u.inBurst = t.inBurst /\ u.errors = t.errors
             /\ n < t.left =>
                  /\ u.pc = "call" /\ u.left = t.left - n
                  /\ u.first = t.first /\ u.next = t.next /\ u.at = t.at
                  /\ u.sob <=> s = "ul.tx" /\ n = 0 /\ t.sob
                  /\ u.timed <=> s = "ul.tx" /\ n = 0 /\ t.timed
             /\ n = t.left =>
                  u.pc = "idle" /\ u.next = t.next + FrameLen /\ ~u.first
<1> DEFINE kept == s = "ul.tx" /\ n = 0
           v == [t EXCEPT !.left = t.left - n, !.pc = "call", !.gap = 0, !.refused = n = 0,
                          !.sob = kept /\ t.sob, !.timed = kept /\ t.timed]
           u == AfterSend(s, t, n)
<1>1. u = IF v.left = 0 THEN FrameDone(v) ELSE v
  BY DEF AfterSend
<1>2. /\ t.left \in 0 .. FrameLen /\ t.next \in Nat /\ FrameLen \in Nat
      /\ t.left - n \in 0 .. FrameLen
  BY Constants DEF Senders
<1>3. /\ v \in Senders /\ v.left = t.left - n /\ v.pc = "call"
      /\ v.inBurst = t.inBurst /\ v.errors = t.errors /\ v.first = t.first
      /\ v.next = t.next /\ v.at = t.at
      /\ v.sob <=> kept /\ t.sob
      /\ v.timed <=> kept /\ t.timed
  BY <1>2 DEF Senders, TxPlaces
<1> HIDE DEF v
<1>4. CASE n < t.left
  BY <1>1, <1>2, <1>3, <1>4
<1>5. CASE n = t.left
  <2>1. u = FrameDone(v) /\ v.next + FrameLen \in Nat
    BY <1>1, <1>2, <1>3, <1>5
  <2>2. u = [v EXCEPT !.pc = "idle", !.next = v.next + FrameLen, !.first = FALSE,
                      !.left = 0, !.refused = FALSE, !.gap = 0]
    BY <2>1 DEF FrameDone
  <2>3. 0 \in 0 .. FrameLen /\ 0 \in Nat
    BY <1>2
  <2> HIDE DEF u
  <2>4. u \in Senders
    BY <1>3, <2>1, <2>2, <2>3 DEF Senders, TxPlaces
  <2>5. /\ u.pc = "idle" /\ u.next = v.next + FrameLen /\ u.first = FALSE
        /\ u.inBurst = v.inBurst /\ u.errors = v.errors
    BY <1>3, <2>2 DEF Senders
  <2> QED BY <1>2, <1>3, <1>5, <2>4, <2>5 DEF u
<1> QED BY <1>2, <1>4, <1>5

\* The call a sender makes: a new frame when it was idle.
Caller(s) == IF snd[s].pc = "idle" THEN Begun(snd[s]) ELSE snd[s]

LEMMA CallerIs ==
  ASSUME AirTypeOK, BsInv, UeInv, NEW s \in TxRings, Caller(s).pc = "call"
  PROVE  LET t == Caller(s)
         IN  /\ t \in Senders /\ t.left > 0 /\ t.pc = "call"
             /\ ~Set(s) => t.timed /\ t.at = t.next /\ t.left = FrameLen
             /\ s = "tx" /\ Set(s) => t.inBurst /\ ~t.sob
                                      /\ Produced(s) = t.next + FrameLen - t.left
             /\ s = "ul.tx" /\ t.errors = 0 =>
                  IF t.sob THEN t.timed /\ t.at = t.next /\ t.left = FrameLen
                  ELSE Set(s) /\ t.inBurst /\ Produced(s) = t.next + FrameLen - t.left
<1> DEFINE t == Caller(s)
<1>1. snd[s] \in Senders /\ FrameLen \in Nat \ {0} /\ s \in {"tx", "ul.tx"}
  BY Constants, RingNames DEF AirTypeOK
<1>2. CASE snd[s].pc = "idle"
  <2>1. /\ t \in Senders /\ t.left = FrameLen /\ t.pc = "call" /\ t.timed = TRUE
        /\ t.at = t.next /\ t.sob = snd[s].first /\ t.next = snd[s].next
        /\ t.inBurst = snd[s].inBurst /\ t.errors = snd[s].errors
    <3>1. t = [snd[s] EXCEPT !.pc = "call", !.left = FrameLen, !.sob = snd[s].first,
                             !.timed = TRUE, !.at = snd[s].next]
      BY <1>2 DEF Caller, Begun
    <3>2. FrameLen \in 0 .. FrameLen /\ snd[s].next \in Nat /\ snd[s].first \in BOOLEAN
      BY <1>1 DEF Senders
    <3> HIDE DEF t
    <3> QED BY <1>1, <3>1, <3>2 DEF Senders, TxPlaces
  <2>2. t.left > 0
    BY <1>1, <2>1
  <2>3. snd[s].next \in Nat /\ snd[s].next + FrameLen - FrameLen = snd[s].next
    BY <1>1 DEF Senders
  <2> HIDE DEF t
  <2>4. s = "tx" /\ Set(s) => t.inBurst /\ ~t.sob /\ Produced(s) = t.next + FrameLen - t.left
    BY <1>2, <2>1, <2>3 DEF BsInv, BsAt, Set, Produced
  <2>5. ASSUME s = "ul.tx", t.errors = 0
        PROVE  IF t.sob THEN t.timed /\ t.at = t.next /\ t.left = FrameLen
               ELSE Set(s) /\ t.inBurst /\ Produced(s) = t.next + FrameLen - t.left
    <3>1. CASE t.sob
      BY <2>1, <3>1
    <3>2. CASE ~t.sob
      <4>1. snd["ul.tx"].errors = 0 /\ snd["ul.tx"].pc = "idle" /\ ~snd["ul.tx"].first
        BY <1>2, <2>1, <2>5, <3>2
      <4>2. Set("ul.tx") /\ Produced("ul.tx") = snd["ul.tx"].next
        BY <4>1 DEF UeInv, UeAt, Set, Produced
      <4>3. snd["ul.tx"].first \in BOOLEAN /\ snd["ul.tx"].inBurst \in BOOLEAN
        BY <1>1, <2>5 DEF Senders
      <4>4. snd["ul.tx"].first <=> ~snd["ul.tx"].inBurst
        BY <4>1 DEF UeInv, UeAt, Set, Produced
      <4>5. snd["ul.tx"].inBurst
        BY <4>1, <4>3, <4>4
      <4> QED BY <2>1, <2>3, <2>5, <3>2, <4>2, <4>5
    <3> QED BY <3>1, <3>2
  <2> QED BY <2>1, <2>2, <2>4, <2>5 DEF t
<1>3. CASE snd[s].pc # "idle"
  <2>1. t = snd[s]
    BY <1>3 DEF Caller
  <2>2. Set(s) /\ t.left > 0
    BY <1>1, <1>3, <2>1 DEF BsInv, UeInv, BsAt, UeAt, Set
  <2>3. s = "tx" => t.inBurst /\ ~t.sob /\ Produced(s) = t.next + FrameLen - t.left
    BY <1>3, <2>1, <2>2 DEF BsInv, BsAt, AtSample, Set, Produced
  <2>4. s = "ul.tx" /\ t.errors = 0 =>
          IF t.sob THEN t.timed /\ t.at = t.next /\ t.left = FrameLen
          ELSE Set(s) /\ t.inBurst /\ Produced(s) = t.next + FrameLen - t.left
    BY <1>3, <2>1, <2>2 DEF UeInv, UeAt, AtSample, Set, Produced
  <2> QED BY <1>1, <2>1, <2>2, <2>3, <2>4
<1> QED BY <1>2, <1>3


\* What a step of one sender, on its own ring, does to the rest.
LEMMA SenderStep ==
  ASSUME AirInv, NEW s \in TxRings,
         NEW q \in RingStates, Sound(q), q.read = ring[s].read,
         Set(s) => q.origin = ring[s].origin, ring' = [ring EXCEPT ![s] = q],
         NEW u \in Senders, snd' = [snd EXCEPT ![s] = u],
         s = "tx" => BsAt(q, u), s = "ul.tx" => UeAt(q, u),
         UNCHANGED <<clock, hub, rcv>>, budget' \in [commands : Nat, errors : Nat]
  PROVE  AirInv' /\ ring'[s] = q /\ snd'[s] = u
<1>1. AirTypeOK /\ RingInv /\ ChunkInv /\ UplinkInv /\ StampInv /\ BsInv /\ UeInv
  BY DEF AirInv
<1>2. s \in Rings /\ s \in {"tx", "ul.tx"} /\ "tx" \in Rings /\ "ul.tx" \in Rings
      /\ "rx.comm" \in Rings \ {s} /\ "rx.ul" \in Rings \ {s}
  BY RingNames
<1>3. /\ ring' \in [Rings -> RingStates] /\ RingInv'
      /\ ring'[s] = q /\ \A p \in Rings \ {s} : ring'[p] = ring[p]
  BY <1>1, <1>2, RingReplaced
<1>4. /\ snd' \in [TxRings -> Senders] /\ snd'[s] = u
      /\ \A p \in TxRings \ {s} : snd'[p] = snd[p]
  BY <1>1 DEF AirTypeOK
<1>5. AirTypeOK'
  BY <1>1, <1>3, <1>4 DEF AirTypeOK
<1>6. \A r \in Rings : ReaderKept(r)
  <2>1. ReaderKept(s)
    BY <1>3 DEF ReaderKept
  <2>2. \A r \in Rings \ {s} : ReaderKept(r)
    BY <1>3 DEF ReaderKept
  <2> QED BY <2>1, <2>2
<1>7. WriterKept("rx.comm") /\ WriterKept("rx.ul")
  BY <1>2, <1>3 DEF WriterKept
<1>8. ChunkInv' /\ UplinkInv' /\ StampInv'
  BY <1>1, <1>2, <1>6, <1>7, ChunkKept, UplinkKept, StampKept, RingNames
<1>9. BsInv'
  <2>1. CASE s = "tx"
    BY <1>3, <1>4, <2>1 DEF BsInv
  <2>2. CASE s = "ul.tx"
    BY <1>1, <1>2, <1>3, <1>4, <2>2, BsKept, RingNames DEF WriterKept
  <2> QED BY <1>2, <2>1, <2>2
<1>10. UeInv'
  <2>1. CASE s = "ul.tx"
    BY <1>3, <1>4, <2>1 DEF UeInv
  <2>2. CASE s = "tx"
    BY <1>1, <1>2, <1>3, <1>4, <2>2, UeKept, RingNames DEF WriterKept
  <2> QED BY <1>2, <2>1, <2>2
<1> QED BY <1>3, <1>4, <1>5, <1>8, <1>9, <1>10 DEF AirInv

\* A step of a sender that leaves its ring as it is.
LEMMA SenderAlone ==
  ASSUME AirInv, NEW s \in TxRings, ring' = ring,
         NEW u \in Senders, snd' = [snd EXCEPT ![s] = u],
         s = "tx" => BsAt(ring[s], u), s = "ul.tx" => UeAt(ring[s], u),
         UNCHANGED <<clock, hub, rcv>>, budget' \in [commands : Nat, errors : Nat]
  PROVE  AirInv'
<1>1. AirTypeOK /\ RingInv /\ s \in Rings
  BY RingNames DEF AirInv
<1>2. ring[s] \in RingStates /\ Sound(ring[s])
  BY <1>1, RingFacts
<1>3. ring' = [ring EXCEPT ![s] = ring[s]]
  BY <1>1 DEF AirTypeOK
<1> QED BY <1>2, <1>3, SenderStep

\* Call: the frame, or what is left of it, is put where its time or its burst says.
LEMMA CallStep ==
  ASSUME AirInv, NEW s \in TxRings, Call(s)
  PROVE  AirInv' /\ \A p \in Rings : ring'[p].written = ring[p].written
<1> DEFINE t == Caller(s)
           r == ring[s]
           start == IF t.timed THEN t.at ELSE clock
           starts == t.sob \/ ~t.inBurst
           pushing == [t EXCEPT !.pc = "push", !.inBurst = TRUE]
           gap == [t EXCEPT !.pc = "gap", !.gap = start - AbsoluteProduced(r)]
<1>1. /\ t.pc = "call"
      /\ \/ /\ ~OriginIsSet(r)
            /\ ring' = [ring EXCEPT ![s] = WithOrigin(r, start)]
            /\ snd' = [snd EXCEPT ![s] = pushing]
         \/ /\ OriginIsSet(r)
            /\ ring' = ring
            /\ snd' = [snd EXCEPT ![s] =
                 IF ~(starts /\ t.timed) THEN pushing
                 ELSE IF start < AbsoluteProduced(r) THEN AfterSend(s, t, 0)
                 ELSE IF start = AbsoluteProduced(r) THEN pushing
                 ELSE gap]
      /\ UNCHANGED <<clock, hub, rcv, budget>>
  BY DEF Call, Caller
<1>2. /\ AirTypeOK /\ RingInv /\ BsInv /\ UeInv /\ s \in Rings /\ s \in {"tx", "ul.tx"}
      /\ FrameLen \in Nat
  BY RingNames, Constants DEF AirInv
<1>3. budget' \in [commands : Nat, errors : Nat] /\ clock \in Nat
  BY <1>1, <1>2 DEF AirTypeOK
<1>4. /\ t \in Senders /\ t.left > 0 /\ t.pc = "call"
      /\ ~Set(s) => t.timed /\ t.at = t.next /\ t.left = FrameLen
      /\ s = "tx" /\ Set(s) => t.inBurst /\ ~t.sob
                               /\ Produced(s) = t.next + FrameLen - t.left
      /\ s = "ul.tx" /\ t.errors = 0 =>
           IF t.sob THEN t.timed /\ t.at = t.next /\ t.left = FrameLen
           ELSE Set(s) /\ t.inBurst /\ Produced(s) = t.next + FrameLen - t.left
  BY <1>1, <1>2, CallerIs
<1>5. /\ r \in RingStates /\ Sound(r) /\ r.origin \in Int /\ r.written \in Nat
      /\ Set(s) => r.origin \in Nat
      /\ Set(s) <=> OriginIsSet(r)
      /\ ~Set(s) => r.origin = Unset
      /\ Set(s) => AbsoluteProduced(r) = r.origin + r.written
      /\ Set(s) => r.origin # Unset
      /\ Produced(s) = r.origin + r.written
  BY <1>2, RingFacts DEF Produced, Set
<1>6. /\ t.next \in Nat /\ t.left \in Nat /\ t.at \in Nat /\ t.errors \in Nat
      /\ t.sob \in BOOLEAN /\ t.timed \in BOOLEAN /\ t.inBurst \in BOOLEAN
  BY <1>4, Constants DEF Senders
<1>7. /\ pushing \in Senders /\ pushing.pc = "push" /\ pushing.inBurst = TRUE
      /\ pushing.sob = t.sob /\ pushing.timed = t.timed /\ pushing.at = t.at
      /\ pushing.left = t.left /\ pushing.next = t.next /\ pushing.errors = t.errors
      /\ pushing.first = t.first
  <2> HIDE DEF t
  <2> QED BY <1>4 DEF Senders, TxPlaces
<1> HIDE DEF t, r, pushing
<1>8. CASE ~Set(s)
  <2> DEFINE q == WithOrigin(r, start)
  <2>1. /\ start = t.next /\ start \in Nat
        /\ ring' = [ring EXCEPT ![s] = q] /\ snd' = [snd EXCEPT ![s] = pushing]
    BY <1>1, <1>4, <1>5, <1>6, <1>8
  <2>2. /\ q \in RingStates /\ Sound(q)
        /\ q.origin = t.next /\ q.read = 0 /\ q.written = 0 /\ r.read = 0
    BY <1>5, <1>8, <2>1, OriginIsSound
  <2>3. q.origin # Unset /\ t.next + 0 = t.next + FrameLen - FrameLen
    BY <1>2, <1>6, <2>2 DEF Unset
  <2> HIDE DEF q, start
  <2>4. AtSample(q, pushing)
    BY <1>4, <1>7, <1>8, <2>2, <2>3 DEF AtSample
  <2>5. BsAt(q, pushing)
    BY <1>4, <1>7, <1>8, <2>3, <2>4 DEF BsAt
  <2>6. UeAt(q, pushing)
    BY <1>4, <1>7, <1>8, <2>3, <2>4 DEF UeAt
  <2>7. ring[s].read = q.read
    BY <2>2 DEF r
  <2>8. AirInv' /\ ring'[s] = q
    BY <1>1, <1>3, <1>7, <1>8, <2>1, <2>2, <2>5, <2>6, <2>7, SenderStep
  <2>9. ring[s].written = 0
    BY <1>2, <1>8, RingFacts
  <2> QED BY <1>2, <2>1, <2>2, <2>8, <2>9 DEF AirTypeOK
<1>9. CASE Set(s)
  <2>1. /\ ring' = ring /\ OriginIsSet(r) /\ r.origin # Unset
        /\ AbsoluteProduced(r) = r.origin + r.written
        /\ r.origin + r.written \in Nat
    BY <1>1, <1>5, <1>6, <1>9
  <2>2. s = "tx" => ~starts
    BY <1>4, <1>6, <1>9
  <2>3. s = "ul.tx" /\ t.errors = 0 /\ starts => t.sob /\ t.timed /\ t.at = t.next
                                                /\ t.left = FrameLen
    BY <1>4, <1>6, <1>9
  <2>4. s = "ul.tx" /\ t.errors = 0 /\ t.timed /\ ~starts => ~t.sob
    BY <1>4, <1>6, <1>9
  <2>5. CASE ~(starts /\ t.timed) \/ (starts /\ t.timed /\ start = AbsoluteProduced(r))
    <3>1. snd' = [snd EXCEPT ![s] = pushing]
      <4>1. start = AbsoluteProduced(r) => ~(start < AbsoluteProduced(r))
        BY <2>1
      <4> QED BY <1>1, <2>1, <2>5, <4>1
    <3>2. s = "tx" => BsAt(r, pushing)
      BY <1>4, <1>5, <1>7, <1>9, <2>1 DEF BsAt, AtSample
    <3>3. ASSUME s = "ul.tx", t.errors = 0
          PROVE  AtSample(r, pushing) /\ (t.sob => t.timed /\ t.at = t.next
                                                    /\ t.left = FrameLen)
      <4>1. CASE starts /\ t.timed
        <5>1. r.origin + r.written = t.next /\ t.left = FrameLen
          BY <2>1, <2>3, <2>5, <3>3, <4>1
        <5> QED BY <1>2, <1>6, <1>7, <2>3, <3>3, <4>1, <5>1 DEF AtSample
      <4>2. CASE ~(starts /\ t.timed)
        <5>1. ~t.sob
          BY <1>4, <3>3, <4>2
        <5> QED BY <1>4, <1>5, <1>7, <3>3, <5>1 DEF AtSample
      <4> QED BY <4>1, <4>2
    <3>4. s = "ul.tx" => UeAt(r, pushing)
      BY <1>4, <1>7, <2>1, <3>3 DEF UeAt
    <3>5. AirInv'
      BY <1>1, <1>3, <1>7, <2>1, <3>1, <3>2, <3>4, SenderAlone DEF r
    <3> QED BY <2>1, <3>5
  <2>6. CASE starts /\ t.timed /\ start < AbsoluteProduced(r)
    <3> DEFINE u == AfterSend(s, t, 0)
    <3>1. s = "ul.tx" /\ snd' = [snd EXCEPT ![s] = u]
      BY <1>1, <1>2, <2>1, <2>2, <2>6
    <3>2. /\ u \in Senders /\ u.inBurst = t.inBurst /\ u.errors = t.errors
          /\ u.pc = "call" /\ u.left = t.left - 0 /\ u.next = t.next /\ u.at = t.at
          /\ u.sob <=> t.sob
          /\ u.timed <=> t.timed
      BY <1>4, <1>6, <3>1, AfterSendDoes
    <3> HIDE DEF u
    <3>3. UeAt(r, u)
      BY <1>4, <1>5, <1>6, <2>1, <2>3, <2>6, <3>1, <3>2 DEF UeAt
    <3>4. AirInv'
      BY <1>1, <1>3, <2>1, <3>1, <3>2, <3>3, SenderAlone DEF r
    <3> QED BY <2>1, <3>4
  <2>7. CASE starts /\ t.timed /\ start > AbsoluteProduced(r)
    <3>1. s = "ul.tx" /\ snd' = [snd EXCEPT ![s] = gap]
      <4>1. ~(start < AbsoluteProduced(r)) /\ start # AbsoluteProduced(r)
        BY <1>3, <1>6, <2>1, <2>7
      <4> QED BY <1>1, <1>2, <2>1, <2>2, <2>7, <4>1
    <3>2. start - AbsoluteProduced(r) \in Nat
          /\ start - AbsoluteProduced(r) = t.at - (r.origin + r.written)
      BY <1>3, <1>6, <2>1, <2>7
    <3>3. /\ gap \in Senders /\ gap.pc = "gap" /\ gap.gap = t.at - (r.origin + r.written)
          /\ gap.sob = t.sob /\ gap.timed = t.timed /\ gap.at = t.at
          /\ gap.left = t.left /\ gap.next = t.next /\ gap.errors = t.errors
      BY <1>4, <3>2 DEF Senders, TxPlaces
    <3> HIDE DEF gap
    <3>4. UeAt(r, gap)
      BY <1>4, <1>5, <1>6, <2>1, <2>3, <2>7, <3>1, <3>3 DEF UeAt
    <3>5. AirInv'
      BY <1>1, <1>3, <2>1, <3>1, <3>3, <3>4, SenderAlone DEF r
    <3> QED BY <2>1, <3>5
  <2> QED BY <1>3, <1>6, <2>1, <2>5, <2>6, <2>7
<1> QED BY <1>8, <1>9

\* What a sender in a call knows of itself and its ring.
LEMMA SenderFacts ==
  ASSUME AirInv, NEW s \in TxRings, snd[s].pc # "idle"
  PROVE  LET t == snd[s]
             r == ring[s]
             free == FreeSlots(r, RingCapacity)
         IN  /\ AirTypeOK /\ s \in Rings /\ s \in {"tx", "ul.tx"} /\ FrameLen \in Nat
             /\ t \in Senders /\ t.left \in Nat /\ t.left > 0 /\ t.left <= FrameLen
             /\ t.gap \in Nat /\ t.next \in Nat /\ t.errors \in Nat /\ t.at \in Nat
             /\ t.sob \in BOOLEAN /\ t.inBurst \in BOOLEAN /\ t.first \in BOOLEAN
             /\ r \in RingStates /\ Sound(r) /\ r.origin # Unset /\ r.origin \in Nat
             /\ r.written \in Nat /\ AbsoluteProduced(r) = r.origin + r.written
             /\ free = RingCapacity - Len(r.cells) /\ free \in Nat
             /\ budget \in [commands : Nat, errors : Nat] /\ Set(s)
<1>1. AirTypeOK /\ RingInv /\ BsInv /\ UeInv /\ s \in Rings /\ s \in {"tx", "ul.tx"}
  BY RingNames DEF AirInv
<1>2. snd[s] \in Senders /\ snd[s].left \in 0 .. FrameLen /\ FrameLen \in Nat
      /\ snd[s].gap \in Nat /\ snd[s].next \in Nat /\ snd[s].errors \in Nat
      /\ snd[s].at \in Nat
      /\ snd[s].sob \in BOOLEAN /\ snd[s].inBurst \in BOOLEAN /\ snd[s].first \in BOOLEAN
  BY <1>1, Constants DEF AirTypeOK, Senders
<1>3. ring[s].origin # Unset /\ snd[s].left > 0 /\ Set(s)
  BY <1>1 DEF BsInv, UeInv, BsAt, UeAt, Set
<1>4. /\ ring[s] \in RingStates /\ Sound(ring[s]) /\ ring[s].origin \in Nat
      /\ ring[s].written \in Nat /\ AbsoluteProduced(ring[s]) = ring[s].origin + ring[s].written
      /\ FreeSlots(ring[s], RingCapacity) = RingCapacity - Len(ring[s].cells)
      /\ FreeSlots(ring[s], RingCapacity) \in Nat
  BY <1>1, <1>3, RingFacts DEF Produced
<1>5. budget \in [commands : Nat, errors : Nat]
  BY <1>1 DEF AirTypeOK
<1> QED BY <1>1, <1>2, <1>3, <1>4, <1>5

\* Only a transmit ring's own sender writes it.
WritesOnly(s) == \A p \in Rings \ {s} : ring'[p].written = ring[p].written

\* WriteGap: silence up to the start of the burst.
LEMMA WriteGapStep ==
  ASSUME AirInv, NEW s \in TxRings, WriteGap(s)
  PROVE  /\ AirInv' /\ WritesOnly(s)
         /\ \E n \in Nat : ring'[s].cells = ring[s].cells \o [i \in 1 .. n |-> Silence]
<1> DEFINE t == snd[s]
           r == ring[s]
           free == FreeSlots(r, RingCapacity)
           n == Min({t.gap, free})
           quiet == [i \in 1 .. n |-> Silence]
           q == Pushed(r, quiet)
           done == [t EXCEPT !.pc = "push", !.gap = 0, !.inBurst = TRUE]
           more == [t EXCEPT !.gap = t.gap - n]
           u == IF n = t.gap THEN done ELSE more
<1>0. t.pc = "gap" /\ t.pc # "idle"
  BY DEF WriteGap
<1>1. /\ AirTypeOK /\ s \in Rings /\ s \in {"tx", "ul.tx"} /\ FrameLen \in Nat
      /\ t \in Senders /\ t.left \in Nat /\ t.left > 0 /\ t.left <= FrameLen
      /\ t.gap \in Nat /\ t.next \in Nat /\ t.errors \in Nat /\ t.at \in Nat
      /\ t.sob \in BOOLEAN /\ t.inBurst \in BOOLEAN
      /\ r \in RingStates /\ Sound(r) /\ r.origin # Unset /\ r.origin \in Nat
      /\ r.written \in Nat
      /\ free = RingCapacity - Len(r.cells) /\ free \in Nat
      /\ budget \in [commands : Nat, errors : Nat]
  BY <1>0, SenderFacts
<1>2. s = "ul.tx" /\ UeAt(r, t)
  BY <1>0, <1>1 DEF AirInv, BsInv, UeInv, BsAt
<1>3. n \in Nat /\ n <= t.gap /\ n <= free /\ n > 0
  <2>1. n = IF t.gap <= free THEN t.gap ELSE free
    <3>1. t.gap \in Int /\ free \in Int
      BY <1>1
    <3> HIDE DEF t, free
    <3> QED BY <3>1, MinOfTwo
  <2> HIDE DEF n
  <2>2. n \in Nat /\ n <= t.gap /\ n <= free
    BY <1>1, <2>1
  <2>3. n > 0
    BY DEF WriteGap, n
  <2> QED BY <2>2, <2>3
<1>4. /\ snd' = [snd EXCEPT ![s] = u] /\ ring' = [ring EXCEPT ![s] = q]
      /\ UNCHANGED <<clock, hub, rcv, budget>>
  <2>1. snd' = [snd EXCEPT ![s] = u]
    BY DEF WriteGap
  <2>2. ring' = [ring EXCEPT ![s] = q] /\ UNCHANGED <<clock, hub, rcv, budget>>
    BY DEF WriteGap
  <2> QED BY <2>1, <2>2
<1> HIDE DEF n
<1>5. quiet \in Seq(Cells) /\ Len(quiet) = n /\ OnAir(quiet, r.origin + r.written)
  <2>1. r.origin + r.written \in Int
    BY <1>1
  <2> HIDE DEF r
  <2> QED BY <1>3, <2>1, Quiet
<1> HIDE DEF quiet
<1>6. /\ q \in RingStates /\ Sound(q) /\ q.origin = r.origin /\ q.read = r.read
      /\ q.written = r.written + n /\ q.cells = r.cells \o quiet
  BY <1>1, <1>3, <1>5, PushedIsSound
<1> HIDE DEF q
<1>7. /\ done \in Senders /\ done.pc = "push" /\ done.inBurst = TRUE
      /\ done.sob = t.sob /\ done.timed = t.timed /\ done.at = t.at
      /\ done.left = t.left /\ done.next = t.next /\ done.errors = t.errors
  <2> HIDE DEF t
  <2> QED BY <1>1 DEF Senders, TxPlaces
<1>8. /\ more \in Senders /\ more.pc = "gap" /\ more.gap = t.gap - n
      /\ more.sob = t.sob /\ more.timed = t.timed /\ more.at = t.at
      /\ more.left = t.left /\ more.next = t.next /\ more.errors = t.errors
  <2>1. t.gap - n \in Nat
    BY <1>1, <1>3
  <2> HIDE DEF t
  <2> QED BY <1>0, <1>1, <2>1 DEF Senders, TxPlaces
<1>9. t.errors = 0 => /\ t.sob /\ t.timed /\ t.at = t.next /\ t.left = FrameLen
                      /\ t.gap + r.origin + r.written = t.next
  BY <1>0, <1>2 DEF UeAt
<1> HIDE DEF t, r, free, done, more
<1>10. u \in Senders /\ UeAt(q, u)
  <2>1. CASE n = t.gap
    <3>0. /\ t.gap \in Nat /\ t.next \in Nat
          /\ r.origin \in Nat /\ r.written \in Nat /\ FrameLen \in Nat
      BY <1>1, Constants
    <3>1. t.errors = 0 => AtSample(q, done)
      <4>1. q.origin = r.origin /\ q.written = r.written + t.gap
        BY <1>6, <2>1
      <4>2. done.left = t.left /\ done.next = t.next
        BY <1>7
      <4> QED BY <1>9, <3>0, <4>1, <4>2 DEF AtSample
    <3>2. UeAt(q, done)
      BY <1>1, <1>6, <1>7, <1>9, <3>1 DEF UeAt
    <3> QED BY <1>7, <2>1, <3>2
  <2>2. CASE n # t.gap
    <3>1. t.errors = 0 => more.gap + q.origin + q.written = t.next
      BY <1>1, <1>3, <1>6, <1>8, <1>9
    <3>2. UeAt(q, more)
      BY <1>1, <1>6, <1>8, <1>9, <3>1 DEF UeAt
    <3> QED BY <1>8, <2>2, <3>2
  <2> QED BY <2>1, <2>2
<1> HIDE DEF u
<1>11. q.read = ring[s].read /\ q.origin = ring[s].origin
  BY <1>6 DEF r
<1>12. s = "tx" => BsAt(q, u)
  BY <1>2
<1>13. AirInv' /\ ring'[s] = q
  BY <1>1, <1>4, <1>6, <1>10, <1>11, <1>12, SenderStep
<1>14. WritesOnly(s)
  BY <1>1, <1>4 DEF WritesOnly, AirTypeOK
<1> QED BY <1>3, <1>6, <1>13, <1>14 DEF r, quiet

\* GapTimeout: the call returns with nothing sent.
LEMMA GapTimeoutStep ==
  ASSUME AirInv, NEW s \in TxRings, GapTimeout(s)
  PROVE  AirInv' /\ ring' = ring
<1> DEFINE t == snd[s]
           u == AfterSend(s, t, 0)
<1>0. t.pc = "gap" /\ t.pc # "idle"
  BY DEF GapTimeout
<1>1. /\ s \in {"tx", "ul.tx"} /\ t \in Senders /\ t.left \in Nat /\ t.left > 0
      /\ ring[s].origin # Unset /\ t.sob \in BOOLEAN
      /\ budget \in [commands : Nat, errors : Nat]
  BY <1>0, SenderFacts
<1>2. s = "ul.tx" /\ UeAt(ring[s], t)
  BY <1>0, <1>1 DEF AirInv, BsInv, UeInv, BsAt
<1>3. snd' = [snd EXCEPT ![s] = u] /\ UNCHANGED <<ring, clock, hub, rcv, budget>>
  BY DEF GapTimeout
<1> HIDE DEF t
<1>4. /\ u \in Senders /\ u.errors = t.errors
      /\ u.pc = "call" /\ u.left = t.left - 0 /\ u.next = t.next /\ u.at = t.at
      /\ u.sob <=> t.sob
      /\ u.timed <=> t.timed
  BY <1>1, <1>2, AfterSendDoes
<1>5. t.errors = 0 => t.sob /\ t.timed /\ t.at = t.next /\ t.left = FrameLen
  BY <1>0, <1>2 DEF UeAt
<1> HIDE DEF u
<1>6. UeAt(ring[s], u)
  BY <1>1, <1>4, <1>5 DEF UeAt
<1> QED BY <1>1, <1>2, <1>3, <1>4, <1>6, SenderAlone

\* The rest of a frame, as it goes on the air now.
LEMMA RestOnAir ==
  ASSUME AirInv, NEW s \in TxRings, snd[s].pc # "idle",
         NEW n \in Nat, n <= snd[s].left
  PROVE  LET xs == SubSeq(Rest(s), 1, n)
         IN  /\ xs \in Seq(Cells) /\ Len(xs) = n
             /\ OnAir(xs, ring[s].origin + ring[s].written)
             /\ AtSample(ring[s], snd[s]) =>
                  \A i \in 1 .. n : xs[i].meant = xs[i].aired
<1> DEFINE t == snd[s]
           r == ring[s]
           p == AbsoluteProduced(r)
           m == t.next + FrameLen - t.left
           cell(i) == [meant |-> m + i - 1, aired |-> p + i - 1]
           all == [i \in 1 .. t.left |-> cell(i)]
           xs == SubSeq(all, 1, n)
<1>1. /\ FrameLen \in Nat /\ t.left \in Nat /\ t.next \in Nat
      /\ r.origin \in Nat /\ r.written \in Nat /\ p = r.origin + r.written
  BY SenderFacts
<1>2. Rest(s) = [i \in 1 .. t.left |->
                   [meant |-> t.next + FrameLen - t.left + i - 1,
                    aired |-> AbsoluteProduced(r) + i - 1]]
  BY DEF Rest
<1>3. Rest(s) = all
  BY <1>2
<1>4. m \in Int /\ p \in Int
  BY <1>1
<1>5. n <= t.left
  OBVIOUS
<1> HIDE DEF t, r, p, m
<1>6. \A i \in Int : cell(i) \in Cells /\ On(cell(i), p + i - 1)
                     /\ (p = m => cell(i).meant = cell(i).aired)
  BY <1>4 DEF Cells, On
<1> HIDE DEF cell
<1>8. \A i \in 1 .. t.left : all[i] = cell(i)
  OBVIOUS
<1>14. all = [i \in 1 .. t.left |-> all[i]]
  OBVIOUS
<1> HIDE DEF all
<1>7. all \in Seq(Cells) /\ Len(all) = t.left
  <2>1. \A i \in 1 .. t.left : all[i] \in Cells
    BY <1>6, <1>8
  <2>2. t.left \in Nat
    BY <1>1
  <2>3. all \in [1 .. t.left -> Cells]
    BY <1>14, <2>1
  <2> QED BY <2>2, <2>3, IsASeq
<1>9. xs \in Seq(Cells) /\ Len(xs) = n
  BY <1>1, <1>5, <1>7
<1>10. \A i \in 1 .. n : xs[i] = cell(i)
  BY <1>1, <1>5, <1>7, <1>8
<1> HIDE DEF xs
<1>11. OnAir(xs, p)
  BY <1>6, <1>9, <1>10 DEF OnAir
<1>12. AtSample(r, t) => p = m
  BY <1>1 DEF AtSample, m
<1>13. AtSample(r, t) => \A i \in 1 .. n : xs[i].meant = xs[i].aired
  BY <1>6, <1>10, <1>12
<1> QED BY <1>1, <1>3, <1>9, <1>11, <1>13 DEF xs, t, r

\* Push: as much of the frame as there is room for, where it belongs.
LEMMA PushStep ==
  ASSUME AirInv, NEW s \in TxRings, Push(s)
  PROVE  /\ AirInv' /\ WritesOnly(s)
         /\ \E n \in Nat : n <= snd[s].left
                           /\ ring'[s].cells = ring[s].cells \o SubSeq(Rest(s), 1, n)
<1> DEFINE t == snd[s]
           r == ring[s]
           free == FreeSlots(r, RingCapacity)
           n == Min({t.left, free})
           xs == SubSeq(Rest(s), 1, n)
           q == Pushed(r, xs)
           a == AfterSend(s, t, n)
           u == [a EXCEPT !.pc = IF n = t.left THEN a.pc ELSE "push"]
<1>0. t.pc = "push" /\ t.pc # "idle"
  BY DEF Push
<1>1. /\ AirTypeOK /\ s \in Rings /\ s \in {"tx", "ul.tx"} /\ FrameLen \in Nat
      /\ t \in Senders /\ t.left \in Nat /\ t.left > 0 /\ t.left <= FrameLen
      /\ t.next \in Nat /\ t.errors \in Nat
      /\ t.sob \in BOOLEAN /\ t.inBurst \in BOOLEAN
      /\ r \in RingStates /\ Sound(r) /\ r.origin # Unset /\ r.origin \in Nat
      /\ r.written \in Nat
      /\ free = RingCapacity - Len(r.cells) /\ free \in Nat
      /\ budget \in [commands : Nat, errors : Nat]
  BY <1>0, SenderFacts
<1>2. /\ s = "tx" => t.inBurst /\ AtSample(r, t)
      /\ s = "ul.tx" /\ t.errors = 0 => t.inBurst /\ AtSample(r, t)
  <2>1. s = "tx" => BsAt(r, t)
    BY DEF AirInv, BsInv
  <2>2. s = "ul.tx" => UeAt(r, t)
    BY DEF AirInv, UeInv
  <2> HIDE DEF t, r
  <2>3. s = "tx" => t.inBurst /\ AtSample(r, t)
    BY <1>0, <1>1, <2>1 DEF BsAt
  <2>4. s = "ul.tx" /\ t.errors = 0 => t.inBurst /\ AtSample(r, t)
    BY <1>0, <1>1, <2>2 DEF UeAt
  <2> QED BY <2>3, <2>4
<1>3. n \in Nat /\ n <= t.left /\ n <= free /\ n > 0
  <2>1. n = IF t.left <= free THEN t.left ELSE free
    BY <1>1, MinOfTwo
  <2> HIDE DEF n
  <2>2. n \in Nat /\ n <= t.left /\ n <= free
    BY <1>1, <2>1
  <2>3. n > 0
    BY DEF Push, n
  <2> QED BY <2>2, <2>3
<1>4. /\ snd' = [snd EXCEPT ![s] = u] /\ ring' = [ring EXCEPT ![s] = q]
      /\ UNCHANGED <<clock, hub, rcv, budget>>
  <2>1. snd' = [snd EXCEPT ![s] = u]
    BY DEF Push
  <2>2. ring' = [ring EXCEPT ![s] = q] /\ UNCHANGED <<clock, hub, rcv, budget>>
    BY DEF Push
  <2> QED BY <2>1, <2>2
<1> HIDE DEF n
<1>5. xs \in Seq(Cells) /\ Len(xs) = n /\ OnAir(xs, r.origin + r.written)
  BY <1>0, <1>3, RestOnAir
<1> HIDE DEF xs
<1>6. /\ q \in RingStates /\ Sound(q) /\ q.origin = r.origin /\ q.read = r.read
      /\ q.written = r.written + n /\ q.cells = r.cells \o xs
  BY <1>1, <1>3, <1>5, PushedIsSound
<1> HIDE DEF q, t
<1>7. /\ a \in Senders
      /\ a.inBurst = t.inBurst /\ a.errors = t.errors
      /\ n < t.left =>
           /\ a.pc = "call" /\ a.left = t.left - n
           /\ a.first = t.first /\ a.next = t.next /\ a.at = t.at
           /\ ~a.sob /\ ~a.timed
      /\ n = t.left => a.pc = "idle" /\ a.next = t.next + FrameLen /\ ~a.first
  BY <1>1, <1>3, AfterSendDoes
<1> HIDE DEF a, r, free
<1>8. /\ u \in Senders
      /\ u.inBurst = t.inBurst /\ u.errors = t.errors
      /\ n < t.left => u.pc = "push" /\ u.left = t.left - n /\ u.next = t.next /\ ~u.sob
      /\ n = t.left => u.pc = "idle" /\ u.next = t.next + FrameLen /\ ~u.first
  <2>1. CASE n = t.left
    <3>1. u = [a EXCEPT !.pc = a.pc]
      BY <2>1
    <3>2. u = a
      BY <1>7, <3>1 DEF Senders
    <3> QED BY <1>3, <1>7, <2>1, <3>2
  <2>2. CASE n < t.left
    <3>1. u = [a EXCEPT !.pc = "push"]
      BY <2>2, <1>1, <1>3
    <3>2. /\ u \in Senders /\ u.pc = "push" /\ u.left = a.left /\ u.next = a.next
          /\ u.sob = a.sob /\ u.inBurst = a.inBurst /\ u.errors = a.errors
      BY <1>7, <3>1 DEF Senders, TxPlaces
    <3> QED BY <1>1, <1>3, <1>7, <2>2, <3>2
  <2> QED BY <1>1, <1>3, <2>1, <2>2
<1> HIDE DEF u
<1>9. ASSUME AtSample(r, t)
      PROVE  /\ n < t.left => AtSample(q, u)
             /\ n = t.left => q.origin + q.written = u.next
  <2>1. q.origin + q.written = t.next + FrameLen - t.left + n
    BY <1>1, <1>3, <1>6, <1>9 DEF AtSample
  <2>2. ASSUME n < t.left PROVE AtSample(q, u)
    <3>1. u.left = t.left - n /\ u.next = t.next
      BY <1>8, <2>2
    <3>2. t.next + FrameLen - (t.left - n) = t.next + FrameLen - t.left + n
      BY <1>1, <1>3
    <3> QED BY <2>1, <3>1, <3>2 DEF AtSample
  <2>3. ASSUME n = t.left PROVE q.origin + q.written = u.next
    BY <1>1, <1>8, <2>1, <2>3
  <2> QED BY <2>2, <2>3
<1>10. n < t.left => u.left > 0
  BY <1>1, <1>3, <1>8
<1>11. s = "tx" => BsAt(q, u)
  <2>1. CASE n = t.left
    BY <1>1, <1>2, <1>6, <1>8, <1>9, <2>1 DEF BsAt
  <2>2. CASE n < t.left
    BY <1>1, <1>2, <1>6, <1>8, <1>9, <1>10, <2>2 DEF BsAt
  <2> QED BY <1>1, <1>3, <2>1, <2>2
<1>12. s = "ul.tx" => UeAt(q, u)
  <2>1. CASE n = t.left
    <3>1. u.first \in BOOLEAN /\ u.inBurst \in BOOLEAN
      BY <1>8 DEF Senders
    <3> QED BY <1>1, <1>2, <1>6, <1>8, <1>9, <2>1, <3>1 DEF UeAt
  <2>2. CASE n < t.left
    BY <1>1, <1>2, <1>6, <1>8, <1>9, <1>10, <2>2 DEF UeAt
  <2> QED BY <1>1, <1>3, <2>1, <2>2
<1>13. q.read = ring[s].read /\ q.origin = ring[s].origin
  BY <1>6 DEF r
<1>14. AirInv' /\ ring'[s] = q
  BY <1>1, <1>4, <1>6, <1>8, <1>11, <1>12, <1>13, SenderStep
<1>15. WritesOnly(s)
  BY <1>1, <1>4 DEF WritesOnly, AirTypeOK
<1> QED BY <1>3, <1>6, <1>14, <1>15 DEF r, xs, t

\* PushTimeout: the frame waits where it is.
LEMMA PushTimeoutStep ==
  ASSUME AirInv, NEW s \in TxRings, PushTimeout(s)
  PROVE  AirInv' /\ ring' = ring
<1> DEFINE t == snd[s]
           r == ring[s]
           a == AfterSend(s, t, 0)
           b == [t EXCEPT !.pc = "call", !.refused = TRUE]
           u == IF t.left = FrameLen THEN a ELSE b
<1>0. t.pc = "push" /\ t.pc # "idle"
  BY DEF PushTimeout
<1>1. /\ s \in {"tx", "ul.tx"} /\ t \in Senders /\ t.left \in Nat /\ t.left > 0
      /\ r.origin # Unset /\ t.sob \in BOOLEAN /\ t.inBurst \in BOOLEAN
      /\ budget \in [commands : Nat, errors : Nat]
  BY <1>0, SenderFacts
<1>2. /\ s = "tx" => BsAt(r, t)
      /\ s = "ul.tx" => UeAt(r, t)
  BY DEF AirInv, BsInv, UeInv
<1>3. snd' = [snd EXCEPT ![s] = u] /\ UNCHANGED <<ring, clock, hub, rcv, budget>>
  BY DEF PushTimeout
<1> HIDE DEF t, r
<1>4. /\ a \in Senders /\ a.errors = t.errors /\ a.inBurst = t.inBurst
      /\ a.pc = "call" /\ a.left = t.left - 0 /\ a.next = t.next /\ a.at = t.at
      /\ a.sob <=> s = "ul.tx" /\ t.sob
      /\ a.timed <=> s = "ul.tx" /\ t.timed
  BY <1>1, AfterSendDoes
<1>5. /\ b \in Senders /\ b.errors = t.errors /\ b.inBurst = t.inBurst
      /\ b.pc = "call" /\ b.left = t.left /\ b.next = t.next /\ b.at = t.at
      /\ b.sob = t.sob /\ b.timed = t.timed
  BY <1>1 DEF Senders, TxPlaces
<1> HIDE DEF a, b
<1>6. a.left = t.left
  BY <1>1, <1>4
<1>7. s = "tx" => BsAt(r, u)
  <2>1. s = "tx" => t.inBurst /\ AtSample(r, t) /\ (t.sob => t.left = FrameLen)
    BY <1>0, <1>1, <1>2 DEF BsAt
  <2>2. CASE t.left = FrameLen
    BY <1>1, <1>4, <1>6, <2>1, <2>2 DEF BsAt, AtSample
  <2>3. CASE t.left # FrameLen
    BY <1>1, <1>5, <2>1, <2>3 DEF BsAt, AtSample
  <2> QED BY <2>2, <2>3
<1>8. s = "ul.tx" => UeAt(r, u)
  <2>1. s = "ul.tx" /\ t.errors = 0 =>
          /\ t.inBurst /\ AtSample(r, t)
          /\ t.sob => t.timed /\ t.at = t.next /\ t.left = FrameLen
    BY <1>0, <1>1, <1>2 DEF UeAt
  <2>2. CASE t.left = FrameLen
    BY <1>1, <1>4, <1>6, <2>1, <2>2 DEF UeAt, AtSample
  <2>3. CASE t.left # FrameLen
    BY <1>1, <1>5, <2>1, <2>3 DEF UeAt, AtSample
  <2> QED BY <2>2, <2>3
<1>9. u \in Senders
  BY <1>4, <1>5
<1> HIDE DEF u
<1> QED BY <1>1, <1>3, <1>7, <1>8, <1>9, SenderAlone DEF r

\* GiveUp and UlRestart: the UE loses a period, and begins a burst anew.
LEMMA GiveUpStep ==
  ASSUME AirInv, GiveUp
  PROVE  AirInv' /\ ring' = ring
<1> DEFINE t == snd["ul.tx"]
           f == FrameDone(t)
           u == [f EXCEPT !.first = t.first /\ t.left = FrameLen, !.errors = f.errors + 1]
<1>1. "ul.tx" \in TxRings /\ t.pc = "call" /\ "ul.tx" # "tx"
  BY RingNames DEF GiveUp
<1>2. /\ t \in Senders /\ budget \in [commands : Nat, errors : Nat]
      /\ t.next + FrameLen \in Nat /\ t.errors + 1 \in Nat /\ t.errors + 1 # 0
      /\ 0 \in 0 .. FrameLen /\ budget.errors > 0
  <2>1. /\ t \in Senders /\ budget \in [commands : Nat, errors : Nat]
        /\ t.next \in Nat /\ t.errors \in Nat /\ FrameLen \in Nat
    BY <1>1, SenderFacts
  <2> QED BY <2>1 DEF GiveUp
<1>3. /\ snd' = [snd EXCEPT !["ul.tx"] = u] /\ UNCHANGED <<ring, clock, hub, rcv>>
      /\ budget' = [budget EXCEPT !.errors = @ - 1]
  BY DEF GiveUp
<1>4. budget' \in [commands : Nat, errors : Nat]
  <2>1. budget.errors - 1 \in Nat
    BY <1>2
  <2> QED BY <1>2, <1>3, <2>1
<1> HIDE DEF t
<1>5. f \in Senders /\ f.pc = "idle" /\ f.errors = t.errors
  <2>1. f = [t EXCEPT !.pc = "idle", !.next = t.next + FrameLen, !.first = FALSE,
                      !.left = 0, !.refused = FALSE, !.gap = 0]
    BY DEF FrameDone
  <2> HIDE DEF f
  <2> QED BY <1>2, <2>1 DEF Senders, TxPlaces
<1> HIDE DEF f
<1>6. u \in Senders /\ u.pc = "idle" /\ u.errors # 0
  <2>1. f.errors + 1 \in Nat /\ f.errors + 1 # 0
    BY <1>2, <1>5
  <2> QED BY <1>5, <2>1 DEF Senders
<1> HIDE DEF u
<1>7. UeAt(ring["ul.tx"], u)
  BY <1>6 DEF UeAt
<1> QED BY <1>1, <1>3, <1>4, <1>6, <1>7, SenderAlone

LEMMA UlRestartStep ==
  ASSUME AirInv, UlRestart
  PROVE  AirInv' /\ ring' = ring
<1> DEFINE t == snd["ul.tx"]
           u == [t EXCEPT !.inBurst = FALSE, !.first = TRUE, !.next = clock + StartLead,
                          !.errors = 0]
<1>1. "ul.tx" \in TxRings /\ t.pc = "idle" /\ "ul.tx" # "tx"
  BY RingNames DEF UlRestart
<1>2. /\ t \in Senders /\ budget \in [commands : Nat, errors : Nat]
      /\ clock + StartLead \in Nat
  BY <1>1, Constants DEF AirInv, AirTypeOK
<1>3. snd' = [snd EXCEPT !["ul.tx"] = u] /\ UNCHANGED <<ring, clock, hub, rcv, budget>>
  BY DEF UlRestart
<1> HIDE DEF t
<1>4. u \in Senders /\ u.pc = t.pc /\ u.first = TRUE /\ u.inBurst = FALSE
  BY <1>2 DEF Senders
<1> HIDE DEF u
<1>5. UeAt(ring["ul.tx"], u)
  BY <1>1, <1>4 DEF UeAt, t
<1> QED BY <1>1, <1>2, <1>3, <1>4, <1>5, SenderAlone

-----------------------------------------------------------------------------
(* The hub.                                                                *)

\* A list without samples.
LEMMA NoneLeft ==
  ASSUME NEW a \in Seq(Cells)
  PROVE  Len(a) = 0 <=> a = <<>>
OBVIOUS

\* What a step of the hub on one ring does to the rest.
LEMMA HubTurn ==
  ASSUME AirInv, NEW p \in Rings, NEW q \in RingStates, Sound(q),
         ring' = [ring EXCEPT ![p] = q], q.origin = ring[p].origin,
         p \in TxRings => q.written = ring[p].written,
         p \in RxRings => q.read = ring[p].read,
         UNCHANGED <<snd, rcv, budget>>, hub' \in Hubs, clock' \in Nat
  PROVE  /\ AirTypeOK' /\ RingInv' /\ StampInv' /\ BsInv' /\ UeInv'
         /\ ring'[p] = q /\ \A r \in Rings \ {p} : ring'[r] = ring[r]
<1>1. AirTypeOK /\ RingInv /\ StampInv /\ BsInv /\ UeInv
  BY DEF AirInv
<1>2. /\ ring' \in [Rings -> RingStates] /\ RingInv'
      /\ ring'[p] = q /\ \A r \in Rings \ {p} : ring'[r] = ring[r]
  BY <1>1, RingReplaced
<1>3. AirTypeOK'
  BY <1>1, <1>2 DEF AirTypeOK
<1>4. \A r \in RxRings : ReaderKept(r)
  BY <1>2, RingNames DEF ReaderKept
<1>5. WriterKept("tx") /\ WriterKept("ul.tx")
  BY <1>2, RingNames DEF WriterKept
<1> QED BY <1>1, <1>2, <1>3, <1>4, <1>5, StampKept, BsKept, UeKept

\* The hub's own state.
LEMMA HubFacts ==
  ASSUME AirInv
  PROVE  /\ AirTypeOK /\ RingInv /\ ChunkInv /\ UplinkInv
         /\ hub \in Hubs /\ hub.start \in Nat /\ hub.size \in Nat /\ hub.stale \in Nat
         /\ hub.line \in Seq(Cells) /\ hub.ul \in Seq(Cells)
         /\ Len(hub.line) \in Nat /\ Len(hub.ul) \in Nat
         /\ clock \in Nat
         /\ "tx" \in Rings /\ "ul.tx" \in Rings /\ "rx.comm" \in Rings /\ "rx.ul" \in Rings
         /\ "tx" \in TxRings /\ "ul.tx" \in TxRings
         /\ "rx.comm" \in RxRings /\ "rx.ul" \in RxRings
<1>1. AirTypeOK /\ RingInv /\ ChunkInv /\ UplinkInv
  BY DEF AirInv
<1>2. hub \in Hubs /\ clock \in Nat
  BY <1>1 DEF AirTypeOK
<1>3. /\ hub.start \in Nat /\ hub.size \in Nat /\ hub.stale \in Nat
      /\ hub.line \in Seq(Cells) /\ hub.ul \in Seq(Cells)
  BY <1>2 DEF Hubs
<1>4. Len(hub.line) \in Nat /\ Len(hub.ul) \in Nat
  BY <1>3
<1> QED BY <1>1, <1>2, <1>3, <1>4, RingNames

\* HubPublish: the chunk goes on to the downlink's ring.
LEMMA HubPublishStep ==
  ASSUME AirInv, HubPublish
  PROVE  AirInv' /\ \A p \in TxRings : ring'[p].written = ring[p].written
<1> DEFINE r == ring["rx.comm"]
           free == FreeSlots(r, RingCapacity)
           n == Min({Len(hub.line), free})
           xs == SubSeq(hub.line, 1, n)
           rest == SubSeq(hub.line, n + 1, Len(hub.line))
           q == Pushed(r, xs)
           h == [hub EXCEPT !.line = rest,
                            !.pc = IF n = Len(hub.line) THEN "uplink" ELSE hub.pc]
<1>1. /\ hub.pc = "publish" /\ n > 0
      /\ ring' = [ring EXCEPT !["rx.comm"] = q] /\ hub' = h
      /\ UNCHANGED <<clock, snd, rcv, budget>>
  BY DEF HubPublish
<1>2. Set("rx.comm") /\ Set("rx.ul")
  BY <1>1, HubFacts DEF ChunkInv
<1>3. /\ r \in RingStates /\ Sound(r) /\ r.origin \in Nat /\ r.origin # Unset
      /\ r.written \in Nat /\ free = RingCapacity - Len(r.cells) /\ free \in Nat
  BY <1>2, HubFacts, RingFacts DEF Set
<1>4. n \in Nat /\ n <= Len(hub.line) /\ n <= free /\ n > 0
  <2>1. n = IF Len(hub.line) <= free THEN Len(hub.line) ELSE free
    BY <1>3, HubFacts, MinOfTwo
  <2>2. n > 0
    BY <1>1
  <2> HIDE DEF n, free
  <2> QED BY <1>3, <2>1, <2>2, HubFacts
<1>5. /\ Set("tx") /\ Consumed("tx") = hub.start + hub.size
      /\ Produced("rx.comm") = hub.start + hub.size - Len(hub.line)
      /\ Produced("rx.ul") = hub.start + 0
      /\ OnAir(hub.line, hub.start + hub.size - Len(hub.line))
  BY <1>1, <1>2, HubFacts DEF ChunkInv
<1> HIDE DEF n
<1>6. /\ xs \in Seq(Cells) /\ Len(xs) = n
      /\ OnAir(xs, hub.start + hub.size - Len(hub.line))
      /\ rest \in Seq(Cells) /\ Len(rest) = Len(hub.line) - n
      /\ OnAir(rest, hub.start + hub.size - Len(hub.line) + n)
  <2>1. hub.start + hub.size - Len(hub.line) \in Int
    BY HubFacts
  <2> QED BY <1>4, <1>5, <2>1, HubFacts, SplitOnAir
<1> HIDE DEF xs, rest
<1>7. r.origin + r.written = hub.start + hub.size - Len(hub.line)
  BY <1>5 DEF Produced
<1>8. /\ q \in RingStates /\ Sound(q) /\ q.origin = r.origin /\ q.read = r.read
      /\ q.written = r.written + n
  BY <1>3, <1>4, <1>6, <1>7, PushedIsSound
<1> HIDE DEF q
<1>9. /\ h \in Hubs /\ h.start = hub.start /\ h.size = hub.size /\ h.line = rest
      /\ h.ul = hub.ul /\ h.stale = hub.stale
      /\ h.pc = IF n = Len(hub.line) THEN "uplink" ELSE "publish"
  <2>1. h = [hub EXCEPT !.line = rest,
                        !.pc = IF n = Len(hub.line) THEN "uplink" ELSE "publish"]
    BY <1>1
  <2>2. hub \in Hubs
    BY HubFacts
  <2> HIDE DEF h
  <2>3. (IF n = Len(hub.line) THEN "uplink" ELSE "publish") \in HubPlaces
    BY DEF HubPlaces
  <2> DEFINE place == IF n = Len(hub.line) THEN "uplink" ELSE "publish"
  <2> HIDE DEF place
  <2>4. h = [hub EXCEPT !.line = rest, !.pc = place] /\ place \in HubPlaces
    BY <2>1, <2>3 DEF place
  <2>5. /\ h \in Hubs /\ h.start = hub.start /\ h.size = hub.size /\ h.line = rest
        /\ h.ul = hub.ul /\ h.stale = hub.stale /\ h.pc = place
    BY <1>6, <2>2, <2>4 DEF Hubs
  <2> QED BY <2>5 DEF place
<1> HIDE DEF h
<1>10. /\ AirTypeOK' /\ RingInv' /\ StampInv' /\ BsInv' /\ UeInv'
       /\ ring'["rx.comm"] = q
       /\ \A p \in Rings \ {"rx.comm"} : ring'[p] = ring[p]
  <2>1. /\ q.origin = ring["rx.comm"].origin /\ q.read = ring["rx.comm"].read
        /\ "rx.comm" \in Rings /\ "rx.comm" \notin TxRings
    BY <1>8, RingNames DEF r
  <2>2. hub' \in Hubs /\ clock' \in Nat
    BY <1>1, <1>9, HubFacts
  <2> QED BY <1>1, <1>8, <2>1, <2>2, HubTurn
<1>11. /\ ring'["tx"] = ring["tx"] /\ ring'["ul.tx"] = ring["ul.tx"]
       /\ ring'["rx.ul"] = ring["rx.ul"]
  BY <1>10, RingNames
<1>12. ChunkInv'
  <2>1. Set("rx.comm")' /\ Set("rx.ul")' /\ Set("tx")'
    BY <1>2, <1>5, <1>3, <1>8, <1>10, <1>11 DEF Set
  <2>2. /\ Consumed("tx")' = hub'.start + hub'.size
        /\ Produced("rx.comm")' = hub'.start + hub'.size - Len(hub'.line)
        /\ Produced("rx.ul")' = hub'.start + 0
    <3>1. Consumed("tx")' = Consumed("tx") /\ Produced("rx.ul")' = Produced("rx.ul")
      BY <1>11 DEF Consumed, Produced
    <3>2. Produced("rx.comm")' = r.origin + r.written + n
      BY <1>3, <1>4, <1>8, <1>10 DEF Produced
    <3> QED BY <1>1, <1>4, <1>5, <1>6, <1>7, <1>9, <3>1, <3>2, HubFacts
  <2>3. OnAir(hub'.line, hub'.start + hub'.size - Len(hub'.line))
    <3>1. hub.start + hub.size - Len(hub.line) + n
            = hub'.start + hub'.size - Len(hub'.line)
      BY <1>1, <1>4, <1>6, <1>9, HubFacts
    <3> QED BY <1>1, <1>6, <1>9, <3>1
  <2>4. hub'.pc = "publish" <=> hub'.line # <<>>
    BY <1>1, <1>4, <1>6, <1>9, HubFacts, NoneLeft
  <2>5. hub'.pc \in {"publish", "uplink"}
    BY <1>1, <1>9
  <2> QED BY <2>1, <2>2, <2>3, <2>4, <2>5 DEF ChunkInv
<1>13. UplinkInv'
  <2>1. hub'.pc \in {"publish", "uplink"} /\ hub'.start = hub.start
    BY <1>1, <1>9
  <2>2. ring["ul.tx"].read = 0 \/ Consumed("ul.tx") <= hub.start + 0
    BY <1>1, HubFacts DEF UplinkInv
  <2>3. ring'["ul.tx"].read = 0 \/ Consumed("ul.tx")' <= hub'.start + 0
    BY <1>11, <2>1, <2>2 DEF Consumed
  <2> QED BY <2>1, <2>3 DEF UplinkInv
<1> QED BY <1>10, <1>11, <1>12, <1>13, RingNames DEF AirInv

\* HubMapUplink: where the chunk lies on the uplink.
LEMMA HubMapStep ==
  ASSUME AirInv, HubMapUplink
  PROVE  AirInv' /\ ring' = ring
<1> DEFINE r == ring["ul.tx"]
           relative == hub.start - r.origin
           quiet(n) == [i \in 1 .. n |-> Silence]
           short == Min({-relative, hub.size})
           late == Max({0, relative - r.read})
           none == [hub EXCEPT !.pc = "answer", !.ul = quiet(hub.size)]
           future == [hub EXCEPT !.pc = "drain", !.ul = quiet(short)]
           past == [hub EXCEPT !.pc = "skip", !.ul = <<>>, !.stale = late]
<1>1. /\ hub.pc = "uplink"
      /\ hub' = IF ~OriginIsSet(r) THEN none
                ELSE IF relative < 0 THEN future
                ELSE past
      /\ UNCHANGED <<ring, clock, snd, rcv, budget>>
  BY DEF HubMapUplink
<1>2. Set("rx.comm") /\ Set("rx.ul")
  BY <1>1, HubFacts DEF ChunkInv
<1>3. /\ r \in RingStates /\ Sound(r) /\ r.origin \in Int /\ r.read \in Nat
      /\ Set("ul.tx") <=> OriginIsSet(r)
      /\ ~Set("ul.tx") => r.read = 0
      /\ Set("ul.tx") => r.origin \in Nat
      /\ Consumed("ul.tx") = r.origin + r.read
  BY HubFacts, RingFacts DEF Consumed
<1>4. /\ Set("tx") /\ Consumed("tx") = hub.start + hub.size
      /\ Produced("rx.comm") = hub.start + hub.size - Len(hub.line)
      /\ Produced("rx.ul") = hub.start + 0
      /\ OnAir(hub.line, hub.start + hub.size - Len(hub.line))
      /\ hub.line = <<>>
  BY <1>1, <1>2, HubFacts DEF ChunkInv
<1>5. r.read = 0 \/ r.origin + r.read <= hub.start
  <2>1. r.read = 0 \/ Consumed("ul.tx") <= hub.start + 0
    BY <1>1, HubFacts DEF UplinkInv
  <2> QED BY <1>3, <2>1, HubFacts
<1>6. relative \in Int /\ -relative \in Int /\ relative - r.read \in Int
  BY <1>3, HubFacts
<1>7. short = IF -relative <= hub.size THEN -relative ELSE hub.size
  BY <1>6, HubFacts, MinOfTwo
<1>8. late = IF 0 <= relative - r.read THEN relative - r.read ELSE 0
  BY <1>6, MaxOfTwo
<1>9. hub \in Hubs /\ "rx.ul" \in Rings
  BY HubFacts
<1>10. /\ none \in Hubs /\ none.pc = "answer" /\ Len(none.ul) = hub.size
       /\ OnAir(none.ul, hub.start) /\ none.start = hub.start /\ none.size = hub.size
       /\ none.line = hub.line
  <2>1. /\ quiet(hub.size) \in Seq(Cells) /\ Len(quiet(hub.size)) = hub.size
        /\ OnAir(quiet(hub.size), hub.start)
    <3>1. hub.size \in Nat /\ hub.start \in Int
      BY HubFacts
    <3> QED BY <3>1, Quiet
  <2> HIDE DEF quiet
  <2> QED BY <1>9, <2>1 DEF Hubs, HubPlaces
<1>11. ASSUME relative < 0
       PROVE  /\ future \in Hubs /\ future.pc = "drain" /\ Len(future.ul) = short
              /\ OnAir(future.ul, hub.start) /\ future.start = hub.start
              /\ future.size = hub.size /\ future.line = hub.line
              /\ short <= hub.size /\ (short = hub.size \/ short = -relative)
  <2>1. short \in Nat /\ short <= hub.size /\ (short = hub.size \/ short = -relative)
    BY <1>6, <1>7, <1>11, HubFacts
  <2> HIDE DEF short
  <2>2. quiet(short) \in Seq(Cells) /\ Len(quiet(short)) = short
        /\ OnAir(quiet(short), hub.start)
    <3>1. hub.start \in Int
      BY HubFacts
    <3> QED BY <2>1, <3>1, Quiet
  <2> HIDE DEF quiet
  <2> QED BY <1>9, <2>1, <2>2 DEF Hubs, HubPlaces
<1>12. /\ past \in Hubs /\ past.pc = "skip" /\ past.ul = <<>> /\ past.stale = late
       /\ past.start = hub.start /\ past.size = hub.size /\ past.line = hub.line
  <2>1. late \in Nat
    BY <1>6, <1>8
  <2> HIDE DEF late
  <2> QED BY <1>9, <2>1, NothingOnAir DEF Hubs, HubPlaces
<1> HIDE DEF none, future, past, short, late, quiet
<1>13. /\ hub' \in Hubs /\ hub'.pc \in {"answer", "drain", "skip"}
       /\ hub'.start = hub.start /\ hub'.size = hub.size /\ hub'.line = hub.line
       /\ hub'.pc = "answer" => Len(hub'.ul) = hub'.size /\ OnAir(hub'.ul, hub'.start)
       /\ hub'.pc = "drain" => Len(hub'.ul) <= hub'.size /\ OnAir(hub'.ul, hub'.start)
  <2>1. CASE ~OriginIsSet(r)
    BY <1>1, <1>10, <2>1
  <2>2. CASE OriginIsSet(r) /\ relative < 0
    BY <1>1, <1>11, <2>2
  <2>3. CASE OriginIsSet(r) /\ ~(relative < 0)
    BY <1>1, <1>12, <2>3
  <2> QED BY <2>1, <2>2, <2>3
<1>14. AirTypeOK' /\ RingInv' /\ StampInv' /\ BsInv' /\ UeInv'
  <2>1. ring' = [ring EXCEPT !["rx.ul"] = ring["rx.ul"]]
    BY <1>1, HubFacts DEF AirTypeOK
  <2>2. ring["rx.ul"] \in RingStates /\ Sound(ring["rx.ul"])
    BY HubFacts, RingFacts
  <2>3. clock' \in Nat
    BY <1>1, HubFacts
  <2>4. UNCHANGED <<snd, rcv, budget>>
    BY <1>1
  <2> QED BY <1>9, <1>13, <2>1, <2>2, <2>3, <2>4, HubTurn
<1>15. ChunkInv'
  <2>1. Set("rx.comm")' /\ Set("rx.ul")' /\ Set("tx")'
    BY <1>1, <1>2, <1>4 DEF Set
  <2>2. /\ Consumed("tx")' = Consumed("tx") /\ Produced("rx.ul")' = Produced("rx.ul")
        /\ Produced("rx.comm")' = Produced("rx.comm")
    BY <1>1 DEF Consumed, Produced
  <2>3. hub'.start + (IF hub'.pc \in {"pop", "answer"} THEN hub'.size - Len(hub'.ul) ELSE 0)
          = hub.start + 0
    BY <1>13, HubFacts
  <2>4. hub'.pc = "answer" => /\ OnAir(hub'.ul, hub'.start + hub'.size - Len(hub'.ul))
                              /\ Len(hub'.ul) <= hub'.size
    <3>1. hub'.pc = "answer" => hub'.start + hub'.size - Len(hub'.ul) = hub'.start
      BY <1>13, HubFacts
    <3> QED BY <1>13, <3>1, HubFacts
  <2> QED BY <1>4, <1>13, <2>1, <2>2, <2>3, <2>4 DEF ChunkInv
<1>16. UplinkInv'
  <2>1. /\ Consumed("ul.tx")' = r.origin + r.read /\ ring'["ul.tx"].read = r.read
        /\ Set("ul.tx")' <=> Set("ul.tx")
    BY <1>1, <1>3 DEF Consumed, Set
  <2>2. hub'.pc \in {"skip", "drain"} => Set("ul.tx")
    BY <1>1, <1>3, <1>10
  <2>3. r.read = 0 \/ r.origin + r.read <= hub'.start + hub'.size
    BY <1>3, <1>5, <1>13, HubFacts
  <2>4. ASSUME hub'.pc = "skip"
        PROVE  r.origin + r.read + hub'.stale = hub'.start /\ hub'.ul = <<>>
    <3>1. ~(relative < 0) /\ hub' = past
      BY <1>1, <1>10, <1>11, <2>4
    <3>2. late = relative - r.read
      BY <1>3, <1>5, <1>6, <1>8, <3>1, HubFacts
    <3> QED BY <1>3, <1>12, <3>1, <3>2, HubFacts
  <2>5. ASSUME hub'.pc = "drain"
        PROVE  Len(hub'.ul) = hub'.size \/ r.origin + r.read = hub'.start + Len(hub'.ul)
    <3>1. OriginIsSet(r) /\ relative < 0 /\ hub' = future
      BY <1>1, <1>10, <1>12, <2>5
    <3>2. r.read = 0
      BY <1>3, <1>5, <3>1, HubFacts
    <3>3. CASE short = hub.size
      BY <1>11, <3>1, <3>3
    <3>4. CASE short = -relative
      BY <1>3, <1>11, <3>1, <3>2, <3>4, HubFacts
    <3> QED BY <1>11, <3>1, <3>3, <3>4
  <2> QED BY <1>13, <2>1, <2>2, <2>3, <2>4, <2>5 DEF UplinkInv
<1> QED BY <1>1, <1>14, <1>15, <1>16 DEF AirInv

\* A step of the hub on the uplink's ring that stays within the chunk.
LEMMA UplinkTurn ==
  ASSUME AirInv, hub.pc \in {"skip", "drain"}, NEW n \in Nat,
         n <= Available(ring["ul.tx"]),
         ring' = [ring EXCEPT !["ul.tx"] = Popped(ring["ul.tx"], n)],
         UNCHANGED <<clock, snd, rcv, budget>>,
         NEW h \in Hubs, hub' = h, h.start = hub.start, h.size = hub.size,
         h.line = hub.line, h.pc \in {"skip", "drain", "answer"},
         h.pc # "skip" => Len(h.ul) <= hub.size /\ OnAir(h.ul, hub.start),
         h.pc = "answer" => Len(h.ul) = hub.size,
         \/ ring["ul.tx"].read + n = 0
         \/ Consumed("ul.tx") + n <= hub.start + hub.size,
         h.pc = "skip" => Consumed("ul.tx") + n + h.stale = hub.start /\ h.ul = <<>>,
         h.pc = "drain" => \/ Len(h.ul) = hub.size
                           \/ Consumed("ul.tx") + n = hub.start + Len(h.ul)
  PROVE  AirInv' /\ \A p \in TxRings : ring'[p].written = ring[p].written
<1> DEFINE r == ring["ul.tx"]
           q == Popped(r, n)
<1>1. Set("rx.comm") /\ Set("rx.ul") /\ Set("ul.tx")
  BY HubFacts DEF ChunkInv, UplinkInv
<1>2. /\ r \in RingStates /\ Sound(r) /\ r.origin \in Nat /\ r.read \in Nat
      /\ Available(r) = Len(r.cells) /\ Consumed("ul.tx") = r.origin + r.read
      /\ r.origin # Unset
  BY <1>1, HubFacts, RingFacts DEF Consumed, Set
<1>3. /\ q \in RingStates /\ Sound(q) /\ q.origin = r.origin /\ q.read = r.read + n
      /\ q.written = r.written
  BY <1>2, PoppedIsSound
<1> HIDE DEF q
<1>4. ring' = [ring EXCEPT !["ul.tx"] = q]
  BY DEF q
<1>5. /\ Set("tx") /\ Consumed("tx") = hub.start + hub.size
      /\ Produced("rx.comm") = hub.start + hub.size - Len(hub.line)
      /\ Produced("rx.ul") = hub.start + 0
      /\ OnAir(hub.line, hub.start + hub.size - Len(hub.line))
      /\ hub.line = <<>>
  BY <1>1, HubFacts DEF ChunkInv
<1>6. /\ AirTypeOK' /\ RingInv' /\ StampInv' /\ BsInv' /\ UeInv'
      /\ ring'["ul.tx"] = q /\ \A p \in Rings \ {"ul.tx"} : ring'[p] = ring[p]
  <2>1. /\ q.origin = ring["ul.tx"].origin /\ q.written = ring["ul.tx"].written
        /\ "ul.tx" \in Rings /\ "ul.tx" \notin RxRings
    BY <1>3, RingNames DEF r
  <2>2. hub' \in Hubs /\ clock' \in Nat
    BY HubFacts
  <2> QED BY <1>3, <1>4, <2>1, <2>2, HubTurn
<1>7. /\ ring'["tx"] = ring["tx"] /\ ring'["rx.comm"] = ring["rx.comm"]
      /\ ring'["rx.ul"] = ring["rx.ul"]
  BY <1>6, RingNames
<1>8. ChunkInv'
  <2>1. Set("rx.comm")' /\ Set("rx.ul")' /\ Set("tx")'
    BY <1>1, <1>5, <1>7 DEF Set
  <2>2. /\ Consumed("tx")' = Consumed("tx") /\ Produced("rx.ul")' = Produced("rx.ul")
        /\ Produced("rx.comm")' = Produced("rx.comm")
    BY <1>7 DEF Consumed, Produced
  <2>3. hub'.start + (IF hub'.pc \in {"pop", "answer"} THEN hub'.size - Len(hub'.ul) ELSE 0)
          = hub.start + 0
    BY HubFacts
  <2>4. hub'.pc = "answer" => /\ OnAir(hub'.ul, hub'.start + hub'.size - Len(hub'.ul))
                              /\ Len(hub'.ul) <= hub'.size
    <3>1. hub'.pc = "answer" => hub'.start + hub'.size - Len(hub'.ul) = hub.start
      BY HubFacts
    <3> QED BY <3>1, HubFacts
  <2>5. hub'.start + hub'.size - Len(hub'.line) = hub.start + hub.size - Len(hub.line)
    OBVIOUS
  <2>6. /\ hub'.pc # "publish" /\ hub'.pc # "pop" /\ hub'.line = <<>>
        /\ hub'.pc = "drain" => OnAir(hub'.ul, hub'.start) /\ Len(hub'.ul) <= hub'.size
        /\ OnAir(hub'.line, hub.start + hub.size - Len(hub.line))
    BY <1>5
  <2> QED BY <1>5, <2>1, <2>2, <2>3, <2>4, <2>5, <2>6 DEF ChunkInv
<1>9. UplinkInv'
  <2>1. Consumed("ul.tx")' = Consumed("ul.tx") + n
    BY <1>2, <1>3, <1>6 DEF Consumed
  <2>2. Set("ul.tx")'
    BY <1>2, <1>3, <1>6 DEF Set
  <2>3. ring'["ul.tx"].read = ring["ul.tx"].read + n
    BY <1>3, <1>6 DEF r
  <2> QED BY <2>1, <2>2, <2>3 DEF UplinkInv
<1>10. \A p \in TxRings : ring'[p].written = ring[p].written
  BY <1>3, <1>6, <1>7, RingNames DEF r
<1> QED BY <1>6, <1>8, <1>9, <1>10 DEF AirInv

\* HubSkip: samples that are too old are dropped; if they have not come yet, nothing
\* of the uplink is in this chunk.
LEMMA HubSkipStep ==
  ASSUME AirInv, HubSkip
  PROVE  AirInv' /\ \A p \in TxRings : ring'[p].written = ring[p].written
<1> DEFINE r == ring["ul.tx"]
           n == Min({hub.stale, Available(r)})
           quiet == [i \in 1 .. hub.size |-> Silence]
           done == [hub EXCEPT !.pc = "drain", !.stale = 0]
           more == [hub EXCEPT !.stale = hub.stale - n]
           none == [hub EXCEPT !.pc = "answer", !.stale = 0, !.ul = quiet]
           h == IF n = hub.stale THEN done ELSE IF n > 0 THEN more ELSE none
<1>1. /\ hub.pc = "skip" /\ hub' = h
      /\ ring' = [ring EXCEPT !["ul.tx"] = Popped(r, n)]
      /\ UNCHANGED <<clock, snd, rcv, budget>>
  BY DEF HubSkip
<1>2. Set("ul.tx") /\ Consumed("ul.tx") + hub.stale = hub.start /\ hub.ul = <<>>
  BY <1>1, HubFacts DEF UplinkInv
<1>3. Available(r) \in Nat /\ Consumed("ul.tx") \in Int
  <2>1. AirTypeOK /\ RingInv /\ "ul.tx" \in Rings
    BY HubFacts
  <2>2. Available(r) \in Nat /\ r.origin \in Int /\ r.read \in Nat
    BY <2>1, RingFacts
  <2> QED BY <2>2 DEF Consumed
<1>4. n \in Nat /\ n <= hub.stale /\ n <= Available(r)
  <2>1. n = IF hub.stale <= Available(r) THEN hub.stale ELSE Available(r)
    <3>1. hub.stale \in Int /\ Available(r) \in Int
      BY <1>3, HubFacts
    <3> HIDE DEF r
    <3> QED BY <3>1, MinOfTwo
  <2> HIDE DEF n
  <2> QED BY <1>3, <2>1, HubFacts
<1> HIDE DEF n
<1>5. hub \in Hubs
  BY HubFacts
<1>6. /\ done \in Hubs /\ done.pc = "drain" /\ done.stale = 0 /\ done.ul = hub.ul
      /\ done.start = hub.start /\ done.size = hub.size /\ done.line = hub.line
  BY <1>5 DEF Hubs, HubPlaces
<1>7. /\ more \in Hubs /\ more.pc = "skip" /\ more.stale = hub.stale - n
      /\ more.ul = hub.ul
      /\ more.start = hub.start /\ more.size = hub.size /\ more.line = hub.line
  <2>1. hub.stale - n \in Nat
    BY <1>4, HubFacts
  <2> QED BY <1>1, <1>5, <2>1 DEF Hubs
<1>8. quiet \in Seq(Cells) /\ Len(quiet) = hub.size /\ OnAir(quiet, hub.start)
  <2>1. hub.size \in Nat /\ hub.start \in Int
    BY HubFacts
  <2> QED BY <2>1, Quiet
<1> HIDE DEF quiet
<1>9. /\ none \in Hubs /\ none.pc = "answer" /\ none.ul = quiet
      /\ none.start = hub.start /\ none.size = hub.size /\ none.line = hub.line
  BY <1>5, <1>8 DEF Hubs, HubPlaces
<1> HIDE DEF done, more, none
<1>10. Len(<<>>) = 0 /\ OnAir(<<>>, hub.start) /\ 0 <= hub.size
  BY NothingOnAir, HubFacts
<1>11. h \in Hubs /\ h.start = hub.start /\ h.size = hub.size /\ h.line = hub.line
       /\ h.pc \in {"skip", "drain", "answer"}
  BY <1>6, <1>7, <1>9
<1>12. h.pc # "skip" => Len(h.ul) <= hub.size /\ OnAir(h.ul, hub.start)
  BY <1>2, <1>6, <1>7, <1>8, <1>9, <1>10, HubFacts
<1>13. h.pc = "answer" => Len(h.ul) = hub.size
  BY <1>6, <1>7, <1>8, <1>9
<1>14. Consumed("ul.tx") + n <= hub.start + hub.size
  BY <1>2, <1>3, <1>4, HubFacts
<1>15. h.pc = "skip" => Consumed("ul.tx") + n + h.stale = hub.start /\ h.ul = <<>>
  BY <1>2, <1>3, <1>4, <1>6, <1>7, <1>9, HubFacts
<1>16. h.pc = "drain" => Consumed("ul.tx") + n = hub.start + Len(h.ul)
  BY <1>2, <1>3, <1>4, <1>6, <1>7, <1>9, <1>10, HubFacts
<1> HIDE DEF h, r
<1> QED BY <1>1, <1>4, <1>11, <1>12, <1>13, <1>14, <1>15, <1>16, UplinkTurn DEF r

\* HubDrain: what there is of the uplink, then silence.
LEMMA HubDrainStep ==
  ASSUME AirInv, HubDrain
  PROVE  AirInv' /\ \A p \in TxRings : ring'[p].written = ring[p].written
<1> DEFINE r == ring["ul.tx"]
           n == Min({hub.size - Len(hub.ul), Available(r)})
           quiet == [i \in 1 .. (hub.size - Len(hub.ul)) |-> Silence]
           longer == hub.ul \o FirstCells(r, n)
           padded == hub.ul \o quiet
           more == [hub EXCEPT !.ul = longer]
           done == [hub EXCEPT !.pc = "answer", !.ul = padded]
           h == IF n > 0 THEN more ELSE done
<1>1. /\ hub.pc = "drain" /\ hub' = h
      /\ ring' = [ring EXCEPT !["ul.tx"] = Popped(r, n)]
      /\ UNCHANGED <<clock, snd, rcv, budget>>
  BY DEF HubDrain
<1>2. /\ Len(hub.ul) <= hub.size /\ OnAir(hub.ul, hub.start) /\ Set("ul.tx")
      /\ Len(hub.ul) = hub.size \/ Consumed("ul.tx") = hub.start + Len(hub.ul)
      /\ ring["ul.tx"].read = 0 \/ Consumed("ul.tx") <= hub.start + hub.size
  BY <1>1, HubFacts DEF UplinkInv, ChunkInv
<1>3. /\ r \in RingStates /\ Sound(r)
      /\ Available(r) \in Nat /\ Available(r) = Len(r.cells)
      /\ Consumed("ul.tx") \in Int /\ r.origin + r.read = Consumed("ul.tx")
  <2>1. AirTypeOK /\ RingInv /\ "ul.tx" \in Rings
    BY HubFacts
  <2>2. /\ r \in RingStates /\ Sound(r) /\ r.origin \in Int /\ r.read \in Nat
        /\ Available(r) \in Nat /\ Available(r) = Len(r.cells)
    BY <2>1, RingFacts
  <2> QED BY <2>2 DEF Consumed
<1>4. /\ n \in Nat /\ n <= hub.size - Len(hub.ul) /\ n <= Available(r)
      /\ hub.size - Len(hub.ul) \in Nat
  <2>1. hub.size - Len(hub.ul) \in Nat
    BY <1>2, HubFacts
  <2>2. n = IF hub.size - Len(hub.ul) <= Available(r) THEN hub.size - Len(hub.ul)
            ELSE Available(r)
    BY <1>3, <2>1, MinOfTwo
  <2> HIDE DEF n
  <2> QED BY <1>3, <2>1, <2>2, HubFacts
<1> HIDE DEF n
<1>5. hub \in Hubs /\ hub.start + Len(hub.ul) \in Int
  BY HubFacts
<1>6. n > 0 => /\ longer \in Seq(Cells) /\ Len(longer) = Len(hub.ul) + n
               /\ OnAir(longer, hub.start) /\ Consumed("ul.tx") = hub.start + Len(hub.ul)
  <2>1. SUFFICES ASSUME n > 0
        PROVE  /\ longer \in Seq(Cells) /\ Len(longer) = Len(hub.ul) + n
               /\ OnAir(longer, hub.start) /\ Consumed("ul.tx") = hub.start + Len(hub.ul)
    OBVIOUS
  <2>2. Consumed("ul.tx") = hub.start + Len(hub.ul)
    BY <1>2, <1>4, <2>1, HubFacts
  <2>3. /\ FirstCells(r, n) \in Seq(Cells) /\ Len(FirstCells(r, n)) = n
        /\ OnAir(FirstCells(r, n), r.origin + r.read)
    BY <1>3, <1>4, PoppedIsSound
  <2>4. hub.start \in Int /\ hub.ul \in Seq(Cells)
    BY HubFacts
  <2> DEFINE b == FirstCells(r, n)
  <2>5. b \in Seq(Cells) /\ Len(b) = n /\ OnAir(b, hub.start + Len(hub.ul))
    BY <1>3, <2>2, <2>3
  <2> HIDE DEF b
  <2>6. /\ hub.ul \o b \in Seq(Cells) /\ Len(hub.ul \o b) = Len(hub.ul) + Len(b)
        /\ OnAir(hub.ul \o b, hub.start)
    BY <1>2, <2>4, <2>5, OneAfterTheOther
  <2> QED BY <2>2, <2>5, <2>6 DEF b
<1>7. /\ padded \in Seq(Cells) /\ Len(padded) = hub.size /\ OnAir(padded, hub.start)
  <2>1. /\ quiet \in Seq(Cells) /\ Len(quiet) = hub.size - Len(hub.ul)
        /\ OnAir(quiet, hub.start + Len(hub.ul))
    BY <1>4, <1>5, Quiet
  <2> HIDE DEF quiet
  <2>2. /\ padded \in Seq(Cells) /\ Len(padded) = Len(hub.ul) + Len(quiet)
        /\ OnAir(padded, hub.start)
    <3>1. hub.start \in Int /\ hub.ul \in Seq(Cells)
      BY HubFacts
    <3> QED BY <1>2, <2>1, <3>1, OneAfterTheOther
  <2> QED BY <2>1, <2>2, HubFacts
<1> HIDE DEF longer, padded
<1>8. n > 0 => /\ more \in Hubs /\ more.pc = "drain" /\ more.ul = longer
               /\ more.start = hub.start /\ more.size = hub.size /\ more.line = hub.line
  BY <1>1, <1>5, <1>6 DEF Hubs
<1>9. /\ done \in Hubs /\ done.pc = "answer" /\ done.ul = padded
      /\ done.start = hub.start /\ done.size = hub.size /\ done.line = hub.line
  BY <1>5, <1>7 DEF Hubs, HubPlaces
<1> HIDE DEF done, more
<1>10. CASE n > 0
  <2>1. /\ h \in Hubs /\ h.start = hub.start /\ h.size = hub.size /\ h.line = hub.line
        /\ h.pc = "drain" /\ h.ul = longer
    BY <1>8, <1>10
  <2>2. Len(h.ul) = Len(hub.ul) + n /\ OnAir(h.ul, hub.start)
    BY <1>6, <1>10, <2>1
  <2>3. Len(h.ul) <= hub.size
    BY <1>4, <2>2, HubFacts
  <2>4. /\ Consumed("ul.tx") + n <= hub.start + hub.size
        /\ Consumed("ul.tx") + n = hub.start + Len(h.ul)
    BY <1>4, <1>6, <1>10, <2>2, HubFacts
  <2> HIDE DEF h, r
  <2> QED BY <1>1, <1>4, <2>1, <2>2, <2>3, <2>4, UplinkTurn DEF r
<1>11. CASE n = 0
  <2>1. /\ h \in Hubs /\ h.start = hub.start /\ h.size = hub.size /\ h.line = hub.line
        /\ h.pc = "answer" /\ h.ul = padded
    BY <1>9, <1>11
  <2>2. Len(h.ul) = hub.size /\ OnAir(h.ul, hub.start) /\ hub.size <= hub.size
    BY <1>7, <2>1, HubFacts
  <2>3. \/ ring["ul.tx"].read + n = 0
        \/ Consumed("ul.tx") + n <= hub.start + hub.size
    BY <1>2, <1>3, <1>11, HubFacts
  <2> HIDE DEF h, r
  <2> QED BY <1>1, <1>4, <2>1, <2>2, <2>3, UplinkTurn DEF r
<1> QED BY <1>4, <1>10, <1>11

\* HubAnswer: the chunk's uplink goes on to the base station.
LEMMA HubAnswerStep ==
  ASSUME AirInv, HubAnswer
  PROVE  AirInv' /\ \A p \in TxRings : ring'[p].written = ring[p].written
<1> DEFINE r == ring["rx.ul"]
           free == FreeSlots(r, RingCapacity)
           n == Min({Len(hub.ul), free})
           xs == SubSeq(hub.ul, 1, n)
           rest == SubSeq(hub.ul, n + 1, Len(hub.ul))
           q == Pushed(r, xs)
           place == IF n = Len(hub.ul) THEN "pop" ELSE "answer"
           h == [hub EXCEPT !.ul = rest, !.pc = IF n = Len(hub.ul) THEN "pop" ELSE hub.pc]
<1>1. /\ hub.pc = "answer" /\ n > 0
      /\ ring' = [ring EXCEPT !["rx.ul"] = q] /\ hub' = h
      /\ clock' = IF n = Len(hub.ul) THEN hub.start + hub.size ELSE clock
      /\ UNCHANGED <<snd, rcv, budget>>
  BY DEF HubAnswer
<1>2. Set("rx.comm") /\ Set("rx.ul")
  BY <1>1, HubFacts DEF ChunkInv
<1>3. /\ r \in RingStates /\ Sound(r) /\ r.origin \in Nat /\ r.origin # Unset
      /\ r.written \in Nat /\ free = RingCapacity - Len(r.cells) /\ free \in Nat
  BY <1>2, HubFacts, RingFacts DEF Set
<1>4. n \in Nat /\ n <= Len(hub.ul) /\ n <= free /\ n > 0
  <2>1. n = IF Len(hub.ul) <= free THEN Len(hub.ul) ELSE free
    <3>1. Len(hub.ul) \in Int /\ free \in Int
      BY <1>3, HubFacts
    <3> HIDE DEF free
    <3> QED BY <3>1, MinOfTwo
  <2>2. n > 0
    BY <1>1
  <2> HIDE DEF n, free
  <2> QED BY <1>3, <2>1, <2>2, HubFacts
<1>5. /\ Set("tx") /\ Consumed("tx") = hub.start + hub.size
      /\ Produced("rx.comm") = hub.start + hub.size - Len(hub.line)
      /\ Produced("rx.ul") = hub.start + (hub.size - Len(hub.ul))
      /\ OnAir(hub.line, hub.start + hub.size - Len(hub.line)) /\ hub.line = <<>>
      /\ OnAir(hub.ul, hub.start + hub.size - Len(hub.ul)) /\ Len(hub.ul) <= hub.size
  BY <1>1, <1>2, HubFacts DEF ChunkInv
<1> HIDE DEF n
<1>6. /\ xs \in Seq(Cells) /\ Len(xs) = n
      /\ OnAir(xs, hub.start + hub.size - Len(hub.ul))
      /\ rest \in Seq(Cells) /\ Len(rest) = Len(hub.ul) - n
      /\ OnAir(rest, hub.start + hub.size - Len(hub.ul) + n)
  <2>1. hub.start + hub.size - Len(hub.ul) \in Int
    BY HubFacts
  <2> QED BY <1>4, <1>5, <2>1, HubFacts, SplitOnAir
<1> HIDE DEF xs, rest
<1>7. r.origin + r.written = hub.start + hub.size - Len(hub.ul)
  <2>1. Produced("rx.ul") = r.origin + r.written
    BY DEF Produced
  <2> QED BY <1>3, <1>5, <2>1, HubFacts
<1>8. /\ q \in RingStates /\ Sound(q) /\ q.origin = r.origin /\ q.read = r.read
      /\ q.written = r.written + n
  BY <1>3, <1>4, <1>6, <1>7, PushedIsSound
<1> HIDE DEF q
<1>9. /\ h \in Hubs /\ h.start = hub.start /\ h.size = hub.size /\ h.ul = rest
      /\ h.line = hub.line /\ h.pc = place
  <2>1. place \in HubPlaces
    BY DEF HubPlaces
  <2>2. h = [hub EXCEPT !.ul = rest, !.pc = place]
    BY <1>1
  <2>3. hub \in Hubs
    BY HubFacts
  <2> HIDE DEF h, place
  <2> QED BY <1>6, <2>1, <2>2, <2>3 DEF Hubs
<1> HIDE DEF h
<1>10. /\ AirTypeOK' /\ RingInv' /\ StampInv' /\ BsInv' /\ UeInv'
       /\ ring'["rx.ul"] = q
       /\ \A p \in Rings \ {"rx.ul"} : ring'[p] = ring[p]
  <2>1. /\ q.origin = ring["rx.ul"].origin /\ q.read = ring["rx.ul"].read
        /\ "rx.ul" \in Rings /\ "rx.ul" \notin TxRings
    BY <1>8, RingNames DEF r
  <2>2. hub' \in Hubs /\ clock' \in Nat
    <3>1. hub.start + hub.size \in Nat /\ clock \in Nat
      BY HubFacts
    <3> QED BY <1>1, <1>9, <3>1
  <2> QED BY <1>1, <1>8, <2>1, <2>2, HubTurn
<1>11. /\ ring'["tx"] = ring["tx"] /\ ring'["ul.tx"] = ring["ul.tx"]
       /\ ring'["rx.comm"] = ring["rx.comm"]
  BY <1>10, RingNames
<1>12. hub'.pc \in {"pop", "answer"} /\ (hub'.pc = "pop" <=> Len(hub'.ul) = 0)
       /\ Len(hub'.ul) <= hub'.size
  BY <1>1, <1>4, <1>5, <1>6, <1>9, HubFacts
<1>13. ChunkInv'
  <2>1. Set("rx.comm")' /\ Set("rx.ul")' /\ Set("tx")'
    BY <1>2, <1>5, <1>3, <1>8, <1>10, <1>11 DEF Set
  <2>2. /\ Consumed("tx")' = hub'.start + hub'.size
        /\ Produced("rx.comm")' = hub'.start + hub'.size - Len(hub'.line)
        /\ Produced("rx.ul")' = hub'.start + (hub'.size - Len(hub'.ul))
    <3>1. Consumed("tx")' = Consumed("tx") /\ Produced("rx.comm")' = Produced("rx.comm")
      BY <1>11 DEF Consumed, Produced
    <3>2. Produced("rx.ul")' = r.origin + r.written + n
      BY <1>3, <1>4, <1>8, <1>10 DEF Produced
    <3> QED BY <1>1, <1>4, <1>5, <1>6, <1>7, <1>9, <3>1, <3>2, HubFacts
  <2>3. OnAir(hub'.ul, hub'.start + hub'.size - Len(hub'.ul))
    <3>1. hub.start + hub.size - Len(hub.ul) + n
            = hub'.start + hub'.size - Len(hub'.ul)
      BY <1>1, <1>4, <1>6, <1>9, HubFacts
    <3> QED BY <1>1, <1>6, <1>9, <3>1
  <2>4. hub'.pc = "pop" => hub'.ul = <<>>
    BY <1>1, <1>6, <1>9, <1>12, NoneLeft
  <2>5. hub'.line = <<>> /\ hub'.pc # "publish" /\ hub'.pc # "drain"
        /\ OnAir(hub'.line, hub'.start + hub'.size - Len(hub'.line))
    BY <1>1, <1>5, <1>9, <1>12
  <2> QED BY <1>12, <2>1, <2>2, <2>3, <2>4, <2>5 DEF ChunkInv
<1>14. UplinkInv'
  <2>1. ring["ul.tx"].read = 0 \/ Consumed("ul.tx") <= hub.start + hub.size
    BY <1>1, HubFacts DEF UplinkInv
  <2>2. ring'["ul.tx"].read = 0 \/ Consumed("ul.tx")' <= hub'.start + hub'.size
    BY <1>1, <1>9, <1>11, <2>1 DEF Consumed
  <2> QED BY <1>12, <2>2 DEF UplinkInv
<1> QED BY <1>10, <1>11, <1>13, <1>14, RingNames DEF AirInv

\* HubPop: the next chunk of downlink air; it gives the receive rings their origin.
LEMMA HubPopStep ==
  ASSUME AirInv, HubPop
  PROVE  AirInv' /\ \A p \in TxRings : ring'[p].written = ring[p].written
<1> DEFINE r == ring["tx"]
           n == Min({Available(r), ChunkMax})
           t == AbsoluteConsumed(r)
           q == Popped(r, n)
           xs == FirstCells(r, n)
           open(p) == p \in RxRings /\ ~OriginIsSet(ring[p])
           h == [hub EXCEPT !.pc = "publish", !.start = t, !.line = xs, !.size = n]
<1>1. /\ hub.pc = "pop" /\ OriginIsSet(r) /\ n > 0
      /\ ring' = [p \in DOMAIN ring |->
           IF p = "tx" THEN q ELSE IF open(p) THEN WithOrigin(ring[p], t) ELSE ring[p]]
      /\ clock' = t /\ hub' = h
      /\ UNCHANGED <<snd, rcv, budget>>
  BY DEF HubPop
<1>2. /\ r \in RingStates /\ Sound(r) /\ r.origin \in Nat /\ r.read \in Nat
      /\ r.origin # Unset /\ Set("tx")
      /\ Available(r) \in Nat /\ Available(r) = Len(r.cells)
      /\ t = Consumed("tx") /\ Consumed("tx") = r.origin + r.read /\ t \in Nat
  <2>1. Set("tx")
    BY <1>1, HubFacts, RingFacts
  <2>2. AirTypeOK /\ RingInv /\ "tx" \in Rings
    BY HubFacts
  <2>3. /\ r \in RingStates /\ Sound(r) /\ r.origin \in Nat /\ r.read \in Nat
        /\ Available(r) \in Nat /\ Available(r) = Len(r.cells)
        /\ AbsoluteConsumed(r) = Consumed("tx")
    BY <2>1, <2>2, RingFacts
  <2> QED BY <2>1, <2>3 DEF Consumed, Set, AbsoluteConsumed
<1>3. n \in Nat /\ n <= Available(r) /\ n > 0
  <2>1. n = IF Available(r) <= ChunkMax THEN Available(r) ELSE ChunkMax
    <3>1. Available(r) \in Int /\ ChunkMax \in Int
      BY <1>2, Constants
    <3> HIDE DEF r
    <3> QED BY <3>1, MinOfTwo
  <2>2. n > 0
    BY <1>1
  <2> HIDE DEF n
  <2> QED BY <1>2, <2>1, <2>2, Constants
<1> HIDE DEF n
<1>4. /\ q \in RingStates /\ Sound(q) /\ q.origin = r.origin /\ q.read = r.read + n
      /\ q.written = r.written
      /\ xs \in Seq(Cells) /\ Len(xs) = n /\ OnAir(xs, t)
  BY <1>2, <1>3, PoppedIsSound
<1> HIDE DEF q, xs, t
<1>5. \A p \in RxRings : open(p) =>
        /\ WithOrigin(ring[p], t) \in RingStates /\ Sound(WithOrigin(ring[p], t))
        /\ WithOrigin(ring[p], t).origin = t /\ WithOrigin(ring[p], t).written = 0
        /\ WithOrigin(ring[p], t).read = 0 /\ ring[p].read = 0
  <2>1. SUFFICES ASSUME NEW p \in RxRings, open(p)
        PROVE  /\ WithOrigin(ring[p], t) \in RingStates /\ Sound(WithOrigin(ring[p], t))
               /\ WithOrigin(ring[p], t).origin = t /\ WithOrigin(ring[p], t).written = 0
               /\ WithOrigin(ring[p], t).read = 0 /\ ring[p].read = 0
    OBVIOUS
  <2>2. p \in Rings /\ ring[p].origin = Unset
    BY <2>1, RingNames DEF OriginIsSet
  <2>3. ring[p] \in RingStates /\ Sound(ring[p])
    BY <2>2, HubFacts, RingFacts
  <2> QED BY <1>2, <2>2, <2>3, OriginIsSound
<1>6. DOMAIN ring = Rings
  BY HubFacts DEF AirTypeOK
<1>7. /\ ring'["tx"] = q /\ ring'["ul.tx"] = ring["ul.tx"]
      /\ \A p \in RxRings : ring'[p] = IF open(p) THEN WithOrigin(ring[p], t) ELSE ring[p]
  <2>1. /\ ring'["tx"] = q /\ ring'["ul.tx"] = ring["ul.tx"]
    BY <1>1, <1>6, RingNames
  <2>2. \A p \in RxRings : p \in Rings /\ p # "tx"
    BY RingNames
  <2> QED BY <1>1, <1>6, <2>1, <2>2
<1>8. \A p \in Rings : ring'[p] \in RingStates /\ Sound(ring'[p])
  <2>1. \A p \in Rings : ring[p] \in RingStates /\ Sound(ring[p])
    BY HubFacts, RingFacts
  <2>2. \A p \in RxRings : ring'[p] \in RingStates /\ Sound(ring'[p])
    BY <1>5, <1>7, <2>1, RingNames
  <2>3. Rings = {"tx", "ul.tx"} \cup RxRings
    BY RingNames
  <2> QED BY <1>4, <1>7, <2>1, <2>2, <2>3
<1>9. ring' \in [Rings -> RingStates] /\ RingInv'
  <2>1. DOMAIN ring' = Rings /\ ring' = [p \in Rings |-> ring'[p]]
    BY <1>1, <1>6
  <2> QED BY <1>8, <2>1 DEF RingInv
<1>10. /\ h \in Hubs /\ h.pc = "publish" /\ h.start = t /\ h.size = n /\ h.line = xs
       /\ h.ul = hub.ul /\ h.stale = hub.stale
  <2>1. hub \in Hubs
    BY HubFacts
  <2> QED BY <1>2, <1>3, <1>4, <2>1 DEF Hubs, HubPlaces
<1> HIDE DEF h
<1>11. AirTypeOK'
  BY <1>1, <1>2, <1>9, <1>10, HubFacts DEF AirTypeOK
<1>12. \A p \in RxRings : ReaderKept(p)
  BY <1>5, <1>7 DEF ReaderKept, Set, OriginIsSet
<1>13. WriterKept("tx") /\ WriterKept("ul.tx")
  BY <1>4, <1>7 DEF WriterKept, r
<1>14. StampInv' /\ BsInv' /\ UeInv'
  BY <1>1, <1>12, <1>13, StampKept, BsKept, UeKept DEF AirInv
<1>15. \A p \in RxRings : Set(p)' /\ (Set(p) => Produced(p)' = Produced(p))
                          /\ (~Set(p) => Produced(p)' = t)
  <2>1. SUFFICES ASSUME NEW p \in RxRings
        PROVE  Set(p)' /\ (Set(p) => Produced(p)' = Produced(p))
               /\ (~Set(p) => Produced(p)' = t)
    OBVIOUS
  <2>2. CASE Set(p)
    <3>1. ring'[p] = ring[p]
      BY <1>7, <2>2 DEF Set, OriginIsSet
    <3> QED BY <2>2, <3>1 DEF Set, Produced
  <2>3. CASE ~Set(p)
    <3>1. open(p)
      BY <2>3 DEF Set, OriginIsSet
    <3>2. ring'[p].origin = t /\ ring'[p].written = 0
      BY <1>5, <1>7, <3>1
    <3>3. t # Unset /\ t + 0 = t
      BY <1>2 DEF Unset
    <3> QED BY <2>3, <3>2, <3>3 DEF Set, Produced
  <2> QED BY <2>2, <2>3
<1>16. /\ hub.line = <<>> /\ hub.ul = <<>> /\ Len(hub.line) = 0 /\ Len(hub.ul) = 0
  BY <1>1, HubFacts, NothingOnAir DEF ChunkInv
<1>17. /\ Set("rx.comm") <=> Set("rx.ul")
       /\ Set("rx.comm") => /\ t = hub.start + hub.size
                            /\ Produced("rx.comm") = t /\ Produced("rx.ul") = t
       /\ ~Set("rx.comm") => hub.start = 0 /\ hub.size = 0
  <2>1. /\ Set("rx.comm") <=> Set("rx.ul")
        /\ ~Set("rx.comm") => hub.start = 0 /\ hub.size = 0
    BY HubFacts DEF ChunkInv
  <2>2. ASSUME Set("rx.comm")
        PROVE  /\ t = hub.start + hub.size
               /\ Produced("rx.comm") = t /\ Produced("rx.ul") = t
    <3>1. /\ Consumed("tx") = hub.start + hub.size
          /\ Produced("rx.comm") = hub.start + hub.size - Len(hub.line)
          /\ Produced("rx.ul") = hub.start + (hub.size - Len(hub.ul))
      BY <1>1, <2>2, HubFacts DEF ChunkInv
    <3> QED BY <1>2, <1>16, <3>1, HubFacts
  <2> QED BY <2>1, <2>2
<1>18. /\ Produced("rx.comm")' = t /\ Produced("rx.ul")' = t
       /\ Set("rx.comm")' /\ Set("rx.ul")'
  BY <1>15, <1>17, HubFacts
<1>19. ChunkInv'
  <2>1. Set("tx")' /\ Consumed("tx")' = t + n
    BY <1>2, <1>3, <1>4, <1>7 DEF Set, Consumed
  <2>2. /\ Produced("rx.comm")' = hub'.start + hub'.size - Len(hub'.line)
        /\ Produced("rx.ul")' = hub'.start + 0
        /\ Consumed("tx")' = hub'.start + hub'.size
    BY <1>1, <1>2, <1>3, <1>4, <1>10, <1>18, <2>1
  <2>3. hub'.line # <<>> /\ hub'.pc = "publish"
    BY <1>1, <1>3, <1>4, <1>10, NoneLeft
  <2>4. OnAir(hub'.line, hub'.start + hub'.size - Len(hub'.line))
    <3>1. hub'.start + hub'.size - Len(hub'.line) = t
      BY <1>1, <1>2, <1>3, <1>4, <1>10
    <3> QED BY <1>1, <1>4, <1>10, <3>1
  <2> QED BY <1>18, <2>1, <2>2, <2>3, <2>4 DEF ChunkInv
<1>20. UplinkInv'
  <2>1. ring["ul.tx"].read = 0 \/ Consumed("ul.tx") <= hub.start + hub.size
    BY <1>1, HubFacts DEF UplinkInv
  <2>2. hub.start + hub.size <= t
    BY <1>2, <1>17, HubFacts
  <2>3. Consumed("ul.tx") \in Int /\ Consumed("ul.tx")' = Consumed("ul.tx")
        /\ ring'["ul.tx"].read = ring["ul.tx"].read
    <3>1. AirTypeOK /\ RingInv /\ "ul.tx" \in Rings
      BY HubFacts
    <3>2. ring["ul.tx"].origin \in Int /\ ring["ul.tx"].read \in Nat
      BY <3>1, RingFacts
    <3> QED BY <1>7, <3>2 DEF Consumed
  <2>4. ring'["ul.tx"].read = 0 \/ Consumed("ul.tx")' <= t + 0
    BY <1>2, <2>1, <2>2, <2>3, HubFacts
  <2>5. hub'.pc = "publish" /\ hub'.start = t
    BY <1>1, <1>10
  <2> QED BY <2>4, <2>5 DEF UplinkInv
<1>21. \A p \in TxRings : ring'[p].written = ring[p].written
  BY <1>13, RingNames DEF WriterKept
<1> QED BY <1>9, <1>11, <1>14, <1>19, <1>20, <1>21 DEF AirInv

-----------------------------------------------------------------------------
(* The receivers.                                                          *)

\* A receiver q on its ring c.
StampAt(c, q) ==
  /\ q.streaming => q.pending \/ q.pc = "seek" \/ c.origin # Unset
  /\ q.pc \in {"skip", "pop"} => c.origin # Unset
  /\ q.pc = "pop" => q.stamp + Len(q.got) = c.origin + c.read
  /\ Len(q.got) <= RecvLen
  /\ OnAir(q.got, q.stamp)

\* What a step of one receiver, on its own ring, does to the rest.
LEMMA ReceiverStep ==
  ASSUME AirInv, NEW r \in RxRings,
         NEW c \in RingStates, Sound(c), c.written = ring[r].written,
         c.origin = ring[r].origin, ring' = [ring EXCEPT ![r] = c],
         NEW u \in Receivers, rcv' = [rcv EXCEPT ![r] = u], StampAt(c, u),
         UNCHANGED <<clock, hub, snd>>, budget' \in [commands : Nat, errors : Nat]
  PROVE  AirInv' /\ \A p \in Rings : ring'[p].written = ring[p].written
<1>1. AirTypeOK /\ RingInv /\ ChunkInv /\ UplinkInv /\ StampInv /\ BsInv /\ UeInv
  BY DEF AirInv
<1>2. r \in Rings /\ "tx" \in Rings \ {r} /\ "ul.tx" \in Rings \ {r}
  BY RingNames
<1>3. /\ ring' \in [Rings -> RingStates] /\ RingInv'
      /\ ring'[r] = c /\ \A p \in Rings \ {r} : ring'[p] = ring[p]
  BY <1>1, <1>2, RingReplaced
<1>4. /\ rcv' \in [RxRings -> Receivers] /\ rcv'[r] = u
      /\ \A p \in RxRings \ {r} : rcv'[p] = rcv[p]
  BY <1>1 DEF AirTypeOK
<1>5. AirTypeOK'
  BY <1>1, <1>3, <1>4 DEF AirTypeOK
<1>6. \A p \in Rings : WriterKept(p)
  <2>1. WriterKept(r)
    BY <1>3 DEF WriterKept
  <2>2. \A p \in Rings \ {r} : WriterKept(p)
    BY <1>3 DEF WriterKept
  <2> QED BY <2>1, <2>2
<1>7. ReaderKept("tx") /\ ReaderKept("ul.tx")
  BY <1>2, <1>3 DEF ReaderKept
<1>8. ChunkInv' /\ UplinkInv' /\ BsInv' /\ UeInv'
  BY <1>1, <1>6, <1>7, ChunkKept, UplinkKept, BsKept, UeKept, RingNames
<1>9. StampInv'
  <2>1. \A p \in RxRings : StampAt(ring'[p], rcv'[p])
    <3>1. \A p \in RxRings \ {r} : StampAt(ring[p], rcv[p])
      BY <1>1 DEF StampInv, StampAt, Set, Consumed
    <3>2. StampAt(ring'[r], rcv'[r])
      BY <1>3, <1>4
    <3>3. \A p \in RxRings \ {r} : p \in Rings \ {r}
      BY RingNames
    <3> QED BY <1>3, <1>4, <3>1, <3>2, <3>3
  <2> QED BY <2>1 DEF StampInv, StampAt, Set, Consumed
<1>10. \A p \in Rings : ring'[p].written = ring[p].written
  BY <1>6 DEF WriterKept
<1> QED BY <1>3, <1>5, <1>8, <1>9, <1>10 DEF AirInv

\* What a receiver knows.
LEMMA ReceiverFacts ==
  ASSUME AirInv, NEW r \in RxRings
  PROVE  LET q == rcv[r]
             c == ring[r]
         IN  /\ AirTypeOK /\ RingInv /\ r \in Rings
             /\ q \in Receivers /\ q.pc \in RxPlaces
             /\ q.streaming \in BOOLEAN /\ q.pending \in BOOLEAN
             /\ q.requested \in Nat /\ q.target \in Nat /\ q.skip \in Nat
             /\ q.stamp \in Int /\ q.got \in Seq(Cells) /\ Len(q.got) \in Nat
             /\ StampAt(c, q) /\ c \in RingStates /\ Sound(c)
             /\ c.origin \in Int /\ c.read \in Nat
             /\ Available(c) \in Nat /\ Available(c) = Len(c.cells)
             /\ c.origin # Unset <=> OriginIsSet(c)
             /\ c.origin # Unset => /\ c.origin \in Nat
                                    /\ AbsoluteConsumed(c) = c.origin + c.read
             /\ budget \in [commands : Nat, errors : Nat]
<1>1. AirTypeOK /\ RingInv /\ StampInv /\ r \in Rings
  BY RingNames DEF AirInv
<1>2. rcv[r] \in Receivers /\ budget \in [commands : Nat, errors : Nat]
  BY <1>1 DEF AirTypeOK
<1>3. /\ rcv[r].pc \in RxPlaces
      /\ rcv[r].streaming \in BOOLEAN /\ rcv[r].pending \in BOOLEAN
      /\ rcv[r].requested \in Nat /\ rcv[r].target \in Nat /\ rcv[r].skip \in Nat
      /\ rcv[r].stamp \in Int /\ rcv[r].got \in Seq(Cells)
  BY <1>2 DEF Receivers
<1>4. Len(rcv[r].got) \in Nat
  BY <1>3
<1>5. StampAt(ring[r], rcv[r])
  BY <1>1 DEF StampInv, StampAt, Set, Consumed
<1>6. /\ ring[r] \in RingStates /\ Sound(ring[r])
      /\ ring[r].origin \in Int /\ ring[r].read \in Nat
      /\ Available(ring[r]) \in Nat /\ Available(ring[r]) = Len(ring[r].cells)
      /\ ring[r].origin # Unset <=> OriginIsSet(ring[r])
      /\ ring[r].origin # Unset => /\ ring[r].origin \in Nat
                                   /\ AbsoluteConsumed(ring[r]) = ring[r].origin + ring[r].read
  BY <1>1, RingFacts DEF Set, Consumed
<1> QED BY <1>1, <1>2, <1>3, <1>4, <1>5, <1>6

\* A step of a receiver that leaves its ring as it is.
LEMMA ReceiverAlone ==
  ASSUME AirInv, NEW r \in RxRings, ring' = ring,
         NEW u \in Receivers, rcv' = [rcv EXCEPT ![r] = u], StampAt(ring[r], u),
         UNCHANGED <<clock, hub, snd>>, budget' \in [commands : Nat, errors : Nat]
  PROVE  AirInv' /\ \A p \in Rings : ring'[p].written = ring[p].written
<1>1. /\ ring[r] \in RingStates /\ Sound(ring[r])
      /\ ring' = [ring EXCEPT ![r] = ring[r]]
  BY ReceiverFacts DEF AirTypeOK
<1> QED BY <1>1, ReceiverStep

\* The stamp is read when any seek is over, and is where the ring then stands.
LEMMA StampedIs ==
  ASSUME AirInv, NEW r \in RxRings, NEW q \in Receivers, ring[r].origin # Unset
  PROVE  Stamped(r, q) \in Receivers /\ StampAt(ring[r], Stamped(r, q))
<1> DEFINE u == Stamped(r, q)
           at == AbsoluteConsumed(ring[r])
<1>1. at = ring[r].origin + ring[r].read /\ at \in Int
  BY ReceiverFacts
<1>2. u = [q EXCEPT !.pc = "pop", !.stamp = at, !.got = <<>>, !.target = 0, !.skip = 0]
  BY DEF Stamped
<1> HIDE DEF at, u
<1>3. /\ u \in Receivers /\ u.pc = "pop" /\ u.stamp = at /\ u.got = <<>>
  BY <1>1, <1>2, NothingOnAir DEF Receivers, RxPlaces
<1>4. Len(u.got) = 0 /\ OnAir(u.got, at) /\ 0 <= RecvLen
  BY <1>1, <1>3, NothingOnAir, Constants
<1>5. u.stamp + Len(u.got) = ring[r].origin + ring[r].read
  BY <1>1, <1>3, <1>4
<1> QED BY <1>3, <1>4, <1>5 DEF StampAt, u

\* A start that could not be made.
LEMMA StartAgainIs ==
  ASSUME NEW c, NEW q \in Receivers, Len(q.got) <= RecvLen, OnAir(q.got, q.stamp)
  PROVE  StartAgain(q) \in Receivers /\ StampAt(c, StartAgain(q))
<1> DEFINE u == StartAgain(q)
           again == q.pending \/ q.streaming
<1>1. u = [q EXCEPT !.pc = "idle", !.pending = again, !.target = 0, !.skip = 0]
  BY DEF StartAgain
<1>2. again \in BOOLEAN
  OBVIOUS
<1> HIDE DEF u, again
<1>3. /\ u \in Receivers /\ u.pc = "idle" /\ u.pending = again
      /\ u.streaming = q.streaming /\ u.got = q.got /\ u.stamp = q.stamp
  BY <1>1, <1>2 DEF Receivers, RxPlaces
<1> QED BY <1>3 DEF StampAt, u, again

\* Command: the caller starts or stops the stream whenever it likes.
LEMMA CommandStep ==
  ASSUME AirInv, NEW r \in RxRings, Command(r)
  PROVE  AirInv' /\ ring' = ring
<1> DEFINE q == rcv[r]
           stop == [q EXCEPT !.streaming = FALSE, !.pending = FALSE]
           start(t) == [q EXCEPT !.streaming = TRUE, !.pending = TRUE, !.requested = t]
<1>1. UNCHANGED <<ring, clock, snd, hub>>
  BY DEF Command
<1>2. budget' \in [commands : Nat, errors : Nat]
  <2>1. budget.commands > 0 /\ budget' = [budget EXCEPT !.commands = budget.commands - 1]
    BY DEF Command
  <2>2. budget \in [commands : Nat, errors : Nat]
    BY ReceiverFacts
  <2> QED BY <2>1, <2>2
<1>3. q \in Receivers /\ StampAt(ring[r], q)
  BY ReceiverFacts
<1>4. rcv' = [rcv EXCEPT ![r] = stop] \/ \E t \in StartTimes : rcv' = [rcv EXCEPT ![r] = start(t)]
  <2>1. r \in DOMAIN rcv
    BY ReceiverFacts DEF AirTypeOK
  <2> QED BY <2>1 DEF Command
<1> HIDE DEF q
<1>5. stop \in Receivers /\ StampAt(ring[r], stop)
  BY <1>3 DEF StampAt, Receivers
<1>6. \A t \in Nat : start(t) \in Receivers /\ StampAt(ring[r], start(t))
  BY <1>3 DEF StampAt, Receivers
<1> HIDE DEF stop, start
<1>7. CASE rcv' = [rcv EXCEPT ![r] = stop]
  BY <1>1, <1>2, <1>5, <1>7, ReceiverAlone
<1>8. ASSUME NEW t \in StartTimes, rcv' = [rcv EXCEPT ![r] = start(t)] PROVE AirInv'
  <2>1. t \in Nat
    BY Constants
  <2> QED BY <1>1, <1>2, <1>6, <1>8, <2>1, ReceiverAlone
<1> QED BY <1>1, <1>4, <1>7, <1>8

\* Recv: the pending start is taken, or the samples are where the ring stands.
LEMMA RecvStep ==
  ASSUME AirInv, NEW r \in RxRings, Recv(r)
  PROVE  AirInv' /\ ring' = ring
<1> DEFINE q == rcv[r]
           seek == [q EXCEPT !.pc = "seek", !.pending = FALSE, !.target = q.requested,
                             !.late = FALSE]
           fresh == [q EXCEPT !.late = FALSE]
           u == IF ~q.streaming THEN q ELSE IF q.pending THEN seek ELSE Stamped(r, fresh)
<1>1. /\ q.pc = "idle" /\ UNCHANGED <<ring, clock, snd, hub, budget>>
      /\ rcv' = [rcv EXCEPT ![r] = u]
  BY DEF Recv
<1>2. /\ q \in Receivers /\ StampAt(ring[r], q) /\ q.requested \in Nat
      /\ budget \in [commands : Nat, errors : Nat]
  BY ReceiverFacts
<1> HIDE DEF q
<1>3. seek \in Receivers /\ StampAt(ring[r], seek)
  <2>1. /\ seek \in Receivers /\ seek.pc = "seek" /\ seek.got = q.got
        /\ seek.stamp = q.stamp
    BY <1>2 DEF Receivers, RxPlaces
  <2> HIDE DEF seek
  <2> QED BY <1>2, <2>1 DEF StampAt
<1>4. fresh \in Receivers
  BY <1>2 DEF Receivers
<1>5. q.streaming /\ ~q.pending => ring[r].origin # Unset
  BY <1>1, <1>2 DEF StampAt
<1> HIDE DEF seek, fresh
<1>6. u \in Receivers /\ StampAt(ring[r], u)
  <2>1. CASE ~q.streaming
    BY <1>2, <2>1
  <2>2. CASE q.streaming /\ q.pending
    BY <1>3, <2>2
  <2>3. CASE q.streaming /\ ~q.pending
    BY <1>4, <1>5, <2>3, StampedIs
  <2> QED BY <2>1, <2>2, <2>3
<1> HIDE DEF u
<1> QED BY <1>1, <1>2, <1>6, ReceiverAlone

\* Seek: the start lies behind, here, or ahead.
LEMMA SeekStep ==
  ASSUME AirInv, NEW r \in RxRings, Seek(r)
  PROVE  AirInv' /\ ring' = ring
<1> DEFINE q == rcv[r]
           from == AbsoluteConsumed(ring[r])
           goal == Max({q.target, ring[r].origin})
           late == [q EXCEPT !.late = TRUE]
           skip == [q EXCEPT !.pc = "skip", !.skip = goal - from]
           u == IF ~OriginIsSet(ring[r]) THEN StartAgain(q)
                ELSE IF goal < from THEN Stamped(r, late)
                ELSE IF goal = from THEN Stamped(r, q)
                ELSE skip
<1>1. /\ q.pc = "seek" /\ UNCHANGED <<ring, clock, snd, hub, budget>>
      /\ rcv' = [rcv EXCEPT ![r] = u]
  BY DEF Seek
<1>2. /\ q \in Receivers /\ StampAt(ring[r], q) /\ q.target \in Nat
      /\ ring[r].origin # Unset <=> OriginIsSet(ring[r])
      /\ ring[r].origin \in Int /\ ring[r].read \in Nat
      /\ ring[r].origin # Unset => from = ring[r].origin + ring[r].read
      /\ budget \in [commands : Nat, errors : Nat]
  BY ReceiverFacts
<1>3. Len(q.got) <= RecvLen /\ OnAir(q.got, q.stamp)
  BY <1>2 DEF StampAt
<1>4. goal = IF q.target <= ring[r].origin THEN ring[r].origin ELSE q.target
  BY <1>2, MaxOfTwo
<1> HIDE DEF q, from, goal
<1>5. late \in Receivers
  BY <1>2 DEF Receivers
<1>6. CASE ~OriginIsSet(ring[r])
  <2>1. u = StartAgain(q)
    BY <1>6
  <2>2. StartAgain(q) \in Receivers /\ StampAt(ring[r], StartAgain(q))
    BY <1>2, <1>3, StartAgainIs
  <2> HIDE DEF u
  <2> QED BY <1>1, <1>2, <2>1, <2>2, ReceiverAlone
<1>7. CASE OriginIsSet(ring[r]) /\ ~(goal < from) /\ goal # from
  <2>1. u = skip /\ goal - from \in Nat
    BY <1>2, <1>4, <1>7
  <2>2. /\ skip \in Receivers /\ skip.pc = "skip" /\ skip.got = q.got
        /\ skip.stamp = q.stamp
    BY <1>2, <2>1 DEF Receivers, RxPlaces
  <2> HIDE DEF skip, u
  <2>3. StampAt(ring[r], skip)
    BY <1>2, <1>3, <1>7, <2>2 DEF StampAt
  <2> QED BY <1>1, <1>2, <2>1, <2>2, <2>3, ReceiverAlone
<1>8. CASE OriginIsSet(ring[r]) /\ (goal < from \/ goal = from)
  <2>1. u = Stamped(r, late) \/ u = Stamped(r, q)
    BY <1>8
  <2>2. /\ Stamped(r, late) \in Receivers /\ StampAt(ring[r], Stamped(r, late))
        /\ Stamped(r, q) \in Receivers /\ StampAt(ring[r], Stamped(r, q))
    BY <1>2, <1>5, <1>8, StampedIs
  <2> HIDE DEF u
  <2> QED BY <1>1, <1>2, <2>1, <2>2, ReceiverAlone
<1> QED BY <1>6, <1>7, <1>8

\* Skip: samples before the start are dropped, as far as they have come.
LEMMA SkipStep ==
  ASSUME AirInv, NEW r \in RxRings, Skip(r)
  PROVE  AirInv' /\ \A p \in Rings : ring'[p].written = ring[p].written
<1> DEFINE q == rcv[r]
           n == Min({q.skip, Available(ring[r])})
           c == Popped(ring[r], n)
           more == [q EXCEPT !.skip = q.skip - n]
           at == AbsoluteConsumed(c)
           pop == [q EXCEPT !.pc = "pop", !.stamp = at, !.got = <<>>, !.target = 0, !.skip = 0]
           u == IF n = 0 THEN StartAgain(q) ELSE IF n < q.skip THEN more ELSE pop
<1>1. /\ q \in Receivers /\ StampAt(ring[r], q) /\ q.skip \in Nat /\ r \in Rings
      /\ ring[r] \in RingStates /\ Sound(ring[r])
      /\ ring[r].origin \in Int /\ ring[r].read \in Nat
      /\ Available(ring[r]) \in Nat /\ Available(ring[r]) = Len(ring[r].cells)
      /\ budget \in [commands : Nat, errors : Nat]
  BY ReceiverFacts
<1>2. r \in DOMAIN ring
  BY <1>1, ReceiverFacts DEF AirTypeOK
<1>3. /\ q.pc = "skip" /\ UNCHANGED <<clock, snd, hub, budget>>
      /\ ring' = [ring EXCEPT ![r] = c]
      /\ rcv' = [rcv EXCEPT ![r] = u]
  <2>1. /\ q.pc = "skip" /\ UNCHANGED <<clock, snd, hub, budget>>
        /\ ring' = [ring EXCEPT ![r] = c]
        /\ rcv' = [rcv EXCEPT ![r] =
             IF n = 0 THEN StartAgain(q)
             ELSE IF n < q.skip THEN more
             ELSE [q EXCEPT !.pc = "pop",
                            !.stamp = AbsoluteConsumed([ring EXCEPT ![r] = c][r]),
                            !.got = <<>>, !.target = 0, !.skip = 0]]
    BY DEF Skip
  <2>2. [ring EXCEPT ![r] = c][r] = c
    BY <1>2
  <2> DEFINE there == [ring EXCEPT ![r] = c][r]
             late == [q EXCEPT !.pc = "pop", !.stamp = AbsoluteConsumed(there),
                               !.got = <<>>, !.target = 0, !.skip = 0]
  <2>3. late = pop
    BY <2>2
  <2>4. rcv' = [rcv EXCEPT ![r] = IF n = 0 THEN StartAgain(q)
                                  ELSE IF n < q.skip THEN more ELSE late]
    BY <2>1
  <2> HIDE DEF late, pop, more, c, n, q
  <2> QED BY <2>1, <2>3, <2>4
<1>4. n \in Nat /\ n <= q.skip /\ n <= Available(ring[r])
  <2>1. n = IF q.skip <= Available(ring[r]) THEN q.skip ELSE Available(ring[r])
    BY <1>1, MinOfTwo
  <2> HIDE DEF n
  <2> QED BY <1>1, <2>1
<1> HIDE DEF n, q
<1>5. /\ c \in RingStates /\ Sound(c)
      /\ c.origin = ring[r].origin /\ c.read = ring[r].read + n
      /\ c.written = ring[r].written
  BY <1>1, <1>4, PoppedIsSound
<1>6. ring[r].origin # Unset /\ Len(q.got) <= RecvLen /\ OnAir(q.got, q.stamp)
  BY <1>1, <1>3 DEF StampAt
<1>7. at = c.origin + c.read /\ at \in Int
  BY <1>1, <1>4, <1>5, <1>6 DEF AbsoluteConsumed, OriginIsSet
<1> HIDE DEF c, at
<1>8. StartAgain(q) \in Receivers /\ StampAt(c, StartAgain(q))
  BY <1>1, <1>6, StartAgainIs
<1>9. more \in Receivers /\ StampAt(c, more)
  <2>1. q.skip - n \in Nat
    BY <1>1, <1>4
  <2>2. /\ more \in Receivers /\ more.pc = "skip" /\ more.got = q.got
        /\ more.stamp = q.stamp
    BY <1>1, <1>3, <2>1 DEF Receivers
  <2> HIDE DEF more
  <2> QED BY <1>5, <1>6, <2>2 DEF StampAt
<1>10. pop \in Receivers /\ StampAt(c, pop)
  <2>1. /\ pop \in Receivers /\ pop.pc = "pop" /\ pop.stamp = at /\ pop.got = <<>>
    BY <1>1, <1>7, NothingOnAir DEF Receivers, RxPlaces
  <2> HIDE DEF pop
  <2>2. Len(pop.got) = 0 /\ OnAir(pop.got, at) /\ 0 <= RecvLen
    BY <1>7, <2>1, NothingOnAir, Constants
  <2>3. pop.stamp + Len(pop.got) = c.origin + c.read
    BY <1>7, <2>1, <2>2
  <2> QED BY <1>5, <1>6, <2>1, <2>2, <2>3 DEF StampAt
<1> HIDE DEF more, pop
<1>11. u \in Receivers /\ StampAt(c, u)
  BY <1>8, <1>9, <1>10
<1> HIDE DEF u
<1> QED BY <1>1, <1>3, <1>5, <1>11, ReceiverStep

\* Pop: what there is, up to the length of a block, after what was taken already.
LEMMA PopStep ==
  ASSUME AirInv, NEW r \in RxRings, Pop(r)
  PROVE  AirInv' /\ \A p \in Rings : ring'[p].written = ring[p].written
<1> DEFINE q == rcv[r]
           n == Min({RecvLen - Len(q.got), Available(ring[r])})
           c == Popped(ring[r], n)
           xs == FirstCells(ring[r], n)
           got == q.got \o xs
           place == IF n = 0 \/ Len(got) = RecvLen THEN "idle" ELSE q.pc
           u == [q EXCEPT !.got = got, !.pc = place]
<1>1. /\ q.pc = "pop" /\ UNCHANGED <<clock, snd, hub, budget>>
      /\ ring' = [ring EXCEPT ![r] = c]
      /\ rcv' = [rcv EXCEPT ![r] = u]
  BY DEF Pop
<1>2. /\ q \in Receivers /\ StampAt(ring[r], q) /\ r \in Rings
      /\ q.got \in Seq(Cells) /\ Len(q.got) \in Nat /\ q.stamp \in Int
      /\ ring[r] \in RingStates /\ Sound(ring[r])
      /\ ring[r].origin \in Int /\ ring[r].read \in Nat
      /\ Available(ring[r]) \in Nat /\ Available(ring[r]) = Len(ring[r].cells)
      /\ budget \in [commands : Nat, errors : Nat]
  BY ReceiverFacts
<1>3. /\ ring[r].origin # Unset /\ Len(q.got) <= RecvLen /\ OnAir(q.got, q.stamp)
      /\ q.stamp + Len(q.got) = ring[r].origin + ring[r].read
  BY <1>1, <1>2 DEF StampAt
<1>4. n \in Nat /\ n <= RecvLen - Len(q.got) /\ n <= Available(ring[r])
  <2>1. RecvLen - Len(q.got) \in Nat
    BY <1>2, <1>3, Constants
  <2>2. n = IF RecvLen - Len(q.got) <= Available(ring[r]) THEN RecvLen - Len(q.got)
            ELSE Available(ring[r])
    BY <1>2, <2>1, MinOfTwo
  <2> HIDE DEF n
  <2> QED BY <1>2, <2>1, <2>2
<1> HIDE DEF n, q
<1>5. /\ c \in RingStates /\ Sound(c)
      /\ c.origin = ring[r].origin /\ c.read = ring[r].read + n
      /\ c.written = ring[r].written
      /\ xs \in Seq(Cells) /\ Len(xs) = n /\ OnAir(xs, ring[r].origin + ring[r].read)
  BY <1>2, <1>4, PoppedIsSound
<1> HIDE DEF c, xs
<1>6. /\ got \in Seq(Cells) /\ Len(got) = Len(q.got) + n /\ OnAir(got, q.stamp)
  <2>1. OnAir(xs, q.stamp + Len(q.got))
    BY <1>3, <1>5
  <2>2. /\ got \in Seq(Cells) /\ Len(got) = Len(q.got) + Len(xs) /\ OnAir(got, q.stamp)
    BY <1>2, <1>3, <1>5, <2>1, OneAfterTheOther
  <2> QED BY <1>5, <2>2
<1> HIDE DEF got
<1>7. place \in {"idle", "pop"}
  BY <1>1
<1> HIDE DEF place
<1>8. /\ u \in Receivers /\ u.pc = place /\ u.got = got /\ u.stamp = q.stamp
      /\ u.streaming = q.streaming /\ u.pending = q.pending
  BY <1>2, <1>6, <1>7 DEF Receivers, RxPlaces
<1> HIDE DEF u
<1>9. StampAt(c, u)
  <2>1. u.stamp + Len(u.got) = c.origin + c.read
    <3>1. u.stamp = q.stamp /\ Len(u.got) = Len(q.got) + n
      BY <1>6, <1>8
    <3>2. /\ q.stamp \in Int /\ Len(q.got) \in Nat /\ n \in Nat
          /\ ring[r].origin \in Int /\ ring[r].read \in Nat
          /\ q.stamp + Len(q.got) = ring[r].origin + ring[r].read
      BY <1>2, <1>3, <1>4
    <3>3. q.stamp + (Len(q.got) + n) = ring[r].origin + (ring[r].read + n)
      <4> DEFINE st == q.stamp
                 len == Len(q.got)
                 og == ring[r].origin
                 rd == ring[r].read
      <4>1. st \in Int /\ len \in Int /\ n \in Int /\ og \in Int /\ rd \in Int
        BY <3>2
      <4>2. st + len = og + rd
        BY <3>2
      <4> HIDE DEF st, len, og, rd
      <4>3. st + (len + n) = og + (rd + n)
        BY <4>1, <4>2
      <4> QED BY <4>3 DEF st, len, og, rd
    <3> QED BY <1>5, <3>1, <3>3
  <2>2. Len(u.got) <= RecvLen
    BY <1>2, <1>4, <1>6, <1>8, Constants
  <2> QED BY <1>3, <1>5, <1>6, <1>7, <1>8, <2>1, <2>2 DEF StampAt
<1> QED BY <1>1, <1>2, <1>5, <1>8, <1>9, ReceiverStep

-----------------------------------------------------------------------------
(* The theorems.                                                           *)

LEMMA AirInit == Init => AirInv
<1> SUFFICES ASSUME Init PROVE AirInv
  OBVIOUS
<1>1. FreshRing \in RingStates /\ Sound(FreshRing) /\ FreshRing.origin = Unset
      /\ FreshRing.read = 0
  <2>1. /\ FreshRing = [origin |-> Unset, written |-> 0, read |-> 0, cells |-> <<>>]
        /\ FreshRing \in RingStates
    BY DEF FreshRing, RingStates
  <2>2. FreshRing.cells = <<>> /\ FreshRing.written = 0 /\ FreshRing.read = 0
        /\ FreshRing.origin = Unset /\ Unset \in Int
    BY <2>1 DEF Unset
  <2>3. OnAir(<<>>, Unset + 0) /\ Len(<<>>) = 0
    BY NothingOnAir DEF Unset
  <2> QED BY <2>1, <2>2, <2>3, Constants DEF Sound
<1>2. \A r \in Rings : ring[r] = FreshRing
  BY DEF Init, Rings
<1>3. ring \in [Rings -> RingStates] /\ RingInv
  BY <1>1, <1>2 DEF Init, Rings, RingInv
<1>4. \A s \in TxRings : snd[s] = FreshSender(StartLead)
  BY DEF Init
<1>5. FreshSender(StartLead) \in Senders
  BY Constants DEF FreshSender, Senders, TxPlaces
<1>6. snd \in [TxRings -> Senders]
  BY <1>5 DEF Init
<1>7. hub \in Hubs /\ hub.pc = "pop" /\ hub.start = 0 /\ hub.size = 0 /\ hub.line = <<>>
      /\ hub.ul = <<>>
  <2>1. hub = [pc |-> "pop", start |-> 0, line |-> <<>>, ul |-> <<>>, size |-> 0, stale |-> 0]
    BY DEF Init
  <2> QED BY <2>1, NothingOnAir DEF Hubs, HubPlaces
<1>8. \A r \in RxRings : /\ rcv[r] \in Receivers /\ rcv[r].pc = "idle" /\ rcv[r].pending
                         /\ rcv[r].got = <<>> /\ rcv[r].stamp = Unset
  <2>1. FreshReceiver \in Receivers /\ FreshReceiver.pc = "idle" /\ FreshReceiver.got = <<>>
        /\ FreshReceiver.stamp = Unset
    BY NothingOnAir DEF FreshReceiver, Receivers, RxPlaces, Unset
  <2>2. SUFFICES ASSUME NEW r \in RxRings
                 PROVE  /\ rcv[r] \in Receivers /\ rcv[r].pc = "idle" /\ rcv[r].pending
                        /\ rcv[r].got = <<>> /\ rcv[r].stamp = Unset
    OBVIOUS
  <2> DEFINE n == IF r = "rx.ul" THEN StartLead ELSE 0
  <2>3. rcv[r] = [FreshReceiver EXCEPT !.streaming = TRUE, !.pending = TRUE,
                                       !.requested = n]
    BY DEF Init
  <2>4. n \in Nat
    BY Constants
  <2> HIDE DEF FreshReceiver, n
  <2> QED BY <2>1, <2>3, <2>4 DEF Receivers
<1>9. rcv \in [RxRings -> Receivers]
  BY <1>8 DEF Init
<1>10. AirTypeOK
  BY <1>3, <1>6, <1>7, <1>9, Constants DEF Init, AirTypeOK
<1>11. \A r \in Rings : ~Set(r) /\ ring[r].read = 0
  BY <1>1, <1>2 DEF Set
<1>12. OnAir(<<>>, 0) /\ OnAir(<<>>, Unset) /\ Len(<<>>) = 0
  BY NothingOnAir DEF Unset
<1>13. ChunkInv
  BY <1>7, <1>11, <1>12, RingNames DEF ChunkInv
<1>14. UplinkInv
  BY <1>7, <1>11, RingNames DEF UplinkInv
<1>15. StampInv
  BY <1>8, <1>12, Constants DEF StampInv
<1>16. BsInv /\ UeInv
  BY <1>1, <1>2, <1>4, RingNames DEF BsInv, UeInv, BsAt, UeAt, FreshSender
<1> QED BY <1>3, <1>10, <1>13, <1>14, <1>15, <1>16 DEF AirInv

\* A step that stutters.
LEMMA AirStutter == AirInv /\ UNCHANGED vars => AirInv'
<1> SUFFICES ASSUME AirInv, UNCHANGED vars PROVE AirInv'
  OBVIOUS
<1>1. "rx.ul" \in RxRings /\ UNCHANGED <<ring, clock, snd, hub, rcv, budget>>
  BY RingNames DEF vars
<1>2. rcv["rx.ul"] \in Receivers /\ StampAt(ring["rx.ul"], rcv["rx.ul"])
      /\ budget' \in [commands : Nat, errors : Nat] /\ AirTypeOK
  BY <1>1, ReceiverFacts
<1>3. rcv' = [rcv EXCEPT !["rx.ul"] = rcv["rx.ul"]]
  BY <1>1, <1>2 DEF AirTypeOK
<1> QED BY <1>1, <1>2, <1>3, ReceiverAlone

\* A step that neither transmits a frame nor fills a gap.
SendsNothing == \A s \in TxRings : ring'[s].written = ring[s].written

LEMMA AirStep ==
  ASSUME AirInv, [Next]_vars
  PROVE  /\ AirInv'
         /\ \/ SendsNothing
            \/ \E s \in TxRings : (Push(s) \/ WriteGap(s)) /\ WritesOnly(s)
<1>1. TxRings \subseteq Rings /\ "rx.comm" \in RxRings
  BY RingNames
<1>2. ASSUME NEW s \in TxRings, Call(s) PROVE AirInv' /\ SendsNothing
  BY <1>1, <1>2, CallStep DEF SendsNothing
<1>3. ASSUME NEW s \in TxRings, WriteGap(s) PROVE AirInv' /\ WritesOnly(s)
  BY <1>3, WriteGapStep
<1>4. ASSUME NEW s \in TxRings, Push(s) PROVE AirInv' /\ WritesOnly(s)
  BY <1>4, PushStep
<1>5. ASSUME NEW s \in TxRings, GapTimeout(s) \/ PushTimeout(s)
      PROVE  AirInv' /\ SendsNothing
  BY <1>5, GapTimeoutStep, PushTimeoutStep DEF SendsNothing
<1>6. ASSUME GiveUp \/ UlRestart PROVE AirInv' /\ SendsNothing
  BY <1>6, GiveUpStep, UlRestartStep DEF SendsNothing
<1>7. ASSUME HubStep PROVE AirInv' /\ SendsNothing
  BY <1>7, HubPopStep, HubPublishStep, HubMapStep, HubSkipStep, HubDrainStep,
     HubAnswerStep DEF HubStep, SendsNothing
<1>8. ASSUME Command("rx.comm") PROVE AirInv' /\ SendsNothing
  BY <1>1, <1>8, CommandStep DEF SendsNothing
<1>9. ASSUME NEW r \in RxRings, Receive(r) PROVE AirInv' /\ SendsNothing
  BY <1>1, <1>9, RecvStep, SeekStep, SkipStep, PopStep DEF Receive, SendsNothing
<1>10. CASE UNCHANGED vars
  BY <1>10, AirStutter DEF vars, SendsNothing
<1>11. CASE Next
  BY <1>2, <1>3, <1>4, <1>5, <1>6, <1>7, <1>8, <1>9, <1>11 DEF Next, Transmit
<1> QED BY <1>10, <1>11

\* The types, the books of every ring, and where every process of the simulation is:
\* the senders in their frames, the hub in its chunk, the receivers in their blocks.
THEOREM AirSound == Spec => []AirInv
<1>1. AirInv /\ [Next]_vars => AirInv'
  BY AirStep
<1> QED BY AirInit, <1>1, PTL DEF Spec

\* The types of the variables.
THEOREM AirTypeCorrect == Spec => []AirTypeOK
<1>1. AirInv => AirTypeOK
  BY DEF AirInv
<1> QED BY AirSound, <1>1, PTL

\* Whatever waits on a receive ring was put on the air at the time the receiver will
\* read it, or is silence: the hub neither delays nor advances a sample.
THEOREM HeardInTime == Spec => []HeardWhenAired
<1>1. AirInv => HeardWhenAired
  <2>1. SUFFICES ASSUME AirInv, NEW r \in RxRings, NEW i \in DOMAIN ring[r].cells
                 PROVE  ring[r].cells[i] = Silence
                        \/ ring[r].cells[i].aired = AirTime(ring[r], i)
    BY DEF HeardWhenAired
  <2>2. AirTypeOK /\ RingInv /\ r \in Rings
    BY <2>1, RingNames DEF AirInv
  <2>3. /\ ring[r].origin \in Int /\ ring[r].read \in Nat /\ ring[r].cells \in Seq(Cells)
        /\ Sound(ring[r])
    BY <2>2, RingFacts
  <2>4. i \in 1 .. Len(ring[r].cells)
    BY <2>1, <2>3
  <2>5. On(ring[r].cells[i], ring[r].origin + ring[r].read + i - 1)
    BY <2>3, <2>4 DEF Sound, OnAir
  <2> QED BY <2>5 DEF On, AirTime
<1> QED BY AirSound, <1>1, PTL

\* The time stamp of a received block is the air time of its first sample, whatever
\* start was asked for, taken, cut short or superseded.
THEOREM StampsAreAirTimes == Spec => []StampIsAirTime
<1>1. AirInv => StampIsAirTime
  <2>1. SUFFICES ASSUME AirInv, NEW r \in RxRings, NEW i \in DOMAIN rcv[r].got
                 PROVE  LET c == rcv[r].got[i]
                        IN  c = Silence \/ c.aired = rcv[r].stamp + i - 1
    BY DEF StampIsAirTime
  <2>2. rcv[r].got \in Seq(Cells) /\ OnAir(rcv[r].got, rcv[r].stamp)
    BY <2>1, ReceiverFacts DEF StampAt
  <2>3. i \in 1 .. Len(rcv[r].got)
    BY <2>1, <2>2
  <2> QED BY <2>2, <2>3 DEF OnAir, On
<1> QED BY AirSound, <1>1, PTL

\* What is on a ring, and what was added to it.
LEMMA AddedIs ==
  ASSUME NEW a \in Seq(Cells), NEW b \in Seq(Cells)
  PROVE  LET d == SubSeq(a \o b, Len(a) + 1, Len(a \o b))
         IN  d \in Seq(Cells) /\ Len(d) = Len(b) /\ \A i \in 1 .. Len(b) : d[i] = b[i]
<1> DEFINE ab == a \o b
           d == SubSeq(ab, Len(a) + 1, Len(ab))
<1>1. ab \in Seq(Cells) /\ Len(ab) = Len(a) + Len(b) /\ Len(a) \in Nat /\ Len(b) \in Nat
      /\ \A i \in 1 .. Len(b) : ab[Len(a) + i] = b[i]
  OBVIOUS
<1> HIDE DEF ab
<1>2. d \in Seq(Cells) /\ Len(d) = Len(b)
  BY <1>1
<1>3. \A i \in 1 .. Len(b) : d[i] = ab[Len(a) + i]
  BY <1>1
<1> QED BY <1>1, <1>2, <1>3 DEF ab

\* A frame goes on the air at the time it was made for, however send() was cut short.
THEOREM AlwaysSentOnTime == Spec => SentOnTime
<1> DEFINE Due(s) == s = "tx" \/ snd["ul.tx"].errors = 0
<1>1. ASSUME AirInv, NEW s \in TxRings, Due(s), Push(s) PROVE SendsOnTime(s)
  <2>1. PICK n \in Nat : n <= snd[s].left
                         /\ ring'[s].cells = ring[s].cells \o SubSeq(Rest(s), 1, n)
    BY <1>1, PushStep
  <2> DEFINE xs == SubSeq(Rest(s), 1, n)
  <2>2. snd[s].pc # "idle" /\ snd[s].pc = "push"
    BY <1>1 DEF Push
  <2>3. AtSample(ring[s], snd[s])
    <3>1. ring[s].origin # Unset /\ s \in {"tx", "ul.tx"}
      BY <1>1, <2>2, SenderFacts
    <3>2. CASE s = "tx"
      BY <1>1, <2>2, <3>1, <3>2 DEF AirInv, BsInv, BsAt
    <3>3. CASE s = "ul.tx"
      BY <1>1, <2>2, <3>1, <3>3 DEF AirInv, UeInv, UeAt
    <3> QED BY <3>1, <3>2, <3>3
  <2>4. xs \in Seq(Cells) /\ Len(xs) = n /\ \A i \in 1 .. n : xs[i].meant = xs[i].aired
    BY <1>1, <2>1, <2>2, <2>3, RestOnAir
  <2>5. ring[s].cells \in Seq(Cells) /\ ring'[s].cells = ring[s].cells \o xs
    <3>1. AirTypeOK /\ RingInv /\ s \in Rings
      BY <1>1, RingNames DEF AirInv
    <3> QED BY <2>1, <3>1, RingFacts
  <2> HIDE DEF xs
  <2>6. /\ Sent(s) \in Seq(Cells) /\ Len(Sent(s)) = n
        /\ \A i \in 1 .. n : Sent(s)[i] = xs[i]
    <3> DEFINE a == ring[s].cells
    <3>1. Sent(s) = SubSeq(a \o xs, Len(a) + 1, Len(a \o xs))
      BY <2>5 DEF Sent
    <3> HIDE DEF a
    <3>2. a \in Seq(Cells)
      BY <2>5 DEF a
    <3> QED BY <2>4, <3>1, <3>2, AddedIs
  <2>7. DOMAIN Sent(s) = 1 .. n
    BY <2>6
  <2> QED BY <2>4, <2>6, <2>7 DEF SendsOnTime, OnTime
<1>2. ASSUME AirInv, NEW s \in TxRings, WriteGap(s) PROVE SendsOnTime(s)
  <2>1. PICK n \in Nat : ring'[s].cells = ring[s].cells \o [i \in 1 .. n |-> Silence]
    BY <1>2, WriteGapStep
  <2> DEFINE xs == [i \in 1 .. n |-> Silence]
  <2>2. xs \in Seq(Cells) /\ Len(xs) = n
    <3>1. 0 \in Int
      OBVIOUS
    <3> QED BY <3>1, Quiet
  <2>3. \A i \in 1 .. n : xs[i] = Silence
    OBVIOUS
  <2>4. ring[s].cells \in Seq(Cells) /\ ring'[s].cells = ring[s].cells \o xs
    <3>1. AirTypeOK /\ RingInv /\ s \in Rings
      BY <1>2, RingNames DEF AirInv
    <3> QED BY <2>1, <3>1, RingFacts
  <2> HIDE DEF xs
  <2>5. /\ Sent(s) \in Seq(Cells) /\ Len(Sent(s)) = n
        /\ \A i \in 1 .. n : Sent(s)[i] = xs[i]
    <3> DEFINE a == ring[s].cells
    <3>1. Sent(s) = SubSeq(a \o xs, Len(a) + 1, Len(a \o xs))
      BY <2>4 DEF Sent
    <3> HIDE DEF a
    <3>2. a \in Seq(Cells)
      BY <2>4 DEF a
    <3> QED BY <2>2, <3>1, <3>2, AddedIs
  <2>6. DOMAIN Sent(s) = 1 .. n
    BY <2>5
  <2> QED BY <2>3, <2>5, <2>6 DEF SendsOnTime, OnTime
<1>3. ASSUME AirInv, NEW s \in TxRings, ring'[s].written = ring[s].written
      PROVE  SendsOnTime(s)
  <2>1. ring[s].written \in Nat
    <3>1. AirTypeOK /\ RingInv /\ s \in Rings
      BY <1>3, RingNames DEF AirInv
    <3> QED BY <3>1, RingFacts
  <2> QED BY <1>3, <2>1 DEF SendsOnTime
<1>4. AirInv /\ [Next]_vars => [/\ snd["ul.tx"].errors = 0 => SendsOnTime("ul.tx")
                                /\ SendsOnTime("tx")]_vars
  <2>1. SUFFICES ASSUME AirInv, [Next]_vars, NEW p \in TxRings, Due(p)
                 PROVE  SendsOnTime(p)
    BY RingNames
  <2>2. CASE SendsNothing
    BY <1>3, <2>1, <2>2 DEF SendsNothing
  <2>3. ASSUME NEW s \in TxRings, Push(s) \/ WriteGap(s), WritesOnly(s)
        PROVE  SendsOnTime(p)
    <3>1. CASE s = p
      BY <1>1, <1>2, <2>1, <2>3, <3>1
    <3>2. CASE s # p
      <4>1. ring'[p].written = ring[p].written
        BY <2>3, <3>2, RingNames DEF WritesOnly
      <4> QED BY <1>3, <2>1, <4>1
    <3> QED BY <3>1, <3>2
  <2> QED BY <2>1, <2>2, <2>3, AirStep
<1> HIDE DEF Due
<1> QED BY AirSound, <1>4, PTL DEF Spec, SentOnTime
=============================================================================
