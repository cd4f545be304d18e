-------------------------- MODULE UeReceive_proofs --------------------------
(***************************************************************************)
(* The frames of the UE keep their order through both stages of workers,   *)
(* no measurement is forgotten, no ring overflows and no buffer is lost or *)
(* given back twice, for any number of workers, any rings and queues, any  *)
(* frames, resynchronisations and restarts, and wherever stop() finds the  *)
(* threads.                                                                *)
(*                                                                         *)
(* The second part is about the workers of LdpcFrameDecoder: none touches  *)
(* a frame once the call that lent it has returned.                        *)
(***************************************************************************)
EXTENDS MCUeReceive, DecoderPool, FiniteSetTheorems, TLAPS

-----------------------------------------------------------------------------
(* A stage of ordered workers *)

\* The numbers of the frames that a worker holds, in the order it got them: those
\* it is done with, then those it has yet to run.
Numbers(done, todo) ==
  [i \in 1 .. Len(done) + Len(todo) |->
     IF i <= Len(done) THEN done[i].frame.n ELSE todo[i - Len(done)].n]

AllNumbers(slots, N) ==
  [w \in 0 .. N - 1 |-> Numbers(slots[w].results, slots[w].tasks)]

\* How many turns after the worker c it is the turn of w.
Turns(w, c, N) == IF w >= c THEN w - c ELSE w - c + N

\* Tasks are handed out in turn: the workers from c to the one before l hold one
\* more than the others.
Balanced(q, l, c, N) ==
  \E m \in Nat : \A w \in 0 .. N - 1 :
    Len(q[w]) = m + (IF Turns(w, c, N) < Turns(l, c, N) THEN 1 ELSE 0)

\* The i-th of a worker d turns away is collected before the j-th of one e away.
Sooner(i, d, j, e) == i < j \/ (i = j /\ d < e)

InTurn(q, c, N) ==
  \A v, w \in 0 .. N - 1 : \A i \in 1 .. Len(q[v]), j \in 1 .. Len(q[w]) :
    Sooner(i, Turns(v, c, N), j, Turns(w, c, N)) => q[v][i] < q[w][j]

Between(q, N, lo, hi) ==
  \A w \in 0 .. N - 1 : \A i \in 1 .. Len(q[w]) : lo < q[w][i] /\ q[w][i] <= hi

\* Frames are collected in the order in which they were handed out, all of them
\* are later than lo and none is later than hi.
StageInv(q, l, c, N, lo, hi) ==
  /\ q \in [0 .. N - 1 -> Seq(Nat)]
  /\ l \in 0 .. N - 1 /\ c \in 0 .. N - 1
  /\ Balanced(q, l, c, N)
  /\ InTurn(q, c, N)
  /\ Between(q, N, lo, hi)

NothingHeld(q, N) == \A w \in 0 .. N - 1 : q[w] = <<>>

-----------------------------------------------------------------------------
(* The invariant *)

FrameRecords == [n : Nat, gen : Nat, align : BOOLEAN]
Framed(results) == \A r \in results : r.frame \in FrameRecords
Slots(results) == [tasks : Seq(FrameRecords), results : Seq(results), pending : Int]
Demodulated == [frame : FrameRecords, dropped : BOOLEAN, llr : BOOLEAN]
Decoded == [frame : FrameRecords, dropped : BOOLEAN]

\* pending counts what a worker holds, never more than its rings have room for.
Counted(slots, N) ==
  \A w \in 0 .. N - 1 :
    /\ slots[w].pending = Len(slots[w].results) + Len(slots[w].tasks)
    /\ slots[w].pending <= Depth

DemodOK ==
  /\ demod \in [0 .. Demodulators - 1 -> Slots(Demodulated)]
  /\ demodNext \in 0 .. Demodulators - 1 /\ demodTurn \in 0 .. Demodulators - 1
  /\ Counted(demod, Demodulators)

DecodeOK ==
  /\ decode \in [0 .. Decoders - 1 -> Slots(Decoded)]
  /\ decodeNext \in 0 .. Decoders - 1 /\ decodeTurn \in 0 .. Decoders - 1
  /\ Counted(decode, Decoders)

SyncOK ==
  sync \in [state : {"SYNC_SEARCH", "ALIGNMENT", "NORMAL"}, gen : Nat, clear : BOOLEAN]
RxOK ==
  /\ rx \in [hand : Seq(FrameRecords), aligning : BOOLEAN, queue : Seq(FrameRecords)]
  /\ Len(rx.hand) <= 1
ProcOK ==
  proc \in [pc : {"collect", "clear", "search", "launch", "launched", "frame", "llr",
                  "exit", "join", "done"},
            then : {"clear", "launched", "frame", "join"}, deferred : BOOLEAN]
Sensed == [n : Nat, gen : Nat, force : BOOLEAN]
SensingOK == sensing \in Seq(Sensed)
LlrsOK == llrs \in Seq(FrameRecords)
BitOK ==
  bit \in [pc : {"collect", "launch", "launched", "take", "exit", "join", "done"},
           then : {"launch", "launched", "join"}]
StopOK == stop \in {"no", "engine", "sensing", "bit", "done"}
SeenOK == seen \in [decoded : Nat, unmeasured : Nat, gen : Nat]
BudgetOK == budget \in [frame : Nat, troubles : Nat]

UeTypeOK ==
  /\ SyncOK /\ RxOK /\ ProcOK /\ DemodOK /\ SensingOK /\ LlrsOK /\ BitOK /\ DecodeOK
  /\ StopOK /\ SeenOK /\ BudgetOK

\* A control thread that goes on to hand out a task has found room for it, and one
\* that is at work on a result has it before it.
ProcRoom ==
  /\ (\/ proc.pc = "frame"
      \/ proc.pc \in {"collect", "llr"} /\ proc.then = "frame") => ~D!Full
  /\ proc.pc = "llr" => D!Ready
BitRoom == bit.pc = "take" => ~L!Full

\* The last frame that has left each part: everything in the part before it is
\* later, everything in the parts after it is not.
Cuts == [queue : Nat, demod : Nat, llrs : Nat, decode : Nat]

Increasing(s) == \A i, j \in 1 .. Len(s) : i < j => s[i].n < s[j].n
From(s, lo, hi) == \A i \in 1 .. Len(s) : lo < s[i].n /\ s[i].n <= hi

DemodInv(k) ==
  LET q == AllNumbers(demod, Demodulators)
  IN IF proc.pc = "done" THEN NothingHeld(q, Demodulators)
     ELSE StageInv(q, demodNext, demodTurn, Demodulators, k.llrs, k.demod)

DecodeInv(k) ==
  LET q == AllNumbers(decode, Decoders)
  IN IF bit.pc = "done" THEN NothingHeld(q, Decoders)
     ELSE StageInv(q, decodeNext, decodeTurn, Decoders, seen.decoded, k.decode)

CutsInv(k) ==
  /\ seen.decoded <= k.decode /\ k.decode <= k.llrs /\ k.llrs <= k.demod
  /\ k.demod <= k.queue /\ k.queue < budget.frame
HandInv(k) == From(rx.hand, k.queue, budget.frame - 1)
QueueInv(k) == From(rx.queue, k.demod, k.queue) /\ Increasing(rx.queue)
LlrsInv(k) == From(llrs, k.decode, k.llrs) /\ Increasing(llrs)

\* An alignment to be measured is not later than the frames collected, the one
\* in hand included.
OwedInv(k) ==
  seen.unmeasured <= k.llrs \/ (proc.pc = "llr" /\ seen.unmeasured = D!Result.frame.n)

\* An alignment is not forgotten in its own generation, and is not of a later one.
MeasurementInv == MeasurementIsOwed /\ seen.gen <= sync.gen

OrderInv(k) ==
  /\ CutsInv(k) /\ HandInv(k) /\ QueueInv(k) /\ DemodInv(k) /\ LlrsInv(k) /\ DecodeInv(k)
  /\ OwedInv(k)

UeInv ==
  /\ UeTypeOK /\ ProcRoom /\ BitRoom /\ MeasurementInv
  /\ \E k \in Cuts : OrderInv(k)

-----------------------------------------------------------------------------
(* What handing out, collecting and emptying do to a stage *)

LEMMA FollowingIs ==
  ASSUME NEW N \in Nat \ {0}, NEW i \in 0 .. N - 1
  PROVE  /\ (i + 1) % N = IF i + 1 = N THEN 0 ELSE i + 1
         /\ (i + 1) % N \in 0 .. N - 1
<1>1. CASE i + 1 = N
  BY <1>1
<1>2. CASE i + 1 < N
  <2>1. i + 1 \in 0 .. N - 1
    BY <1>2
  <2>2. (i + 1) % N = i + 1
    BY <2>1
  <2> QED BY <1>2, <2>1, <2>2
<1> QED BY <1>1, <1>2

\* The turns that are left, one turn on.
LEMMA TurnsGoDown ==
  ASSUME NEW N \in Nat \ {0}, NEW c \in 0 .. N - 1, NEW w \in 0 .. N - 1
  PROVE  /\ Turns(w, c, N) \in 0 .. N - 1
         /\ Turns(w, c, N) = 0 <=> w = c
         /\ Turns(w, (c + 1) % N, N) = IF w = c THEN N - 1 ELSE Turns(w, c, N) - 1
         /\ Turns((w + 1) % N, c, N) =
              IF Turns(w, c, N) + 1 = N THEN 0 ELSE Turns(w, c, N) + 1
<1>1. (c + 1) % N = IF c + 1 = N THEN 0 ELSE c + 1
  BY FollowingIs
<1>2. (w + 1) % N = IF w + 1 = N THEN 0 ELSE w + 1
  BY FollowingIs
<1> QED BY <1>1, <1>2 DEF Turns

LEMMA TurnsAreBounded ==
  ASSUME NEW N \in Nat \ {0}, NEW c \in 0 .. N - 1, NEW w \in 0 .. N - 1
  PROVE  Turns(w, c, N) \in 0 .. N - 1
BY DEF Turns

\* Two workers have different turns.
LEMMA TurnsDiffer ==
  ASSUME NEW N \in Nat \ {0}, NEW c \in 0 .. N - 1, NEW v \in 0 .. N - 1,
         NEW w \in 0 .. N - 1, v # w
  PROVE  Turns(v, c, N) # Turns(w, c, N)
BY DEF Turns

LEMMA LastButOne ==
  ASSUME NEW N \in Nat \ {0}, NEW a \in 0 .. N - 1, a # 0
  PROVE  a > 0 /\ a - 1 < N - 1
OBVIOUS

\* A later frame is handed out to the worker whose turn it is.
LEMMA StageGiven ==
  ASSUME NEW N \in Nat \ {0}, NEW q, NEW l, NEW c, NEW lo \in Nat, NEW hi \in Nat,
         StageInv(q, l, c, N, lo, hi), NEW x \in Nat, hi < x, lo < x,
         NEW p, p \in [0 .. N - 1 -> Seq(Nat)], p[l] = Append(q[l], x),
         \A w \in 0 .. N - 1 : w # l => p[w] = q[w]
  PROVE  StageInv(p, (l + 1) % N, c, N, lo, x)
<1> DEFINE T(w) == Turns(w, c, N)
           e == T(l)
<1>a. /\ q \in [0 .. N - 1 -> Seq(Nat)]
      /\ l \in 0 .. N - 1 /\ c \in 0 .. N - 1
  BY DEF StageInv
<1>b. ASSUME NEW w \in 0 .. N - 1
      PROVE  /\ q[w] \in Seq(Nat) /\ Len(q[w]) \in Nat
             /\ p[w] \in Seq(Nat) /\ Len(p[w]) \in Nat
             /\ \A i \in 1 .. Len(q[w]) : q[w][i] \in Nat
  <2>1. q[w] \in Seq(Nat) /\ p[w] \in Seq(Nat)
    BY <1>a
  <2> QED BY <2>1
<1>0. /\ q \in [0 .. N - 1 -> Seq(Nat)]
      /\ l \in 0 .. N - 1 /\ c \in 0 .. N - 1
      /\ \A w \in 0 .. N - 1 : q[w] \in Seq(Nat) /\ Len(q[w]) \in Nat
      /\ \A w \in 0 .. N - 1 : p[w] \in Seq(Nat) /\ Len(p[w]) \in Nat
      /\ \A w \in 0 .. N - 1 : \A i \in 1 .. Len(q[w]) : q[w][i] \in Nat
  BY <1>a, <1>b
<1>1. (l + 1) % N \in 0 .. N - 1
  BY <1>0, FollowingIs
<1>2. ASSUME NEW w \in 0 .. N - 1
      PROVE  T(w) \in 0 .. N - 1 /\ (w # l => T(w) # e)
  <2>1. T(w) \in 0 .. N - 1
    BY <1>0, TurnsAreBounded
  <2>2. w # l => T(w) # e
    BY <1>0, TurnsDiffer
  <2> QED BY <2>1, <2>2
<1>3. Turns((l + 1) % N, c, N) = IF e + 1 = N THEN 0 ELSE e + 1
  BY <1>0, TurnsGoDown
<1>4. PICK m \in Nat : \A w \in 0 .. N - 1 : Len(q[w]) = m + (IF T(w) < e THEN 1 ELSE 0)
  BY DEF StageInv, Balanced
<1> HIDE DEF T, e
<1>5. Len(q[l]) = m
  BY <1>0, <1>2, <1>4 DEF e
<1>6. \A w \in 0 .. N - 1 : Len(p[w]) = IF w = l THEN m + 1 ELSE Len(q[w])
  <2>1. q[l] \in Seq(Nat)
    BY <1>0
  <2>2. Len(p[l]) = m + 1
    BY <1>5, <2>1
  <2> QED BY <2>2
<1>7. /\ Len(p[l]) = m + 1 /\ p[l][m + 1] = x
      /\ \A i \in 1 .. m : p[l][i] = q[l][i]
  <2>1. q[l] \in Seq(Nat) /\ Len(q[l]) = m
    BY <1>0, <1>5
  <2> QED BY <2>1
<1>8. Balanced(p, (l + 1) % N, c, N)
  <2>1. CASE e + 1 = N
    <3>0. \A w \in 0 .. N - 1 : Len(p[w]) = m + 1 /\ ~(T(w) < 0)
      <4> SUFFICES ASSUME NEW w \in 0 .. N - 1 PROVE Len(p[w]) = m + 1 /\ ~(T(w) < 0)
        OBVIOUS
      <4>0. T(w) \in 0 .. N - 1 /\ e \in 0 .. N - 1
        BY <1>0, <1>2 DEF e
      <4>1. CASE w = l
        <5>1. Len(p[w]) = m + 1
          BY <4>1, <1>6
        <5>2. ~(T(w) < 0)
          BY <4>0
        <5> QED BY <5>1, <5>2
      <4>2. CASE w # l
        <5>1. T(w) < e
          <6>1. T(w) # e
            BY <4>2, <1>2
          <6> QED BY <4>0, <6>1, <2>1
        <5>2. Len(q[w]) = m + 1
          BY <5>1, <1>4
        <5> QED BY <4>0, <4>2, <5>2, <1>6
      <4> QED BY <4>1, <4>2
    <3>1. \A w \in 0 .. N - 1 : Len(p[w]) = (m + 1) + (IF T(w) < 0 THEN 1 ELSE 0)
      BY <3>0
    <3>2. Turns((l + 1) % N, c, N) = 0 /\ m + 1 \in Nat
      BY <2>1, <1>3
    <3> QED BY <3>1, <3>2 DEF Balanced, T
  <2>2. CASE e + 1 # N
    <3>1. \A w \in 0 .. N - 1 : Len(p[w]) = m + (IF T(w) < e + 1 THEN 1 ELSE 0)
      <4> SUFFICES ASSUME NEW w \in 0 .. N - 1
                   PROVE Len(p[w]) = m + (IF T(w) < e + 1 THEN 1 ELSE 0)
        OBVIOUS
      <4>0. e \in 0 .. N - 1
        BY <1>0, <1>2 DEF e
      <4>1. CASE w = l
        <5>1. T(w) = e
          BY <4>1 DEF e
        <5> QED BY <4>1, <5>1, <1>6, <4>0
      <4>2. CASE w # l
        <5>1. T(w) \in Int /\ T(w) # e
          BY <4>2, <1>2
        <5>2. T(w) < e <=> T(w) < e + 1
          BY <5>1, <4>0
        <5> QED BY <4>2, <5>2, <1>4, <1>6
      <4> QED BY <4>1, <4>2
    <3>2. Turns((l + 1) % N, c, N) = e + 1
      BY <2>2, <1>3
    <3> QED BY <3>1, <3>2 DEF Balanced, T
  <2> QED BY <2>1, <2>2
<1>9. \A w \in 0 .. N - 1 : Len(p[w]) <= m + 1 /\ (w # l /\ Len(p[w]) = m + 1 => T(w) < e)
  <2> TAKE w \in 0 .. N - 1
  <2>1. CASE w = l
    BY <2>1, <1>6
  <2>2. CASE w # l
    <3>1. Len(p[w]) = m + (IF T(w) < e THEN 1 ELSE 0)
      BY <2>2, <1>4, <1>6
    <3> QED BY <3>1
  <2> QED BY <2>1, <2>2
<1>10. \A w \in 0 .. N - 1 : \A i \in 1 .. Len(p[w]) :
         \/ w = l /\ i = m + 1 /\ p[w][i] = x
         \/ ~(w = l /\ i = m + 1) /\ i \in 1 .. Len(q[w]) /\ p[w][i] = q[w][i]
  <2> TAKE w \in 0 .. N - 1
  <2> TAKE i \in 1 .. Len(p[w])
  <2>1. CASE w = l
    <3>1. i \in 1 .. m + 1
      BY <2>1, <1>7
    <3>2. CASE i = m + 1
      BY <2>1, <3>2, <1>7
    <3>3. CASE i # m + 1
      <4>1. i \in 1 .. m
        BY <3>1, <3>3
      <4> QED BY <2>1, <3>3, <4>1, <1>5, <1>7
    <3> QED BY <3>2, <3>3
  <2>2. CASE w # l
    BY <2>2, <1>6
  <2> QED BY <2>1, <2>2
<1>11. InTurn(p, c, N)
  <2> SUFFICES ASSUME NEW v \in 0 .. N - 1, NEW w \in 0 .. N - 1,
                      NEW i \in 1 .. Len(p[v]), NEW j \in 1 .. Len(p[w]),
                      Sooner(i, T(v), j, T(w))
               PROVE  p[v][i] < p[w][j]
    BY DEF InTurn, T
  <2>1. CASE v = l /\ i = m + 1
    <3>1. Len(p[v]) \in Nat /\ Len(p[w]) \in Nat
      BY <1>0, <1>6
    <3>2. j = m + 1 /\ T(v) < T(w)
      BY <2>1, <3>1, <1>9 DEF Sooner
    <3>3. w # l
      BY <2>1, <3>2, <1>2
    <3>4. Len(p[w]) = m + 1
      BY <3>1, <3>2, <1>9
    <3>5. T(w) < T(v)
      BY <2>1, <3>3, <3>4, <1>9 DEF e
    <3>6. T(v) \in Int /\ T(w) \in Int
      BY <1>2
    <3> QED BY <2>1, <3>2, <3>5, <3>6
  <2>2. CASE ~(v = l /\ i = m + 1)
    <3>1. i \in 1 .. Len(q[v]) /\ p[v][i] = q[v][i]
      BY <2>2, <1>10
    <3>2. CASE w = l /\ j = m + 1
      <4>1. q[v][i] <= hi
        BY <3>1 DEF StageInv, Between
      <4>2. q[v][i] \in Nat
        BY <3>1, <1>0
      <4>3. p[w][j] = x
        BY <3>2, <1>7
      <4>4. p[v][i] = q[v][i]
        BY <3>1
      <4>5. ASSUME NEW y \in Nat, y <= hi PROVE y < x
        BY <4>5
      <4>6. q[v][i] < x
        BY <4>1, <4>2, <4>5
      <4> QED BY <4>3, <4>4, <4>6
    <3>3. CASE ~(w = l /\ j = m + 1)
      <4>1. j \in 1 .. Len(q[w]) /\ p[w][j] = q[w][j]
        BY <3>3, <1>10
      <4> QED BY <3>1, <4>1 DEF StageInv, InTurn, T
    <3> QED BY <3>2, <3>3
  <2> QED BY <2>1, <2>2
<1>12. Between(p, N, lo, x)
  <2> SUFFICES ASSUME NEW w \in 0 .. N - 1, NEW i \in 1 .. Len(p[w])
               PROVE  lo < p[w][i] /\ p[w][i] <= x
    BY DEF Between
  <2>1. CASE w = l /\ i = m + 1
    BY <2>1, <1>7
  <2>2. CASE ~(w = l /\ i = m + 1)
    <3>1. i \in 1 .. Len(q[w]) /\ p[w][i] = q[w][i]
      BY <2>2, <1>10
    <3>2. lo < q[w][i] /\ q[w][i] <= hi
      BY <3>1 DEF StageInv, Between
    <3>3. q[w][i] \in Nat
      BY <3>1, <1>0
    <3>4. \A y \in Nat : y <= hi => y <= x
      OBVIOUS
    <3> QED BY <3>1, <3>2, <3>3, <3>4
  <2> QED BY <2>1, <2>2
<1> QED BY <1>0, <1>1, <1>8, <1>11, <1>12 DEF StageInv

\* The frame whose turn it is, which is the earliest, is collected.
LEMMA StageCollected ==
  ASSUME NEW N \in Nat \ {0}, NEW q, NEW l, NEW c, NEW lo \in Nat, NEW hi \in Nat,
         StageInv(q, l, c, N, lo, hi), q[c] # <<>>,
         NEW p, p \in [0 .. N - 1 -> Seq(Nat)], p[c] = Tail(q[c]),
         \A w \in 0 .. N - 1 : w # c => p[w] = q[w]
  PROVE  /\ q[c][1] \in Nat /\ lo < q[c][1] /\ q[c][1] <= hi
         /\ StageInv(p, l, (c + 1) % N, N, q[c][1], hi)
<1> DEFINE T(w) == Turns(w, c, N)
           U(w) == Turns(w, (c + 1) % N, N)
           e == T(l)
<1>a. /\ q \in [0 .. N - 1 -> Seq(Nat)]
      /\ l \in 0 .. N - 1 /\ c \in 0 .. N - 1
  BY DEF StageInv
<1>b. ASSUME NEW w \in 0 .. N - 1
      PROVE  /\ q[w] \in Seq(Nat) /\ Len(q[w]) \in Nat
             /\ p[w] \in Seq(Nat) /\ Len(p[w]) \in Nat
             /\ \A i \in 1 .. Len(q[w]) : q[w][i] \in Nat
  <2>1. q[w] \in Seq(Nat) /\ p[w] \in Seq(Nat)
    BY <1>a
  <2> QED BY <2>1
<1>0. /\ q \in [0 .. N - 1 -> Seq(Nat)]
      /\ l \in 0 .. N - 1 /\ c \in 0 .. N - 1
      /\ \A w \in 0 .. N - 1 : q[w] \in Seq(Nat) /\ Len(q[w]) \in Nat
      /\ \A w \in 0 .. N - 1 : p[w] \in Seq(Nat) /\ Len(p[w]) \in Nat
      /\ \A w \in 0 .. N - 1 : \A i \in 1 .. Len(q[w]) : q[w][i] \in Nat
  BY <1>a, <1>b
<1>1. (c + 1) % N \in 0 .. N - 1
  BY <1>0, FollowingIs
<1>2. \A w \in 0 .. N - 1 :
        /\ T(w) \in 0 .. N - 1 /\ (T(w) = 0 <=> w = c)
        /\ U(w) = IF w = c THEN N - 1 ELSE T(w) - 1
  <2> TAKE w \in 0 .. N - 1
  <2>1. T(w) \in 0 .. N - 1 /\ (T(w) = 0 <=> w = c)
    BY <1>0 DEF Turns
  <2>2. U(w) = IF w = c THEN N - 1 ELSE T(w) - 1
    <3>1. c \in 0 .. N - 1
      BY <1>a
    <3> QED BY <3>1, TurnsGoDown
  <2> QED BY <2>1, <2>2
<1>3. PICK m \in Nat : \A w \in 0 .. N - 1 : Len(q[w]) = m + (IF T(w) < e THEN 1 ELSE 0)
  BY DEF StageInv, Balanced
<1> HIDE DEF T, U, e
<1>4. Len(q[c]) > 0 /\ 1 \in 1 .. Len(q[c]) /\ q[c][1] \in Nat
  <2>1. q[c] \in Seq(Nat) /\ q[c] # <<>>
    BY <1>0
  <2> QED BY <2>1
<1>5. lo < q[c][1] /\ q[c][1] <= hi
  BY <1>4, <1>0 DEF StageInv, Between
<1>6. \A w \in 0 .. N - 1 : Len(p[w]) = IF w = c THEN Len(q[c]) - 1 ELSE Len(q[w])
  <2>1. q[c] \in Seq(Nat) /\ q[c] # <<>>
    BY <1>0
  <2>2. Len(p[c]) = Len(q[c]) - 1
    BY <2>1
  <2> QED BY <2>2
<1>7. \A w \in 0 .. N - 1 : \A i \in 1 .. Len(p[w]) :
        IF w = c THEN i + 1 \in 1 .. Len(q[c]) /\ p[w][i] = q[c][i + 1]
        ELSE i \in 1 .. Len(q[w]) /\ p[w][i] = q[w][i]
  <2> TAKE w \in 0 .. N - 1
  <2> TAKE i \in 1 .. Len(p[w])
  <2>1. CASE w = c
    <3>1. i + 1 \in 1 .. Len(q[c])
      BY <2>1, <1>4, <1>6, <1>0
    <3>2. Tail(q[c])[i] = q[c][i + 1]
      BY <3>1, <2>1, <1>0, <1>4, <1>6
    <3> QED BY <2>1, <3>1, <3>2
  <2>2. CASE w # c
    BY <2>2, <1>6
  <2> QED BY <2>1, <2>2
<1>8. Balanced(p, l, (c + 1) % N, N)
  <2>0. e \in 0 .. N - 1 /\ (e = 0 <=> l = c)
    BY <1>0, <1>2 DEF e
  <2>1. CASE l = c
    <3>1. e = 0 /\ U(l) = N - 1
      BY <2>0, <2>1, <1>0, <1>2
    <3>2. \A w \in 0 .. N - 1 : Len(q[w]) = m
      <4> TAKE w \in 0 .. N - 1
      <4>1. T(w) \in 0 .. N - 1
        BY <1>2
      <4>2. ~(T(w) < e)
        BY <4>1, <3>1
      <4> QED BY <4>2, <1>3
    <3>3. m - 1 \in Nat
      BY <3>2, <1>0, <1>4
    <3>4. \A w \in 0 .. N - 1 :
            Len(p[w]) = (m - 1) + (IF U(w) < U(l) THEN 1 ELSE 0)
      <4> SUFFICES ASSUME NEW w \in 0 .. N - 1
                   PROVE  Len(p[w]) = (m - 1) + (IF U(w) < U(l) THEN 1 ELSE 0)
        OBVIOUS
      <4>1. CASE w = c
        <5>1. ~(U(w) < U(l)) 
          BY <4>1, <3>1, <1>2
        <5> QED BY <4>1, <5>1, <3>2, <3>3, <1>6
      <4>2. CASE w # c
        <5>1. U(w) < U(l)
          BY <4>2, <3>1, <1>2
        <5>2. Len(p[w]) = m
          BY <4>2, <3>2, <1>6
        <5> QED BY <5>1, <5>2, <3>3
      <4> QED BY <4>1, <4>2
    <3> QED BY <3>3, <3>4 DEF Balanced, U
  <2>2. CASE l # c
    <3>1. e > 0 /\ U(l) = e - 1
      BY <2>0, <2>2, <1>0, <1>2 DEF e
    <3>2. \A w \in 0 .. N - 1 : Len(p[w]) = m + (IF U(w) < U(l) THEN 1 ELSE 0)
      <4> SUFFICES ASSUME NEW w \in 0 .. N - 1
                   PROVE  Len(p[w]) = m + (IF U(w) < U(l) THEN 1 ELSE 0)
        OBVIOUS
      <4>1. CASE w = c
        <5>1. T(w) < e
          BY <4>1, <3>1, <1>2
        <5>2. Len(q[c]) = m + 1
          BY <4>1, <5>1, <1>3
        <5>3. ~(U(w) < U(l))
          BY <4>1, <3>1, <2>0, <1>2
        <5> QED BY <4>1, <5>2, <5>3, <1>6
      <4>2. CASE w # c
        <5>1. U(w) < U(l) <=> T(w) < e
          <6>1. U(w) = T(w) - 1 /\ T(w) \in 0 .. N - 1
            BY <4>2, <1>2
          <6> QED BY <6>1, <3>1, <2>0
        <5> QED BY <4>2, <5>1, <1>3, <1>6
      <4> QED BY <4>1, <4>2
    <3> QED BY <3>2 DEF Balanced, U
  <2> QED BY <2>1, <2>2
<1>9. InTurn(p, (c + 1) % N, N)
  <2> SUFFICES ASSUME NEW v \in 0 .. N - 1, NEW w \in 0 .. N - 1,
                      NEW i \in 1 .. Len(p[v]), NEW j \in 1 .. Len(p[w]),
                      Sooner(i, U(v), j, U(w))
               PROVE  p[v][i] < p[w][j]
    BY DEF InTurn, U
  <2> DEFINE I == IF v = c THEN i + 1 ELSE i
             J == IF w = c THEN j + 1 ELSE j
  <2>1. I \in 1 .. Len(q[v]) /\ p[v][i] = q[v][I]
    BY <1>7
  <2>2. J \in 1 .. Len(q[w]) /\ p[w][j] = q[w][J]
    BY <1>7
  <2>3. Sooner(I, T(v), J, T(w))
    <3>1. i \in Int /\ j \in Int
      BY <1>0
    <3>2. /\ T(v) \in 0 .. N - 1 /\ (T(v) = 0 <=> v = c)
          /\ T(w) \in 0 .. N - 1 /\ (T(w) = 0 <=> w = c)
          /\ U(v) = IF v = c THEN N - 1 ELSE T(v) - 1
          /\ U(w) = IF w = c THEN N - 1 ELSE T(w) - 1
      BY <1>2
    <3>3. i < j \/ (i = j /\ U(v) < U(w))
      BY DEF Sooner
    <3>4. I < J \/ (I = J /\ T(v) < T(w))
      <4>1. CASE v = c /\ w = c
        BY <4>1, <3>1, <3>2, <3>3
      <4>2. CASE v = c /\ w # c
        <5>1. T(v) = 0 /\ T(w) > 0 /\ U(v) = N - 1 /\ U(w) < N - 1
          <6>1. T(v) = 0 /\ U(v) = N - 1 /\ T(w) # 0 /\ U(w) = T(w) - 1
            BY <4>2, <3>2
          <6>2. T(w) \in 0 .. N - 1
            BY <3>2
          <6> QED BY <6>1, <6>2, LastButOne
        <5>2. U(v) \in Int /\ U(w) \in Int
          BY <4>2, <3>2
        <5>3. i < j
          BY <5>1, <5>2, <3>1, <3>3
        <5>4. I = i + 1 /\ J = j
          BY <4>2
        <5> QED BY <5>1, <5>3, <5>4, <3>1
      <4>3. CASE v # c /\ w = c
        BY <4>3, <3>1, <3>2, <3>3
      <4>4. CASE v # c /\ w # c
        BY <4>4, <3>1, <3>2, <3>3
      <4> QED BY <4>1, <4>2, <4>3, <4>4
    <3> QED BY <3>4 DEF Sooner
  <2> HIDE DEF I, J
  <2> QED BY <2>1, <2>2, <2>3 DEF StageInv, InTurn, T
<1>10. Between(p, N, q[c][1], hi)
  <2> SUFFICES ASSUME NEW w \in 0 .. N - 1, NEW i \in 1 .. Len(p[w])
               PROVE  q[c][1] < p[w][i] /\ p[w][i] <= hi
    BY DEF Between
  <2> DEFINE I == IF w = c THEN i + 1 ELSE i
  <2>1. I \in 1 .. Len(q[w]) /\ p[w][i] = q[w][I]
    BY <1>7
  <2>2. Sooner(1, T(c), I, T(w))
    <3>1. i \in Int /\ i >= 1
      BY <1>0
    <3>2. T(c) = 0 /\ T(w) \in 0 .. N - 1 /\ (T(w) = 0 <=> w = c)
      BY <1>0, <1>2
    <3>3. CASE w = c
      <4>1. 1 < I
        BY <3>1, <3>3
      <4> QED BY <4>1 DEF Sooner
    <3>4. CASE w # c
      <4>1. I >= 1 /\ I \in Int
        BY <3>1, <3>4
      <4>2. T(w) > 0
        BY <3>2, <3>4
      <4> HIDE DEF I
      <4>3. 1 < I \/ (1 = I /\ T(c) < T(w))
        BY <4>1, <4>2, <3>2
      <4> QED BY <4>3 DEF Sooner
    <3> QED BY <3>3, <3>4
  <2> HIDE DEF I
  <2>3. q[c][1] < q[w][I]
    BY <2>1, <2>2, <1>0, <1>4 DEF StageInv, InTurn, T
  <2>4. q[w][I] <= hi
    BY <2>1 DEF StageInv, Between
  <2> QED BY <2>1, <2>3, <2>4
<1> QED BY <1>0, <1>1, <1>4, <1>5, <1>8, <1>9, <1>10 DEF StageInv

\* The bounds may be moved apart.
LEMMA StageWidened ==
  ASSUME NEW N \in Nat \ {0}, NEW q, NEW l, NEW c, NEW lo \in Nat, NEW hi \in Nat,
         StageInv(q, l, c, N, lo, hi), NEW lo2 \in Nat, NEW hi2 \in Nat,
         lo2 <= lo, hi <= hi2
  PROVE  StageInv(q, l, c, N, lo2, hi2)
<1>1. \A w \in 0 .. N - 1 : \A i \in 1 .. Len(q[w]) : q[w][i] \in Nat
  <2> TAKE w \in 0 .. N - 1
  <2>1. q[w] \in Seq(Nat)
    BY DEF StageInv
  <2> QED BY <2>1
<1>2. Between(q, N, lo2, hi2)
  <2>1. \A w \in 0 .. N - 1 : \A i \in 1 .. Len(q[w]) : lo < q[w][i] /\ q[w][i] <= hi
    BY DEF StageInv, Between
  <2>2. \A y \in Nat : lo < y /\ y <= hi => lo2 < y /\ y <= hi2
    OBVIOUS
  <2>3. \A w \in 0 .. N - 1 : \A i \in 1 .. Len(q[w]) : lo2 < q[w][i] /\ q[w][i] <= hi2
    BY <1>1, <2>1, <2>2
  <2> QED BY <2>3 DEF Between
<1> QED BY <1>2 DEF StageInv

-----------------------------------------------------------------------------
(* The rings of the workers *)

\* The sizes are numbers, and there is a worker in each stage.
LEMMA Sizes ==
  /\ Demodulators \in Nat \ {0} /\ Decoders \in Nat \ {0} /\ Depth \in Nat \ {0}
  /\ FrameCap \in Nat \ {0} /\ SensingCap \in Nat \ {0} /\ LlrCap \in Nat \ {0}
  /\ Frames \in Nat /\ Troubles \in Nat /\ Payloads \subseteq BOOLEAN
BY UeReceiveAssumption

LEMMA LenIsNat ==
  ASSUME NEW R, NEW u \in Seq(R)
  PROVE  Len(u) \in Nat
OBVIOUS

LEMMA SameSequence ==
  ASSUME NEW u \in Seq(Nat), NEW v \in Seq(Nat), Len(u) = Len(v),
         \A i \in 1 .. Len(u) : u[i] = v[i]
  PROVE  u = v
OBVIOUS

LEMMA NumbersAre ==
  ASSUME NEW R, Framed(R), NEW done \in Seq(R), NEW todo \in Seq(FrameRecords)
  PROVE  /\ Numbers(done, todo) \in Seq(Nat)
         /\ Len(Numbers(done, todo)) = Len(done) + Len(todo)
         /\ \A i \in 1 .. Len(done) + Len(todo) :
              Numbers(done, todo)[i] = IF i <= Len(done) THEN done[i].frame.n
                              ELSE todo[i - Len(done)].n
<1> DEFINE len == Len(done) + Len(todo)
<1>1. /\ done \in Seq(R) /\ todo \in Seq(FrameRecords)
      /\ Len(done) \in Nat /\ Len(todo) \in Nat /\ len \in Nat
  OBVIOUS
<1>2. \A i \in 1 .. len :
        (IF i <= Len(done) THEN done[i].frame.n
         ELSE todo[i - Len(done)].n) \in Nat
  <2> TAKE i \in 1 .. len
  <2>1. CASE i <= Len(done)
    <3>1. done[i] \in R
      BY <2>1, <1>1
    <3>2. done[i].frame.n \in Nat
      BY <3>1 DEF FrameRecords, Framed
    <3> QED BY <2>1, <3>2
  <2>2. CASE ~(i <= Len(done))
    <3>1. i - Len(done) \in 1 .. Len(todo)
      BY <2>2, <1>1
    <3>2. todo[i - Len(done)] \in FrameRecords
      BY <3>1, <1>1
    <3>3. todo[i - Len(done)].n \in Nat
      BY <3>2 DEF FrameRecords
    <3> QED BY <2>2, <3>3
  <2> QED BY <2>1, <2>2
<1>3. Numbers(done, todo) \in [1 .. len -> Nat]
  BY <1>2 DEF Numbers
<1>4. \A i \in 1 .. len :
        Numbers(done, todo)[i] = IF i <= Len(done) THEN done[i].frame.n
                        ELSE todo[i - Len(done)].n
  BY DEF Numbers
<1> HIDE DEF len
<1>5. Numbers(done, todo) \in Seq(Nat) /\ Len(Numbers(done, todo)) = len
  BY <1>1, <1>3
<1> QED BY <1>4, <1>5 DEF len

\* A task that is handed out comes last.
LEMMA NumbersGiven ==
  ASSUME NEW R, Framed(R), NEW done \in Seq(R), NEW todo \in Seq(FrameRecords),
         NEW x \in FrameRecords
  PROVE  Numbers(done, Append(todo, x)) = Append(Numbers(done, todo), x.n)
<1> DEFINE done2 == done
           todo2 == Append(todo, x)
<1>0. /\ done2 \in Seq(R) /\ todo2 \in Seq(FrameRecords)
      /\ done2 = done /\ Len(todo2) = Len(todo) + 1
      /\ \A i \in 1 .. Len(todo) : todo2[i] = todo[i]
      /\ todo2[Len(todo) + 1] = x
  OBVIOUS
<1>q. Numbers(done, Append(todo, x)) = Numbers(done2, todo2)
  OBVIOUS
<1> HIDE DEF done2, todo2
<1>1. /\ done \in Seq(R) /\ todo \in Seq(FrameRecords)
      /\ Len(done) \in Nat /\ Len(todo) \in Nat
      /\ Len(todo2) = Len(todo) + 1 /\ x.n \in Nat
  BY <1>0 DEF FrameRecords
<1>2. Numbers(done, todo) \in Seq(Nat) /\ Numbers(done2, todo2) \in Seq(Nat)
  BY <1>0, NumbersAre
<1>3. Len(Numbers(done, todo)) = Len(done) + Len(todo)
  BY <1>0, NumbersAre
<1>4. Len(Numbers(done2, todo2)) = Len(done) + Len(todo) + 1
  <2>1. Len(Numbers(done2, todo2)) = Len(done2) + Len(todo2)
    BY <1>0, NumbersAre
  <2> QED BY <2>1, <1>0, <1>1
<1> DEFINE n == Len(done) + Len(todo)
<1>5. \A i \in 1 .. n : Numbers(done2, todo2)[i] = Numbers(done, todo)[i]
  <2> TAKE i \in 1 .. n
  <2>1. /\ Numbers(done, todo)[i] = IF i <= Len(done) THEN done[i].frame.n
                           ELSE todo[i - Len(done)].n
    BY <1>0, NumbersAre
  <2>2. i \in 1 .. Len(done2) + Len(todo2)
    BY <1>0, <1>1
  <2>3. /\ Numbers(done2, todo2)[i] = IF i <= Len(done2) THEN done2[i].frame.n
                           ELSE todo2[i - Len(done2)].n
    BY <1>0, <2>2, NumbersAre
  <2>4. i > Len(done) => todo2[i - Len(done)] = todo[i - Len(done)]
    BY <1>0, <1>1
  <2> QED BY <2>1, <2>3, <2>4, <1>0, <1>1
<1>6. Numbers(done2, todo2)[n + 1] = x.n
  <2>1. n + 1 \in 1 .. Len(done2) + Len(todo2)
    BY <1>0, <1>1
  <2>2. /\ Numbers(done2, todo2)[n + 1] = IF n + 1 <= Len(done2) THEN done2[n + 1].frame.n
                               ELSE todo2[(n + 1) - Len(done2)].n
    BY <1>0, <2>1, NumbersAre
  <2>3. (n + 1) - Len(done2) = Len(todo) + 1 /\ ~(n + 1 <= Len(done2))
    BY <1>0, <1>1
  <2>4. todo2[Len(todo) + 1] = x
    BY <1>0, <1>1
  <2> QED BY <2>2, <2>3, <2>4
<1> HIDE DEF n
<1>7. n \in Nat /\ Len(Numbers(done, todo)) = n /\ Len(Numbers(done2, todo2)) = n + 1
  BY <1>1, <1>3, <1>4 DEF n
<1> QED BY <1>q, <1>1, <1>2, <1>5, <1>6, <1>7

\* A worker that is done with a task holds the same frames.
LEMMA NumbersDone ==
  ASSUME NEW R, Framed(R),
         NEW done \in Seq(R), NEW todo \in Seq(FrameRecords),
         NEW done2 \in Seq(R), NEW todo2 \in Seq(FrameRecords), NEW r \in R,
         todo # <<>>, r.frame = Head(todo),
         todo2 = Tail(todo), done2 = Append(done, r)
  PROVE  /\ Numbers(done2, todo2) = Numbers(done, todo)
         /\ Len(done2) + Len(todo2) = Len(done) + Len(todo)
<1>1. /\ done \in Seq(R) /\ todo \in Seq(FrameRecords)
      /\ Len(done) \in Nat /\ Len(todo) \in Nat /\ Len(todo) > 0
      /\ Len(todo2) = Len(todo) - 1 /\ Len(done2) = Len(done) + 1
  OBVIOUS
<1>2. Numbers(done, todo) \in Seq(Nat) /\ Numbers(done2, todo2) \in Seq(Nat)
  BY NumbersAre
<1>3. Len(Numbers(done, todo)) = Len(done) + Len(todo)
  BY NumbersAre
<1>4. Len(Numbers(done2, todo2)) = Len(done) + Len(todo)
  <2>1. Len(Numbers(done2, todo2)) = Len(done2) + Len(todo2)
    BY NumbersAre
  <2> QED BY <2>1, <1>1
<1> DEFINE n == Len(done) + Len(todo)
<1>5. \A i \in 1 .. n : Numbers(done2, todo2)[i] = Numbers(done, todo)[i]
  <2> TAKE i \in 1 .. n
  <2>1. /\ Numbers(done, todo)[i] = IF i <= Len(done) THEN done[i].frame.n
                           ELSE todo[i - Len(done)].n
    BY NumbersAre
  <2>2. i \in 1 .. Len(done2) + Len(todo2)
    BY <1>1
  <2>3. /\ Numbers(done2, todo2)[i] = IF i <= Len(done2) THEN done2[i].frame.n
                           ELSE todo2[i - Len(done2)].n
    BY <2>2, NumbersAre
  <2>4. CASE i <= Len(done)
    <3>1. done2[i] = done[i]
      BY <2>4, <1>1
    <3> QED BY <2>1, <2>3, <2>4, <3>1, <1>1
  <2>5. CASE i = Len(done) + 1
    <3>1. done2[i] = r /\ todo[1] = r.frame
      BY <2>5, <1>1
    <3>2. i - Len(done) = 1 /\ i <= Len(done2) /\ ~(i <= Len(done))
      BY <2>5, <1>1
    <3> QED BY <2>1, <2>3, <3>1, <3>2
  <2>6. CASE i > Len(done) + 1
    <3> DEFINE j == i - Len(done2)
    <3>1. j \in 1 .. Len(todo2) /\ i - Len(done) = j + 1
      BY <2>6, <1>1
    <3>2. todo2[j] = todo[j + 1]
      BY <3>1, <1>1
    <3>3. ~(i <= Len(done2)) /\ ~(i <= Len(done))
      BY <2>6, <1>1
    <3> QED BY <2>1, <2>3, <3>1, <3>2, <3>3
  <2> QED BY <2>4, <2>5, <2>6, <1>1
<1> HIDE DEF n
<1>6. n \in Nat /\ Len(Numbers(done, todo)) = n /\ Len(Numbers(done2, todo2)) = n
  BY <1>1, <1>3, <1>4 DEF n
<1>7. Numbers(done2, todo2) = Numbers(done, todo)
  BY <1>2, <1>5, <1>6
<1> QED BY <1>1, <1>7

\* The first result is of the first frame.
LEMMA NumbersTaken ==
  ASSUME NEW R, Framed(R),
         NEW done \in Seq(R), NEW todo \in Seq(FrameRecords),
         NEW done2 \in Seq(R), NEW todo2 \in Seq(FrameRecords), done # <<>>,
         todo2 = todo, done2 = Tail(done)
  PROVE  /\ Numbers(done, todo) # <<>> /\ Numbers(done2, todo2) = Tail(Numbers(done, todo))
         /\ Numbers(done, todo)[1] = Head(done).frame.n
<1>1. /\ done \in Seq(R) /\ todo \in Seq(FrameRecords)
      /\ Len(done) \in Nat /\ Len(todo) \in Nat /\ Len(done) > 0
      /\ Len(done2) = Len(done) - 1
  OBVIOUS
<1>2. Numbers(done, todo) \in Seq(Nat) /\ Numbers(done2, todo2) \in Seq(Nat)
  BY NumbersAre
<1> DEFINE n == Len(done) + Len(todo)
<1>3. Len(Numbers(done, todo)) = n /\ n \in Nat /\ n > 0
  BY NumbersAre, <1>1
<1>4. Len(Numbers(done2, todo2)) = n - 1
  <2>1. Len(Numbers(done2, todo2)) = Len(done2) + Len(todo2)
    BY NumbersAre
  <2> QED BY <2>1, <1>1
<1>5. Numbers(done, todo)[1] = Head(done).frame.n
  <2>1. 1 \in 1 .. Len(done) + Len(todo) /\ 1 <= Len(done)
    BY <1>1
  <2>2. Numbers(done, todo)[1] = done[1].frame.n
    BY <2>1, NumbersAre
  <2> QED BY <2>2, <1>1
<1>6. \A i \in 1 .. n - 1 : Numbers(done2, todo2)[i] = Numbers(done, todo)[i + 1]
  <2> TAKE i \in 1 .. n - 1
  <2>0. i \in 1 .. Len(done2) + Len(todo2) /\ i + 1 \in 1 .. Len(done) + Len(todo)
    BY <1>1
  <2>1. /\ Numbers(done, todo)[i + 1] = IF i + 1 <= Len(done) THEN done[i + 1].frame.n
                               ELSE todo[(i + 1) - Len(done)].n
    BY <2>0, NumbersAre
  <2>2. /\ Numbers(done2, todo2)[i] = IF i <= Len(done2) THEN done2[i].frame.n
                           ELSE todo2[i - Len(done2)].n
    BY <2>0, NumbersAre
  <2>3. CASE i <= Len(done2)
    <3>1. done2[i] = done[i + 1] /\ i + 1 <= Len(done)
      BY <2>3, <1>1
    <3> QED BY <2>1, <2>2, <2>3, <3>1
  <2>4. CASE ~(i <= Len(done2))
    <3>1. (i + 1) - Len(done) = i - Len(done2) /\ ~(i + 1 <= Len(done))
      BY <2>4, <1>1
    <3> QED BY <2>1, <2>2, <2>4, <3>1
  <2> QED BY <2>3, <2>4
<1> HIDE DEF n
<1>7. Numbers(done, todo) # <<>>
  BY <1>3
<1>8. Tail(Numbers(done, todo)) \in Seq(Nat) /\ Len(Tail(Numbers(done, todo))) = n - 1
      /\ \A i \in 1 .. n - 1 : Tail(Numbers(done, todo))[i] = Numbers(done, todo)[i + 1]
  BY <1>2, <1>3, <1>7
<1>9. Numbers(done2, todo2) = Tail(Numbers(done, todo))
  <2>1. Tail(Numbers(done, todo)) \in Seq(Nat)
    BY <1>8
  <2>2. Len(Numbers(done2, todo2)) = Len(Tail(Numbers(done, todo)))
    BY <1>4, <1>8
  <2>3. \A i \in 1 .. Len(Numbers(done2, todo2)) :
          Numbers(done2, todo2)[i] = Tail(Numbers(done, todo))[i]
    BY <1>4, <1>6, <1>8
  <2> QED BY <1>2, <2>1, <2>2, <2>3, SameSequence
<1> QED BY <1>5, <1>7, <1>9

\* The numbers of all workers, and how many there are of each.
LEMMA AllNumbersAre ==
  ASSUME NEW R, Framed(R),
         NEW N \in Nat \ {0}, NEW s \in [0 .. N - 1 -> Slots(R)]
  PROVE  /\ AllNumbers(s, N) \in [0 .. N - 1 -> Seq(Nat)]
         /\ \A w \in 0 .. N - 1 :
              /\ AllNumbers(s, N)[w] = Numbers(s[w].results, s[w].tasks)
              /\ s[w].results \in Seq(R) /\ s[w].tasks \in Seq(FrameRecords)
              /\ s[w].pending \in Int
<1>1. ASSUME NEW w \in 0 .. N - 1
      PROVE  /\ s[w].results \in Seq(R) /\ s[w].tasks \in Seq(FrameRecords)
             /\ s[w].pending \in Int
             /\ Numbers(s[w].results, s[w].tasks) \in Seq(Nat)
  <2>1. s[w] \in Slots(R)
    OBVIOUS
  <2>2. s[w].results \in Seq(R) /\ s[w].tasks \in Seq(FrameRecords) /\ s[w].pending \in Int
    BY <2>1 DEF Slots
  <2> QED BY <2>2, NumbersAre
<1> QED BY <1>1 DEF AllNumbers

\* What Dispatch, Work and Pop make of the rings.
Given(s, t, l, x) == t = [s EXCEPT ![l].tasks = Append(@, x), ![l].pending = @ + 1]
Ran(s, t, w, r) == t = [s EXCEPT ![w].tasks = Tail(@), ![w].results = Append(@, r)]
Took(s, t, c) == t = [s EXCEPT ![c].results = Tail(@), ![c].pending = @ - 1]

\* A task is handed out: Dispatch.
LEMMA TaskGiven ==
  ASSUME NEW R, Framed(R),
         NEW N \in Nat \ {0}, NEW s \in [0 .. N - 1 -> Slots(R)],
         NEW l \in 0 .. N - 1, NEW x \in FrameRecords, NEW t,
         Given(s, t, l, x)
  PROVE  /\ t \in [0 .. N - 1 -> Slots(R)]
         /\ \A w \in 0 .. N - 1 : t[w].results = s[w].results
         /\ Counted(s, N) /\ ~(s[l].pending >= Depth) => Counted(t, N)
         /\ \A c, lo, hi \in Nat :
              StageInv(AllNumbers(s, N), l, c, N, lo, hi) /\ lo < x.n /\ hi < x.n
              => StageInv(AllNumbers(t, N), (l + 1) % N, c, N, lo, x.n)
<1>1. /\ s[l].results \in Seq(R) /\ s[l].tasks \in Seq(FrameRecords)
      /\ s[l].pending \in Int
  BY AllNumbersAre
<1>2. t[l] = [tasks |-> Append(s[l].tasks, x), results |-> s[l].results,
              pending |-> s[l].pending + 1]
  BY <1>1 DEF Slots, Given
<1>3. \A w \in 0 .. N - 1 : w # l => t[w] = s[w]
  BY DEF Given
<1>4. t \in [0 .. N - 1 -> Slots(R)]
  <2>1. Append(s[l].tasks, x) \in Seq(FrameRecords)
    BY <1>1
  <2>2. t[l] \in Slots(R)
    <3>1. s[l].pending + 1 \in Int
      BY <1>1
    <3> QED BY <1>1, <1>2, <2>1, <3>1 DEF Slots
  <2>3. \A w \in 0 .. N - 1 : t[w] \in Slots(R)
    BY <1>3, <2>2
  <2>4. t = [w \in 0 .. N - 1 |-> t[w]]
    BY DEF Given
  <2> QED BY <2>3, <2>4
<1>5. \A w \in 0 .. N - 1 : t[w].results = s[w].results
  BY <1>2, <1>3
<1>6. ASSUME Counted(s, N), ~(s[l].pending >= Depth) PROVE Counted(t, N)
  <2> SUFFICES ASSUME NEW w \in 0 .. N - 1
               PROVE  /\ t[w].pending = Len(t[w].results) + Len(t[w].tasks)
                      /\ t[w].pending <= Depth
    BY DEF Counted
  <2>1. s[w].pending = Len(s[w].results) + Len(s[w].tasks) /\ s[w].pending <= Depth
    BY <1>6 DEF Counted
  <2>2. CASE w = l
    <3>1. Len(Append(s[l].tasks, x)) = Len(s[l].tasks) + 1
      BY <1>1
    <3>2. Len(s[l].results) \in Nat /\ Len(s[l].tasks) \in Nat /\ Depth \in Nat
      BY <1>1, LenIsNat, Sizes
    <3>3. /\ t[w].pending = s[l].pending + 1
          /\ Len(t[w].results) = Len(s[l].results)
          /\ Len(t[w].tasks) = Len(s[l].tasks) + 1
      BY <1>2, <2>2, <3>1
    <3>4. /\ s[l].pending = Len(s[l].results) + Len(s[l].tasks)
      BY <2>1, <2>2
    <3>5. ASSUME NEW a \in Int, NEW b \in Int, ~(a >= b) PROVE a + 1 <= b
      BY <3>5
    <3>6. s[l].pending + 1 <= Depth
      BY <1>1, <1>6, <3>2, <3>5
    <3>7. t[w].pending = Len(t[w].results) + Len(t[w].tasks)
      <4>1. ASSUME NEW a \in Nat, NEW b \in Nat PROVE (a + b) + 1 = a + (b + 1)
        OBVIOUS
      <4>2. (Len(s[l].results) + Len(s[l].tasks)) + 1
              = Len(s[l].results) + (Len(s[l].tasks) + 1)
        BY <3>2, <4>1
      <4> QED BY <3>3, <3>4, <4>2
    <3> QED BY <3>3, <3>6, <3>7
  <2>3. CASE w # l
    BY <2>1, <2>3, <1>3
  <2> QED BY <2>2, <2>3
<1>7. ASSUME NEW c \in Nat, NEW lo \in Nat, NEW hi \in Nat,
             StageInv(AllNumbers(s, N), l, c, N, lo, hi), lo < x.n, hi < x.n
      PROVE  StageInv(AllNumbers(t, N), (l + 1) % N, c, N, lo, x.n)
  <2>1. x.n \in Nat
    BY DEF FrameRecords
  <2>2. AllNumbers(t, N) \in [0 .. N - 1 -> Seq(Nat)]
    BY <1>4, AllNumbersAre
  <2>3. AllNumbers(t, N)[l] = Append(AllNumbers(s, N)[l], x.n)
    <3>1. t[l].results \in Seq(R) /\ t[l].tasks \in Seq(FrameRecords)
      BY <1>4, AllNumbersAre
    <3>2. Numbers(t[l].results, t[l].tasks) = Append(Numbers(s[l].results, s[l].tasks), x.n)
      <4>1. t[l].results = s[l].results /\ t[l].tasks = Append(s[l].tasks, x)
        BY <1>2
      <4>2. Numbers(s[l].results, Append(s[l].tasks, x))
              = Append(Numbers(s[l].results, s[l].tasks), x.n)
        BY <1>1, NumbersGiven
      <4> QED BY <4>1, <4>2
    <3>3. AllNumbers(t, N)[l] = Numbers(t[l].results, t[l].tasks)
      BY DEF AllNumbers
    <3>4. AllNumbers(s, N)[l] = Numbers(s[l].results, s[l].tasks)
      BY DEF AllNumbers
    <3> QED BY <3>2, <3>3, <3>4
  <2>4. \A w \in 0 .. N - 1 : w # l => AllNumbers(t, N)[w] = AllNumbers(s, N)[w]
    BY <1>3 DEF AllNumbers
  <2> QED BY <1>7, <2>1, <2>2, <2>3, <2>4, StageGiven
<1> QED BY <1>4, <1>5, <1>6, <1>7

\* A task is run: Work.
LEMMA TaskDone ==
  ASSUME NEW R, Framed(R),
         NEW N \in Nat \ {0}, NEW s \in [0 .. N - 1 -> Slots(R)],
         NEW w \in 0 .. N - 1, NEW r \in R, NEW t,
         s[w].tasks # <<>>, r.frame = Head(s[w].tasks),
         Ran(s, t, w, r)
  PROVE  /\ t \in [0 .. N - 1 -> Slots(R)]
         /\ Counted(s, N) => Counted(t, N)
         /\ AllNumbers(t, N) = AllNumbers(s, N)
         /\ \A v \in 0 .. N - 1 :
              /\ t[v].pending = s[v].pending
              /\ s[v].results # <<>> =>
                   t[v].results # <<>> /\ Head(t[v].results) = Head(s[v].results)
<1>1. /\ s[w].results \in Seq(R) /\ s[w].tasks \in Seq(FrameRecords)
      /\ s[w].pending \in Int
  BY AllNumbersAre
<1>2. t[w] = [tasks |-> Tail(s[w].tasks), results |-> Append(s[w].results, r),
              pending |-> s[w].pending]
  BY <1>1 DEF Slots, Ran
<1>3. \A v \in 0 .. N - 1 : v # w => t[v] = s[v]
  BY DEF Ran
<1>4. t \in [0 .. N - 1 -> Slots(R)]
  <2>1. Append(s[w].results, r) \in Seq(R) /\ Tail(s[w].tasks) \in Seq(FrameRecords)
    BY <1>1
  <2>2. t[w] \in Slots(R)
    <3>1. s[w].pending \in Int
      BY <1>1
    <3> QED BY <1>1, <1>2, <2>1, <3>1 DEF Slots
  <2>3. \A v \in 0 .. N - 1 : t[v] \in Slots(R)
    BY <1>3, <2>2
  <2>4. t = [v \in 0 .. N - 1 |-> t[v]]
    BY DEF Ran
  <2> QED BY <2>3, <2>4
<1>5. /\ Numbers(t[w].results, t[w].tasks) = Numbers(s[w].results, s[w].tasks)
      /\ Len(t[w].results) + Len(t[w].tasks) = Len(s[w].results) + Len(s[w].tasks)
  <2>1. t[w].results \in Seq(R) /\ t[w].tasks \in Seq(FrameRecords)
    BY <1>4, AllNumbersAre
  <2>2. t[w].tasks = Tail(s[w].tasks) /\ t[w].results = Append(s[w].results, r)
    BY <1>2
  <2> QED BY <1>1, <2>1, <2>2, NumbersDone, SMTT(20)
<1>6. \A v \in 0 .. N - 1 :
        /\ t[v].pending = s[v].pending
        /\ s[v].results # <<>> =>
             t[v].results # <<>> /\ Head(t[v].results) = Head(s[v].results)
  <2> TAKE v \in 0 .. N - 1
  <2>1. CASE v = w
    <3>1. s[w].results # <<>> => Head(Append(s[w].results, r)) = Head(s[w].results)
      BY <1>1
    <3>2. Append(s[w].results, r) # <<>>
      <4>1. Len(Append(s[w].results, r)) = Len(s[w].results) + 1
        BY <1>1
      <4>2. Len(s[w].results) \in Nat
        BY <1>1, LenIsNat
      <4> QED BY <4>1, <4>2
    <3>3. t[w].results = Append(s[w].results, r) /\ t[w].pending = s[w].pending
      BY <1>2
    <3> QED BY <2>1, <3>1, <3>2, <3>3
  <2>2. CASE v # w
    BY <1>3, <2>2
  <2> QED BY <2>1, <2>2
<1>7. ASSUME Counted(s, N) PROVE Counted(t, N)
  <2> SUFFICES ASSUME NEW v \in 0 .. N - 1
               PROVE  /\ t[v].pending = Len(t[v].results) + Len(t[v].tasks)
                      /\ t[v].pending <= Depth
    BY DEF Counted
  <2>1. s[v].pending = Len(s[v].results) + Len(s[v].tasks) /\ s[v].pending <= Depth
    BY <1>7 DEF Counted
  <2>2. CASE v = w
    BY <1>5, <1>6, <2>1, <2>2
  <2>3. CASE v # w
    BY <1>3, <2>1, <2>3
  <2> QED BY <2>2, <2>3
<1>8. AllNumbers(t, N) = AllNumbers(s, N)
  <2>1. \A v \in 0 .. N - 1 :
          Numbers(t[v].results, t[v].tasks) = Numbers(s[v].results, s[v].tasks)
    BY <1>3, <1>5
  <2> QED BY <2>1 DEF AllNumbers
<1> QED BY <1>4, <1>6, <1>7, <1>8

\* The result whose turn it is is taken: Pop.
LEMMA ResultTaken ==
  ASSUME NEW R, Framed(R),
         NEW N \in Nat \ {0}, NEW s \in [0 .. N - 1 -> Slots(R)],
         NEW c \in 0 .. N - 1, NEW t, s[c].results # <<>>,
         Took(s, t, c)
  PROVE  /\ t \in [0 .. N - 1 -> Slots(R)]
         /\ Head(s[c].results) \in R
         /\ Counted(s, N) => Counted(t, N)
         /\ \A w \in 0 .. N - 1 : t[w].pending <= s[w].pending
         /\ \A l, lo, hi \in Nat :
              StageInv(AllNumbers(s, N), l, c, N, lo, hi) =>
                LET n == Head(s[c].results).frame.n
                IN  /\ n \in Nat /\ lo < n /\ n <= hi
                    /\ StageInv(AllNumbers(t, N), l, (c + 1) % N, N, n, hi)
<1>1. /\ s[c].results \in Seq(R) /\ s[c].tasks \in Seq(FrameRecords)
      /\ s[c].pending \in Int
  BY AllNumbersAre
<1>2. t[c] = [tasks |-> s[c].tasks, results |-> Tail(s[c].results),
              pending |-> s[c].pending - 1]
  BY <1>1 DEF Slots, Took
<1>3. \A w \in 0 .. N - 1 : w # c => t[w] = s[w]
  BY DEF Took
<1>4. t \in [0 .. N - 1 -> Slots(R)]
  <2>1. Tail(s[c].results) \in Seq(R)
    BY <1>1
  <2>2. t[c] \in Slots(R)
    <3>1. s[c].pending - 1 \in Int
      BY <1>1
    <3> QED BY <1>1, <1>2, <2>1, <3>1 DEF Slots
  <2>3. \A w \in 0 .. N - 1 : t[w] \in Slots(R)
    BY <1>3, <2>2
  <2>4. t = [w \in 0 .. N - 1 |-> t[w]]
    BY DEF Took
  <2> QED BY <2>3, <2>4
<1>5. Head(s[c].results) \in R
  BY <1>1
<1>6. \A w \in 0 .. N - 1 : t[w].pending <= s[w].pending
  <2> TAKE w \in 0 .. N - 1
  <2>0. s[w].pending \in Int
    BY AllNumbersAre
  <2>1. CASE w = c
    BY <1>1, <1>2, <2>1
  <2>2. CASE w # c
    BY <1>3, <2>0, <2>2
  <2> QED BY <2>1, <2>2
<1>7. ASSUME Counted(s, N) PROVE Counted(t, N)
  <2> SUFFICES ASSUME NEW w \in 0 .. N - 1
               PROVE  /\ t[w].pending = Len(t[w].results) + Len(t[w].tasks)
                      /\ t[w].pending <= Depth
    BY DEF Counted
  <2>1. s[w].pending = Len(s[w].results) + Len(s[w].tasks) /\ s[w].pending <= Depth
    BY <1>7 DEF Counted
  <2>2. CASE w = c
    <3>1. Len(Tail(s[c].results)) = Len(s[c].results) - 1
      BY <1>1
    <3>2. Len(s[c].results) \in Nat /\ Len(s[c].tasks) \in Nat /\ Depth \in Nat
      BY <1>1, LenIsNat, Sizes
    <3>3. /\ t[w].pending = s[c].pending - 1
          /\ Len(t[w].results) = Len(s[c].results) - 1
          /\ Len(t[w].tasks) = Len(s[c].tasks)
      BY <1>2, <2>2, <3>1
    <3>4. s[c].pending = Len(s[c].results) + Len(s[c].tasks) /\ s[c].pending <= Depth
      BY <2>1, <2>2
    <3>5. t[w].pending = Len(t[w].results) + Len(t[w].tasks)
      BY <3>2, <3>3, <3>4
    <3>6. s[c].pending - 1 <= Depth
      <4>1. ASSUME NEW a \in Int, NEW b \in Nat, a <= b PROVE a - 1 <= b
        BY <4>1
      <4> QED BY <1>1, <3>2, <3>4, <4>1
    <3> QED BY <3>3, <3>5, <3>6
  <2>3. CASE w # c
    BY <2>1, <2>3, <1>3
  <2> QED BY <2>2, <2>3
<1>8. ASSUME NEW l \in Nat, NEW lo \in Nat, NEW hi \in Nat,
             StageInv(AllNumbers(s, N), l, c, N, lo, hi)
      PROVE  LET n == Head(s[c].results).frame.n
             IN  /\ n \in Nat /\ lo < n /\ n <= hi
                 /\ StageInv(AllNumbers(t, N), l, (c + 1) % N, N, n, hi)
  <2>1. AllNumbers(t, N) \in [0 .. N - 1 -> Seq(Nat)]
    BY <1>4, AllNumbersAre
  <2>2. /\ AllNumbers(s, N)[c] # <<>>
        /\ AllNumbers(t, N)[c] = Tail(AllNumbers(s, N)[c])
        /\ AllNumbers(s, N)[c][1] = Head(s[c].results).frame.n
    <3>1. t[c].results \in Seq(R) /\ t[c].tasks \in Seq(FrameRecords)
      BY <1>4, AllNumbersAre
    <3>2. /\ Numbers(s[c].results, s[c].tasks) # <<>>
          /\ Numbers(t[c].results, t[c].tasks) = Tail(Numbers(s[c].results, s[c].tasks))
          /\ Numbers(s[c].results, s[c].tasks)[1] = Head(s[c].results).frame.n
      <4>1. t[c].tasks = s[c].tasks /\ t[c].results = Tail(s[c].results)
        BY <1>2
      <4> QED BY <1>1, <3>1, <4>1, NumbersTaken
    <3>3. AllNumbers(t, N)[c] = Numbers(t[c].results, t[c].tasks)
      BY DEF AllNumbers
    <3>4. AllNumbers(s, N)[c] = Numbers(s[c].results, s[c].tasks)
      BY DEF AllNumbers
    <3> QED BY <3>2, <3>3, <3>4
  <2>3. \A w \in 0 .. N - 1 : w # c => AllNumbers(t, N)[w] = AllNumbers(s, N)[w]
    BY <1>3 DEF AllNumbers
  <2> DEFINE n == AllNumbers(s, N)[c][1]
  <2>4. /\ n \in Nat /\ lo < n /\ n <= hi
        /\ StageInv(AllNumbers(t, N), l, (c + 1) % N, N, n, hi)
    BY <1>8, <2>1, <2>2, <2>3, StageCollected
  <2> HIDE DEF n
  <2>5. n = Head(s[c].results).frame.n
    BY <2>2 DEF n
  <2> QED BY <2>4, <2>5
<1> QED BY <1>4, <1>5, <1>6, <1>7, <1>8

\* The rings are emptied: Reset.
LEMMA RingsEmptied ==
  ASSUME NEW R, NEW N \in Nat \ {0}, NEW t,
         t = [w \in 0 .. N - 1 |-> [tasks |-> <<>>, results |-> <<>>, pending |-> 0]]
  PROVE  /\ t \in [0 .. N - 1 -> Slots(R)]
         /\ Counted(t, N)
         /\ NothingHeld(AllNumbers(t, N), N)
<1>1. t \in [0 .. N - 1 -> Slots(R)]
  BY DEF Slots
<1>2. Counted(t, N)
  BY Sizes DEF Counted
<1>3. ASSUME NEW w \in 0 .. N - 1 PROVE AllNumbers(t, N)[w] = <<>>
  <2>1. AllNumbers(t, N)[w] = Numbers(<<>>, <<>>)
    BY DEF AllNumbers
  <2>2. Len(<<>>) + Len(<<>>) = 0 /\ 1 .. 0 = {}
    OBVIOUS
  <2>3. Numbers(<<>>, <<>>) = [i \in {} |->
           IF i <= Len(<<>>) THEN <<>>[i].frame.n ELSE <<>>[i - Len(<<>>)].n]
    BY <2>2 DEF Numbers
  <2>4. Numbers(<<>>, <<>>) = <<>>
    <3>1. DOMAIN Numbers(<<>>, <<>>) = {}
      BY <2>3
    <3>2. Numbers(<<>>, <<>>) \in Seq(Nat) /\ Len(Numbers(<<>>, <<>>)) = 0
      <4>1. <<>> \in Seq({}) /\ <<>> \in Seq(FrameRecords) /\ Framed({})
        BY DEF Framed
      <4> QED BY <4>1, <2>2, NumbersAre
    <3> QED BY <3>2
  <2> QED BY <2>1, <2>4
<1> QED BY <1>1, <1>2, <1>3 DEF NothingHeld

-----------------------------------------------------------------------------
(* The two stages of the UE *)

LEMMA FramedResults == Framed(Demodulated) /\ Framed(Decoded)
BY DEF Framed, Demodulated, Decoded

\* Handing a frame out.
LEMMA DemodGiven ==
  ASSUME DemodOK, NEW k \in Cuts, NEW j \in Cuts, DemodInv(k), NEW x \in FrameRecords,
         proc.pc # "done", proc'.pc # "done", D!Dispatch(x), ~D!Full,
         k.llrs < x.n, k.demod < x.n, j.demod = x.n, j.llrs = k.llrs
  PROVE  /\ DemodOK' /\ DemodInv(j)'
         /\ D!Ready <=> D!Ready'
         /\ D!Ready => D!Result' = D!Result
<1> DEFINE N == Demodulators
           s == demod
           t == demod'
           l == demodNext
           c == demodTurn
<1>1. /\ N \in Nat \ {0} /\ s \in [0 .. N - 1 -> Slots(Demodulated)]
      /\ l \in 0 .. N - 1 /\ c \in 0 .. N - 1 /\ c \in Nat
      /\ Counted(s, N)
  BY Sizes DEF DemodOK
<1>2. /\ t = [s EXCEPT ![l].tasks = Append(@, x), ![l].pending = @ + 1]
      /\ demodNext' = (l + 1) % N /\ demodTurn' = c
  BY DEF D!Dispatch, D!Following
<1>3. ~(s[l].pending >= Depth)
  BY DEF D!Full
<1>4. StageInv(AllNumbers(s, N), l, c, N, k.llrs, k.demod)
  BY DEF DemodInv
<1>5. k.demod \in Nat /\ k.llrs \in Nat
  BY DEF Cuts
<1>6. (l + 1) % N \in 0 .. N - 1
  BY <1>1, FollowingIs
<1>s. /\ D!Ready <=> s[c].results # <<>>
      /\ D!Result = Head(s[c].results)
      /\ D!Ready' <=> t[demodTurn'].results # <<>>
      /\ D!Result' = Head(t[demodTurn'].results)
  BY DEF D!Ready, D!Result
<1>t. /\ DemodOK' <=> /\ t \in [0 .. N - 1 -> Slots(Demodulated)]
                  /\ demodNext' \in 0 .. N - 1 /\ demodTurn' \in 0 .. N - 1
                  /\ Counted(t, N)
      /\ DemodInv(j)' <=> StageInv(AllNumbers(t, N), demodNext', demodTurn', N, j.llrs, j.demod)
  BY DEF DemodOK, DemodInv
<1> HIDE DEF N, s, t, l, c
<1>g. Given(s, t, l, x)
  BY <1>2 DEF Given
<1>7. /\ t \in [0 .. N - 1 -> Slots(Demodulated)]
      /\ \A w \in 0 .. N - 1 : t[w].results = s[w].results
      /\ Counted(t, N)
      /\ StageInv(AllNumbers(t, N), (l + 1) % N, c, N, k.llrs, x.n)
  BY <1>1, <1>g, <1>3, <1>4, <1>5, FramedResults, TaskGiven
<1>8. t[c].results = s[c].results
  BY <1>1, <1>7
<1> QED BY <1>1, <1>2, <1>6, <1>s, <1>t, <1>7, <1>8

\* Running it.
LEMMA DemodRun ==
  ASSUME DemodOK, NEW w \in 0 .. Demodulators - 1, NEW r \in Demodulated, demod[w].tasks # <<>>,
         r.frame = Head(demod[w].tasks), D!Work(w, r)
  PROVE  /\ DemodOK'
         /\ AllNumbers(demod, Demodulators)' = AllNumbers(demod, Demodulators)
         /\ UNCHANGED <<demodNext, demodTurn>>
         /\ D!Full' <=> D!Full
         /\ D!Ready => D!Ready' /\ D!Result' = D!Result
<1> DEFINE N == Demodulators
           s == demod
           t == demod'
           l == demodNext
           c == demodTurn
<1>1. /\ N \in Nat \ {0} /\ s \in [0 .. N - 1 -> Slots(Demodulated)]
      /\ l \in 0 .. N - 1 /\ c \in 0 .. N - 1
      /\ Counted(s, N)
  BY Sizes DEF DemodOK
<1>2. /\ t = [s EXCEPT ![w].tasks = Tail(@), ![w].results = Append(@, r)]
      /\ UNCHANGED <<demodNext, demodTurn>>
  BY DEF D!Work
<1>3. w \in 0 .. N - 1 /\ s[w].tasks # <<>> /\ r.frame = Head(s[w].tasks)
  OBVIOUS
<1>s. /\ D!Ready <=> s[c].results # <<>>
      /\ D!Result = Head(s[c].results)
      /\ D!Ready' <=> t[demodTurn'].results # <<>>
      /\ D!Result' = Head(t[demodTurn'].results)
      /\ D!Full <=> s[l].pending >= Depth
      /\ D!Full' <=> t[demodNext'].pending >= Depth
  BY DEF D!Ready, D!Result, D!Full
<1>t. /\ DemodOK' <=> /\ t \in [0 .. N - 1 -> Slots(Demodulated)]
                  /\ demodNext' \in 0 .. N - 1 /\ demodTurn' \in 0 .. N - 1
                  /\ Counted(t, N)
      /\ AllNumbers(demod, Demodulators)' = AllNumbers(t, N)
      /\ AllNumbers(demod, Demodulators) = AllNumbers(s, N)
      /\ demodNext = l /\ demodTurn = c
  BY DEF DemodOK
<1> HIDE DEF N, s, t, l, c
<1>g. Ran(s, t, w, r)
  BY <1>2 DEF Ran
<1>4. /\ t \in [0 .. N - 1 -> Slots(Demodulated)]
      /\ Counted(t, N)
      /\ AllNumbers(t, N) = AllNumbers(s, N)
      /\ \A v \in 0 .. N - 1 :
           /\ t[v].pending = s[v].pending
           /\ s[v].results # <<>> =>
                t[v].results # <<>> /\ Head(t[v].results) = Head(s[v].results)
  BY <1>1, <1>3, <1>g, FramedResults, TaskDone
<1>5. /\ t[l].pending = s[l].pending
      /\ s[c].results # <<>> =>
           t[c].results # <<>> /\ Head(t[c].results) = Head(s[c].results)
  BY <1>1, <1>4
<1> QED BY <1>1, <1>2, <1>4, <1>5, <1>s, <1>t

\* Taking a result, which is the earliest frame of the stage.
LEMMA DemodTaken ==
  ASSUME DemodOK, NEW k \in Cuts, DemodInv(k), proc.pc # "done", D!Ready, D!Pop,
         k.llrs \in Nat
  PROVE  /\ DemodOK'
         /\ D!Result \in Demodulated
         /\ D!Result.frame.n \in Nat
         /\ k.llrs < D!Result.frame.n /\ D!Result.frame.n <= k.demod
         /\ StageInv(AllNumbers(demod, Demodulators)', demodNext', demodTurn', Demodulators,
                     D!Result.frame.n, k.demod)
         /\ ~D!Full => ~D!Full'
<1> DEFINE N == Demodulators
           s == demod
           t == demod'
           l == demodNext
           c == demodTurn
<1>1. /\ N \in Nat \ {0} /\ s \in [0 .. N - 1 -> Slots(Demodulated)]
      /\ l \in 0 .. N - 1 /\ c \in 0 .. N - 1 /\ l \in Nat
      /\ Counted(s, N)
  BY Sizes DEF DemodOK
<1>2. /\ t = [s EXCEPT ![c].results = Tail(@), ![c].pending = @ - 1]
      /\ demodNext' = l /\ demodTurn' = (c + 1) % N
  BY DEF D!Pop, D!Following
<1>3. StageInv(AllNumbers(s, N), l, c, N, k.llrs, k.demod)
  BY DEF DemodInv
<1>4. k.demod \in Nat
  BY DEF Cuts
<1>5. (c + 1) % N \in 0 .. N - 1
  BY <1>1, FollowingIs
<1>s. /\ s[c].results # <<>>
      /\ D!Result = Head(s[c].results)
      /\ D!Full <=> s[l].pending >= Depth
      /\ D!Full' <=> t[demodNext'].pending >= Depth
  BY DEF D!Ready, D!Result, D!Full
<1>t. /\ DemodOK' <=> /\ t \in [0 .. N - 1 -> Slots(Demodulated)]
                  /\ demodNext' \in 0 .. N - 1 /\ demodTurn' \in 0 .. N - 1
                  /\ Counted(t, N)
      /\ AllNumbers(demod, Demodulators)' = AllNumbers(t, N)
      /\ Demodulators = N
  BY DEF DemodOK
<1> HIDE DEF N, s, t, l, c
<1>g. Took(s, t, c)
  BY <1>2 DEF Took
<1>6. /\ t \in [0 .. N - 1 -> Slots(Demodulated)]
      /\ Head(s[c].results) \in Demodulated
      /\ Counted(t, N)
      /\ \A w \in 0 .. N - 1 : t[w].pending <= s[w].pending
      /\ Head(s[c].results).frame.n \in Nat
      /\ k.llrs < Head(s[c].results).frame.n /\ Head(s[c].results).frame.n <= k.demod
      /\ StageInv(AllNumbers(t, N), l, (c + 1) % N, N, Head(s[c].results).frame.n, k.demod)
  BY <1>1, <1>3, <1>4, <1>s, <1>g, FramedResults, ResultTaken
<1>7. ~(s[l].pending >= Depth) => ~(t[l].pending >= Depth)
  <2>1. s[l].pending \in Int /\ t[l].pending \in Int
    BY <1>1, <1>6, FramedResults, AllNumbersAre
  <2>2. t[l].pending <= s[l].pending
    BY <1>1, <1>6
  <2>3. ASSUME NEW a \in Int, NEW b \in Int, NEW d \in Nat, a <= b, ~(b >= d)
        PROVE ~(a >= d)
    BY <2>3
  <2> QED BY <2>1, <2>2, <2>3, Sizes
<1> QED BY <1>1, <1>2, <1>5, <1>6, <1>7, <1>s, <1>t

\* Emptying the rings.
LEMMA DemodEmptied ==
  ASSUME DemodOK, NEW j \in Cuts, proc'.pc = "done", D!Reset
  PROVE  DemodOK' /\ DemodInv(j)'
<1>1. /\ demod' = [w \in 0 .. Demodulators - 1 |->
                   [tasks |-> <<>>, results |-> <<>>, pending |-> 0]]
      /\ UNCHANGED <<demodNext, demodTurn>>
  BY DEF D!Reset, D!ids
<1>2. /\ demod' \in [0 .. Demodulators - 1 -> Slots(Demodulated)] /\ Counted(demod', Demodulators)
      /\ NothingHeld(AllNumbers(demod', Demodulators), Demodulators)
  BY <1>1, Sizes, RingsEmptied
<1> QED BY <1>1, <1>2 DEF DemodOK, DemodInv

\* Leaving them alone.
LEMMA DemodSame ==
  ASSUME UNCHANGED demodVars
  PROVE  /\ DemodOK => DemodOK'
         /\ D!Full' <=> D!Full
         /\ D!Ready' <=> D!Ready
         /\ D!Result' = D!Result
         /\ AllNumbers(demod, Demodulators)' = AllNumbers(demod, Demodulators)
         /\ UNCHANGED <<demod, demodNext, demodTurn>>
BY DEF demodVars, DemodOK, D!Full, D!Ready, D!Result

\* Handing a frame out.
LEMMA DecodeGiven ==
  ASSUME DecodeOK, NEW k \in Cuts, NEW j \in Cuts, DecodeInv(k), NEW x \in FrameRecords,
         bit.pc # "done", bit'.pc # "done", L!Dispatch(x), ~L!Full,
         seen.decoded \in Nat, seen.decoded' = seen.decoded,
         seen.decoded < x.n, k.decode < x.n, j.decode = x.n
  PROVE  /\ DecodeOK' /\ DecodeInv(j)'
         /\ L!Ready <=> L!Ready'
         /\ L!Ready => L!Result' = L!Result
<1> DEFINE N == Decoders
           s == decode
           t == decode'
           l == decodeNext
           c == decodeTurn
<1>1. /\ N \in Nat \ {0} /\ s \in [0 .. N - 1 -> Slots(Decoded)]
      /\ l \in 0 .. N - 1 /\ c \in 0 .. N - 1 /\ c \in Nat
      /\ Counted(s, N)
  BY Sizes DEF DecodeOK
<1>2. /\ t = [s EXCEPT ![l].tasks = Append(@, x), ![l].pending = @ + 1]
      /\ decodeNext' = (l + 1) % N /\ decodeTurn' = c
  BY DEF L!Dispatch, L!Following
<1>3. ~(s[l].pending >= Depth)
  BY DEF L!Full
<1>4. StageInv(AllNumbers(s, N), l, c, N, seen.decoded, k.decode)
  BY DEF DecodeInv
<1>5. k.decode \in Nat
  BY DEF Cuts
<1>6. (l + 1) % N \in 0 .. N - 1
  BY <1>1, FollowingIs
<1>s. /\ L!Ready <=> s[c].results # <<>>
      /\ L!Result = Head(s[c].results)
      /\ L!Ready' <=> t[decodeTurn'].results # <<>>
      /\ L!Result' = Head(t[decodeTurn'].results)
  BY DEF L!Ready, L!Result
<1>t. /\ DecodeOK' <=> /\ t \in [0 .. N - 1 -> Slots(Decoded)]
                  /\ decodeNext' \in 0 .. N - 1 /\ decodeTurn' \in 0 .. N - 1
                  /\ Counted(t, N)
      /\ DecodeInv(j)' <=>
           StageInv(AllNumbers(t, N), decodeNext', decodeTurn', N, seen.decoded', j.decode)
  BY DEF DecodeOK, DecodeInv
<1> HIDE DEF N, s, t, l, c
<1>g. Given(s, t, l, x)
  BY <1>2 DEF Given
<1>7. /\ t \in [0 .. N - 1 -> Slots(Decoded)]
      /\ \A w \in 0 .. N - 1 : t[w].results = s[w].results
      /\ Counted(t, N)
      /\ StageInv(AllNumbers(t, N), (l + 1) % N, c, N, seen.decoded, x.n)
  BY <1>1, <1>g, <1>3, <1>4, <1>5, FramedResults, TaskGiven
<1>8. t[c].results = s[c].results
  BY <1>1, <1>7
<1> QED BY <1>1, <1>2, <1>6, <1>s, <1>t, <1>7, <1>8

\* Running it.
LEMMA DecodeRun ==
  ASSUME DecodeOK, NEW w \in 0 .. Decoders - 1, NEW r \in Decoded, decode[w].tasks # <<>>,
         r.frame = Head(decode[w].tasks), L!Work(w, r)
  PROVE  /\ DecodeOK'
         /\ AllNumbers(decode, Decoders)' = AllNumbers(decode, Decoders)
         /\ UNCHANGED <<decodeNext, decodeTurn>>
         /\ L!Full' <=> L!Full
         /\ L!Ready => L!Ready' /\ L!Result' = L!Result
<1> DEFINE N == Decoders
           s == decode
           t == decode'
           l == decodeNext
           c == decodeTurn
<1>1. /\ N \in Nat \ {0} /\ s \in [0 .. N - 1 -> Slots(Decoded)]
      /\ l \in 0 .. N - 1 /\ c \in 0 .. N - 1
      /\ Counted(s, N)
  BY Sizes DEF DecodeOK
<1>2. /\ t = [s EXCEPT ![w].tasks = Tail(@), ![w].results = Append(@, r)]
      /\ UNCHANGED <<decodeNext, decodeTurn>>
  BY DEF L!Work
<1>3. w \in 0 .. N - 1 /\ s[w].tasks # <<>> /\ r.frame = Head(s[w].tasks)
  OBVIOUS
<1>s. /\ L!Ready <=> s[c].results # <<>>
      /\ L!Result = Head(s[c].results)
      /\ L!Ready' <=> t[decodeTurn'].results # <<>>
      /\ L!Result' = Head(t[decodeTurn'].results)
      /\ L!Full <=> s[l].pending >= Depth
      /\ L!Full' <=> t[decodeNext'].pending >= Depth
  BY DEF L!Ready, L!Result, L!Full
<1>t. /\ DecodeOK' <=> /\ t \in [0 .. N - 1 -> Slots(Decoded)]
                  /\ decodeNext' \in 0 .. N - 1 /\ decodeTurn' \in 0 .. N - 1
                  /\ Counted(t, N)
      /\ AllNumbers(decode, Decoders)' = AllNumbers(t, N)
      /\ AllNumbers(decode, Decoders) = AllNumbers(s, N)
      /\ decodeNext = l /\ decodeTurn = c
  BY DEF DecodeOK
<1> HIDE DEF N, s, t, l, c
<1>g. Ran(s, t, w, r)
  BY <1>2 DEF Ran
<1>4. /\ t \in [0 .. N - 1 -> Slots(Decoded)]
      /\ Counted(t, N)
      /\ AllNumbers(t, N) = AllNumbers(s, N)
      /\ \A v \in 0 .. N - 1 :
           /\ t[v].pending = s[v].pending
           /\ s[v].results # <<>> =>
                t[v].results # <<>> /\ Head(t[v].results) = Head(s[v].results)
  BY <1>1, <1>3, <1>g, FramedResults, TaskDone
<1>5. /\ t[l].pending = s[l].pending
      /\ s[c].results # <<>> =>
           t[c].results # <<>> /\ Head(t[c].results) = Head(s[c].results)
  BY <1>1, <1>4
<1> QED BY <1>1, <1>2, <1>4, <1>5, <1>s, <1>t

\* Taking a result, which is the earliest frame of the stage.
LEMMA DecodeTaken ==
  ASSUME DecodeOK, NEW k \in Cuts, DecodeInv(k), bit.pc # "done", L!Ready, L!Pop,
         seen.decoded \in Nat
  PROVE  /\ DecodeOK'
         /\ L!Result \in Decoded
         /\ L!Result.frame.n \in Nat
         /\ seen.decoded < L!Result.frame.n /\ L!Result.frame.n <= k.decode
         /\ StageInv(AllNumbers(decode, Decoders)', decodeNext', decodeTurn', Decoders,
                     L!Result.frame.n, k.decode)
         /\ ~L!Full => ~L!Full'
<1> DEFINE N == Decoders
           s == decode
           t == decode'
           l == decodeNext
           c == decodeTurn
<1>1. /\ N \in Nat \ {0} /\ s \in [0 .. N - 1 -> Slots(Decoded)]
      /\ l \in 0 .. N - 1 /\ c \in 0 .. N - 1 /\ l \in Nat
      /\ Counted(s, N)
  BY Sizes DEF DecodeOK
<1>2. /\ t = [s EXCEPT ![c].results = Tail(@), ![c].pending = @ - 1]
      /\ decodeNext' = l /\ decodeTurn' = (c + 1) % N
  BY DEF L!Pop, L!Following
<1>3. StageInv(AllNumbers(s, N), l, c, N, seen.decoded, k.decode)
  BY DEF DecodeInv
<1>4. k.decode \in Nat
  BY DEF Cuts
<1>5. (c + 1) % N \in 0 .. N - 1
  BY <1>1, FollowingIs
<1>s. /\ s[c].results # <<>>
      /\ L!Result = Head(s[c].results)
      /\ L!Full <=> s[l].pending >= Depth
      /\ L!Full' <=> t[decodeNext'].pending >= Depth
  BY DEF L!Ready, L!Result, L!Full
<1>t. /\ DecodeOK' <=> /\ t \in [0 .. N - 1 -> Slots(Decoded)]
                  /\ decodeNext' \in 0 .. N - 1 /\ decodeTurn' \in 0 .. N - 1
                  /\ Counted(t, N)
      /\ AllNumbers(decode, Decoders)' = AllNumbers(t, N)
      /\ Decoders = N
  BY DEF DecodeOK
<1> HIDE DEF N, s, t, l, c
<1>g. Took(s, t, c)
  BY <1>2 DEF Took
<1>6. /\ t \in [0 .. N - 1 -> Slots(Decoded)]
      /\ Head(s[c].results) \in Decoded
      /\ Counted(t, N)
      /\ \A w \in 0 .. N - 1 : t[w].pending <= s[w].pending
      /\ Head(s[c].results).frame.n \in Nat
      /\ seen.decoded < Head(s[c].results).frame.n /\ Head(s[c].results).frame.n <= k.decode
      /\ StageInv(AllNumbers(t, N), l, (c + 1) % N, N, Head(s[c].results).frame.n, k.decode)
  BY <1>1, <1>3, <1>4, <1>s, <1>g, FramedResults, ResultTaken
<1>7. ~(s[l].pending >= Depth) => ~(t[l].pending >= Depth)
  <2>1. s[l].pending \in Int /\ t[l].pending \in Int
    BY <1>1, <1>6, FramedResults, AllNumbersAre
  <2>2. t[l].pending <= s[l].pending
    BY <1>1, <1>6
  <2>3. ASSUME NEW a \in Int, NEW b \in Int, NEW d \in Nat, a <= b, ~(b >= d)
        PROVE ~(a >= d)
    BY <2>3
  <2> QED BY <2>1, <2>2, <2>3, Sizes
<1> QED BY <1>1, <1>2, <1>5, <1>6, <1>7, <1>s, <1>t

\* Emptying the rings.
LEMMA DecodeEmptied ==
  ASSUME DecodeOK, NEW j \in Cuts, bit'.pc = "done", L!Reset
  PROVE  DecodeOK' /\ DecodeInv(j)'
<1>1. /\ decode' = [w \in 0 .. Decoders - 1 |->
                   [tasks |-> <<>>, results |-> <<>>, pending |-> 0]]
      /\ UNCHANGED <<decodeNext, decodeTurn>>
  BY DEF L!Reset, L!ids
<1>2. /\ decode' \in [0 .. Decoders - 1 -> Slots(Decoded)] /\ Counted(decode', Decoders)
      /\ NothingHeld(AllNumbers(decode', Decoders), Decoders)
  BY <1>1, Sizes, RingsEmptied
<1> QED BY <1>1, <1>2 DEF DecodeOK, DecodeInv

\* Leaving them alone.
LEMMA DecodeSame ==
  ASSUME UNCHANGED decodeVars
  PROVE  /\ DecodeOK => DecodeOK'
         /\ L!Full' <=> L!Full
         /\ L!Ready' <=> L!Ready
         /\ L!Result' = L!Result
         /\ AllNumbers(decode, Decoders)' = AllNumbers(decode, Decoders)
         /\ UNCHANGED <<decode, decodeNext, decodeTurn>>
BY DEF decodeVars, DecodeOK, L!Full, L!Ready, L!Result

-----------------------------------------------------------------------------
(* The queues *)

LEMMA EmptyQueue ==
  ASSUME NEW lo, NEW hi
  PROVE  From(<<>>, lo, hi) /\ Increasing(<<>>) /\ <<>> \in Seq(FrameRecords)
BY DEF From, Increasing

LEMMA FromWider ==
  ASSUME NEW s \in Seq(FrameRecords), NEW lo \in Nat, NEW hi \in Nat, From(s, lo, hi),
         NEW lo2 \in Nat, NEW hi2 \in Nat, lo2 <= lo, hi <= hi2
  PROVE  From(s, lo2, hi2)
<1> SUFFICES ASSUME NEW i \in 1 .. Len(s) PROVE lo2 < s[i].n /\ s[i].n <= hi2
  BY DEF From
<1>1. s[i] \in FrameRecords
  OBVIOUS
<1>2. s[i].n \in Nat
  BY <1>1 DEF FrameRecords
<1>3. lo < s[i].n /\ s[i].n <= hi
  BY DEF From
<1> QED BY <1>2, <1>3

\* The first frame of a queue is the earliest.
LEMMA FromTail ==
  ASSUME NEW s \in Seq(FrameRecords), NEW lo \in Nat, NEW hi \in Nat, s # <<>>,
         From(s, lo, hi), Increasing(s)
  PROVE  /\ Head(s) \in FrameRecords /\ Head(s).n \in Nat
         /\ lo < Head(s).n /\ Head(s).n <= hi
         /\ Tail(s) \in Seq(FrameRecords)
         /\ From(Tail(s), Head(s).n, hi) /\ From(Tail(s), lo, hi) /\ Increasing(Tail(s))
<1>1. /\ Head(s) \in FrameRecords /\ Tail(s) \in Seq(FrameRecords)
      /\ Len(s) \in Nat /\ Len(s) >= 1 /\ Len(Tail(s)) = Len(s) - 1
      /\ Head(s) = s[1]
  OBVIOUS
<1>2. Head(s).n \in Nat
  BY <1>1 DEF FrameRecords
<1>3. lo < Head(s).n /\ Head(s).n <= hi
  BY <1>1 DEF From
<1>4. \A i \in 1 .. Len(Tail(s)) : i + 1 \in 2 .. Len(s) /\ Tail(s)[i] = s[i + 1]
  OBVIOUS
<1>5. From(Tail(s), Head(s).n, hi) /\ From(Tail(s), lo, hi)
  <2> SUFFICES ASSUME NEW i \in 1 .. Len(Tail(s))
               PROVE  /\ Head(s).n < Tail(s)[i].n /\ Tail(s)[i].n <= hi
                      /\ lo < Tail(s)[i].n
    BY DEF From
  <2>1. i + 1 \in 1 .. Len(s) /\ 1 \in 1 .. Len(s) /\ 1 < i + 1
    BY <1>1, <1>4
  <2>2. Tail(s)[i] = s[i + 1]
    BY <1>4
  <2>3. s[1].n < s[i + 1].n
    BY <2>1 DEF Increasing
  <2>4. lo < s[i + 1].n /\ s[i + 1].n <= hi
    BY <2>1 DEF From
  <2> QED BY <1>1, <2>2, <2>3, <2>4
<1>6. Increasing(Tail(s))
  <2> SUFFICES ASSUME NEW i \in 1 .. Len(Tail(s)), NEW j \in 1 .. Len(Tail(s)), i < j
               PROVE  Tail(s)[i].n < Tail(s)[j].n
    BY DEF Increasing
  <2>1. i + 1 \in 1 .. Len(s) /\ j + 1 \in 1 .. Len(s) /\ i + 1 < j + 1
    BY <1>1, <1>4
  <2>2. s[i + 1].n < s[j + 1].n
    BY <2>1 DEF Increasing
  <2> QED BY <1>4, <2>2
<1> QED BY <1>1, <1>2, <1>3, <1>5, <1>6

\* A frame later than all joins the end.
LEMMA FromAppend ==
  ASSUME NEW s \in Seq(FrameRecords), NEW lo \in Nat, NEW hi \in Nat,
         From(s, lo, hi), Increasing(s), NEW x \in FrameRecords, lo < x.n, hi < x.n
  PROVE  /\ Append(s, x) \in Seq(FrameRecords)
         /\ From(Append(s, x), lo, x.n) /\ Increasing(Append(s, x))
<1>1. /\ Append(s, x) \in Seq(FrameRecords) /\ Len(s) \in Nat
      /\ Len(Append(s, x)) = Len(s) + 1
      /\ \A i \in 1 .. Len(s) : Append(s, x)[i] = s[i]
      /\ Append(s, x)[Len(s) + 1] = x
  OBVIOUS
<1>2. x.n \in Nat
  BY DEF FrameRecords
<1>3. \A i \in 1 .. Len(s) : s[i].n \in Nat /\ lo < s[i].n /\ s[i].n < x.n
  <2> TAKE i \in 1 .. Len(s)
  <2>1. s[i] \in FrameRecords
    OBVIOUS
  <2>2. s[i].n \in Nat
    BY <2>1 DEF FrameRecords
  <2>3. lo < s[i].n /\ s[i].n <= hi
    BY DEF From
  <2> QED BY <2>2, <2>3, <1>2
<1> DEFINE t == Append(s, x)
<1>4. \A i \in 1 .. Len(t) : (i \in 1 .. Len(s) /\ t[i] = s[i]) \/ (i = Len(s) + 1 /\ t[i] = x)
  BY <1>1
<1> HIDE DEF t
<1>5. From(t, lo, x.n)
  BY <1>2, <1>3, <1>4 DEF From
<1>6. Increasing(t)
  <2> SUFFICES ASSUME NEW i \in 1 .. Len(t), NEW j \in 1 .. Len(t), i < j
               PROVE  t[i].n < t[j].n
    BY DEF Increasing
  <2>0. i \in Int /\ j \in Int /\ Len(s) \in Nat /\ i <= Len(s) + 1 /\ j <= Len(s) + 1
    BY <1>1 DEF t
  <2>1. i \in 1 .. Len(s) /\ t[i] = s[i]
    BY <1>4, <2>0
  <2>2. CASE j \in 1 .. Len(s) /\ t[j] = s[j]
    BY <2>1, <2>2 DEF Increasing
  <2>3. CASE j = Len(s) + 1 /\ t[j] = x
    BY <2>1, <2>3, <1>3
  <2> QED BY <2>2, <2>3, <1>4
<1> QED BY <1>1, <1>5, <1>6 DEF t

-----------------------------------------------------------------------------
(* What is left alone keeps its part of the invariant *)

LEMMA TypesKept ==
  /\ UNCHANGED sync /\ SyncOK => SyncOK'
  /\ UNCHANGED rx /\ RxOK => RxOK'
  /\ UNCHANGED proc /\ ProcOK => ProcOK'
  /\ UNCHANGED sensing /\ SensingOK => SensingOK'
  /\ UNCHANGED llrs /\ LlrsOK => LlrsOK'
  /\ UNCHANGED bit /\ BitOK => BitOK'
  /\ UNCHANGED stop /\ StopOK => StopOK'
  /\ UNCHANGED seen /\ SeenOK => SeenOK'
  /\ UNCHANGED budget /\ BudgetOK => BudgetOK'
BY DEF SyncOK, RxOK, ProcOK, SensingOK, LlrsOK, BitOK, StopOK, SeenOK, BudgetOK

LEMMA QueuesKept ==
  ASSUME NEW k \in Cuts
  PROVE  /\ UNCHANGED <<seen, budget>> /\ CutsInv(k) => CutsInv(k)'
         /\ UNCHANGED <<rx, budget>> /\ HandInv(k) => HandInv(k)'
         /\ UNCHANGED rx /\ QueueInv(k) => QueueInv(k)'
         /\ UNCHANGED llrs /\ LlrsInv(k) => LlrsInv(k)'
BY DEF CutsInv, HandInv, QueueInv, LlrsInv

LEMMA DemodKept ==
  ASSUME UNCHANGED demodVars, NEW k \in Cuts, NEW j \in Cuts, DemodInv(k),
         proc'.pc = "done" <=> proc.pc = "done", j.llrs = k.llrs, j.demod = k.demod
  PROVE  DemodInv(j)'
BY DEF demodVars, DemodInv

LEMMA DecodeKept ==
  ASSUME UNCHANGED decodeVars, NEW k \in Cuts, NEW j \in Cuts, DecodeInv(k),
         bit'.pc = "done" <=> bit.pc = "done", seen'.decoded = seen.decoded,
         j.decode = k.decode
  PROVE  DecodeInv(j)'
BY DEF decodeVars, DecodeInv

\* The receiver may go on to the next generation, which has no alignment yet.
LEMMA OwedKept ==
  ASSUME UNCHANGED <<seen, sensing>>, MeasurementInv, SeenOK, SyncOK,
         SensingRunning' => SensingRunning, proc'.deferred = proc.deferred,
         sync'.gen \in {sync.gen, sync.gen + 1}
  PROVE  MeasurementInv'
<1>1. seen.gen \in Nat /\ sync.gen \in Nat /\ seen.gen <= sync.gen /\ MeasurementIsOwed
  BY DEF SeenOK, SyncOK, MeasurementInv
<1>2. seen'.gen <= sync'.gen
  BY <1>1
<1>3. MeasurementIsOwed'
  <2>1. CASE sync'.gen = sync.gen
    BY <1>1, <2>1 DEF MeasurementIsOwed, Stale
  <2>2. CASE sync'.gen = sync.gen + 1
    <3>1. seen'.gen # sync'.gen
      BY <1>1, <2>2
    <3> QED BY <3>1 DEF MeasurementIsOwed
  <2> QED BY <2>1, <2>2
<1> QED BY <1>2, <1>3 DEF MeasurementInv

\* Nothing that the control of the process thread reads has changed.
LEMMA ProcKept ==
  ASSUME UNCHANGED <<proc, demodVars, seen>>, NEW k \in Cuts
  PROVE  /\ ProcRoom => ProcRoom'
         /\ OwedInv(k) => OwedInv(k)'
BY DEF demodVars, ProcRoom, OwedInv, D!Full, D!Ready, D!Result

LEMMA BitKept ==
  ASSUME UNCHANGED <<bit, decodeVars>>, BitRoom
  PROVE  BitRoom'
BY DEF decodeVars, BitRoom, L!Full

\* No frame is counted as decoded after a later one.
Onward == seen.decoded <= seen'.decoded

LEMMA SeenIsNat ==
  ASSUME SeenOK
  PROVE  /\ seen.decoded \in Nat /\ seen.unmeasured \in Nat
         /\ UNCHANGED seen => Onward
BY DEF SeenOK, Onward

LEMMA CutsAreNat ==
  ASSUME NEW k \in Cuts
  PROVE  k.queue \in Nat /\ k.demod \in Nat /\ k.llrs \in Nat /\ k.decode \in Nat
BY DEF Cuts

\* The one frame that the receive thread may have in its hand.
LEMMA OneInHand ==
  ASSUME NEW R, NEW s \in Seq(R), NEW h \in Seq(R), h # <<>>, Len(h) <= 1
  PROVE  Len(h) = 1 /\ h[1] \in R /\ s \o h = Append(s, h[1])
<1>1. Len(h) \in Nat /\ Len(h) # 0
  OBVIOUS
<1>2. Len(h) = 1
  <2>1. ASSUME NEW n \in Nat, n # 0, n <= 1 PROVE n = 1
    BY <2>1
  <2> QED BY <1>1, <2>1
<1>3. h[1] \in R
  BY <1>2
<1>4. s \o h = Append(s, h[1])
  <2>1. s \o h \in Seq(R) /\ Append(s, h[1]) \in Seq(R)
    BY <1>3
  <2>2. Len(s \o h) = Len(s) + 1 /\ Len(Append(s, h[1])) = Len(s) + 1 /\ Len(s) \in Nat
    <3>1. Len(s \o h) = Len(s) + Len(h)
      OBVIOUS
    <3>2. Len(Append(s, h[1])) = Len(s) + 1 /\ Len(s) \in Nat
      BY <1>3
    <3> QED BY <1>2, <3>1, <3>2
  <2>3. \A i \in 1 .. Len(s) + 1 : (s \o h)[i] = Append(s, h[1])[i]
    <3> TAKE i \in 1 .. Len(s) + 1
    <3>1. CASE i = Len(s) + 1
      <4>1. (s \o h)[i] = h[i - Len(s)] /\ i - Len(s) = 1
        BY <1>2, <2>2, <3>1
      <4>2. Append(s, h[1])[i] = h[1]
        BY <3>1
      <4> QED BY <4>1, <4>2
    <3>2. CASE i # Len(s) + 1
      <4>1. i \in 1 .. Len(s)
        BY <2>2, <3>2
      <4> QED BY <4>1, <1>2, <2>2
    <3> QED BY <3>1, <3>2
  <2> QED BY <2>1, <2>2, <2>3
<1> QED BY <1>2, <1>3, <1>4

\* What becomes of the receive thread's hand, and of the frame queue.
LEMMA RxHandIs ==
  ASSUME RxOK, NEW h \in Seq(FrameRecords), Len(h) <= 1, NEW a \in BOOLEAN,
         rx' = [rx EXCEPT !.hand = h, !.aligning = a]
  PROVE  rx'.hand = h /\ rx'.queue = rx.queue /\ RxOK'
<1>1. rx'.hand = h /\ rx'.queue = rx.queue
  BY DEF RxOK
<1>2. rx' \in [hand : Seq(FrameRecords), aligning : BOOLEAN, queue : Seq(FrameRecords)]
  BY DEF RxOK
<1> QED BY <1>1, <1>2 DEF RxOK

LEMMA RxQueueIs ==
  ASSUME RxOK, NEW q \in Seq(FrameRecords), rx' = [rx EXCEPT !.queue = q]
  PROVE  rx'.hand = rx.hand /\ rx'.queue = q /\ RxOK'
<1>1. rx'.hand = rx.hand /\ rx'.queue = q
  BY DEF RxOK
<1>2. rx' \in [hand : Seq(FrameRecords), aligning : BOOLEAN, queue : Seq(FrameRecords)]
  BY DEF RxOK
<1> QED BY <1>1, <1>2 DEF RxOK

-----------------------------------------------------------------------------
(* The receive thread *)

LEMMA ReceivesStep ==
  ASSUME UeInv, NEW f \in FrameRecords, NEW a \in BOOLEAN, f.n = budget.frame,
         Receives(f, a)
  PROVE  UeInv' /\ Onward
<1>1. PICK k \in Cuts : OrderInv(k)
  BY DEF UeInv
<1>2. /\ UeTypeOK /\ ProcRoom /\ BitRoom /\ MeasurementInv
      /\ CutsInv(k) /\ HandInv(k) /\ QueueInv(k) /\ DemodInv(k) /\ LlrsInv(k) /\ DecodeInv(k)
      /\ OwedInv(k)
  BY <1>1 DEF UeInv, OrderInv
<1>3. /\ UNCHANGED <<sync, proc, demodVars, sensing, llrs, bit, decodeVars, stop, seen>>
      /\ rx' = [rx EXCEPT !.hand = <<f>>, !.aligning = a]
      /\ budget' = [budget EXCEPT !.frame = @ + 1]
  BY DEF Receives
<1>4. /\ rx'.hand = <<f>> /\ rx'.queue = rx.queue /\ RxOK'
  <2>1. <<f>> \in Seq(FrameRecords) /\ Len(<<f>>) = 1
    OBVIOUS
  <2> DEFINE h == <<f>>
  <2>2. h \in Seq(FrameRecords) /\ Len(h) <= 1
    BY <2>1
  <2>3. rx' = [rx EXCEPT !.hand = h, !.aligning = a]
    BY <1>3
  <2>4. RxOK
    BY <1>2 DEF UeTypeOK
  <2> HIDE DEF h
  <2>5. rx'.hand = h /\ rx'.queue = rx.queue /\ RxOK'
    BY <2>2, <2>3, <2>4, RxHandIs
  <2> QED BY <2>5 DEF h
<1>5. /\ budget.frame \in Nat /\ budget'.frame = budget.frame + 1 /\ BudgetOK'
  BY <1>2, <1>3 DEF UeTypeOK, BudgetOK
<1>6. UeTypeOK'
  BY <1>2, <1>3, <1>4, <1>5, TypesKept, DemodSame, DecodeSame DEF UeTypeOK
<1>7. CutsInv(k)' /\ HandInv(k)'
  <2>1. k.queue < budget.frame /\ k.queue \in Nat
    BY <1>2, CutsAreNat DEF CutsInv
  <2>2. CutsInv(k)'
    BY <1>2, <1>3, <1>5, <2>1 DEF CutsInv
  <2>3. Len(<<f>>) = 1 /\ <<f>>[1] = f
    OBVIOUS
  <2>4. k.queue < f.n /\ f.n <= budget'.frame - 1
    BY <1>5, <2>1
  <2> QED BY <1>4, <2>2, <2>3, <2>4 DEF HandInv, From
<1>8. QueueInv(k)'
  BY <1>2, <1>4 DEF QueueInv
<1>9. LlrsInv(k)' /\ DemodInv(k)' /\ DecodeInv(k)'
  BY <1>2, <1>3, QueuesKept, DemodKept, DecodeKept
<1>10. ProcRoom' /\ BitRoom' /\ OwedInv(k)' /\ MeasurementInv'
  <2>1. SensingRunning' => SensingRunning
    BY <1>3 DEF SensingRunning
  <2>2. sync'.gen = sync.gen
    BY <1>3
  <2> QED BY <1>2, <1>3, <2>1, <2>2, ProcKept, BitKept, OwedKept DEF UeTypeOK
<1>11. Onward
  BY <1>2, <1>3, SeenIsNat DEF UeTypeOK
<1> QED BY <1>6, <1>7, <1>8, <1>9, <1>10, <1>11 DEF UeInv, OrderInv

LEMMA RxNormalStep ==
  ASSUME UeInv, RxNormal
  PROVE  UeInv' /\ Onward
<1>1. budget.frame \in Nat /\ sync.gen \in Nat
  BY DEF UeInv, UeTypeOK, BudgetOK, SyncOK
<1>2. [n |-> budget.frame, gen |-> sync.gen, align |-> FALSE] \in FrameRecords
  BY <1>1 DEF FrameRecords
<1> QED BY <1>2, ReceivesStep DEF RxNormal

LEMMA RxAlignStep ==
  ASSUME UeInv, RxAlign
  PROVE  UeInv' /\ Onward
<1>1. budget.frame \in Nat /\ sync.gen \in Nat
  BY DEF UeInv, UeTypeOK, BudgetOK, SyncOK
<1>2. PICK a \in BOOLEAN :
        Receives([n |-> budget.frame, gen |-> sync.gen, align |-> a], TRUE)
  BY DEF RxAlign
<1>3. [n |-> budget.frame, gen |-> sync.gen, align |-> a] \in FrameRecords
  BY <1>1 DEF FrameRecords
<1> QED BY <1>2, <1>3, ReceivesStep

LEMMA RxPushStep ==
  ASSUME UeInv, RxPush
  PROVE  UeInv' /\ Onward
<1>1. PICK k \in Cuts : OrderInv(k)
  BY DEF UeInv
<1>2. /\ UeTypeOK /\ ProcRoom /\ BitRoom /\ MeasurementInv
      /\ CutsInv(k) /\ HandInv(k) /\ QueueInv(k) /\ DemodInv(k) /\ LlrsInv(k) /\ DecodeInv(k)
      /\ OwedInv(k)
  BY <1>1 DEF UeInv, OrderInv
<1>3. /\ UNCHANGED <<proc, demodVars, sensing, llrs, bit, decodeVars, stop, seen, budget>>
      /\ sync' = IF rx.aligning THEN [sync EXCEPT !.state = "NORMAL"] ELSE sync
      /\ rx.hand # <<>>
      /\ \/ rx' = [hand |-> <<>>, aligning |-> FALSE, queue |-> rx.queue \o rx.hand]
         \/ rx' = [rx EXCEPT !.hand = <<>>, !.aligning = FALSE]
  BY DEF RxPush
<1>4. SyncOK'
  BY <1>2, <1>3 DEF UeTypeOK, SyncOK
<1>5. /\ rx.queue \in Seq(FrameRecords) /\ rx.hand \in Seq(FrameRecords)
      /\ Len(rx.hand) = 1 /\ rx.hand[1] \in FrameRecords
      /\ rx.queue \o rx.hand = Append(rx.queue, rx.hand[1])
  <2>1. rx.queue \in Seq(FrameRecords) /\ rx.hand \in Seq(FrameRecords) /\ Len(rx.hand) <= 1
    BY <1>2 DEF UeTypeOK, RxOK
  <2>2. rx.hand # <<>>
    BY <1>3
  <2> QED BY <2>1, <2>2, OneInHand
<1> DEFINE x == rx.hand[1]
<1>6. /\ k.queue < x.n /\ x.n <= budget.frame - 1 /\ x.n \in Nat /\ budget.frame \in Nat
  <2>1. x.n \in Nat
    BY <1>5 DEF FrameRecords
  <2>2. 1 \in 1 .. Len(rx.hand)
    BY <1>5
  <2>3. budget.frame \in Nat
    BY <1>2 DEF UeTypeOK, BudgetOK
  <2> QED BY <1>2, <2>1, <2>2, <2>3 DEF HandInv, From
<1>c. PICK j \in Cuts : /\ j.queue = x.n /\ j.demod = k.demod /\ j.llrs = k.llrs
                       /\ j.decode = k.decode
  <2>1. [k EXCEPT !.queue = x.n] \in Cuts
    BY <1>6 DEF Cuts
  <2> QED BY <2>1 DEF Cuts
<1>7. /\ k.queue \in Nat /\ k.demod \in Nat /\ k.demod <= k.queue
      /\ j.queue = x.n /\ j.demod = k.demod /\ j.llrs = k.llrs /\ j.decode = k.decode
  BY <1>2, <1>c, CutsAreNat DEF CutsInv
<1>8. UNCHANGED <<proc, demodVars, sensing, llrs, bit, decodeVars, stop, seen, budget>>
  BY <1>3
<1>9. ProcRoom' /\ BitRoom' /\ MeasurementInv' /\ Onward /\ OwedInv(k)'
  <2>1. SensingRunning' => SensingRunning
    BY <1>3 DEF SensingRunning
  <2>2. sync'.gen = sync.gen
    BY <1>2, <1>3 DEF UeTypeOK, SyncOK
  <2> QED BY <1>2, <1>8, <2>1, <2>2, ProcKept, BitKept, OwedKept, SeenIsNat DEF UeTypeOK
<1> HIDE DEF x
<1>10. CASE rx' = [hand |-> <<>>, aligning |-> FALSE, queue |-> rx.queue \o rx.hand]
  <2>1. /\ rx'.hand = <<>> /\ rx'.queue = Append(rx.queue, x)
    BY <1>5, <1>10 DEF x
  <2>2. /\ Append(rx.queue, x) \in Seq(FrameRecords)
        /\ From(Append(rx.queue, x), k.demod, x.n)
        /\ Increasing(Append(rx.queue, x))
    <3>1. k.demod < x.n
      BY <1>6, <1>7
    <3>2. x \in FrameRecords
      BY <1>5 DEF x
    <3> QED BY <1>2, <1>5, <1>6, <1>7, <3>1, <3>2, FromAppend DEF QueueInv
  <2>3. RxOK'
    <3>1. <<>> \in Seq(FrameRecords) /\ Len(<<>>) <= 1
      OBVIOUS
    <3> QED BY <1>10, <2>1, <2>2, <3>1 DEF RxOK
  <2>4. UeTypeOK'
    BY <1>2, <1>4, <1>8, <2>3, TypesKept, DemodSame, DecodeSame DEF UeTypeOK
  <2>5. CutsInv(j)'
    <3>1. CutsInv(j)
      BY <1>2, <1>6, <1>7 DEF CutsInv
    <3> QED BY <1>7, <1>8, <3>1, QueuesKept
  <2>6. HandInv(j)' /\ QueueInv(j)'
    <3>1. From(rx'.hand, j.queue, budget'.frame - 1)
      BY <2>1, EmptyQueue
    <3> QED BY <1>7, <2>1, <2>2, <3>1 DEF HandInv, QueueInv
  <2>7. LlrsInv(j)'
    BY <1>2, <1>3, <1>7 DEF LlrsInv
  <2>8. DemodInv(j)' /\ DecodeInv(j)'
    BY <1>2, <1>7, <1>8, DemodKept, DecodeKept
  <2>9. OwedInv(j)'
    BY <1>7, <1>9 DEF OwedInv
  <2> QED BY <1>7, <1>9, <2>4, <2>5, <2>6, <2>7, <2>8, <2>9 DEF UeInv, OrderInv
<1>11. CASE rx' = [rx EXCEPT !.hand = <<>>, !.aligning = FALSE]
  <2>1. /\ rx'.hand = <<>> /\ rx'.queue = rx.queue /\ RxOK'
    <3>1. <<>> \in Seq(FrameRecords) /\ Len(<<>>) <= 1
      OBVIOUS
    <3> QED BY <1>2, <1>11, <3>1, RxHandIs DEF UeTypeOK
  <2>2. UeTypeOK'
    BY <1>2, <1>4, <1>8, <2>1, TypesKept, DemodSame, DecodeSame DEF UeTypeOK
  <2>3. HandInv(k)' /\ QueueInv(k)'
    BY <1>2, <2>1, EmptyQueue DEF HandInv, QueueInv
  <2>4. CutsInv(k)' /\ LlrsInv(k)' /\ DemodInv(k)' /\ DecodeInv(k)'
    BY <1>2, <1>8, QueuesKept, DemodKept, DecodeKept
  <2> QED BY <1>9, <2>2, <2>3, <2>4 DEF UeInv, OrderInv
<1> QED BY <1>3, <1>10, <1>11

\* The queue may be emptied and the receiver be sent back, as long as nobody else
\* is disturbed.
LEMMA RxRestartStep ==
  ASSUME UeInv, RxRestart
  PROVE  UeInv' /\ Onward
<1>1. PICK k \in Cuts : OrderInv(k)
  BY DEF UeInv
<1>2. /\ UeTypeOK /\ ProcRoom /\ BitRoom /\ MeasurementInv
      /\ CutsInv(k) /\ HandInv(k) /\ QueueInv(k) /\ DemodInv(k) /\ LlrsInv(k) /\ DecodeInv(k)
      /\ OwedInv(k)
  BY <1>1 DEF UeInv, OrderInv
<1>3. /\ UNCHANGED <<proc, demodVars, sensing, llrs, bit, decodeVars, stop, seen>>
      /\ budget.troubles > 0
      /\ sync' = [state |-> "SYNC_SEARCH", gen |-> sync.gen + 1, clear |-> TRUE]
      /\ rx' = [rx EXCEPT !.hand = <<>>, !.aligning = FALSE]
      /\ budget' = [budget EXCEPT !.troubles = @ - 1]
  BY DEF RxRestart
<1>4. SyncOK'
  <2>1. sync.gen \in Nat
    BY <1>2 DEF UeTypeOK, SyncOK
  <2>2. sync.gen + 1 \in Nat
    BY <2>1
  <2> QED BY <1>3, <2>2 DEF SyncOK
<1>5. budget'.frame = budget.frame /\ BudgetOK'
  BY <1>2, <1>3 DEF UeTypeOK, BudgetOK
<1>6. /\ rx'.hand = <<>> /\ rx'.queue = rx.queue /\ RxOK'
  <2>1. <<>> \in Seq(FrameRecords) /\ Len(<<>>) <= 1
    OBVIOUS
  <2> QED BY <1>2, <1>3, <2>1, RxHandIs DEF UeTypeOK
<1>7. UeTypeOK'
  BY <1>2, <1>3, <1>4, <1>5, <1>6, TypesKept, DemodSame, DecodeSame DEF UeTypeOK
<1>8. CutsInv(k)' /\ HandInv(k)' /\ QueueInv(k)'
  BY <1>2, <1>3, <1>5, <1>6, EmptyQueue DEF CutsInv, HandInv, QueueInv
<1>9. LlrsInv(k)' /\ DemodInv(k)' /\ DecodeInv(k)'
  BY <1>2, <1>3, QueuesKept, DemodKept, DecodeKept
<1>10. ProcRoom' /\ BitRoom' /\ MeasurementInv' /\ Onward /\ OwedInv(k)'
  <2>1. SensingRunning' => SensingRunning
    BY <1>3 DEF SensingRunning
  <2>2. sync'.gen = sync.gen + 1
    BY <1>3
  <2> QED BY <1>2, <1>3, <2>1, <2>2, ProcKept, BitKept, OwedKept, SeenIsNat DEF UeTypeOK
<1> QED BY <1>7, <1>8, <1>9, <1>10 DEF UeInv, OrderInv

-----------------------------------------------------------------------------
(* The demodulation workers and the process thread *)

LEMMA DemodulateStep ==
  ASSUME UeInv, NEW w \in D!ids, Demodulate(w)
  PROVE  UeInv' /\ Onward
<1>1. PICK k \in Cuts :
        /\ UeTypeOK /\ ProcRoom /\ BitRoom /\ MeasurementInv
        /\ CutsInv(k) /\ HandInv(k) /\ QueueInv(k) /\ DemodInv(k) /\ LlrsInv(k)
        /\ DecodeInv(k) /\ OwedInv(k)
  BY DEF UeInv, OrderInv
<1>2. /\ UNCHANGED <<sync, rx, proc, sensing, llrs, bit, decodeVars, stop, seen, budget>>
      /\ demod[w].tasks # <<>>
  BY DEF Demodulate
<1>3. w \in 0 .. Demodulators - 1
  BY DEF D!ids
<1>4. DemodOK
  BY <1>1 DEF UeTypeOK
<1>5. PICK r \in Demodulated : r.frame = Head(demod[w].tasks) /\ D!Work(w, r)
  <2>1. Head(demod[w].tasks) \in FrameRecords
    <3>1. demod \in [0 .. Demodulators - 1 -> Slots(Demodulated)]
      BY <1>4 DEF DemodOK
    <3>2. demod[w].tasks \in Seq(FrameRecords)
      BY <1>3, <3>1, Sizes, FramedResults, AllNumbersAre
    <3> QED BY <1>2, <3>2
  <2> DEFINE f == Head(demod[w].tasks)
  <2>2. \/ D!Work(w, [frame |-> f, dropped |-> TRUE, llr |-> FALSE])
        \/ \E data \in Payloads : D!Work(w, [frame |-> f, dropped |-> FALSE, llr |-> data])
    BY DEF Demodulate
  <2>3. Payloads \subseteq BOOLEAN
    BY Sizes
  <2> HIDE DEF f
  <2>4. f \in FrameRecords
    BY <2>1 DEF f
  <2>5. CASE D!Work(w, [frame |-> f, dropped |-> TRUE, llr |-> FALSE])
    <3> DEFINE r == [frame |-> f, dropped |-> TRUE, llr |-> FALSE]
    <3>1. r \in Demodulated /\ r.frame = f
      BY <2>4 DEF Demodulated
    <3> HIDE DEF r
    <3>2. D!Work(w, r)
      BY <2>5 DEF r
    <3>3. r.frame = Head(demod[w].tasks)
      BY <3>1 DEF f
    <3> QED BY <3>1, <3>2, <3>3
  <2>6. CASE \E data \in Payloads : D!Work(w, [frame |-> f, dropped |-> FALSE, llr |-> data])
    <3>1. PICK data \in Payloads : D!Work(w, [frame |-> f, dropped |-> FALSE, llr |-> data])
      BY <2>6
    <3> DEFINE r == [frame |-> f, dropped |-> FALSE, llr |-> data]
    <3>2. r \in Demodulated /\ r.frame = f
      BY <2>3, <2>4 DEF Demodulated
    <3> HIDE DEF r
    <3>3. D!Work(w, r)
      BY <3>1 DEF r
    <3>4. r.frame = Head(demod[w].tasks)
      BY <3>2 DEF f
    <3> QED BY <3>2, <3>3, <3>4
  <2> QED BY <2>2, <2>5, <2>6
<1>6. /\ DemodOK'
      /\ AllNumbers(demod, Demodulators)' = AllNumbers(demod, Demodulators)
      /\ UNCHANGED <<demodNext, demodTurn>>
      /\ D!Full' <=> D!Full
      /\ D!Ready => D!Ready' /\ D!Result' = D!Result
  BY <1>2, <1>3, <1>4, <1>5, DemodRun
<1>7. UeTypeOK'
  BY <1>1, <1>2, <1>6, TypesKept, DecodeSame DEF UeTypeOK
<1>8. CutsInv(k)' /\ HandInv(k)' /\ QueueInv(k)' /\ LlrsInv(k)' /\ DecodeInv(k)' /\ BitRoom'
  BY <1>1, <1>2, QueuesKept, DecodeKept, BitKept
<1>9. DemodInv(k)'
  BY <1>1, <1>2, <1>6 DEF DemodInv
<1>10. ProcRoom' /\ OwedInv(k)'
  BY <1>1, <1>2, <1>6 DEF ProcRoom, OwedInv
<1>11. MeasurementInv' /\ Onward
  <2>1. SensingRunning' => SensingRunning
    BY <1>2 DEF SensingRunning
  <2> QED BY <1>1, <1>2, <2>1, OwedKept, SeenIsNat DEF UeTypeOK
<1> QED BY <1>7, <1>8, <1>9, <1>10, <1>11 DEF UeInv, OrderInv

\* Where the process thread goes next.
LEMMA ProcGoes ==
  ASSUME ProcOK, NEW p \in {"collect", "clear", "search", "launch", "launched", "frame",
                            "llr", "exit", "join", "done"},
         proc' = [proc EXCEPT !.pc = p]
  PROVE  ProcOK' /\ proc'.pc = p /\ proc'.then = proc.then /\ proc'.deferred = proc.deferred
BY DEF ProcOK

LEMMA CollectIs ==
  ASSUME ProcOK, NEW x \in {"clear", "launched", "frame", "join"}, proc' = Collect(x)
  PROVE  ProcOK' /\ proc'.pc = "collect" /\ proc'.then = x /\ proc'.deferred = proc.deferred
BY DEF ProcOK, Collect

LEMMA AgainIs ==
  ASSUME ProcOK, proc' = Again
  PROVE  /\ ProcOK' /\ proc'.deferred = proc.deferred
         /\ proc'.pc \in {"collect", "exit"} /\ (proc'.pc = "collect" => proc'.then = "clear")
BY CollectIs, ProcGoes DEF Again

LEMMA CollectedIs ==
  ASSUME ProcOK, proc' = Collected
  PROVE  /\ ProcOK' /\ proc'.then = proc.then /\ proc'.deferred = proc.deferred
         /\ proc'.pc \in {"collect", proc.then}
<1>1. proc.then \in {"clear", "launched", "frame", "join"}
  BY DEF ProcOK
<1>2. CASE Running /\ sync.state = "NORMAL"
  <2>1. proc' = [proc EXCEPT !.pc = "collect"]
    BY <1>2 DEF Collected
  <2> QED BY <2>1, ProcGoes
<1>3. CASE ~(Running /\ sync.state = "NORMAL")
  <2>1. proc' = [proc EXCEPT !.pc = proc.then]
    BY <1>3 DEF Collected
  <2> QED BY <1>1, <2>1, ProcGoes
<1> QED BY <1>2, <1>3

\* The process thread only goes on, with room for a frame if it is to hand one out.
LEMMA ProcMoves ==
  ASSUME UeInv,
         UNCHANGED <<sync, rx, demodVars, sensing, llrs, bit, decodeVars, stop, seen, budget>>,
         ProcOK', proc'.deferred = proc.deferred,
         proc.pc \notin {"llr", "done"}, proc'.pc \notin {"llr", "done"},
         proc'.pc = "frame" \/ (proc'.pc = "collect" /\ proc'.then = "frame") => ~D!Full
  PROVE  UeInv' /\ Onward
<1>1. PICK k \in Cuts :
        /\ UeTypeOK /\ ProcRoom /\ BitRoom /\ MeasurementInv
        /\ CutsInv(k) /\ HandInv(k) /\ QueueInv(k) /\ DemodInv(k) /\ LlrsInv(k)
        /\ DecodeInv(k) /\ OwedInv(k)
  BY DEF UeInv, OrderInv
<1>2. UeTypeOK'
  BY <1>1, TypesKept, DemodSame, DecodeSame DEF UeTypeOK
<1>3. /\ CutsInv(k)' /\ HandInv(k)' /\ QueueInv(k)' /\ LlrsInv(k)' /\ DecodeInv(k)'
      /\ DemodInv(k)' /\ BitRoom'
  BY <1>1, QueuesKept, DecodeKept, DemodKept, BitKept
<1>4. ProcRoom'
  BY DemodSame DEF ProcRoom
<1>5. OwedInv(k)'
  BY <1>1 DEF OwedInv
<1>6. MeasurementInv' /\ Onward
  <2>1. SensingRunning' => SensingRunning
    BY DEF SensingRunning
  <2> QED BY <1>1, <2>1, OwedKept, SeenIsNat DEF UeTypeOK
<1> QED BY <1>2, <1>3, <1>4, <1>5, <1>6 DEF UeInv, OrderInv

LEMMA ProcStillStep ==
  ASSUME UeInv, ProcSearched \/ ProcLaunch \/ ProcLaunched \/ ProcWait \/ ProcExit
  PROVE  UeInv' /\ Onward
<1>0. ProcOK /\ ProcRoom
  BY DEF UeInv, UeTypeOK
<1>1. CASE ProcSearched
  BY <1>0, <1>1, AgainIs, ProcMoves DEF ProcSearched, At
<1>2. CASE ProcLaunch
  BY <1>0, <1>2, CollectIs, ProcGoes, ProcMoves DEF ProcLaunch, At
<1>3. CASE ProcLaunched
  BY <1>0, <1>3, AgainIs, ProcGoes, ProcMoves DEF ProcLaunched, Turn, At
<1>4. CASE ProcWait
  BY <1>0, <1>4, AgainIs, CollectIs, ProcMoves DEF ProcWait, Turn, At, ProcRoom
<1>5. CASE ProcExit
  BY <1>0, <1>5, CollectIs, ProcGoes, ProcMoves DEF ProcExit, At
<1> QED BY <1>1, <1>2, <1>3, <1>4, <1>5

\* The process thread empties the frame queue.
LEMMA ProcEmpties ==
  ASSUME UeInv,
         UNCHANGED <<demodVars, sensing, llrs, bit, decodeVars, stop, seen, budget>>, SyncOK',
         sync'.gen = sync.gen,
         rx' = [rx EXCEPT !.queue = <<>>] \/ UNCHANGED rx,
         ProcOK', proc'.deferred = proc.deferred,
         proc.pc \notin {"llr", "done"}, proc'.pc \notin {"llr", "done"},
         proc'.pc = "frame" \/ (proc'.pc = "collect" /\ proc'.then = "frame") => ~D!Full
  PROVE  UeInv' /\ Onward
<1>1. PICK k \in Cuts :
        /\ UeTypeOK /\ ProcRoom /\ BitRoom /\ MeasurementInv
        /\ CutsInv(k) /\ HandInv(k) /\ QueueInv(k) /\ DemodInv(k) /\ LlrsInv(k)
        /\ DecodeInv(k) /\ OwedInv(k)
  BY DEF UeInv, OrderInv
<1>2. RxOK /\ rx.queue \in Seq(FrameRecords)
  BY <1>1 DEF UeTypeOK, RxOK
<1>3. /\ rx'.hand = rx.hand /\ rx'.queue \in {<<>>, rx.queue} /\ RxOK'
  <2>1. CASE rx' = [rx EXCEPT !.queue = <<>>]
    <3>1. <<>> \in Seq(FrameRecords)
      OBVIOUS
    <3> QED BY <1>2, <2>1, <3>1, RxQueueIs
  <2>2. CASE UNCHANGED rx
    BY <1>2, <2>2, TypesKept
  <2> QED BY <2>1, <2>2
<1>4. UeTypeOK'
  BY <1>1, <1>3, TypesKept, DemodSame, DecodeSame DEF UeTypeOK
<1>5. HandInv(k)' /\ QueueInv(k)'
  <2>1. HandInv(k)'
    BY <1>1, <1>3 DEF HandInv
  <2>2. CASE rx'.queue = <<>>
    BY <2>1, <2>2, EmptyQueue DEF QueueInv
  <2>3. CASE rx'.queue = rx.queue
    BY <1>1, <2>1, <2>3 DEF QueueInv
  <2> QED BY <1>3, <2>1, <2>2, <2>3
<1>6. /\ CutsInv(k)' /\ LlrsInv(k)' /\ DecodeInv(k)' /\ DemodInv(k)' /\ BitRoom'
  BY <1>1, QueuesKept, DecodeKept, DemodKept, BitKept
<1>7. ProcRoom'
  BY DemodSame DEF ProcRoom
<1>8. OwedInv(k)'
  BY <1>1 DEF OwedInv
<1>9. MeasurementInv' /\ Onward
  <2>1. SensingRunning' => SensingRunning
    BY DEF SensingRunning
  <2> QED BY <1>1, <2>1, OwedKept, SeenIsNat DEF UeTypeOK
<1> QED BY <1>4, <1>5, <1>6, <1>7, <1>8, <1>9 DEF UeInv, OrderInv

LEMMA ProcClearStep ==
  ASSUME UeInv, ProcClear
  PROVE  UeInv' /\ Onward
<1>0. ProcOK /\ SyncOK
  BY DEF UeInv, UeTypeOK
<1>1. /\ UNCHANGED <<demodVars, sensing, llrs, bit, decodeVars, stop, seen, budget>>
      /\ rx' = [rx EXCEPT !.queue = <<>>] \/ UNCHANGED rx
      /\ proc.pc \in {"clear", "collect"}
  BY DEF ProcClear, Turn, At
<1>2. SyncOK' /\ sync'.gen = sync.gen
  BY <1>0 DEF ProcClear, SyncOK
<1> DEFINE p == CASE sync.state = "SYNC_SEARCH" -> "search"
                  [] D!Full -> "launch"
                  [] OTHER -> "frame"
<1>3. p \in {"search", "launch", "frame"} /\ (p = "frame" => ~D!Full)
  OBVIOUS
<1>4. proc' = [proc EXCEPT !.pc = p]
  BY DEF ProcClear
<1> HIDE DEF p
<1>5. ProcOK' /\ proc'.pc = p /\ proc'.then = proc.then /\ proc'.deferred = proc.deferred
  BY <1>0, <1>3, <1>4, ProcGoes
<1> QED BY <1>1, <1>2, <1>3, <1>5, ProcEmpties

LEMMA ProcFoundStep ==
  ASSUME UeInv, ProcFound
  PROVE  UeInv' /\ Onward
<1>0. ProcOK /\ SyncOK
  BY DEF UeInv, UeTypeOK
<1>1. SyncOK' /\ sync'.gen = sync.gen
  BY <1>0 DEF ProcFound, SyncOK
<1> QED BY <1>0, <1>1, AgainIs, ProcEmpties DEF ProcFound, At

\* The earliest of the frames being demodulated is collected; it may go on to the
\* decoder.
LEMMA ProcPops ==
  ASSUME UeInv, D!Ready, D!Pop,
         UNCHANGED <<sensing, bit, decodeVars, stop, seen>>, SyncOK', BudgetOK',
         sync'.gen \in {sync.gen, sync.gen + 1},
         budget'.frame = budget.frame,
         rx' = [rx EXCEPT !.queue = <<>>] \/ UNCHANGED rx,
         llrs' = llrs \/ llrs' = Append(llrs, D!Result.frame),
         ProcOK', proc'.deferred = proc.deferred,
         proc.pc # "done", proc'.pc \notin {"llr", "done"},
         proc'.pc = "frame" \/ (proc'.pc = "collect" /\ proc'.then = "frame") => ~D!Full
  PROVE  UeInv' /\ Onward
<1>1. PICK k \in Cuts :
        /\ UeTypeOK /\ ProcRoom /\ BitRoom /\ MeasurementInv
        /\ CutsInv(k) /\ HandInv(k) /\ QueueInv(k) /\ DemodInv(k) /\ LlrsInv(k)
        /\ DecodeInv(k) /\ OwedInv(k)
  BY DEF UeInv, OrderInv
<1>2. /\ k.llrs \in Nat /\ k.demod \in Nat /\ k.queue \in Nat /\ k.decode \in Nat
  BY CutsAreNat
<1>3. /\ DemodOK' /\ D!Result \in Demodulated
      /\ D!Result.frame.n \in Nat
      /\ k.llrs < D!Result.frame.n /\ D!Result.frame.n <= k.demod
      /\ StageInv(AllNumbers(demod, Demodulators)', demodNext', demodTurn', Demodulators,
                  D!Result.frame.n, k.demod)
      /\ ~D!Full => ~D!Full'
  BY <1>1, <1>2, DemodTaken DEF UeTypeOK
<1>4. PICK x \in FrameRecords : x = D!Result.frame
  <2>1. D!Result.frame \in FrameRecords
    BY <1>3 DEF Demodulated
  <2> QED BY <2>1
<1>5. /\ x.n \in Nat /\ k.llrs < x.n /\ x.n <= k.demod
      /\ StageInv(AllNumbers(demod, Demodulators)', demodNext', demodTurn', Demodulators,
                  x.n, k.demod)
  BY <1>3, <1>4
<1>6. PICK j \in Cuts : /\ j.queue = k.queue /\ j.demod = k.demod /\ j.llrs = x.n
                        /\ j.decode = k.decode
  <2>1. [k EXCEPT !.llrs = x.n] \in Cuts
    BY <1>5 DEF Cuts
  <2> QED BY <2>1 DEF Cuts
<1>7. RxOK /\ rx.queue \in Seq(FrameRecords) /\ llrs \in Seq(FrameRecords)
  BY <1>1 DEF UeTypeOK, RxOK, LlrsOK
<1>8. /\ rx'.hand = rx.hand /\ rx'.queue \in {<<>>, rx.queue} /\ RxOK'
  <2>1. CASE rx' = [rx EXCEPT !.queue = <<>>]
    <3>1. <<>> \in Seq(FrameRecords)
      OBVIOUS
    <3> QED BY <1>7, <2>1, <3>1, RxQueueIs
  <2>2. CASE UNCHANGED rx
    BY <1>7, <2>2, TypesKept
  <2> QED BY <2>1, <2>2
<1>9. LlrsOK' /\ LlrsInv(j)'
  <2>1. k.decode < x.n /\ k.decode <= k.llrs
    BY <1>1, <1>2, <1>5 DEF CutsInv
  <2>2. From(llrs, k.decode, k.llrs) /\ Increasing(llrs)
    BY <1>1 DEF LlrsInv
  <2>3. llrs' \in Seq(FrameRecords) /\ From(llrs', k.decode, x.n) /\ Increasing(llrs')
    <3>1. CASE llrs' = llrs
      <4>1. k.decode <= k.decode /\ k.llrs <= x.n
        BY <1>2, <1>5
      <4>2. From(llrs, k.decode, x.n)
        BY <1>2, <1>5, <1>7, <2>2, <4>1, FromWider
      <4> QED BY <1>7, <2>2, <3>1, <4>2
    <3>2. CASE llrs' = Append(llrs, D!Result.frame)
      <4>1. llrs' = Append(llrs, x)
        BY <1>4, <3>2
      <4> QED BY <1>2, <1>5, <1>7, <2>1, <2>2, <4>1, FromAppend
    <3> QED BY <3>1, <3>2
  <2> QED BY <1>6, <2>3 DEF LlrsOK, LlrsInv
<1>10. UeTypeOK'
  BY <1>1, <1>3, <1>8, <1>9, TypesKept, DecodeSame DEF UeTypeOK
<1>11. HandInv(j)' /\ QueueInv(j)'
  <2>1. HandInv(j)'
    BY <1>1, <1>6, <1>8 DEF HandInv
  <2>2. QueueInv(j)'
    <3>1. CASE rx'.queue = <<>>
      BY <3>1, EmptyQueue DEF QueueInv
    <3>2. CASE rx'.queue = rx.queue
      BY <1>1, <1>6, <3>2 DEF QueueInv
    <3> QED BY <1>8, <3>1, <3>2
  <2> QED BY <2>1, <2>2
<1>12. CutsInv(j)'
  <2>1. /\ seen.decoded <= k.decode /\ k.decode <= k.llrs
        /\ k.demod <= k.queue /\ k.queue < budget.frame
    BY <1>1 DEF CutsInv
  <2>2. k.decode <= x.n /\ x.n <= k.demod
    BY <1>2, <1>5, <2>1
  <2> QED BY <1>6, <2>1, <2>2 DEF CutsInv
<1>13. DecodeInv(j)'
  BY <1>1, <1>6, DecodeKept
<1>14. DemodInv(j)'
  BY <1>5, <1>6 DEF DemodInv
<1>15. ProcRoom' /\ BitRoom'
  <2>1. ProcRoom'
    BY <1>3 DEF ProcRoom
  <2> QED BY <1>1, <2>1, BitKept
<1>16. OwedInv(j)'
  <2>1. seen.unmeasured \in Nat
    BY <1>1, SeenIsNat DEF UeTypeOK
  <2>2. seen.unmeasured <= k.llrs \/ seen.unmeasured = x.n
    BY <1>1, <1>4 DEF OwedInv
  <2>3. seen.unmeasured <= x.n
    BY <1>2, <1>5, <2>1, <2>2
  <2> QED BY <1>6, <2>3 DEF OwedInv
<1>17. MeasurementInv' /\ Onward
  <2>1. SensingRunning' => SensingRunning
    BY DEF SensingRunning
  <2> QED BY <1>1, <2>1, OwedKept, SeenIsNat DEF UeTypeOK
<1>18. OrderInv(j)'
  BY <1>9, <1>11, <1>12, <1>13, <1>14, <1>16 DEF OrderInv
<1> QED BY <1>6, <1>10, <1>15, <1>17, <1>18 DEF UeInv

LEMMA ProcReleaseStep ==
  ASSUME UeInv, ProcRelease
  PROVE  UeInv' /\ Onward
<1>0. ProcOK /\ ProcRoom /\ SyncOK /\ BudgetOK
  BY DEF UeInv, UeTypeOK
<1>1. /\ UNCHANGED <<sync, rx, sensing, llrs, bit, decodeVars, stop, seen, budget>>
      /\ D!Ready /\ D!Pop /\ proc.pc = "collect" /\ proc' = Collected
  BY DEF ProcRelease, At
<1>2. SyncOK' /\ BudgetOK'
  BY <1>0, <1>1, TypesKept
<1>3. /\ ProcOK' /\ proc'.then = proc.then /\ proc'.deferred = proc.deferred
      /\ proc'.pc \in {"collect", proc.then}
  BY <1>0, <1>1, CollectedIs
<1>4. proc.then \in {"clear", "launched", "frame", "join"}
  BY <1>0 DEF ProcOK
<1>5. proc.then = "frame" => ~D!Full
  BY <1>0, <1>1 DEF ProcRoom
<1> QED BY <1>1, <1>2, <1>3, <1>4, <1>5, ProcPops

LEMMA ProcResetStep ==
  ASSUME UeInv, ProcReset
  PROVE  UeInv' /\ Onward
<1>0. ProcOK /\ ProcRoom /\ SyncOK /\ BudgetOK
  BY DEF UeInv, UeTypeOK
<1>1. /\ UNCHANGED <<sensing, llrs, bit, decodeVars, stop, seen>>
      /\ D!Ready /\ D!Pop /\ proc.pc = "collect" /\ proc' = [proc EXCEPT !.pc = proc.then]
      /\ rx' = [rx EXCEPT !.queue = <<>>]
      /\ sync' = [sync EXCEPT !.state = "SYNC_SEARCH", !.gen = @ + 1]
      /\ budget.troubles > 0 /\ budget' = [budget EXCEPT !.troubles = @ - 1]
  BY DEF ProcReset, At
<1>2. SyncOK' /\ sync'.gen = sync.gen + 1
  <2>1. sync.gen \in Nat
    BY <1>0 DEF SyncOK
  <2>2. sync.gen + 1 \in Nat
    BY <2>1
  <2> DEFINE g == sync.gen + 1
  <2>3. sync' = [sync EXCEPT !.state = "SYNC_SEARCH", !.gen = g]
    BY <1>1
  <2> HIDE DEF g
  <2>4. g \in Nat
    BY <2>2 DEF g
  <2>5. SyncOK' /\ sync'.gen = g
    BY <1>0, <2>3, <2>4 DEF SyncOK
  <2> QED BY <2>5 DEF g
<1>3. BudgetOK' /\ budget'.frame = budget.frame
  BY <1>0, <1>1 DEF BudgetOK
<1>4. proc.then \in {"clear", "launched", "frame", "join"}
  BY <1>0 DEF ProcOK
<1>5. /\ ProcOK' /\ proc'.then = proc.then /\ proc'.deferred = proc.deferred
      /\ proc'.pc = proc.then
  BY <1>0, <1>1, <1>4, ProcGoes
<1>6. proc.then = "frame" => ~D!Full
  BY <1>0, <1>1 DEF ProcRoom
<1> QED BY <1>1, <1>2, <1>3, <1>4, <1>5, <1>6, ProcPops

LEMMA ProcLlrStep ==
  ASSUME UeInv, ProcLlr
  PROVE  UeInv' /\ Onward
<1>0. ProcOK /\ ProcRoom /\ SyncOK /\ BudgetOK
  BY DEF UeInv, UeTypeOK
<1>1. /\ UNCHANGED <<sync, rx, sensing, bit, decodeVars, stop, seen, budget>>
      /\ D!Pop /\ proc.pc = "llr" /\ proc' = Collected
      /\ llrs' = llrs \/ llrs' = Append(llrs, D!Result.frame)
  BY DEF ProcLlr, At
<1>2. SyncOK' /\ BudgetOK'
  BY <1>0, <1>1, TypesKept
<1>3. /\ ProcOK' /\ proc'.then = proc.then /\ proc'.deferred = proc.deferred
      /\ proc'.pc \in {"collect", proc.then}
  BY <1>0, <1>1, CollectedIs
<1>4. proc.then \in {"clear", "launched", "frame", "join"}
  BY <1>0 DEF ProcOK
<1>5. D!Ready /\ (proc.then = "frame" => ~D!Full)
  BY <1>0, <1>1 DEF ProcRoom
<1> QED BY <1>1, <1>2, <1>3, <1>4, <1>5, ProcPops

\* The earliest of the frames that a stage holds is the one whose turn it is.
LEMMA DemodHead ==
  ASSUME DemodOK, NEW k \in Cuts, DemodInv(k), proc.pc # "done", D!Ready
  PROVE  /\ D!Result \in Demodulated /\ D!Result.frame \in FrameRecords
         /\ D!Result.frame.n \in Nat
         /\ k.llrs < D!Result.frame.n /\ D!Result.frame.n <= k.demod
<1> DEFINE N == Demodulators
           s == demod
           c == demodTurn
           t == [s EXCEPT ![c].results = Tail(@), ![c].pending = @ - 1]
<1>1. /\ N \in Nat \ {0} /\ s \in [0 .. N - 1 -> Slots(Demodulated)]
      /\ demodNext \in Nat /\ c \in 0 .. N - 1
  BY Sizes DEF DemodOK
<1>2. StageInv(AllNumbers(s, N), demodNext, c, N, k.llrs, k.demod)
  BY DEF DemodInv
<1>3. k.demod \in Nat /\ k.llrs \in Nat
  BY DEF Cuts
<1>4. s[c].results # <<>> /\ D!Result = Head(s[c].results)
  BY DEF D!Ready, D!Result
<1>5. Took(s, t, c)
  BY DEF Took
<1> HIDE DEF N, s, c, t
<1>6. /\ Head(s[c].results) \in Demodulated
      /\ Head(s[c].results).frame.n \in Nat
      /\ k.llrs < Head(s[c].results).frame.n /\ Head(s[c].results).frame.n <= k.demod
  BY <1>1, <1>2, <1>3, <1>4, <1>5, FramedResults, ResultTaken
<1>7. Head(s[c].results).frame \in FrameRecords
  BY <1>6 DEF Demodulated
<1> QED BY <1>4, <1>6, <1>7

\* Somebody will measure for an alignment: the frame itself, or what stood in for
\* the earlier ones.
LEMMA ControlOwes ==
  ASSUME SensingOK, SeenOK, SyncOK, ProcOK, MeasurementInv, NEW x \in FrameRecords,
         ~Stale(x), ToSensing(x), seen.unmeasured <= x.n, UNCHANGED stop,
         sync'.gen = sync.gen
  PROVE  /\ SensingOK' /\ SeenOK' /\ ProcOK' /\ MeasurementInv'
         /\ proc'.pc = "llr" /\ proc'.then = proc.then
         /\ seen'.decoded = seen.decoded
         /\ seen'.unmeasured = IF x.align THEN x.n ELSE seen.unmeasured
<1> DEFINE force == x.align \/ proc.deferred
           room == Len(sensing) < SensingCap
           e == [n |-> x.n, gen |-> x.gen, force |-> force]
<1>1. /\ sensing' = IF room THEN Append(sensing, e) ELSE sensing
      /\ proc' = [proc EXCEPT !.pc = "llr", !.deferred = force /\ ~room]
      /\ seen' = IF x.align THEN [seen EXCEPT !.unmeasured = x.n, !.gen = x.gen] ELSE seen
  BY DEF ToSensing
<1>2. x.n \in Nat /\ x.gen \in Nat /\ x.align \in BOOLEAN /\ proc.deferred \in BOOLEAN
  BY DEF FrameRecords, ProcOK
<1>3. e \in Sensed /\ e.n = x.n /\ e.gen = x.gen /\ e.force = force
  BY <1>2 DEF Sensed
<1>g. /\ x.gen = sync.gen /\ sync.gen \in Nat
      /\ seen.gen <= sync.gen /\ MeasurementIsOwed
  BY DEF Stale, SyncOK, MeasurementInv
<1>4. (force /\ ~room) \in BOOLEAN
  OBVIOUS
<1>5. SensingOK'
  <2>1. sensing \in Seq(Sensed)
    BY DEF SensingOK
  <2> HIDE DEF e, room
  <2>2. Append(sensing, e) \in Seq(Sensed)
    BY <1>3, <2>1
  <2> QED BY <1>1, <2>1, <2>2 DEF SensingOK
<1>6. /\ seen'.decoded = seen.decoded
      /\ seen'.unmeasured = IF x.align THEN x.n ELSE seen.unmeasured
      /\ seen'.gen = IF x.align THEN x.gen ELSE seen.gen
      /\ SeenOK'
  BY <1>1, <1>2 DEF SeenOK
<1> HIDE DEF e, room, force
<1>7. /\ proc'.pc = "llr" /\ proc'.then = proc.then /\ (proc'.deferred <=> force /\ ~room)
      /\ ProcOK'
  BY <1>1, <1>4 DEF ProcOK
<1>8. seen'.gen <= sync'.gen
  BY <1>6, <1>g
<1>9. MeasurementIsOwed'
  <2> SUFFICES ASSUME seen'.unmeasured # 0, seen'.gen = sync'.gen, SensingRunning',
                      ~proc'.deferred
               PROVE  \E i \in DOMAIN sensing' :
                        /\ sensing'[i].force /\ sensing'[i].gen = sync'.gen
                        /\ sensing'[i].n >= seen'.unmeasured
    BY DEF MeasurementIsOwed, Stale
  <2>1. sensing \in Seq(Sensed)
    BY DEF SensingOK
  <2>2. SensingRunning
    BY DEF SensingRunning
  <2>3. seen.unmeasured \in Nat /\ seen'.unmeasured <= x.n
    BY <1>2, <1>6, SeenIsNat
  <2>4. CASE force
    <3>1. room
      BY <1>7, <2>4
    <3>2. sensing' = Append(sensing, e)
      BY <1>1, <3>1
    <3>3. /\ Len(sensing) + 1 \in DOMAIN Append(sensing, e)
          /\ Append(sensing, e)[Len(sensing) + 1] = e
      BY <1>3, <2>1
    <3>4. e.force /\ e.gen = sync'.gen /\ e.n >= seen'.unmeasured
      BY <1>2, <1>3, <1>6, <1>g, <2>3, <2>4
    <3> DEFINE i == Len(sensing) + 1
    <3>5. i \in DOMAIN sensing' /\ sensing'[i] = e
      BY <3>2, <3>3
    <3> HIDE DEF i
    <3> QED BY <3>4, <3>5
  <2>5. CASE ~force
    <3>1. ~x.align /\ ~proc.deferred
      BY <2>5 DEF force
    <3>2. seen'.unmeasured = seen.unmeasured /\ seen'.gen = seen.gen
      BY <1>6, <3>1
    <3>3. PICK i \in DOMAIN sensing : /\ sensing[i].force /\ sensing[i].gen = sync.gen
                                      /\ sensing[i].n >= seen.unmeasured
      BY <1>g, <2>2, <3>1, <3>2 DEF MeasurementIsOwed, Stale
    <3>4. i \in DOMAIN sensing' /\ sensing'[i] = sensing[i]
      <4>1. CASE room
        <5>1. sensing' = Append(sensing, e)
          BY <1>1, <4>1
        <5>2. i \in DOMAIN Append(sensing, e) /\ Append(sensing, e)[i] = sensing[i]
          BY <1>3, <2>1
        <5> QED BY <5>1, <5>2
      <4>2. CASE ~room
        BY <1>1, <4>2
      <4> QED BY <4>1, <4>2
    <3> QED BY <3>2, <3>3, <3>4
  <2> QED BY <2>4, <2>5
<1> QED BY <1>5, <1>6, <1>7, <1>8, <1>9 DEF MeasurementInv

LEMMA ProcControlStep ==
  ASSUME UeInv, ProcControl
  PROVE  UeInv' /\ Onward
<1>1. PICK k \in Cuts :
        /\ UeTypeOK /\ ProcRoom /\ BitRoom /\ MeasurementInv
        /\ CutsInv(k) /\ HandInv(k) /\ QueueInv(k) /\ DemodInv(k) /\ LlrsInv(k)
        /\ DecodeInv(k) /\ OwedInv(k)
  BY DEF UeInv, OrderInv
<1>2. /\ UNCHANGED <<rx, demodVars, llrs, bit, decodeVars, stop>>
      /\ D!Ready /\ proc.pc = "collect" /\ ToSensing(D!Result.frame)
      /\ ~Stale(D!Result.frame)
      /\ \/ UNCHANGED <<sync, budget>>
         \/ /\ budget.troubles > 0
            /\ sync' = [sync EXCEPT !.state = "ALIGNMENT"]
            /\ budget' = [budget EXCEPT !.troubles = @ - 1]
  BY DEF ProcControl, At, Outdated
<1>3. SyncOK' /\ sync'.gen = sync.gen /\ BudgetOK' /\ budget'.frame = budget.frame
  <2>1. SyncOK /\ BudgetOK
    BY <1>1 DEF UeTypeOK
  <2>2. CASE UNCHANGED <<sync, budget>>
    BY <2>1, <2>2, TypesKept
  <2>3. CASE /\ budget.troubles > 0
             /\ sync' = [sync EXCEPT !.state = "ALIGNMENT"]
             /\ budget' = [budget EXCEPT !.troubles = @ - 1]
    BY <2>1, <2>3 DEF SyncOK, BudgetOK
  <2> QED BY <1>2, <2>2, <2>3
<1>4. /\ D!Result.frame \in FrameRecords /\ D!Result.frame.n \in Nat
      /\ k.llrs < D!Result.frame.n
  BY <1>1, <1>2, DemodHead DEF UeTypeOK
<1>5. seen.unmeasured <= k.llrs /\ seen.unmeasured \in Nat /\ seen.decoded \in Nat
  BY <1>1, <1>2, SeenIsNat DEF OwedInv, UeTypeOK
<1>6. seen.unmeasured <= D!Result.frame.n
  BY <1>4, <1>5, CutsAreNat
<1>7. /\ SensingOK' /\ SeenOK' /\ ProcOK' /\ MeasurementInv'
      /\ proc'.pc = "llr" /\ proc'.then = proc.then
      /\ seen'.decoded = seen.decoded
      /\ seen'.unmeasured =
           IF D!Result.frame.align THEN D!Result.frame.n ELSE seen.unmeasured
  BY <1>1, <1>2, <1>3, <1>4, <1>6, ControlOwes DEF UeTypeOK
<1>8. UeTypeOK'
  BY <1>1, <1>2, <1>3, <1>7, TypesKept, DemodSame, DecodeSame DEF UeTypeOK
<1>9. CutsInv(k)' /\ HandInv(k)'
  BY <1>1, <1>2, <1>3, <1>7 DEF CutsInv, HandInv
<1>10. QueueInv(k)' /\ LlrsInv(k)' /\ DemodInv(k)' /\ DecodeInv(k)' /\ BitRoom'
  BY <1>1, <1>2, <1>7, QueuesKept, DemodKept, DecodeKept, BitKept
<1>11. ProcRoom'
  <2>1. proc.then = "frame" => ~D!Full
    BY <1>1, <1>2 DEF ProcRoom
  <2> QED BY <1>2, <1>7, <2>1, DemodSame DEF ProcRoom
<1>12. OwedInv(k)'
  <2>1. D!Result' = D!Result
    BY <1>2, DemodSame
  <2> QED BY <1>5, <1>7, <2>1 DEF OwedInv
<1>13. Onward
  BY <1>5, <1>7 DEF Onward
<1>14. OrderInv(k)'
  BY <1>9, <1>10, <1>12 DEF OrderInv
<1> QED BY <1>7, <1>8, <1>10, <1>11, <1>13, <1>14 DEF UeInv

\* A frame is handed to a demodulation worker, or dropped as one of an earlier
\* generation.
LEMMA ProcFrameStep ==
  ASSUME UeInv, ProcFrame
  PROVE  UeInv' /\ Onward
<1>1. PICK k \in Cuts :
        /\ UeTypeOK /\ ProcRoom /\ BitRoom /\ MeasurementInv
        /\ CutsInv(k) /\ HandInv(k) /\ QueueInv(k) /\ DemodInv(k) /\ LlrsInv(k)
        /\ DecodeInv(k) /\ OwedInv(k)
  BY DEF UeInv, OrderInv
<1>2. /\ UNCHANGED <<sync, sensing, llrs, bit, decodeVars, stop, seen, budget>>
      /\ rx.queue # <<>> /\ rx' = [rx EXCEPT !.queue = Tail(@)]
      /\ \/ proc.pc = "frame" \/ (proc.pc = "collect" /\ proc.then = "frame")
      /\ \/ proc' = [proc EXCEPT !.pc = "frame"] /\ UNCHANGED demodVars
         \/ D!Dispatch(Head(rx.queue)) /\ proc' = Again
  BY DEF ProcFrame, Turn, At
<1>3. ProcOK /\ DemodOK /\ RxOK /\ rx.queue \in Seq(FrameRecords)
  BY <1>1 DEF UeTypeOK, RxOK
<1>4. ~D!Full
  BY <1>1, <1>2 DEF ProcRoom
<1>5. k.demod \in Nat /\ k.queue \in Nat /\ k.llrs \in Nat /\ k.decode \in Nat
  BY CutsAreNat
<1>6. PICK x \in FrameRecords, q \in Seq(FrameRecords) :
        /\ x = Head(rx.queue) /\ q = Tail(rx.queue)
        /\ x.n \in Nat /\ k.demod < x.n /\ x.n <= k.queue
        /\ From(q, x.n, k.queue) /\ From(q, k.demod, k.queue) /\ Increasing(q)
  BY <1>1, <1>2, <1>3, <1>5, FromTail DEF QueueInv
<1>7. rx'.hand = rx.hand /\ rx'.queue = q /\ RxOK'
  <2>1. rx' = [rx EXCEPT !.queue = q]
    BY <1>2, <1>6
  <2> QED BY <1>3, <2>1, RxQueueIs
<1>8. BitRoom' /\ MeasurementInv' /\ Onward
  <2>1. SensingRunning' => SensingRunning
    BY <1>2 DEF SensingRunning
  <2>2. proc'.deferred = proc.deferred
    BY <1>2, <1>3, AgainIs, ProcGoes
  <2> QED BY <1>1, <1>2, <2>1, <2>2, BitKept, OwedKept, SeenIsNat DEF UeTypeOK
<1>9. seen.unmeasured <= k.llrs
  BY <1>1, <1>2 DEF OwedInv
<1>10. CASE proc' = [proc EXCEPT !.pc = "frame"] /\ UNCHANGED demodVars
  <2>1. ProcOK' /\ proc'.pc = "frame"
    BY <1>3, <1>10, ProcGoes
  <2>2. UeTypeOK'
    BY <1>1, <1>2, <1>7, <1>10, <2>1, TypesKept, DemodSame, DecodeSame DEF UeTypeOK
  <2>3. HandInv(k)' /\ QueueInv(k)'
    BY <1>1, <1>2, <1>6, <1>7 DEF HandInv, QueueInv
  <2>4. CutsInv(k)' /\ LlrsInv(k)' /\ DemodInv(k)' /\ DecodeInv(k)'
    <3>1. proc.pc # "done"
      BY <1>2
    <3> QED BY <1>1, <1>2, <1>10, <2>1, <3>1, QueuesKept, DemodKept, DecodeKept
  <2>5. ProcRoom'
    BY <1>4, <1>10, <2>1, DemodSame DEF ProcRoom
  <2>6. OwedInv(k)'
    BY <1>2, <1>9 DEF OwedInv
  <2>7. OrderInv(k)'
    BY <2>3, <2>4, <2>6 DEF OrderInv
  <2> QED BY <1>8, <2>2, <2>5, <2>7 DEF UeInv
<1>11. CASE D!Dispatch(Head(rx.queue)) /\ proc' = Again
  <2>1. /\ ProcOK' /\ proc'.pc \in {"collect", "exit"}
        /\ proc'.pc = "collect" => proc'.then = "clear"
    BY <1>3, <1>11, AgainIs
  <2>2. PICK j \in Cuts : /\ j.queue = k.queue /\ j.demod = x.n /\ j.llrs = k.llrs
                          /\ j.decode = k.decode
    <3>1. [k EXCEPT !.demod = x.n] \in Cuts
      BY <1>6 DEF Cuts
    <3> QED BY <3>1 DEF Cuts
  <2>3. /\ seen.decoded <= k.decode /\ k.decode <= k.llrs /\ k.llrs <= k.demod
        /\ k.queue < budget.frame
    BY <1>1 DEF CutsInv
  <2>4. k.llrs < x.n /\ k.llrs <= x.n
    BY <1>5, <1>6, <2>3
  <2>5. DemodOK' /\ DemodInv(j)'
    <3>1. proc.pc # "done" /\ proc'.pc # "done"
      BY <1>2, <2>1
    <3>2. D!Dispatch(x)
      BY <1>6, <1>11
    <3> QED BY <1>1, <1>3, <1>4, <1>6, <2>2, <2>4, <3>1, <3>2, DemodGiven
  <2>6. UeTypeOK'
    BY <1>1, <1>2, <1>7, <2>1, <2>5, TypesKept, DecodeSame DEF UeTypeOK
  <2>7. CutsInv(j)' /\ HandInv(j)' /\ QueueInv(j)'
    <3>1. CutsInv(j)'
      BY <1>2, <1>6, <2>2, <2>3, <2>4 DEF CutsInv
    <3> QED BY <1>1, <1>2, <1>6, <1>7, <2>2, <3>1 DEF HandInv, QueueInv
  <2>8. LlrsInv(j)' /\ DecodeInv(j)'
    <3>1. LlrsInv(j)'
      BY <1>1, <1>2, <2>2 DEF LlrsInv
    <3> QED BY <1>1, <1>2, <2>2, <3>1, DecodeKept
  <2>9. ProcRoom'
    BY <2>1 DEF ProcRoom
  <2>10. OwedInv(j)'
    BY <1>2, <1>9, <2>2 DEF OwedInv
  <2>11. OrderInv(j)'
    BY <2>5, <2>7, <2>8, <2>10 DEF OrderInv
  <2> QED BY <1>8, <2>2, <2>6, <2>9, <2>11 DEF UeInv
<1> QED BY <1>2, <1>10, <1>11

LEMMA ProcJoinStep ==
  ASSUME UeInv, ProcJoin
  PROVE  UeInv' /\ Onward
<1>1. PICK k \in Cuts :
        /\ UeTypeOK /\ ProcRoom /\ BitRoom /\ MeasurementInv
        /\ CutsInv(k) /\ HandInv(k) /\ QueueInv(k) /\ DemodInv(k) /\ LlrsInv(k)
        /\ DecodeInv(k) /\ OwedInv(k)
  BY DEF UeInv, OrderInv
<1>2. /\ UNCHANGED <<sync, sensing, llrs, bit, decodeVars, stop, seen, budget>>
      /\ rx' = [rx EXCEPT !.queue = <<>>] /\ proc' = [proc EXCEPT !.pc = "done"]
      /\ D!Reset /\ proc.pc \in {"join", "collect"}
  BY DEF ProcJoin, Turn, At
<1>3. ProcOK /\ DemodOK /\ RxOK
  BY <1>1 DEF UeTypeOK
<1>4. ProcOK' /\ proc'.pc = "done" /\ proc'.deferred = proc.deferred
  BY <1>2, <1>3, ProcGoes
<1>5. /\ rx'.hand = rx.hand /\ rx'.queue = <<>> /\ RxOK'
  <2>1. <<>> \in Seq(FrameRecords)
    OBVIOUS
  <2> QED BY <1>2, <1>3, <2>1, RxQueueIs
<1>6. DemodOK' /\ DemodInv(k)'
  BY <1>2, <1>3, <1>4, DemodEmptied
<1>7. UeTypeOK'
  BY <1>1, <1>2, <1>4, <1>5, <1>6, TypesKept, DecodeSame DEF UeTypeOK
<1>8. HandInv(k)' /\ QueueInv(k)'
  BY <1>1, <1>2, <1>5, EmptyQueue DEF HandInv, QueueInv
<1>9. CutsInv(k)' /\ LlrsInv(k)' /\ DecodeInv(k)' /\ BitRoom'
  BY <1>1, <1>2, QueuesKept, DecodeKept, BitKept
<1>10. ProcRoom'
  BY <1>4 DEF ProcRoom
<1>11. OwedInv(k)'
  BY <1>1, <1>2 DEF OwedInv
<1>12. MeasurementInv' /\ Onward
  <2>1. SensingRunning' => SensingRunning
    BY <1>2 DEF SensingRunning
  <2> QED BY <1>1, <1>2, <1>4, <2>1, OwedKept, SeenIsNat DEF UeTypeOK
<1>13. OrderInv(k)'
  BY <1>6, <1>8, <1>9, <1>11 DEF OrderInv
<1> QED BY <1>7, <1>9, <1>10, <1>12, <1>13 DEF UeInv

-----------------------------------------------------------------------------
(* The sensing thread *)

LEMMA SenseStep ==
  ASSUME UeInv, Sense
  PROVE  UeInv' /\ Onward
<1>1. PICK k \in Cuts :
        /\ UeTypeOK /\ ProcRoom /\ BitRoom /\ MeasurementInv
        /\ CutsInv(k) /\ HandInv(k) /\ QueueInv(k) /\ DemodInv(k) /\ LlrsInv(k)
        /\ DecodeInv(k) /\ OwedInv(k)
  BY DEF UeInv, OrderInv
<1> DEFINE s == Head(sensing)
<1>2. /\ UNCHANGED <<sync, rx, proc, demodVars, llrs, bit, decodeVars, stop, budget>>
      /\ sensing # <<>> /\ sensing' = Tail(sensing)
      /\ seen' = IF s.gen = sync.gen /\ s.force /\ s.n >= seen.unmeasured
                 THEN [seen EXCEPT !.unmeasured = 0] ELSE seen
  BY DEF Sense, Stale
<1>3. SensingOK /\ SeenOK /\ seen.unmeasured \in Nat /\ seen.decoded \in Nat
  BY <1>1, SeenIsNat DEF UeTypeOK
<1> DEFINE answers == s.gen = sync.gen /\ s.force /\ s.n >= seen.unmeasured
           u == IF answers THEN 0 ELSE seen.unmeasured
<1>4. u \in Nat /\ u \in {0, seen.unmeasured} /\ u <= seen.unmeasured
  BY <1>3
<1>5. u # 0 => u = seen.unmeasured /\ ~answers
  OBVIOUS
<1>6. seen' = [seen EXCEPT !.unmeasured = u]
  BY <1>2, <1>3 DEF SeenOK
<1> HIDE DEF u
<1>7. seen'.decoded = seen.decoded /\ seen'.unmeasured = u /\ seen'.gen = seen.gen /\ SeenOK'
  BY <1>3, <1>4, <1>6 DEF SeenOK
<1>8. SensingOK'
  BY <1>2, <1>3 DEF SensingOK
<1>9. UeTypeOK'
  BY <1>1, <1>2, <1>7, <1>8, TypesKept, DemodSame, DecodeSame DEF UeTypeOK
<1>10. CutsInv(k)' /\ HandInv(k)' /\ QueueInv(k)' /\ LlrsInv(k)'
  <2>1. CutsInv(k)'
    BY <1>1, <1>2, <1>7 DEF CutsInv
  <2> QED BY <1>1, <1>2, <2>1, QueuesKept
<1>11. DemodInv(k)' /\ DecodeInv(k)' /\ BitRoom'
  BY <1>1, <1>2, <1>7, DemodKept, DecodeKept, BitKept
<1>12. ProcRoom'
  BY <1>1, <1>2, DemodSame DEF ProcRoom
<1>13. OwedInv(k)'
  <2>1. D!Result' = D!Result
    BY <1>2, DemodSame
  <2>2. CASE u = 0
    <3>1. 0 <= k.llrs
      BY CutsAreNat
    <3> QED BY <1>7, <2>2, <3>1 DEF OwedInv
  <2>3. CASE u = seen.unmeasured
    BY <1>1, <1>2, <1>7, <2>1, <2>3 DEF OwedInv
  <2> QED BY <1>4, <2>2, <2>3
<1>14. MeasurementIsOwed'
  <2> SUFFICES ASSUME u # 0, seen.gen = sync.gen, SensingRunning', ~proc.deferred
               PROVE  \E i \in DOMAIN sensing' : /\ sensing'[i].force
                                                 /\ sensing'[i].gen = sync.gen
                                                 /\ sensing'[i].n >= u
    BY <1>2, <1>7 DEF MeasurementIsOwed, Stale
  <2>1. u = seen.unmeasured /\ ~answers
    BY <1>5
  <2>2. SensingRunning
    BY <1>2 DEF SensingRunning
  <2>3. PICK i \in DOMAIN sensing : /\ sensing[i].force /\ sensing[i].gen = sync.gen
                                    /\ sensing[i].n >= seen.unmeasured
    BY <1>1, <2>1, <2>2 DEF MeasurementInv, MeasurementIsOwed, Stale
  <2>4. sensing \in Seq(Sensed)
    BY <1>3 DEF SensingOK
  <2>5. s = sensing[1]
    BY <1>2, <2>4
  <2>6. i # 1
    BY <2>1, <2>3, <2>5
  <2>7. i - 1 \in DOMAIN Tail(sensing) /\ Tail(sensing)[i - 1] = sensing[i]
    <3>1. /\ DOMAIN sensing = 1 .. Len(sensing) /\ Len(sensing) \in Nat
          /\ Tail(sensing) \in Seq(Sensed)
          /\ Len(Tail(sensing)) = Len(sensing) - 1
          /\ DOMAIN Tail(sensing) = 1 .. Len(sensing) - 1
      BY <1>2, <2>4
    <3>2. i \in 2 .. Len(sensing) /\ i - 1 \in 1 .. Len(sensing) - 1
      BY <2>3, <2>6, <3>1
    <3>3. Tail(sensing)[i - 1] = sensing[(i - 1) + 1] /\ (i - 1) + 1 = i
      BY <1>2, <2>4, <3>1, <3>2
    <3> QED BY <3>1, <3>2, <3>3
  <2>8. /\ i - 1 \in DOMAIN sensing'
        /\ sensing'[i - 1].force /\ sensing'[i - 1].gen = sync.gen
        /\ sensing'[i - 1].n >= u
    BY <1>2, <2>1, <2>3, <2>7
  <2> QED BY <2>8
<1>15. Onward
  BY <1>3, <1>7 DEF Onward
<1>16. OrderInv(k)'
  BY <1>10, <1>11, <1>13 DEF OrderInv
<1>17. MeasurementInv'
  BY <1>1, <1>2, <1>7, <1>14 DEF MeasurementInv
<1> QED BY <1>9, <1>11, <1>12, <1>15, <1>16, <1>17 DEF UeInv

-----------------------------------------------------------------------------
(* The decoding workers and the bit-processing thread *)

LEMMA DecodeStep ==
  ASSUME UeInv, NEW w \in L!ids, Decode(w)
  PROVE  UeInv' /\ Onward
<1>1. PICK k \in Cuts :
        /\ UeTypeOK /\ ProcRoom /\ BitRoom /\ MeasurementInv
        /\ CutsInv(k) /\ HandInv(k) /\ QueueInv(k) /\ DemodInv(k) /\ LlrsInv(k)
        /\ DecodeInv(k) /\ OwedInv(k)
  BY DEF UeInv, OrderInv
<1> DEFINE f == Head(decode[w].tasks)
           r == [frame |-> f, dropped |-> Stale(f)]
<1>2. /\ UNCHANGED <<sync, rx, proc, demodVars, sensing, llrs, bit, stop, seen, budget>>
      /\ decode[w].tasks # <<>> /\ L!Work(w, r)
  BY DEF Decode
<1>3. w \in 0 .. Decoders - 1
  BY DEF L!ids
<1>4. DecodeOK
  BY <1>1 DEF UeTypeOK
<1>5. r \in Decoded /\ r.frame = f
  <2>1. decode \in [0 .. Decoders - 1 -> Slots(Decoded)]
    BY <1>4 DEF DecodeOK
  <2>2. decode[w].tasks \in Seq(FrameRecords)
    BY <1>3, <2>1, Sizes, FramedResults, AllNumbersAre
  <2>3. f \in FrameRecords
    BY <1>2, <2>2
  <2>4. Stale(f) \in BOOLEAN
    BY DEF Stale
  <2> QED BY <2>3, <2>4 DEF Decoded
<1> HIDE DEF r
<1>6. /\ DecodeOK'
      /\ AllNumbers(decode, Decoders)' = AllNumbers(decode, Decoders)
      /\ UNCHANGED <<decodeNext, decodeTurn>>
      /\ L!Full' <=> L!Full
  BY <1>2, <1>3, <1>4, <1>5, DecodeRun
<1>7. UeTypeOK'
  BY <1>1, <1>2, <1>6, TypesKept, DemodSame DEF UeTypeOK
<1>8. CutsInv(k)' /\ HandInv(k)' /\ QueueInv(k)' /\ LlrsInv(k)' /\ DemodInv(k)'
  BY <1>1, <1>2, QueuesKept, DemodKept
<1>9. DecodeInv(k)' /\ BitRoom'
  BY <1>1, <1>2, <1>6 DEF DecodeInv, BitRoom
<1>10. ProcRoom' /\ OwedInv(k)' /\ MeasurementInv' /\ Onward
  <2>1. SensingRunning' => SensingRunning
    BY <1>2 DEF SensingRunning
  <2> QED BY <1>1, <1>2, <2>1, ProcKept, OwedKept, SeenIsNat DEF UeTypeOK
<1>11. OrderInv(k)'
  BY <1>8, <1>9, <1>10 DEF OrderInv
<1> QED BY <1>7, <1>9, <1>10, <1>11 DEF UeInv

\* The bit-processing thread only goes on, with room for a frame if it is to hand
\* one out.
LEMMA BitMoves ==
  ASSUME UeInv,
         UNCHANGED <<sync, rx, proc, demodVars, sensing, llrs, decodeVars, stop, seen, budget>>,
         BitOK', bit.pc # "done", bit'.pc # "done", bit'.pc = "take" => ~L!Full
  PROVE  UeInv' /\ Onward
<1>1. PICK k \in Cuts :
        /\ UeTypeOK /\ ProcRoom /\ BitRoom /\ MeasurementInv
        /\ CutsInv(k) /\ HandInv(k) /\ QueueInv(k) /\ DemodInv(k) /\ LlrsInv(k)
        /\ DecodeInv(k) /\ OwedInv(k)
  BY DEF UeInv, OrderInv
<1>2. UeTypeOK'
  BY <1>1, TypesKept, DemodSame, DecodeSame DEF UeTypeOK
<1>3. /\ CutsInv(k)' /\ HandInv(k)' /\ QueueInv(k)' /\ LlrsInv(k)' /\ DecodeInv(k)'
      /\ DemodInv(k)' /\ ProcRoom' /\ OwedInv(k)'
  BY <1>1, QueuesKept, DecodeKept, DemodKept, ProcKept
<1>4. BitRoom'
  BY DecodeSame DEF BitRoom
<1>5. MeasurementInv' /\ Onward
  <2>1. SensingRunning' => SensingRunning
    BY DEF SensingRunning
  <2> QED BY <1>1, <2>1, OwedKept, SeenIsNat DEF UeTypeOK
<1>6. OrderInv(k)'
  BY <1>3 DEF OrderInv
<1> QED BY <1>2, <1>3, <1>4, <1>5, <1>6 DEF UeInv

\* Where it goes next.
LEMMA BitGoes ==
  ASSUME BitOK
  PROVE  /\ \A p \in {"collect", "launch", "launched", "take", "exit", "join", "done"} :
              bit' = [bit EXCEPT !.pc = p] => BitOK' /\ bit'.pc = p
         /\ \A p \in {"collect", "launch", "launched", "take", "exit", "join", "done"} :
              \A x \in {"launch", "launched", "join"} :
                bit' = [bit EXCEPT !.pc = p, !.then = x] => BitOK' /\ bit'.pc = p
         /\ bit' = BitAgain => BitOK' /\ bit'.pc \in {"collect", "exit"}
<1>1. \A p \in {"collect", "launch", "launched", "take", "exit", "join", "done"} :
        bit' = [bit EXCEPT !.pc = p] => BitOK' /\ bit'.pc = p
  BY DEF BitOK
<1>2. \A p \in {"collect", "launch", "launched", "take", "exit", "join", "done"} :
        \A x \in {"launch", "launched", "join"} :
          bit' = [bit EXCEPT !.pc = p, !.then = x] => BitOK' /\ bit'.pc = p
  BY DEF BitOK
<1>3. bit' = BitAgain => BitOK' /\ bit'.pc \in {"collect", "exit"}
  BY <1>1, <1>2 DEF BitAgain
<1> QED BY <1>1, <1>2, <1>3

LEMMA BitStillStep ==
  ASSUME UeInv, BitLaunch \/ BitLaunched \/ BitIdle \/ BitExit
  PROVE  UeInv' /\ Onward
<1>0. BitOK /\ BitRoom
  BY DEF UeInv, UeTypeOK
<1>1. CASE BitLaunch
  <2>1. /\ UNCHANGED <<sync, rx, proc, demodVars, sensing, llrs, decodeVars, stop, seen, budget>>
        /\ bit.pc # "done"
    BY <1>1 DEF BitLaunch, BitTurn, BitAt
  <2>2. \/ bit' = [bit EXCEPT !.pc = "collect", !.then = "launched"]
        \/ bit' = [bit EXCEPT !.pc = "launch"] \/ bit' = [bit EXCEPT !.pc = "exit"]
    BY <1>1 DEF BitLaunch
  <2>3. BitOK' /\ bit'.pc \in {"collect", "launch", "exit"}
    BY <1>0, <2>2, BitGoes
  <2> QED BY <2>1, <2>3, BitMoves
<1>2. CASE BitLaunched
  <2>1. /\ UNCHANGED <<sync, rx, proc, demodVars, sensing, llrs, decodeVars, stop, seen, budget>>
        /\ bit.pc # "done"
    BY <1>2 DEF BitLaunched, BitTurn, BitAt
  <2>2. (bit' = [bit EXCEPT !.pc = "take"] /\ ~L!Full) \/ bit' = BitAgain
    BY <1>2 DEF BitLaunched
  <2>3. BitOK' /\ bit'.pc # "done" /\ (bit'.pc = "take" => ~L!Full)
    BY <1>0, <2>2, BitGoes
  <2> QED BY <2>1, <2>3, BitMoves
<1>3. CASE BitIdle
  <2>1. /\ UNCHANGED <<sync, rx, proc, demodVars, sensing, llrs, decodeVars, stop, seen, budget>>
        /\ bit.pc # "done" /\ bit' = BitAgain
    BY <1>3 DEF BitIdle, Taking, BitTurn, BitAt
  <2>2. BitOK' /\ bit'.pc \in {"collect", "exit"}
    BY <1>0, <2>1, BitGoes
  <2> QED BY <2>1, <2>2, BitMoves
<1>4. CASE BitExit
  <2>1. /\ UNCHANGED <<sync, rx, proc, demodVars, sensing, llrs, decodeVars, stop, seen, budget>>
        /\ bit.pc # "done"
    BY <1>4 DEF BitExit, BitAt
  <2>2. \/ bit' = [bit EXCEPT !.pc = "collect", !.then = "join"]
        \/ bit' = [bit EXCEPT !.pc = "join", !.then = "join"]
    BY <1>4 DEF BitExit
  <2>3. BitOK' /\ bit'.pc \in {"collect", "join"}
    BY <1>0, <2>2, BitGoes
  <2> QED BY <2>1, <2>3, BitMoves
<1> QED BY <1>1, <1>2, <1>3, <1>4

\* The earliest of the frames being decoded is collected, and it is later than the
\* last one whose packets were handled.
LEMMA BitCollectStep ==
  ASSUME UeInv, BitCollect
  PROVE  UeInv' /\ Onward
<1>1. PICK k \in Cuts :
        /\ UeTypeOK /\ ProcRoom /\ BitRoom /\ MeasurementInv
        /\ CutsInv(k) /\ HandInv(k) /\ QueueInv(k) /\ DemodInv(k) /\ LlrsInv(k)
        /\ DecodeInv(k) /\ OwedInv(k)
  BY DEF UeInv, OrderInv
<1>2. /\ UNCHANGED <<sync, rx, proc, demodVars, sensing, llrs, bit, stop, budget>>
      /\ bit.pc = "collect" /\ L!Ready /\ L!Pop
      /\ seen' = seen \/ seen' = [seen EXCEPT !.decoded = L!Result.frame.n]
  BY DEF BitCollect, BitAt
<1>3. SeenOK /\ seen.decoded \in Nat /\ seen.unmeasured \in Nat /\ k.decode \in Nat
  BY <1>1, SeenIsNat, CutsAreNat DEF UeTypeOK
<1>4. /\ DecodeOK' /\ L!Result.frame.n \in Nat
      /\ seen.decoded < L!Result.frame.n /\ L!Result.frame.n <= k.decode
      /\ StageInv(AllNumbers(decode, Decoders)', decodeNext', decodeTurn', Decoders,
                  L!Result.frame.n, k.decode)
      /\ ~L!Full => ~L!Full'
  BY <1>1, <1>2, <1>3, DecodeTaken DEF UeTypeOK
<1>5. PICK n \in Nat : n = L!Result.frame.n
  BY <1>4
<1>6. /\ seen'.decoded \in {seen.decoded, n} /\ seen'.unmeasured = seen.unmeasured
      /\ seen'.gen = seen.gen /\ SeenOK'
  BY <1>2, <1>3, <1>5 DEF SeenOK
<1>7. seen'.decoded \in Nat /\ seen.decoded <= seen'.decoded /\ seen'.decoded <= n
  BY <1>3, <1>4, <1>5, <1>6
<1>8. UeTypeOK'
  BY <1>1, <1>2, <1>4, <1>6, TypesKept, DemodSame DEF UeTypeOK
<1>9. CutsInv(k)'
  <2>1. seen'.decoded <= k.decode
    BY <1>3, <1>4, <1>5, <1>7
  <2> QED BY <1>1, <1>2, <2>1 DEF CutsInv
<1>10. HandInv(k)' /\ QueueInv(k)' /\ LlrsInv(k)' /\ DemodInv(k)'
  BY <1>1, <1>2, QueuesKept, DemodKept
<1>11. DecodeInv(k)'
  <2>1. StageInv(AllNumbers(decode, Decoders)', decodeNext', decodeTurn', Decoders,
                 n, k.decode)
    BY <1>4, <1>5
  <2>2. StageInv(AllNumbers(decode, Decoders)', decodeNext', decodeTurn', Decoders,
                 seen'.decoded, k.decode)
    <3>1. Decoders \in Nat \ {0} /\ k.decode <= k.decode
      BY <1>3, Sizes
    <3> QED BY <1>3, <1>7, <2>1, <3>1, StageWidened
  <2> QED BY <1>2, <2>2 DEF DecodeInv
<1>12. ProcRoom' /\ BitRoom' /\ OwedInv(k)'
  <2>1. ProcRoom'
    BY <1>1, <1>2, DemodSame DEF ProcRoom
  <2>2. BitRoom'
    BY <1>2 DEF BitRoom
  <2>3. OwedInv(k)'
    BY <1>1, <1>2, <1>6, DemodSame DEF OwedInv
  <2> QED BY <2>1, <2>2, <2>3
<1>13. MeasurementInv'
  BY <1>1, <1>2, <1>6 DEF MeasurementInv, MeasurementIsOwed, SensingRunning, Stale
<1>14. Onward
  BY <1>7 DEF Onward
<1>15. OrderInv(k)'
  BY <1>9, <1>10, <1>11, <1>12 DEF OrderInv
<1> QED BY <1>8, <1>12, <1>13, <1>14, <1>15 DEF UeInv

\* A frame is handed to a decoding worker, or dropped as one of an earlier
\* generation.
LEMMA BitTakeStep ==
  ASSUME UeInv, BitTake
  PROVE  UeInv' /\ Onward
<1>1. PICK k \in Cuts :
        /\ UeTypeOK /\ ProcRoom /\ BitRoom /\ MeasurementInv
        /\ CutsInv(k) /\ HandInv(k) /\ QueueInv(k) /\ DemodInv(k) /\ LlrsInv(k)
        /\ DecodeInv(k) /\ OwedInv(k)
  BY DEF UeInv, OrderInv
<1>2. /\ UNCHANGED <<sync, rx, proc, demodVars, sensing, stop, seen, budget>>
      /\ llrs # <<>> /\ llrs' = Tail(llrs) /\ bit' = BitAgain
      /\ bit.pc = "take" \/ ~L!Full
      /\ UNCHANGED decodeVars \/ L!Dispatch(Head(llrs))
      /\ bit.pc # "done"
  BY DEF BitTake, Taking, BitTurn, BitAt
<1>3. BitOK /\ DecodeOK /\ llrs \in Seq(FrameRecords)
  BY <1>1 DEF UeTypeOK, LlrsOK
<1>4. ~L!Full
  BY <1>1, <1>2 DEF BitRoom
<1>5. /\ k.demod \in Nat /\ k.queue \in Nat /\ k.llrs \in Nat /\ k.decode \in Nat
      /\ seen.decoded \in Nat
  BY <1>1, CutsAreNat, SeenIsNat DEF UeTypeOK
<1>6. PICK x \in FrameRecords, q \in Seq(FrameRecords) :
        /\ x = Head(llrs) /\ q = Tail(llrs)
        /\ x.n \in Nat /\ k.decode < x.n /\ x.n <= k.llrs
        /\ From(q, x.n, k.llrs) /\ From(q, k.decode, k.llrs) /\ Increasing(q)
  BY <1>1, <1>2, <1>3, <1>5, FromTail DEF LlrsInv
<1>7. llrs' = q /\ LlrsOK'
  BY <1>2, <1>6 DEF LlrsOK
<1>8. BitOK' /\ bit'.pc \in {"collect", "exit"} /\ BitRoom'
  BY <1>2, <1>3, BitGoes DEF BitRoom
<1>9. ProcRoom' /\ MeasurementInv' /\ Onward /\ OwedInv(k)'
  <2>1. SensingRunning' => SensingRunning
    BY <1>2 DEF SensingRunning
  <2> QED BY <1>1, <1>2, <2>1, ProcKept, OwedKept, SeenIsNat DEF UeTypeOK
<1>10. CASE UNCHANGED decodeVars
  <2>1. UeTypeOK'
    BY <1>1, <1>2, <1>7, <1>8, <1>10, TypesKept, DemodSame, DecodeSame DEF UeTypeOK
  <2>2. LlrsInv(k)'
    BY <1>6, <1>7 DEF LlrsInv
  <2>3. CutsInv(k)' /\ HandInv(k)' /\ QueueInv(k)' /\ DemodInv(k)'
    BY <1>1, <1>2, QueuesKept, DemodKept
  <2>4. DecodeInv(k)'
    <3>1. bit'.pc # "done"
      BY <1>8
    <3> QED BY <1>1, <1>2, <1>10, <3>1, DecodeKept
  <2>5. OrderInv(k)'
    BY <1>9, <2>2, <2>3, <2>4 DEF OrderInv
  <2> QED BY <1>8, <1>9, <2>1, <2>5 DEF UeInv
<1>11. CASE L!Dispatch(Head(llrs))
  <2>1. PICK j \in Cuts : /\ j.queue = k.queue /\ j.demod = k.demod /\ j.llrs = k.llrs
                          /\ j.decode = x.n
    <3>1. [k EXCEPT !.decode = x.n] \in Cuts
      BY <1>6 DEF Cuts
    <3> QED BY <3>1 DEF Cuts
  <2>2. /\ seen.decoded <= k.decode /\ k.llrs <= k.demod /\ k.demod <= k.queue
        /\ k.queue < budget.frame
    BY <1>1 DEF CutsInv
  <2>3. seen.decoded < x.n /\ seen.decoded <= x.n
    BY <1>5, <1>6, <2>2
  <2>4. DecodeOK' /\ DecodeInv(j)'
    <3>1. bit.pc # "done" /\ bit'.pc # "done"
      BY <1>2, <1>8
    <3>2. L!Dispatch(x)
      BY <1>6, <1>11
    <3>3. seen'.decoded = seen.decoded
      BY <1>2
    <3> QED BY <1>1, <1>3, <1>4, <1>5, <1>6, <2>1, <2>3, <3>1, <3>2, <3>3, DecodeGiven
  <2>5. UeTypeOK'
    BY <1>1, <1>2, <1>7, <1>8, <2>4, TypesKept, DemodSame DEF UeTypeOK
  <2>6. CutsInv(j)' /\ LlrsInv(j)'
    <3>1. CutsInv(j)'
      BY <1>2, <1>6, <2>1, <2>2, <2>3 DEF CutsInv
    <3> QED BY <1>6, <1>7, <2>1, <3>1 DEF LlrsInv
  <2>7. HandInv(j)' /\ QueueInv(j)' /\ DemodInv(j)'
    <3>1. HandInv(j)' /\ QueueInv(j)'
      BY <1>1, <1>2, <2>1 DEF HandInv, QueueInv
    <3> QED BY <1>1, <1>2, <2>1, <3>1, DemodKept
  <2>8. OwedInv(j)'
    BY <1>9, <2>1 DEF OwedInv
  <2>9. OrderInv(j)'
    BY <2>4, <2>6, <2>7, <2>8 DEF OrderInv
  <2> QED BY <1>8, <1>9, <2>1, <2>5, <2>9 DEF UeInv
<1> QED BY <1>2, <1>10, <1>11

LEMMA BitJoinStep ==
  ASSUME UeInv, BitJoin
  PROVE  UeInv' /\ Onward
<1>1. PICK k \in Cuts :
        /\ UeTypeOK /\ ProcRoom /\ BitRoom /\ MeasurementInv
        /\ CutsInv(k) /\ HandInv(k) /\ QueueInv(k) /\ DemodInv(k) /\ LlrsInv(k)
        /\ DecodeInv(k) /\ OwedInv(k)
  BY DEF UeInv, OrderInv
<1>2. /\ UNCHANGED <<sync, rx, proc, demodVars, sensing, stop, seen, budget>>
      /\ llrs' = <<>> /\ bit' = [bit EXCEPT !.pc = "done"] /\ L!Reset
  BY DEF BitJoin
<1>3. BitOK /\ DecodeOK
  BY <1>1 DEF UeTypeOK
<1>4. BitOK' /\ bit'.pc = "done"
  BY <1>2, <1>3, BitGoes
<1>5. DecodeOK' /\ DecodeInv(k)'
  BY <1>2, <1>3, <1>4, DecodeEmptied
<1>6. LlrsOK' /\ LlrsInv(k)'
  BY <1>2, EmptyQueue DEF LlrsOK, LlrsInv
<1>7. UeTypeOK'
  BY <1>1, <1>2, <1>4, <1>5, <1>6, TypesKept, DemodSame DEF UeTypeOK
<1>8. CutsInv(k)' /\ HandInv(k)' /\ QueueInv(k)' /\ DemodInv(k)' /\ ProcRoom' /\ OwedInv(k)'
  BY <1>1, <1>2, QueuesKept, DemodKept, ProcKept
<1>9. BitRoom'
  BY <1>4 DEF BitRoom
<1>10. MeasurementInv' /\ Onward
  <2>1. SensingRunning' => SensingRunning
    BY <1>2 DEF SensingRunning
  <2> QED BY <1>1, <1>2, <2>1, OwedKept, SeenIsNat DEF UeTypeOK
<1>11. OrderInv(k)'
  BY <1>5, <1>6, <1>8 DEF OrderInv
<1> QED BY <1>7, <1>8, <1>9, <1>10, <1>11 DEF UeInv

-----------------------------------------------------------------------------
(* stop() *)

LEMMA StopStep ==
  ASSUME UeInv, StopEngine \/ StopSensing \/ StopBit \/ StopDone \/ Stopped \/ UNCHANGED vars
  PROVE  UeInv' /\ Onward
<1>1. PICK k \in Cuts :
        /\ UeTypeOK /\ ProcRoom /\ BitRoom /\ MeasurementInv
        /\ CutsInv(k) /\ HandInv(k) /\ QueueInv(k) /\ DemodInv(k) /\ LlrsInv(k)
        /\ DecodeInv(k) /\ OwedInv(k)
  BY DEF UeInv, OrderInv
<1>2. /\ UNCHANGED <<sync, rx, proc, demodVars, llrs, bit, decodeVars, seen, budget>>
      /\ \/ UNCHANGED sensing /\ (SensingRunning' => SensingRunning)
         \/ sensing' = <<>> /\ ~SensingRunning'
      /\ stop' \in {stop, "engine", "sensing", "bit", "done"}
  BY DEF StopEngine, StopSensing, StopBit, StopDone, Stopped, vars, SensingRunning
<1>3. StopOK' /\ SensingOK'
  <2>1. StopOK /\ SensingOK
    BY <1>1 DEF UeTypeOK
  <2>2. StopOK'
    BY <1>2, <2>1 DEF StopOK
  <2>3. <<>> \in Seq(Sensed)
    OBVIOUS
  <2>4. SensingOK'
    BY <1>2, <2>1, <2>3 DEF SensingOK
  <2> QED BY <2>2, <2>4
<1>4. UeTypeOK'
  BY <1>1, <1>2, <1>3, TypesKept, DemodSame, DecodeSame DEF UeTypeOK
<1>5. /\ CutsInv(k)' /\ HandInv(k)' /\ QueueInv(k)' /\ LlrsInv(k)' /\ DecodeInv(k)'
      /\ DemodInv(k)' /\ ProcRoom' /\ OwedInv(k)' /\ BitRoom'
  BY <1>1, <1>2, QueuesKept, DecodeKept, DemodKept, ProcKept, BitKept
<1>6. MeasurementInv'
  <2>1. CASE UNCHANGED sensing /\ (SensingRunning' => SensingRunning)
    BY <1>1, <1>2, <2>1, OwedKept DEF UeTypeOK
  <2>2. CASE sensing' = <<>> /\ ~SensingRunning'
    BY <1>1, <1>2, <2>2 DEF MeasurementInv, MeasurementIsOwed
  <2> QED BY <1>2, <2>1, <2>2
<1>7. Onward
  BY <1>1, <1>2, SeenIsNat DEF UeTypeOK
<1>8. OrderInv(k)'
  BY <1>5 DEF OrderInv
<1> QED BY <1>4, <1>5, <1>6, <1>7, <1>8 DEF UeInv

-----------------------------------------------------------------------------
(* The theorems about the frames of the UE *)

LEMMA UeStep ==
  ASSUME UeInv, [Next]_vars
  PROVE  UeInv' /\ Onward
<1>1. CASE Receive
  BY <1>1, RxNormalStep, RxAlignStep, RxPushStep, RxRestartStep DEF Receive
<1>2. CASE Process
  BY <1>2, ProcReleaseStep, ProcResetStep, ProcControlStep, ProcLlrStep, ProcClearStep,
     ProcFoundStep, ProcStillStep, ProcFrameStep, ProcJoinStep DEF Process
<1>3. CASE Bit
  BY <1>3, BitCollectStep, BitStillStep, BitTakeStep, BitJoinStep DEF Bit
<1>4. CASE Sense
  BY <1>4, SenseStep
<1>5. CASE \E w \in D!ids : Demodulate(w)
  BY <1>5, DemodulateStep
<1>6. CASE \E w \in L!ids : Decode(w)
  BY <1>6, DecodeStep
<1>7. CASE StopEngine \/ StopSensing \/ StopBit \/ StopDone \/ Stopped \/ UNCHANGED vars
  BY <1>7, StopStep
<1> QED BY <1>1, <1>2, <1>3, <1>4, <1>5, <1>6, <1>7 DEF Next

\* Nothing has been received, and the cut lies before the first frame everywhere.
LEMMA StageStarts ==
  ASSUME NEW R, Framed(R), NEW N \in Nat \ {0}, NEW s,
         s = [w \in 0 .. N - 1 |-> [tasks |-> <<>>, results |-> <<>>, pending |-> 0]]
  PROVE  /\ s \in [0 .. N - 1 -> Slots(R)] /\ Counted(s, N)
         /\ StageInv(AllNumbers(s, N), 0, 0, N, 0, 0)
<1>1. /\ s \in [0 .. N - 1 -> Slots(R)] /\ Counted(s, N)
      /\ NothingHeld(AllNumbers(s, N), N)
  BY RingsEmptied
<1> DEFINE q == AllNumbers(s, N)
<1>2. q \in [0 .. N - 1 -> Seq(Nat)]
  BY <1>1, AllNumbersAre
<1>3. \A w \in 0 .. N - 1 : q[w] = <<>> /\ Len(q[w]) = 0
  <2>1. Len(<<>>) = 0
    OBVIOUS
  <2> QED BY <1>1, <2>1 DEF NothingHeld
<1> HIDE DEF q
<1>4. 0 \in 0 .. N - 1
  OBVIOUS
<1>5. Balanced(q, 0, 0, N)
  <2>1. \A w \in 0 .. N - 1 : Len(q[w]) = 0 + (IF Turns(w, 0, N) < Turns(0, 0, N) THEN 1 ELSE 0)
    <3> TAKE w \in 0 .. N - 1
    <3>1. Turns(w, 0, N) = w /\ Turns(0, 0, N) = 0
      BY DEF Turns
    <3>2. ~(Turns(w, 0, N) < Turns(0, 0, N))
      BY <3>1
    <3> QED BY <1>3, <3>2
  <2> QED BY <2>1 DEF Balanced
<1>6. InTurn(q, 0, N) /\ Between(q, N, 0, 0)
  <2>1. \A w \in 0 .. N - 1 : 1 .. Len(q[w]) = {}
    BY <1>3
  <2> QED BY <2>1 DEF InTurn, Between
<1> QED BY <1>1, <1>2, <1>4, <1>5, <1>6 DEF StageInv, q

LEMMA UeStarts ==
  ASSUME Init
  PROVE  UeInv
<1> DEFINE k == [queue |-> 0, demod |-> 0, llrs |-> 0, decode |-> 0]
<1>1. /\ k \in Cuts /\ k.queue = 0 /\ k.demod = 0 /\ k.llrs = 0 /\ k.decode = 0
  BY DEF Cuts
<1>2. /\ sync = [state |-> "SYNC_SEARCH", gen |-> 0, clear |-> FALSE]
      /\ rx = [hand |-> <<>>, aligning |-> FALSE, queue |-> <<>>]
      /\ proc = [pc |-> "collect", then |-> "clear", deferred |-> FALSE]
      /\ sensing = <<>> /\ llrs = <<>>
      /\ bit = [pc |-> "collect", then |-> "launch"]
      /\ stop = "no"
      /\ seen = [decoded |-> 0, unmeasured |-> 0, gen |-> 0]
      /\ budget = [frame |-> 1, troubles |-> Troubles]
      /\ demodNext = 0 /\ demodTurn = 0 /\ decodeNext = 0 /\ decodeTurn = 0
      /\ demod = [w \in 0 .. Demodulators - 1 |->
                    [tasks |-> <<>>, results |-> <<>>, pending |-> 0]]
      /\ decode = [w \in 0 .. Decoders - 1 |->
                    [tasks |-> <<>>, results |-> <<>>, pending |-> 0]]
  BY DEF Init, D!Init, L!Init, D!ids, L!ids
<1> HIDE DEF k
<1>3. /\ demod \in [0 .. Demodulators - 1 -> Slots(Demodulated)]
      /\ Counted(demod, Demodulators)
      /\ StageInv(AllNumbers(demod, Demodulators), 0, 0, Demodulators, 0, 0)
  BY <1>2, Sizes, FramedResults, StageStarts
<1>4. /\ decode \in [0 .. Decoders - 1 -> Slots(Decoded)]
      /\ Counted(decode, Decoders)
      /\ StageInv(AllNumbers(decode, Decoders), 0, 0, Decoders, 0, 0)
  BY <1>2, Sizes, FramedResults, StageStarts
<1>5. DemodOK /\ DecodeOK
  <2>1. 0 \in 0 .. Demodulators - 1 /\ 0 \in 0 .. Decoders - 1
    BY Sizes
  <2> QED BY <1>2, <1>3, <1>4, <2>1 DEF DemodOK, DecodeOK
<1>6. UeTypeOK
  <2>1. SyncOK /\ ProcOK /\ BitOK /\ StopOK /\ SeenOK
    BY <1>2 DEF SyncOK, ProcOK, BitOK, StopOK, SeenOK
  <2>2. BudgetOK
    BY <1>2, Sizes DEF BudgetOK
  <2>3. RxOK /\ SensingOK /\ LlrsOK
    <3>1. /\ <<>> \in Seq(FrameRecords) /\ Len(<<>>) <= 1
          /\ <<>> \in Seq(Sensed)
      OBVIOUS
    <3> QED BY <1>2, <3>1 DEF RxOK, SensingOK, LlrsOK
  <2> QED BY <1>5, <2>1, <2>2, <2>3 DEF UeTypeOK
<1>7. ProcRoom /\ BitRoom /\ MeasurementInv
  BY <1>2 DEF ProcRoom, BitRoom, MeasurementInv, MeasurementIsOwed
<1>8. CutsInv(k) /\ OwedInv(k)
  BY <1>1, <1>2 DEF CutsInv, OwedInv
<1>9. HandInv(k) /\ QueueInv(k) /\ LlrsInv(k)
  <2>1. rx.hand = <<>> /\ rx.queue = <<>>
    BY <1>2
  <2> QED BY <1>2, <2>1, EmptyQueue DEF HandInv, QueueInv, LlrsInv
<1>10. DemodInv(k) /\ DecodeInv(k)
  <2>1. proc.pc # "done" /\ bit.pc # "done" /\ seen.decoded = 0
    BY <1>2
  <2> QED BY <1>1, <1>2, <1>3, <1>4, <2>1 DEF DemodInv, DecodeInv
<1>11. OrderInv(k)
  BY <1>8, <1>9, <1>10 DEF OrderInv
<1> QED BY <1>1, <1>6, <1>7, <1>11 DEF UeInv

\* The frames between the radio and the packets lie in the order of their numbers
\* through every queue, ring and worker, an alignment that is not yet measured is
\* owed by somebody, and no worker is given more than its rings hold (process_proc,
\* bit_processing_proc, sensing_process_proc).
THEOREM UeInvariant == Spec => []UeInv
<1>1. Init => UeInv
  BY UeStarts
<1>2. UeInv /\ [Next]_vars => UeInv'
  BY UeStep
<1> QED BY <1>1, <1>2, PTL DEF Spec

\* The packets of the frames are handled in the order in which the radio delivered
\* the frames (collect_ready_slots, collect_ready_ldpc).
THEOREM PacketsInFrameOrder == Spec => InFrameOrder
<1>1. UeInv /\ [Next]_vars => [seen'.decoded # seen.decoded => seen'.decoded > seen.decoded]_vars
  <2> SUFFICES ASSUME UeInv, [Next]_vars, seen'.decoded # seen.decoded
               PROVE  seen'.decoded > seen.decoded
    OBVIOUS
  <2>1. UeInv' /\ seen.decoded <= seen'.decoded
    BY UeStep DEF Onward
  <2>2. seen.decoded \in Nat /\ seen'.decoded \in Nat
    BY <2>1 DEF UeInv, UeTypeOK, SeenOK
  <2> QED BY <2>1, <2>2
<1> QED BY <1>1, UeInvariant, PTL DEF Spec, InFrameOrder

\* An alignment that has been collected but not yet measured is not forgotten
\* before the receiver resynchronises (_ertm_remeasure_deferred_after_sensing_drop).
THEOREM MeasurementStaysOwed == Spec => []MeasurementIsOwed
<1>1. UeInv => MeasurementIsOwed
  BY DEF UeInv, MeasurementInv
<1> QED BY <1>1, UeInvariant, PTL

\* No worker holds more frames than its rings have room for, in whichever of them
\* they are ("so a free producer slot is guaranteed").
THEOREM RingsAlwaysSuffice == Spec => []RingsSuffice
<1>1. ASSUME NEW R, Framed(R), NEW N \in Nat \ {0}, NEW s \in [0 .. N - 1 -> Slots(R)],
             Counted(s, N), NEW w \in 0 .. N - 1
      PROVE  Len(s[w].tasks \o s[w].results) <= Depth
  <2>1. s[w].results \in Seq(R) /\ s[w].tasks \in Seq(FrameRecords)
    BY <1>1, AllNumbersAre
  <2>2. Len(s[w].tasks \o s[w].results) = Len(s[w].tasks) + Len(s[w].results)
    BY <2>1
  <2>3. Len(s[w].tasks) \in Nat /\ Len(s[w].results) \in Nat
    BY <2>1, LenIsNat
  <2>4. Len(s[w].results) + Len(s[w].tasks) <= Depth
    BY <1>1 DEF Counted
  <2>5. ASSUME NEW a \in Nat, NEW b \in Nat, a + b <= Depth PROVE b + a <= Depth
    BY <2>5, Sizes
  <2>6. Len(s[w].tasks) + Len(s[w].results) <= Depth
    BY <2>3, <2>4, <2>5
  <2> QED BY <2>2, <2>6
<1>2. UeInv => RingsSuffice
  <2> SUFFICES ASSUME UeInv PROVE RingsSuffice
    OBVIOUS
  <2>1. DemodOK /\ DecodeOK
    BY DEF UeInv, UeTypeOK
  <2>2. \A w \in D!ids : Len(demod[w].tasks \o demod[w].results) <= Depth
    BY <1>1, <2>1, Sizes, FramedResults DEF DemodOK, D!ids
  <2>3. \A w \in L!ids : Len(decode[w].tasks \o decode[w].results) <= Depth
    BY <1>1, <2>1, Sizes, FramedResults DEF DecodeOK, L!ids
  <2> QED BY <2>2, <2>3 DEF RingsSuffice
<1> QED BY <1>2, UeInvariant, PTL

-----------------------------------------------------------------------------
(* The buffers.  What the rings of N workers hold is counted by place, so   *)
(* that one more, or one less, is one place more or less.                   *)

\* The places of rings q, of at most Depth each, at which there is something in K.
Spots(q, N, K) ==
  {x \in (0 .. N - 1) \X (1 .. Depth) : x[2] <= Len(q[x[1]]) /\ q[x[1]][x[2]] \in K}

Bounded(q, N, X) ==
  q \in [0 .. N - 1 -> Seq(X)] /\ \A w \in 0 .. N - 1 : Len(q[w]) <= Depth

\* x is put at the end of u.
Longer(u, v, x) == v = Append(u, x)

LEMMA SpotsAreFinite ==
  ASSUME NEW N \in Nat \ {0}, NEW q, NEW K
  PROVE  IsFiniteSet(Spots(q, N, K)) /\ Cardinality(Spots(q, N, K)) \in Nat
<1>1. IsFiniteSet(0 .. N - 1) /\ IsFiniteSet(1 .. Depth)
  BY Sizes, FS_Interval
<1>2. IsFiniteSet((0 .. N - 1) \X (1 .. Depth))
  BY <1>1, FS_Product
<1>3. Spots(q, N, K) \subseteq (0 .. N - 1) \X (1 .. Depth)
  BY DEF Spots
<1> QED BY <1>2, <1>3, FS_Subset, FS_CardinalityType

\* A place is a worker and a number.
LEMMA SpotIs ==
  ASSUME NEW N \in Nat \ {0}, NEW q, NEW K, NEW w, NEW i
  PROVE  <<w, i>> \in Spots(q, N, K) <=>
           /\ w \in 0 .. N - 1 /\ i \in 1 .. Depth
           /\ i <= Len(q[w]) /\ q[w][i] \in K
BY DEF Spots

LEMMA SpotOf ==
  ASSUME NEW N \in Nat \ {0}, NEW X, NEW q, Bounded(q, N, X), NEW K, NEW w \in 0 .. N - 1, NEW i
  PROVE  <<w, i>> \in Spots(q, N, K) <=> i \in 1 .. Len(q[w]) /\ q[w][i] \in K
<1>1. q[w] \in Seq(X) /\ Len(q[w]) <= Depth /\ Depth \in Nat
  BY Sizes DEF Bounded
<1>2. Len(q[w]) \in Nat
  BY <1>1, LenIsNat
<1>3. i \in 1 .. Len(q[w]) <=> i \in 1 .. Depth /\ i <= Len(q[w])
  BY <1>1, <1>2
<1> QED BY <1>3, SpotIs

LEMMA SpotIsPair ==
  ASSUME NEW N \in Nat \ {0}, NEW q, NEW K, NEW x \in Spots(q, N, K)
  PROVE  x = <<x[1], x[2]>> /\ x[1] \in 0 .. N - 1 /\ x[2] \in 1 .. Depth
BY DEF Spots

\* Something is put at the end of the ring of l.
LEMMA SpotsGiven ==
  ASSUME NEW N \in Nat \ {0}, NEW X, NEW q, Bounded(q, N, X), NEW l \in 0 .. N - 1, NEW x \in X,
         NEW p, Bounded(p, N, X), Longer(q[l], p[l], x),
         \A w \in 0 .. N - 1 : w # l => p[w] = q[w], NEW K
  PROVE  Cardinality(Spots(p, N, K)) =
           Cardinality(Spots(q, N, K)) + (IF x \in K THEN 1 ELSE 0)
<1> DEFINE e == Len(q[l]) + 1
           S == Spots(q, N, K)
           T == Spots(p, N, K)
<1>1. /\ q[l] \in Seq(X) /\ Len(q[l]) \in Nat /\ e \in 1 .. Depth
      /\ Len(p[l]) = e /\ p[l][e] = x
      /\ \A i \in 1 .. Len(q[l]) : p[l][i] = q[l][i]
  <2>1. q[l] \in Seq(X) /\ p[l] = Append(q[l], x) /\ Len(p[l]) <= Depth
    BY DEF Bounded, Longer
  <2> QED BY <2>1, Sizes
<1>2. <<l, e>> \notin S
  <2>1. e \notin 1 .. Len(q[l])
    BY <1>1
  <2> QED BY <2>1, SpotOf
<1>3. <<l, e>> \in T <=> x \in K
  <2>1. e \in 1 .. Len(p[l]) /\ p[l][e] = x
    BY <1>1
  <2> QED BY <2>1, SpotOf
<1>4. \A w, i : <<w, i>> # <<l, e>> => (<<w, i>> \in T <=> <<w, i>> \in S)
  <2> SUFFICES ASSUME NEW w \in 0 .. N - 1, NEW i \in 1 .. Depth, <<w, i>> # <<l, e>>
               PROVE  <<w, i>> \in T <=> <<w, i>> \in S
    BY SpotIs
  <2>1. CASE w # l
    BY <2>1, SpotIs
  <2>2. CASE w = l
    <3>1. i # e
      BY <2>2
    <3>2. i \in 1 .. Len(p[l]) <=> i \in 1 .. Len(q[l])
      BY <1>1, <3>1
    <3>3. i \in 1 .. Len(q[l]) => p[l][i] = q[l][i]
      BY <1>1
    <3>4. <<l, i>> \in T <=> i \in 1 .. Len(p[l]) /\ p[l][i] \in K
      BY SpotOf
    <3>5. <<l, i>> \in S <=> i \in 1 .. Len(q[l]) /\ q[l][i] \in K
      BY SpotOf
    <3> QED BY <2>2, <3>2, <3>3, <3>4, <3>5
  <2> QED BY <2>1, <2>2
<1>5. IsFiniteSet(S) /\ Cardinality(S) \in Nat
  BY SpotsAreFinite
<1>6. \A y \in S \cup T : y = <<y[1], y[2]>>
  BY SpotIsPair
<1> HIDE DEF S, T, e
<1>7. CASE x \in K
  <2>1. T = S \cup {<<l, e>>}
    <3>1. \A y \in T : y \in S \/ y = <<l, e>>
      BY <1>4, <1>6
    <3>2. \A y \in S : y \in T
      BY <1>2, <1>4, <1>6
    <3> QED BY <1>3, <1>7, <3>1, <3>2
  <2>2. Cardinality(S \cup {<<l, e>>}) = Cardinality(S) + 1
    BY <1>2, <1>5, FS_AddElement
  <2> QED BY <1>7, <2>1, <2>2 DEF S, T
<1>8. CASE x \notin K
  <2>1. T = S
    <3>1. \A y \in T : y \in S
      BY <1>3, <1>4, <1>6, <1>8
    <3>2. \A y \in S : y \in T
      BY <1>2, <1>4, <1>6
    <3> QED BY <3>1, <3>2
  <2> QED BY <1>5, <1>8, <2>1 DEF S, T
<1> QED BY <1>7, <1>8

\* The first of the ring of c is taken, and the others move up.
LEMMA SpotsTaken ==
  ASSUME NEW N \in Nat \ {0}, NEW X, NEW q, Bounded(q, N, X), NEW c \in 0 .. N - 1, q[c] # <<>>,
         NEW p, Bounded(p, N, X), p[c] = Tail(q[c]),
         \A w \in 0 .. N - 1 : w # c => p[w] = q[w], NEW K
  PROVE  Cardinality(Spots(q, N, K)) =
           Cardinality(Spots(p, N, K)) + (IF Head(q[c]) \in K THEN 1 ELSE 0)
<1> DEFINE S == Spots(q, N, K)
           T == Spots(p, N, K)
           Q == S \ {<<c, 1>>}
           up(y) == IF y[1] = c THEN <<c, y[2] + 1>> ELSE y
           f == [y \in T |-> up(y)]
<1>1. /\ q[c] \in Seq(X) /\ Len(q[c]) \in Nat /\ Len(q[c]) > 0 /\ Len(q[c]) <= Depth
      /\ Len(p[c]) = Len(q[c]) - 1
      /\ \A i \in 1 .. Len(q[c]) - 1 : p[c][i] = q[c][i + 1]
      /\ Head(q[c]) = q[c][1]
  <2>1. q[c] \in Seq(X) /\ Len(q[c]) <= Depth
    BY DEF Bounded
  <2> QED BY <2>1, Sizes
<1>2. <<c, 1>> \in S <=> Head(q[c]) \in K
  <2>1. 1 \in 1 .. Len(q[c]) /\ q[c][1] = Head(q[c])
    BY <1>1
  <2>2. <<c, 1>> \in S <=> 1 \in 1 .. Len(q[c]) /\ q[c][1] \in K
    BY SpotOf
  <2> HIDE DEF S
  <2> QED BY <2>1, <2>2
<1>3. IsFiniteSet(S) /\ Cardinality(S) \in Nat /\ IsFiniteSet(T) /\ Cardinality(T) \in Nat
  BY SpotsAreFinite
<1>4. \A w, i : w # c => (<<w, i>> \in T <=> <<w, i>> \in S)
  <2> SUFFICES ASSUME NEW w \in 0 .. N - 1, NEW i, w # c
               PROVE  <<w, i>> \in T <=> <<w, i>> \in S
    BY SpotIs
  <2> QED BY SpotIs
<1>5. \A i \in Nat \ {0} : <<c, i>> \in T <=> <<c, i + 1>> \in S
  <2> TAKE i \in Nat \ {0}
  <2>1. i \in 1 .. Len(p[c]) <=> i + 1 \in 1 .. Len(q[c])
    BY <1>1
  <2>2. i \in 1 .. Len(p[c]) => p[c][i] = q[c][i + 1]
    BY <1>1
  <2>3. <<c, i>> \in T <=> i \in 1 .. Len(p[c]) /\ p[c][i] \in K
    BY SpotOf
  <2>4. <<c, i + 1>> \in S <=> i + 1 \in 1 .. Len(q[c]) /\ q[c][i + 1] \in K
    BY SpotOf
  <2> QED BY <2>1, <2>2, <2>3, <2>4
<1>6. \A y \in S \cup T : y = <<y[1], y[2]>> /\ y[2] \in Nat \ {0}
  <2> TAKE y \in S \cup T
  <2>1. y = <<y[1], y[2]>> /\ y[2] \in 1 .. Depth
    BY SpotIsPair
  <2> QED BY <2>1
<1> HIDE DEF S, T
<1>7. f \in [T -> Q] /\ \A y \in T : f[y] = up(y)
  <2>1. ASSUME NEW y \in T PROVE up(y) \in Q
    <3>1. CASE y[1] = c
      <4>1. y = <<c, y[2]>> /\ y[2] \in Nat \ {0}
        BY <1>6, <3>1
      <4>2. <<c, y[2] + 1>> \in S
        BY <1>5, <4>1
      <4>3. <<c, y[2] + 1>> # <<c, 1>>
        BY <4>1
      <4> QED BY <3>1, <4>2, <4>3
    <3>2. CASE y[1] # c
      <4>1. y = <<y[1], y[2]>>
        BY <1>6
      <4>2. y \in S
        BY <1>4, <3>2, <4>1
      <4>3. y # <<c, 1>>
        BY <3>2
      <4> QED BY <3>2, <4>2, <4>3
    <3> QED BY <3>1, <3>2
  <2> QED BY <2>1
<1>8. \A y, z \in T : f[y] = f[z] => y = z
  <2> SUFFICES ASSUME NEW y \in T, NEW z \in T, up(y) = up(z) PROVE y = z
    BY <1>7
  <2>1. /\ y = <<y[1], y[2]>> /\ z = <<z[1], z[2]>> /\ y[2] \in Nat /\ z[2] \in Nat
    BY <1>6
  <2>2. y[1] = z[1]
    <3>1. \A a \in T : up(a)[1] = a[1]
      OBVIOUS
    <3> QED BY <3>1
  <2>3. y[2] = z[2]
    <3>1. CASE y[1] = c
      <4>1. y[2] + 1 = z[2] + 1
        BY <2>2, <3>1
      <4> QED BY <2>1, <4>1
    <3>2. CASE y[1] # c
      BY <2>2, <3>2
    <3> QED BY <3>1, <3>2
  <2> QED BY <2>1, <2>2, <2>3
<1>9. \A z \in Q : \E y \in T : f[y] = z
  <2> TAKE z \in Q
  <2>1. z \in S /\ z # <<c, 1>> /\ z = <<z[1], z[2]>> /\ z[2] \in Nat \ {0}
    BY <1>6
  <2>2. CASE z[1] = c
    <3>1. z[2] - 1 \in Nat \ {0} /\ (z[2] - 1) + 1 = z[2]
      BY <2>1, <2>2
    <3>2. <<c, z[2] - 1>> \in T
      BY <1>5, <2>1, <2>2, <3>1
    <3>3. up(<<c, z[2] - 1>>) = z
      BY <2>1, <2>2, <3>1
    <3> QED BY <1>7, <3>2, <3>3
  <2>3. CASE z[1] # c
    <3>1. z \in T /\ up(z) = z
      BY <1>4, <2>1, <2>3
    <3> QED BY <1>7, <3>1
  <2> QED BY <2>2, <2>3
<1>10. Cardinality(Q) = Cardinality(T)
  <2> HIDE DEF f, Q
  <2>1. f \in Bijection(T, Q)
    BY <1>7, <1>8, <1>9 DEF Bijection, Injection, Surjection, IsInjective
  <2>2. ExistsBijection(T, Q)
    BY <2>1 DEF ExistsBijection
  <2> QED BY <1>3, <2>2, FS_Bijection
<1>11. CASE Head(q[c]) \in K
  <2>1. Cardinality(Q) = Cardinality(S) - 1
    BY <1>2, <1>3, <1>11, FS_RemoveElement
  <2> QED BY <1>3, <1>10, <1>11, <2>1 DEF S, T
<1>12. CASE Head(q[c]) \notin K
  <2>1. Q = S
    BY <1>2, <1>12
  <2>2. Cardinality(S) = Cardinality(T)
    <3> HIDE DEF Q
    <3> QED BY <1>10, <2>1
  <2>3. Cardinality(S) = Cardinality(T) + 0
    BY <1>3, <2>2
  <2> QED BY <1>12, <2>3 DEF S, T
<1> QED BY <1>11, <1>12

LEMMA NoSpots ==
  ASSUME NEW N \in Nat \ {0}, NEW q, \A w \in 0 .. N - 1 : Len(q[w]) = 0, NEW K
  PROVE  Cardinality(Spots(q, N, K)) = 0
<1>1. Spots(q, N, K) = {}
  <2> SUFFICES ASSUME NEW x \in Spots(q, N, K) PROVE FALSE
    OBVIOUS
  <2>1. x[1] \in 0 .. N - 1 /\ x[2] \in 1 .. Depth /\ x[2] <= Len(q[x[1]]) /\ Depth \in Nat
    BY Sizes DEF Spots
  <2> QED BY <2>1
<1> QED BY <1>1, FS_EmptySet

\* The rings of a stage.
TasksOf(s, N)   == [w \in 0 .. N - 1 |-> s[w].tasks]
ResultsOf(s, N) == [w \in 0 .. N - 1 |-> s[w].results]

TaskCount(s, N)      == Cardinality(Spots(TasksOf(s, N), N, FrameRecords))
ResultCount(s, N, K) == Cardinality(Spots(ResultsOf(s, N), N, K))

LEMMA CountsAreNat ==
  ASSUME NEW N \in Nat \ {0}, NEW s
  PROVE  TaskCount(s, N) \in Nat /\ \A K : ResultCount(s, N, K) \in Nat
BY SpotsAreFinite DEF TaskCount, ResultCount

LEMMA RingsAreBounded ==
  ASSUME NEW R, Framed(R), NEW N \in Nat \ {0}, NEW s \in [0 .. N - 1 -> Slots(R)],
         Counted(s, N)
  PROVE  /\ Bounded(TasksOf(s, N), N, FrameRecords)
         /\ Bounded(ResultsOf(s, N), N, R)
<1>1. ASSUME NEW w \in 0 .. N - 1
      PROVE  /\ s[w].results \in Seq(R) /\ s[w].tasks \in Seq(FrameRecords)
             /\ Len(s[w].results) <= Depth /\ Len(s[w].tasks) <= Depth
  <2>1. s[w].results \in Seq(R) /\ s[w].tasks \in Seq(FrameRecords)
    BY AllNumbersAre
  <2>2. Len(s[w].results) \in Nat /\ Len(s[w].tasks) \in Nat /\ Depth \in Nat
    BY <2>1, LenIsNat, Sizes
  <2>3. Len(s[w].results) + Len(s[w].tasks) <= Depth
    BY DEF Counted
  <2>4. ASSUME NEW a \in Nat, NEW b \in Nat, NEW d \in Nat, a + b <= d PROVE a <= d /\ b <= d
    BY <2>4
  <2> QED BY <2>1, <2>2, <2>3, <2>4
<1> QED BY <1>1 DEF Bounded, TasksOf, ResultsOf

\* Dispatch, Work, Pop and Reset, in numbers.
LEMMA CountsGiven ==
  ASSUME NEW R, Framed(R), NEW N \in Nat \ {0},
         NEW s \in [0 .. N - 1 -> Slots(R)], Counted(s, N),
         NEW l \in 0 .. N - 1, NEW x \in FrameRecords,
         NEW t \in [0 .. N - 1 -> Slots(R)], Counted(t, N), Given(s, t, l, x)
  PROVE  /\ TaskCount(t, N) = TaskCount(s, N) + 1
         /\ \A K : ResultCount(t, N, K) = ResultCount(s, N, K)
<1> DEFINE p == TasksOf(t, N)
           q == TasksOf(s, N)
<1>1. t[l].tasks = Append(s[l].tasks, x) /\ t[l].results = s[l].results
  BY DEF Given, Slots
<1>2. \A w \in 0 .. N - 1 : w # l => t[w] = s[w]
  BY DEF Given
<1>3. Bounded(q, N, FrameRecords) /\ Bounded(p, N, FrameRecords)
  BY RingsAreBounded
<1>4. Longer(q[l], p[l], x) /\ \A w \in 0 .. N - 1 : w # l => p[w] = q[w]
  BY <1>1, <1>2 DEF TasksOf, Longer
<1> HIDE DEF p, q
<1>6. ASSUME NEW K
      PROVE  Cardinality(Spots(p, N, K)) =
               Cardinality(Spots(q, N, K)) + (IF x \in K THEN 1 ELSE 0)
  BY <1>3, <1>4, SpotsGiven
<1>7. ResultsOf(t, N) = ResultsOf(s, N)
  <2>1. \A w \in 0 .. N - 1 : t[w].results = s[w].results
    BY <1>1, <1>2
  <2> QED BY <2>1 DEF ResultsOf
<1> QED BY <1>6, <1>7 DEF TaskCount, ResultCount, p, q

LEMMA CountsRan ==
  ASSUME NEW R, Framed(R), NEW N \in Nat \ {0},
         NEW s \in [0 .. N - 1 -> Slots(R)], Counted(s, N),
         NEW w \in 0 .. N - 1, s[w].tasks # <<>>, NEW r \in R,
         NEW t \in [0 .. N - 1 -> Slots(R)], Counted(t, N), Ran(s, t, w, r)
  PROVE  /\ TaskCount(s, N) = TaskCount(t, N) + 1
         /\ \A K : ResultCount(t, N, K) = ResultCount(s, N, K) + (IF r \in K THEN 1 ELSE 0)
<1> DEFINE p == TasksOf(t, N)
           q == TasksOf(s, N)
           u == ResultsOf(t, N)
           v == ResultsOf(s, N)
<1>1. t[w].tasks = Tail(s[w].tasks) /\ t[w].results = Append(s[w].results, r)
  BY DEF Ran, Slots
<1>2. \A a \in 0 .. N - 1 : a # w => t[a] = s[a]
  BY DEF Ran
<1>3. /\ Bounded(q, N, FrameRecords) /\ Bounded(p, N, FrameRecords)
      /\ Bounded(v, N, R) /\ Bounded(u, N, R)
  BY RingsAreBounded
<1>4. /\ q[w] # <<>> /\ p[w] = Tail(q[w]) /\ \A a \in 0 .. N - 1 : a # w => p[a] = q[a]
      /\ Longer(v[w], u[w], r) /\ \A a \in 0 .. N - 1 : a # w => u[a] = v[a]
  BY <1>1, <1>2 DEF TasksOf, ResultsOf, Longer
<1> HIDE DEF p, q, u, v
<1>6. Head(q[w]) \in FrameRecords
  <2>1. q[w] \in Seq(FrameRecords)
    BY <1>3 DEF Bounded
  <2> QED BY <1>4, <2>1
<1>7. ASSUME NEW K
      PROVE  Cardinality(Spots(q, N, K)) =
               Cardinality(Spots(p, N, K)) + (IF Head(q[w]) \in K THEN 1 ELSE 0)
  BY <1>3, <1>4, SpotsTaken
<1>8. ASSUME NEW K
      PROVE  Cardinality(Spots(u, N, K)) =
               Cardinality(Spots(v, N, K)) + (IF r \in K THEN 1 ELSE 0)
  BY <1>3, <1>4, SpotsGiven
<1>9. Cardinality(Spots(q, N, FrameRecords)) = Cardinality(Spots(p, N, FrameRecords)) + 1
  BY <1>6, <1>7
<1> QED BY <1>8, <1>9 DEF TaskCount, ResultCount, p, q, u, v

LEMMA CountsTook ==
  ASSUME NEW R, Framed(R), NEW N \in Nat \ {0},
         NEW s \in [0 .. N - 1 -> Slots(R)], Counted(s, N),
         NEW c \in 0 .. N - 1, s[c].results # <<>>,
         NEW t \in [0 .. N - 1 -> Slots(R)], Counted(t, N), Took(s, t, c)
  PROVE  /\ TaskCount(t, N) = TaskCount(s, N)
         /\ \A K : ResultCount(s, N, K) =
                     ResultCount(t, N, K) + (IF Head(s[c].results) \in K THEN 1 ELSE 0)
<1> DEFINE u == ResultsOf(t, N)
           v == ResultsOf(s, N)
<1>1. t[c].tasks = s[c].tasks /\ t[c].results = Tail(s[c].results)
  BY DEF Took, Slots
<1>2. \A a \in 0 .. N - 1 : a # c => t[a] = s[a]
  BY DEF Took
<1>3. Bounded(v, N, R) /\ Bounded(u, N, R)
  BY RingsAreBounded
<1>4. /\ v[c] # <<>> /\ u[c] = Tail(v[c]) /\ \A a \in 0 .. N - 1 : a # c => u[a] = v[a]
      /\ v[c] = s[c].results
  BY <1>1, <1>2 DEF ResultsOf
<1> HIDE DEF u, v
<1>6. ASSUME NEW K
      PROVE  Cardinality(Spots(v, N, K)) =
               Cardinality(Spots(u, N, K)) + (IF Head(v[c]) \in K THEN 1 ELSE 0)
  BY <1>3, <1>4, SpotsTaken
<1>7. TasksOf(t, N) = TasksOf(s, N)
  <2>1. \A a \in 0 .. N - 1 : t[a].tasks = s[a].tasks
    BY <1>1, <1>2
  <2> QED BY <2>1 DEF TasksOf
<1>8. \A K : Cardinality(Spots(v, N, K)) =
               Cardinality(Spots(u, N, K)) + (IF Head(s[c].results) \in K THEN 1 ELSE 0)
  BY <1>4, <1>6
<1> QED BY <1>7, <1>8 DEF TaskCount, ResultCount, u, v

LEMMA CountsEmptied ==
  ASSUME NEW N \in Nat \ {0}, NEW t,
         t = [w \in 0 .. N - 1 |-> [tasks |-> <<>>, results |-> <<>>, pending |-> 0]]
  PROVE  TaskCount(t, N) = 0 /\ \A K : ResultCount(t, N, K) = 0
<1>1. /\ \A w \in 0 .. N - 1 : Len(TasksOf(t, N)[w]) = 0
      /\ \A w \in 0 .. N - 1 : Len(ResultsOf(t, N)[w]) = 0
  BY DEF TasksOf, ResultsOf
<1> QED BY <1>1, NoSpots DEF TaskCount, ResultCount

-----------------------------------------------------------------------------
(* The books *)

\* The results that have taken a buffer for LLRs, and those with one for sensing.
LlrResults     == {r \in Demodulated : r.llr}
SensingResults == {r \in Demodulated : ~r.dropped}

DemodTasks      == TaskCount(demod, Demodulators)
DemodResults(K) == ResultCount(demod, Demodulators, K)
DecodeTasks     == TaskCount(decode, Decoders)

LEMMA CountsKept ==
  /\ UNCHANGED demod => DemodTasks' = DemodTasks /\ \A K : DemodResults(K)' = DemodResults(K)
  /\ UNCHANGED decode => DecodeTasks' = DecodeTasks
BY DEF DemodTasks, DemodResults, DecodeTasks

LEMMA StageCountsAreNat ==
  /\ DemodTasks \in Nat /\ DecodeTasks \in Nat /\ \A K : DemodResults(K) \in Nat
  /\ DemodTasks' \in Nat /\ DecodeTasks' \in Nat /\ \A K : DemodResults(K)' \in Nat
BY Sizes, CountsAreNat DEF DemodTasks, DemodResults, DecodeTasks

\* What the model counts is what the books count.
LEMMA TasksAreCounted ==
  ASSUME NEW R, Framed(R), NEW N \in Nat \ {0},
         NEW s \in [0 .. N - 1 -> Slots(R)], Counted(s, N)
  PROVE  Waiting(s, 0 .. N - 1) = TaskCount(s, N)
<1> DEFINE q == TasksOf(s, N)
<1>1. Bounded(q, N, FrameRecords)
  BY RingsAreBounded
<1>2. \A w \in 0 .. N - 1 : q[w] = s[w].tasks /\ s[w].tasks \in Seq(FrameRecords)
  BY AllNumbersAre DEF TasksOf
<1> HIDE DEF q
<1>3. Tasks(s, 0 .. N - 1) = Spots(q, N, FrameRecords)
  <2>1. ASSUME NEW x \in Tasks(s, 0 .. N - 1) PROVE x \in Spots(q, N, FrameRecords)
    <3>1. PICK w \in 0 .. N - 1 : x \in {w} \X DOMAIN s[w].tasks
      BY DEF Tasks
    <3>2. PICK i \in DOMAIN s[w].tasks : x = <<w, i>>
      BY <3>1
    <3>3. i \in 1 .. Len(q[w]) /\ q[w][i] \in FrameRecords
      BY <1>2, <3>2
    <3> QED BY <1>1, <3>2, <3>3, SpotOf
  <2>2. ASSUME NEW x \in Spots(q, N, FrameRecords) PROVE x \in Tasks(s, 0 .. N - 1)
    <3>1. x = <<x[1], x[2]>> /\ x[1] \in 0 .. N - 1
      BY SpotIsPair
    <3>2. x[2] \in 1 .. Len(q[x[1]])
      BY <1>1, <3>1, SpotOf
    <3>3. x[2] \in DOMAIN s[x[1]].tasks
      BY <1>2, <3>1, <3>2
    <3>4. x \in {x[1]} \X DOMAIN s[x[1]].tasks
      BY <3>1, <3>3
    <3> QED BY <3>1, <3>4 DEF Tasks
  <2> QED BY <2>1, <2>2
<1> QED BY <1>3 DEF Waiting, TaskCount, q

LEMMA ResultsAreCounted ==
  ASSUME DemodOK
  PROVE  /\ Cardinality(Uncollected) = DemodResults(Demodulated)
         /\ Cardinality(WithLlr) = DemodResults(LlrResults)
         /\ Cardinality(WithSensing) = DemodResults(SensingResults)
<1> DEFINE N == Demodulators
           q == ResultsOf(demod, N)
<1>1. /\ N \in Nat \ {0} /\ demod \in [0 .. N - 1 -> Slots(Demodulated)]
      /\ Counted(demod, N) /\ D!ids = 0 .. N - 1
  BY Sizes DEF DemodOK, D!ids
<1>2. Bounded(q, N, Demodulated)
  BY <1>1, FramedResults, RingsAreBounded
<1>3. \A w \in 0 .. N - 1 : q[w] = demod[w].results /\ demod[w].results \in Seq(Demodulated)
  BY <1>1, FramedResults, AllNumbersAre DEF ResultsOf
<1> HIDE DEF q, N
<1>4. \A w, i : <<w, i>> \in Uncollected <=> w \in 0 .. N - 1 /\ i \in 1 .. Len(q[w])
  <2> TAKE w, i
  <2>1. <<w, i>> \in Uncollected <=> \E v \in 0 .. N - 1 : w = v /\ i \in DOMAIN demod[v].results
    BY <1>1 DEF Uncollected
  <2>2. \A v \in 0 .. N - 1 : DOMAIN demod[v].results = 1 .. Len(q[v])
    BY <1>3
  <2> QED BY <2>1, <2>2
<1>5. \A x \in Uncollected : x = <<x[1], x[2]>>
  <2> TAKE x \in Uncollected
  <2>1. PICK w \in 0 .. N - 1 : x \in {w} \X DOMAIN demod[w].results
    BY <1>1 DEF Uncollected
  <2> QED BY <2>1
<1>6. \A x \in Uncollected :
        /\ x[1] \in 0 .. N - 1 /\ x[2] \in 1 .. Len(q[x[1]])
        /\ ResultAt(x) = q[x[1]][x[2]] /\ ResultAt(x) \in Demodulated
  <2> TAKE x \in Uncollected
  <2>1. x[1] \in 0 .. N - 1 /\ x[2] \in 1 .. Len(q[x[1]])
    BY <1>4, <1>5
  <2>2. ResultAt(x) = q[x[1]][x[2]]
    BY <1>3, <2>1 DEF ResultAt
  <2> QED BY <1>3, <2>1, <2>2
<1>7. ASSUME NEW K \in SUBSET Demodulated
      PROVE  Spots(q, N, K) = {x \in Uncollected : ResultAt(x) \in K}
  <2>1. ASSUME NEW x \in Uncollected, ResultAt(x) \in K PROVE x \in Spots(q, N, K)
    <3>1. <<x[1], x[2]>> \in Spots(q, N, K)
      BY <1>1, <1>2, <1>6, <2>1, SpotOf
    <3> QED BY <1>5, <3>1
  <2>2. ASSUME NEW x \in Spots(q, N, K) PROVE x \in Uncollected /\ ResultAt(x) \in K
    <3>1. x = <<x[1], x[2]>> /\ x[1] \in 0 .. N - 1
      BY <1>1, SpotIsPair
    <3>2. x[2] \in 1 .. Len(q[x[1]]) /\ q[x[1]][x[2]] \in K
      BY <1>1, <1>2, <3>1, SpotOf
    <3>3. x \in Uncollected
      BY <1>4, <3>1, <3>2
    <3> QED BY <1>6, <3>2, <3>3
  <2> QED BY <2>1, <2>2
<1>8. /\ Uncollected = {x \in Uncollected : ResultAt(x) \in Demodulated}
      /\ WithLlr = {x \in Uncollected : ResultAt(x) \in LlrResults}
      /\ WithSensing = {x \in Uncollected : ResultAt(x) \in SensingResults}
  BY <1>6 DEF WithLlr, WithSensing, LlrResults, SensingResults
<1>9. /\ Uncollected = Spots(q, N, Demodulated)
      /\ WithLlr = Spots(q, N, LlrResults)
      /\ WithSensing = Spots(q, N, SensingResults)
  BY <1>7, <1>8 DEF LlrResults, SensingResults
<1> QED BY <1>9 DEF DemodResults, ResultCount, q, N

\* The stage of the demodulators, in numbers.
LEMMA DemodTakes ==
  ASSUME DemodOK, DemodOK', NEW x \in FrameRecords, D!Dispatch(x)
  PROVE  DemodTasks' = DemodTasks + 1 /\ \A K : DemodResults(K)' = DemodResults(K)
<1> DEFINE N == Demodulators
           s == demod
           t == demod'
           l == demodNext
<1>1. Given(s, t, l, x)
  BY DEF D!Dispatch, Given
<1>2. /\ N \in Nat \ {0} /\ s \in [0 .. N - 1 -> Slots(Demodulated)] /\ Counted(s, N)
      /\ t \in [0 .. N - 1 -> Slots(Demodulated)] /\ Counted(t, N) /\ l \in 0 .. N - 1
  BY Sizes DEF DemodOK
<1> HIDE DEF N, s, t, l
<1>3. /\ TaskCount(t, N) = TaskCount(s, N) + 1
      /\ \A K : ResultCount(t, N, K) = ResultCount(s, N, K)
  BY <1>1, <1>2, FramedResults, CountsGiven
<1> QED BY <1>3 DEF DemodTasks, DemodResults, N, s, t

LEMMA DemodRuns ==
  ASSUME DemodOK, DemodOK', NEW w \in 0 .. Demodulators - 1, NEW r \in Demodulated, D!Work(w, r)
  PROVE  /\ DemodTasks = DemodTasks' + 1
         /\ \A K : DemodResults(K)' = DemodResults(K) + (IF r \in K THEN 1 ELSE 0)
<1> DEFINE N == Demodulators
           s == demod
           t == demod'
<1>1. Ran(s, t, w, r) /\ s[w].tasks # <<>>
  BY DEF D!Work, Ran
<1>2. /\ N \in Nat \ {0} /\ s \in [0 .. N - 1 -> Slots(Demodulated)] /\ Counted(s, N)
      /\ t \in [0 .. N - 1 -> Slots(Demodulated)] /\ Counted(t, N) /\ w \in 0 .. N - 1
  BY Sizes DEF DemodOK
<1> HIDE DEF N, s, t
<1>3. /\ TaskCount(s, N) = TaskCount(t, N) + 1
      /\ \A K : ResultCount(t, N, K) = ResultCount(s, N, K) + (IF r \in K THEN 1 ELSE 0)
  BY <1>1, <1>2, FramedResults, CountsRan
<1> QED BY <1>3 DEF DemodTasks, DemodResults, N, s, t

LEMMA DemodPops ==
  ASSUME DemodOK, DemodOK', D!Ready, D!Pop
  PROVE  /\ DemodTasks' = DemodTasks
         /\ \A K : DemodResults(K) = DemodResults(K)' + (IF D!Result \in K THEN 1 ELSE 0)
<1> DEFINE N == Demodulators
           s == demod
           t == demod'
           c == demodTurn
<1>1. Took(s, t, c) /\ s[c].results # <<>>
  BY DEF D!Pop, D!Ready, Took
<1>2. /\ N \in Nat \ {0} /\ s \in [0 .. N - 1 -> Slots(Demodulated)] /\ Counted(s, N)
      /\ t \in [0 .. N - 1 -> Slots(Demodulated)] /\ Counted(t, N) /\ c \in 0 .. N - 1
  BY Sizes DEF DemodOK
<1> HIDE DEF N, s, t, c
<1>3. /\ TaskCount(t, N) = TaskCount(s, N)
      /\ \A K : ResultCount(s, N, K) =
                  ResultCount(t, N, K) + (IF Head(s[c].results) \in K THEN 1 ELSE 0)
  BY <1>1, <1>2, FramedResults, CountsTook
<1> QED BY <1>3 DEF DemodTasks, DemodResults, N, s, t, c, D!Result

LEMMA DemodResets ==
  ASSUME D!Reset
  PROVE  DemodTasks' = 0 /\ \A K : DemodResults(K)' = 0
<1>1. demod' = [w \in 0 .. Demodulators - 1 |->
                  [tasks |-> <<>>, results |-> <<>>, pending |-> 0]]
  BY DEF D!Reset, D!ids
<1> QED BY <1>1, Sizes, CountsEmptied DEF DemodTasks, DemodResults

\* The stage of the decoders: its results hold no buffers.
LEMMA DecodeTakes ==
  ASSUME DecodeOK, DecodeOK', NEW x \in FrameRecords, L!Dispatch(x)
  PROVE  DecodeTasks' = DecodeTasks + 1
<1> DEFINE N == Decoders
           s == decode
           t == decode'
           l == decodeNext
<1>1. Given(s, t, l, x)
  BY DEF L!Dispatch, Given
<1>2. /\ N \in Nat \ {0} /\ s \in [0 .. N - 1 -> Slots(Decoded)] /\ Counted(s, N)
      /\ t \in [0 .. N - 1 -> Slots(Decoded)] /\ Counted(t, N) /\ l \in 0 .. N - 1
  BY Sizes DEF DecodeOK
<1> HIDE DEF N, s, t, l
<1>3. TaskCount(t, N) = TaskCount(s, N) + 1
  BY <1>1, <1>2, FramedResults, CountsGiven
<1> QED BY <1>3 DEF DecodeTasks, N, s, t

LEMMA DecodeRuns ==
  ASSUME DecodeOK, DecodeOK', NEW w \in 0 .. Decoders - 1, NEW r \in Decoded, L!Work(w, r)
  PROVE  DecodeTasks = DecodeTasks' + 1
<1> DEFINE N == Decoders
           s == decode
           t == decode'
<1>1. Ran(s, t, w, r) /\ s[w].tasks # <<>>
  BY DEF L!Work, Ran
<1>2. /\ N \in Nat \ {0} /\ s \in [0 .. N - 1 -> Slots(Decoded)] /\ Counted(s, N)
      /\ t \in [0 .. N - 1 -> Slots(Decoded)] /\ Counted(t, N) /\ w \in 0 .. N - 1
  BY Sizes DEF DecodeOK
<1> HIDE DEF N, s, t
<1>3. TaskCount(s, N) = TaskCount(t, N) + 1
  BY <1>1, <1>2, FramedResults, CountsRan
<1> QED BY <1>3 DEF DecodeTasks, N, s, t

LEMMA DecodePops ==
  ASSUME DecodeOK, DecodeOK', L!Ready, L!Pop
  PROVE  DecodeTasks' = DecodeTasks
<1> DEFINE N == Decoders
           s == decode
           t == decode'
           c == decodeTurn
<1>1. Took(s, t, c) /\ s[c].results # <<>>
  BY DEF L!Pop, L!Ready, Took
<1>2. /\ N \in Nat \ {0} /\ s \in [0 .. N - 1 -> Slots(Decoded)] /\ Counted(s, N)
      /\ t \in [0 .. N - 1 -> Slots(Decoded)] /\ Counted(t, N) /\ c \in 0 .. N - 1
  BY Sizes DEF DecodeOK
<1> HIDE DEF N, s, t, c
<1>3. /\ TaskCount(t, N) = TaskCount(s, N)
      /\ \A K : ResultCount(s, N, K) =
                  ResultCount(t, N, K) + (IF Head(s[c].results) \in K THEN 1 ELSE 0)
  BY <1>1, <1>2, FramedResults, CountsTook
<1> QED BY <1>3 DEF DecodeTasks, N, s, t

LEMMA DecodeResets ==
  ASSUME L!Reset
  PROVE  DecodeTasks' = 0
<1>1. decode' = [w \in 0 .. Decoders - 1 |->
                   [tasks |-> <<>>, results |-> <<>>, pending |-> 0]]
  BY DEF L!Reset, L!ids
<1> QED BY <1>1, Sizes, CountsEmptied DEF DecodeTasks

\* Each kind of buffer is in its pool, in a queue, with a worker or in a hand.
Buffers == [rx : Int, llr : Int, sensing : Int]

Total(a, b, c, d, e) == a + b + c + d + e
Changes(a, x, n) == x = a + n

RxBooks ==
  Total(pool.rx, Len(rx.hand), Len(rx.queue), DemodTasks, DemodResults(Demodulated)) = Target.rx
LlrBooks ==
  Total(pool.llr, DemodResults(LlrResults), Len(llrs), DecodeTasks, 0) = Target.llr

\* The process thread, at work on a result, has already parted with its sensing buffer.
Parted == IF proc.pc = "llr" THEN -1 ELSE 0
SensingBooks ==
  Total(pool.sensing, DemodResults(SensingResults), Len(sensing), Parted, 0) = Target.sensing

\* The result it is at work on had one, and stop() waits for it before the others.
HandOver ==
  /\ proc.pc = "llr" => ~D!Result.dropped
  /\ stop \notin {"no", "engine"} => proc.pc = "done"

BooksInv == pool \in Buffers /\ RxBooks /\ LlrBooks /\ SensingBooks /\ HandOver

LEMMA LengthsAreNat ==
  ASSUME UeInv
  PROVE  /\ Len(rx.hand) \in Nat /\ Len(rx.queue) \in Nat /\ Len(llrs) \in Nat
         /\ Len(sensing) \in Nat
         /\ rx.hand \in Seq(FrameRecords) /\ rx.queue \in Seq(FrameRecords)
         /\ llrs \in Seq(FrameRecords) /\ sensing \in Seq(Sensed)
         /\ DemodOK /\ DecodeOK /\ RxOK /\ ProcOK
BY DEF UeInv, UeTypeOK, RxOK, LlrsOK, SensingOK

LEMMA PoolIsInt ==
  ASSUME BooksInv
  PROVE  pool.rx \in Int /\ pool.llr \in Int /\ pool.sensing \in Int
BY DEF BooksInv, Buffers

LEMMA PoolIs ==
  ASSUME BooksInv, NEW a \in Int, NEW b \in Int, NEW c \in Int,
         pool' = [rx |-> a, llr |-> b, sensing |-> c]
  PROVE  pool' \in Buffers /\ pool'.rx = a /\ pool'.llr = b /\ pool'.sensing = c
BY DEF Buffers

LEMMA RxPoolIs ==
  ASSUME BooksInv, NEW a \in Int, pool' = [pool EXCEPT !.rx = a]
  PROVE  pool' \in Buffers /\ pool'.rx = a /\ pool'.llr = pool.llr /\ pool'.sensing = pool.sensing
BY DEF BooksInv, Buffers

LEMMA LlrPoolIs ==
  ASSUME BooksInv, NEW a \in Int, pool' = [pool EXCEPT !.llr = a]
  PROVE  pool' \in Buffers /\ pool'.llr = a /\ pool'.rx = pool.rx /\ pool'.sensing = pool.sensing
BY DEF BooksInv, Buffers

LEMMA SensingPoolIs ==
  ASSUME BooksInv, NEW a \in Int, pool' = [pool EXCEPT !.sensing = a]
  PROVE  pool' \in Buffers /\ pool'.sensing = a /\ pool'.rx = pool.rx /\ pool'.llr = pool.llr
BY DEF BooksInv, Buffers

\* What goes out of one place comes into another.
LEMMA Balance ==
  ASSUME NEW a \in Int, NEW b \in Int, NEW c \in Int, NEW d \in Int, NEW e \in Int,
         NEW x, NEW y, NEW z, NEW v, NEW w,
         NEW i \in Int, NEW j \in Int, NEW k \in Int, NEW l \in Int, NEW m \in Int,
         Changes(a, x, i), Changes(b, y, j), Changes(c, z, k), Changes(d, v, l),
         Changes(e, w, m), i + j + k + l + m = 0
  PROVE  Total(x, y, z, v, w) = Total(a, b, c, d, e)
BY DEF Changes, Total

LEMMA NoChange ==
  ASSUME NEW a \in Int
  PROVE  Changes(a, a, 0)
BY DEF Changes

\* A count that goes down by n.
LEMMA GoesDown ==
  ASSUME NEW a \in Nat, NEW b, NEW n \in Nat, b = a + n
  PROVE  Changes(b, a, -n)
BY DEF Changes

\* A queue without its head.
LEMMA OneLess ==
  ASSUME NEW S, NEW q \in Seq(S), q # <<>>
  PROVE  /\ Changes(Len(q), Len(Tail(q)), -1)
         /\ Tail(q) \in Seq(S) /\ Head(q) \in S
<1>1. Len(q) \in Nat /\ Len(q) > 0 /\ Len(Tail(q)) = Len(q) - 1
  OBVIOUS
<1>2. \A a \in Nat : a - 1 = a + (-1)
  OBVIOUS
<1> QED BY <1>1, <1>2 DEF Changes

LEMMA RxBalance ==
  ASSUME UeInv, BooksInv,
         NEW i \in Int, NEW j \in Int, NEW k \in Int, NEW l \in Int, NEW m \in Int,
         Changes(pool.rx, pool'.rx, i), Changes(Len(rx.hand), Len(rx'.hand), j),
         Changes(Len(rx.queue), Len(rx'.queue), k), Changes(DemodTasks, DemodTasks', l),
         Changes(DemodResults(Demodulated), DemodResults(Demodulated)', m),
         i + j + k + l + m = 0
  PROVE  RxBooks'
<1> DEFINE a == pool.rx
           b == Len(rx.hand)
           c == Len(rx.queue)
           d == DemodTasks
           e == DemodResults(Demodulated)
           x == pool'.rx
           y == Len(rx'.hand)
           z == Len(rx'.queue)
           v == DemodTasks'
           w == DemodResults(Demodulated)'
<1>1. a \in Int /\ b \in Int /\ c \in Int /\ d \in Int /\ e \in Int
  BY PoolIsInt, LengthsAreNat, StageCountsAreNat
<1>2. /\ Changes(a, x, i) /\ Changes(b, y, j) /\ Changes(c, z, k) /\ Changes(d, v, l)
      /\ Changes(e, w, m)
  OBVIOUS
<1>3. Total(a, b, c, d, e) = Target.rx
  BY DEF BooksInv, RxBooks
<1>4. RxBooks' <=> Total(x, y, z, v, w) = Target.rx
  BY DEF RxBooks
<1> HIDE DEF a, b, c, d, e, x, y, z, v, w
<1>5. Total(x, y, z, v, w) = Total(a, b, c, d, e)
  BY <1>1, <1>2 DEF Changes, Total
<1> QED BY <1>3, <1>4, <1>5

LEMMA LlrBalance ==
  ASSUME UeInv, BooksInv,
         NEW i \in Int, NEW j \in Int, NEW k \in Int, NEW l \in Int,
         Changes(pool.llr, pool'.llr, i),
         Changes(DemodResults(LlrResults), DemodResults(LlrResults)', j),
         Changes(Len(llrs), Len(llrs'), k), Changes(DecodeTasks, DecodeTasks', l),
         i + j + k + l = 0
  PROVE  LlrBooks'
<1> DEFINE a == pool.llr
           b == DemodResults(LlrResults)
           c == Len(llrs)
           d == DecodeTasks
           x == pool'.llr
           y == DemodResults(LlrResults)'
           z == Len(llrs')
           v == DecodeTasks'
<1>1. a \in Int /\ b \in Int /\ c \in Int /\ d \in Int
  BY PoolIsInt, LengthsAreNat, StageCountsAreNat
<1>2. /\ Changes(a, x, i) /\ Changes(b, y, j) /\ Changes(c, z, k) /\ Changes(d, v, l)
      /\ Changes(0, 0, 0) /\ i + j + k + l + 0 = 0
  BY NoChange
<1>3. Total(a, b, c, d, 0) = Target.llr
  BY DEF BooksInv, LlrBooks
<1>4. LlrBooks' <=> Total(x, y, z, v, 0) = Target.llr
  BY DEF LlrBooks
<1> HIDE DEF a, b, c, d, x, y, z, v
<1>5. Total(x, y, z, v, 0) = Total(a, b, c, d, 0)
  BY <1>1, <1>2 DEF Changes, Total
<1> QED BY <1>3, <1>4, <1>5

LEMMA SensingBalance ==
  ASSUME UeInv, BooksInv,
         NEW i \in Int, NEW j \in Int, NEW k \in Int, NEW l \in Int,
         Changes(pool.sensing, pool'.sensing, i),
         Changes(DemodResults(SensingResults), DemodResults(SensingResults)', j),
         Changes(Len(sensing), Len(sensing'), k), Changes(Parted, Parted', l),
         i + j + k + l = 0
  PROVE  SensingBooks'
<1> DEFINE a == pool.sensing
           b == DemodResults(SensingResults)
           c == Len(sensing)
           d == Parted
           x == pool'.sensing
           y == DemodResults(SensingResults)'
           z == Len(sensing')
           v == Parted'
<1>1. a \in Int /\ b \in Int /\ c \in Int /\ d \in Int
  BY PoolIsInt, LengthsAreNat, StageCountsAreNat DEF Parted
<1>2. /\ Changes(a, x, i) /\ Changes(b, y, j) /\ Changes(c, z, k) /\ Changes(d, v, l)
      /\ Changes(0, 0, 0) /\ i + j + k + l + 0 = 0
  BY NoChange
<1>3. Total(a, b, c, d, 0) = Target.sensing
  BY DEF BooksInv, SensingBooks
<1>4. SensingBooks' <=> Total(x, y, z, v, 0) = Target.sensing
  BY DEF SensingBooks
<1> HIDE DEF a, b, c, d, x, y, z, v
<1>5. Total(x, y, z, v, 0) = Total(a, b, c, d, 0)
  BY <1>1, <1>2 DEF Changes, Total
<1> QED BY <1>3, <1>4, <1>5

\* Books that a step does not touch.
LEMMA RxBooksKept ==
  ASSUME RxBooks, pool'.rx = pool.rx, UNCHANGED <<rx, demod>>
  PROVE  RxBooks'
BY CountsKept DEF RxBooks

LEMMA LlrBooksKept ==
  ASSUME LlrBooks, pool'.llr = pool.llr, UNCHANGED <<demod, llrs>>, DecodeTasks' = DecodeTasks
  PROVE  LlrBooks'
BY CountsKept DEF LlrBooks

LEMMA SensingBooksKept ==
  ASSUME SensingBooks, pool'.sensing = pool.sensing, UNCHANGED <<demod, sensing>>,
         proc.pc = "llr" <=> proc'.pc = "llr"
  PROVE  SensingBooks'
BY CountsKept DEF SensingBooks, Parted

LEMMA HandOverKept ==
  ASSUME HandOver, UNCHANGED <<proc, stop>>, D!Result' = D!Result
  PROVE  HandOver'
BY DEF HandOver

-----------------------------------------------------------------------------
(* Every step keeps the books *)

LEMMA StillBooks ==
  ASSUME UeInv, BooksInv, UNCHANGED <<rx, demodVars, sensing, llrs, pool, decodeVars>>,
         \/ UNCHANGED <<proc, stop>>
         \/ UNCHANGED stop /\ proc.pc \notin {"llr", "done"} /\ proc'.pc # "llr"
         \/ UNCHANGED proc /\ (stop' \notin {"no", "engine"} => proc.pc = "done")
  PROVE  BooksInv'
<1>1. UNCHANGED <<demod, decode>> /\ D!Result' = D!Result
  BY DemodSame, DecodeSame
<1>2. RxBooks'
  BY <1>1, RxBooksKept DEF BooksInv
<1>3. LlrBooks'
  BY <1>1, LlrBooksKept, CountsKept DEF BooksInv
<1>4. SensingBooks'
  BY <1>1, SensingBooksKept DEF BooksInv
<1>5. HandOver'
  BY <1>1 DEF HandOver, BooksInv
<1> QED BY <1>2, <1>3, <1>4, <1>5 DEF BooksInv

LEMMA StillStepBooks ==
  ASSUME UeInv, BooksInv,
         \/ ProcSearched \/ ProcLaunch \/ ProcLaunched \/ ProcWait \/ ProcExit
         \/ BitLaunch \/ BitLaunched \/ BitIdle \/ BitExit
         \/ StopEngine \/ StopSensing \/ StopDone \/ Stopped \/ UNCHANGED vars
  PROVE  BooksInv'
<1>0. ProcOK /\ (stop \notin {"no", "engine"} => proc.pc = "done")
  BY DEF UeInv, UeTypeOK, BooksInv, HandOver
<1>1. CASE ProcSearched
  BY <1>0, <1>1, AgainIs, StillBooks DEF ProcSearched, At
<1>2. CASE ProcLaunch
  BY <1>0, <1>2, CollectIs, ProcGoes, StillBooks DEF ProcLaunch, At
<1>3. CASE ProcLaunched
  BY <1>0, <1>3, AgainIs, ProcGoes, StillBooks DEF ProcLaunched, Turn, At
<1>4. CASE ProcWait
  BY <1>0, <1>4, AgainIs, CollectIs, StillBooks DEF ProcWait, Turn, At
<1>5. CASE ProcExit
  BY <1>0, <1>5, CollectIs, ProcGoes, StillBooks DEF ProcExit, At
<1>6. CASE BitLaunch \/ BitLaunched \/ BitIdle \/ BitExit
  BY <1>6, StillBooks DEF BitLaunch, BitLaunched, BitIdle, BitExit
<1>7. CASE StopEngine \/ StopSensing \/ StopDone
  BY <1>0, <1>7, StillBooks DEF StopEngine, StopSensing, StopDone, At
<1>8. CASE Stopped \/ UNCHANGED vars
  BY <1>8, StillBooks DEF Stopped, vars
<1> QED BY <1>1, <1>2, <1>3, <1>4, <1>5, <1>6, <1>7, <1>8

\* Only the frames before the demodulators and their pool change.
LEMMA RxOnlyBooks ==
  ASSUME UeInv, BooksInv,
         NEW a \in Int, NEW i \in Int, NEW j \in Int, NEW k \in Int,
         pool' = [pool EXCEPT !.rx = a], Changes(pool.rx, a, i),
         Changes(Len(rx.hand), Len(rx'.hand), j), Changes(Len(rx.queue), Len(rx'.queue), k),
         i + j + k = 0,
         UNCHANGED <<demodVars, sensing, llrs, decodeVars, stop>>,
         UNCHANGED proc \/ (proc.pc \notin {"llr", "done"} /\ proc'.pc # "llr")
  PROVE  BooksInv'
<1>1. UNCHANGED <<demod, decode>> /\ D!Result' = D!Result
  BY DemodSame, DecodeSame
<1>2. /\ pool' \in Buffers /\ pool'.rx = a
      /\ pool'.llr = pool.llr /\ pool'.sensing = pool.sensing
  BY RxPoolIs
<1>3. RxBooks'
  <2>1. DemodTasks' = DemodTasks /\ DemodResults(Demodulated)' = DemodResults(Demodulated)
    BY <1>1, CountsKept
  <2>2. /\ Changes(DemodTasks, DemodTasks', 0)
        /\ Changes(DemodResults(Demodulated), DemodResults(Demodulated)', 0)
    BY <2>1, StageCountsAreNat, NoChange
  <2>3. /\ Changes(pool.rx, pool'.rx, i)
        /\ Changes(Len(rx.hand), Len(rx'.hand), j) /\ Changes(Len(rx.queue), Len(rx'.queue), k)
    BY <1>2
  <2>4. i \in Int /\ j \in Int /\ k \in Int /\ 0 \in Int /\ i + j + k + 0 + 0 = 0
    OBVIOUS
  <2> QED BY <2>2, <2>3, <2>4, RxBalance, Zenon
<1>4. LlrBooks'
  BY <1>1, <1>2, LlrBooksKept, CountsKept DEF BooksInv
<1>5. SensingBooks'
  BY <1>1, <1>2, SensingBooksKept DEF BooksInv
<1>6. HandOver'
  BY <1>1 DEF HandOver, BooksInv
<1> QED BY <1>2, <1>3, <1>4, <1>5, <1>6 DEF BooksInv

LEMMA ReceivesBooks ==
  ASSUME UeInv, BooksInv, NEW f \in FrameRecords, NEW a \in BOOLEAN, Receives(f, a)
  PROVE  BooksInv'
<1>1. /\ UNCHANGED <<demodVars, sensing, llrs, decodeVars, stop>> /\ UNCHANGED proc
      /\ rx.hand = <<>> /\ rx' = [rx EXCEPT !.hand = <<f>>, !.aligning = a]
      /\ pool' = [pool EXCEPT !.rx = pool.rx - 1]
  BY DEF Receives
<1>2. rx'.hand = <<f>> /\ rx'.queue = rx.queue
  BY <1>1, LengthsAreNat DEF RxOK
<1>3. Len(<<>>) = 0 /\ Len(<<f>>) = 1
  OBVIOUS
<1>4. pool.rx - 1 \in Int /\ Changes(pool.rx, pool.rx - 1, -1)
  BY PoolIsInt DEF Changes
<1>5. Changes(Len(rx.hand), Len(rx'.hand), 1) /\ Changes(Len(rx.queue), Len(rx'.queue), 0)
  <2>1. Len(rx.hand) = 0 /\ Len(rx'.hand) = 1
    BY <1>1, <1>2, <1>3
  <2> QED BY <1>2, <2>1, LengthsAreNat, NoChange DEF Changes
<1>6. (-1) + 1 + 0 = 0 /\ -1 \in Int /\ 0 \in Int /\ 1 \in Int
  OBVIOUS
<1> QED BY <1>1, <1>4, <1>5, <1>6, RxOnlyBooks, Zenon

LEMMA ReceiveBooks ==
  ASSUME UeInv, BooksInv, Receive
  PROVE  BooksInv'
<1>0. budget.frame \in Nat /\ sync.gen \in Nat
  BY DEF UeInv, UeTypeOK, BudgetOK, SyncOK
<1>1. \A a \in BOOLEAN : [n |-> budget.frame, gen |-> sync.gen, align |-> a] \in FrameRecords
  BY <1>0 DEF FrameRecords
<1>2. CASE RxNormal
  BY <1>1, <1>2, ReceivesBooks DEF RxNormal
<1>3. CASE RxAlign
  BY <1>1, <1>3, ReceivesBooks DEF RxAlign
<1>4. CASE RxPush
  <2>1. /\ UNCHANGED <<demodVars, sensing, llrs, decodeVars, stop>> /\ UNCHANGED proc
        /\ rx.hand # <<>>
    BY <1>4 DEF RxPush
  <2>2. /\ rx.queue \in Seq(FrameRecords) /\ Len(rx.hand) = 1 /\ pool.rx \in Int
        /\ rx.queue \o rx.hand = Append(rx.queue, rx.hand[1])
    BY <2>1, LengthsAreNat, PoolIsInt, OneInHand DEF RxOK
  <2>3. Len(rx.queue \o rx.hand) = Len(rx.queue) + 1 /\ Len(<<>>) = 0
    BY <2>2
  <2>4. Changes(Len(rx.hand), 0, -1)
    BY <2>2 DEF Changes
  <2>5. CASE /\ rx' = [hand |-> <<>>, aligning |-> FALSE, queue |-> rx.queue \o rx.hand]
             /\ UNCHANGED pool
    <3>1. Len(rx'.hand) = 0 /\ Len(rx'.queue) = Len(rx.queue) + 1
      BY <2>3, <2>5
    <3>2. pool' = [pool EXCEPT !.rx = pool.rx]
      BY <2>5 DEF BooksInv, Buffers
    <3>3. Changes(pool.rx, pool.rx, 0) /\ Changes(Len(rx.queue), Len(rx'.queue), 1)
      BY <2>2, <3>1, NoChange DEF Changes
    <3>4. Changes(Len(rx.hand), Len(rx'.hand), -1) /\ 0 + (-1) + 1 = 0 /\ -1 \in Int /\ 0 \in Int /\ 1 \in Int
      BY <2>4, <3>1
    <3> QED BY <2>1, <2>2, <3>2, <3>3, <3>4, RxOnlyBooks, Zenon
  <2>6. CASE /\ rx' = [rx EXCEPT !.hand = <<>>, !.aligning = FALSE]
             /\ pool' = [pool EXCEPT !.rx = @ + 1]
    <3>1. Len(rx'.hand) = 0 /\ rx'.queue = rx.queue
      BY <2>3, <2>6, LengthsAreNat DEF RxOK
    <3>2. pool' = [pool EXCEPT !.rx = pool.rx + 1] /\ pool.rx + 1 \in Int
      BY <2>2, <2>6
    <3>3. Changes(pool.rx, pool.rx + 1, 1) /\ Changes(Len(rx.queue), Len(rx'.queue), 0)
      BY <2>2, <3>1, LengthsAreNat, NoChange DEF Changes
    <3>4. Changes(Len(rx.hand), Len(rx'.hand), -1) /\ 1 + (-1) + 0 = 0 /\ -1 \in Int /\ 0 \in Int /\ 1 \in Int
      BY <2>4, <3>1
    <3> QED BY <2>1, <3>2, <3>3, <3>4, RxOnlyBooks, Zenon
  <2> QED BY <1>4, <2>5, <2>6 DEF RxPush
<1>5. CASE RxRestart
  <2>1. /\ UNCHANGED <<demodVars, sensing, llrs, decodeVars, stop>> /\ UNCHANGED proc
        /\ rx' = [rx EXCEPT !.hand = <<>>, !.aligning = FALSE]
        /\ pool' = [pool EXCEPT !.rx = pool.rx + Len(rx.hand)]
    BY <1>5 DEF RxRestart
  <2>2. rx'.hand = <<>> /\ rx'.queue = rx.queue
    BY <2>1, LengthsAreNat DEF RxOK
  <2> DEFINE n == Len(rx.hand)
  <2>3. pool.rx \in Int /\ n \in Nat
    BY PoolIsInt, LengthsAreNat
  <2>4. Len(rx'.hand) = 0 /\ Changes(Len(rx.queue), Len(rx'.queue), 0)
    <3>1. Len(<<>>) = 0
      OBVIOUS
    <3> QED BY <2>2, <3>1, LengthsAreNat, NoChange
  <2>5. Changes(n, Len(rx'.hand), -n) /\ Changes(pool.rx, pool.rx + n, n)
    BY <2>3, <2>4 DEF Changes
  <2>6. pool.rx + n \in Int /\ n \in Int /\ -n \in Int /\ 0 \in Int /\ n + (-n) + 0 = 0
    BY <2>3
  <2> QED BY <2>1, <2>3, <2>4, <2>5, <2>6, RxOnlyBooks, Zenon
<1> QED BY <1>2, <1>3, <1>4, <1>5 DEF Receive

\* The process thread empties the frame queue, or not.
LEMMA EmptiesBooks ==
  ASSUME UeInv, BooksInv, ProcClear \/ ProcFound
  PROVE  BooksInv'
<1>1. ProcOK /\ (stop \notin {"no", "engine"} => proc.pc = "done")
  BY DEF UeInv, UeTypeOK, BooksInv, HandOver
<1>2. /\ UNCHANGED <<demodVars, sensing, llrs, decodeVars, stop>>
      /\ \/ UNCHANGED <<rx, pool>>
         \/ rx' = [rx EXCEPT !.queue = <<>>] /\ pool' = [pool EXCEPT !.rx = @ + Len(rx.queue)]
      /\ proc.pc \notin {"llr", "done"}
  BY DEF ProcClear, ProcFound, Turn, At
<1>3. proc'.pc # "llr"
  <2>1. CASE ProcClear
    <3> DEFINE p == CASE sync.state = "SYNC_SEARCH" -> "search"
                      [] D!Full -> "launch"
                      [] OTHER -> "frame"
    <3>1. p \in {"search", "launch", "frame"}
      OBVIOUS
    <3>2. proc' = [proc EXCEPT !.pc = p]
      BY <2>1 DEF ProcClear
    <3> HIDE DEF p
    <3> QED BY <1>1, <3>1, <3>2, ProcGoes
  <2>2. CASE ProcFound
    BY <1>1, <2>2, AgainIs DEF ProcFound
  <2> QED BY <2>1, <2>2
<1> DEFINE n == Len(rx.queue)
<1>4. pool.rx \in Int /\ Len(rx.hand) \in Nat /\ n \in Nat
  BY PoolIsInt, LengthsAreNat
<1>5. CASE UNCHANGED <<rx, pool>>
  <2>1. pool' = [pool EXCEPT !.rx = pool.rx]
    BY <1>5 DEF BooksInv, Buffers
  <2>2. /\ Changes(pool.rx, pool.rx, 0) /\ Changes(Len(rx.hand), Len(rx'.hand), 0)
        /\ Changes(n, Len(rx'.queue), 0) /\ 0 + 0 + 0 = 0 /\ 0 \in Int
    BY <1>4, <1>5, NoChange
  <2> QED BY <1>2, <1>3, <1>4, <2>1, <2>2, RxOnlyBooks, Zenon
<1>6. CASE /\ rx' = [rx EXCEPT !.queue = <<>>]
           /\ pool' = [pool EXCEPT !.rx = @ + Len(rx.queue)]
  <2>1. rx'.hand = rx.hand /\ Len(rx'.queue) = 0
    <3>1. Len(<<>>) = 0
      OBVIOUS
    <3> QED BY <1>6, <3>1, LengthsAreNat DEF RxOK
  <2>2. pool' = [pool EXCEPT !.rx = pool.rx + n]
    BY <1>6
  <2>3. /\ Changes(pool.rx, pool.rx + n, n) /\ Changes(n, Len(rx'.queue), -n)
        /\ Changes(Len(rx.hand), Len(rx'.hand), 0)
    BY <1>4, <2>1, NoChange DEF Changes
  <2>4. pool.rx + n \in Int /\ n \in Int /\ -n \in Int /\ 0 \in Int /\ n + 0 + (-n) = 0
    BY <1>4
  <2> QED BY <1>2, <1>3, <1>4, <2>2, <2>3, <2>4, RxOnlyBooks, Zenon
<1> QED BY <1>2, <1>5, <1>6

LEMMA ResultIs ==
  ASSUME DemodOK, D!Ready
  PROVE  /\ D!Result \in Demodulated
         /\ D!Result \in LlrResults <=> D!Result.llr
         /\ D!Result \in SensingResults <=> ~D!Result.dropped
<1> DEFINE N == Demodulators
           s == demod
           c == demodTurn
<1>1. /\ N \in Nat \ {0} /\ s \in [0 .. N - 1 -> Slots(Demodulated)] /\ c \in 0 .. N - 1
      /\ s[c].results # <<>> /\ D!Result = Head(s[c].results)
  BY Sizes DEF DemodOK, D!Ready, D!Result
<1> HIDE DEF N, s, c
<1>2. s[c].results \in Seq(Demodulated)
  BY <1>1, FramedResults, AllNumbersAre
<1>3. Head(s[c].results) \in Demodulated
  BY <1>1, <1>2
<1> QED BY <1>1, <1>3 DEF LlrResults, SensingResults

\* A worker takes the buffers of a frame while it runs it.
LEMMA DemodulateBooks ==
  ASSUME UeInv, UeInv', BooksInv, NEW w \in D!ids, Demodulate(w)
  PROVE  BooksInv'
<1>1. /\ UNCHANGED <<rx, proc, sensing, llrs, decodeVars, stop>>
      /\ demod[w].tasks # <<>> /\ w \in 0 .. Demodulators - 1
  BY DEF Demodulate, D!ids
<1>2. DemodOK /\ DemodOK'
  BY LengthsAreNat DEF UeInv, UeTypeOK
<1>3. PICK r \in Demodulated :
        /\ D!Work(w, r) /\ r.frame = Head(demod[w].tasks)
        /\ r.dropped => ~r.llr /\ UNCHANGED pool
        /\ ~r.dropped =>
             pool' = [pool EXCEPT !.sensing = @ - 1, !.llr = IF r.llr THEN @ - 1 ELSE @]
  <2>1. Head(demod[w].tasks) \in FrameRecords
    <3>1. demod \in [0 .. Demodulators - 1 -> Slots(Demodulated)]
      BY <1>2 DEF DemodOK
    <3>2. demod[w].tasks \in Seq(FrameRecords)
      BY <1>1, <3>1, Sizes, FramedResults, AllNumbersAre
    <3> QED BY <1>1, <3>2
  <2> DEFINE f == Head(demod[w].tasks)
             drop == [frame |-> f, dropped |-> TRUE, llr |-> FALSE]
             keep(data) == [frame |-> f, dropped |-> FALSE, llr |-> data]
  <2>2. \/ D!Work(w, drop) /\ UNCHANGED pool
        \/ \E data \in Payloads : D!Work(w, keep(data)) /\ pool' = Acquired(data)
    BY DEF Demodulate
  <2>3. Payloads \subseteq BOOLEAN
    BY Sizes
  <2>4. f \in FrameRecords
    BY <2>1
  <2>5. /\ drop \in Demodulated /\ drop.frame = f /\ drop.dropped = TRUE /\ drop.llr = FALSE
        /\ \A data \in BOOLEAN :
             /\ keep(data) \in Demodulated /\ keep(data).frame = f
             /\ keep(data).dropped = FALSE /\ keep(data).llr = data
    BY <2>4 DEF Demodulated
  <2>6. CASE D!Work(w, drop) /\ UNCHANGED pool
    <3> HIDE DEF drop, keep
    <3> QED BY <2>5, <2>6
  <2>7. CASE \E data \in Payloads : D!Work(w, keep(data)) /\ pool' = Acquired(data)
    <3>1. PICK data \in BOOLEAN : D!Work(w, keep(data)) /\ pool' = Acquired(data)
      BY <2>3, <2>7
    <3>2. pool' = [pool EXCEPT !.sensing = @ - 1, !.llr = IF data THEN @ - 1 ELSE @]
      BY <3>1 DEF Acquired
    <3> HIDE DEF drop, keep
    <3> QED BY <2>5, <3>1, <3>2
  <2> QED BY <2>2, <2>6, <2>7
<1> DEFINE l == IF r.llr THEN 1 ELSE 0
           d == IF r.dropped THEN 0 ELSE 1
<1>4. /\ pool.rx \in Int /\ pool.llr \in Int /\ pool.sensing \in Int
      /\ r.llr \in BOOLEAN /\ r.dropped \in BOOLEAN
  BY PoolIsInt DEF Demodulated
<1>5. /\ pool' \in Buffers /\ pool'.rx = pool.rx
      /\ pool'.llr = pool.llr - l /\ pool'.sensing = pool.sensing - d
  <2>1. pool \in Buffers
    BY DEF BooksInv
  <2>2. CASE r.dropped
    BY <1>3, <1>4, <2>1, <2>2
  <2>3. CASE ~r.dropped
    <3>1. pool' = [pool EXCEPT !.sensing = pool.sensing - 1, !.llr = pool.llr - l]
      <4>1. pool' = [pool EXCEPT !.sensing = pool.sensing - 1,
                                 !.llr = IF r.llr THEN pool.llr - 1 ELSE pool.llr]
        BY <1>3, <2>3
      <4>2. (IF r.llr THEN pool.llr - 1 ELSE pool.llr) = pool.llr - l
        BY <1>4
      <4> QED BY <4>1, <4>2
    <3>2. pool.sensing - 1 \in Int /\ pool.llr - l \in Int
      BY <1>4
    <3> QED BY <1>4, <2>1, <2>3, <3>1, <3>2 DEF Buffers
  <2> QED BY <1>4, <2>2, <2>3
<1>6. /\ DemodTasks = DemodTasks' + 1
      /\ DemodResults(Demodulated)' = DemodResults(Demodulated) + 1
      /\ DemodResults(LlrResults)' = DemodResults(LlrResults) + l
      /\ DemodResults(SensingResults)' = DemodResults(SensingResults) + d
  <2>1. /\ DemodTasks = DemodTasks' + 1
        /\ \A K : DemodResults(K)' = DemodResults(K) + (IF r \in K THEN 1 ELSE 0)
    BY <1>1, <1>2, <1>3, DemodRuns
  <2>2. (r \in LlrResults <=> r.llr) /\ (r \in SensingResults <=> ~r.dropped)
    BY DEF LlrResults, SensingResults
  <2> QED BY <2>1, <2>2
<1>7. l \in Nat /\ d \in Nat
  OBVIOUS
<1> HIDE DEF l, d
<1>8. /\ DemodTasks \in Nat /\ DemodTasks' \in Nat /\ DecodeTasks \in Nat
      /\ DemodResults(Demodulated) \in Nat /\ DemodResults(LlrResults) \in Nat
      /\ DemodResults(SensingResults) \in Nat
  BY StageCountsAreNat
<1>9. /\ Len(rx.hand) \in Nat /\ Len(rx.queue) \in Nat /\ Len(llrs) \in Nat
      /\ Len(sensing) \in Nat
  BY LengthsAreNat
<1>10. RxBooks'
  <2>1. /\ Changes(pool.rx, pool'.rx, 0) /\ Changes(Len(rx.hand), Len(rx'.hand), 0)
        /\ Changes(Len(rx.queue), Len(rx'.queue), 0)
    BY <1>1, <1>4, <1>5, <1>9, NoChange
  <2>2. Changes(DemodTasks, DemodTasks', -1)
    <3>1. \A a \in Nat : a = (a + 1) + (-1)
      OBVIOUS
    <3> QED BY <1>6, <1>8, <3>1 DEF Changes
  <2>3. Changes(DemodResults(Demodulated), DemodResults(Demodulated)', 1)
    BY <1>6 DEF Changes
  <2>4. 0 + 0 + 0 + (-1) + 1 = 0 /\ -1 \in Int
    OBVIOUS
  <2> QED BY <2>1, <2>2, <2>3, <2>4, RxBalance
<1>11. LlrBooks'
  <2>1. Changes(pool.llr, pool'.llr, -l)
    BY <1>4, <1>5, <1>7 DEF Changes
  <2>2. Changes(DemodResults(LlrResults), DemodResults(LlrResults)', l)
    BY <1>6 DEF Changes
  <2>3. Changes(Len(llrs), Len(llrs'), 0) /\ Changes(DecodeTasks, DecodeTasks', 0)
    BY <1>1, <1>8, <1>9, DecodeSame, CountsKept, NoChange
  <2>4. (-l) + l + 0 + 0 = 0 /\ -l \in Int /\ l \in Int
    BY <1>7
  <2> QED BY <2>1, <2>2, <2>3, <2>4, LlrBalance
<1>12. SensingBooks'
  <2>1. Changes(pool.sensing, pool'.sensing, -d)
    BY <1>4, <1>5, <1>7 DEF Changes
  <2>2. Changes(DemodResults(SensingResults), DemodResults(SensingResults)', d)
    BY <1>6 DEF Changes
  <2>3. Changes(Len(sensing), Len(sensing'), 0) /\ Changes(Parted, Parted', 0)
    <3>1. Parted' = Parted /\ Parted \in Int
      BY <1>1 DEF Parted
    <3> QED BY <1>1, <1>9, <3>1, NoChange
  <2>4. (-d) + d + 0 + 0 = 0 /\ -d \in Int /\ d \in Int
    BY <1>7
  <2> QED BY <2>1, <2>2, <2>3, <2>4, SensingBalance
<1>13. HandOver'
  <2>1. D!Ready => D!Result' = D!Result
    BY <1>1, <1>2, <1>3, DemodRun
  <2>2. proc.pc = "llr" => D!Ready
    BY DEF UeInv, ProcRoom
  <2> QED BY <1>1, <2>1, <2>2 DEF HandOver, BooksInv
<1> QED BY <1>5, <1>10, <1>11, <1>12, <1>13 DEF BooksInv

\* A result is collected, with whatever it holds; the frame queue may be emptied.
LEMMA ReleasesBooks ==
  ASSUME UeInv, UeInv', BooksInv, D!Ready, D!Pop, UNCHANGED <<sensing, llrs, decodeVars, stop>>,
         NEW n \in Nat, pool' = [Released(D!Result) EXCEPT !.rx = @ + n],
         Changes(Len(rx.queue), Len(rx'.queue), -n), rx'.hand = rx.hand,
         proc.pc \notin {"llr", "done"}, proc'.pc # "llr"
  PROVE  BooksInv'
<1> DEFINE r == D!Result
           l == IF r.llr THEN 1 ELSE 0
           d == IF r.dropped THEN 0 ELSE 1
<1>1. DemodOK /\ DemodOK'
  BY LengthsAreNat DEF UeInv, UeTypeOK
<1>2. /\ r \in Demodulated /\ (r \in LlrResults <=> r.llr)
      /\ (r \in SensingResults <=> ~r.dropped)
  BY <1>1, ResultIs
<1>3. DemodTasks' = DemodTasks
  BY <1>1, DemodPops
<1>4. /\ DemodResults(Demodulated) = DemodResults(Demodulated)' + 1
      /\ DemodResults(LlrResults) = DemodResults(LlrResults)' + l
      /\ DemodResults(SensingResults) = DemodResults(SensingResults)' + d
  <2>1. \A K : DemodResults(K) = DemodResults(K)' + (IF r \in K THEN 1 ELSE 0)
    BY <1>1, DemodPops
  <2> QED BY <1>2, <2>1
<1>5. l \in Nat /\ d \in Nat
  OBVIOUS
<1>6. pool.rx \in Int /\ pool.llr \in Int /\ pool.sensing \in Int
  BY PoolIsInt
<1>7. pool' = [rx |-> (pool.rx + 1) + n, llr |-> pool.llr + l, sensing |-> pool.sensing + d]
  BY DEF Released
<1> HIDE DEF r, l, d
<1>8. /\ pool' \in Buffers /\ pool'.rx = (pool.rx + 1) + n
      /\ pool'.llr = pool.llr + l /\ pool'.sensing = pool.sensing + d
  <2> DEFINE a == (pool.rx + 1) + n
             b == pool.llr + l
             c == pool.sensing + d
  <2>1. a \in Int /\ b \in Int /\ c \in Int
    <3>1. a \in Int
      BY <1>6
    <3>2. b \in Int
      BY <1>5, <1>6
    <3>3. c \in Int
      BY <1>5, <1>6
    <3> HIDE DEF a, b, c
    <3> QED BY <3>1, <3>2, <3>3
  <2>2. pool' = [rx |-> a, llr |-> b, sensing |-> c]
    BY <1>7
  <2> HIDE DEF a, b, c
  <2>3. pool' \in Buffers /\ pool'.rx = a /\ pool'.llr = b /\ pool'.sensing = c
    BY <2>1, <2>2, PoolIs
  <2> QED BY <2>3 DEF a, b, c
<1>9. /\ DemodTasks \in Nat /\ DecodeTasks \in Nat
      /\ DemodResults(Demodulated)' \in Nat /\ DemodResults(LlrResults)' \in Nat
      /\ DemodResults(SensingResults)' \in Nat
  BY StageCountsAreNat
<1>10. ASSUME NEW a \in Nat, NEW b, NEW m \in Nat, b = a + m PROVE Changes(b, a, -m)
  BY <1>10 DEF Changes
<1>11. RxBooks'
  <2>1. Changes(pool.rx, pool'.rx, 1 + n)
    BY <1>6, <1>8 DEF Changes
  <2>2. Changes(Len(rx.hand), Len(rx'.hand), 0) /\ Changes(DemodTasks, DemodTasks', 0)
    BY <1>3, <1>9, LengthsAreNat, NoChange
  <2>3. Changes(DemodResults(Demodulated), DemodResults(Demodulated)', -1)
    BY <1>4, <1>9, <1>10
  <2>4. /\ (1 + n) + 0 + (-n) + 0 + (-1) = 0
        /\ 1 + n \in Int /\ 0 \in Int /\ -n \in Int /\ -1 \in Int
    OBVIOUS
  <2> QED BY <2>1, <2>2, <2>3, <2>4, RxBalance
<1>12. LlrBooks'
  <2>1. Changes(pool.llr, pool'.llr, l)
    BY <1>6, <1>8 DEF Changes
  <2>2. Changes(DemodResults(LlrResults), DemodResults(LlrResults)', -l)
    BY <1>4, <1>5, <1>9, <1>10
  <2>3. Changes(Len(llrs), Len(llrs'), 0) /\ Changes(DecodeTasks, DecodeTasks', 0)
    BY <1>9, LengthsAreNat, DecodeSame, CountsKept, NoChange
  <2>4. l + (-l) + 0 + 0 = 0 /\ -l \in Int /\ l \in Int /\ 0 \in Int
    BY <1>5
  <2> QED BY <2>1, <2>2, <2>3, <2>4, LlrBalance, Zenon
<1>13. SensingBooks'
  <2>1. Changes(pool.sensing, pool'.sensing, d)
    BY <1>6, <1>8 DEF Changes
  <2>2. Changes(DemodResults(SensingResults), DemodResults(SensingResults)', -d)
    BY <1>4, <1>5, <1>9, <1>10
  <2>3. Changes(Len(sensing), Len(sensing'), 0) /\ Changes(Parted, Parted', 0)
    <3>1. Parted' = Parted /\ Parted \in Int
      BY DEF Parted
    <3> QED BY <3>1, LengthsAreNat, NoChange
  <2>4. d + (-d) + 0 + 0 = 0 /\ -d \in Int /\ d \in Int /\ 0 \in Int
    BY <1>5
  <2> QED BY <2>1, <2>2, <2>3, <2>4, SensingBalance, Zenon
<1>14. HandOver'
  BY DEF HandOver, BooksInv
<1> QED BY <1>8, <1>11, <1>12, <1>13, <1>14 DEF BooksInv

LEMMA CollectBooks ==
  ASSUME UeInv, UeInv', BooksInv, ProcRelease \/ ProcReset
  PROVE  BooksInv'
<1>0. ProcOK /\ proc.then \in {"clear", "launched", "frame", "join"}
  BY DEF UeInv, UeTypeOK, ProcOK
<1>1. CASE ProcRelease
  <2>1. /\ D!Ready /\ D!Pop /\ UNCHANGED <<rx, sensing, llrs, decodeVars, stop>>
        /\ proc.pc = "collect" /\ proc' = Collected /\ pool' = Released(D!Result)
    BY <1>1 DEF ProcRelease, At
  <2>2. proc'.pc \in {"collect", proc.then}
    BY <1>0, <2>1, CollectedIs
  <2>3. pool' = [Released(D!Result) EXCEPT !.rx = @ + 0]
    BY <2>1, PoolIsInt DEF Released
  <2>4. Changes(Len(rx.queue), Len(rx'.queue), -0)
    BY <2>1, LengthsAreNat, NoChange
  <2> QED BY <1>0, <2>1, <2>2, <2>3, <2>4, ReleasesBooks
<1>2. CASE ProcReset
  <2>1. /\ D!Ready /\ D!Pop /\ UNCHANGED <<sensing, llrs, decodeVars, stop>>
        /\ proc.pc = "collect" /\ proc' = [proc EXCEPT !.pc = proc.then]
        /\ rx' = [rx EXCEPT !.queue = <<>>]
        /\ pool' = [Released(D!Result) EXCEPT !.rx = @ + Len(rx.queue)]
    BY <1>2 DEF ProcReset, At
  <2>2. proc'.pc = proc.then
    BY <1>0, <2>1, ProcGoes
  <2>3. Len(rx.queue) \in Nat
    BY LengthsAreNat
  <2>4. rx'.hand = rx.hand /\ Len(rx'.queue) = 0
    <3>1. Len(<<>>) = 0
      OBVIOUS
    <3> QED BY <2>1, <3>1, LengthsAreNat DEF RxOK
  <2>5. Changes(Len(rx.queue), Len(rx'.queue), -Len(rx.queue))
    BY <2>3, <2>4 DEF Changes
  <2> QED BY <1>0, <2>1, <2>2, <2>3, <2>4, <2>5, ReleasesBooks
<1> QED BY <1>1, <1>2

\* The sensing buffer of the result goes to the sensing thread, or back.
LEMMA ControlBooks ==
  ASSUME UeInv, UeInv', BooksInv, ProcControl
  PROVE  BooksInv'
<1>1. /\ UNCHANGED <<rx, demodVars, llrs, decodeVars, stop>>
      /\ proc.pc = "collect" /\ ~D!Result.dropped /\ ToSensing(D!Result.frame)
  BY DEF ProcControl, At, Outdated
<1>2. UNCHANGED <<demod, decode>> /\ D!Result' = D!Result
  BY <1>1, DemodSame, DecodeSame
<1> DEFINE room == Len(sensing) < SensingCap
           x == [n |-> D!Result.frame.n, gen |-> D!Result.frame.gen,
                 force |-> D!Result.frame.align \/ proc.deferred]
<1>3. /\ sensing' = IF room THEN Append(sensing, x) ELSE sensing
      /\ pool' = IF room THEN pool ELSE [pool EXCEPT !.sensing = pool.sensing + 1]
      /\ proc' = [proc EXCEPT !.pc = "llr",
                              !.deferred = (D!Result.frame.align \/ proc.deferred) /\ ~room]
  BY <1>1 DEF ToSensing
<1>4. proc'.pc = "llr"
  BY <1>3, LengthsAreNat DEF ProcOK
<1>5. /\ sensing \in Seq(Sensed) /\ Len(sensing) \in Nat
      /\ sensing' \in Seq(Sensed)
      /\ pool.rx \in Int /\ pool.llr \in Int /\ pool.sensing \in Int
      /\ pool \in Buffers
  BY LengthsAreNat, PoolIsInt DEF UeInv, UeTypeOK, SensingOK, BooksInv
<1> HIDE DEF room, x
<1>6. /\ pool' \in Buffers /\ pool'.rx = pool.rx /\ pool'.llr = pool.llr
      /\ \/ /\ Changes(pool.sensing, pool'.sensing, 0)
            /\ Changes(Len(sensing), Len(sensing'), 1)
         \/ /\ Changes(pool.sensing, pool'.sensing, 1)
            /\ Changes(Len(sensing), Len(sensing'), 0)
  <2>1. CASE room
    <3>1. sensing' = Append(sensing, x) /\ pool' = pool
      BY <1>3, <2>1
    <3>2. Len(sensing') = Len(sensing) + 1
      <4>1. x \in Sensed
        <5>1. D!Result.frame \in FrameRecords
          BY <1>1, DemodHead DEF UeInv, UeTypeOK, OrderInv, ProcControl
        <5>2. proc.deferred \in BOOLEAN
          BY LengthsAreNat DEF ProcOK
        <5> QED BY <5>1, <5>2 DEF x, FrameRecords, Sensed
      <4> QED BY <1>5, <3>1, <4>1
    <3> QED BY <1>5, <3>1, <3>2, NoChange DEF Changes
  <2>2. CASE ~room
    <3>1. sensing' = sensing /\ pool' = [pool EXCEPT !.sensing = pool.sensing + 1]
      BY <1>3, <2>2
    <3>2. /\ pool' \in Buffers /\ pool'.sensing = pool.sensing + 1
          /\ pool'.rx = pool.rx /\ pool'.llr = pool.llr
      <4>1. pool.sensing + 1 \in Int
        BY <1>5
      <4> QED BY <3>1, <4>1, SensingPoolIs
    <3> QED BY <1>5, <3>1, <3>2, NoChange DEF Changes
  <2> QED BY <2>1, <2>2
<1>7. RxBooks' /\ LlrBooks'
  BY <1>1, <1>2, <1>6, RxBooksKept, LlrBooksKept, CountsKept DEF BooksInv
<1>8. SensingBooks'
  <2>1. Changes(Parted, Parted', -1)
    BY <1>1, <1>4 DEF Parted, Changes
  <2>2. Changes(DemodResults(SensingResults), DemodResults(SensingResults)', 0)
    BY <1>2, CountsKept, StageCountsAreNat, NoChange
  <2>3. 0 + 0 + 1 + (-1) = 0 /\ 1 + 0 + 0 + (-1) = 0 /\ -1 \in Int
    OBVIOUS
  <2> QED BY <1>6, <2>1, <2>2, <2>3, SensingBalance
<1>9. HandOver'
  BY <1>1, <1>2 DEF HandOver, BooksInv
<1> QED BY <1>6, <1>7, <1>8, <1>9 DEF BooksInv

\* The result in hand is done with, and its LLRs wait to be decoded.
LEMMA ProcLlrBooks ==
  ASSUME UeInv, UeInv', BooksInv, ProcLlr
  PROVE  BooksInv'
<1> DEFINE r == D!Result
           l == IF r.llr THEN 1 ELSE 0
<1>1. /\ UNCHANGED <<rx, sensing, decodeVars, stop>>
      /\ D!Pop /\ proc.pc = "llr" /\ proc' = Collected
      /\ pool' = [pool EXCEPT !.rx = pool.rx + 1]
      /\ r.llr => Len(llrs) < LlrCap \/ ~BitRunning
      /\ llrs' = IF r.llr /\ Len(llrs) < LlrCap THEN Append(llrs, r.frame) ELSE llrs
  BY DEF ProcLlr, At
<1>2. D!Ready /\ BitRunning /\ r.dropped = FALSE /\ stop \in {"no", "engine"}
  <2>1. D!Ready
    BY <1>1 DEF UeInv, ProcRoom
  <2>2. r \in Demodulated
    BY <2>1, LengthsAreNat, ResultIs
  <2>3. ~r.dropped /\ stop \in {"no", "engine"}
    BY <1>1 DEF BooksInv, HandOver
  <2> QED BY <2>1, <2>2, <2>3 DEF BitRunning, Demodulated
<1>3. DemodOK /\ DemodOK'
  BY LengthsAreNat DEF UeInv, UeTypeOK
<1>4. /\ r \in Demodulated /\ (r \in LlrResults <=> r.llr) /\ r \in SensingResults
  BY <1>2, <1>3, ResultIs
<1>5. DemodTasks' = DemodTasks
  BY <1>1, <1>2, <1>3, DemodPops
<1>6. /\ DemodResults(Demodulated) = DemodResults(Demodulated)' + 1
      /\ DemodResults(LlrResults) = DemodResults(LlrResults)' + l
      /\ DemodResults(SensingResults) = DemodResults(SensingResults)' + 1
  <2>1. \A K : DemodResults(K) = DemodResults(K)' + (IF r \in K THEN 1 ELSE 0)
    BY <1>1, <1>2, <1>3, DemodPops
  <2> QED BY <1>4, <2>1
<1>7. Changes(Len(llrs), Len(llrs'), l)
  <2>1. llrs \in Seq(FrameRecords) /\ r.frame \in FrameRecords /\ Len(llrs) \in Nat
    BY <1>4, LengthsAreNat DEF Demodulated
  <2>2. CASE r.llr
    <3>1. llrs' = Append(llrs, r.frame)
      BY <1>1, <1>2, <2>2
    <3> HIDE DEF r
    <3>2. Len(llrs') = Len(llrs) + 1
      BY <2>1, <3>1
    <3> QED BY <2>2, <3>2 DEF Changes
  <2>3. CASE ~r.llr
    <3>1. llrs' = llrs
      BY <1>1, <2>3
    <3>2. Changes(Len(llrs), Len(llrs'), 0)
      BY <2>1, <3>1, NoChange
    <3> QED BY <2>3, <3>2
  <2> QED BY <2>2, <2>3
<1>8. l \in Nat
  OBVIOUS
<1> HIDE DEF r, l
<1>9. /\ DemodTasks \in Nat /\ DecodeTasks \in Nat
      /\ DemodResults(Demodulated)' \in Nat /\ DemodResults(LlrResults)' \in Nat
      /\ DemodResults(SensingResults)' \in Nat
  BY StageCountsAreNat
<1>10. pool.rx \in Int /\ pool.llr \in Int /\ pool.sensing \in Int
  BY PoolIsInt
<1>11. /\ pool' \in Buffers /\ pool'.rx = pool.rx + 1
       /\ pool'.llr = pool.llr /\ pool'.sensing = pool.sensing
  <2>1. pool.rx + 1 \in Int
    BY <1>10
  <2> QED BY <1>1, <2>1, RxPoolIs
<1>12. proc'.pc # "llr"
  <2>1. ProcOK /\ proc.then \in {"clear", "launched", "frame", "join"}
    BY LengthsAreNat DEF ProcOK
  <2> QED BY <1>1, <2>1, CollectedIs
<1>13. RxBooks'
  <2>1. Changes(pool.rx, pool'.rx, 1)
    BY <1>11 DEF Changes
  <2>2. /\ Changes(Len(rx.hand), Len(rx'.hand), 0) /\ Changes(Len(rx.queue), Len(rx'.queue), 0)
        /\ Changes(DemodTasks, DemodTasks', 0)
    BY <1>1, <1>5, <1>9, LengthsAreNat, NoChange
  <2>3. Changes(DemodResults(Demodulated), DemodResults(Demodulated)', -1)
    BY <1>6, <1>9, GoesDown
  <2>4. 1 + 0 + 0 + 0 + (-1) = 0 /\ 0 \in Int /\ 1 \in Int /\ -1 \in Int
    OBVIOUS
  <2> QED BY <2>1, <2>2, <2>3, <2>4, RxBalance, Zenon
<1>14. LlrBooks'
  <2>1. Changes(pool.llr, pool'.llr, 0) /\ Changes(DecodeTasks, DecodeTasks', 0)
    BY <1>1, <1>9, <1>10, <1>11, DecodeSame, CountsKept, NoChange
  <2>2. Changes(DemodResults(LlrResults), DemodResults(LlrResults)', -l)
    BY <1>6, <1>8, <1>9, GoesDown
  <2>3. 0 + (-l) + l + 0 = 0 /\ -l \in Int /\ l \in Int /\ 0 \in Int
    BY <1>8
  <2> QED BY <1>7, <2>1, <2>2, <2>3, LlrBalance, Zenon
<1>15. SensingBooks'
  <2>1. Changes(pool.sensing, pool'.sensing, 0) /\ Changes(Len(sensing), Len(sensing'), 0)
    BY <1>1, <1>10, <1>11, LengthsAreNat, NoChange
  <2>2. Changes(DemodResults(SensingResults), DemodResults(SensingResults)', -1)
    BY <1>6, <1>9, GoesDown
  <2>3. Changes(Parted, Parted', 1)
    BY <1>1, <1>12 DEF Parted, Changes
  <2>4. 0 + (-1) + 0 + 1 = 0 /\ -1 \in Int /\ 1 \in Int /\ 0 \in Int
    OBVIOUS
  <2> QED BY <2>1, <2>2, <2>3, <2>4, SensingBalance, Zenon
<1>16. HandOver'
  BY <1>1, <1>2, <1>12 DEF HandOver
<1> QED BY <1>11, <1>13, <1>14, <1>15, <1>16 DEF BooksInv

\* The next frame goes to the demodulators, or back if it is outdated.
LEMMA ProcFrameBooks ==
  ASSUME UeInv, UeInv', BooksInv, ProcFrame
  PROVE  BooksInv'
<1>1. /\ UNCHANGED <<sensing, llrs, decodeVars, stop>>
      /\ rx.queue # <<>> /\ rx' = [rx EXCEPT !.queue = Tail(rx.queue)]
      /\ proc.pc \in {"frame", "collect"}
  BY DEF ProcFrame, Turn, At
<1>2. /\ RxOK /\ ProcOK /\ DemodOK /\ DemodOK'
      /\ rx.queue \in Seq(FrameRecords) /\ Len(rx.hand) \in Nat /\ Len(rx.queue) \in Nat
  BY LengthsAreNat DEF UeInv, UeTypeOK
<1>3. /\ rx'.hand = rx.hand /\ rx'.queue = Tail(rx.queue)
      /\ Changes(Len(rx.queue), Len(rx'.queue), -1) /\ Head(rx.queue) \in FrameRecords
  <2>1. rx'.hand = rx.hand /\ rx'.queue = Tail(rx.queue)
    BY <1>1, <1>2 DEF RxOK
  <2> QED BY <1>1, <1>2, <2>1, OneLess
<1>4. Changes(Len(rx.hand), Len(rx'.hand), 0) /\ pool.rx \in Int
  BY <1>2, <1>3, NoChange, PoolIsInt
<1>5. CASE /\ pool' = [pool EXCEPT !.rx = @ + 1] /\ proc' = [proc EXCEPT !.pc = "frame"]
           /\ UNCHANGED demodVars
  <2>1. pool' = [pool EXCEPT !.rx = pool.rx + 1] /\ pool.rx + 1 \in Int
    BY <1>4, <1>5
  <2>2. Changes(pool.rx, pool.rx + 1, 1)
    BY DEF Changes
  <2>3. 1 + 0 + (-1) = 0 /\ 1 \in Int /\ 0 \in Int /\ -1 \in Int
    OBVIOUS
  <2>4. proc.pc \notin {"llr", "done"} /\ proc'.pc # "llr"
    <3>1. proc'.pc = "frame"
      BY <1>2, <1>5, ProcGoes
    <3> QED BY <1>1, <3>1
  <2>5. UNCHANGED <<demodVars, sensing, llrs, decodeVars, stop>>
    BY <1>1, <1>5
  <2> QED BY <1>3, <1>4, <2>1, <2>2, <2>3, <2>4, <2>5, RxOnlyBooks, Zenon
<1>6. CASE D!Dispatch(Head(rx.queue)) /\ proc' = Again /\ UNCHANGED pool
  <2>1. DemodTasks' = DemodTasks + 1 /\ \A K : DemodResults(K)' = DemodResults(K)
    BY <1>2, <1>3, <1>6, DemodTakes
  <2>2. DemodTasks \in Nat /\ DecodeTasks \in Nat /\ \A K : DemodResults(K) \in Nat
    BY StageCountsAreNat
  <2>3. proc'.pc \in {"collect", "exit"}
    BY <1>2, <1>6, AgainIs
  <2>4. RxBooks'
    <3>1. /\ Changes(pool.rx, pool'.rx, 0)
          /\ Changes(DemodResults(Demodulated), DemodResults(Demodulated)', 0)
      BY <1>4, <1>6, <2>1, <2>2, NoChange
    <3>2. Changes(DemodTasks, DemodTasks', 1)
      BY <2>1 DEF Changes
    <3>3. 0 + 0 + (-1) + 1 + 0 = 0 /\ 1 \in Int /\ 0 \in Int /\ -1 \in Int
      OBVIOUS
    <3> QED BY <1>3, <1>4, <3>1, <3>2, <3>3, RxBalance, Zenon
  <2>5. LlrBooks'
    <3>1. DecodeTasks' = DecodeTasks
      BY <1>1, DecodeSame, CountsKept
    <3> QED BY <1>1, <1>6, <2>1, <3>1 DEF BooksInv, LlrBooks
  <2>6. SensingBooks'
    <3>1. Parted' = Parted
      BY <1>1, <2>3 DEF Parted
    <3> QED BY <1>1, <1>6, <2>1, <3>1 DEF BooksInv, SensingBooks
  <2>7. HandOver' /\ pool' \in Buffers
    BY <1>1, <1>6, <2>3 DEF BooksInv, HandOver
  <2> QED BY <2>4, <2>5, <2>6, <2>7 DEF BooksInv
<1> QED BY <1>5, <1>6 DEF ProcFrame

\* What the process thread and the demodulators still hold goes back at the end.
LEMMA ProcJoinBooks ==
  ASSUME UeInv, UeInv', BooksInv, ProcJoin
  PROVE  BooksInv'
<1> DEFINE q == Len(rx.queue)
           t == DemodTasks
           u == DemodResults(Demodulated)
           l == DemodResults(LlrResults)
           d == DemodResults(SensingResults)
<1>1. /\ UNCHANGED <<sensing, llrs, decodeVars, stop>> /\ D!Reset
      /\ rx' = [rx EXCEPT !.queue = <<>>] /\ proc' = [proc EXCEPT !.pc = "done"]
      /\ proc.pc \in {"join", "collect"}
  BY DEF ProcJoin, Turn, At
<1>2. /\ Cardinality(Uncollected) = u /\ Cardinality(WithLlr) = l
      /\ Cardinality(WithSensing) = d /\ Waiting(demod, D!ids) = t
  <2>1. DemodOK
    BY LengthsAreNat
  <2>2. D!ids = 0 .. Demodulators - 1
    BY DEF D!ids
  <2>3. Waiting(demod, 0 .. Demodulators - 1) = DemodTasks
    BY <2>1, Sizes, FramedResults, TasksAreCounted DEF DemodOK, DemodTasks
  <2> QED BY <2>1, <2>2, <2>3, ResultsAreCounted
<1>3. /\ q \in Nat /\ t \in Nat /\ u \in Nat /\ l \in Nat /\ d \in Nat
      /\ Len(rx.hand) \in Nat /\ Len(llrs) \in Nat /\ Len(sensing) \in Nat
      /\ DecodeTasks \in Nat /\ pool.rx \in Int /\ pool.llr \in Int /\ pool.sensing \in Int
  BY LengthsAreNat, StageCountsAreNat, PoolIsInt
<1>4. pool' = [rx |-> pool.rx + q + u + t, llr |-> pool.llr + l, sensing |-> pool.sensing + d]
  BY <1>2 DEF ProcJoin
<1>5. DemodTasks' = 0 /\ \A K : DemodResults(K)' = 0
  BY <1>1, DemodResets
<1>6. rx'.hand = rx.hand /\ Len(rx'.queue) = 0
  <2>1. Len(<<>>) = 0
    OBVIOUS
  <2> QED BY <1>1, <2>1, LengthsAreNat DEF RxOK
<1>7. proc'.pc = "done"
  BY <1>1, LengthsAreNat, ProcGoes
<1>8. /\ Changes(q, Len(rx'.queue), -q) /\ Changes(t, DemodTasks', -t)
      /\ Changes(u, DemodResults(Demodulated)', -u) /\ Changes(l, DemodResults(LlrResults)', -l)
      /\ Changes(d, DemodResults(SensingResults)', -d)
  <2>1. \A a \in Nat : 0 = a + (-a)
    OBVIOUS
  <2> QED BY <1>3, <1>5, <1>6, <2>1 DEF Changes
<1> HIDE DEF q, t, u, l, d
<1>9. /\ pool' \in Buffers /\ Changes(pool.rx, pool'.rx, q + u + t)
      /\ Changes(pool.llr, pool'.llr, l) /\ Changes(pool.sensing, pool'.sensing, d)
  <2> DEFINE a == pool.rx + q + u + t
             b == pool.llr + l
             c == pool.sensing + d
  <2>1. a \in Int /\ b \in Int /\ c \in Int
    <3>1. a \in Int
      BY <1>3
    <3>2. b \in Int
      BY <1>3
    <3>3. c \in Int
      BY <1>3
    <3> HIDE DEF a, b, c
    <3> QED BY <3>1, <3>2, <3>3
  <2>2. pool' = [rx |-> a, llr |-> b, sensing |-> c]
    BY <1>4
  <2>3. /\ Changes(pool.rx, a, q + u + t) /\ Changes(pool.llr, b, l)
        /\ Changes(pool.sensing, c, d)
    BY <1>3 DEF Changes
  <2> HIDE DEF a, b, c
  <2>4. pool' \in Buffers /\ pool'.rx = a /\ pool'.llr = b /\ pool'.sensing = c
    BY <2>1, <2>2, PoolIs
  <2> QED BY <2>3, <2>4
<1>10. RxBooks'
  <2>1. Changes(Len(rx.hand), Len(rx'.hand), 0)
    BY <1>3, <1>6, NoChange
  <2>2. /\ (q + u + t) + 0 + (-q) + (-t) + (-u) = 0
        /\ q + u + t \in Int /\ 0 \in Int /\ -q \in Int /\ -t \in Int /\ -u \in Int
    BY <1>3
  <2>3. /\ Changes(Len(rx.queue), Len(rx'.queue), -q)
        /\ Changes(DemodTasks, DemodTasks', -t)
        /\ Changes(DemodResults(Demodulated), DemodResults(Demodulated)', -u)
    BY <1>8 DEF q, t, u
  <2> QED BY <1>9, <2>1, <2>2, <2>3, RxBalance, Zenon
<1>11. LlrBooks'
  <2>1. Changes(Len(llrs), Len(llrs'), 0) /\ Changes(DecodeTasks, DecodeTasks', 0)
    BY <1>1, <1>3, DecodeSame, CountsKept, NoChange
  <2>2. l + (-l) + 0 + 0 = 0 /\ l \in Int /\ -l \in Int /\ 0 \in Int
    BY <1>3
  <2>3. Changes(DemodResults(LlrResults), DemodResults(LlrResults)', -l)
    BY <1>8 DEF l
  <2> QED BY <1>9, <2>1, <2>2, <2>3, LlrBalance, Zenon
<1>12. SensingBooks'
  <2>1. Changes(Len(sensing), Len(sensing'), 0) /\ Changes(Parted, Parted', 0)
    <3>1. Parted = 0 /\ Parted' = 0
      BY <1>1, <1>7 DEF Parted
    <3> QED BY <1>1, <1>3, <3>1, NoChange
  <2>2. d + (-d) + 0 + 0 = 0 /\ d \in Int /\ -d \in Int /\ 0 \in Int
    BY <1>3
  <2>3. Changes(DemodResults(SensingResults), DemodResults(SensingResults)', -d)
    BY <1>8 DEF d
  <2> QED BY <1>9, <2>1, <2>2, <2>3, SensingBalance, Zenon
<1>13. HandOver'
  BY <1>7 DEF HandOver
<1> QED BY <1>9, <1>10, <1>11, <1>12, <1>13 DEF BooksInv

\* Only the books of one kind of buffer change.
LEMMA LlrOnlyBooks ==
  ASSUME UeInv, BooksInv,
         NEW a \in Int, NEW i \in Int, NEW k \in Int, NEW l \in Int,
         pool' = [pool EXCEPT !.llr = a], Changes(pool.llr, a, i),
         Changes(Len(llrs), Len(llrs'), k), Changes(DecodeTasks, DecodeTasks', l),
         i + k + l = 0,
         UNCHANGED <<rx, proc, demodVars, sensing, stop>>
  PROVE  BooksInv'
<1>1. UNCHANGED demod /\ D!Result' = D!Result
  BY DemodSame
<1>2. /\ pool' \in Buffers /\ pool'.llr = a
      /\ pool'.rx = pool.rx /\ pool'.sensing = pool.sensing
  BY LlrPoolIs
<1>3. LlrBooks'
  <2>1. Changes(DemodResults(LlrResults), DemodResults(LlrResults)', 0)
    BY <1>1, CountsKept, StageCountsAreNat, NoChange
  <2>2. i + 0 + k + l = 0 /\ 0 \in Int
    OBVIOUS
  <2>3. Changes(pool.llr, pool'.llr, i)
    BY <1>2
  <2> QED BY <2>1, <2>2, <2>3, LlrBalance, Zenon
<1>4. RxBooks' /\ SensingBooks'
  BY <1>1, <1>2, RxBooksKept, SensingBooksKept DEF BooksInv
<1>5. HandOver'
  BY <1>1, HandOverKept DEF BooksInv
<1> QED BY <1>2, <1>3, <1>4, <1>5 DEF BooksInv

LEMMA SensingOnlyBooks ==
  ASSUME UeInv, BooksInv,
         NEW a \in Int, NEW i \in Int, NEW k \in Int,
         pool' = [pool EXCEPT !.sensing = a], Changes(pool.sensing, a, i),
         Changes(Len(sensing), Len(sensing'), k), i + k = 0,
         UNCHANGED <<rx, proc, demodVars, llrs, decodeVars>>,
         stop' = stop \/ proc.pc = "done"
  PROVE  BooksInv'
<1>1. UNCHANGED <<demod, decode>> /\ D!Result' = D!Result
  BY DemodSame, DecodeSame
<1>2. /\ pool' \in Buffers /\ pool'.sensing = a
      /\ pool'.rx = pool.rx /\ pool'.llr = pool.llr
  BY SensingPoolIs
<1>3. SensingBooks'
  <2>1. Changes(DemodResults(SensingResults), DemodResults(SensingResults)', 0)
    BY <1>1, CountsKept, StageCountsAreNat, NoChange
  <2>2. Changes(Parted, Parted', 0)
    BY NoChange DEF Parted
  <2>3. i + 0 + k + 0 = 0 /\ 0 \in Int
    OBVIOUS
  <2>4. Changes(pool.sensing, pool'.sensing, i)
    BY <1>2
  <2> QED BY <2>1, <2>2, <2>3, <2>4, SensingBalance, Zenon
<1>4. RxBooks' /\ LlrBooks'
  BY <1>1, <1>2, RxBooksKept, LlrBooksKept, CountsKept DEF BooksInv
<1>5. HandOver'
  BY <1>1 DEF BooksInv, HandOver
<1> QED BY <1>2, <1>3, <1>4, <1>5 DEF BooksInv

\* The sensing thread is done with a buffer, or with all that are left.
LEMMA SensingStepBooks ==
  ASSUME UeInv, BooksInv, Sense \/ StopBit
  PROVE  BooksInv'
<1>0. /\ sensing \in Seq(Sensed) /\ Len(sensing) \in Nat
      /\ pool.sensing \in Int
  BY LengthsAreNat, PoolIsInt
<1>1. CASE Sense
  <2>1. /\ UNCHANGED <<rx, proc, demodVars, llrs, decodeVars, stop>>
        /\ sensing # <<>> /\ sensing' = Tail(sensing)
        /\ pool' = [pool EXCEPT !.sensing = pool.sensing + 1]
    BY <1>1 DEF Sense
  <2>2. pool.sensing + 1 \in Int /\ Changes(pool.sensing, pool.sensing + 1, 1)
    BY <1>0 DEF Changes
  <2>3. Changes(Len(sensing), Len(sensing'), -1)
    BY <1>0, <2>1, OneLess
  <2>4. 1 + (-1) = 0 /\ 1 \in Int /\ -1 \in Int
    OBVIOUS
  <2> QED BY <2>1, <2>2, <2>3, <2>4, SensingOnlyBooks, Zenon
<1>2. CASE StopBit
  <2> DEFINE n == Len(sensing)
  <2>1. /\ UNCHANGED <<rx, proc, demodVars, llrs, decodeVars>>
        /\ stop = "sensing" /\ sensing' = <<>>
        /\ pool' = [pool EXCEPT !.sensing = pool.sensing + n]
    BY <1>2 DEF StopBit
  <2>2. proc.pc = "done"
    BY <2>1 DEF BooksInv, HandOver
  <2>3. pool.sensing + n \in Int /\ Changes(pool.sensing, pool.sensing + n, n)
    BY <1>0 DEF Changes
  <2>4. Changes(n, Len(sensing'), -n)
    <3>1. Len(sensing') = 0
      BY <2>1
    <3> QED BY <1>0, <3>1 DEF Changes
  <2>5. n + (-n) = 0 /\ n \in Int /\ -n \in Int
    BY <1>0
  <2> QED BY <2>1, <2>2, <2>3, <2>4, <2>5, SensingOnlyBooks, Zenon
<1> QED BY <1>1, <1>2

\* A frame has been decoded.
LEMMA DecodeBooks ==
  ASSUME UeInv, UeInv', BooksInv, NEW w \in L!ids, Decode(w)
  PROVE  BooksInv'
<1> DEFINE f == Head(decode[w].tasks)
           r == [frame |-> f, dropped |-> Stale(f)]
<1>1. /\ UNCHANGED <<rx, proc, demodVars, sensing, llrs, stop>>
      /\ decode[w].tasks # <<>> /\ L!Work(w, r) /\ w \in 0 .. Decoders - 1
      /\ pool' = [pool EXCEPT !.llr = pool.llr + 1]
  BY DEF Decode, L!ids
<1>2. DecodeOK /\ DecodeOK' /\ Len(llrs) \in Nat /\ pool.llr \in Int
  BY LengthsAreNat, PoolIsInt DEF UeInv, UeTypeOK
<1>3. r \in Decoded
  <2>1. decode \in [0 .. Decoders - 1 -> Slots(Decoded)]
    BY <1>2 DEF DecodeOK
  <2>2. decode[w].tasks \in Seq(FrameRecords)
    BY <1>1, <2>1, Sizes, FramedResults, AllNumbersAre
  <2>3. f \in FrameRecords
    BY <1>1, <2>2
  <2>4. Stale(f) \in BOOLEAN
    BY DEF Stale
  <2> QED BY <2>3, <2>4 DEF Decoded
<1> HIDE DEF r
<1>4. DecodeTasks = DecodeTasks' + 1 /\ DecodeTasks' \in Nat
  BY <1>1, <1>2, <1>3, DecodeRuns, StageCountsAreNat
<1>5. Changes(DecodeTasks, DecodeTasks', -1)
  BY <1>4, GoesDown
<1>6. pool.llr + 1 \in Int /\ Changes(pool.llr, pool.llr + 1, 1)
  BY <1>2 DEF Changes
<1>7. Changes(Len(llrs), Len(llrs'), 0)
  BY <1>1, <1>2, NoChange
<1>8. 1 + 0 + (-1) = 0 /\ 1 \in Int /\ 0 \in Int /\ -1 \in Int
  OBVIOUS
<1> QED BY <1>1, <1>5, <1>6, <1>7, <1>8, LlrOnlyBooks, Zenon

LEMMA BitCollectBooks ==
  ASSUME UeInv, UeInv', BooksInv, BitCollect
  PROVE  BooksInv'
<1>1. UNCHANGED <<rx, proc, demodVars, sensing, llrs, pool, stop>> /\ L!Ready /\ L!Pop
  BY DEF BitCollect
<1>2. DecodeOK /\ DecodeOK' /\ Len(llrs) \in Nat /\ pool.llr \in Int
  BY LengthsAreNat, PoolIsInt DEF UeInv, UeTypeOK
<1>3. DecodeTasks' = DecodeTasks /\ DecodeTasks \in Nat
  BY <1>1, <1>2, DecodePops, StageCountsAreNat
<1>4. UNCHANGED demod /\ D!Result' = D!Result
  BY <1>1, DemodSame
<1>5. RxBooks' /\ LlrBooks' /\ SensingBooks' /\ HandOver'
  BY <1>1, <1>3, <1>4, RxBooksKept, LlrBooksKept, SensingBooksKept, HandOverKept DEF BooksInv
<1> QED BY <1>1, <1>5 DEF BooksInv

\* The next LLRs go to the decoders, or back if their frame is outdated.
LEMMA BitTakeBooks ==
  ASSUME UeInv, UeInv', BooksInv, BitTake
  PROVE  BooksInv'
<1>1. /\ UNCHANGED <<rx, proc, demodVars, sensing, stop>>
      /\ llrs # <<>> /\ llrs' = Tail(llrs)
      /\ \/ pool' = [pool EXCEPT !.llr = pool.llr + 1] /\ UNCHANGED decodeVars
         \/ L!Dispatch(Head(llrs)) /\ UNCHANGED pool
  BY DEF BitTake
<1>2. DecodeOK /\ DecodeOK' /\ llrs \in Seq(FrameRecords) /\ pool.llr \in Int
  BY LengthsAreNat, PoolIsInt DEF UeInv, UeTypeOK
<1>3. Changes(Len(llrs), Len(llrs'), -1) /\ Head(llrs) \in FrameRecords
  BY <1>1, <1>2, OneLess
<1>4. DecodeTasks \in Nat
  BY StageCountsAreNat
<1>5. CASE pool' = [pool EXCEPT !.llr = pool.llr + 1] /\ UNCHANGED decodeVars
  <2>1. pool.llr + 1 \in Int /\ Changes(pool.llr, pool.llr + 1, 1)
    BY <1>2 DEF Changes
  <2>2. Changes(DecodeTasks, DecodeTasks', 0)
    BY <1>4, <1>5, DecodeSame, CountsKept, NoChange
  <2>3. 1 + (-1) + 0 = 0 /\ 1 \in Int /\ 0 \in Int /\ -1 \in Int
    OBVIOUS
  <2> QED BY <1>1, <1>3, <1>5, <2>1, <2>2, <2>3, LlrOnlyBooks, Zenon
<1>6. CASE L!Dispatch(Head(llrs)) /\ UNCHANGED pool
  <2>1. pool' = [pool EXCEPT !.llr = pool.llr] /\ Changes(pool.llr, pool.llr, 0)
    BY <1>2, <1>6, NoChange DEF BooksInv, Buffers
  <2>2. DecodeTasks' = DecodeTasks + 1
    BY <1>2, <1>3, <1>6, DecodeTakes
  <2>3. Changes(DecodeTasks, DecodeTasks', 1)
    BY <2>2 DEF Changes
  <2>4. 0 + (-1) + 1 = 0 /\ 1 \in Int /\ 0 \in Int /\ -1 \in Int
    OBVIOUS
  <2> QED BY <1>1, <1>2, <1>3, <2>1, <2>3, <2>4, LlrOnlyBooks, Zenon
<1> QED BY <1>1, <1>5, <1>6

\* What the bit-processing thread and the decoders still hold goes back at the end.
LEMMA BitJoinBooks ==
  ASSUME UeInv, UeInv', BooksInv, BitJoin
  PROVE  BooksInv'
<1> DEFINE n == Len(llrs)
           t == DecodeTasks
<1>1. /\ UNCHANGED <<rx, proc, demodVars, sensing, stop>> /\ L!Reset /\ llrs' = <<>>
      /\ pool' = [pool EXCEPT !.llr = pool.llr + n + Waiting(decode, L!ids)]
  BY DEF BitJoin
<1>2. Waiting(decode, L!ids) = t
  <2>1. DecodeOK /\ L!ids = 0 .. Decoders - 1
    BY LengthsAreNat DEF L!ids
  <2> QED BY <2>1, Sizes, FramedResults, TasksAreCounted DEF DecodeOK, DecodeTasks
<1>3. n \in Nat /\ t \in Nat /\ pool.llr \in Int
  BY LengthsAreNat, StageCountsAreNat, PoolIsInt
<1>4. Len(llrs') = 0 /\ DecodeTasks' = 0
  BY <1>1, DecodeResets
<1>5. Changes(Len(llrs), Len(llrs'), -n) /\ Changes(DecodeTasks, DecodeTasks', -t)
  <2>1. \A a \in Nat : 0 = a + (-a)
    OBVIOUS
  <2> QED BY <1>3, <1>4, <2>1 DEF Changes
<1> HIDE DEF n, t
<1>6. /\ pool' = [pool EXCEPT !.llr = pool.llr + n + t] /\ pool.llr + n + t \in Int
      /\ Changes(pool.llr, pool.llr + n + t, n + t)
  BY <1>1, <1>2, <1>3 DEF Changes
<1>7. /\ (n + t) + (-n) + (-t) = 0
      /\ n + t \in Int /\ -n \in Int /\ -t \in Int
  BY <1>3
<1> QED BY <1>1, <1>5, <1>6, <1>7, LlrOnlyBooks, Zenon

LEMMA BooksStep ==
  ASSUME UeInv, BooksInv, [Next]_vars
  PROVE  BooksInv'
<1>0. UeInv'
  BY UeStep
<1>1. CASE Receive
  BY <1>1, ReceiveBooks
<1>2. CASE Process
  BY <1>0, <1>2, CollectBooks, ControlBooks, ProcLlrBooks, EmptiesBooks, StillStepBooks,
     ProcFrameBooks, ProcJoinBooks DEF Process
<1>3. CASE Bit
  BY <1>0, <1>3, BitCollectBooks, BitTakeBooks, BitJoinBooks, StillStepBooks DEF Bit
<1>4. CASE Sense
  BY <1>4, SensingStepBooks
<1>5. CASE \E w \in D!ids : Demodulate(w)
  BY <1>0, <1>5, DemodulateBooks
<1>6. CASE \E w \in L!ids : Decode(w)
  BY <1>0, <1>6, DecodeBooks
<1>7. CASE StopEngine \/ StopSensing \/ StopBit \/ StopDone \/ Stopped \/ UNCHANGED vars
  BY <1>7, SensingStepBooks, StillStepBooks
<1> QED BY <1>1, <1>2, <1>3, <1>4, <1>5, <1>6, <1>7 DEF Next

LEMMA BooksStart ==
  ASSUME Init
  PROVE  BooksInv
<1>1. /\ pool = Target
      /\ rx = [hand |-> <<>>, aligning |-> FALSE, queue |-> <<>>]
      /\ proc = [pc |-> "collect", then |-> "clear", deferred |-> FALSE]
      /\ sensing = <<>> /\ llrs = <<>> /\ stop = "no"
      /\ demod = [w \in 0 .. Demodulators - 1 |->
                    [tasks |-> <<>>, results |-> <<>>, pending |-> 0]]
      /\ decode = [w \in 0 .. Decoders - 1 |->
                    [tasks |-> <<>>, results |-> <<>>, pending |-> 0]]
  BY DEF Init, D!Init, L!Init, D!ids, L!ids
<1>2. DemodTasks = 0 /\ DecodeTasks = 0 /\ \A K : DemodResults(K) = 0
  BY <1>1, Sizes, CountsEmptied DEF DemodTasks, DecodeTasks, DemodResults
<1>3. /\ Len(rx.hand) = 0 /\ Len(rx.queue) = 0 /\ Len(llrs) = 0 /\ Len(sensing) = 0
      /\ Parted = 0
  BY <1>1 DEF Parted
<1>4. Target \in Buffers
  <2>1. /\ Demodulators \in Nat /\ Decoders \in Nat /\ Depth \in Nat
        /\ FrameCap \in Nat /\ LlrCap \in Nat /\ SensingCap \in Nat
    BY UeReceiveAssumption
  <2>2. Demodulators * Depth \in Nat /\ Decoders * Depth \in Nat
    BY <2>1
  <2> DEFINE a == FrameCap + Demodulators * Depth + 1 + Margin
             b == LlrCap + Demodulators * Depth + Decoders * Depth + 1 + Margin
             c == SensingCap + Demodulators * Depth + 1 + Margin
  <2>3. a \in Int /\ b \in Int /\ c \in Int
    BY <2>1, <2>2 DEF Margin
  <2>4. Target = [rx |-> a, llr |-> b, sensing |-> c]
    BY DEF Target
  <2> HIDE DEF a, b, c
  <2> QED BY <2>3, <2>4 DEF Buffers
<1>5. pool \in Buffers /\ pool.rx \in Int /\ pool.llr \in Int /\ pool.sensing \in Int
  BY <1>1, <1>4 DEF Buffers
<1>6. \A a \in Int : Total(a, 0, 0, 0, 0) = a
  BY DEF Total
<1>7. RxBooks /\ LlrBooks /\ SensingBooks
  BY <1>1, <1>2, <1>3, <1>5, <1>6 DEF RxBooks, LlrBooks, SensingBooks
<1>8. HandOver
  BY <1>1 DEF HandOver
<1> QED BY <1>5, <1>7, <1>8 DEF BooksInv

\* What the books say of the pools as they are laid out.
LEMMA BooksSuffice ==
  ASSUME UeInv, BooksInv
  PROVE  \A p \in DOMAIN pool : pool[p] + InUse[p] = Target[p]
<1> DEFINE u == DemodResults(Demodulated)
           l == DemodResults(LlrResults)
           d == DemodResults(SensingResults)
           h == Len(rx.hand)
           q == Len(rx.queue)
           a == pool.rx
           b == pool.llr
           c == pool.sensing
           m == Len(llrs)
           n == Len(sensing)
           t == DemodTasks
           s == DecodeTasks
<1>1. /\ u \in Nat /\ l \in Nat /\ d \in Nat /\ h \in Nat /\ q \in Nat /\ m \in Nat /\ n \in Nat
      /\ t \in Nat /\ s \in Nat /\ a \in Int /\ b \in Int /\ c \in Int
  BY LengthsAreNat, StageCountsAreNat, PoolIsInt
<1>2. /\ Cardinality(Uncollected) = u /\ Cardinality(WithLlr) = l
      /\ Cardinality(WithSensing) = d
  BY LengthsAreNat, ResultsAreCounted
<1>3. Waiting(demod, D!ids) = t /\ Waiting(decode, L!ids) = s
  <2>1. DemodOK /\ DecodeOK /\ D!ids = 0 .. Demodulators - 1 /\ L!ids = 0 .. Decoders - 1
    BY LengthsAreNat DEF D!ids, L!ids
  <2> QED BY <2>1, Sizes, FramedResults, TasksAreCounted DEF DemodOK, DecodeOK, DemodTasks, DecodeTasks
<1>4. Len(rx.hand \o rx.queue) = h + q
  <2>1. rx.hand \in Seq(FrameRecords) /\ rx.queue \in Seq(FrameRecords)
    BY LengthsAreNat
  <2> QED BY <2>1
<1>5. /\ InUse.rx = h + q + t + u /\ InUse.llr = l + m + s
      /\ InUse.sensing = d + n - (IF proc.pc = "llr" THEN 1 ELSE 0)
  BY <1>2, <1>3, <1>4 DEF InUse
<1>6. /\ a + h + q + t + u = Target.rx /\ b + l + m + s + 0 = Target.llr
      /\ c + d + n + Parted + 0 = Target.sensing
  BY DEF BooksInv, RxBooks, LlrBooks, SensingBooks, Total
<1>7. DOMAIN pool = {"rx", "llr", "sensing"}
  BY DEF BooksInv, Buffers
<1> HIDE DEF u, l, d, h, q, m, n, t, s, a, b, c
<1>8. a + InUse.rx = Target.rx
  <2>1. a + (h + q + t + u) = a + h + q + t + u
    BY <1>1
  <2> QED BY <1>5, <1>6, <2>1
<1>9. b + InUse.llr = Target.llr
  <2>1. b + (l + m + s) = b + l + m + s + 0
    BY <1>1
  <2> QED BY <1>5, <1>6, <2>1
<1>10. c + InUse.sensing = Target.sensing
  <2>1. c + (d + n - (IF proc.pc = "llr" THEN 1 ELSE 0)) = c + d + n + Parted + 0
    BY <1>1 DEF Parted
  <2> QED BY <1>5, <1>6, <2>1
<1> QED BY <1>7, <1>8, <1>9, <1>10 DEF a, b, c

\* Every buffer is in its pool or in exactly one place, through drops,
\* resynchronisations, restarts of the stream and stop(), and no worker holds more
\* than its rings, so the buffers laid out in advance are enough
\* (_prefill_pools_for_topology, _release_cpu_demod_result,
\* _stop_cpu_demod_workers, _stop_cpu_ldpc_workers).
THEOREM BuffersAlwaysSuffice == Spec => []BuffersSuffice
<1>1. Init => BooksInv
  BY BooksStart
<1>2. UeInv /\ BooksInv /\ [Next]_vars => BooksInv'
  BY BooksStep
<1>3. UeInv /\ BooksInv /\ RingsSuffice => BuffersSuffice
  BY BooksSuffice DEF BuffersSuffice
<1> QED BY <1>1, <1>2, <1>3, UeInvariant, RingsAlwaysSuffice, PTL DEF Spec

-----------------------------------------------------------------------------
(* LdpcFrameDecoder (DecoderPool): the other workers, which one call after  *)
(* another lends its frame to.                                              *)

USE PoolAssumption DEF Alone, thread, job

\* The barrier's count: all are done exactly when Count of them are, and one
\* that is not leaves the count short.
LEMMA DoneCounts ==
  /\ IsFiniteSet(Workers) /\ Cardinality(Workers) = Count
  /\ IsFiniteSet(Done) /\ Cardinality(Done) \in Nat
  /\ Cardinality(Done) = Count => Done = Workers
  /\ \A w \in Workers : w \notin Done => Cardinality(Done) < Count
  <1>1. IsFiniteSet(Workers) /\ Cardinality(Workers) = Count
    BY FS_Interval DEF Workers
  <1>2. Done \in SUBSET Workers
    BY DEF Done
  <1>3. /\ IsFiniteSet(Done) /\ Cardinality(Done) <= Cardinality(Workers)
        /\ Cardinality(Workers) = Cardinality(Done) => Workers = Done
    BY <1>1, <1>2, FS_Subset
  <1>4. Cardinality(Done) \in Nat
    BY <1>3, FS_CardinalityType
  <1> QED BY <1>1, <1>3, <1>4

\* The invariant holds before the constructor.
LEMMA PoolStarts == PoolInit => PoolInv
  <1> SUFFICES ASSUME PoolInit PROVE PoolInv
    OBVIOUS
  <1>1. PoolTypeOK
    <2>1. /\ 0 \in Calls /\ 0 \in Generations /\ 0 \in 0 .. Count
          /\ 0 \in 0 .. MaxBlocks /\ 0 \in 0 .. MaxBlocks + Count
      BY DEF Calls, Generations
    <2>2. outcomes \in Seq(Outcomes)
      BY DEF PoolInit
    <2> QED BY <2>1, <2>2 DEF PoolInit, PoolTypeOK
  <1>2. LifeInv
    BY DEF PoolInit, LifeInv
  <1>3. CallInv
    BY DEF PoolInit, CallInv
  <1>4. RoundInv
    BY DEF PoolInit, RoundInv
  <1> QED BY <1>1, <1>2, <1>3, <1>4 DEF PoolInv

\* The constructor's steps and the destructor touch no call in progress.
LEMMA LifeStep ==
  ASSUME PoolInv, Constructing \/ Destroy
  PROVE  PoolInv'
  <1> USE DEF PoolInv
  <1>1. CASE Spawn
    <2>1. PoolTypeOK'
      <3>1. spawned' \in 0 .. Count
        BY <1>1 DEF Spawn, PoolTypeOK, LifeInv
      <3> QED BY <1>1, <3>1 DEF Spawn, PoolTypeOK
    <2>2. LifeInv'
      BY <1>1 DEF Spawn, PoolTypeOK, LifeInv, Workers
    <2>3. CallInv'
      BY <1>1 DEF Spawn, PoolTypeOK, CallInv
    <2>4. RoundInv'
      BY <1>1 DEF Spawn, PoolTypeOK, RoundInv, LifeInv
    <2> QED BY <2>1, <2>2, <2>3, <2>4
  <1>2. CASE SpawnFails
    <2>1. PoolTypeOK'
      <3>1. generation' \in Generations /\ stopping' \in BOOLEAN
        BY <1>2 DEF SpawnFails, TellToStop, PoolTypeOK, LifeInv, Calls, Generations
      <3> QED BY <1>2, <3>1 DEF SpawnFails, TellToStop, PoolTypeOK
    <2>2. LifeInv'
      BY <1>2 DEF SpawnFails, TellToStop, PoolTypeOK, LifeInv, Calls, Generations
    <2>3. CallInv'
      BY <1>2 DEF SpawnFails, TellToStop, PoolTypeOK, CallInv
    <2>4. RoundInv'
      <3>1. \A w \in Workers : at[w] # "decode"
        BY <1>2 DEF SpawnFails, RoundInv, CallInv
      <3> QED BY <1>2, <3>1 DEF SpawnFails, TellToStop, PoolTypeOK, RoundInv, Generations
    <2> QED BY <2>1, <2>2, <2>3, <2>4
  <1>3. CASE Destroy
    <2>1. PoolTypeOK'
      <3>1. generation' \in Generations /\ stopping' \in BOOLEAN
        BY <1>3 DEF Destroy, TellToStop, PoolTypeOK, LifeInv, Calls, Generations
      <3> QED BY <1>3, <3>1 DEF Destroy, TellToStop, PoolTypeOK
    <2>2. LifeInv'
      BY <1>3 DEF Destroy, TellToStop, PoolTypeOK, LifeInv, Calls, Generations
    <2>3. CallInv'
      BY <1>3 DEF Destroy, TellToStop, PoolTypeOK, CallInv
    <2>4. RoundInv'
      <3>1. \A w \in Workers : at[w] # "decode"
        BY <1>3 DEF Destroy, RoundInv, CallInv
      <3> QED BY <1>3, <3>1 DEF Destroy, TellToStop, PoolTypeOK, RoundInv, Generations
    <2> QED BY <2>1, <2>2, <2>3, <2>4
  <1> QED BY <1>1, <1>2, <1>3 DEF Constructing

\* A call is posted only between calls, when every worker has seen the last
\* generation: nobody has seen the new one.
LEMMA CallStep ==
  ASSUME PoolInv, NEW c \in Callers, Post(c) \/ DecodeAlone(c) \/ Calling(c)
  PROVE  PoolInv'
  <1> USE DEF PoolInv
  <1>1. CASE Post(c)
    <2>1. PoolTypeOK'
      <3>1. /\ input' \in Calls /\ blockCount' \in 0 .. MaxBlocks
            /\ generation' \in Generations /\ failure' \in Calls /\ finished' \in 0 .. Count
        BY <1>1 DEF Post, FinishedReset, PoolTypeOK, LifeInv, Calls, Generations
      <3>2. result' \in [Blocks -> Calls]
        BY <1>1 DEF Post, Resized, PoolTypeOK, Calls
      <3>3. asleep' \subseteq Workers \union Callers
        BY <1>1 DEF Post, WakeWorkers, PoolTypeOK
      <3> QED BY <1>1, <3>1, <3>2, <3>3 DEF Post, PoolTypeOK
    <2>2. LifeInv'
      BY <1>1 DEF Post, PoolTypeOK, LifeInv, Calls, Generations
    <2>3. Done' = {}
      <3>1. \A w \in Workers : observed[w] # generation + 1
        BY DEF RoundInv, PoolTypeOK, Generations
      <3> QED BY <1>1, <3>1 DEF Post, Done
    <2>4. CallInv'
      BY <1>1, <2>3, FS_EmptySet DEF Post, FinishedReset, PoolTypeOK, CallInv
    <2>5. RoundInv'
      <3>1. \A w \in Workers : at[w] # "decode"
        BY <1>1 DEF Post, RoundInv
      <3>2. caller'[c] = "wait" /\ UNCHANGED <<at, observed>> /\ generation' = generation + 1
        BY <1>1 DEF Post, PoolTypeOK
      <3> QED BY <3>1, <3>2 DEF RoundInv, PoolTypeOK, Generations
    <2> QED BY <2>1, <2>2, <2>4, <2>5
  <1>2. CASE DecodeAlone(c)
    <2>1. PoolTypeOK'
      <3>1. PICK n \in 1 .. MaxBlocks : \E k \in 0 .. n :
              /\ input' = input + 1 /\ blockCount' = n
              /\ result' = FirstDecoded(n, k)
        BY <1>2 DEF DecodeAlone
      <3>2. input' \in Calls /\ blockCount' \in 0 .. MaxBlocks
        BY <1>2, <3>1 DEF DecodeAlone, PoolTypeOK, Calls
      <3>5. result' \in [Blocks -> Calls]
        BY <3>1, <3>2 DEF FirstDecoded, Resized, PoolTypeOK, Calls
      <3>6. broken' \subseteq Calls
        BY <1>2, <3>1, <3>2 DEF DecodeAlone, PoolTypeOK
      <3>3. [call |-> input + 1, failed |-> TRUE, from |-> {}] \in Outcomes
        BY <3>1, <3>2 DEF Outcomes
      <3>4. outcomes' \in Seq(Outcomes)
        <4>1. outcomes \in Seq(Outcomes)
          BY DEF PoolTypeOK
        <4>2. \/ outcomes' = outcomes
              \/ outcomes' = Append(outcomes, [call |-> input + 1, failed |-> TRUE, from |-> {}])
          BY <1>2 DEF DecodeAlone
        <4> QED BY <3>3, <4>1, <4>2
      <3> QED BY <1>2, <3>2, <3>4, <3>5, <3>6 DEF DecodeAlone, PoolTypeOK
    <2>2. LifeInv'
      BY <1>2 DEF DecodeAlone, PoolTypeOK, LifeInv, Calls, Generations
    <2>3. CallInv'
      BY <1>2 DEF DecodeAlone, PoolTypeOK, CallInv, LifeInv
    <2>4. RoundInv'
      BY <1>2 DEF DecodeAlone, PoolTypeOK, RoundInv, CallInv
    <2> QED BY <2>1, <2>2, <2>3, <2>4
  <1>3. CASE AwaitDone(c)
    <2>1. PoolTypeOK'
      <3>1. [call |-> input, failed |-> TRUE, from |-> {}] \in Outcomes
        BY DEF PoolTypeOK, Outcomes
      <3>2. outcomes' \in Seq(Outcomes)
        <4>1. outcomes \in Seq(Outcomes)
          BY DEF PoolTypeOK
        <4> QED BY <1>3, <3>1, <4>1 DEF AwaitDone
      <3> QED BY <1>3, <3>2 DEF AwaitDone, PoolTypeOK
    <2>2. LifeInv'
      BY <1>3 DEF AwaitDone, LifeInv
    <2>3. CallInv'
      <3>1. \A d \in Callers : caller'[d] # "idle" => caller[d] # "idle"
        BY <1>3 DEF AwaitDone, PoolTypeOK
      <3>2. \A d \in Callers : caller'[d] = "wait" => caller[d] = "wait"
        BY <1>3 DEF AwaitDone, PoolTypeOK
      <3>3. Done' = Done /\ UNCHANGED <<mode, life, finished>>
        BY <1>3 DEF AwaitDone, Done
      <3> QED BY <3>1, <3>2, <3>3 DEF CallInv
    <2>4. RoundInv'
      <3>1. CASE UNCHANGED caller
        BY <1>3, <3>1 DEF AwaitDone, RoundInv
      <3>2. CASE finished = spawned
        <4>1. Done = Workers
          BY <1>3, <3>2, DoneCounts DEF AwaitDone, CallInv, LifeInv
        <4>2. \A w \in Workers : at[w] = "wait" /\ observed[w] = generation
          BY <4>1 DEF Done
        <4> QED BY <1>3, <4>2 DEF AwaitDone, RoundInv
      <3> QED BY <1>3, <3>1, <3>2 DEF AwaitDone
    <2> QED BY <2>1, <2>2, <2>3, <2>4
  <1>4. CASE CopyResult(c)
    <2>1. PoolTypeOK'
      <3> DEFINE o == [call |-> input, failed |-> FALSE,
                       from |-> {result[b] : b \in 0 .. blockCount - 1}]
      <3>1. o \in Outcomes
        BY DEF PoolTypeOK, Outcomes, Blocks
      <3>2. outcomes' \in Seq(Outcomes)
        <4>1. outcomes \in Seq(Outcomes)
          BY DEF PoolTypeOK
        <4> QED BY <1>4, <3>1, <4>1 DEF CopyResult
      <3> QED BY <1>4, <3>2 DEF CopyResult, PoolTypeOK
    <2>2. LifeInv'
      BY <1>4 DEF CopyResult, LifeInv
    <2>3. CallInv'
      BY <1>4 DEF CopyResult, PoolTypeOK, CallInv, Done
    <2>4. RoundInv'
      BY <1>4 DEF CopyResult, PoolTypeOK, RoundInv, CallInv
    <2> QED BY <2>1, <2>2, <2>3, <2>4
  <1> QED BY <1>1, <1>2, <1>3, <1>4 DEF Calling

\* A worker enters a call only while it is waited for, and is counted once.
LEMMA WorkerStep ==
  ASSUME PoolInv, NEW w \in Workers, Working(w)
  PROVE  PoolInv'
  <1> USE DEF PoolInv
  <1>1. CASE AwaitStart(w)
    <2>1. PoolTypeOK'
      <3>1. w \in 0 .. MaxBlocks + Count
        BY DEF Workers
      <3>2. at' \in [Workers -> {"none", "wait", "decode", "exited"}]
        BY <1>1 DEF AwaitStart, PoolTypeOK
      <3>3. observed' \in [Workers -> Generations]
        BY <1>1 DEF AwaitStart, PoolTypeOK
      <3>4. block' \in [Workers -> 0 .. MaxBlocks + Count]
        BY <1>1, <3>1 DEF AwaitStart, PoolTypeOK
      <3> QED BY <1>1, <3>2, <3>3, <3>4 DEF AwaitStart, PoolTypeOK
    <2>2. LifeInv'
      BY <1>1 DEF AwaitStart, PoolTypeOK, LifeInv
    <2>3. \A c \in Callers : caller[c] = "wait" => Done' = Done
      BY <1>1 DEF AwaitStart, Done, PoolTypeOK, CallInv, LifeInv
    <2>4. CallInv'
      BY <1>1, <2>3 DEF AwaitStart, PoolTypeOK, CallInv
    <2>5. RoundInv'
      <3>1. CASE UNCHANGED observed
        BY <1>1, <3>1 DEF AwaitStart, PoolTypeOK, RoundInv, Generations
      <3>2. CASE /\ ~stopping /\ generation # observed[w]
                 /\ observed' = [observed EXCEPT ![w] = generation]
        BY <1>1, <3>2 DEF AwaitStart, PoolTypeOK, RoundInv, Generations
      <3> QED BY <1>1, <3>1, <3>2 DEF AwaitStart
    <2> QED BY <2>1, <2>2, <2>4, <2>5
  <1>2. CASE DecodeBlock(w)
    <2>1. PoolTypeOK'
      <3>1. block' \in [Workers -> 0 .. MaxBlocks + Count]
        BY <1>2 DEF DecodeBlock, NextBlock, PoolTypeOK
      <3>2. result' \in [Blocks -> Calls] /\ failure' \in Calls /\ broken' \subseteq Calls
        BY <1>2 DEF DecodeBlock, PoolTypeOK
      <3> QED BY <1>2, <3>1, <3>2 DEF DecodeBlock, PoolTypeOK
    <2>2. LifeInv'
      BY <1>2 DEF DecodeBlock, PoolTypeOK, LifeInv
    <2>3. Done' = Done
      BY <1>2 DEF DecodeBlock, Done, PoolTypeOK
    <2>4. CallInv'
      BY <1>2, <2>3 DEF DecodeBlock, PoolTypeOK, CallInv
    <2>5. RoundInv'
      BY <1>2 DEF DecodeBlock, PoolTypeOK, RoundInv
    <2> QED BY <2>1, <2>2, <2>4, <2>5
  <1>3. CASE FinishShare(w)
    <2>1. w \notin Done /\ Done' = Done \cup {w}
      BY <1>3 DEF FinishShare, Done, PoolTypeOK, RoundInv
    <2>2. PICK c \in Callers : caller[c] = "wait"
      BY <1>3 DEF FinishShare, RoundInv
    <2>3. finished = Cardinality(Done) /\ finished < Count
      BY <2>1, <2>2, DoneCounts DEF CallInv
    <2>4. Cardinality(Done') = finished + 1
      BY <2>1, <2>3, DoneCounts, FS_AddElement
    <2>5. PoolTypeOK'
      BY <1>3, <2>3 DEF FinishShare, PoolTypeOK
    <2>6. LifeInv'
      BY <1>3 DEF FinishShare, PoolTypeOK, LifeInv
    <2>7. CallInv'
      BY <1>3, <2>4 DEF FinishShare, PoolTypeOK, CallInv
    <2>8. RoundInv'
      BY <1>3 DEF FinishShare, PoolTypeOK, RoundInv
    <2> QED BY <2>5, <2>6, <2>7, <2>8
  <1> QED BY <1>1, <1>2, <1>3 DEF Working

\* The inductive invariant of the pool: types, life of the threads, one call
\* at a time and the count of workers past the generation barrier.
THEOREM PoolInvariant == PoolSpec => []PoolInv
  <1>1. PoolInv /\ [PoolNext]_poolVars => PoolInv'
    <2> SUFFICES ASSUME PoolInv, [PoolNext]_poolVars PROVE PoolInv'
      OBVIOUS
    <2>1. CASE Constructing \/ Destroy
      BY <2>1, LifeStep
    <2>2. CASE \E c \in Callers : Post(c) \/ DecodeAlone(c) \/ Calling(c)
      BY <2>2, CallStep
    <2>3. CASE \E w \in Workers : Working(w)
      BY <2>3, WorkerStep
    <2>4. CASE UNCHANGED poolVars
      <3>1. PoolTypeOK'
        BY <2>4 DEF poolVars, PoolInv, PoolTypeOK
      <3>2. LifeInv'
        BY <2>4 DEF poolVars, PoolInv, LifeInv
      <3>3. CallInv'
        BY <2>4 DEF poolVars, PoolInv, CallInv, Done
      <3>4. RoundInv'
        BY <2>4 DEF poolVars, PoolInv, RoundInv
      <3> QED BY <3>1, <3>2, <3>3, <3>4 DEF PoolInv
    <2> QED BY <2>1, <2>2, <2>3, <2>4 DEF PoolNext
  <1> QED BY PoolStarts, <1>1, PTL DEF PoolSpec

\* A worker reads the input and writes the results only inside the call that
\* lent them, before all have finished, and never in a pool being destroyed.
THEOREM PoolWorkersQuiet == PoolSpec => []WorkersQuietBetweenCalls
  <1>1. PoolInv => WorkersQuietBetweenCalls
    <2> SUFFICES ASSUME PoolInv, NEW w \in Workers, at[w] = "decode"
                 PROVE  /\ \E c \in Callers : caller[c] = "wait"
                        /\ observed[w] = generation
                        /\ finished < Count /\ ~stopping
      BY DEF WorkersQuietBetweenCalls
    <2>1. PICK c \in Callers : caller[c] = "wait"
      BY DEF PoolInv, RoundInv
    <2>2. w \notin Done
      BY DEF Done
    <2>3. finished < Count
      BY <2>1, <2>2, DoneCounts DEF PoolInv, CallInv
    <2>4. ~stopping
      BY <2>1 DEF PoolInv, CallInv, LifeInv
    <2> QED BY <2>1, <2>3, <2>4 DEF PoolInv, RoundInv
  <1> QED BY PoolInvariant, <1>1, PTL
=============================================================================
