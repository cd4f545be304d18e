------------------------- MODULE BsReceivers_proofs -------------------------
(***************************************************************************)
(* The receivers of the base station follow its transmitter, for frames of *)
(* any length, any queues and batches, any alignments and distances and    *)
(* any number of losses and restarts.                                      *)
(***************************************************************************)
EXTENDS MCBsReceivers, Seqlock, TLAPS

-----------------------------------------------------------------------------
(* The invariant *)

\* What the transmit thread knows: the time of a frame goes with its number.
TxInv ==
  /\ now \in Nat
  /\ nextSeq \in Nat
  /\ nextTicks = SlotTime(nextSeq)
  /\ txpc \in {"loop", "timeError", "send", "uplink", "uplinkFlag", "sensing",
              "sensingPending", "sensingFlag"}
  /\ after \in {"loop", "timeError", "send"}

\* The last generation the sensing thread has been told to begin anew for.
Told == IF txpc = "sensingPending" THEN generation - 1 ELSE generation

\* A received frame in hand is of the time of its number.
Fits(x) == x.timed => Size(x.off) <= HalfFrame + IF x.early THEN FrameLen ELSE 0
RxItems == [seq : Int, gen : Nat, off : Int, timed : BOOLEAN, early : BOOLEAN]
Fitting == {x \in RxItems : Fits(x)}
TxItems(last) == [seq : Int, gen : 0 .. last]

\* The paired queue and what the sensing thread holds of it.  Nothing of a
\* generation is sent before the sensing thread has been told of it.
PairInv ==
  /\ generation \in Nat /\ Told \in Nat
  /\ rxq \in Seq(Fitting) /\ Len(rxq) <= PairCap
  /\ txq \in Seq(TxItems(Told))
  /\ resetAt \in Int
  /\ sensing \in [pc : {"top", "rx", "tx", "gather"}, gen : Nat,
                  rx : Fitting \union {NoItem}, tx : TxItems(Told), reset : Int]
  /\ sensing.pc \in {"tx", "gather"} =>
       sensing.rx \in Fitting /\ sensing.rx.gen = sensing.gen
  /\ sensing.pc = "gather" => sensing.tx.gen = sensing.gen

\* The batch: as long as no new one has been asked for, what is gathered is of
\* the generation the thread was last told of.
BatchInv ==
  /\ computeReset \in BOOLEAN
  /\ batch \in Seq(Nat)
  /\ ~computeReset /\ sensing.pc # "top" => sensing.gen >= Told
  /\ ~computeReset /\ Len(batch) >= 2 => batch[Len(batch)] = Told
  /\ OnlyFirstIsOlder

\* The stream of the receive thread and where its frames may begin.
Streams ==
  [pc : {"loop", "take", "push", "pushMoved"}, state : {"ALIGNMENT", "NORMAL"},
   discard : -HalfFrame .. HalfFrame, base : Nat, start : Nat, pos : Nat, frame : Int]

StreamTyped ==
  /\ restart \in [flag : BOOLEAN, time : Nat, seq : Nat]
  /\ restart.time > 0 => restart.time = SlotTime(restart.seq)
  /\ target \in Targets
  /\ calm \in 0 .. Settling
  /\ srx \in Streams
  /\ srx.start > 0 => srx.start = SlotTime(srx.base)

Pushing(r) == r.pc \in {"push", "pushMoved"}

\* How far the stream has come: half a frame at least with every frame.
Reached(r, n) ==
  IF Pushing(r)
  THEN /\ r.pos = r.frame + FrameLen
       /\ r.frame >= r.start - HalfFrame
       /\ n >= 1 => r.frame >= r.start
       /\ n >= 2 => r.frame >= r.start + FrameLen - HalfFrame
  ELSE /\ r.pos >= r.start
       /\ n >= 1 => r.pos >= r.start + FrameLen - HalfFrame
       /\ n >= 2 => r.pos >= r.start + FrameLen

\* A place where the operator wants a frame to begin.
Wanted(r, goal, t) == \E k \in Int : t = r.start + goal + FrameLen * k

\* A correction takes a frame to be found and a frame to take effect.
Settled(r, goal, n) ==
  /\ r.pc = "loop" /\ r.state = "ALIGNMENT" /\ n >= 2 => Wanted(r, goal, r.pos + r.discard)
  /\ r.pc = "loop" /\ r.state = "NORMAL" /\ n >= 3 => Wanted(r, goal, r.pos)
  /\ r.pc = "push" /\ r.state = "ALIGNMENT" /\ n >= 2 => Wanted(r, goal, r.frame)
  /\ r.pc = "push" /\ r.state = "NORMAL" /\ n >= 1 => Wanted(r, goal, r.frame)
  /\ r.pc = "pushMoved" => r.state = "ALIGNMENT" /\ n < 3
  /\ r.pc = "pushMoved" /\ n >= 1 => Wanted(r, goal, r.pos + r.discard)

StreamInv == StreamTyped /\ Reached(srx, calm) /\ Settled(srx, target, calm)

\* The stream of the ingest thread.
UlStreams ==
  [pc : {"begin", "loop", "slot", "take", "takeInSlot", "read", "spoilt"},
   start : Nat, pos : Nat, base : Nat, applied : 0 .. FrameLen - 1,
   pending : -HalfFrame .. HalfFrame, frame : Int]

UlTyped ==
  /\ order \in [flag : BOOLEAN, time : Nat, base : Nat]
  /\ order.time > 0 => order.time = SlotTime(order.base)
  /\ distance \in Int
  /\ stream \in Nat
  /\ quiet \in 0 .. Recovering
  /\ ul \in UlStreams
  /\ 2 * ul.pending > -FrameLen
  /\ IF ul.pc = "begin" THEN stream = 0 /\ quiet = 0
     ELSE stream > 0 /\ ul.pos >= ul.start + ul.applied
  /\ IF stream > 1 THEN ul.start > 0 => ul.start = SlotTime(ul.base)
     ELSE ul.start = Start * FrameLen

\* Within the jitter of a boundary.
Near(u, t) ==
  \E k \in Int : t - u.start - u.applied - FrameLen * k \in -Tolerance .. Tolerance

UlInv ==
  /\ UlTyped
  /\ quiet >= 1 /\ ul.pc \in {"loop", "slot", "read"} => Near(ul, ul.pos + ul.pending)
  /\ quiet >= 2 => Near(ul, ul.frame)

StationInv == TxInv /\ PairInv /\ BatchInv /\ StreamInv /\ UlInv

-----------------------------------------------------------------------------
(* Frames and parts of them *)

LEMMA Constants ==
  /\ FrameLen \in Nat \ {0} /\ HalfFrame \in Nat
  /\ 2 * HalfFrame <= FrameLen /\ FrameLen <= 2 * HalfFrame + 1
  /\ Start \in Nat \ {0} /\ RestartLead \in Nat \ {0}
  /\ PairCap \in Nat \ {0} /\ BatchLen \in Nat \ {0} /\ ResetLead \in Nat
  /\ Targets \subseteq -FrameLen .. FrameLen /\ 0 \in Targets
  /\ Distances \subseteq Int /\ Losses \subseteq Nat
BY TransmitterAssumption, SensingAssumption, UplinkRxAssumption, ReceiversAssumption
   DEF HalfFrame

\* The larger and the smaller of two numbers.
LEMMA MaxOfTwo ==
  ASSUME NEW a \in Int, NEW b \in Int
  PROVE  Max({a, b}) = IF a <= b THEN b ELSE a
<1> DEFINE m == IF a <= b THEN b ELSE a
<1>1. m \in {a, b} /\ \A y \in {a, b} : y <= m
  OBVIOUS
<1>2. \A x \in {a, b} : (\A y \in {a, b} : y <= x) => x = m
  OBVIOUS
<1> QED BY <1>1, <1>2 DEF Max

LEMMA MinOfTwo ==
  ASSUME NEW a \in Int, NEW b \in Int
  PROVE  Min({a, b}) = IF a <= b THEN a ELSE b
<1> DEFINE m == IF a <= b THEN a ELSE b
<1>1. m \in {a, b} /\ \A y \in {a, b} : m <= y
  OBVIOUS
<1>2. \A x \in {a, b} : (\A y \in {a, b} : x <= y) => x = m
  OBVIOUS
<1> QED BY <1>1, <1>2 DEF Min

\* A number and the frames in it.
LEMMA Division ==
  ASSUME NEW n \in Int
  PROVE  /\ n \div FrameLen \in Int /\ n % FrameLen \in 0 .. FrameLen - 1
         /\ n = FrameLen * (n \div FrameLen) + (n % FrameLen)
<1> FrameLen \in Nat \ {0}
  BY Constants
<1> DEFINE q == n \div FrameLen
           r == n % FrameLen
<1>1. n = FrameLen * q + r /\ q \in Int /\ r \in 0 .. (FrameLen - 1)
  OBVIOUS
<1> HIDE DEF q, r
<1>2. /\ q \in Int /\ r \in 0 .. FrameLen - 1
      /\ n = FrameLen * q + r
  BY <1>1
<1> QED BY <1>2 DEF q, r

\* Of the numbers that differ by whole frames only one is within a frame.
LEMMA OneInAFrame ==
  ASSUME NEW a \in Int, NEW b \in Int, NEW k \in Int, a = b + FrameLen * k,
         -FrameLen < a - b, a - b < FrameLen
  PROVE  a = b /\ k = 0
<1> USE Constants
<1>1. k >= 1 => FrameLen * k >= FrameLen
  OBVIOUS
<1>2. k <= -1 => FrameLen * k <= -FrameLen
  OBVIOUS
<1>3. k = 0
  BY <1>1, <1>2
<1> QED BY <1>3

\* A product and a remainder that are not negative.
LEMMA QuotientIsPositive ==
  ASSUME NEW q \in Int, NEW r \in 0 .. FrameLen - 1, FrameLen * q + r >= 0
  PROVE  q >= 0
<1> USE Constants
<1>1. q <= -1 => FrameLen * q <= -FrameLen
  OBVIOUS
<1> QED BY <1>1

\* What is left of whole frames is at most half a frame either way.
LEMMA ResidueIsLess ==
  ASSUME NEW n \in Int
  PROVE  /\ Residue(n) \in -HalfFrame .. HalfFrame
         /\ \E k \in Int : Residue(n) = n + FrameLen * k
<1> USE Constants
<1> DEFINE r == IF n >= 0 THEN n % FrameLen ELSE -((-n) % FrameLen)
<1>1. r \in -(FrameLen - 1) .. FrameLen - 1 /\ \E k \in Int : r = n + FrameLen * k
  <2>1. CASE n >= 0
    <3> DEFINE d == n \div FrameLen
               e == n % FrameLen
    <3>1. d \in Int /\ e \in 0 .. FrameLen - 1 /\ n = FrameLen * d + e /\ r = e
      BY <2>1, Division
    <3> HIDE DEF d, e, r
    <3>2. r = n + FrameLen * (-d) /\ -d \in Int
      BY <3>1
    <3> QED BY <3>1, <3>2
  <2>2. CASE n < 0
    <3> DEFINE m == -n
    <3>1. m \in Int /\ n = -m
      OBVIOUS
    <3> HIDE DEF m
    <3> DEFINE d == m \div FrameLen
               e == m % FrameLen
    <3>2. d \in Int /\ e \in 0 .. FrameLen - 1 /\ m = FrameLen * d + e
      BY <3>1, Division
    <3>3. r = -e
      BY <2>2 DEF m
    <3> HIDE DEF d, e, r
    <3>4. r = n + FrameLen * d
      BY <3>1, <3>2, <3>3
    <3>5. r \in -(FrameLen - 1) .. FrameLen - 1
      BY <3>2, <3>3
    <3>6. \E k \in Int : r = n + FrameLen * k
      BY <3>2, <3>4, Zenon
    <3> QED BY <3>5, <3>6
  <2> QED BY <2>1, <2>2
<1>2. Residue(n) = IF r > HalfFrame THEN r - FrameLen
                   ELSE IF r < -HalfFrame THEN r + FrameLen ELSE r
  BY DEF Residue, HalfFrame
<1> HIDE DEF r
<1>3. PICK k \in Int : r = n + FrameLen * k
  BY <1>1
<1>4. /\ r - FrameLen = n + FrameLen * (k - 1) /\ r + FrameLen = n + FrameLen * (k + 1)
      /\ k - 1 \in Int /\ k + 1 \in Int
  BY <1>1, <1>3
<1>5. \E j \in Int : Residue(n) = n + FrameLen * j
  BY <1>2, <1>3, <1>4
<1>6. Residue(n) \in -HalfFrame .. HalfFrame
  BY <1>1, <1>2
<1> QED BY <1>5, <1>6

\* Of whole frames nothing is left.
LEMMA ResidueOfFrames ==
  ASSUME NEW n \in Int, NEW k \in Int, n = FrameLen * k
  PROVE  Residue(n) = 0
<1> USE Constants
<1>1. PICK j \in Int : Residue(n) = n + FrameLen * j
  BY ResidueIsLess
<1>2. Residue(n) = 0 + FrameLen * (k + j) /\ k + j \in Int
  BY <1>1
<1>3. Residue(n) \in -HalfFrame .. HalfFrame
  BY ResidueIsLess
<1>4. HalfFrame < FrameLen
  OBVIOUS
<1> QED BY <1>2, <1>3, <1>4, OneInAFrame

\* The number of frames nearest to a number of samples.
LEMMA NearestFrame ==
  ASSUME NEW n \in Int
  PROVE  /\ Nearest(n, FrameLen) \in Int
         /\ n - FrameLen * Nearest(n, FrameLen) \in -HalfFrame .. HalfFrame
         /\ 2 * n > -FrameLen => Nearest(n, FrameLen) >= 0
         /\ Nearest(n, FrameLen) < 0 => 2 * n <= -FrameLen
         /\ Nearest(n, FrameLen) >= 0 => 2 * (n - FrameLen * Nearest(n, FrameLen)) < FrameLen
<1> USE Constants
<1> DEFINE q == Nearest(n, FrameLen)
<1>1. CASE n >= 0
  <2> DEFINE m == n + HalfFrame
  <2>0. m \in Int
    OBVIOUS
  <2> DEFINE d == m \div FrameLen
             r == m % FrameLen
  <2>1. q = d
    BY <1>1 DEF Nearest, HalfFrame
  <2>2. d \in Int /\ r \in 0 .. FrameLen - 1 /\ m = FrameLen * d + r
    <3> HIDE DEF m
    <3> QED BY <2>0, Division
  <2>3. d >= 0
    BY <1>1, <2>2, QuotientIsPositive
  <2> HIDE DEF d, r
  <2>4. n - FrameLen * d = r - HalfFrame
    BY <2>2
  <2>5. r - HalfFrame \in -HalfFrame .. HalfFrame /\ 2 * (r - HalfFrame) < FrameLen
    BY <2>2
  <2> HIDE DEF q
  <2> QED BY <1>1, <2>1, <2>2, <2>3, <2>4, <2>5 DEF q
<1>2. CASE n < 0
  <2> DEFINE m == -n + HalfFrame
  <2>0. m \in Int
    OBVIOUS
  <2> DEFINE d == m \div FrameLen
             r == m % FrameLen
  <2>1. q = -d
    BY <1>2 DEF Nearest, HalfFrame
  <2>2. d \in Int /\ r \in 0 .. FrameLen - 1 /\ m = FrameLen * d + r
    <3> HIDE DEF m
    <3> QED BY <2>0, Division
  <2> HIDE DEF d, r
  <2>3. n - FrameLen * (-d) = HalfFrame - r
    BY <2>2
  <2>4. HalfFrame - r \in -HalfFrame .. HalfFrame
    BY <2>2
  <2>5. d >= 1 => FrameLen * d >= FrameLen
    BY <2>2
  <2>6. 2 * n > -FrameLen => d <= 0
    BY <2>2, <2>5
  <2> HIDE DEF q
  <2>7. q < 0 => 2 * n <= -FrameLen
    BY <2>1, <2>2, <2>6
  <2>8. ASSUME q >= 0 PROVE 2 * (n - FrameLen * q) < FrameLen
    <3>1. FrameLen * q >= 0
      BY <2>1, <2>2, <2>8
    <3> QED BY <1>2, <2>1, <2>2, <3>1
  <2> QED BY <1>2, <2>1, <2>2, <2>3, <2>4, <2>6, <2>7, <2>8 DEF q
<1> QED BY <1>1, <1>2

\* Whole frames are that many frames.
LEMMA NearestOfFrames ==
  ASSUME NEW n \in Int, NEW k \in Int, n = FrameLen * k
  PROVE  Nearest(n, FrameLen) = k
<1> USE Constants
<1> DEFINE q == Nearest(n, FrameLen)
<1>1. q \in Int /\ n - FrameLen * q \in -HalfFrame .. HalfFrame
  BY NearestFrame
<1> HIDE DEF q
<1>2. n - FrameLen * q = 0 + FrameLen * (k - q) /\ k - q \in Int
  BY <1>1
<1>3. n - FrameLen * q \in Int /\ HalfFrame < FrameLen
  BY <1>1
<1>4. k - q = 0
  BY <1>1, <1>2, <1>3, OneInAFrame
<1> QED BY <1>1, <1>4 DEF q

\* A residue is the least of the numbers that differ by whole frames.
LEMMA ResidueIsLeast ==
  ASSUME NEW n \in Int, NEW k \in Int, NEW m \in Nat,
         n + FrameLen * k \in -m .. m
  PROVE  Residue(n) \in -m .. m
<1> USE Constants
<1> DEFINE r == Residue(n)
           s == n + FrameLen * k
<1>1. r \in -HalfFrame .. HalfFrame
  BY ResidueIsLess
<1>2. PICK j \in Int : r = n + FrameLen * j
  BY ResidueIsLess
<1>3. s = r + FrameLen * (k - j) /\ k - j \in Int /\ s \in Int /\ r \in Int
  BY <1>2, <1>1
<1> HIDE DEF r, s
<1>4. CASE -FrameLen < s - r /\ s - r < FrameLen
  BY <1>3, <1>4, OneInAFrame DEF r, s
<1>5. CASE s - r >= FrameLen
  BY <1>1, <1>3, <1>5 DEF r, s
<1>6. CASE s - r <= -FrameLen
  BY <1>1, <1>3, <1>6 DEF r, s
<1> QED BY <1>3, <1>4, <1>5, <1>6

\* Half a frame or less is its own residue.
LEMMA ResidueOfLess ==
  ASSUME NEW n \in -HalfFrame .. HalfFrame
  PROVE  Residue(n) = n
<1> USE Constants
<1>1. ASSUME NEW m \in 0 .. HalfFrame PROVE m % FrameLen = m
  <2> DEFINE q == m \div FrameLen
             r == m % FrameLen
  <2>1. q \in Int /\ r \in 0 .. FrameLen - 1 /\ m = FrameLen * q + r
    BY Division
  <2> HIDE DEF q, r
  <2>2. m = r + FrameLen * q /\ HalfFrame < FrameLen
    BY <2>1
  <2>3. m = r
    BY <2>1, <2>2, OneInAFrame
  <2> QED BY <2>3 DEF r
<1>2. CASE n >= 0
  <2>1. n % FrameLen = n
    BY <1>1, <1>2
  <2> QED BY <1>2, <2>1 DEF Residue, HalfFrame
<1>3. CASE n < 0
  <2>1. (-n) % FrameLen = -n
    BY <1>1, <1>3
  <2> QED BY <1>3, <2>1 DEF Residue, HalfFrame
<1> QED BY <1>2, <1>3

\* Where a stream may begin is not before its time.
LEMMA BeginsInTime ==
  ASSUME now \in Nat, NEW t \in Nat, NEW p \in StreamBegins(t)
  PROVE  p \in Nat /\ p >= t
<1> USE Constants
<1> DEFINE c == now * FrameLen
<1>1. c \in Nat
  OBVIOUS
<1> HIDE DEF c
<1>2. p \in IF t > c THEN {t} ELSE c .. c + FrameLen - 1
  BY DEF StreamBegins, c
<1> QED BY <1>1, <1>2

\* The time of a frame that comes so many frames later.
LEMMA LaterSlot ==
  ASSUME NEW n \in Int, NEW k \in Int
  PROVE  /\ SlotTime(n + k) = SlotTime(n) + FrameLen * k
         /\ SlotTime(n) \in Int
         /\ n \in Nat => SlotTime(n) \in Nat \ {0}
BY Constants DEF SlotTime

-----------------------------------------------------------------------------
(* The transmit thread *)

\* Whole slots are skipped.
LEMMA SkippedTyped ==
  ASSUME TxInv
  PROVE  Skipped \in Nat
<1> USE Constants
<1> DEFINE late == (now + RestartLead) * FrameLen - nextTicks
           m == late + FrameLen - 1
<1>1. late \in Int
  BY LaterSlot DEF TxInv
<1>2. Skipped = IF late > 0 THEN m \div FrameLen ELSE 0
  BY DEF Skipped
<1> HIDE DEF late
<1>3. m \in Int
  BY <1>1
<1>4. CASE late > 0
  <2> DEFINE q == m \div FrameLen
             r == m % FrameLen
  <2>1. m >= 0
    BY <1>1, <1>4
  <2> HIDE DEF m
  <2>2. q \in Int /\ r \in 0 .. FrameLen - 1 /\ m = FrameLen * q + r
    BY <1>3, Division
  <2> HIDE DEF q, r
  <2>3. q >= 0
    BY <2>1, <2>2, QuotientIsPositive
  <2> QED BY <1>2, <1>4, <2>2, <2>3 DEF q
<1>5. CASE ~(late > 0)
  BY <1>2, <1>5
<1> QED BY <1>4, <1>5

\* Whatever is skipped, the time goes with the number.
LEMMA TxKept == TxInv /\ [Next]_vars => TxInv'
<1> SUFFICES ASSUME TxInv, [Next]_vars PROVE TxInv'
  OBVIOUS
<1> USE Constants
<1>1. now \in Nat /\ nextSeq \in Nat /\ nextTicks = SlotTime(nextSeq)
  BY DEF TxInv
<1>2. ASSUME UNCHANGED <<nextTicks, nextSeq>>, now' \in {now, now + 1},
             after' \in {after, "loop"},
             txpc' \in {txpc, after, "uplinkFlag", "sensing", "sensingPending", "sensingFlag"}
      PROVE  TxInv'
  BY <1>1, <1>2 DEF TxInv, SlotTime
<1>3. CASE UNCHANGED vars
  BY <1>2, <1>3 DEF vars, txVars
<1>4. CASE Tell
  BY <1>2, <1>4 DEF Tell, TellUplink, TellSensing, Absent, To
<1>5. CASE Send
  <2>1. nextTicks' = nextTicks + FrameLen /\ nextSeq' = nextSeq + 1 /\ now' = now
        /\ txpc' = "loop" /\ after' = after
    BY <1>5 DEF Send, TxSend
  <2>2. nextTicks' = SlotTime(nextSeq')
    BY <1>1, <2>1, LaterSlot
  <2> QED BY <1>1, <2>1, <2>2 DEF TxInv, SlotTime
<1>6. ASSUME NEW reason \in Reasons, RestartBurst(reason) PROVE TxInv'
  <2> DEFINE n == Skipped
  <2>1. n \in Nat
    BY SkippedTyped
  <2>2. nextTicks' = nextTicks + n * FrameLen /\ nextSeq' = nextSeq + n /\ now' = now
        /\ txpc' = "uplink" /\ after' \in {"timeError", "send"}
    BY <1>6 DEF RestartBurst
  <2> HIDE DEF n
  <2>3. nextTicks' = SlotTime(nextSeq')
    BY <1>1, <2>1, <2>2, LaterSlot
  <2>4. nextSeq' \in Nat
    BY <1>1, <2>1, <2>2
  <2> QED BY <1>1, <2>2, <2>3, <2>4 DEF TxInv, SlotTime
<1>7. CASE Radio
  BY <1>2, <1>7 DEF Radio, Tick
<1>8. CASE Lose \/ Operator
  BY <1>2, <1>8 DEF Lose, Operator
<1>9. CASE Channel \/ Uplink
  BY <1>2, <1>9 DEF Channel, Uplink, txVars
<1> QED BY <1>3, <1>4, <1>5, <1>6, <1>7, <1>8, <1>9 DEF Next, Transmit

-----------------------------------------------------------------------------
(* The paired queue and the batch *)

\* What is pushed joins the queue or is dropped.
LEMMA PushedTyped ==
  ASSUME NEW S, NEW queue \in Seq(S), NEW item \in S
  PROVE  /\ Pushed(queue, item) \in Seq(S)
         /\ Len(queue) <= PairCap => Len(Pushed(queue, item)) <= PairCap
BY Constants DEF Pushed

\* The number that received frames are given.
LEMMA FrameSeqTyped ==
  ASSUME srx \in Streams, target \in Int
  PROVE  FrameOffset \in Int /\ FrameSeq = srx.base + (IF FrameOffset >= 0 THEN FrameOffset ELSE 0)
         /\ FrameSeq \in Int
<1> USE Constants
<1> DEFINE n == srx.frame - srx.start - target
<1>1. n \in Int /\ srx.base \in Nat
  BY DEF Streams
<1> HIDE DEF n
<1>2. FrameOffset = Nearest(n, FrameLen)
  BY DEF FrameOffset, n
<1>3. FrameOffset \in Int
  BY <1>1, <1>2, NearestFrame
<1>4. Max({0, FrameOffset}) = IF 0 <= FrameOffset THEN FrameOffset ELSE 0
  BY <1>3, MaxOfTwo
<1> QED BY <1>1, <1>3, <1>4 DEF FrameSeq

\* A frame that is pushed is of the time its number stands for.
LEMMA NumberedInTime ==
  ASSUME StreamInv, Pushing(srx), generation \in Nat
  PROVE  [seq |-> FrameSeq, gen |-> generation, off |-> srx.frame - SlotTime(FrameSeq) - target,
          timed |-> srx.start > 0, early |-> FrameOffset < 0] \in Fitting
<1> USE Constants
<1> DEFINE n == srx.frame - srx.start - target
           q == FrameOffset
           num == FrameSeq
           off == srx.frame - SlotTime(num) - target
           x == [seq |-> num, gen |-> generation, off |-> off,
                 timed |-> srx.start > 0, early |-> q < 0]
<1>1. /\ srx \in Streams /\ target \in Int /\ target <= FrameLen
      /\ srx.start > 0 => srx.start = SlotTime(srx.base)
      /\ srx.frame >= srx.start - HalfFrame
      /\ srx.frame \in Int /\ srx.start \in Nat /\ srx.base \in Nat
  BY DEF StreamInv, StreamTyped, Reached, Streams
<1>2. q \in Int /\ num = srx.base + (IF q >= 0 THEN q ELSE 0) /\ num \in Int
  BY <1>1, FrameSeqTyped
<1>3. n \in Int /\ q = Nearest(n, FrameLen)
  BY <1>1 DEF FrameOffset
<1>4. n - FrameLen * q \in -HalfFrame .. HalfFrame /\ (q < 0 => 2 * n <= -FrameLen)
  <2> HIDE DEF n, q
  <2> QED BY <1>3, NearestFrame
<1> HIDE DEF q, num
<1>5. off \in Int
  BY <1>1, <1>2, LaterSlot
<1>6. ASSUME srx.start > 0
      PROVE  Size(off) <= HalfFrame + IF q < 0 THEN FrameLen ELSE 0
  <2>1. CASE q >= 0
    <3>1. SlotTime(num) = srx.start + FrameLen * q
      BY <1>1, <1>2, <1>6, <2>1, LaterSlot
    <3>2. off = n - FrameLen * q
      BY <1>1, <1>2, <3>1
    <3> HIDE DEF off, n
    <3> QED BY <1>2, <1>4, <1>5, <2>1, <3>2 DEF Size
  <2>2. CASE q < 0
    <3>1. SlotTime(num) = srx.start
      BY <1>1, <1>2, <1>6, <2>2
    <3>2. off = n
      BY <1>1, <1>2, <3>1
    <3>3. n >= -HalfFrame - FrameLen
      BY <1>1
    <3> HIDE DEF off, n
    <3> QED BY <1>2, <1>3, <1>4, <1>5, <2>2, <3>2, <3>3 DEF Size
  <2> QED BY <1>2, <2>1, <2>2
<1>7. x \in RxItems
  BY <1>2, <1>5 DEF RxItems
<1>8. Fits(x)
  <2> HIDE DEF off
  <2> QED BY <1>6 DEF Fits
<1> QED BY <1>7, <1>8 DEF Fitting, q, num

\* What the transmit thread tells the sensing thread, and when.
LEMMA ToldOf ==
  ASSUME UNCHANGED generation,
         txpc' # "sensingPending" <=> txpc # "sensingPending"
  PROVE  Told' = Told
BY DEF Told

\* The queue and what is held of it stay.
LEMMA PairSame ==
  ASSUME PairInv, BatchInv, UNCHANGED <<generation, rxq, txq, sensing, computeReset, batch>>,
         resetAt' \in Int,
         txpc' # "sensingPending" <=> txpc # "sensingPending"
  PROVE  PairInv' /\ BatchInv'
<1>1. Told' = Told
  BY ToldOf
<1> QED BY <1>1 DEF PairInv, BatchInv, OnlyFirstIsOlder

LEMMA NoItemTyped == \A n \in Nat : NoItem \in TxItems(n)
BY DEF NoItem, TxItems

\* What becomes of two frames, case by case.
LEMMA ComparedIs ==
  ASSUME NEW rx, NEW tx, rx.seq \in Int, tx.seq \in Int
  PROVE  /\ tx.gen # sensing.gen =>
              Compared(rx, tx) = [sensing EXCEPT !.pc = "top", !.tx = NoItem]
         /\ tx.gen = sensing.gen /\ rx.seq = tx.seq =>
              Compared(rx, tx) = [sensing EXCEPT !.pc = "gather", !.tx = tx]
         /\ tx.gen = sensing.gen /\ rx.seq < tx.seq =>
              Compared(rx, tx) = [sensing EXCEPT !.pc = "top", !.rx = NoItem, !.tx = tx]
         /\ tx.gen = sensing.gen /\ rx.seq > tx.seq =>
              Compared(rx, tx) = [sensing EXCEPT !.pc = "top", !.tx = NoItem]
<1> DEFINE stale == [sensing EXCEPT !.pc = "top", !.tx = NoItem]
           pair == [sensing EXCEPT !.pc = "gather", !.tx = tx]
           early == [sensing EXCEPT !.pc = "top", !.rx = NoItem, !.tx = tx]
<1>1. Compared(rx, tx) =
        CASE tx.gen # sensing.gen -> stale
          [] tx.gen = sensing.gen /\ rx.seq = tx.seq -> pair
          [] tx.gen = sensing.gen /\ rx.seq < tx.seq -> early
          [] tx.gen = sensing.gen /\ rx.seq > tx.seq -> stale
  BY DEF Compared
<1> HIDE DEF stale, pair, early
<1>2. /\ tx.gen # sensing.gen => Compared(rx, tx) = stale
      /\ tx.gen = sensing.gen /\ rx.seq = tx.seq => Compared(rx, tx) = pair
      /\ tx.gen = sensing.gen /\ rx.seq < tx.seq => Compared(rx, tx) = early
      /\ tx.gen = sensing.gen /\ rx.seq > tx.seq => Compared(rx, tx) = stale
  BY <1>1
<1> QED BY <1>2 DEF stale, pair, early

\* Each step of the sensing thread.
LEMMA SenseKeeps ==
  ASSUME PairInv, BatchInv, Sense, UNCHANGED txpc
  PROVE  PairInv' /\ BatchInv'
<1> USE NoItemTyped
<1>1. UNCHANGED generation /\ Told' = Told
  BY ToldOf DEF Sense, PairTop, PairRx, PairTx, Gather
<1> DEFINE sen(pc, gen, rx, tx, reset) ==
             [pc |-> pc, gen |-> gen, rx |-> rx, tx |-> tx, reset |-> reset]
<1>2. /\ generation \in Nat /\ Told \in Nat /\ rxq \in Seq(Fitting)
      /\ Len(rxq) <= PairCap /\ txq \in Seq(TxItems(Told))
      /\ sensing = sen(sensing.pc, sensing.gen, sensing.rx, sensing.tx, sensing.reset)
      /\ sensing.gen \in Nat /\ sensing.rx \in Fitting \union {NoItem}
      /\ sensing.tx \in TxItems(Told) /\ sensing.reset \in Int
      /\ Told <= generation /\ resetAt \in Int
  BY DEF PairInv, Told
<1>3. CASE PairTop
  <2>1. UNCHANGED <<generation, computeReset, rxq, txq, resetAt, batch>>
    BY <1>3 DEF PairTop
  <2>2. \/ /\ sensing.rx \in Fitting /\ sensing.rx.gen = generation
           /\ sensing' = sen("tx", generation, sensing.rx, sensing.tx, sensing.reset)
        \/ sensing' = sen("rx", generation, NoItem, sensing.tx, sensing.reset)
    BY <1>2, <1>3 DEF PairTop
  <2>3. PairInv'
    BY <1>1, <1>2, <2>1, <2>2 DEF PairInv
  <2>4. BatchInv'
    BY <1>1, <1>2, <2>1, <2>2 DEF BatchInv, OnlyFirstIsOlder
  <2> QED BY <2>3, <2>4
<1>4. CASE PairRx
  <2>1. /\ UNCHANGED <<generation, computeReset, txq, resetAt, batch>>
        /\ rxq # <<>> /\ rxq' = Tail(rxq)
    BY <1>4 DEF PairRx
  <2>2. Head(rxq) \in Fitting /\ rxq' \in Seq(Fitting) /\ Len(rxq') <= PairCap
    <3>1. rxq \in Seq(Fitting) /\ Len(rxq) <= PairCap /\ PairCap \in Nat
      BY <1>2, Constants
    <3> QED BY <2>1, <3>1
  <2>3. \/ /\ Head(rxq).gen = sensing.gen
           /\ sensing' = sen("tx", sensing.gen, Head(rxq), sensing.tx, sensing.reset)
        \/ sensing' = sen("top", sensing.gen, sensing.rx, sensing.tx, sensing.reset)
    BY <1>2, <1>4 DEF PairRx
  <2>4. sensing.pc = "rx"
    BY <1>4 DEF PairRx
  <2>5. PairInv'
    BY <1>1, <1>2, <2>1, <2>2, <2>3 DEF PairInv
  <2>6. BatchInv'
    BY <1>1, <1>2, <2>1, <2>3, <2>4 DEF BatchInv, OnlyFirstIsOlder
  <2> QED BY <2>5, <2>6
<1>5. CASE PairTx
  <2>1. UNCHANGED <<generation, computeReset, rxq, resetAt, batch>> /\ sensing.pc = "tx"
    BY <1>5 DEF PairTx
  <2>2. sensing.rx \in Fitting /\ sensing.rx.gen = sensing.gen
    BY <2>1 DEF PairInv
  <2>3. PICK tx \in TxItems(Told) : sensing' = Compared(sensing.rx, tx)
    BY <1>2, <1>5 DEF PairTx
  <2>4. txq' \in Seq(TxItems(Told))
    <3>1. CASE sensing.tx # NoItem
      BY <1>2, <1>5, <3>1 DEF PairTx
    <3>2. CASE sensing.tx = NoItem
      <4>1. txq # <<>> /\ txq' = Tail(txq)
        BY <1>5, <3>2 DEF PairTx
      <4>2. txq \in Seq(TxItems(Told))
        BY <1>2
      <4> QED BY <4>1, <4>2
    <3> QED BY <3>1, <3>2
  <2>5. tx.gen \in Nat /\ tx.seq \in Int /\ sensing.rx.seq \in Int
    BY <1>2, <2>2 DEF TxItems, Fitting, RxItems
  <2>6. \/ sensing' = sen("top", sensing.gen, sensing.rx, NoItem, sensing.reset)
        \/ /\ tx.gen = sensing.gen
           /\ sensing' = sen("gather", sensing.gen, sensing.rx, tx, sensing.reset)
        \/ sensing' = sen("top", sensing.gen, NoItem, tx, sensing.reset)
    <3>1. CASE \/ sensing' = [sensing EXCEPT !.pc = "top", !.tx = NoItem]
               \/ sensing' = [sensing EXCEPT !.pc = "top", !.rx = NoItem, !.tx = tx]
      BY <1>2, <3>1
    <3>2. CASE tx.gen = sensing.gen /\ sensing' = [sensing EXCEPT !.pc = "gather", !.tx = tx]
      BY <1>2, <3>2
    <3>3. /\ tx.gen # sensing.gen =>
                sensing' = [sensing EXCEPT !.pc = "top", !.tx = NoItem]
          /\ tx.gen = sensing.gen /\ sensing.rx.seq = tx.seq =>
                sensing' = [sensing EXCEPT !.pc = "gather", !.tx = tx]
          /\ tx.gen = sensing.gen /\ sensing.rx.seq < tx.seq =>
                sensing' = [sensing EXCEPT !.pc = "top", !.rx = NoItem, !.tx = tx]
          /\ tx.gen = sensing.gen /\ sensing.rx.seq > tx.seq =>
                sensing' = [sensing EXCEPT !.pc = "top", !.tx = NoItem]
      BY <2>3, <2>5, ComparedIs
    <3>4. \/ sensing.rx.seq = tx.seq \/ sensing.rx.seq < tx.seq \/ sensing.rx.seq > tx.seq
      BY <2>5
    <3> QED BY <3>1, <3>2, <3>3, <3>4
  <2>7. PairInv'
    BY <1>1, <1>2, <2>1, <2>2, <2>4, <2>6 DEF PairInv
  <2>8. BatchInv'
    BY <1>1, <1>2, <2>1, <2>6 DEF BatchInv, OnlyFirstIsOlder
  <2> QED BY <2>7, <2>8
<1>6. CASE Gather
  <2> DEFINE kept == IF computeReset \/ BatchResetDue \/ Len(batch) = BatchLen
                     THEN <<>> ELSE batch
             g == sensing.rx.gen
  <2>1. /\ UNCHANGED <<generation, rxq, txq, resetAt>> /\ sensing.pc = "gather"
        /\ computeReset' = FALSE /\ batch' = Append(kept, g)
    BY <1>6 DEF Gather
  <2>2. /\ sensing.rx \in Fitting /\ g = sensing.gen /\ sensing.tx.gen = sensing.gen
        /\ g \in Nat /\ g <= Told
    BY <1>2, <2>1 DEF PairInv, TxItems
  <2>3. PICK reset \in Int : sensing' = sen("top", sensing.gen, NoItem, NoItem, reset)
    BY <1>2, <1>6 DEF Gather
  <2>4. PairInv'
    BY <1>1, <1>2, <2>1, <2>2, <2>3 DEF PairInv
  <2>5. /\ computeReset \in BOOLEAN /\ batch \in Seq(Nat)
        /\ ~computeReset => g = Told
        /\ ~computeReset /\ Len(batch) >= 2 => batch[Len(batch)] = Told
        /\ \A i \in 2 .. Len(batch) : batch[i] = batch[Len(batch)]
    BY <1>2, <2>1, <2>2 DEF BatchInv, OnlyFirstIsOlder
  <2>6. /\ kept \in Seq(Nat)
        /\ Len(kept) >= 1 => g = Told
        /\ \A i \in 2 .. Len(kept) : kept[i] = Told
    BY <2>5
  <2> HIDE DEF kept, g
  <2>7. batch' \in Seq(Nat) /\ Len(batch') = Len(kept) + 1
        /\ batch'[Len(batch')] = g
        /\ \A i \in 1 .. Len(kept) : batch'[i] = kept[i]
    BY <2>1, <2>2, <2>6
  <2>8. \A i \in 2 .. Len(batch') : batch'[i] = batch'[Len(batch')]
    <3>1. Len(kept) \in Nat
      BY <2>6
    <3> TAKE i \in 2 .. Len(batch')
    <3>2. CASE i = Len(kept) + 1
      BY <2>7, <3>2
    <3>3. CASE i \in 2 .. Len(kept)
      BY <2>6, <2>7, <3>1, <3>3
    <3> QED BY <2>7, <3>1, <3>2, <3>3
  <2>9. Len(batch') >= 2 => batch'[Len(batch')] = Told'
    BY <1>1, <2>6, <2>7
  <2> QED BY <2>1, <2>3, <2>4, <2>7, <2>8, <2>9 DEF BatchInv, OnlyFirstIsOlder
<1> QED BY <1>3, <1>4, <1>5, <1>6 DEF Sense

\* A step of the receive thread of the channel.
LEMMA ReceiveKeepsPairs ==
  ASSUME TxInv, StreamInv, PairInv, BatchInv, Receive, UNCHANGED txpc
  PROVE  PairInv' /\ BatchInv'
<1>1. CASE RxTakeRestart \/ RxRestart \/ RxAligned
  BY <1>1, PairSame DEF RxTakeRestart, RxRestart, RxAligned, rxSide, PairInv
<1>2. CASE RxNormal
  <2>1. UNCHANGED <<generation, rxq, txq, sensing, computeReset, batch>>
    BY <1>2 DEF RxNormal
  <2>2. resetAt' \in Int
    <3>1. nextSeq + ResetLead \in Int /\ resetAt \in Int
      BY Constants DEF TxInv, PairInv
    <3>2. Max({resetAt, nextSeq + ResetLead}) \in Int
      BY <3>1, MaxOfTwo
    <3>3. resetAt' \in {resetAt, Max({resetAt, nextSeq + ResetLead})}
      BY <1>2 DEF RxNormal
    <3> QED BY <3>1, <3>2, <3>3
  <2> QED BY <2>1, <2>2, PairSame
<1>3. CASE RxPush
  <2> DEFINE x == [seq |-> FrameSeq, gen |-> generation,
                   off |-> srx.frame - SlotTime(FrameSeq) - target,
                   timed |-> srx.start > 0, early |-> FrameOffset < 0]
  <2>1. UNCHANGED <<generation, txq, resetAt, sensing, computeReset, batch>>
        /\ rxq' = Pushed(rxq, x)
    BY <1>3 DEF RxPush
  <2>2. x \in Fitting
    BY <1>3, NumberedInTime DEF PairInv, RxPush, Pushing
  <2> HIDE DEF x
  <2>3. rxq' \in Seq(Fitting) /\ Len(rxq') <= PairCap
    BY <2>1, <2>2, PushedTyped DEF PairInv
  <2>4. Told' = Told
    BY <2>1, ToldOf
  <2> QED BY <2>1, <2>3, <2>4 DEF PairInv, BatchInv, OnlyFirstIsOlder
<1> QED BY <1>1, <1>2, <1>3 DEF Receive

\* Nothing of a new generation is sent before the sensing thread is told.
LEMMA PairsKept ==
  TxInv /\ StreamInv /\ PairInv /\ BatchInv /\ [Next]_vars => PairInv' /\ BatchInv'
<1> SUFFICES ASSUME TxInv, StreamInv, PairInv, BatchInv, [Next]_vars
             PROVE  PairInv' /\ BatchInv'
  OBVIOUS
<1>1. ASSUME UNCHANGED <<generation, rxq, txq, resetAt, sensing, computeReset, batch>>,
             txpc' # "sensingPending" <=> txpc # "sensingPending"
      PROVE  PairInv' /\ BatchInv'
  BY <1>1, PairSame DEF PairInv
<1>2. CASE UNCHANGED vars
  BY <1>1, <1>2 DEF vars, txVars, senseVars
<1>3. CASE TellUplink /\ UNCHANGED senseVars
  BY <1>1, <1>3 DEF TellUplink, To, senseVars
<1>4. CASE Absent /\ UNCHANGED senseVars
  BY <1>1, <1>4 DEF Absent, To, senseVars, TxInv
<1>5. CASE txpc = "sensing" /\ SenseNewGeneration /\ To("sensingPending")
  <2>1. /\ UNCHANGED <<rxq, txq, resetAt, sensing, computeReset, batch>>
        /\ generation' = generation + 1 /\ txpc' = "sensingPending"
    BY <1>5 DEF SenseNewGeneration, To, rxSide
  <2>2. Told' = Told /\ generation' \in Nat
    BY <1>5, <2>1 DEF Told, PairInv
  <2> QED BY <2>1, <2>2 DEF PairInv, BatchInv, OnlyFirstIsOlder
<1>6. CASE txpc = "sensingPending" /\ SensePending /\ To("sensingFlag")
  <2>1. /\ UNCHANGED <<generation, rxq, txq, resetAt, sensing, batch>>
        /\ computeReset' = TRUE /\ txpc' = "sensingFlag"
    BY <1>6 DEF SensePending, To, rxSide
  <2>2. Told' = Told + 1 /\ Told \in Nat
    BY <1>6, <2>1 DEF Told, PairInv
  <2>3. TxItems(Told) \subseteq TxItems(Told')
    BY <2>2 DEF TxItems
  <2>4. txq' \in Seq(TxItems(Told'))
    BY <2>1, <2>3 DEF PairInv
  <2>5. sensing.tx \in TxItems(Told')
    BY <2>1, <2>3 DEF PairInv
  <2>6. sensing' \in [pc : {"top", "rx", "tx", "gather"}, gen : Nat,
                      rx : Fitting \union {NoItem}, tx : TxItems(Told'), reset : Int]
    BY <2>1, <2>5 DEF PairInv
  <2>7. PairInv'
    BY <2>1, <2>2, <2>4, <2>6 DEF PairInv
  <2> QED BY <2>1, <2>7 DEF BatchInv, OnlyFirstIsOlder
<1>7. CASE txpc = "sensingFlag" /\ SenseFlag /\ To(after)
  BY <1>1, <1>7 DEF SenseFlag, To, rxSide, TxInv
<1>8. CASE Send
  <2>1. CASE UNCHANGED senseVars
    BY <1>1, <1>8, <2>1 DEF Send, TxSend, senseVars
  <2>2. CASE EnqueueTxSymbols
    <3> DEFINE x == [seq |-> nextSeq, gen |-> generation]
    <3>1. /\ UNCHANGED <<generation, rxq, resetAt, sensing, computeReset, batch>>
          /\ txq' = Pushed(txq, x)
      BY <2>2 DEF EnqueueTxSymbols
    <3>2. Told' = Told /\ Told = generation
      BY <1>8, <3>1 DEF Send, TxSend, Told
    <3>3. x \in TxItems(Told)
      BY <3>2 DEF TxItems, TxInv, PairInv
    <3> HIDE DEF x
    <3>4. txq' \in Seq(TxItems(Told))
      BY <3>1, <3>3, PushedTyped DEF PairInv
    <3> QED BY <3>1, <3>2, <3>4 DEF PairInv, BatchInv, OnlyFirstIsOlder
  <2> QED BY <1>8, <2>1, <2>2 DEF Send
<1>9. CASE Transmit
  <2>1. CASE \E reason \in Reasons : RestartBurst(reason) /\ UNCHANGED senseVars
    BY <1>1, <2>1 DEF RestartBurst, Asked, senseVars
  <2> QED BY <1>3, <1>4, <1>5, <1>6, <1>7, <1>8, <1>9, <2>1 DEF Transmit, Tell, TellSensing
<1>10. CASE Radio
  BY <1>1, <1>10 DEF Radio, Tick, senseVars
<1>11. CASE Lose \/ Operator
  BY <1>1, <1>11 DEF Lose, Operator, RxLost, SetTarget, senseVars, rxSide
<1>12. CASE Channel
  BY <1>12, SenseKeeps, ReceiveKeepsPairs DEF Channel, txVars
<1>13. CASE Uplink
  BY <1>1, <1>13 DEF Uplink, txVars, senseVars
<1> QED BY <1>2, <1>9, <1>10, <1>11, <1>12, <1>13 DEF Next

-----------------------------------------------------------------------------
(* The stream of the channel *)

Stream(pc, state, discard, base, start, pos, frame) ==
  [pc |-> pc, state |-> state, discard |-> discard, base |-> base, start |-> start,
   pos |-> pos, frame |-> frame]

LEMMA StreamFields ==
  ASSUME srx \in Streams
  PROVE  /\ srx = Stream(srx.pc, srx.state, srx.discard, srx.base, srx.start, srx.pos, srx.frame)
         /\ srx.pc \in {"loop", "take", "push", "pushMoved"}
         /\ srx.state \in {"ALIGNMENT", "NORMAL"}
         /\ srx.discard \in -HalfFrame .. HalfFrame /\ srx.base \in Nat /\ srx.start \in Nat
         /\ srx.pos \in Nat /\ srx.frame \in Int
BY DEF Streams, Stream

\* Places that differ by whole frames are wanted or not alike.
LEMMA WantedFrameLater ==
  ASSUME NEW r, r.start \in Int, NEW goal \in Int, NEW t \in Int, NEW u \in Int, NEW k \in Int,
         Wanted(r, goal, t), u = t + FrameLen * k
  PROVE  Wanted(r, goal, u)
<1>1. PICK j \in Int : t = r.start + goal + FrameLen * j
  BY DEF Wanted
<1>2. u = r.start + goal + FrameLen * (j + k) /\ j + k \in Int
  BY <1>1, Constants
<1> QED BY <1>2 DEF Wanted

\* The correction of a frame takes the next one to a wanted place, and is none
\* exactly if the frame is at one.
LEMMA CorrectionRestores ==
  ASSUME StreamTyped
  PROVE  /\ Correction \in -HalfFrame .. HalfFrame
         /\ Correction = 0 => Wanted(srx, target, srx.pos)
         /\ Wanted(srx, target, srx.pos + FrameLen + Correction)
         /\ Wanted(srx, target, srx.pos) => Correction = 0
<1> USE Constants
<1> DEFINE e == srx.pos - srx.start
           near == Nearest(e, FrameLen)
           miss == e - near * FrameLen
           err == Residue(miss)
<1>1. srx.pos \in Nat /\ srx.start \in Nat /\ target \in Int
  BY StreamFields DEF StreamTyped
<1>2. e \in Int
  BY <1>1
<1>3. BoundaryError(srx.pos) = err
  BY DEF BoundaryError
<1>4. near \in Int
  <2> HIDE DEF e
  <2> QED BY <1>2, NearestFrame
<1> HIDE DEF near
<1>5. miss \in Int
  BY <1>2, <1>4
<1>6. PICK k1 \in Int : err = miss + FrameLen * k1
  <2> HIDE DEF miss
  <2> QED BY <1>5, ResidueIsLess
<1>7. err \in Int
  BY <1>5, <1>6
<1>8. Correction = Residue(target - err)
  BY <1>3 DEF Correction
<1> HIDE DEF err
<1> DEFINE d == target - err
<1>9. d \in Int
  BY <1>1, <1>7
<1>10. /\ Correction \in -HalfFrame .. HalfFrame
       /\ \E k \in Int : Correction = d + FrameLen * k
  <2> HIDE DEF d
  <2> QED BY <1>8, <1>9, ResidueIsLess DEF d
<1>11. PICK k2 \in Int : Correction = d + FrameLen * k2
  BY <1>10
<1>12. Correction = target - e + FrameLen * (near - k1 + k2) /\ near - k1 + k2 \in Int
  <2>1. miss = e - FrameLen * near
    BY <1>2, <1>4
  <2> HIDE DEF miss, e
  <2>2. err = e - FrameLen * near + FrameLen * k1
    BY <1>6, <2>1
  <2>3. Correction = target - (e - FrameLen * near + FrameLen * k1) + FrameLen * k2
    BY <1>11, <2>2
  <2>4. FrameLen * (near - k1 + k2) = FrameLen * near - FrameLen * k1 + FrameLen * k2
    BY <1>4
  <2> QED BY <1>1, <1>2, <1>4, <2>3, <2>4
<1> DEFINE k == near - k1 + k2
           c == Correction
<1> HIDE DEF k, c
<1>13. c = target - e + FrameLen * k /\ k \in Int /\ c \in Int
  BY <1>10, <1>12 DEF k, c
<1>14. c = 0 => srx.pos = srx.start + target + FrameLen * k
  BY <1>1, <1>13
<1>15. /\ srx.pos + FrameLen + c = srx.start + target + FrameLen * (k + 1) /\ k + 1 \in Int
  BY <1>1, <1>13
<1>16. ASSUME Wanted(srx, target, srx.pos) PROVE c = 0
  <2>1. PICK j \in Int : srx.pos = srx.start + target + FrameLen * j
    BY <1>16 DEF Wanted
  <2>2. c = FrameLen * (k - j) /\ k - j \in Int
    BY <1>1, <1>13, <2>1
  <2>3. d = FrameLen * (k - j - k2) /\ k - j - k2 \in Int
    BY <1>9, <1>11, <2>2 DEF c
  <2> HIDE DEF d
  <2> QED BY <1>8, <1>9, <2>3, ResidueOfFrames DEF c, d
<1> QED BY <1>10, <1>13, <1>14, <1>15, <1>16 DEF Wanted, c

\* What has to be shown of a new stream.
LEMMA NewStream ==
  ASSUME NEW r \in Streams, NEW goal \in Targets, NEW n \in 0 .. Settling,
         srx' = r, target' = goal, calm' = n,
         restart' \in [flag : BOOLEAN, time : Nat, seq : Nat],
         restart'.time > 0 => restart'.time = SlotTime(restart'.seq),
         r.start > 0 => r.start = SlotTime(r.base),
         Reached(r, n), Settled(r, goal, n)
  PROVE  StreamInv'
BY DEF StreamInv, StreamTyped, SlotTime

\* The receive thread takes a frame.
LEMMA FrameTaken ==
  ASSUME TxInv, StreamInv, RxAligned \/ RxNormal
  PROVE  StreamInv'
<1> USE Constants
<1>1. /\ srx = Stream(srx.pc, srx.state, srx.discard, srx.base, srx.start, srx.pos, srx.frame)
      /\ srx.state \in {"ALIGNMENT", "NORMAL"}
      /\ srx.discard \in -HalfFrame .. HalfFrame /\ srx.base \in Nat /\ srx.start \in Nat
      /\ srx.pos \in Nat /\ srx.frame \in Int
      /\ srx.pc = "loop" /\ UNCHANGED <<restart, target, calm>>
      /\ target \in Targets /\ target \in Int /\ calm \in 0 .. 3
  BY StreamFields DEF StreamInv, StreamTyped, RxAligned, RxNormal, Settling, rxSide
<1>2. /\ srx.pos >= srx.start
      /\ calm >= 1 => srx.pos >= srx.start + FrameLen - HalfFrame
      /\ calm >= 2 => srx.pos >= srx.start + FrameLen
  BY <1>1 DEF StreamInv, Reached, Pushing
<1>3. CASE RxAligned
  <2> DEFINE f == srx.pos + srx.discard
             r == Stream("push", "ALIGNMENT", srx.discard, srx.base, srx.start,
                         f + FrameLen, f)
  <2>1. srx' = r
    <3>1. srx.state = "ALIGNMENT" /\ Taken = FrameLen + srx.discard /\ FrameStart = f
      BY <1>3 DEF RxAligned, Taken, FrameStart
    <3>2. srx' = [srx EXCEPT !.pc = "push", !.pos = srx.pos + (FrameLen + srx.discard),
                             !.frame = f]
      BY <1>3, <3>1 DEF RxAligned
    <3>3. srx.pos + (FrameLen + srx.discard) = f + FrameLen
      BY <1>1
    <3> HIDE DEF f
    <3> QED BY <1>1, <3>1, <3>2, <3>3 DEF Stream
  <2>2. r \in Streams /\ r.start = srx.start /\ r.base = srx.base
    BY <1>1, <1>2 DEF Streams, Stream
  <2>3. Reached(r, calm)
    BY <1>1, <1>2 DEF Reached, Pushing, Stream
  <2>4. calm >= 2 => Wanted(srx, target, f)
    BY <1>1, <1>3 DEF StreamInv, Settled, RxAligned
  <2>5. Settled(r, target, calm)
    BY <2>4 DEF Settled, Stream, Wanted
  <2> HIDE DEF r
  <2> QED BY <1>1, <2>1, <2>2, <2>3, <2>5, NewStream DEF StreamInv, StreamTyped
<1>4. ASSUME RxNormal, Correction = 0 PROVE StreamInv'
  <2> DEFINE r == Stream("push", "NORMAL", srx.discard, srx.base, srx.start,
                         srx.pos + FrameLen, srx.pos)
  <2>1. srx' = r
    <3>1. srx.state = "NORMAL" /\ Taken = FrameLen /\ FrameStart = srx.pos
      BY <1>1, <1>4 DEF RxNormal, Taken, FrameStart
    <3>2. srx' = [srx EXCEPT !.pc = "push", !.pos = srx.pos + FrameLen, !.frame = srx.pos]
      BY <1>4, <3>1 DEF RxNormal
    <3> QED BY <1>1, <3>1, <3>2 DEF Stream
  <2>2. r \in Streams /\ r.start = srx.start /\ r.base = srx.base
    BY <1>1 DEF Streams, Stream
  <2>3. Reached(r, calm)
    BY <1>1, <1>2 DEF Reached, Pushing, Stream
  <2>4. Wanted(srx, target, srx.pos)
    BY <1>4, CorrectionRestores DEF StreamInv
  <2>5. Settled(r, target, calm)
    BY <2>4 DEF Settled, Stream, Wanted
  <2> HIDE DEF r
  <2> QED BY <1>1, <2>1, <2>2, <2>3, <2>5, NewStream DEF StreamInv, StreamTyped
<1>5. ASSUME RxNormal, Correction # 0 PROVE StreamInv'
  <2> DEFINE r == Stream("pushMoved", "ALIGNMENT", Correction, srx.base, srx.start,
                         srx.pos + FrameLen, srx.pos)
  <2>1. srx' = r
    <3>1. srx.state = "NORMAL" /\ Taken = FrameLen /\ FrameStart = srx.pos
      BY <1>1, <1>5 DEF RxNormal, Taken, FrameStart
    <3>2. srx' = [srx EXCEPT !.pc = "pushMoved", !.state = "ALIGNMENT",
                             !.discard = Correction,
                             !.pos = srx.pos + FrameLen, !.frame = srx.pos]
      BY <1>5, <3>1 DEF RxNormal
    <3> QED BY <1>1, <3>2 DEF Stream
  <2>2. Correction \in -HalfFrame .. HalfFrame
    BY CorrectionRestores DEF StreamInv
  <2>3. r \in Streams /\ r.start = srx.start /\ r.base = srx.base
    BY <1>1, <2>2 DEF Streams, Stream
  <2>4. Reached(r, calm)
    BY <1>1, <1>2 DEF Reached, Pushing, Stream
  <2>5. Wanted(srx, target, srx.pos + FrameLen + Correction)
    BY CorrectionRestores DEF StreamInv
  <2>6. calm < 3
    <3>1. srx.state = "NORMAL" /\ ~Wanted(srx, target, srx.pos)
      BY <1>5, CorrectionRestores DEF StreamInv, RxNormal
    <3> QED BY <1>1, <3>1 DEF StreamInv, Settled
  <2>7. Settled(r, target, calm)
    BY <2>5, <2>6 DEF Settled, Stream, Wanted
  <2> HIDE DEF r
  <2> QED BY <1>1, <2>1, <2>3, <2>4, <2>7, NewStream DEF StreamInv, StreamTyped
<1> QED BY <1>3, <1>4, <1>5

\* The receive thread pushes the frame it has taken.
LEMMA FramePushed ==
  ASSUME TxInv, PairInv, StreamInv, RxPush
  PROVE  StreamInv'
<1> USE Constants
<1>1. /\ srx = Stream(srx.pc, srx.state, srx.discard, srx.base, srx.start, srx.pos, srx.frame)
      /\ srx.state \in {"ALIGNMENT", "NORMAL"}
      /\ srx.discard \in -HalfFrame .. HalfFrame /\ srx.base \in Nat /\ srx.start \in Nat
      /\ srx.pos \in Nat /\ srx.frame \in Int
      /\ srx.pc \in {"push", "pushMoved"} /\ UNCHANGED <<restart, target>>
      /\ target \in Targets /\ target \in Int /\ calm \in 0 .. 3
  BY StreamFields DEF StreamInv, StreamTyped, RxPush, Settling
<1>2. /\ srx.pos = srx.frame + FrameLen
      /\ srx.frame >= srx.start - HalfFrame
      /\ calm >= 1 => srx.frame >= srx.start
      /\ calm >= 2 => srx.frame >= srx.start + FrameLen - HalfFrame
  BY <1>1 DEF StreamInv, Reached, Pushing
<1> DEFINE room == srx.pc = "push" /\ Len(rxq) < PairCap
           held == srx.state = "ALIGNMENT" /\ srx.pc = "push" /\ Len(rxq) = PairCap
           state == IF room THEN "NORMAL" ELSE srx.state
           n == IF held THEN 0 ELSE IF calm < 3 THEN calm + 1 ELSE 3
           r == Stream("loop", state, srx.discard, srx.base, srx.start, srx.pos, 0)
<1>3. srx' = r
  BY <1>1 DEF RxPush, Stream
<1>4. calm' = n /\ n \in 0 .. Settling
  <2>1. Min({calm + 1, Settling}) = IF calm < 3 THEN calm + 1 ELSE 3
    BY <1>1, MinOfTwo DEF Settling
  <2>2. calm' = IF held THEN 0 ELSE Min({calm + 1, Settling})
    BY DEF RxPush
  <2>3. calm \in 0 .. 3
    BY <1>1 DEF Settling
  <2> QED BY <2>1, <2>2, <2>3 DEF Settling
<1>5. r \in Streams /\ r.start = srx.start /\ r.base = srx.base
  BY <1>1 DEF Streams, Stream
<1>6. Reached(r, n)
  <2>1. /\ srx.pos >= srx.start + FrameLen - HalfFrame
        /\ n >= 2 => srx.pos >= srx.start + FrameLen
    BY <1>1, <1>2
  <2>2. srx.pos >= srx.start
    BY <1>1, <2>1
  <2> HIDE DEF n
  <2> QED BY <2>1, <2>2 DEF Reached, Pushing, Stream
<1>7. Settled(srx, target, calm)
  BY DEF StreamInv
<1>8. Settled(r, target, n)
  <2>1. ASSUME state = "ALIGNMENT", n >= 2
        PROVE  Wanted(srx, target, srx.pos + srx.discard)
    <3>1. CASE srx.pc = "push"
      <4>1. ~room /\ srx.state = "ALIGNMENT" /\ ~held
        BY <1>1, <2>1
      <4>2. Len(rxq) \in Nat /\ Len(rxq) <= PairCap
        BY DEF PairInv
      <4> QED BY <3>1, <4>1, <4>2
    <3>2. CASE srx.pc = "pushMoved"
      BY <1>1, <1>7, <2>1, <3>2 DEF Settled
    <3> QED BY <1>1, <3>1, <3>2
  <2>2. ASSUME state = "NORMAL", n >= 3
        PROVE  Wanted(srx, target, srx.pos)
    <3>1. srx.pc = "push" /\ calm >= 2
      BY <1>1, <1>7, <2>2 DEF Settled
    <3>2. Wanted(srx, target, srx.frame)
      BY <1>1, <1>7, <3>1 DEF Settled
    <3>3. srx.pos = srx.frame + FrameLen * 1
      BY <1>1, <1>2
    <3>4. srx.start \in Int /\ srx.frame \in Int /\ srx.pos \in Int /\ 1 \in Int
      BY <1>1
    <3> QED BY <1>1, <3>2, <3>3, <3>4, WantedFrameLater
  <2> HIDE DEF n, state
  <2> QED BY <2>1, <2>2 DEF Settled, Stream, Wanted
<1> HIDE DEF r, n
<1> QED BY <1>1, <1>3, <1>4, <1>5, <1>6, <1>8, NewStream DEF StreamInv, StreamTyped

\* A new alignment, a gap, a restart told or taken: the stream is not settled.
LEMMA StreamMoved ==
  ASSUME TxInv, StreamInv,
         \/ \E n \in Targets : SetTarget(n)
         \/ \E n \in Losses : RxLost(n)
         \/ SensePending \/ SenseFlag \/ RxTakeRestart \/ RxRestart
  PROVE  StreamInv'
<1> USE Constants
<1>1. /\ srx = Stream(srx.pc, srx.state, srx.discard, srx.base, srx.start, srx.pos, srx.frame)
      /\ srx.pc \in {"loop", "take", "push", "pushMoved"}
      /\ srx.state \in {"ALIGNMENT", "NORMAL"}
      /\ srx.discard \in -HalfFrame .. HalfFrame /\ srx.base \in Nat /\ srx.start \in Nat
      /\ srx.pos \in Nat /\ srx.frame \in Int /\ srx \in Streams
      /\ target \in Targets /\ target \in Int /\ calm \in 0 .. Settling
      /\ restart \in [flag : BOOLEAN, time : Nat, seq : Nat]
      /\ restart.time > 0 => restart.time = SlotTime(restart.seq)
      /\ srx.start > 0 => srx.start = SlotTime(srx.base)
      /\ Reached(srx, calm) /\ Settled(srx, target, calm)
  BY StreamFields DEF StreamInv, StreamTyped
<1>2. 0 \in 0 .. Settling
  BY DEF Settling
<1>3. ASSUME NEW n \in Targets, SetTarget(n) PROVE StreamInv'
  <2>1. srx' = srx /\ restart' = restart /\ target' = n /\ calm' = 0
    BY <1>3 DEF SetTarget
  <2>2. Reached(srx, 0) /\ Settled(srx, n, 0)
    BY <1>1 DEF Reached, Settled
  <2> QED BY <1>1, <1>2, <2>1, <2>2, NewStream
<1>4. ASSUME NEW n \in Losses, RxLost(n) PROVE StreamInv'
  <2> DEFINE r == Stream("loop", srx.state, srx.discard, srx.base, srx.start,
                         srx.pos + n, srx.frame)
  <2>1. srx' = r /\ restart' = restart /\ target' = target /\ calm' = 0 /\ srx.pc = "loop"
    <3>1. srx' = [srx EXCEPT !.pos = srx.pos + n] /\ srx.pc = "loop"
      BY <1>4 DEF RxLost
    <3>2. srx' = r
      BY <1>1, <3>1 DEF Stream
    <3> QED BY <1>4, <3>1, <3>2 DEF RxLost
  <2>2. r \in Streams /\ r.start = srx.start /\ r.base = srx.base
    BY <1>1 DEF Streams, Stream
  <2>3. srx.pos >= srx.start
    BY <1>1, <2>1 DEF Reached, Pushing
  <2>4. Reached(r, 0) /\ Settled(r, target, 0)
    BY <1>1, <2>3 DEF Reached, Settled, Pushing, Stream
  <2> HIDE DEF r
  <2> QED BY <1>1, <1>2, <2>1, <2>2, <2>4, NewStream
<1>5. CASE SensePending \/ SenseFlag
  <2>1. srx' = srx /\ target' = target /\ calm' = calm
    BY <1>5 DEF SensePending, SenseFlag
  <2>2. /\ restart' \in [flag : BOOLEAN, time : Nat, seq : Nat]
        /\ restart'.time > 0 => restart'.time = SlotTime(restart'.seq)
    <3>1. nextTicks \in Nat /\ nextSeq \in Nat /\ nextTicks = SlotTime(nextSeq)
      BY LaterSlot DEF TxInv
    <3>2. CASE SensePending
      <4>1. restart' = [flag |-> restart.flag, time |-> nextTicks, seq |-> nextSeq]
            /\ restart.flag \in BOOLEAN
        BY <1>1, <3>2 DEF SensePending
      <4> QED BY <3>1, <4>1
    <3>3. CASE SenseFlag
      <4>1. restart' = [flag |-> TRUE, time |-> restart.time, seq |-> restart.seq]
            /\ restart.time \in Nat /\ restart.seq \in Nat
        BY <1>1, <3>3 DEF SenseFlag
      <4> QED BY <1>1, <4>1
    <3> QED BY <1>5, <3>2, <3>3
  <2> QED BY <1>1, <2>1, <2>2, NewStream
<1>6. CASE RxTakeRestart
  <2> DEFINE r == Stream("take", srx.state, srx.discard, srx.base, srx.start,
                         srx.pos, srx.frame)
  <2>1. srx' = r /\ target' = target /\ calm' = calm /\ srx.pc = "loop"
        /\ restart' = [flag |-> FALSE, time |-> restart.time, seq |-> restart.seq]
    BY <1>1, <1>6 DEF RxTakeRestart, Stream
  <2>2. /\ restart' \in [flag : BOOLEAN, time : Nat, seq : Nat]
        /\ restart'.time > 0 => restart'.time = SlotTime(restart'.seq)
    BY <1>1, <2>1
  <2>3. r \in Streams /\ r.start = srx.start /\ r.base = srx.base
    BY <1>1 DEF Streams, Stream
  <2>4. Reached(r, calm) /\ Settled(r, target, calm)
    BY <1>1, <2>1 DEF Reached, Settled, Pushing, Stream
  <2> HIDE DEF r
  <2> QED BY <1>1, <2>1, <2>2, <2>3, <2>4, NewStream
<1>7. CASE RxRestart
  <2>1. PICK p \in StreamBegins(restart.time) :
          srx' = [srx EXCEPT !.pc = "loop", !.state = "ALIGNMENT", !.base = restart.seq,
                             !.start = restart.time, !.pos = p]
    BY <1>7 DEF RxRestart
  <2>2. restart.time \in Nat /\ restart.seq \in Nat /\ restart.flag \in BOOLEAN
    BY <1>1
  <2>3. p \in Nat /\ p >= restart.time
    BY <2>2, BeginsInTime DEF TxInv
  <2> DEFINE r == Stream("loop", "ALIGNMENT", srx.discard, restart.seq, restart.time,
                         p, srx.frame)
  <2>4. srx' = r
    BY <1>1, <2>1 DEF Stream
  <2>5. target' = target /\ calm' = 0
        /\ restart' = [flag |-> restart.flag, time |-> 0, seq |-> restart.seq]
    BY <1>1, <1>7 DEF RxRestart
  <2>6. /\ restart' \in [flag : BOOLEAN, time : Nat, seq : Nat]
        /\ ~(restart'.time > 0)
    BY <2>2, <2>5
  <2>7. r \in Streams /\ r.start = restart.time /\ r.base = restart.seq
    BY <1>1, <2>2, <2>3 DEF Streams, Stream
  <2>8. Reached(r, 0) /\ Settled(r, target, 0)
    BY <2>2, <2>3 DEF Reached, Settled, Pushing, Stream
  <2> HIDE DEF r
  <2> QED BY <1>1, <1>2, <2>4, <2>5, <2>6, <2>7, <2>8, NewStream
<1> QED BY <1>3, <1>4, <1>5, <1>6, <1>7

\* Every step keeps the stream on its way to where the operator wants it.
LEMMA StreamKept == TxInv /\ PairInv /\ StreamInv /\ [Next]_vars => StreamInv'
<1> SUFFICES ASSUME TxInv, PairInv, StreamInv, [Next]_vars PROVE StreamInv'
  OBVIOUS
<1>1. ASSUME UNCHANGED <<restart, target, srx, calm>> PROVE StreamInv'
  BY <1>1 DEF StreamInv, StreamTyped, SlotTime
<1>2. CASE UNCHANGED vars
  BY <1>1, <1>2 DEF vars, senseVars
<1>3. CASE Tell
  <2>1. CASE UNCHANGED senseVars
    BY <1>1, <2>1 DEF senseVars
  <2>2. CASE TellSensing
    BY <1>1, <2>2, StreamMoved DEF TellSensing, SenseNewGeneration
  <2> QED BY <1>3, <2>1, <2>2 DEF Tell
<1>4. CASE Send
  BY <1>1, <1>4 DEF Send, EnqueueTxSymbols, senseVars
<1>5. CASE Transmit
  BY <1>1, <1>3, <1>4, <1>5 DEF Transmit, senseVars
<1>6. CASE Radio \/ Uplink
  BY <1>1, <1>6 DEF Radio, Uplink, senseVars
<1>7. CASE Lose
  BY <1>1, <1>7, StreamMoved DEF Lose, senseVars
<1>8. CASE Operator
  BY <1>1, <1>8, StreamMoved DEF Operator, senseVars
<1>9. CASE Channel
  <2>1. CASE Sense
    BY <1>1, <2>1 DEF Sense, PairTop, PairRx, PairTx, Gather
  <2>2. CASE Receive
    BY <2>2, StreamMoved, FrameTaken, FramePushed DEF Receive
  <2> QED BY <1>9, <2>1, <2>2 DEF Channel
<1> QED BY <1>2, <1>5, <1>6, <1>7, <1>8, <1>9 DEF Next

-----------------------------------------------------------------------------
(* The stream of the uplink receiver *)

UlStream(pc, start, pos, base, applied, owed, frame) ==
  [pc |-> pc, start |-> start, pos |-> pos, base |-> base, applied |-> applied,
   pending |-> owed, frame |-> frame]

LEMMA UlStreamFields ==
  ASSUME ul \in UlStreams
  PROVE  /\ ul = UlStream(ul.pc, ul.start, ul.pos, ul.base, ul.applied, ul.pending, ul.frame)
         /\ ul.pc \in {"begin", "loop", "slot", "take", "takeInSlot", "read", "spoilt"}
         /\ ul.start \in Nat /\ ul.pos \in Nat /\ ul.base \in Nat
         /\ ul.applied \in 0 .. FrameLen - 1 /\ ul.pending \in -HalfFrame .. HalfFrame
         /\ ul.frame \in Int
BY DEF UlStreams, UlStream

\* What has to be shown of a stream that goes on.
LEMMA UlGoesOn ==
  ASSUME UlInv, NEW u \in UlStreams, NEW n \in 0 .. Recovering,
         ul' = u, quiet' = n, stream' = stream, distance' \in Int,
         ul.pc # "begin", u.pc # "begin",
         order' \in [flag : BOOLEAN, time : Nat, base : Nat],
         order'.time > 0 => order'.time = SlotTime(order'.base),
         2 * u.pending > -FrameLen,
         u.start = ul.start, u.base = ul.base, u.pos >= u.start + u.applied,
         n >= 1 /\ u.pc \in {"loop", "slot", "read"} => Near(u, u.pos + u.pending),
         n >= 2 => Near(u, u.frame)
  PROVE  UlInv'
BY DEF UlInv, UlTyped, SlotTime, Near, Tolerance

\* What has to be shown of one that begins.
LEMMA UlBegins ==
  ASSUME TxInv, UlInv, NEW time \in Nat, NEW base \in Nat,
         NEW owed \in -HalfFrame .. HalfFrame, 2 * owed > -FrameLen,
         BeginAt(time, base, owed), distance' = distance,
         order' \in [flag : BOOLEAN, time : Nat, base : Nat],
         order'.time > 0 => order'.time = SlotTime(order'.base),
         IF stream > 0 THEN time > 0 => time = SlotTime(base)
                       ELSE time = Start * FrameLen
  PROVE  UlInv'
<1> USE Constants
<1> DEFINE applied == distance % FrameLen
<1>1. distance \in Int /\ stream \in Nat /\ ul \in UlStreams
  BY DEF UlInv, UlTyped
<1>2. applied \in 0 .. FrameLen - 1
  BY <1>1, Division
<1> HIDE DEF applied
<1>3. PICK p \in StreamBegins(time) :
        ul' = [ul EXCEPT !.pc = "loop", !.start = time, !.base = base,
                         !.applied = applied, !.pos = p + applied, !.pending = owed]
  BY DEF BeginAt, applied
<1>4. p \in Nat /\ p >= time
  BY BeginsInTime DEF TxInv
<1> DEFINE u == UlStream("loop", time, p + applied, base, applied, owed, ul.frame)
<1>5. ul' = u
  BY <1>1, <1>3, UlStreamFields DEF UlStream
<1>6. u \in UlStreams
  BY <1>1, <1>2, <1>4, UlStreamFields DEF UlStreams, UlStream
<1>7. u.pc = "loop" /\ u.start = time /\ u.base = base /\ u.pending = owed
      /\ u.pos >= u.start + u.applied
  BY <1>2, <1>4 DEF UlStream
<1>8. stream' = stream + 1 /\ quiet' = 0
  BY DEF BeginAt
<1> HIDE DEF u
<1> QED BY <1>1, <1>5, <1>6, <1>7, <1>8 DEF UlInv, UlTyped, SlotTime, Recovering

\* A frame that is read is of the stream, and the next one begins within the
\* jitter of its boundary.
LEMMA FrameRead ==
  ASSUME UlInv, UlRead
  PROVE  UlInv'
<1> USE Constants
<1>1. /\ ul = UlStream(ul.pc, ul.start, ul.pos, ul.base, ul.applied, ul.pending, ul.frame)
      /\ ul.start \in Nat /\ ul.pos \in Nat /\ ul.base \in Nat
      /\ ul.applied \in 0 .. FrameLen - 1 /\ ul.pending \in -HalfFrame .. HalfFrame
      /\ ul.frame \in Int /\ ul.pc = "read" /\ ul.pos >= ul.start + ul.applied
      /\ 2 * ul.pending > -FrameLen /\ quiet \in 0 .. 2
      /\ UNCHANGED <<order, distance, stream>> /\ distance \in Int
  BY UlStreamFields DEF UlInv, UlTyped, UlRead, Recovering
<1> DEFINE t == ul.pos + ul.pending
           e == t - ul.start - ul.applied
           q == Offset(t)
           miss == Missed(t)
<1>2. t \in Int /\ e \in Int /\ 2 * e > -FrameLen /\ t + FrameLen >= ul.start + ul.applied
      /\ t = e + ul.start + ul.applied
  BY <1>1
<1> HIDE DEF t
<1>3. q = Nearest(e, FrameLen) /\ miss = e - q * FrameLen
  BY DEF Offset, Missed
<1> HIDE DEF e, q, miss
<1>4. /\ q \in Int /\ q >= 0 /\ miss \in -HalfFrame .. HalfFrame /\ 2 * miss < FrameLen
      /\ miss = e - FrameLen * q
  <2>1. q \in Int /\ q >= 0 /\ e - FrameLen * q \in -HalfFrame .. HalfFrame
        /\ 2 * (e - FrameLen * q) < FrameLen
    BY <1>2, <1>3, NearestFrame
  <2>2. q * FrameLen = FrameLen * q
    BY <2>1
  <2> QED BY <1>3, <2>1, <2>2
<1> DEFINE owed == IF Size(miss) > Tolerance THEN -miss ELSE 0
           n == IF quiet < 2 THEN quiet + 1 ELSE 2
           u == UlStream("loop", ul.start, t + FrameLen, ul.base, ul.applied, owed, t)
<1>5. ul' = u
  <2>1. -miss \in -HalfFrame .. HalfFrame
    BY <1>4
  <2>2. Residue(-miss) = -miss
    BY <2>1, ResidueOfLess
  <2>3. ul' = [ul EXCEPT !.pc = "loop", !.pos = t + FrameLen, !.frame = t,
                         !.pending = IF q >= 0 /\ Size(miss) > Tolerance
                                     THEN Residue(-miss) ELSE 0]
    BY DEF UlRead, t, q, miss
  <2>4. (IF q >= 0 /\ Size(miss) > Tolerance THEN Residue(-miss) ELSE 0) = owed
    BY <1>4, <2>2
  <2> HIDE DEF owed
  <2>5. ul' = [ul EXCEPT !.pc = "loop", !.pos = t + FrameLen, !.frame = t, !.pending = owed]
    BY <2>3, <2>4
  <2> QED BY <1>1, <2>5 DEF UlStream
<1>6. quiet' = n /\ n \in 0 .. Recovering
  <2>1. Min({quiet + 1, Recovering}) = IF quiet < 2 THEN quiet + 1 ELSE 2
    BY <1>1, MinOfTwo DEF Recovering
  <2>2. quiet' = Min({quiet + 1, Recovering})
    BY DEF UlRead
  <2> QED BY <1>1, <2>1, <2>2 DEF Recovering
<1>7. owed \in -HalfFrame .. HalfFrame /\ 2 * owed > -FrameLen
  BY <1>4
<1>8. u \in UlStreams /\ u.start = ul.start /\ u.base = ul.base /\ u.applied = ul.applied
      /\ u.pos = t + FrameLen /\ u.pending = owed /\ u.frame = t /\ u.pc = "loop"
  <2> HIDE DEF owed
  <2> QED BY <1>1, <1>2, <1>7 DEF UlStreams, UlStream
<1>9. Near(u, u.pos + u.pending)
  <2> DEFINE next == q + 1
             y == t + FrameLen + owed - ul.start - ul.applied - FrameLen * next
             v == u.pos + u.pending
             z == v - u.start - u.applied - FrameLen * next
  <2>1. y = miss + owed
    <3>1. FrameLen * (q + 1) = FrameLen * q + FrameLen
      BY <1>4
    <3> HIDE DEF owed
    <3> QED BY <1>1, <1>2, <1>4, <1>7, <3>1
  <2>2. miss + owed \in -Tolerance .. Tolerance
    BY <1>4 DEF Size, Tolerance
  <2>3. next \in Int
    BY <1>4
  <2> HIDE DEF owed, u, next
  <2>4. z = y
    <3>1. v = t + FrameLen + owed /\ u.start = ul.start /\ u.applied = ul.applied
      BY <1>8
    <3>2. FrameLen * next \in Int
      BY <2>3
    <3> QED BY <1>1, <1>2, <1>7, <3>1, <3>2
  <2>5. z \in -Tolerance .. Tolerance
    BY <2>1, <2>2, <2>4
  <2> HIDE DEF v
  <2>6. \E k \in Int : v - u.start - u.applied - FrameLen * k \in -Tolerance .. Tolerance
    <3> WITNESS next \in Int
    <3> QED BY <2>5
  <2>7. Near(u, v)
    BY <2>6 DEF Near
  <2> QED BY <2>7 DEF v
<1>10. ASSUME n >= 2 PROVE Near(u, u.frame)
  <2>1. quiet >= 1
    BY <1>1, <1>10
  <2>2. Near(ul, t)
    BY <1>1, <2>1 DEF UlInv, t
  <2> HIDE DEF u
  <2> QED BY <1>8, <2>2 DEF Near
<1> HIDE DEF u, n, owed
<1>11. u.pos >= u.start + u.applied
  BY <1>2, <1>8
<1>12. /\ order' \in [flag : BOOLEAN, time : Nat, base : Nat]
       /\ order'.time > 0 => order'.time = SlotTime(order'.base)
  BY <1>1 DEF UlInv, UlTyped
<1> QED BY <1>1, <1>5, <1>6, <1>7, <1>8, <1>9, <1>10, <1>11, <1>12, UlGoesOn

\* The other steps of the ingest thread, and what it is told.
LEMMA UlMoved ==
  ASSUME TxInv, UlInv,
         \/ UlPending \/ UlFlag
         \/ \E n \in Distances : SetDistance(n)
         \/ \E n \in Losses : UlLost(n)
         \/ UlBegin \/ UlTakeRestart \/ UlRestart \/ UlDistance \/ UlSlot \/ UlDropped
  PROVE  UlInv'
<1> USE Constants
<1>1. /\ ul = UlStream(ul.pc, ul.start, ul.pos, ul.base, ul.applied, ul.pending, ul.frame)
      /\ ul.pc \in {"begin", "loop", "slot", "take", "takeInSlot", "read", "spoilt"}
      /\ ul.start \in Nat /\ ul.pos \in Nat /\ ul.base \in Nat
      /\ ul.applied \in 0 .. FrameLen - 1 /\ ul.pending \in -HalfFrame .. HalfFrame
      /\ ul.frame \in Int /\ ul \in UlStreams
      /\ 2 * ul.pending > -FrameLen /\ quiet \in 0 .. Recovering
      /\ distance \in Int /\ stream \in Nat
      /\ order \in [flag : BOOLEAN, time : Nat, base : Nat]
      /\ order.time > 0 => order.time = SlotTime(order.base)
  BY UlStreamFields DEF UlInv, UlTyped
<1>2. ul.pc # "begin" => stream > 0 /\ ul.pos >= ul.start + ul.applied
  BY DEF UlInv, UlTyped
<1>3. /\ quiet >= 1 /\ ul.pc \in {"loop", "slot", "read"} => Near(ul, ul.pos + ul.pending)
      /\ quiet >= 2 => Near(ul, ul.frame)
  BY DEF UlInv
<1>4. 0 \in 0 .. Recovering /\ ~(0 >= 1) /\ ~(0 >= 2)
  BY DEF Recovering
<1>5. ASSUME ul' = ul, quiet' = quiet, stream' = stream, distance' \in Int,
             order' \in [flag : BOOLEAN, time : Nat, base : Nat],
             order'.time > 0 => order'.time = SlotTime(order'.base)
      PROVE  UlInv'
  BY <1>5 DEF UlInv, UlTyped, SlotTime, Near, Tolerance
<1>6. CASE UlPending
  <2>1. nextTicks \in Nat /\ nextSeq \in Nat /\ nextTicks = SlotTime(nextSeq)
    BY LaterSlot DEF TxInv
  <2>2. order' = [flag |-> order.flag, time |-> nextTicks, base |-> nextSeq]
        /\ order.flag \in BOOLEAN /\ UNCHANGED <<ul, quiet, stream, distance>>
    BY <1>1, <1>6 DEF UlPending
  <2> QED BY <1>1, <1>5, <2>1, <2>2
<1>7. CASE UlFlag
  <2>1. order' = [flag |-> TRUE, time |-> order.time, base |-> order.base]
        /\ order.time \in Nat /\ order.base \in Nat
        /\ UNCHANGED <<ul, quiet, stream, distance>>
    BY <1>1, <1>7 DEF UlFlag
  <2> QED BY <1>1, <1>5, <2>1
<1>8. CASE \E n \in Distances : SetDistance(n)
  BY <1>1, <1>5, <1>8 DEF SetDistance, ulSide
<1>9. ASSUME NEW n \in Losses, UlLost(n) PROVE UlInv'
  <2> DEFINE pc == IF ul.pc = "read" /\ ul.pending # 0 THEN "spoilt" ELSE ul.pc
             u == UlStream(pc, ul.start, ul.pos + n, ul.base, ul.applied, ul.pending, ul.frame)
  <2>1. ul' = u /\ quiet' = 0 /\ UNCHANGED <<order, distance, stream>>
        /\ ul.pc \in {"loop", "slot", "read", "spoilt"}
    <3>1. ul' = [ul EXCEPT !.pos = ul.pos + n, !.pc = pc]
      BY <1>9 DEF UlLost
    <3>2. ul' = u
      BY <1>1, <3>1 DEF UlStream
    <3> QED BY <1>9, <3>2 DEF UlLost
  <2>2. pc \in {"loop", "slot", "read", "spoilt"}
    BY <2>1
  <2> HIDE DEF pc
  <2>3. u \in UlStreams /\ u.pc = pc /\ u.start = ul.start /\ u.base = ul.base
        /\ u.applied = ul.applied /\ u.pending = ul.pending /\ u.pos = ul.pos + n
    BY <1>1, <2>2 DEF UlStreams, UlStream
  <2>4. u.pos >= u.start + u.applied
    BY <1>1, <1>2, <2>1, <2>3
  <2> HIDE DEF u
  <2> QED BY <1>1, <1>4, <2>1, <2>2, <2>3, <2>4, UlGoesOn
<1>10. CASE UlBegin
  <2>1. BeginAt(ul.start, nextSeq, 0) /\ UNCHANGED <<order, distance>> /\ ul.pc = "begin"
    BY <1>10 DEF UlBegin
  <2>2. stream = 0 /\ ul.start = Start * FrameLen
    BY <2>1 DEF UlInv, UlTyped
  <2>3. 0 \in -HalfFrame .. HalfFrame /\ 2 * 0 > -FrameLen /\ nextSeq \in Nat
    BY DEF TxInv
  <2> QED BY <1>1, <2>1, <2>2, <2>3, UlBegins DEF SlotTime
<1>11. CASE UlTakeRestart
  <2> DEFINE pc == IF ul.pc = "loop" THEN "take" ELSE "takeInSlot"
             u == UlStream(pc, ul.start, ul.pos, ul.base, ul.applied, ul.pending, ul.frame)
  <2>1. ul' = u /\ quiet' = quiet /\ UNCHANGED <<distance, stream>>
        /\ ul.pc \in {"loop", "slot"}
        /\ order' = [flag |-> FALSE, time |-> order.time, base |-> order.base]
    BY <1>1, <1>11 DEF UlTakeRestart, UlStream
  <2>2. pc \in {"take", "takeInSlot"}
    OBVIOUS
  <2> HIDE DEF pc
  <2>3. u \in UlStreams /\ u.pc = pc /\ u.start = ul.start /\ u.base = ul.base
        /\ u.applied = ul.applied /\ u.pending = ul.pending /\ u.pos = ul.pos
        /\ u.frame = ul.frame
    BY <1>1, <2>2 DEF UlStreams, UlStream
  <2>4. u.pos >= u.start + u.applied
    BY <1>1, <1>2, <2>1, <2>3
  <2>5. /\ order' \in [flag : BOOLEAN, time : Nat, base : Nat]
        /\ order'.time > 0 => order'.time = SlotTime(order'.base)
    BY <1>1, <2>1
  <2> HIDE DEF u
  <2>6. quiet >= 2 => Near(u, u.frame)
    BY <1>3, <2>3 DEF Near
  <2> QED BY <1>1, <2>1, <2>2, <2>3, <2>4, <2>5, <2>6, UlGoesOn
<1>12. CASE UlRestart
  <2> DEFINE owed == IF ul.pc = "take" THEN 0 ELSE ul.pending
  <2>1. BeginAt(order.time, order.base, owed) /\ distance' = distance
        /\ ul.pc \in {"take", "takeInSlot"}
        /\ order' = [flag |-> order.flag, time |-> 0, base |-> order.base]
    BY <1>1, <1>12 DEF UlRestart
  <2>2. order.flag \in BOOLEAN /\ order.time \in Nat /\ order.base \in Nat
    BY <1>1
  <2>3. owed \in -HalfFrame .. HalfFrame /\ 2 * owed > -FrameLen
    BY <1>1
  <2>4. stream > 0
    BY <1>2, <2>1
  <2>5. /\ order' \in [flag : BOOLEAN, time : Nat, base : Nat]
        /\ ~(order'.time > 0)
    BY <2>1, <2>2
  <2> HIDE DEF owed
  <2> QED BY <1>1, <2>1, <2>2, <2>3, <2>4, <2>5, UlBegins
<1>13. CASE UlDistance
  <2> DEFINE wanted == distance % FrameLen
             drop == (wanted - ul.applied) % FrameLen
             u == UlStream("slot", ul.start, ul.pos + drop, ul.base, wanted, ul.pending, ul.frame)
  <2>1. wanted \in 0 .. FrameLen - 1
    BY <1>1, Division
  <2>2. drop \in 0 .. FrameLen - 1 /\ drop >= wanted - ul.applied
        /\ (wanted = ul.applied => drop = 0)
    <3> DEFINE w == wanted - ul.applied
               d == w \div FrameLen
               r == w % FrameLen
    <3> HIDE DEF wanted
    <3>1. w \in Int /\ -FrameLen < w /\ w < FrameLen
      BY <1>1, <2>1
    <3> HIDE DEF w
    <3>2. d \in Int /\ r \in 0 .. FrameLen - 1 /\ w = FrameLen * d + r
      BY <3>1, Division
    <3> HIDE DEF d, r
    <3>3. d >= 1 => FrameLen * d >= FrameLen
      BY <3>2
    <3>4. d <= 0
      BY <3>1, <3>2, <3>3
    <3>5. FrameLen * d <= 0
      BY <3>2, <3>4
    <3>6. r >= w
      BY <3>1, <3>2, <3>5
    <3>7. w = 0 => r = 0
      <4>1. ASSUME w = 0 PROVE r = 0
        <5>1. r = 0 + FrameLen * (-d) /\ -d \in Int
          BY <3>2, <4>1
        <5> QED BY <3>2, <5>1, OneInAFrame
      <4> QED BY <4>1
    <3>8. wanted = ul.applied => w = 0
      BY <1>1, <2>1 DEF w
    <3>9. drop = r
      BY DEF w, r
    <3> QED BY <3>2, <3>6, <3>7, <3>8, <3>9 DEF w
  <2> HIDE DEF wanted, drop
  <2>3. ul' = u /\ UNCHANGED <<order, distance, stream>> /\ ul.pc = "loop"
        /\ quiet' = (IF wanted = ul.applied THEN quiet ELSE 0)
    <3>1. ul' = [ul EXCEPT !.pc = "slot", !.applied = wanted, !.pos = ul.pos + drop]
      BY <1>13 DEF UlDistance, wanted, drop
    <3>2. ul' = u
      BY <1>1, <3>1 DEF UlStream
    <3> QED BY <1>13, <3>2 DEF UlDistance, wanted
  <2>4. u \in UlStreams /\ u.pc = "slot" /\ u.start = ul.start /\ u.base = ul.base
        /\ u.applied = wanted /\ u.pending = ul.pending /\ u.pos = ul.pos + drop
        /\ u.frame = ul.frame
    BY <1>1, <2>1, <2>2 DEF UlStreams, UlStream
  <2>5. u.pos >= u.start + u.applied
    BY <1>1, <1>2, <2>1, <2>2, <2>3, <2>4
  <2> HIDE DEF u
  <2>6. CASE wanted = ul.applied
    <3>1. u.pos + u.pending = ul.pos + ul.pending /\ u.applied = ul.applied
      BY <1>1, <2>2, <2>4, <2>6
    <3>2. quiet >= 1 => Near(u, u.pos + u.pending)
      BY <1>3, <2>3, <2>4, <3>1 DEF Near
    <3>3. quiet >= 2 => Near(u, u.frame)
      BY <1>3, <2>4, <3>1 DEF Near
    <3> QED BY <1>1, <2>3, <2>4, <2>5, <2>6, <3>2, <3>3, UlGoesOn
  <2>7. CASE wanted # ul.applied
    BY <1>1, <1>4, <2>3, <2>4, <2>5, <2>7, UlGoesOn
  <2> QED BY <2>6, <2>7
<1>14. CASE UlSlot
  <2> DEFINE u == UlStream("read", ul.start, ul.pos, ul.base, ul.applied, ul.pending, ul.frame)
  <2>1. ul' = u /\ quiet' = quiet /\ UNCHANGED <<order, distance, stream>> /\ ul.pc = "slot"
    BY <1>1, <1>14 DEF UlSlot, UlStream
  <2>2. u \in UlStreams /\ u.pc = "read" /\ u.start = ul.start /\ u.base = ul.base
        /\ u.applied = ul.applied /\ u.pending = ul.pending /\ u.pos = ul.pos
        /\ u.frame = ul.frame
    BY <1>1 DEF UlStreams, UlStream
  <2>3. u.pos >= u.start + u.applied
    BY <1>2, <2>1, <2>2
  <2> HIDE DEF u
  <2>4. /\ quiet >= 1 => Near(u, u.pos + u.pending)
        /\ quiet >= 2 => Near(u, u.frame)
    BY <1>3, <2>1, <2>2 DEF Near
  <2> QED BY <1>1, <2>1, <2>2, <2>3, <2>4, UlGoesOn
<1>15. CASE UlDropped
  <2> DEFINE u == UlStream("loop", ul.start, ul.pos + (FrameLen + ul.pending), ul.base,
                           ul.applied, 0, ul.frame)
  <2>1. ul' = u /\ quiet' = 0 /\ UNCHANGED <<order, distance, stream>>
        /\ ul.pc \in {"read", "spoilt"}
    <3>1. ul' = [ul EXCEPT !.pc = "loop", !.pos = ul.pos + FrameLen + ul.pending, !.pending = 0]
      BY <1>15 DEF UlDropped
    <3>2. ul.pos + FrameLen + ul.pending = ul.pos + (FrameLen + ul.pending)
      BY <1>1
    <3>3. ul' = u
      BY <1>1, <3>1, <3>2 DEF UlStream
    <3> QED BY <1>15, <3>3 DEF UlDropped
  <2>2. u \in UlStreams /\ u.pc = "loop" /\ u.start = ul.start /\ u.base = ul.base
        /\ u.applied = ul.applied /\ u.pending = 0 /\ u.pos = ul.pos + (FrameLen + ul.pending)
    BY <1>1 DEF UlStreams, UlStream
  <2>3. u.pos >= u.start + u.applied /\ 2 * u.pending > -FrameLen
    BY <1>1, <1>2, <2>1, <2>2
  <2> HIDE DEF u
  <2> QED BY <1>1, <1>4, <2>1, <2>2, <2>3, UlGoesOn
<1> QED BY <1>6, <1>7, <1>8, <1>9, <1>10, <1>11, <1>12, <1>13, <1>14, <1>15

\* Every step keeps the uplink receiver on its way to the boundary.
LEMMA UlKept == TxInv /\ UlInv /\ [Next]_vars => UlInv'
<1> SUFFICES ASSUME TxInv, UlInv, [Next]_vars PROVE UlInv'
  OBVIOUS
<1>1. ASSUME UNCHANGED <<order, distance, stream, ul, quiet>> PROVE UlInv'
  BY <1>1 DEF UlInv, UlTyped, SlotTime, Near, Tolerance
<1>2. CASE UNCHANGED vars
  BY <1>1, <1>2 DEF vars, ulVars
<1>3. CASE Tell
  <2>1. CASE UNCHANGED ulVars
    BY <1>1, <2>1 DEF ulVars
  <2>2. CASE TellUplink
    BY <2>2, UlMoved DEF TellUplink
  <2> QED BY <1>1, <1>3, <2>1, <2>2 DEF Tell, ulVars
<1>4. CASE Transmit
  BY <1>1, <1>3, <1>4 DEF Transmit, Send, ulVars
<1>5. CASE Radio \/ Channel
  BY <1>1, <1>5 DEF Radio, Channel, ulVars
<1>6. CASE Lose
  BY <1>1, <1>6, UlMoved DEF Lose, ulVars
<1>7. CASE Operator
  BY <1>1, <1>7, UlMoved DEF Operator, ulVars
<1>8. CASE Uplink
  <2>1. CASE SignalTake \/ SignalDone \/ Decode
    BY <1>1, <2>1 DEF SignalTake, SignalDone, Decode
  <2>2. CASE Ingest
    BY <2>2, UlMoved, FrameRead DEF Ingest
  <2> QED BY <1>8, <2>1, <2>2 DEF Uplink, ReceiveUplink
<1> QED BY <1>2, <1>4, <1>5, <1>6, <1>7, <1>8 DEF Next

-----------------------------------------------------------------------------
(* The station *)

LEMMA StationInit == Init => StationInv
<1> SUFFICES ASSUME Init PROVE StationInv
  OBVIOUS
<1> USE Constants
<1> USE DEF Init, TxInit, SensingInit, UlInit
<1> DEFINE s == Start * FrameLen
<1>1. s \in Nat \ {0} /\ s = SlotTime(0)
  BY DEF SlotTime
<1>2. TxInv
  BY <1>1 DEF TxInv
<1>3. PairInv /\ BatchInv
  <2>1. Told = 1 /\ NoItem \in TxItems(Told)
    BY DEF Told, TxItems, NoItem
  <2>2. rxq \in Seq(Fitting) /\ Len(rxq) <= PairCap /\ txq \in Seq(TxItems(Told))
    OBVIOUS
  <2>3. sensing \in [pc : {"top", "rx", "tx", "gather"}, gen : Nat,
                     rx : Fitting \union {NoItem}, tx : TxItems(Told), reset : Int]
    BY <2>1
  <2>4. batch = <<>> /\ batch \in Seq(Nat) /\ Len(batch) = 0 /\ sensing.pc = "top"
    OBVIOUS
  <2>5. generation = 1 /\ resetAt = 0 /\ computeReset = FALSE
    OBVIOUS
  <2> HIDE DEF Init, TxInit, SensingInit, UlInit
  <2>6. PairInv
    BY <2>1, <2>2, <2>3, <2>4, <2>5 DEF PairInv
  <2>7. BatchInv
    <3>1. ~(Len(batch) >= 2) /\ 2 .. Len(batch) = {}
      BY <2>4
    <3>2. OnlyFirstIsOlder
      BY <3>1 DEF OnlyFirstIsOlder
    <3> QED BY <2>4, <2>5, <3>1, <3>2, Zenon DEF BatchInv
  <2> QED BY <2>6, <2>7
<1> HIDE DEF s
<1>4. StreamInv
  <2>1. srx \in Streams
    BY <1>1 DEF Streams, s
  <2>2. StreamTyped
    BY <1>1, <2>1 DEF StreamTyped, Settling, s
  <2>3. srx.pc = "loop" /\ srx.pos = srx.start /\ calm = 0 /\ srx.start \in Nat
    BY <1>1 DEF s
  <2> QED BY <2>2, <2>3 DEF StreamInv, Reached, Settled, Pushing
<1>5. UlInv
  <2>1. ul \in UlStreams
    BY <1>1 DEF UlStreams, s
  <2>2. ul.pc = "begin" /\ ul.start = s /\ ul.pending = 0 /\ stream = 0 /\ quiet = 0
    BY DEF s
  <2> QED BY <1>1, <2>1, <2>2 DEF UlInv, UlTyped, Recovering, s
<1> QED BY <1>2, <1>3, <1>4, <1>5 DEF StationInv

LEMMA StationStep == StationInv /\ [Next]_vars => StationInv'
BY TxKept, PairsKept, StreamKept, UlKept DEF StationInv

\* The transmitter, the paired queue, the batch and the two receive streams agree
\* at every step of the station.
THEOREM StationSound == Spec => []StationInv
BY StationInit, StationStep, PTL DEF Spec

\* request_reacquire, apply_pending_restart: a stream is counted from the number
\* that belongs to the time it begins at, however restarts overtake one another.
THEOREM AnchorsAlwaysAgree == Spec => []AnchorsAgree
<1>1. StationInv => AnchorsAgree
  BY DEF StationInv, StreamInv, StreamTyped, UlInv, UlTyped, AnchorsAgree
<1> QED BY <1>1, StationSound, PTL

\* _sensing_loop: a batch is of one generation but for its first pair, wherever a
\* restart finds the sensing thread.
THEOREM BatchesAreOfOneGeneration == Spec => []OnlyFirstIsOlder
<1>1. StationInv => OnlyFirstIsOlder
  BY DEF StationInv, BatchInv
<1> QED BY <1>1, StationSound, PTL

\* PairedFrameQueue: what is paired was on the air together, give or take half a
\* frame, for every alignment the operator may ask for.
THEOREM PairsAreInTime == Spec => []PairedInTime
<1>1. StationInv => PairedInTime
  BY DEF StationInv, PairInv, PairedInTime, Fitting, Fits
<1> QED BY <1>1, StationSound, PTL

\* _handle_normal_rx: three frames after it was moved the stream is back at the
\* alignment that was asked for, and numbers its frames by it.
THEOREM ChannelComesBack == Spec => []BoundaryRestored
<1>1. ASSUME StationInv, srx.pc \in {"push", "pushMoved"}, calm >= Settling, srx.start > 0
      PROVE  srx.frame = SlotTime(FrameSeq) + target
  <2> USE Constants
  <2>1. /\ srx \in Streams /\ srx.start = SlotTime(srx.base) /\ target \in Int
        /\ target <= FrameLen /\ calm \in 0 .. 3 /\ calm = 3
        /\ Reached(srx, calm) /\ Settled(srx, target, calm)
    BY <1>1 DEF StationInv, StreamInv, StreamTyped, Settling
  <2>2. /\ srx.base \in Nat /\ srx.start \in Nat /\ srx.frame \in Int
        /\ srx.state \in {"ALIGNMENT", "NORMAL"}
    BY <2>1, StreamFields
  <2>3. Wanted(srx, target, srx.frame)
    BY <1>1, <2>1, <2>2 DEF Settled
  <2>4. PICK k \in Int : srx.frame = srx.start + target + FrameLen * k
    BY <2>3 DEF Wanted
  <2>5. srx.frame - srx.start > 0
    BY <1>1, <2>1, <2>2 DEF Reached, Pushing
  <2>6. k >= 0
    <3>1. k <= -1 => FrameLen * k <= -FrameLen
      OBVIOUS
    <3> QED BY <2>1, <2>2, <2>4, <2>5, <3>1
  <2> DEFINE n == srx.frame - srx.start - target
  <2>7. n \in Int /\ n = FrameLen * k
    BY <2>1, <2>2, <2>4
  <2>8. FrameOffset = Nearest(n, FrameLen)
    BY DEF FrameOffset
  <2> HIDE DEF n
  <2>9. FrameOffset = k
    BY <2>7, <2>8, NearestOfFrames
  <2>10. FrameSeq = srx.base + k
    BY <2>1, <2>6, <2>9, FrameSeqTyped
  <2>11. SlotTime(FrameSeq) = srx.start + FrameLen * k
    BY <2>1, <2>2, <2>10, LaterSlot
  <2> QED BY <2>1, <2>2, <2>4, <2>11
<1>2. StationInv => BoundaryRestored
  BY <1>1 DEF BoundaryRestored
<1> QED BY <1>2, StationSound, PTL

\* UplinkRxEngine: two frames after it was moved the uplink is back at its boundary,
\* up to the jitter of the metadata.
THEOREM UplinkComesBack == Spec => []UplinkRestored
<1>1. ASSUME StationInv, quiet >= Recovering, ul.start > 0
      PROVE  Size(Residue(ul.frame - Start * FrameLen - ul.applied)) <= Tolerance
  <2> USE Constants
  <2>1. /\ ul.start \in Nat /\ ul.base \in Nat /\ ul.applied \in Int /\ ul.frame \in Int
        /\ stream \in Nat
    BY <1>1, UlStreamFields DEF StationInv, UlInv, UlTyped
  <2>2. PICK b \in Nat : ul.start = SlotTime(b)
    <3>1. Start * FrameLen = SlotTime(0)
      BY DEF SlotTime
    <3> QED BY <1>1, <2>1, <3>1 DEF StationInv, UlInv, UlTyped
  <2> DEFINE s == Start * FrameLen
             n == ul.frame - s - ul.applied
  <2>3. ul.start = s + FrameLen * b /\ s \in Int
    BY <2>2 DEF SlotTime
  <2>4. quiet >= 2
    BY <1>1 DEF Recovering
  <2>5. PICK k \in Int :
          ul.frame - ul.start - ul.applied - FrameLen * k \in -Tolerance .. Tolerance
    BY <1>1, <2>4 DEF StationInv, UlInv, Near
  <2> HIDE DEF s
  <2>6. n \in Int
    BY <2>1, <2>3
  <2>7. n + FrameLen * (-b - k) \in -Tolerance .. Tolerance /\ -b - k \in Int
    <3>1. FrameLen * (-b - k) = -(FrameLen * b) - FrameLen * k
      OBVIOUS
    <3>2. FrameLen * b \in Int /\ FrameLen * k \in Int
      OBVIOUS
    <3>3. n + FrameLen * (-b - k) = ul.frame - ul.start - ul.applied - FrameLen * k
      BY <2>1, <2>3, <3>1, <3>2
    <3> QED BY <2>5, <3>3
  <2> HIDE DEF n
  <2>8. Residue(n) \in -Tolerance .. Tolerance
    BY <2>6, <2>7, ResidueIsLeast DEF Tolerance
  <2>9. Size(Residue(n)) <= Tolerance
    BY <2>8 DEF Size, Tolerance
  <2> QED BY <2>9 DEF n, s
<1>2. StationInv => UplinkRestored
  BY <1>1 DEF UplinkRestored
<1> QED BY <1>2, StationSound, PTL

-----------------------------------------------------------------------------
(***************************************************************************)
(* The seqlock through which the uplink receiver publishes the channel it  *)
(* estimated.  Nothing is assumed of the order in which memory takes the   *)
(* relaxed accesses, nor that _seq does not wrap: x86 and aarch64 alike.   *)
(* That a copy made across a store is whole needs both, and is checked by  *)
(* TLC only.                                                               *)
(***************************************************************************)

USE SeqlockAssumption DEF Versions, Enter, Leave, Check

\* The slots are none of the marks of the counter's writes and reads.
LEMMA SlotsAreNat == \A i \in Slots : i \in Nat /\ i # Enter /\ i # Leave /\ i # Check
  OBVIOUS

\* The invariant holds before the first store.
LEMMA SeqlockStarts == SeqlockInit => SeqlockInv
  <1> SUFFICES ASSUME SeqlockInit PROVE SeqlockInv
    OBVIOUS
  <1>1. SeqlockTypeOK
    BY DEF SeqlockInit, SeqlockTypeOK, Loads
  <1>2. SlotsFollowStores
    BY DEF SeqlockInit, SlotsFollowStores
  <1>3. CopiesAreCurrent
    BY DEF SeqlockInit, CopiesAreCurrent, CopyIsCurrent, Stored
  <1> QED BY <1>1, <1>2, <1>3 DEF SeqlockInv

\* The counter stays in its range when it wraps, too.
LEMMA BumpStays ==
  ASSUME NEW n \in Int, NEW m \in Int, m > 0
  PROVE  n % m \in 0 .. m - 1
  OBVIOUS

\* What is in memory only becomes newer: copies under way stay as they are.
LEMMA CopiesAge ==
  ASSUME SeqlockInv, load' = load, begun' \in Versions,
         begun <= begun', Stored <= Stored', Stored' \in Int
  PROVE  CopiesAreCurrent'
  <1>1. Stored \in Int /\ begun \in Int /\ begun' \in Int
    BY DEF SeqlockInv, SeqlockTypeOK, Stored
  <1>2. SUFFICES ASSUME NEW r \in Readers PROVE CopyIsCurrent(load[r])'
    BY DEF CopiesAreCurrent
  <1>3. load[r] \in Loads /\ CopyIsCurrent(load[r])
    BY DEF SeqlockInv, SeqlockTypeOK, CopiesAreCurrent
  <1> QED BY <1>1, <1>3 DEF CopyIsCurrent, Loads

\* The writer's step: the slots change only while their store is pending.
LEMMA WriterStep ==
  ASSUME SeqlockInv,
         Store \/ WriteEnter \/ WriteLeave \/ \E i \in Slots : WriteSlot(i)
  PROVE  SeqlockInv'
  <1>1. CASE Store
    <2>1. SeqlockTypeOK'
      BY <1>1 DEF Store, SeqlockInv, SeqlockTypeOK
    <2>2. SlotsFollowStores'
      BY <1>1 DEF Store, SeqlockInv, SeqlockTypeOK, SlotsFollowStores
    <2>3. CopiesAreCurrent'
      BY <1>1, <2>1, CopiesAge DEF Store, SeqlockInv, SeqlockTypeOK, Stored
    <2> QED BY <2>1, <2>2, <2>3 DEF SeqlockInv
  <1>2. CASE WriteEnter
    <2>1. seq' \in 0 .. SeqValues - 1
      BY <1>2, BumpStays DEF WriteEnter, Bump, SeqlockInv, SeqlockTypeOK
    <2>2. SeqlockTypeOK'
      BY <1>2, <2>1 DEF WriteEnter, SeqlockInv, SeqlockTypeOK
    <2>3. SlotsFollowStores'
      BY <1>2, SlotsAreNat DEF WriteEnter, SeqlockInv, SeqlockTypeOK, SlotsFollowStores
    <2>4. Stored' = Stored
      BY <1>2 DEF WriteEnter, SeqlockInv, SlotsFollowStores, Stored
    <2>5. CopiesAreCurrent'
      BY <1>2, <2>2, <2>4, CopiesAge DEF WriteEnter, SeqlockInv, SeqlockTypeOK, Stored
    <2> QED BY <2>2, <2>3, <2>5 DEF SeqlockInv
  <1>3. CASE WriteLeave
    <2>1. seq' \in 0 .. SeqValues - 1
      BY <1>3, BumpStays DEF WriteLeave, Bump, SeqlockInv, SeqlockTypeOK
    <2>2. SeqlockTypeOK'
      BY <1>3, <2>1 DEF WriteLeave, SeqlockInv, SeqlockTypeOK
    <2>3. SlotsFollowStores'
      BY <1>3, SlotsAreNat DEF WriteLeave, SeqlockInv, SeqlockTypeOK, SlotsFollowStores
    <2>4. CopiesAreCurrent'
      BY <1>3, <2>2, CopiesAge DEF WriteLeave, SeqlockInv, SeqlockTypeOK, Stored
    <2> QED BY <2>2, <2>3, <2>4 DEF SeqlockInv
  <1>4. ASSUME NEW i \in Slots, WriteSlot(i) PROVE SeqlockInv'
    <2>1. SeqlockTypeOK'
      BY <1>4 DEF WriteSlot, SeqlockInv, SeqlockTypeOK
    <2>2. SlotsFollowStores'
      BY <1>4, SlotsAreNat DEF WriteSlot, SeqlockInv, SeqlockTypeOK, SlotsFollowStores
    <2>3. Stored' = Stored
      BY <1>4, SlotsAreNat DEF WriteSlot, SeqlockInv, SlotsFollowStores, Stored
    <2>4. CopiesAreCurrent'
      BY <1>4, <2>1, <2>3, CopiesAge DEF WriteSlot, SeqlockInv, SeqlockTypeOK, Stored
    <2> QED BY <2>1, <2>2, <2>4 DEF SeqlockInv
  <1> QED BY <1>1, <1>2, <1>3, <1>4

\* A reader's step changes its own copy only, and takes what the slot holds.
LEMMA ReaderStep ==
  ASSUME SeqlockInv, NEW r \in Readers,
         \/ Call(r) \/ ReadCheck(r) \/ Return(r) \/ Retry(r)
         \/ \E i \in Slots : ReadSlot(r, i)
  PROVE  SeqlockInv'
  <1> DEFINE l == load[r]
             m == load'[r]
  <1>1. UNCHANGED <<seq, buf, begun, pending>>
    BY DEF Call, ReadCheck, Return, Retry, ReadSlot
  <1>2. SlotsFollowStores'
    BY <1>1 DEF SeqlockInv, SlotsFollowStores
  <1>3. /\ Stored \in Versions /\ Stored <= begun /\ begun \in Versions
        /\ begun - 1 <= Stored
        /\ seq \in 0 .. SeqValues - 1
        /\ l \in Loads /\ CopyIsCurrent(l) /\ buf \in [Slots -> Versions]
    BY DEF SeqlockInv, SeqlockTypeOK, SlotsFollowStores, CopiesAreCurrent, Stored
  <1>4. load' = [load EXCEPT ![r] = m]
    BY DEF Call, ReadCheck, Return, Retry, ReadSlot, SeqlockInv, SeqlockTypeOK
  <1>5. ASSUME m \in Loads, CopyIsCurrent(m)
        PROVE  SeqlockInv'
    <2>1. SeqlockTypeOK'
      BY <1>1, <1>4, <1>5 DEF SeqlockInv, SeqlockTypeOK
    <2>2. CopiesAreCurrent'
      <3>1. load'[r] = m
        BY <1>4 DEF SeqlockInv, SeqlockTypeOK
      <3>2. \A x \in Readers : x # r => load'[x] = load[x] /\ CopyIsCurrent(load[x])
        BY <1>4 DEF SeqlockInv, SeqlockTypeOK, CopiesAreCurrent
      <3>3. \A y : CopyIsCurrent(y) => CopyIsCurrent(y)'
        BY <1>1 DEF CopyIsCurrent, Stored
      <3> QED BY <1>5, <3>1, <3>2, <3>3 DEF CopiesAreCurrent
    <2> QED BY <1>2, <2>1, <2>2 DEF SeqlockInv
  <1>6. CASE Call(r)
    <2>1. CASE m = [l EXCEPT !.at = "none", !.from = Stored]
      <3>1. m.at = "none" /\ m.from = Stored
        BY <1>3, <2>1 DEF Loads
      <3>2. m \in Loads
        BY <1>3, <2>1 DEF Loads
      <3> QED BY <1>3, <1>5, <3>1, <3>2 DEF CopyIsCurrent
    <2>2. CASE m = [l EXCEPT !.at = "copy", !.s1 = seq, !.from = Stored,
                             !.todo = Slots \union {Check}]
      <3>1. m.at = "copy" /\ m.from = Stored /\ m.todo = Slots \union {Check}
        BY <1>3, <2>2 DEF Loads
      <3>2. m \in Loads
        BY <1>3, <2>2 DEF Loads
      <3> QED BY <1>3, <1>5, <3>1, <3>2 DEF CopyIsCurrent
    <2> QED BY <1>6, <2>1, <2>2 DEF Call, SeqlockInv, SeqlockTypeOK
  <1>7. CASE ReadCheck(r)
    <2>1. m = [l EXCEPT !.s2 = seq, !.todo = l.todo \ {Check}] /\ l.at = "copy"
      BY <1>7 DEF ReadCheck, SeqlockInv, SeqlockTypeOK
    <2>2. /\ m.at = "copy" /\ m.from = l.from /\ m.out = l.out
          /\ m.todo = l.todo \ {Check}
      BY <1>3, <2>1 DEF Loads
    <2>3. m \in Loads
      BY <1>3, <2>1 DEF Loads
    <2>4. \A i \in Slots : i \notin m.todo => i \notin l.todo
      BY <2>2, SlotsAreNat
    <2> QED BY <1>3, <1>5, <2>1, <2>2, <2>3, <2>4 DEF CopyIsCurrent
  <1>8. CASE Return(r)
    <2>1. m = [l EXCEPT !.at = "done"] /\ l.at = "copy" /\ l.todo = {}
      BY <1>8 DEF Return, SeqlockInv, SeqlockTypeOK
    <2>2. m \in Loads /\ CopyIsCurrent(m)
      BY <1>3, <2>1 DEF Loads, CopyIsCurrent
    <2> QED BY <1>5, <2>2
  <1>9. CASE Retry(r)
    <2>1. CASE m = [l EXCEPT !.at = "none"]
      BY <1>3, <1>5, <2>1 DEF Loads, CopyIsCurrent
    <2>2. CASE m = [l EXCEPT !.s1 = seq, !.todo = Slots \union {Check}]
               /\ l.at = "copy"
      <3>1. /\ m.at = "copy" /\ m.from = l.from
            /\ m.todo = Slots \union {Check}
        BY <1>3, <2>2 DEF Loads
      <3>2. m \in Loads
        BY <1>3, <2>2 DEF Loads
      <3> QED BY <1>3, <1>5, <3>1, <3>2 DEF CopyIsCurrent
    <2> QED BY <1>9, <2>1, <2>2 DEF Retry, SeqlockInv, SeqlockTypeOK
  <1>10. ASSUME NEW i \in Slots, ReadSlot(r, i) PROVE SeqlockInv'
    <2>1. /\ m = [l EXCEPT !.out[i] = buf[i], !.todo = l.todo \ {i}]
          /\ l.at = "copy" /\ i \in l.todo
      BY <1>10 DEF ReadSlot, SeqlockInv, SeqlockTypeOK
    <2>2. /\ m.at = "copy" /\ m.from = l.from
          /\ m.todo = l.todo \ {i} /\ m.out = [l.out EXCEPT ![i] = buf[i]]
      BY <1>3, <2>1 DEF Loads
    <2>3. m \in Loads
      <3>1. m.out \in [Slots -> Versions]
        BY <1>3, <2>2 DEF Loads
      <3>2. m = [l EXCEPT !.out = m.out, !.todo = m.todo]
        BY <1>3, <2>1, <2>2 DEF Loads
      <3> QED BY <1>3, <2>2, <3>1, <3>2 DEF Loads
    <2>4. buf[i] \in l.from .. begun
      \* While the slot is pending it holds begun - 1, and so does Stored.
      BY <1>3 DEF CopyIsCurrent, SeqlockInv, SlotsFollowStores, Stored, Loads
    <2>5. CopyIsCurrent(m)
      BY <1>3, <2>1, <2>2, <2>4 DEF CopyIsCurrent, Loads
    <2> QED BY <1>5, <2>3, <2>5
  <1> QED BY <1>6, <1>7, <1>8, <1>9, <1>10

\* Every step of writer and readers keeps the invariant.
LEMMA SeqlockKept == SeqlockInv /\ [SeqlockNext]_seqlockVars => SeqlockInv'
  <1> SUFFICES ASSUME SeqlockInv, [SeqlockNext]_seqlockVars PROVE SeqlockInv'
    OBVIOUS
  <1>1. CASE UNCHANGED seqlockVars
    BY <1>1 DEF seqlockVars, SeqlockInv, SeqlockTypeOK, SlotsFollowStores, Stored, CopiesAreCurrent, CopyIsCurrent
  <1>2. CASE SeqlockNext
    BY <1>2, WriterStep, ReaderStep DEF SeqlockNext
  <1> QED BY <1>1, <1>2

\* In whatever order the relaxed accesses take effect, the slots and the
\* copies under way agree with the stores at every step of store() and load().
LEMMA SeqlockInvariant == SeqlockSpec => []SeqlockInv
  <1>1. SeqlockInit => SeqlockInv
    BY SeqlockStarts
  <1>2. SeqlockInv /\ [SeqlockNext]_seqlockVars => SeqlockInv'
    BY SeqlockKept
  <1> QED BY <1>1, <1>2, PTL DEF SeqlockSpec

\* No sample that load() returns is older than the last estimate in memory
\* when it was called, through any number of retries and wraps of _seq and
\* whatever the memory reorders.
THEOREM SnapshotsAreCurrent == SeqlockSpec => []SnapshotIsCurrent
  <1>1. SeqlockInv => SnapshotIsCurrent
    BY DEF SeqlockInv, CopiesAreCurrent, CopyIsCurrent, SnapshotIsCurrent
  <1> QED BY <1>1, SeqlockInvariant, PTL

\* What load() returns when nothing was published since its call is the last
\* estimate, and the whole of it, whatever the memory reorders.
THEOREM UndisturbedSnapshots == SeqlockSpec => []UndisturbedIsWhole
  <1>1. SeqlockInv => UndisturbedIsWhole
    <2> SUFFICES ASSUME SeqlockInv, NEW r \in Readers, load[r].at = "done",
                        load[r].from = begun, NEW i \in Slots
                 PROVE  load[r].out[i] = begun
      BY DEF UndisturbedIsWhole
    <2>1. load[r].out[i] \in load[r].from .. begun /\ begun \in Int
      BY DEF SeqlockInv, SeqlockTypeOK, CopiesAreCurrent, CopyIsCurrent
    <2> QED BY <2>1
  <1> QED BY <1>1, SeqlockInvariant, PTL
=============================================================================
