------------------------ MODULE SensingOutput_proofs ------------------------
(***************************************************************************)
(* No batch ever holds the training symbol of a frame.  A stride is served *)
(* when it has a divisor in common with the length of a frame that does    *)
(* not divide the training symbol; a channel that counts in such a divisor *)
(* from the start of a frame on never comes to a training symbol.  What    *)
(* has to be shown is that the next symbol of a channel and its stride     *)
(* keep having such a divisor, whatever happens.                           *)
(***************************************************************************)
EXTENDS SensingOutput, TLAPS

-----------------------------------------------------------------------------
(* Divisors *)

\* A multiple and a rest less than the divisor: the rest is what % gives.
LEMMA RestIsUnique ==
  ASSUME NEW d \in Nat \ {0}, NEW k \in Int, NEW r \in 0 .. d - 1
  PROVE  (d * k + r) % d = r
OBVIOUS

\* Every number is a multiple of a divisor and a rest.
LEMMA QuotientAndRest ==
  ASSUME NEW d \in Nat \ {0}, NEW x \in Nat, NEW r \in Nat, x % d = r
  PROVE  x \div d \in Int /\ x = d * (x \div d) + r
OBVIOUS

\* What divides two numbers divides their sum.
LEMMA SumIsDivided ==
  ASSUME NEW d \in Nat \ {0}, NEW x \in Nat, NEW y \in Nat, x % d = 0, y % d = 0
  PROVE  (x + y) % d = 0
<1> DEFINE k == (x \div d) + (y \div d)
<1>1. x \div d \in Int /\ x = d * (x \div d) + 0
  BY QuotientAndRest
<1>2. y \div d \in Int /\ y = d * (y \div d) + 0
  BY QuotientAndRest
<1>3. x + y = d * k + 0 /\ k \in Int
  BY <1>1, <1>2
<1>4. 0 \in 0 .. d - 1
  OBVIOUS
<1> HIDE DEF k
<1>5. (d * k + 0) % d = 0
  BY <1>3, <1>4, RestIsUnique
<1> QED BY <1>3, <1>5

\* What divides a number divides its multiples.
LEMMA MultipleIsDivided ==
  ASSUME NEW d \in Nat \ {0}, NEW n \in Nat, NEW y \in Nat, y % d = 0
  PROVE  (n * y) % d = 0
<1> DEFINE k == n * (y \div d)
<1>1. y \div d \in Int /\ y = d * (y \div d) + 0
  BY QuotientAndRest
<1>2. n * y = d * k + 0 /\ k \in Int
  BY <1>1
<1>3. 0 \in 0 .. d - 1
  OBVIOUS
<1> HIDE DEF k
<1>4. (d * k + 0) % d = 0
  BY <1>2, <1>3, RestIsUnique
<1> QED BY <1>2, <1>4

\* What divides a number and the modulus divides the rest.
LEMMA RestIsDivided ==
  ASSUME NEW d \in Nat \ {0}, NEW m \in Nat \ {0}, NEW x \in Nat, NEW r \in Nat,
         x % d = 0, m % d = 0, x % m = r
  PROVE  r % d = 0
<1> DEFINE a == x \div d
           b == m \div d
           q == x \div m
           k == a - b * q
<1>1. a \in Int /\ x = d * a + 0
  BY QuotientAndRest
<1>2. b \in Int /\ m = d * b + 0
  BY QuotientAndRest
<1>3. q \in Int /\ x = m * q + r
  BY QuotientAndRest
<1> HIDE DEF a, b, q
<1>4. m * q = d * (b * q)
  BY <1>2, <1>3
<1>5. r = d * a - d * (b * q)
  BY <1>1, <1>2, <1>3, <1>4
<1>6. d * a - d * (b * q) = d * k + 0 /\ k \in Int
  BY <1>1, <1>2, <1>3
<1>7. 0 \in 0 .. d - 1
  OBVIOUS
<1> HIDE DEF k
<1>8. (d * k + 0) % d = 0
  BY <1>6, <1>7, RestIsUnique
<1> QED BY <1>5, <1>6, <1>8

-----------------------------------------------------------------------------
(* The invariant *)

\* A divisor that keeps samples a stride apart off the training symbol.
Separates(d, stride) ==
  stride % d = 0 /\ NumSymbols % d = 0 /\ Training % d # 0

Served(stride) == \E d \in 1 .. stride : Separates(d, stride)

Untrained(rows) == \A i \in DOMAIN rows : rows[i] % NumSymbols # Training

Updates ==
  {u \in [gen : Nat, stride : Nat \ {0}, skip : BOOLEAN, at : Nat] :
     Served(u.stride) /\ u.at % NumSymbols = 0}

Gathers ==
  {g \in [next : Nat, first : Nat \cup {None}, rows : Seq(Nat),
          stride : Nat \ {0}, skip : BOOLEAN, gen : Nat] :
     /\ \E d \in 1 .. g.stride : Separates(d, g.stride) /\ g.next % d = 0
     /\ Untrained(g.rows)}

Parts ==
  {p \in [channel : Channels, first : Nat \cup {None}, rows : Seq(Nat),
          size : {"full", "selected"}] : Untrained(p.rows)}

Hands == {Idle} \cup [frame : Nat, row : Nat]

StrideInv ==
  /\ mode \in Modes
  /\ sent \in Nat
  /\ resetAt \in Nat /\ resetAt % NumSymbols = 0
  /\ shared \in Updates
  /\ cfg \in [Channels -> Updates]
  /\ pairs \in [Channels -> Seq(Nat)]
  /\ hand \in [Channels -> Hands]
  /\ gather \in [Channels -> Gathers]
  /\ queue \in [Channels -> Seq(Parts)]

\* A stride that never hits the training symbol has a divisor that shows it.
LEMMA NoHitIsServed ==
  ASSUME NEW stride \in Nat \ {0}, ~HitsSymbol(stride, Training)
  PROVE  Served(stride)
BY DEF HitsSymbol, Served, Separates

\* What the assumptions say of the configuration.
LEMMA Constants ==
  /\ NumSymbols \in Nat \ {0}
  /\ Training \in 1 .. NumSymbols - 1
  /\ FirstStride \in Nat \ {0} /\ Served(FirstStride)
  /\ Strides \subseteq Nat \ {0} /\ Skips \subseteq BOOLEAN
  /\ ResetLead \in Nat /\ Skipped \in Nat
  /\ CombRows \in Seq((0 .. NumSymbols - 1) \ {Training})
<1>1. /\ NumSymbols \in Nat \ {0} /\ FirstStride \in Nat \ {0}
      /\ Training \in 0 .. NumSymbols - 1
      /\ ~HitsSymbol(FirstStride, Training)
  BY OutputAssumption
<1>2. Served(FirstStride)
  BY <1>1, NoHitIsServed
<1>3. Training # 0
  <2>1. \A d \in 1 .. FirstStride : 0 % d = 0
    OBVIOUS
  <2> QED BY <1>1, <2>1 DEF HitsSymbol
<1> QED BY <1>1, <1>2, <1>3, OutputAssumption

\* The larger of two numbers is one of them.
LEMMA MaxOfTwo ==
  ASSUME NEW a \in Int, NEW b \in Int
  PROVE  Max({a, b}) = IF a < b THEN b ELSE a
<1>1. CASE a < b
  BY <1>1 DEF Max
<1>2. CASE ~(a < b)
  BY <1>2 DEF Max
<1> QED BY <1>1, <1>2

\* A frame begins at a multiple of its length, which every divisor of the length
\* divides.
LEMMA FrameBegins ==
  ASSUME NEW frame \in Nat
  PROVE  /\ Begun(frame) \in Nat
         /\ Begun(frame) % NumSymbols = 0
         /\ \A d \in Nat \ {0} : NumSymbols % d = 0 => Begun(frame) % d = 0
<1>1. Begun(frame) \in Nat
  BY Constants DEF Begun
<1>2. \A d \in Nat \ {0} : NumSymbols % d = 0 => Begun(frame) % d = 0
  BY Constants, MultipleIsDivided DEF Begun
<1>3. NumSymbols % NumSymbols = 0
  BY Constants
<1> QED BY <1>1, <1>2, <1>3, Constants

\* So does every multiple of the length.
LEMMA StartIsDivided ==
  ASSUME NEW s \in Nat, s % NumSymbols = 0, NEW d \in Nat \ {0}, NumSymbols % d = 0
  PROVE  s % d = 0
<1> DEFINE n == s \div NumSymbols
<1>1. n \in Int /\ s = NumSymbols * n + 0
  BY Constants, QuotientAndRest
<1>2. n \in Nat
  BY Constants
<1> HIDE DEF n
<1>3. s = n * NumSymbols
  BY <1>1, <1>2, Constants
<1> QED BY <1>2, <1>3, Constants, MultipleIsDivided

\* What such a divisor divides is no training symbol.
LEMMA SeparatedIsUntrained ==
  ASSUME NEW stride \in Nat \ {0}, NEW d \in 1 .. stride, Separates(d, stride),
         NEW x \in Nat, x % d = 0
  PROVE  x % NumSymbols # Training
<1>1. d \in Nat \ {0} /\ NumSymbols % d = 0 /\ Training % d # 0
  BY DEF Separates
<1>2. Training \in Nat /\ NumSymbols \in Nat \ {0}
  BY Constants
<1>3. x % NumSymbols = Training => Training % d = 0
  BY <1>1, <1>2, RestIsDivided
<1> QED BY <1>1, <1>3

-----------------------------------------------------------------------------
(* What a channel does to its batch *)

\* A batch may go on from any place its divisor divides.
LEMMA GoesOn ==
  ASSUME NEW g \in Gathers, NEW rows \in Seq(Nat), Untrained(rows),
         NEW first \in Nat \cup {None}, NEW s \in Nat,
         s = g.next \/ s % NumSymbols = 0
  PROVE  [g EXCEPT !.next = s, !.first = first, !.rows = rows] \in Gathers
<1> DEFINE h == [g EXCEPT !.next = s, !.first = first, !.rows = rows]
<1>1. PICK d \in 1 .. g.stride : Separates(d, g.stride) /\ g.next % d = 0
  BY DEF Gathers
<1>2. g.stride \in Nat \ {0}
  BY DEF Gathers
<1>3. s % d = 0
  <2>1. CASE s = g.next
    BY <2>1, <1>1
  <2>2. CASE s % NumSymbols = 0
    <3>1. d \in Nat \ {0} /\ NumSymbols % d = 0
      BY <1>1, <1>2 DEF Separates
    <3> QED BY <2>2, <3>1, StartIsDivided
  <2> QED BY <2>1, <2>2
<1>4. /\ h \in [next : Nat, first : Nat \cup {None}, rows : Seq(Nat),
               stride : Nat \ {0}, skip : BOOLEAN, gen : Nat]
      /\ h.stride = g.stride /\ h.next = s /\ h.rows = rows
  BY DEF Gathers
<1> QED BY <1>1, <1>3, <1>4 DEF Gathers

\* _reset_monostatic_accumulators
LEMMA ResetKeeps ==
  ASSUME NEW g \in Gathers
  PROVE  Reset(g) \in Gathers
<1> DEFINE rows == IF mode = "regular" THEN g.rows ELSE <<>>
<1>1. rows \in Seq(Nat) /\ Untrained(rows)
  BY DEF Gathers, Untrained
<1>2. 0 % NumSymbols = 0
  BY Constants
<1>3. [g EXCEPT !.next = 0, !.first = None, !.rows = rows] \in Gathers
  BY <1>1, <1>2, GoesOn
<1> QED BY <1>3 DEF Reset

\* _apply_batch_reset_if_due
LEMMA BatchResetKeeps ==
  ASSUME NEW g \in Gathers, NEW s \in Nat, s % NumSymbols = 0
  PROVE  [g EXCEPT !.rows = <<>>, !.first = None, !.next = s] \in Gathers
<1>1. <<>> \in Seq(Nat) /\ Untrained(<<>>)
  BY DEF Untrained
<1>2. [g EXCEPT !.next = s, !.first = None, !.rows = <<>>] \in Gathers
  BY <1>1, GoesOn
<1>3. [g EXCEPT !.next = s, !.first = None, !.rows = <<>>]
        = [g EXCEPT !.rows = <<>>, !.first = None, !.next = s]
  BY DEF Gathers
<1> QED BY <1>2, <1>3

\* The sampling of a dense batch goes on at the start of a frame.
LEMMA SkipKeeps ==
  ASSUME NEW g \in Gathers, NEW s \in Nat, s % NumSymbols = 0
  PROVE  [g EXCEPT !.next = Max({@, s})] \in Gathers
<1> DEFINE t == Max({g.next, s})
<1>1. g.next \in Nat /\ g.rows \in Seq(Nat) /\ Untrained(g.rows)
      /\ g.first \in Nat \cup {None}
  BY DEF Gathers
<1>2. t \in Nat /\ (t = g.next \/ t % NumSymbols = 0)
  BY <1>1, MaxOfTwo
<1> HIDE DEF t
<1>3. [g EXCEPT !.next = t, !.first = g.first, !.rows = g.rows] \in Gathers
  BY <1>1, <1>2, GoesOn
<1>4. [g EXCEPT !.next = t, !.first = g.first, !.rows = g.rows] = [g EXCEPT !.next = t]
  BY DEF Gathers
<1> QED BY <1>3, <1>4 DEF t

\* _apply_shared_sensing_if_due: a new stride goes on at the start of a frame, and
\* the old one where it was, or there.
LEMMA UpdateKeeps ==
  ASSUME NEW c \in Channels, cfg[c] \in Updates, NEW g \in Gathers, NEW s \in Nat
  PROVE  Applied(c, g, s) \in Gathers
<1> DEFINE u == cfg[c]
           t == IF g.next < u.at \/ g.stride # u.stride THEN u.at ELSE g.next
           h == [g EXCEPT !.stride = u.stride, !.skip = u.skip, !.gen = u.gen, !.next = t]
<1>1. /\ u \in [gen : Nat, stride : Nat \ {0}, skip : BOOLEAN, at : Nat]
      /\ Served(u.stride) /\ u.at % NumSymbols = 0
  BY DEF Updates
<1>2. /\ g \in [next : Nat, first : Nat \cup {None}, rows : Seq(Nat),
               stride : Nat \ {0}, skip : BOOLEAN, gen : Nat]
      /\ Untrained(g.rows)
  BY DEF Gathers
<1>3. \E d \in 1 .. u.stride : Separates(d, u.stride) /\ t % d = 0
  <2>1. CASE t = u.at
    <3>1. PICK d \in 1 .. u.stride : Separates(d, u.stride)
      BY <1>1 DEF Served
    <3>2. u.at % d = 0
      BY <1>1, <3>1, StartIsDivided DEF Separates
    <3> QED BY <2>1, <3>1, <3>2
  <2>2. CASE t = g.next /\ g.stride = u.stride
    BY <2>2 DEF Gathers
  <2> QED BY <2>1, <2>2
<1>4. t \in Nat
  BY <1>1, <1>2
<1> HIDE DEF t, u
<1>5. /\ h \in [next : Nat, first : Nat \cup {None}, rows : Seq(Nat),
               stride : Nat \ {0}, skip : BOOLEAN, gen : Nat]
      /\ h.stride = u.stride /\ h.next = t /\ h.rows = g.rows
  BY <1>1, <1>2, <1>4
<1>6. h \in Gathers
  BY <1>2, <1>3, <1>5 DEF Gathers
<1>7. Applied(c, g, s) \in {h, g}
  BY DEF Applied, t, u
<1> QED BY <1>6, <1>7

\* A symbol joins the batch, which stays as it was or is begun anew; a full one
\* goes to the queue if there is room.
LEMMA JoinedKeeps ==
  ASSUME StrideInv, NEW c \in Channels, NEW g \in Gathers, NEW x \in Nat,
         x % NumSymbols # Training, Joined(c, g, x)
  PROVE  /\ gather' \in [Channels -> Gathers]
         /\ queue' \in [Channels -> Seq(Parts)]
<1> DEFINE rows == Append(g.rows, x)
           first == IF g.first = None THEN x ELSE g.first
           h == [g EXCEPT !.first = IF @ = None THEN x ELSE @, !.rows = Append(@, x)]
           empty == [h EXCEPT !.rows = <<>>, !.first = None]
           size == IF mode = "regular" /\ h.skip THEN "selected" ELSE "full"
<1>1. /\ g \in [next : Nat, first : Nat \cup {None}, rows : Seq(Nat),
               stride : Nat \ {0}, skip : BOOLEAN, gen : Nat]
      /\ Untrained(g.rows)
  BY DEF Gathers
<1>2. rows \in Seq(Nat) /\ first \in Nat \cup {None}
  BY <1>1
<1>3. Untrained(rows)
  BY <1>1 DEF Untrained
<1>4. h = [g EXCEPT !.next = g.next, !.first = first, !.rows = rows]
  BY <1>1
<1>5. h \in Gathers /\ h.rows = rows /\ h.first = first
  <2>1. h \in Gathers
    <3> HIDE DEF h, rows, first
    <3> QED BY <1>1, <1>2, <1>3, <1>4, GoesOn
  <2> QED BY <2>1, <1>1
<1>6. empty \in Gathers
  <2> HIDE DEF h
  <2>1. <<>> \in Seq(Nat) /\ Untrained(<<>>) /\ h.next \in Nat
    BY <1>5 DEF Untrained, Gathers
  <2>2. [h EXCEPT !.next = h.next, !.first = None, !.rows = <<>>] \in Gathers
    BY <1>5, <2>1, GoesOn
  <2>3. [h EXCEPT !.next = h.next, !.first = None, !.rows = <<>>] = empty
    BY <1>5 DEF Gathers
  <2> QED BY <2>2, <2>3
<1>7. Part(c, h.first, h.rows, size) \in Parts
  <2> HIDE DEF h, rows, first
  <2> QED BY <1>2, <1>3, <1>5 DEF Part, Parts
<1>8. \/ gather' = [gather EXCEPT ![c] = empty] /\ Pushed(c, Part(c, h.first, h.rows, size))
      \/ gather' = [gather EXCEPT ![c] = h] /\ UNCHANGED queue
  BY DEF Joined
<1> HIDE DEF h, empty, size
<1>9. gather' \in [Channels -> Gathers]
  BY <1>5, <1>6, <1>8 DEF StrideInv
<1>10. ASSUME NEW p \in Parts, Pushed(c, p)
       PROVE  queue' \in [Channels -> Seq(Parts)]
  BY <1>10 DEF Pushed, StrideInv
<1> QED BY <1>7, <1>8, <1>9, <1>10 DEF StrideInv

-----------------------------------------------------------------------------
(* Initially, and step by step *)

LEMMA StrideInit == Init => StrideInv
<1> SUFFICES ASSUME Init PROVE StrideInv
  OBVIOUS
<1>1. PICK d \in 1 .. FirstStride : Separates(d, FirstStride)
  BY Constants DEF Served
<1>2. 0 % NumSymbols = 0 /\ 0 % d = 0
  BY Constants, <1>1
<1>3. shared \in Updates
  BY <1>2, Constants DEF Init, Updates
<1>4. [next |-> 0, first |-> None, rows |-> <<>>,
       stride |-> FirstStride, skip |-> FALSE, gen |-> 0] \in Gathers
  BY <1>1, <1>2, Constants DEF Gathers, Untrained
<1>5. /\ cfg \in [Channels -> Updates]
      /\ pairs \in [Channels -> Seq(Nat)]
      /\ hand \in [Channels -> Hands]
  BY <1>3 DEF Init, Hands
<1>6. gather \in [Channels -> Gathers]
  BY <1>4 DEF Init
<1>7. queue \in [Channels -> Seq(Parts)]
  BY DEF Init
<1>8. mode \in Modes /\ sent \in Nat /\ resetAt \in Nat /\ resetAt % NumSymbols = 0
  BY <1>2 DEF Init
<1> QED BY <1>3, <1>5, <1>6, <1>7, <1>8 DEF StrideInv

\* Frames and restarts leave the batches alone.
LEMMA TransmitterKeeps ==
  ASSUME StrideInv, EnqueueTxSymbols \/ CountFrame \/ SendBlank \/ RestartBurst
                      \/ RequestReacquire
  PROVE  StrideInv'
<1>1. CASE EnqueueTxSymbols
  <2> DEFINE c == given + 1
  <2>1. pairs' = [pairs EXCEPT ![c] = Append(@, sent)] \/ UNCHANGED pairs
    BY <1>1 DEF EnqueueTxSymbols
  <2> HIDE DEF c
  <2>2. pairs' \in [Channels -> Seq(Nat)]
    <3>1. \A d \in Channels : Append(pairs[d], sent) \in Seq(Nat)
      BY DEF StrideInv
    <3> QED BY <2>1, <3>1 DEF StrideInv
  <2>3. UNCHANGED <<mode, sent, resetAt, shared, cfg, hand, gather, queue>>
    BY <1>1 DEF EnqueueTxSymbols, controlVars
  <2> QED BY <2>2, <2>3 DEF StrideInv
<1>2. CASE CountFrame
  BY <1>2 DEF CountFrame, StrideInv, channelVars, controlVars
<1>3. CASE SendBlank
  BY <1>3 DEF SendBlank, StrideInv, channelVars, controlVars
<1>4. CASE RestartBurst
  BY <1>4, Constants DEF RestartBurst, StrideInv, channelVars, controlVars
<1>5. CASE RequestReacquire
  <2>1. pairs' = [pairs EXCEPT ![Head(restarting)] = <<>>] /\ <<>> \in Seq(Nat)
    BY <1>5 DEF RequestReacquire
  <2>2. pairs' \in [Channels -> Seq(Nat)]
    BY <2>1 DEF StrideInv
  <2>3. UNCHANGED <<mode, sent, resetAt, shared, cfg, hand, gather, queue>>
    BY <1>5 DEF RequestReacquire, controlVars
  <2> QED BY <2>2, <2>3 DEF StrideInv
<1> QED BY <1>1, <1>2, <1>3, <1>4, <1>5

\* A command makes an update of a stride that is served, for the start of a frame.
LEMMA CommandKeeps ==
  ASSUME StrideInv, Command \/ ApplySharedCfg
  PROVE  StrideInv'
<1>1. ASSUME NEW stride \in Nat \ {0}, Served(stride), NEW skip \in BOOLEAN,
             Schedule(stride, skip)
      PROVE  StrideInv'
  <2>1. Begun(sent) \in Nat /\ Begun(sent) % NumSymbols = 0
    BY FrameBegins DEF StrideInv
  <2>2. shared' \in Updates
    BY <1>1, <2>1 DEF Schedule, Updates, StrideInv
  <2> QED BY <1>1, <2>2 DEF Schedule, StrideInv, channelVars
<1>2. shared.stride \in Nat \ {0} /\ Served(shared.stride) /\ shared.skip \in BOOLEAN
  BY DEF StrideInv, Updates
<1>3. ASSUME NEW s \in Strides, CommandStride(s) PROVE StrideInv'
  BY <1>1, <1>2, <1>3, Constants, NoHitIsServed DEF CommandStride
<1>4. ASSUME NEW b \in Skips, CommandSkip(b) PROVE StrideInv'
  BY <1>1, <1>2, <1>4, Constants DEF CommandSkip
<1>5. ASSUME RequestBatchReset PROVE StrideInv'
  <2>1. sent + ResetLead \in Nat
    BY Constants DEF StrideInv
  <2>2. /\ Begun(sent + ResetLead) \in Nat
        /\ Begun(sent + ResetLead) % NumSymbols = 0
    BY <2>1, FrameBegins
  <2>3. resetAt' \in Nat /\ resetAt' % NumSymbols = 0
    BY <1>5, <2>2, MaxOfTwo DEF RequestBatchReset, StrideInv
  <2> QED BY <1>5, <2>3 DEF RequestBatchReset, StrideInv, channelVars, controlVars
<1>6. ASSUME ApplySharedCfg PROVE StrideInv'
  BY <1>6 DEF ApplySharedCfg, StrideInv
<1> QED BY <1>3, <1>4, <1>5, <1>6 DEF Command

\* A frame begins: resets, updates and the skip to its start.
LEMMA BeginKeeps ==
  ASSUME StrideInv, NEW c \in Channels, Begin(c)
  PROVE  StrideInv'
<1> DEFINE start == Begun(hand[c].frame)
           due == BatchResetDue(c, start)
           g0 == IF computeReset[c] THEN Reset(gather[c]) ELSE gather[c]
           g1 == IF due THEN [g0 EXCEPT !.rows = <<>>, !.first = None, !.next = start] ELSE g0
           g2 == IF mode = "dense" THEN [g1 EXCEPT !.next = Max({@, start})]
                 ELSE Applied(c, g1, start)
<1>1. hand[c] \in [frame : Nat, row : Nat] /\ gather[c] \in Gathers /\ cfg[c] \in Updates
  <2>1. hand[c] \in Hands /\ hand[c] # Idle /\ gather[c] \in Gathers /\ cfg[c] \in Updates
    BY DEF StrideInv, Begin, Idle
  <2> QED BY <2>1 DEF Hands
<1>2. start \in Nat /\ start % NumSymbols = 0
  BY <1>1, FrameBegins
<1> HIDE DEF start
<1>3. g0 \in Gathers
  BY <1>1, ResetKeeps
<1> HIDE DEF g0
<1>4. g1 \in Gathers
  BY <1>2, <1>3, BatchResetKeeps
<1> HIDE DEF g1
<1>5. g2 \in Gathers
  BY <1>1, <1>2, <1>4, SkipKeeps, UpdateKeeps
<1>6. gather' = [gather EXCEPT ![c] = g2]
  BY DEF Begin, g2, g1, g0, due, start
<1> HIDE DEF g2
<1>7. gather' \in [Channels -> Gathers]
  BY <1>5, <1>6 DEF StrideInv
<1>8. hand' \in [Channels -> Hands]
  <2>1. \/ hand' = [hand EXCEPT ![c] = Idle]
        \/ hand' = [hand EXCEPT ![c] = [hand[c] EXCEPT !.row = 1]]
    BY DEF Begin
  <2>2. [hand[c] EXCEPT !.row = 1] \in [frame : Nat, row : Nat]
    BY <1>1
  <2> QED BY <2>1, <2>2 DEF StrideInv, Hands
<1> QED BY <1>7, <1>8 DEF Begin, StrideInv, Untouched, controlVars

\* A dense batch samples what its divisor divides.
LEMMA SampleDenseKeeps ==
  ASSUME StrideInv, NEW c \in Channels, SampleDense(c)
  PROVE  StrideInv'
<1> DEFINE g == Applied(c, gather[c], gather[c].next)
           symbol == Max({g.next, Begun(hand[c].frame)})
           h == [g EXCEPT !.next = symbol + g.stride]
<1>1. hand[c] \in [frame : Nat, row : Nat] /\ gather[c] \in Gathers /\ cfg[c] \in Updates
  <2>1. hand[c] \in Hands /\ hand[c].row # 0 /\ gather[c] \in Gathers /\ cfg[c] \in Updates
    BY DEF StrideInv, SampleDense
  <2> QED BY <2>1 DEF Hands, Idle
<1>2. Joined(c, h, symbol) /\ hand' = [hand EXCEPT ![c] = Kept(c, h)]
  BY DEF SampleDense
<1>3. g \in Gathers
  BY <1>1, UpdateKeeps DEF Gathers
<1> HIDE DEF g
<1>4. PICK d \in 1 .. g.stride : Separates(d, g.stride) /\ g.next % d = 0
  BY <1>3 DEF Gathers
<1>5. /\ g \in [next : Nat, first : Nat \cup {None}, rows : Seq(Nat),
               stride : Nat \ {0}, skip : BOOLEAN, gen : Nat]
      /\ Untrained(g.rows)
  BY <1>3 DEF Gathers
<1>6. d \in Nat \ {0} /\ NumSymbols % d = 0 /\ g.stride % d = 0
  BY <1>4, <1>5 DEF Separates
<1>7. symbol \in Nat /\ symbol % d = 0
  <2>1. Begun(hand[c].frame) \in Nat /\ Begun(hand[c].frame) % d = 0
    BY <1>1, <1>6, FrameBegins
  <2> QED BY <1>4, <1>5, <2>1, MaxOfTwo
<1> HIDE DEF symbol
<1>8. symbol % NumSymbols # Training
  BY <1>4, <1>5, <1>7, SeparatedIsUntrained
<1>9. symbol + g.stride \in Nat /\ (symbol + g.stride) % d = 0
  BY <1>5, <1>6, <1>7, SumIsDivided
<1>10. h \in Gathers
  <2>1. /\ h \in [next : Nat, first : Nat \cup {None}, rows : Seq(Nat),
                 stride : Nat \ {0}, skip : BOOLEAN, gen : Nat]
        /\ h.stride = g.stride /\ h.next = symbol + g.stride /\ h.rows = g.rows
    BY <1>5, <1>9
  <2> HIDE DEF h
  <2> QED BY <1>4, <1>5, <1>9, <2>1 DEF Gathers
<1> HIDE DEF h
<1>11. gather' \in [Channels -> Gathers] /\ queue' \in [Channels -> Seq(Parts)]
  BY <1>2, <1>7, <1>8, <1>10, JoinedKeeps
<1>12. hand' \in [Channels -> Hands]
  BY <1>1, <1>2 DEF Kept, StrideInv, Hands
<1> QED BY <1>11, <1>12 DEF SampleDense, StrideInv, Untouched, controlVars

\* A mask has no row for the training symbol.
LEMMA SampleRegularKeeps ==
  ASSUME StrideInv, NEW c \in Channels, SampleRegular(c)
  PROVE  StrideInv'
<1> DEFINE row == CombRows[hand[c].row]
           symbol == Begun(hand[c].frame) + row
<1>1. hand[c] \in [frame : Nat, row : Nat] /\ gather[c] \in Gathers
  <2>1. hand[c] \in Hands /\ hand[c].row # 0 /\ gather[c] \in Gathers
    BY Constants DEF StrideInv, SampleRegular
  <2> QED BY <2>1 DEF Hands, Idle
<1>2. row \in (0 .. NumSymbols - 1) \ {Training}
  BY Constants DEF SampleRegular
<1>3. Joined(c, gather[c], symbol)
  BY DEF SampleRegular
<1> HIDE DEF row
<1>5. symbol \in Nat /\ symbol % NumSymbols = row
  <2> DEFINE f == hand[c].frame
  <2>1. f \in Nat
    BY <1>1
  <2> HIDE DEF f
  <2>2. f \in Int /\ NumSymbols \in Nat \ {0} /\ row \in 0 .. NumSymbols - 1
    BY <2>1, <1>2, Constants
  <2>3. (NumSymbols * f + row) % NumSymbols = row
    BY <2>2, RestIsUnique
  <2>4. Begun(f) = NumSymbols * f /\ Begun(f) \in Nat
    BY <2>1, <2>2, FrameBegins DEF Begun
  <2>5. symbol = NumSymbols * f + row
    BY <2>4 DEF f
  <2> QED BY <2>2, <2>3, <2>4, <2>5
<1> HIDE DEF symbol
<1>6. gather' \in [Channels -> Gathers] /\ queue' \in [Channels -> Seq(Parts)]
  BY <1>1, <1>2, <1>3, <1>5, JoinedKeeps
<1>7. hand' \in [Channels -> Hands]
  <2>1. [hand[c] EXCEPT !.row = hand[c].row + 1] \in [frame : Nat, row : Nat]
    BY <1>1
  <2>2. \/ hand' = [hand EXCEPT ![c] = Idle]
        \/ hand' = [hand EXCEPT ![c] = [hand[c] EXCEPT !.row = hand[c].row + 1]]
    BY DEF SampleRegular
  <2> QED BY <2>1, <2>2 DEF StrideInv, Hands
<1> QED BY <1>6, <1>7 DEF SampleRegular, StrideInv, Untouched, controlVars

\* A part of a sparse mask is named for the start of its frame.
LEMMA SampleSparseKeeps ==
  ASSUME StrideInv, NEW c \in Channels, SampleSparse(c)
  PROVE  StrideInv'
<1> DEFINE start == Begun(hand[c].frame)
           part == Part(c, start, <<start>>, "full")
<1>1. hand[c] \in [frame : Nat, row : Nat]
  <2>1. hand[c] \in Hands /\ hand[c].row = 1
    BY DEF StrideInv, SampleSparse
  <2> QED BY <2>1 DEF Hands, Idle
<1>2. start \in Nat /\ start % NumSymbols # Training
  <2>1. start \in Nat /\ start % NumSymbols = 0
    BY <1>1, FrameBegins
  <2> HIDE DEF start
  <2> QED BY <2>1, Constants
<1> HIDE DEF start
<1>3. part \in Parts
  BY <1>2 DEF Part, Parts, Untrained
<1>4. Pushed(c, part)
  BY DEF SampleSparse, start
<1> HIDE DEF part
<1>5. queue' \in [Channels -> Seq(Parts)]
  BY <1>3, <1>4 DEF Pushed, StrideInv
<1>6. hand' \in [Channels -> Hands]
  BY DEF SampleSparse, StrideInv, Hands
<1> QED BY <1>5, <1>6 DEF SampleSparse, StrideInv, Untouched, controlVars

\* Every step keeps the invariant.
LEMMA StrideStep == StrideInv /\ [Next]_vars => StrideInv'
<1> SUFFICES ASSUME StrideInv, [Next]_vars PROVE StrideInv'
  OBVIOUS
<1>1. ASSUME NEW c \in Channels, Take(c) PROVE StrideInv'
  <2>1. Head(pairs[c]) \in Nat /\ Tail(pairs[c]) \in Seq(Nat)
    BY <1>1 DEF Take, StrideInv
  <2>2. pairs' \in [Channels -> Seq(Nat)] /\ hand' \in [Channels -> Hands]
    BY <1>1, <2>1 DEF Take, StrideInv, Hands
  <2> QED BY <1>1, <2>2 DEF Take, StrideInv, Untouched, controlVars
<1>2. ASSUME NEW c \in Channels, Channel(c) PROVE StrideInv'
  BY <1>1, <1>2, BeginKeeps, SampleDenseKeeps, SampleRegularKeeps, SampleSparseKeeps
  DEF Channel
<1>3. CASE SenderPop
  <2>1. PICK c \in Left : queue' = [queue EXCEPT ![c] = Tail(@)]
    BY <1>3 DEF SenderPop
  <2>2. c \in Channels /\ queue[c] # <<>>
    BY DEF Left
  <2>3. queue' \in [Channels -> Seq(Parts)]
    BY <2>1, <2>2 DEF StrideInv
  <2> QED BY <1>3, <2>3 DEF SenderPop, StrideInv, channelVars, controlVars
<1>4. CASE Evict
  BY <1>4 DEF Evict, StrideInv, channelVars, controlVars
<1>5. CASE UNCHANGED vars
  BY <1>5 DEF vars, StrideInv, channelVars, controlVars
<1> QED BY <1>2, <1>3, <1>4, <1>5, TransmitterKeeps, CommandKeeps DEF Next, Sender

-----------------------------------------------------------------------------

\* However strides, outputs, resets, restarts and losses follow each other, the
\* next symbol of a channel keeps a divisor with its stride that keeps it off the
\* training symbol (_apply_shared_sensing_if_due, SensingChannel.cpp).
THEOREM StrideInvariant == Spec => []StrideInv
<1> QED BY StrideInit, StrideStep, PTL DEF Spec

\* No batch, in the making or in the sender's queue, holds a training symbol, for
\* any frame length, stride, mask and number of channels.
THEOREM TrainingUnsensed == Spec => []TrainingIsNeverSensed
<1>1. StrideInv => TrainingIsNeverSensed
  <2> SUFFICES ASSUME StrideInv, NEW c \in Channels
               PROVE  /\ Untrained(gather[c].rows)
                      /\ \A i \in DOMAIN queue[c] : Untrained(queue[c][i].rows)
    BY DEF TrainingIsNeverSensed, Untrained
  <2>1. gather[c] \in Gathers /\ queue[c] \in Seq(Parts)
    BY DEF StrideInv
  <2>2. \A i \in DOMAIN queue[c] : queue[c][i] \in Parts
    BY <2>1
  <2> QED BY <2>1, <2>2 DEF Gathers, Parts
<1> QED BY <1>1, StrideInvariant, PTL
=============================================================================
