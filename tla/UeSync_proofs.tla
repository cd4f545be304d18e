---------------------------- MODULE UeSync_proofs ----------------------------
(***************************************************************************)
(* The UE's receive, process and transmit threads keep the uplink tied to  *)
(* the receiver, start together, and correct no error twice, for every     *)
(* frame length, timing advance, window, queue and number of failures and  *)
(* disturbances.                                                           *)
(*                                                                         *)
(* What has to be shown is what each thread may count on while another one *)
(* is half way through: that a restart is known by its epoch, what a       *)
(* resynchronisation leaves behind by its generation, and that of the      *)
(* frames in line, from the oldest being demodulated to the newest queued, *)
(* those from before an alignment are barred until it has settled.         *)
(***************************************************************************)
EXTENDS MCUeSync, TLAPS

TxPlaces == {"period", "start", "epoch", "send"}
States == {"SYNC_SEARCH", "ALIGNMENT", "NORMAL"}
RxPlaces == States \cup {"loop", "raise", "settle", "reset", "seek", "flag", "wait"}
ProcPlaces == {"loop", "schedule", "discard", "shift", "align", "mark",
               "forget", "mute", "search", "gate"}
Gates == {"alignment", "reset"}
Positions == 0 .. (FrameLen - 1)
Batches == [gen : Nat, off : Int]
Captured == [gen : Nat, align : Int, at : Positions, past : SUBSET Gates,
             bad : BOOLEAN, err : Int]

TxStates == [pc : TxPlaces, start : Nat, epoch : Nat, first : BOOLEAN,
             applied : Int, slip : Int]
Orders == [start : Nat, epoch : Nat, flag : BOOLEAN]
Requests == [flag : BOOLEAN, epoch : Nat, count : Nat, clear : BOOLEAN]
RxStates == [pc : RxPlaces, pos : Positions, start : Nat, epoch : Nat, handled : Nat,
             gen : Nat, align : Int, past : SUBSET Gates]
ProcStates == [pc : ProcPlaces, align : Int, from : States, adjust : {0, 1},
               last : Int, bad : Nat, found : BOOLEAN]
Budgets == [failures : Nat, disturb : Nat]

TxTypeOK ==
  /\ tx \in TxStates /\ order \in Orders
  /\ shift \in Int /\ loud \in BOOLEAN /\ errors \in Nat /\ submitted \in Nat

SyncTypeOK ==
  /\ TxTypeOK
  /\ state \in States /\ gen \in Nat /\ latch \in BOOLEAN
  /\ discard \in Int /\ fresh \in BOOLEAN
  /\ request \in Requests /\ rx \in RxStates /\ proc \in ProcStates
  /\ batch \in Seq(Batches)
  /\ frames \in Seq(Captured) /\ slots \in Seq(Captured)
  /\ downlink \in Positions /\ overtaken \in BOOLEAN
  /\ budget \in Budgets

Restarting == {"reset", "seek", "flag"}

\* The restart of both streams: who knows of the new start, and since when.
RestartInv ==
  /\ request.epoch <= request.count /\ rx.epoch <= request.count
  /\ request.epoch = 0 \/ rx.epoch < request.epoch
  /\ submitted <= tx.epoch /\ tx.epoch <= rx.epoch
  /\ rx.handled <= errors
  /\ rx.pc \notin {"flag", "wait"} => ~order.flag
  /\ rx.pc # "wait" => tx.pc = "period"
  /\ rx.pc \in Restarting => tx.epoch < rx.epoch
  /\ rx.pc \notin Restarting \cup {"wait"} => tx.start = rx.start
  /\ rx.pc \in {"flag", "wait"} => order.start = rx.start /\ order.epoch = rx.epoch
  /\ rx.pc = "flag" => ~order.flag
  /\ rx.pc = "wait" =>
       \/ order.flag /\ tx.pc = "period" /\ tx.epoch < rx.epoch
       \/ ~order.flag /\ tx.pc = "start" /\ tx.epoch < rx.epoch
       \/ ~order.flag /\ tx.pc = "epoch" /\ tx.epoch < rx.epoch /\ tx.start = rx.start
       \/ ~order.flag /\ tx.pc = "send" /\ tx.epoch = rx.epoch /\ tx.start = rx.start
          /\ submitted < tx.epoch
       \/ ~order.flag /\ tx.pc = "period" /\ tx.epoch = rx.epoch /\ tx.start = rx.start

\* Where the stream is and where its thread believes it to be.
StreamInv ==
  /\ tx.pc \in {"epoch", "send"} => tx.first
  /\ \/ tx.first \/ tx.slip = -tx.applied \/ Failing
     \/ rx.pc \in Restarting
     \/ rx.pc = "wait" /\ tx.epoch < rx.epoch

Line == slots \o frames
Current(f) == f.gen = gen
Marked(f) == "alignment" \in f.past
NoneIn(list) == \A i \in DOMAIN list : ~Current(list[i])
NoneAligned(list) == \A i \in DOMAIN list : Current(list[i]) => list[i].align = 0
Barred(list) == \A i \in DOMAIN list : Current(list[i]) => Marked(list[i]) \/ latch

\* Every unmarked frame of the generation either begins where the receiver is, with
\* no aligned frame behind it, or is held by the latch, with none before it.
Opens(list) ==
  \A i \in DOMAIN list : Current(list[i]) /\ ~Marked(list[i]) =>
    \/ /\ list[i].at = rx.pos
       /\ \A j \in DOMAIN list : i < j /\ Current(list[j]) => list[j].align = 0
    \/ /\ latch /\ list[i].align = 0
       /\ \A j \in DOMAIN list : j < i /\ Current(list[j]) => list[j].align = 0

Young(list) == \A i \in DOMAIN list : list[i].gen <= gen

Aligning == {"ALIGNMENT", "raise", "settle"}
Scheduling == {"schedule", "discard", "shift", "align"}
\* An alignment waits to be applied.
Pending == rx.pc = "ALIGNMENT" \/ (state = "ALIGNMENT" /\ rx.pc \notin {"raise", "settle"})

\* What a resynchronisation leaves behind is known by its generation.
GenerationInv ==
  /\ rx.gen <= gen
  /\ Young(Line) /\ Young(batch)
  /\ state = "SYNC_SEARCH" \/ proc.pc \in {"mute", "search"} => NoneIn(slots)
  /\ rx.pc \in {"reset", "seek"} => NoneIn(Line)
  /\ state = "SYNC_SEARCH" /\ ~NoneIn(batch) => rx.pc \notin Aligning \cup {"NORMAL"}
  /\ proc.pc = "search" /\ ~NoneIn(batch) => state = "SYNC_SEARCH"
  /\ proc.pc \in {"mute", "search"} /\ rx.pc = "SYNC_SEARCH" /\ rx.gen = gen =>
       state = "SYNC_SEARCH"

\* One alignment at a time: from its schedule until the frames are where it puts them.
AlignmentInv ==
  /\ proc.pc \in Scheduling => state # "ALIGNMENT" /\ rx.pc \notin Aligning
  /\ proc.found => proc.pc \in Scheduling \cup {"mark"}
  /\ proc.found /\ proc.pc \in Scheduling =>
       state = "SYNC_SEARCH" /\ rx.pc # "NORMAL" /\ NoneIn(Line)
  /\ proc.pc \in {"discard", "shift", "align"} /\ proc.from = "SYNC_SEARCH" =>
       state = "SYNC_SEARCH"
  /\ proc.pc = "align" => (fresh <=> proc.from = "SYNC_SEARCH")
  /\ rx.pc \in Aligning => state # "NORMAL"
  /\ rx.pc = "ALIGNMENT" => rx.align = discard
  /\ proc.pc \in Scheduling \/ Pending => NoneAligned(Line)
  /\ proc.pc = "mark" /\ Pending /\ proc.found => NoneIn(Line) /\ rx.pc # "NORMAL"

\* No frame received before an alignment may ask for another one.
GateInv ==
  /\ Pending /\ proc.pc # "mark" =>
       Barred(Line) /\ (rx.pc = "NORMAL" /\ rx.gen = gen => latch)
  /\ rx.pc \in {"raise", "settle"} =>
       NoneAligned(slots) /\ (proc.pc # "mark" => Barred(slots))
  /\ proc.pc # "mark" => Opens(Line)

\* The uplink's anchor, the receiver's position, and what either is still owed.
Owes(n) == (shift + rx.pos + n) % FrameLen = 0
AnchorInv ==
  /\ rx.pc = "reset" => rx.pos = 0
  /\ rx.pc # "reset" /\ ~overtaken =>
       /\ state = "NORMAL" /\ proc.pc # "align" => Owes(0)
       /\ Pending => fresh \/ Owes(discard)
       /\ rx.pc \in {"raise", "settle"} => Owes(0)
       /\ proc.pc \in {"discard", "shift"} /\ proc.from # "SYNC_SEARCH" => Owes(0)
       /\ proc.pc \in {"shift", "align"} /\ proc.from # "SYNC_SEARCH" =>
            discard = proc.align
       /\ proc.pc = "align" /\ proc.from # "SYNC_SEARCH" => Owes(discard)

SyncInv ==
  /\ SyncTypeOK /\ RestartInv /\ StreamInv
  /\ GenerationInv /\ AlignmentInv /\ GateInv /\ AnchorInv

\* A function on an initial segment is a sequence.
LEMMA IsASeq ==
  ASSUME NEW S, NEW n \in Nat, NEW f, \A i \in 1 .. n : f[i] \in S,
         f = [i \in 1 .. n |-> f[i]]
  PROVE  f \in Seq(S)
OBVIOUS

\* What the assumptions say of each constant.
LEMMA Constants ==
  /\ FrameLen \in Nat \ {0} /\ TimingAdvance \in Int
  /\ Phases \in SUBSET Positions /\ 0 \in Positions
  /\ AlignWindow \in Nat /\ ResetHold \in Nat
  /\ Failures \in Nat /\ Disturbances \in Nat
BY UplinkTxAssumption, UeSyncAssumption DEF Positions

\* A position is a number below the length of a frame.
LEMMA ModuloFrame ==
  /\ \A n \in Int : n % FrameLen \in Positions
  /\ \A n \in Int : Canonical(n) \in Int
<1>1. FrameLen \in Nat \ {0}
  BY Constants
<1>2. ASSUME NEW n \in Int PROVE n % FrameLen \in Positions
  BY <1>1 DEF Positions
<1> QED BY <1>1, <1>2 DEF Canonical, Positions

\* The smaller of two numbers.
LEMMA MinOfTwo ==
  ASSUME NEW a \in Int, NEW b \in Int
  PROVE  Min({a, b}) = IF a <= b THEN a ELSE b
<1> DEFINE m == IF a <= b THEN a ELSE b
<1>1. m \in {a, b} /\ \A y \in {a, b} : m <= y
  OBVIOUS
<1>2. \A x \in {a, b} : (\A y \in {a, b} : x <= y) => x = m
  OBVIOUS
<1> QED BY <1>1, <1>2 DEF Min

\* Where a first period starts from: the target, and nothing else changes.
LEMMA PlacedTyped ==
  ASSUME TxTypeOK
  PROVE  /\ Placed \in TxStates
         /\ Placed.start = tx.start /\ Placed.epoch = tx.epoch
         /\ Placed.first = tx.first
         /\ tx.first \/ tx.slip = -tx.applied => Placed.slip = -Placed.applied
         /\ Advance \in Int /\ Advance <= FrameLen
<1>1. FrameLen \in Nat \ {0} /\ TimingAdvance \in Int
  BY Constants
<1>2. Target \in Int
  BY <1>1 DEF Target, TxTypeOK, TxStates
<1>3. /\ Placed \in TxStates
      /\ Placed.start = tx.start /\ Placed.epoch = tx.epoch /\ Placed.first = tx.first
      /\ tx.first \/ tx.slip = -tx.applied => Placed.slip = -Placed.applied
  <2>1. CASE tx.first
    <3>1. Placed = [tx EXCEPT !.applied = Target, !.slip = -Target]
      BY <2>1 DEF Placed
    <3>2. -Target \in Int
      BY <1>2
    <3>3. /\ Placed \in TxStates
          /\ Placed.start = tx.start /\ Placed.epoch = tx.epoch
          /\ Placed.first = tx.first /\ Placed.applied = Target /\ Placed.slip = -Target
      BY <3>1, <3>2, <1>2 DEF TxTypeOK, TxStates
    <3> QED BY <3>3
  <2>2. CASE ~tx.first
    BY <2>2, <1>2 DEF Placed, TxTypeOK, TxStates
  <2> QED BY <2>1, <2>2
<1>4. Advance \in Int /\ Advance <= FrameLen
  BY <1>1, <1>2, <1>3, MinOfTwo DEF Advance, TxStates
<1> QED BY <1>3, <1>4

\* What one period does to the thread, in full.
LEMMA PeriodSent ==
  ASSUME TxTypeOK, NEW n \in 0 .. (FrameLen - Advance)
  PROVE  /\ SentPeriod(n) \in TxStates
         /\ SentPeriod(n).pc = "period"
         /\ SentPeriod(n).start = tx.start /\ SentPeriod(n).epoch = tx.epoch
         /\ SentPeriod(n).first <=> tx.first /\ n = 0
         /\ n = FrameLen - Advance /\ (tx.first \/ tx.slip = -tx.applied) =>
              SentPeriod(n).slip = -SentPeriod(n).applied
<1>1. FrameLen \in Nat \ {0}
  BY Constants
<1> DEFINE t == Placed
           new == [t EXCEPT !.pc = "period", !.first = t.first /\ n = 0,
                            !.slip = t.slip + n - FrameLen,
                            !.applied = IF n = FrameLen - Advance THEN t.applied + Advance
                                        ELSE t.applied]
<1>5. SentPeriod(n) = new
  BY DEF SentPeriod
<1> HIDE DEF t
<1>6. /\ t \in TxStates
      /\ t.start = tx.start /\ t.epoch = tx.epoch /\ t.first = tx.first
      /\ tx.first \/ tx.slip = -tx.applied => t.slip = -t.applied
      /\ Advance \in Int /\ Advance <= FrameLen
  BY PlacedTyped DEF t
<1>7. /\ t.slip + n - FrameLen \in Int /\ t.applied + Advance \in Int
      /\ (t.first /\ n = 0) \in BOOLEAN
  BY <1>1, <1>6 DEF TxStates
<1>8. /\ new \in TxStates
      /\ new.pc = "period" /\ new.start = t.start /\ new.epoch = t.epoch
      /\ new.first <=> t.first /\ n = 0
      /\ new.slip = t.slip + n - FrameLen
      /\ n = FrameLen - Advance => new.applied = t.applied + Advance
  BY <1>6, <1>7 DEF TxPlaces, TxStates
<1> QED BY <1>1, <1>5, <1>6, <1>8 DEF TxStates

\* A frame carries the generation, alignment and position it was taken with.
LEMMA CapturesTyped ==
  ASSUME SyncTypeOK, NEW p \in Positions, NEW g \in Nat, NEW d \in Int,
         NEW f \in Captures(p, g, d)
  PROVE  /\ f \in Captured
         /\ f.gen = g /\ f.align = d /\ f.at = p /\ f.past = rx.past
         /\ budget.disturb = 0 => ~f.bad
<1>1. AlignWindow \in Int /\ -AlignWindow \in Int /\ FrameLen \in Nat \ {0}
  BY Constants
<1>2. Canonical(downlink - p) \in Int
  BY <1>1, ModuloFrame DEF SyncTypeOK, Positions
<1>3. rx.past \in SUBSET Gates
  BY DEF SyncTypeOK, RxStates
<1>4. CASE f = [gen |-> g, align |-> d, at |-> p, past |-> rx.past, bad |-> FALSE,
                err |-> Canonical(downlink - p)]
  BY <1>2, <1>3, <1>4 DEF Captured
<1>5. CASE /\ budget.disturb # 0
           /\ \E e \in {-AlignWindow, 0, AlignWindow} :
                f = [gen |-> g, align |-> d, at |-> p, past |-> rx.past, bad |-> TRUE,
                     err |-> e]
  BY <1>1, <1>3, <1>5 DEF Captured
<1> QED BY <1>4, <1>5 DEF Captures

\* A frame is queued or dropped.
LEMMA Pushed ==
  ASSUME SyncTypeOK, NEW p \in Positions, NEW g \in Nat, NEW d \in Int,
         NEW f \in Captures(p, g, d), RxPush(f)
  PROVE  /\ frames' \in Seq(Captured)
         /\ frames' = frames \/ frames' = Append(frames, f)
         /\ budget' \in Budgets
<1>1. f \in Captured /\ (budget.disturb = 0 => ~f.bad)
  BY CapturesTyped
<1>2. frames' = frames \/ frames' = Append(frames, f)
  BY DEF RxPush
<1>3. frames' \in Seq(Captured)
  <2>1. frames \in Seq(Captured)
    BY DEF SyncTypeOK
  <2> QED BY <1>1, <1>2, <2>1
<1>4. budget' \in Budgets
  <2>1. budget.disturb \in Nat /\ budget.failures \in Nat
    BY DEF SyncTypeOK, Budgets
  <2>2. budget \in Budgets /\ f.bad \in BOOLEAN
    BY <1>1 DEF SyncTypeOK, Captured
  <2> QED BY <1>1, <2>1, <2>2 DEF RxPush, Budgets
<1> QED BY <1>2, <1>3, <1>4

\* A period of the uplink keeps the types of the transmit thread.
LEMMA SentTyped ==
  ASSUME TxTypeOK, NEW n \in 0 .. (FrameLen - Advance), TxSend(n)
  PROVE  TxTypeOK'
<1>1. tx' \in TxStates
  BY PeriodSent DEF TxSend
<1>2. errors' \in Nat /\ submitted' \in Nat
  BY DEF TxSend, TxTypeOK, TxStates
<1> QED BY <1>1, <1>2 DEF TxSend, TxTypeOK

\* Closing a gate keeps the types of the frames and of the receive thread.
LEMMA MarkTyped ==
  ASSUME SyncTypeOK, NEW g \in Gates, NEW b \in BOOLEAN, Mark(g, b)
  PROVE  frames' \in Seq(Captured) /\ slots' \in Seq(Captured) /\ rx' \in RxStates
<1>1. ASSUME NEW f \in Captured PROVE [f EXCEPT !.past = @ \union {g}] \in Captured
  <2>1. f.past \union {g} \in SUBSET Gates
    BY DEF Captured
  <2> QED BY <2>1 DEF Captured
<1>2. ASSUME NEW list \in Seq(Captured)
      PROVE  [i \in DOMAIN list |-> [list[i] EXCEPT !.past = @ \union {g}]]
               \in Seq(Captured)
  <2>1. DOMAIN list = 1 .. Len(list) /\ Len(list) \in Nat
    OBVIOUS
  <2>2. \A i \in 1 .. Len(list) : [list[i] EXCEPT !.past = @ \union {g}] \in Captured
    BY <1>1
  <2> QED BY <2>1, <2>2, IsASeq
<1>3. frames' \in Seq(Captured) /\ slots' \in Seq(Captured)
  BY <1>2 DEF Mark, SyncTypeOK
<1>4. rx' \in RxStates
  <2>1. rx.past \union {g} \in SUBSET Gates /\ rx \in RxStates
    BY DEF SyncTypeOK, RxStates
  <2> QED BY <2>1 DEF Mark, RxStates
<1> QED BY <1>3, <1>4

\* A restart that is asked for is a request.
LEMMA AskedTyped ==
  ASSUME request \in Requests
  PROVE  Asked \in Requests
<1>1. request.count + 1 \in Nat
  BY DEF Requests
<1> QED BY <1>1 DEF Asked, Requests

\* Every step keeps the types of the shared values.
LEMMA SyncTyped == SyncTypeOK /\ [Next]_vars => SyncTypeOK'
<1> SUFFICES ASSUME SyncTypeOK, [Next]_vars PROVE SyncTypeOK'
  OBVIOUS
<1>0. FrameLen \in Nat \ {0} /\ Phases \subseteq Positions
  BY Constants
<1>t. /\ rx \in RxStates /\ proc \in ProcStates /\ request \in Requests
      /\ budget \in Budgets /\ tx \in TxStates /\ order \in Orders
  BY DEF SyncTypeOK, TxTypeOK
<1>1. CASE RxDispatch
  <2>1. rx' \in RxStates
    BY <1>t, <1>1 DEF RxDispatch, RxStates, RxPlaces, States, SyncTypeOK, Gates
  <2> QED BY <1>1, <2>1 DEF RxDispatch, SyncTypeOK, TxTypeOK, txVars, States
<1>2. CASE RxSearch
  <2>1. rx' \in RxStates
    BY <1>2, <1>t DEF RxSearch, RxStates, RxPlaces
  <2>2. rx.pos \in Positions /\ rx.gen \in Nat
    BY <1>t DEF RxStates
  <2>3. downlink - rx.pos \in Int
    BY <1>0, <1>t, <2>2 DEF Positions, SyncTypeOK
  <2> DEFINE r == (downlink - rx.pos) % FrameLen
  <2>4. r \in Int /\ r - FrameLen \in Int
    <3>1. r \in Positions
      BY <2>3, ModuloFrame
    <3> HIDE DEF r
    <3> QED BY <1>0, <3>1 DEF Positions
  <2> HIDE DEF r
  <2>5. \/ batch' = batch
        \/ \E off \in {0, r, r - FrameLen} : batch' = <<[gen |-> rx.gen, off |-> off]>>
    BY <1>2 DEF RxSearch, r
  <2>6. batch' \in Seq(Batches)
    <3>1. batch \in Seq(Batches)
      BY DEF SyncTypeOK
    <3>2. \A off \in {0, r, r - FrameLen} : [gen |-> rx.gen, off |-> off] \in Batches
      BY <2>2, <2>4 DEF Batches
    <3>3. ASSUME NEW b \in Batches PROVE <<b>> \in Seq(Batches)
      OBVIOUS
    <3> QED BY <2>5, <3>1, <3>2, <3>3
  <2> QED BY <1>2, <2>1, <2>6 DEF RxSearch, SyncTypeOK, TxTypeOK, txVars
<1>3. CASE RxNormal
  <2>1. rx' \in RxStates
    BY <1>3, <1>t DEF RxNormal, RxStates, RxPlaces
  <2>2. rx.pos \in Positions /\ rx.gen \in Nat /\ 0 \in Int
    BY <1>t DEF RxStates
  <2>3. frames' \in Seq(Captured) /\ budget' \in Budgets
    BY <1>3, <2>2, Pushed DEF RxNormal
  <2> QED BY <1>3, <2>1, <2>3 DEF RxNormal, SyncTypeOK, TxTypeOK, txVars
<1>4. CASE RxAlign
  <2> DEFINE p == (rx.pos + rx.align) % FrameLen
  <2>1. rx.pos + rx.align \in Int /\ rx.align \in Int
    BY <1>0, <1>t DEF RxStates, Positions
  <2>2. p \in Positions
    BY <2>1, ModuloFrame
  <2>3. PICK f \in Captures(p, gen, rx.align) : RxPush(f)
    BY <1>4 DEF RxAlign
  <2>4. frames' \in Seq(Captured) /\ budget' \in Budgets
    BY <2>1, <2>2, <2>3, Pushed DEF SyncTypeOK
  <2>5. Canonical(p) \in Int
    BY <1>0, <2>2, ModuloFrame DEF Positions
  <2>6. rx' = [rx EXCEPT !.pc = "raise", !.pos = p]
    BY <1>4 DEF RxAlign
  <2>7. shift' = -Canonical(p) \/ shift' = shift
    BY <1>4 DEF RxAlign
  <2> HIDE DEF p
  <2>8. rx' \in RxStates
    BY <1>t, <2>2, <2>6 DEF RxStates, RxPlaces
  <2>9. shift' \in Int
    BY <2>5, <2>7 DEF SyncTypeOK, TxTypeOK
  <2> QED BY <1>4, <2>4, <2>8, <2>9 DEF RxAlign, SyncTypeOK, TxTypeOK
<1>5. CASE RxRaise
  <2>1. rx' \in RxStates
    BY <1>t, <1>5 DEF RxRaise, RxStates, RxPlaces
  <2> QED BY <1>5, <2>1 DEF RxRaise, SyncTypeOK, TxTypeOK, txVars, States
<1>6. CASE RxEnterNormal
  <2>1. rx' \in RxStates
    BY <1>t, <1>6 DEF RxEnterNormal, RxStates, RxPlaces
  <2> QED BY <1>6, <2>1 DEF RxEnterNormal, SyncTypeOK, TxTypeOK, txVars, States
<1>7. CASE RxError
  <2>1. rx' \in RxStates
    BY <1>t, <1>7 DEF RxError, RxStates, RxPlaces
  <2>2. request' \in Requests
    <3>1. request' = Asked
      BY <1>7 DEF RxError
    <3> QED BY <1>t, <3>1, AskedTyped
  <2>3. budget' \in Budgets
    BY <1>t, <1>7 DEF RxError, Budgets
  <2> QED BY <1>7, <2>1, <2>2, <2>3 DEF RxError, SyncTypeOK, TxTypeOK, txVars, States
<1>8. CASE RxRestart
  <2> DEFINE e == IF request.flag /\ request.epoch # 0 THEN request.epoch
                  ELSE request.count + 1
  <2>1. e \in Nat
    BY <1>t DEF Requests
  <2>2. /\ rx' = [rx EXCEPT !.pc = "reset", !.epoch = e, !.handled = errors, !.pos = 0,
                            !.start = @ + 1]
        /\ request' = [flag |-> FALSE, epoch |-> 0, clear |-> TRUE,
                       count |-> IF e > request.count THEN e ELSE request.count]
    BY <1>8 DEF RxRestart
  <2> HIDE DEF e
  <2>3. 0 \in Positions /\ errors \in Nat
    BY Constants DEF SyncTypeOK, TxTypeOK
  <2>4. rx' \in RxStates
    <3> DEFINE r == [rx EXCEPT !.epoch = e, !.start = rx.start + 1]
               q == [r EXCEPT !.handled = errors, !.pos = 0]
    <3>1. rx' = [q EXCEPT !.pc = "reset"]
      BY <1>t, <2>2 DEF RxStates
    <3>2. r \in RxStates
      <4>1. rx.start + 1 \in Nat
        BY <1>t DEF RxStates
      <4> QED BY <1>t, <2>1, <4>1 DEF RxStates
    <3> HIDE DEF r
    <3>3. q \in RxStates
      BY <2>3, <3>2 DEF RxStates
    <3> HIDE DEF q
    <3> QED BY <3>1, <3>3 DEF RxStates, RxPlaces
  <2>5. request' \in Requests
    BY <1>t, <2>1, <2>2 DEF Requests
  <2>6. proc' \in ProcStates
    <3>1. proc' = [proc EXCEPT !.adjust = 0, !.last = 0, !.bad = 0]
      BY <1>8 DEF RxRestart
    <3> DEFINE q == [proc EXCEPT !.adjust = 0, !.last = 0]
    <3>2. proc' = [q EXCEPT !.bad = 0]
      BY <3>1
    <3>3. q \in ProcStates
      <4>1. [proc EXCEPT !.adjust = 0] \in ProcStates
        BY <1>t DEF ProcStates
      <4>2. \A r \in ProcStates : [r EXCEPT !.last = 0] \in ProcStates
        BY DEF ProcStates
      <4> QED BY <4>1, <4>2
    <3> HIDE DEF q
    <3> QED BY <3>2, <3>3 DEF ProcStates
  <2>7. gen' \in Nat /\ latch' \in BOOLEAN /\ downlink' \in Positions
    <3>1. gen' = gen + 1 /\ latch' = FALSE /\ downlink' \in Phases
      BY <1>8 DEF RxRestart
    <3>2. gen \in Nat
      BY DEF SyncTypeOK
    <3>3. gen' \in Nat /\ downlink' \in Positions
      BY <1>0, <3>1, <3>2
    <3>4. latch' \in BOOLEAN
      BY <3>1
    <3> QED BY <3>3, <3>4
  <2> QED BY <1>8, <2>4, <2>5, <2>6, <2>7 DEF RxRestart, SyncTypeOK, TxTypeOK, txVars
<1>9. CASE RxResetShift
  <2>1. rx' \in RxStates
    BY <1>t, <1>9 DEF RxResetShift, RxStates, RxPlaces
  <2> QED BY <1>9, <2>1 DEF RxResetShift, SyncTypeOK, TxTypeOK, txVars, States
<1>10. CASE RxEnterSearch
  <2>1. rx' \in RxStates
    BY <1>t, <1>10 DEF RxEnterSearch, RxStates, RxPlaces
  <2>2. order' \in Orders
    BY <1>t, <1>10 DEF RxEnterSearch, Orders, RxStates
  <2> QED BY <1>10, <2>1, <2>2 DEF RxEnterSearch, SyncTypeOK, TxTypeOK, txVars, States
<1>11. CASE RxFlag
  <2>1. rx' \in RxStates
    BY <1>t, <1>11 DEF RxFlag, RxStates, RxPlaces
  <2>2. order' \in Orders
    BY <1>t, <1>11 DEF RxFlag, Orders
  <2> QED BY <1>11, <2>1, <2>2 DEF RxFlag, SyncTypeOK, TxTypeOK, txVars, States
<1>12. CASE RxStarted
  <2>1. rx' \in RxStates
    BY <1>t, <1>12 DEF RxStarted, RxStates, RxPlaces
  <2> QED BY <1>12, <2>1 DEF RxStarted, SyncTypeOK, TxTypeOK, txVars, States
<1>13. CASE ProcClear
  <2>1. request' \in Requests
    BY <1>t, <1>13 DEF ProcClear, Requests
  <2> QED BY <1>13, <2>1 DEF ProcClear, SyncTypeOK, TxTypeOK, txVars, States
<1>14. CASE ProcMiss
  BY <1>14 DEF ProcMiss, SyncTypeOK, TxTypeOK, txVars
<1>15. CASE ProcFound
  <2>1. proc' \in ProcStates
    <3>1. Head(batch).off \in Int
      <4>1. batch # <<>> /\ batch \in Seq(Batches)
        BY <1>15 DEF ProcFound, SyncTypeOK
      <4>2. Head(batch) \in Batches
        BY <4>1
      <4> QED BY <4>2 DEF Batches
    <3>2. proc' = [proc EXCEPT !.pc = "schedule", !.align = Head(batch).off, !.found = TRUE]
      BY <1>15 DEF ProcFound
    <3> QED BY <1>t, <3>1, <3>2 DEF ProcStates, ProcPlaces
  <2> QED BY <1>15, <2>1 DEF ProcFound, SyncTypeOK, TxTypeOK, txVars, States
<1>16. CASE ProcLaunch
  <2>1. frames' \in Seq(Captured) /\ slots' \in Seq(Captured)
    BY <1>t, <1>16 DEF ProcLaunch, SyncTypeOK
  <2> QED BY <1>16, <2>1 DEF ProcLaunch, SyncTypeOK, TxTypeOK, txVars, States
<1>17. CASE ProcCollect
  <2>1. slots # <<>> /\ Head(slots) \in Captured /\ slots' = Tail(slots)
        /\ slots' \in Seq(Captured)
    BY <1>17 DEF ProcCollect, SyncTypeOK
  <2> DEFINE f == Head(slots)
  <2>2. f.err \in Int
    BY <2>1 DEF Captured
  <2>3. proc.bad \in Nat /\ proc \in ProcStates
    BY <1>t DEF ProcStates
  <2>4. PICK p \in ProcPlaces, a \in Int, j \in {0, 1} :
          Tracked(f) = [proc EXCEPT !.pc = p, !.align = a, !.found = FALSE,
                                    !.last = f.err, !.adjust = j]
    <3> DEFINE in == Size(f.err) \in 1 .. AlignWindow
               open == ~(latch /\ f.align = 0) /\ "alignment" \notin f.past
               due == in /\ open /\ proc.adjust >= 1
               p == IF due THEN "schedule" ELSE "loop"
               a == IF due THEN f.err ELSE 0
               j == IF in /\ open /\ ~due /\ f.err * proc.last >= 0 THEN 1 ELSE 0
    <3>1. Tracked(f) = [proc EXCEPT !.pc = p, !.align = a, !.found = FALSE,
                                    !.last = f.err, !.adjust = j]
      BY DEF Tracked
    <3> HIDE DEF due
    <3>2. p \in ProcPlaces /\ a \in Int /\ j \in {0, 1}
      BY <2>2 DEF ProcPlaces
    <3> HIDE DEF p, a, j
    <3> QED BY <3>1, <3>2
  <2>5. Tracked(f) \in ProcStates
    BY <2>2, <2>3, <2>4 DEF ProcStates
  <2>6. \/ proc' = proc
        \/ proc' = [proc EXCEPT !.pc = "forget", !.bad = 0]
        \/ \E n \in Nat : proc' = [Tracked(f) EXCEPT !.bad = n]
    <3>1. [Tracked(f) EXCEPT !.bad = @ + 1] = [Tracked(f) EXCEPT !.bad = Tracked(f).bad + 1]
      OBVIOUS
    <3>2. Tracked(f).bad + 1 \in Nat /\ 0 \in Nat
      BY <2>5 DEF ProcStates
    <3> HIDE DEF f
    <3> QED BY <1>17, <3>1, <3>2 DEF ProcCollect, f
  <2>7. proc' \in ProcStates
    <3>1. [proc EXCEPT !.pc = "forget", !.bad = 0] \in ProcStates
      BY <2>3 DEF ProcStates, ProcPlaces
    <3>2. \A n \in Nat : [Tracked(f) EXCEPT !.bad = n] \in ProcStates
      BY <2>5 DEF ProcStates
    <3> QED BY <2>3, <2>6, <3>1, <3>2
  <2>8. latch' \in BOOLEAN
    BY <1>17 DEF ProcCollect, SyncTypeOK
  <2> QED BY <1>17, <2>1, <2>7, <2>8 DEF ProcCollect, SyncTypeOK, TxTypeOK, txVars
<1>18. CASE ProcSchedule
  <2>1. proc' \in ProcStates
    BY <1>t, <1>18 DEF ProcSchedule, ProcStates, ProcPlaces, SyncTypeOK
  <2> QED BY <1>18, <2>1 DEF ProcSchedule, SyncTypeOK, TxTypeOK, txVars, States
<1>19. CASE ProcDiscard
  <2>1. proc' \in ProcStates
    BY <1>t, <1>19 DEF ProcDiscard, ProcStates, ProcPlaces
  <2>2. discard' \in Int
    BY <1>t, <1>19 DEF ProcDiscard, ProcStates
  <2> QED BY <1>19, <2>1, <2>2 DEF ProcDiscard, SyncTypeOK, TxTypeOK, txVars, States
<1>20. CASE ProcShift
  <2>1. proc' \in ProcStates
    BY <1>t, <1>20 DEF ProcShift, ProcStates, ProcPlaces
  <2>2. shift' \in Int /\ fresh' \in BOOLEAN
    <3>1. proc.align \in Int
      BY <1>t DEF ProcStates
    <3>2. Canonical(proc.align) \in Int
      BY <3>1, ModuloFrame
    <3> QED BY <1>20, <3>2 DEF ProcShift, SyncTypeOK, TxTypeOK
  <2> QED BY <1>20, <2>1, <2>2 DEF ProcShift, SyncTypeOK, TxTypeOK, txVars, States
<1>21. CASE ProcAlign
  <2>1. proc' \in ProcStates
    BY <1>t, <1>21 DEF ProcAlign, ProcStates, ProcPlaces
  <2> QED BY <1>21, <2>1 DEF ProcAlign, SyncTypeOK, TxTypeOK, txVars, States
<1>22. CASE ProcMark
  <2>1. "alignment" \in Gates
    BY DEF Gates
  <2>2. PICK b \in BOOLEAN : Mark("alignment", b)
    BY <1>22 DEF ProcMark
  <2>3. frames' \in Seq(Captured) /\ slots' \in Seq(Captured) /\ rx' \in RxStates
    BY <2>1, <2>2, MarkTyped
  <2>4. proc' \in ProcStates
    <3> DEFINE q == [proc EXCEPT !.pc = "loop", !.align = 0]
    <3>1. proc' = [q EXCEPT !.found = FALSE]
      BY <1>22 DEF ProcMark
    <3>2. q \in ProcStates
      <4>1. [proc EXCEPT !.pc = "loop"] \in ProcStates
        BY <1>t DEF ProcStates, ProcPlaces
      <4>2. \A r \in ProcStates : [r EXCEPT !.align = 0] \in ProcStates
        BY DEF ProcStates
      <4> QED BY <4>1, <4>2
    <3> HIDE DEF q
    <3> QED BY <3>1, <3>2 DEF ProcStates
  <2>5. latch' \in BOOLEAN
    BY <1>22 DEF ProcMark, SyncTypeOK
  <2> QED BY <1>22, <2>3, <2>4, <2>5 DEF ProcMark, SyncTypeOK, TxTypeOK, txVars
<1>23. CASE ProcForget
  <2>1. proc' \in ProcStates
    <3> DEFINE q == [proc EXCEPT !.pc = "mute", !.adjust = 0]
    <3>1. proc' = [q EXCEPT !.last = 0]
      BY <1>23 DEF ProcForget
    <3>2. q \in ProcStates
      BY <1>t DEF ProcStates, ProcPlaces
    <3> HIDE DEF q
    <3> QED BY <3>1, <3>2 DEF ProcStates
  <2>2. gen' \in Nat /\ latch' \in BOOLEAN
    <3>1. gen' = gen + 1 /\ latch' = FALSE
      BY <1>23 DEF ProcForget
    <3>2. gen \in Nat
      BY DEF SyncTypeOK
    <3>3. gen' \in Nat
      BY <3>1, <3>2
    <3>4. latch' \in BOOLEAN
      BY <3>1
    <3> QED BY <3>3, <3>4
  <2> QED BY <1>23, <2>1, <2>2 DEF ProcForget, SyncTypeOK, TxTypeOK, txVars, States
<1>24. CASE ProcMute
  <2>1. proc' \in ProcStates
    BY <1>t, <1>24 DEF ProcMute, ProcStates, ProcPlaces
  <2>2. frames' \in Seq(Captured) /\ batch' \in Seq(Batches)
    BY <1>24 DEF ProcMute
  <2> QED BY <1>24, <2>1, <2>2 DEF ProcMute, SyncTypeOK, TxTypeOK
<1>25. CASE ProcEnterSearch
  <2>1. proc' \in ProcStates
    BY <1>t, <1>25 DEF ProcEnterSearch, ProcStates, ProcPlaces
  <2> QED BY <1>25, <2>1 DEF ProcEnterSearch, SyncTypeOK, TxTypeOK, txVars, States
<1>26. CASE ProcGate
  <2>1. "reset" \in Gates
    BY DEF Gates
  <2>2. PICK b \in BOOLEAN : Mark("reset", b)
    BY <1>26 DEF ProcGate
  <2>3. frames' \in Seq(Captured) /\ slots' \in Seq(Captured) /\ rx' \in RxStates
    BY <2>1, <2>2, MarkTyped
  <2>4. proc' \in ProcStates
    BY <1>t, <1>26 DEF ProcGate, ProcStates, ProcPlaces
  <2> QED BY <1>26, <2>3, <2>4 DEF ProcGate, SyncTypeOK, TxTypeOK, txVars
<1>27. CASE AsyncError
  <2>1. request' \in Requests
    <3>1. request' = Asked
      BY <1>27 DEF AsyncError
    <3> QED BY <1>t, <3>1, AskedTyped
  <2>2. budget' \in Budgets
    BY <1>t, <1>27 DEF AsyncError, Budgets
  <2> QED BY <1>27, <2>1, <2>2 DEF AsyncError, SyncTypeOK, TxTypeOK, txVars, States
<1>28. CASE Drift
  <2>1. downlink + 1 \in Int
    BY <1>0 DEF SyncTypeOK, Positions
  <2>2. downlink' \in Positions
    BY <1>28, <2>1, ModuloFrame DEF Drift
  <2>3. budget' \in Budgets
    BY <1>t, <1>28 DEF Drift, Budgets
  <2> QED BY <1>28, <2>2, <2>3 DEF Drift, SyncTypeOK, TxTypeOK, txVars
<1>29. CASE Transmit
  <2>1. CASE TxTakeRestart
    <3>1. order' \in Orders /\ tx' \in TxStates
      BY <1>t, <2>1 DEF TxTakeRestart, Orders, TxStates, TxPlaces
    <3> QED BY <1>29, <2>1, <3>1
               DEF Transmit, TxTakeRestart, TxTypeOK, syncVars, SyncTypeOK
  <2>2. CASE TxReadStart
    <3>1. tx' \in TxStates
      <4>1. tx' = [tx EXCEPT !.pc = "epoch", !.start = order.start, !.first = TRUE,
                             !.applied = 0, !.slip = 0]
        BY <2>2 DEF TxReadStart
      <4>2. order.start \in Nat
        BY <1>t DEF Orders
      <4> DEFINE q == [tx EXCEPT !.pc = "epoch", !.start = order.start]
                 r == [q EXCEPT !.first = TRUE, !.applied = 0]
      <4>3. tx' = [r EXCEPT !.slip = 0]
        BY <4>1
      <4>4. q \in TxStates
        BY <1>t, <4>2 DEF TxStates, TxPlaces
      <4> HIDE DEF q
      <4>5. r \in TxStates
        <5>1. [q EXCEPT !.first = TRUE] \in TxStates
          BY <4>4 DEF TxStates
        <5>2. \A t \in TxStates : [t EXCEPT !.applied = 0] \in TxStates
          BY DEF TxStates
        <5> QED BY <5>1, <5>2
      <4> HIDE DEF r
      <4> QED BY <4>3, <4>5 DEF TxStates
    <3> QED BY <1>29, <2>2, <3>1
               DEF Transmit, TxReadStart, TxTypeOK, syncVars, SyncTypeOK
  <2>3. CASE TxReadEpoch
    <3>1. tx' \in TxStates
      BY <1>t, <2>3 DEF TxReadEpoch, Orders, TxStates, TxPlaces
    <3> QED BY <1>29, <2>3, <3>1
               DEF Transmit, TxReadEpoch, TxTypeOK, syncVars, SyncTypeOK
  <2>4. CASE TxSendAll
    <3>1. FrameLen - Advance \in 0 .. (FrameLen - Advance)
      BY <1>0, PlacedTyped DEF SyncTypeOK
    <3>2. TxTypeOK'
      BY <2>4, <3>1, SentTyped DEF TxSendAll, SyncTypeOK
    <3> QED BY <1>29, <3>2 DEF Transmit, syncVars, SyncTypeOK
  <2> QED BY <1>29, <2>1, <2>2, <2>3, <2>4 DEF Transmit, TxStep
<1>30. CASE TransmitShort
  <2>1. PICK n \in 0 .. (FrameLen - Advance - 1) : TxSend(n)
    BY <1>30 DEF TransmitShort, TxSendShort
  <2>2. n \in 0 .. (FrameLen - Advance)
    BY <1>0, PlacedTyped DEF SyncTypeOK
  <2>3. TxTypeOK'
    BY <2>1, <2>2, SentTyped DEF SyncTypeOK
  <2>4. budget' \in Budgets
    BY <1>t, <1>30 DEF TransmitShort, Budgets
  <2> QED BY <1>30, <2>3, <2>4 DEF TransmitShort, SyncTypeOK
<1>31. CASE UNCHANGED vars
  BY <1>31 DEF vars, txVars, syncVars, SyncTypeOK, TxTypeOK
<1> QED BY <1>1, <1>2, <1>3, <1>4, <1>5, <1>6, <1>7, <1>8, <1>9, <1>10, <1>11, <1>12,
           <1>13, <1>14, <1>15, <1>16, <1>17, <1>18, <1>19, <1>20, <1>21, <1>22, <1>23,
           <1>24, <1>25, <1>26, <1>27, <1>28, <1>29, <1>30, <1>31
        DEF Next, Receive, Process

-----------------------------------------------------------------------------

\* Whole frames, and what the remainder and the shorter way round differ by.
LEMMA Multiples ==
  ASSUME NEW n \in Int
  PROVE  /\ n % FrameLen = 0 => \E k \in Int : n = FrameLen * k
         /\ (\E k \in Int : n = FrameLen * k) => n % FrameLen = 0
         /\ \E k \in Int : n % FrameLen = n + FrameLen * k
         /\ \E k \in Int : Canonical(n) = n + FrameLen * k
<1> FrameLen \in Nat \ {0}
  BY Constants
<1> DEFINE q == n \div FrameLen
           r == n % FrameLen
<1>1. n = FrameLen * q + r /\ q \in Int /\ r \in 0 .. (FrameLen - 1)
  OBVIOUS
<1>2. ASSUME NEW k \in Int, n = FrameLen * k PROVE r = 0
  <2>1. (FrameLen * k + 0) % FrameLen = 0
    OBVIOUS
  <2>2. FrameLen * k + 0 = n
    BY <1>2
  <2> QED BY <2>1, <2>2
<1>3. Canonical(n) = IF 2 * r > FrameLen THEN r - FrameLen ELSE r
  BY DEF Canonical
<1> HIDE DEF q, r
<1>4. r = n + FrameLen * (-q) /\ r - FrameLen = n + FrameLen * (-q - 1)
  BY <1>1
<1>5. -q \in Int /\ -q - 1 \in Int
  BY <1>1
<1>6. r = 0 => n = FrameLen * q
  BY <1>1
<1>7. \E k \in Int : r = n + FrameLen * k
  BY <1>4, <1>5
<1>8. \E k \in Int : Canonical(n) = n + FrameLen * k
  BY <1>3, <1>4, <1>5
<1> QED BY <1>1, <1>2, <1>6, <1>7, <1>8 DEF r

\* Two counts that differ by whole frames.
LEMMA WholeFrames ==
  ASSUME NEW a \in Int, NEW b \in Int, NEW k \in Int, a = b + FrameLen * k
  PROVE  a % FrameLen = 0 <=> b % FrameLen = 0
<1> FrameLen \in Nat \ {0}
  BY Constants
<1>1. ASSUME a % FrameLen = 0 PROVE b % FrameLen = 0
  <2>1. PICK j \in Int : a = FrameLen * j
    BY <1>1, Multiples
  <2>2. b = FrameLen * (j - k) /\ j - k \in Int
    BY <2>1
  <2> QED BY <2>2, Multiples
<1>2. ASSUME b % FrameLen = 0 PROVE a % FrameLen = 0
  <2>1. PICK j \in Int : b = FrameLen * j
    BY <1>2, Multiples
  <2>2. a = FrameLen * (j + k) /\ j + k \in Int
    BY <2>1
  <2> QED BY <2>2, Multiples
<1> QED BY <1>1, <1>2

\* What the correction of the shift by an alignment does to the anchor.
LEMMA Corrected ==
  ASSUME NEW s \in Int, NEW x \in Int, NEW a \in Int
  PROVE  /\ (s - Canonical(a) + x + a) % FrameLen = 0 <=> (s + x) % FrameLen = 0
         /\ (s + ((x + a) % FrameLen) + 0) % FrameLen = 0 <=> (s + x + a) % FrameLen = 0
         /\ (-Canonical(a) + a + 0) % FrameLen = 0
<1> FrameLen \in Nat \ {0}
  BY Constants
<1>1. PICK k \in Int : Canonical(a) = a + FrameLen * k
  BY Multiples
<1> DEFINE y == x + a
           p == y % FrameLen
<1>2. y \in Int
  OBVIOUS
<1> HIDE DEF y
<1>3. PICK j \in Int : p = y + FrameLen * j
  BY <1>2, Multiples
<1>4. p \in Int
  BY <1>2, <1>3
<1> HIDE DEF p
<1>5. (s - Canonical(a) + x + a) % FrameLen = 0 <=> (s + x) % FrameLen = 0
  <2>1. s - Canonical(a) + x + a = (s + x) + FrameLen * (-k)
    BY <1>1
  <2>2. s - Canonical(a) + x + a \in Int /\ s + x \in Int /\ -k \in Int
    BY <1>1
  <2> QED BY <2>1, <2>2, WholeFrames
<1>6. (s + p + 0) % FrameLen = 0 <=> (s + y) % FrameLen = 0
  <2>1. s + p + 0 = (s + y) + FrameLen * j
    BY <1>2, <1>3
  <2>2. s + p + 0 \in Int /\ s + y \in Int
    BY <1>2, <1>4
  <2> QED BY <1>3, <2>1, <2>2, WholeFrames
<1>7. (-Canonical(a) + a + 0) % FrameLen = 0
  <2>1. -Canonical(a) + a + 0 = FrameLen * (-k)
    BY <1>1
  <2>2. -Canonical(a) + a + 0 \in Int /\ -k \in Int
    BY <1>1
  <2> QED BY <2>1, <2>2, Multiples
<1>8. s + y = s + x + a
  BY DEF y
<1> QED BY <1>5, <1>6, <1>7, <1>8 DEF p, y

\* The negative of whole frames is whole frames.
LEMMA Negated ==
  ASSUME NEW n \in Int, n % FrameLen = 0
  PROVE  (-n) % FrameLen = 0
<1> FrameLen \in Nat \ {0}
  BY Constants
<1>1. PICK k \in Int : n = FrameLen * k
  BY Multiples
<1>2. -n = FrameLen * (-k) /\ -n \in Int /\ -k \in Int
  BY <1>1
<1> QED BY <1>2, Multiples

-----------------------------------------------------------------------------

\* The types of the fields of the records.
LEMMA Fields ==
  ASSUME SyncTypeOK
  PROVE  /\ rx = [pc |-> rx.pc, pos |-> rx.pos, start |-> rx.start, epoch |-> rx.epoch,
                  handled |-> rx.handled, gen |-> rx.gen, align |-> rx.align,
                  past |-> rx.past]
         /\ rx.pc \in RxPlaces /\ rx.pos \in Positions /\ rx.start \in Nat
         /\ rx.epoch \in Nat /\ rx.handled \in Nat /\ rx.gen \in Nat /\ rx.align \in Int
         /\ proc = [pc |-> proc.pc, align |-> proc.align, from |-> proc.from,
                    adjust |-> proc.adjust, last |-> proc.last, bad |-> proc.bad,
                    found |-> proc.found]
         /\ proc.pc \in ProcPlaces /\ proc.align \in Int /\ proc.from \in States
         /\ proc.found \in BOOLEAN
         /\ request.epoch \in Nat /\ request.count \in Nat
         /\ tx.pc \in TxPlaces /\ tx.start \in Nat /\ tx.epoch \in Nat
         /\ tx.applied \in Int /\ tx.slip \in Int
         /\ order.start \in Nat /\ order.epoch \in Nat
         /\ errors \in Nat /\ submitted \in Nat
<1>1. /\ rx \in RxStates /\ proc \in ProcStates /\ request \in Requests
      /\ tx \in TxStates /\ order \in Orders /\ errors \in Nat /\ submitted \in Nat
  BY DEF SyncTypeOK, TxTypeOK
<1>2. rx = [pc |-> rx.pc, pos |-> rx.pos, start |-> rx.start, epoch |-> rx.epoch,
            handled |-> rx.handled, gen |-> rx.gen, align |-> rx.align, past |-> rx.past]
  BY <1>1 DEF RxStates
<1>3. proc = [pc |-> proc.pc, align |-> proc.align, from |-> proc.from,
              adjust |-> proc.adjust, last |-> proc.last, bad |-> proc.bad,
              found |-> proc.found]
  BY <1>1 DEF ProcStates
<1>4. /\ rx.pc \in RxPlaces /\ rx.pos \in Positions /\ rx.start \in Nat
      /\ rx.epoch \in Nat /\ rx.handled \in Nat /\ rx.gen \in Nat /\ rx.align \in Int
  BY <1>1 DEF RxStates
<1>5. /\ proc.pc \in ProcPlaces /\ proc.align \in Int /\ proc.from \in States
      /\ proc.found \in BOOLEAN
  BY <1>1 DEF ProcStates
<1>6. /\ request.epoch \in Nat /\ request.count \in Nat
      /\ tx.pc \in TxPlaces /\ tx.start \in Nat /\ tx.epoch \in Nat
      /\ tx.applied \in Int /\ tx.slip \in Int
      /\ order.start \in Nat /\ order.epoch \in Nat
  BY <1>1 DEF Requests, TxStates, Orders
<1> QED BY <1>1, <1>2, <1>3, <1>4, <1>5, <1>6

\* Nothing that the two restarting threads tell each other has changed.
LEMMA RestartQuiet ==
  ASSUME RestartInv, UNCHANGED <<tx, order, errors, submitted>>,
         rx'.epoch = rx.epoch, rx'.handled = rx.handled, rx'.start = rx.start,
         \/ rx'.pc = rx.pc
         \/ rx.pc \notin Restarting \cup {"wait"} /\ rx'.pc \notin Restarting \cup {"wait"},
         request'.epoch = request.epoch, request'.count = request.count
  PROVE  RestartInv'
BY DEF RestartInv, Restarting

\* A period sent keeps what is known of the restart.
LEMMA RestartSent ==
  ASSUME SyncTypeOK, RestartInv, NEW n \in 0 .. (FrameLen - Advance), TxSend(n),
         UNCHANGED <<rx, request>>
  PROVE  RestartInv'
<1>1. TxTypeOK
  BY DEF SyncTypeOK
<1>2. /\ tx'.pc = "period" /\ tx'.start = tx.start /\ tx'.epoch = tx.epoch
  BY <1>1, PeriodSent DEF TxSend
<1>3. /\ tx.pc \in {"send", "period"} /\ order' = order
      /\ errors' \in {errors, errors + 1} /\ submitted' \in {submitted, tx.epoch}
  BY DEF TxSend
<1>4. tx.epoch \in Nat /\ errors \in Nat /\ submitted \in Nat /\ rx.handled \in Nat
  BY Fields
<1> QED BY <1>2, <1>3, <1>4 DEF RestartInv, Restarting

\* A step of any thread keeps what each knows of the restart.
LEMMA RestartKept == SyncTypeOK /\ RestartInv /\ [Next]_vars => RestartInv'
<1> SUFFICES ASSUME SyncTypeOK, RestartInv, [Next]_vars PROVE RestartInv'
  OBVIOUS
<1>0. rx \in RxStates /\ request \in Requests /\ tx \in TxStates /\ order \in Orders
      /\ errors \in Nat /\ submitted \in Nat
  BY DEF SyncTypeOK, TxTypeOK
<1>1. CASE RxDispatch
  <2>1. state \in States
    BY DEF SyncTypeOK
  <2>2. rx' = [rx EXCEPT !.pc = state, !.gen = gen, !.align = discard, !.past = {}]
    BY <1>1 DEF RxDispatch
  <2>3. /\ rx'.pc = state /\ rx'.epoch = rx.epoch /\ rx'.handled = rx.handled
        /\ rx'.start = rx.start /\ rx.pc = "loop"
    BY <1>0, <1>1, <2>2 DEF RxDispatch, RxStates
  <2> QED BY <1>1, <2>1, <2>3, RestartQuiet DEF RxDispatch, txVars, States, Restarting
<1>2. CASE RxSearch
  <2>1. /\ rx'.pc = "loop" /\ rx'.epoch = rx.epoch /\ rx'.handled = rx.handled
        /\ rx'.start = rx.start
    BY <1>0, <1>2 DEF RxSearch, RxStates
  <2> QED BY <1>2, <2>1, RestartQuiet DEF RxSearch, txVars, Restarting
<1>3. CASE RxNormal
  <2>1. /\ rx'.pc = "loop" /\ rx'.epoch = rx.epoch /\ rx'.handled = rx.handled
        /\ rx'.start = rx.start
    BY <1>0, <1>3 DEF RxNormal, RxStates
  <2> QED BY <1>3, <2>1, RestartQuiet DEF RxNormal, txVars, Restarting
<1>4. CASE RxAlign
  <2>1. /\ rx'.pc = "raise" /\ rx'.epoch = rx.epoch /\ rx'.handled = rx.handled
        /\ rx'.start = rx.start /\ rx.pc = "ALIGNMENT"
    BY <1>0, <1>4 DEF RxAlign, RxStates
  <2> QED BY <1>4, <2>1, RestartQuiet DEF RxAlign, Restarting
<1>5. CASE RxRaise
  <2>1. /\ rx'.pc = "settle" /\ rx'.epoch = rx.epoch /\ rx'.handled = rx.handled
        /\ rx'.start = rx.start
    BY <1>0, <1>5 DEF RxRaise, RxStates
  <2> QED BY <1>5, <2>1, RestartQuiet DEF RxRaise, txVars, Restarting
<1>6. CASE RxEnterNormal
  <2>1. /\ rx'.pc = "loop" /\ rx'.epoch = rx.epoch /\ rx'.handled = rx.handled
        /\ rx'.start = rx.start
    BY <1>0, <1>6 DEF RxEnterNormal, RxStates
  <2> QED BY <1>6, <2>1, RestartQuiet DEF RxEnterNormal, txVars, Restarting
<1>7. CASE RxError
  BY <1>0, <1>7
     DEF RxError, RestartInv, RxStates, Requests, TxStates, Orders, Restarting, txVars,
         Asked
<1>8. CASE RxRestart
  BY <1>0, <1>8
     DEF RxRestart, RestartInv, RxStates, Requests, TxStates, Orders, Restarting,
         txVars, Asked
<1>9. CASE RxResetShift
  BY <1>0, <1>9
     DEF RxResetShift, RestartInv, RxStates, Requests, TxStates, Orders, Restarting,
         txVars, Asked
<1>10. CASE RxEnterSearch
  BY <1>0, <1>10
     DEF RxEnterSearch, RestartInv, RxStates, Requests, TxStates, Orders, Restarting,
         txVars, Asked
<1>11. CASE RxFlag
  BY <1>0, <1>11
     DEF RxFlag, RestartInv, RxStates, Requests, TxStates, Orders, Restarting, txVars,
         Asked
<1>12. CASE RxStarted
  BY <1>0, <1>12
     DEF RxStarted, RestartInv, RxStates, Requests, TxStates, Orders, Restarting,
         txVars, Asked
<1>13. CASE ProcClear
  <2>1. request'.epoch = request.epoch /\ request'.count = request.count
    BY <1>0, <1>13 DEF ProcClear, Requests
  <2> QED BY <1>13, <2>1, RestartQuiet DEF ProcClear, txVars
<1>14. CASE ProcMiss
  BY <1>14, RestartQuiet DEF ProcMiss, txVars
<1>15. CASE ProcFound
  BY <1>15, RestartQuiet DEF ProcFound, txVars
<1>16. CASE ProcLaunch
  BY <1>16, RestartQuiet DEF ProcLaunch, txVars
<1>17. CASE ProcCollect
  BY <1>17, RestartQuiet DEF ProcCollect, txVars
<1>18. CASE ProcSchedule
  BY <1>18, RestartQuiet DEF ProcSchedule, txVars
<1>19. CASE ProcDiscard
  BY <1>19, RestartQuiet DEF ProcDiscard, txVars
<1>20. CASE ProcShift
  BY <1>20, RestartQuiet DEF ProcShift, txVars
<1>21. CASE ProcAlign
  BY <1>21, RestartQuiet DEF ProcAlign, txVars
<1>22. CASE ProcMark
  <2>1. /\ rx'.pc = rx.pc /\ rx'.epoch = rx.epoch /\ rx'.handled = rx.handled
        /\ rx'.start = rx.start
    BY <1>0, <1>22 DEF ProcMark, Mark, RxStates
  <2> QED BY <1>22, <2>1, RestartQuiet DEF ProcMark, txVars
<1>23. CASE ProcForget
  BY <1>23, RestartQuiet DEF ProcForget, txVars
<1>24. CASE ProcMute
  BY <1>24, RestartQuiet DEF ProcMute, txVars
<1>25. CASE ProcEnterSearch
  BY <1>25, RestartQuiet DEF ProcEnterSearch, txVars
<1>26. CASE ProcGate
  <2>1. /\ rx'.pc = rx.pc /\ rx'.epoch = rx.epoch /\ rx'.handled = rx.handled
        /\ rx'.start = rx.start
    BY <1>0, <1>26 DEF ProcGate, Mark, RxStates
  <2> QED BY <1>26, <2>1, RestartQuiet DEF ProcGate, txVars
<1>27. CASE AsyncError
  BY <1>0, <1>27
     DEF AsyncError, RestartInv, RxStates, Requests, TxStates, Orders, Restarting,
         txVars, Asked
<1>28. CASE Drift
  BY <1>28, RestartQuiet DEF Drift, txVars
<1>29. CASE Transmit
  <2>1. CASE TxTakeRestart
    BY <1>0, <1>29, <2>1
       DEF Transmit, TxTakeRestart, syncVars, RestartInv, TxStates, Orders, Restarting,
           RxStates
  <2>2. CASE TxReadStart
    BY <1>0, <1>29, <2>2
       DEF Transmit, TxReadStart, syncVars, RestartInv, TxStates, Orders, Restarting,
           RxStates
  <2>3. CASE TxReadEpoch
    BY <1>0, <1>29, <2>3
       DEF Transmit, TxReadEpoch, syncVars, RestartInv, TxStates, Orders, Restarting,
           RxStates
  <2>4. CASE TxSendAll
    <3>1. FrameLen - Advance \in 0 .. (FrameLen - Advance)
      BY Constants, PlacedTyped DEF SyncTypeOK
    <3> QED BY <1>29, <2>4, <3>1, RestartSent DEF Transmit, TxSendAll, syncVars
  <2> QED BY <1>29, <2>1, <2>2, <2>3, <2>4 DEF Transmit, TxStep
<1>30. CASE TransmitShort
  <2>1. PICK n \in 0 .. (FrameLen - Advance - 1) : TxSend(n)
    BY <1>30 DEF TransmitShort, TxSendShort
  <2>2. n \in 0 .. (FrameLen - Advance)
    BY Constants, PlacedTyped DEF SyncTypeOK
  <2> QED BY <1>30, <2>1, <2>2, RestartSent DEF TransmitShort
<1>31. CASE UNCHANGED vars
  BY <1>31, RestartQuiet DEF vars, txVars, syncVars
<1> QED BY <1>1, <1>2, <1>3, <1>4, <1>5, <1>6, <1>7, <1>8, <1>9, <1>10, <1>11, <1>12,
           <1>13, <1>14, <1>15, <1>16, <1>17, <1>18, <1>19, <1>20, <1>21, <1>22, <1>23,
           <1>24, <1>25, <1>26, <1>27, <1>28, <1>29, <1>30, <1>31
        DEF Next, Receive, Process

\* The stream and its errors are untouched.
LEMMA StreamQuiet ==
  ASSUME StreamInv, UNCHANGED <<tx, errors>>, rx'.handled = rx.handled,
         rx'.epoch = rx.epoch,
         \/ rx'.pc = rx.pc
         \/ rx.pc \notin Restarting \cup {"wait"}
  PROVE  StreamInv'
BY DEF StreamInv, Failing, Restarting

\* A restart has the stream sent anew, which ends what was wrong with it.
LEMMA StreamSent ==
  ASSUME SyncTypeOK, RestartInv, StreamInv, NEW n \in 0 .. (FrameLen - Advance), TxSend(n),
         UNCHANGED rx
  PROVE  StreamInv'
<1>1. TxTypeOK /\ FrameLen \in Nat /\ Advance \in Int
  BY Constants, PlacedTyped DEF SyncTypeOK
<1>2. /\ tx'.pc = "period" /\ tx'.epoch = tx.epoch
      /\ n = FrameLen - Advance /\ (tx.first \/ tx.slip = -tx.applied) =>
           tx'.slip = -tx'.applied
  BY <1>1, PeriodSent DEF TxSend
<1>3. /\ n # FrameLen - Advance => errors' = errors + 1
      /\ n = FrameLen - Advance => errors' = errors
  BY <1>1 DEF TxSend
<1>4. errors \in Nat /\ rx.handled \in Nat /\ rx.handled <= errors
  BY Fields DEF RestartInv
<1>5. CASE n = FrameLen - Advance
  BY <1>2, <1>3, <1>5 DEF StreamInv, Failing, Restarting
<1>6. CASE n # FrameLen - Advance
  <2>1. Failing'
    BY <1>3, <1>4, <1>6 DEF Failing
  <2> QED BY <1>2, <2>1 DEF StreamInv
<1> QED BY <1>5, <1>6

\* A step keeps the stream where its thread believes it, or a restart on its way.
LEMMA StreamKept == SyncTypeOK /\ RestartInv /\ StreamInv /\ [Next]_vars => StreamInv'
<1> SUFFICES ASSUME SyncTypeOK, RestartInv, StreamInv, [Next]_vars PROVE StreamInv'
  OBVIOUS
<1>0. rx \in RxStates /\ tx \in TxStates
  BY DEF SyncTypeOK, TxTypeOK
<1>s. rx.epoch \in Nat /\ tx.epoch \in Nat /\ submitted \in Nat
  BY Fields
<1>1. CASE RxDispatch
  <2>1. /\ rx'.handled = rx.handled /\ rx'.epoch = rx.epoch
        /\ rx'.pc = rx.pc \/ rx.pc \notin Restarting \cup {"wait"}
    BY <1>0, <1>1 DEF RxDispatch, RxStates, Restarting
  <2> QED BY <1>1, <2>1, StreamQuiet DEF RxDispatch, txVars
<1>2. CASE RxSearch
  <2>1. /\ rx'.handled = rx.handled /\ rx'.epoch = rx.epoch
        /\ rx'.pc = rx.pc \/ rx.pc \notin Restarting \cup {"wait"}
    BY <1>0, <1>2 DEF RxSearch, RxStates, Restarting
  <2> QED BY <1>2, <2>1, StreamQuiet DEF RxSearch, txVars
<1>3. CASE RxNormal
  <2>1. /\ rx'.handled = rx.handled /\ rx'.epoch = rx.epoch
        /\ rx'.pc = rx.pc \/ rx.pc \notin Restarting \cup {"wait"}
    BY <1>0, <1>3 DEF RxNormal, RxStates, Restarting
  <2> QED BY <1>3, <2>1, StreamQuiet DEF RxNormal, txVars
<1>4. CASE RxAlign
  <2>1. /\ rx'.handled = rx.handled /\ rx'.epoch = rx.epoch
        /\ rx'.pc = rx.pc \/ rx.pc \notin Restarting \cup {"wait"}
    BY <1>0, <1>4 DEF RxAlign, RxStates, Restarting
  <2> QED BY <1>4, <2>1, StreamQuiet DEF RxAlign, txVars
<1>5. CASE RxRaise
  <2>1. /\ rx'.handled = rx.handled /\ rx'.epoch = rx.epoch
        /\ rx'.pc = rx.pc \/ rx.pc \notin Restarting \cup {"wait"}
    BY <1>0, <1>5 DEF RxRaise, RxStates, Restarting
  <2> QED BY <1>5, <2>1, StreamQuiet DEF RxRaise, txVars
<1>6. CASE RxEnterNormal
  <2>1. /\ rx'.handled = rx.handled /\ rx'.epoch = rx.epoch
        /\ rx'.pc = rx.pc \/ rx.pc \notin Restarting \cup {"wait"}
    BY <1>0, <1>6 DEF RxEnterNormal, RxStates, Restarting
  <2> QED BY <1>6, <2>1, StreamQuiet DEF RxEnterNormal, txVars
<1>7. CASE RxError
  <2>1. /\ rx'.handled = rx.handled /\ rx'.epoch = rx.epoch
        /\ rx'.pc = rx.pc \/ rx.pc \notin Restarting \cup {"wait"}
    BY <1>0, <1>7 DEF RxError, RxStates, Restarting
  <2> QED BY <1>7, <2>1, StreamQuiet DEF RxError, txVars
<1>8. CASE RxRestart
  BY <1>0, <1>s, <1>8
     DEF RxRestart, RestartInv, StreamInv, RxStates, TxStates, Restarting, txVars,
         Failing
<1>9. CASE RxResetShift
  BY <1>0, <1>s, <1>9
     DEF RxResetShift, RestartInv, StreamInv, RxStates, TxStates, Restarting, txVars,
         Failing
<1>10. CASE RxEnterSearch
  BY <1>0, <1>s, <1>10
     DEF RxEnterSearch, RestartInv, StreamInv, RxStates, TxStates, Restarting, txVars,
         Failing
<1>11. CASE RxFlag
  BY <1>0, <1>s, <1>11
     DEF RxFlag, RestartInv, StreamInv, RxStates, TxStates, Restarting, txVars, Failing
<1>12. CASE RxStarted
  BY <1>0, <1>s, <1>12
     DEF RxStarted, RestartInv, StreamInv, RxStates, TxStates, Restarting, txVars,
         Failing
<1>13. CASE ProcClear
  BY <1>13, StreamQuiet DEF ProcClear, txVars
<1>14. CASE ProcMiss
  BY <1>14, StreamQuiet DEF ProcMiss, txVars
<1>15. CASE ProcFound
  BY <1>15, StreamQuiet DEF ProcFound, txVars
<1>16. CASE ProcLaunch
  BY <1>16, StreamQuiet DEF ProcLaunch, txVars
<1>17. CASE ProcCollect
  BY <1>17, StreamQuiet DEF ProcCollect, txVars
<1>18. CASE ProcSchedule
  BY <1>18, StreamQuiet DEF ProcSchedule, txVars
<1>19. CASE ProcDiscard
  BY <1>19, StreamQuiet DEF ProcDiscard, txVars
<1>20. CASE ProcShift
  BY <1>20, StreamQuiet DEF ProcShift, txVars
<1>21. CASE ProcAlign
  BY <1>21, StreamQuiet DEF ProcAlign, txVars
<1>22. CASE ProcMark
  <2>1. /\ rx'.handled = rx.handled /\ rx'.epoch = rx.epoch
        /\ rx'.pc = rx.pc \/ rx.pc \notin Restarting \cup {"wait"}
    BY <1>0, <1>22 DEF ProcMark, Mark, RxStates, Restarting
  <2> QED BY <1>22, <2>1, StreamQuiet DEF ProcMark, txVars
<1>23. CASE ProcForget
  BY <1>23, StreamQuiet DEF ProcForget, txVars
<1>24. CASE ProcMute
  BY <1>24, StreamQuiet DEF ProcMute, txVars
<1>25. CASE ProcEnterSearch
  BY <1>25, StreamQuiet DEF ProcEnterSearch, txVars
<1>26. CASE ProcGate
  <2>1. /\ rx'.handled = rx.handled /\ rx'.epoch = rx.epoch
        /\ rx'.pc = rx.pc \/ rx.pc \notin Restarting \cup {"wait"}
    BY <1>0, <1>26 DEF ProcGate, Mark, RxStates, Restarting
  <2> QED BY <1>26, <2>1, StreamQuiet DEF ProcGate, txVars
<1>27. CASE AsyncError
  BY <1>27, StreamQuiet DEF AsyncError, txVars
<1>28. CASE Drift
  BY <1>28, StreamQuiet DEF Drift, txVars
<1>29. CASE Transmit
  <2>1. CASE TxTakeRestart
    BY <1>0, <1>s, <1>29, <2>1
       DEF Transmit, TxTakeRestart, syncVars, RestartInv, StreamInv, TxStates,
           Restarting, Failing
  <2>2. CASE TxReadStart
    BY <1>0, <1>s, <1>29, <2>2
       DEF Transmit, TxReadStart, syncVars, RestartInv, StreamInv, TxStates, Restarting,
           Failing
  <2>3. CASE TxReadEpoch
    BY <1>0, <1>s, <1>29, <2>3
       DEF Transmit, TxReadEpoch, syncVars, RestartInv, StreamInv, TxStates, Restarting,
           Failing
  <2>4. CASE TxSendAll
    <3>1. FrameLen - Advance \in 0 .. (FrameLen - Advance)
      BY Constants, PlacedTyped DEF SyncTypeOK
    <3> QED BY <1>29, <2>4, <3>1, StreamSent DEF Transmit, TxSendAll, syncVars
  <2> QED BY <1>29, <2>1, <2>2, <2>3, <2>4 DEF Transmit, TxStep
<1>30. CASE TransmitShort
  <2>1. PICK n \in 0 .. (FrameLen - Advance - 1) : TxSend(n)
    BY <1>30 DEF TransmitShort, TxSendShort
  <2>2. n \in 0 .. (FrameLen - Advance)
    BY Constants, PlacedTyped DEF SyncTypeOK
  <2> QED BY <1>30, <2>1, <2>2, StreamSent DEF TransmitShort
<1>31. CASE UNCHANGED vars
  BY <1>31, StreamQuiet DEF vars, txVars, syncVars
<1> QED BY <1>1, <1>2, <1>3, <1>4, <1>5, <1>6, <1>7, <1>8, <1>9, <1>10, <1>11, <1>12,
           <1>13, <1>14, <1>15, <1>16, <1>17, <1>18, <1>19, <1>20, <1>21, <1>22, <1>23,
           <1>24, <1>25, <1>26, <1>27, <1>28, <1>29, <1>30, <1>31
        DEF Next, Receive, Process

-----------------------------------------------------------------------------

\* list is what is left of another one, its gates closed or not: in the same order.
Part(list, of) ==
  \E m \in [DOMAIN list -> DOMAIN of] :
    /\ \A i, j \in DOMAIN list : i < j => m[i] < m[j]
    /\ \A i \in DOMAIN list :
         /\ list[i].gen = of[m[i]].gen /\ list[i].align = of[m[i]].align
         /\ list[i].at = of[m[i]].at /\ (Marked(of[m[i]]) => Marked(list[i]))

\* What holds of all frames of a list holds of all of a part of it.
LEMMA PartKeeps ==
  ASSUME NEW s \in Seq(Captured), NEW t \in Seq(Captured), Part(t, s)
  PROVE  /\ NoneIn(s) => NoneIn(t)
         /\ NoneAligned(s) => NoneAligned(t)
         /\ Barred(s) => Barred(t)
         /\ Opens(s) => Opens(t)
         /\ Young(s) => Young(t)
<1>1. PICK m \in [DOMAIN t -> DOMAIN s] :
        /\ \A i, j \in DOMAIN t : i < j => m[i] < m[j]
        /\ \A i \in DOMAIN t :
             /\ t[i].gen = s[m[i]].gen /\ t[i].align = s[m[i]].align
             /\ t[i].at = s[m[i]].at /\ (Marked(s[m[i]]) => Marked(t[i]))
  BY DEF Part
<1>2. \A i \in DOMAIN t : m[i] \in DOMAIN s
  OBVIOUS
<1>3. NoneIn(s) => NoneIn(t)
  BY <1>1, <1>2 DEF NoneIn, Current
<1>4. NoneAligned(s) => NoneAligned(t)
  BY <1>1, <1>2 DEF NoneAligned, Current
<1>5. Barred(s) => Barred(t)
  BY <1>1, <1>2 DEF Barred, Current
<1>6. Young(s) => Young(t)
  BY <1>1, <1>2 DEF Young
<1>7. ASSUME Opens(s) PROVE Opens(t)
  <2> SUFFICES ASSUME NEW i \in DOMAIN t, Current(t[i]), ~Marked(t[i])
               PROVE  \/ /\ t[i].at = rx.pos
                         /\ \A j \in DOMAIN t : i < j /\ Current(t[j]) => t[j].align = 0
                      \/ /\ latch /\ t[i].align = 0
                         /\ \A j \in DOMAIN t : j < i /\ Current(t[j]) => t[j].align = 0
    BY DEF Opens
  <2>1. m[i] \in DOMAIN s /\ Current(s[m[i]]) /\ ~Marked(s[m[i]])
    BY <1>1, <1>2 DEF Current
  <2>2. CASE /\ s[m[i]].at = rx.pos
             /\ \A j \in DOMAIN s : m[i] < j /\ Current(s[j]) => s[j].align = 0
    <3>1. ASSUME NEW j \in DOMAIN t, i < j, Current(t[j]) PROVE t[j].align = 0
      <4>1. m[i] < m[j] /\ m[j] \in DOMAIN s /\ Current(s[m[j]])
        BY <1>1, <1>2, <3>1 DEF Current
      <4> QED BY <1>1, <2>2, <4>1
    <3> QED BY <1>1, <2>2, <3>1
  <2>3. CASE /\ latch /\ s[m[i]].align = 0
             /\ \A j \in DOMAIN s : j < m[i] /\ Current(s[j]) => s[j].align = 0
    <3>1. ASSUME NEW j \in DOMAIN t, j < i, Current(t[j]) PROVE t[j].align = 0
      <4>1. m[j] < m[i] /\ m[j] \in DOMAIN s /\ Current(s[m[j]])
        BY <1>1, <1>2, <3>1 DEF Current
      <4> QED BY <1>1, <2>3, <4>1
    <3> QED BY <1>1, <2>3, <3>1
  <2> QED BY <1>7, <2>1, <2>2, <2>3 DEF Opens
<1> QED BY <1>3, <1>4, <1>5, <1>6, <1>7

\* A list picked out of another one in its order is a part of it.
LEMMA IsPart ==
  ASSUME NEW s \in Seq(Captured), NEW t \in Seq(Captured), NEW m,
         \A i \in DOMAIN t : m[i] \in DOMAIN s /\ t[i] = s[m[i]],
         \A i, j \in DOMAIN t : i < j => m[i] < m[j],
         m \in [DOMAIN t -> DOMAIN s]
  PROVE  Part(t, s)
BY DEF Part

\* The frames of two lists put one after the other.
LEMMA Joined ==
  ASSUME NEW s \in Seq(Captured), NEW t \in Seq(Captured)
  PROVE  /\ s \o t \in Seq(Captured) /\ Len(s \o t) = Len(s) + Len(t)
         /\ DOMAIN s = 1 .. Len(s) /\ DOMAIN t = 1 .. Len(t)
         /\ DOMAIN (s \o t) = 1 .. Len(s) + Len(t)
         /\ Len(s) \in Nat /\ Len(t) \in Nat
         /\ \A i \in 1 .. Len(s) : (s \o t)[i] = s[i]
         /\ \A i \in 1 .. Len(t) : (s \o t)[Len(s) + i] = t[i]
         /\ \A i \in Len(s) + 1 .. Len(s) + Len(t) : (s \o t)[i] = t[i - Len(s)]
OBVIOUS

\* A part of a part is a part.
LEMMA PartTransitive ==
  ASSUME NEW s \in Seq(Captured), NEW t \in Seq(Captured), NEW u \in Seq(Captured),
         Part(t, s), Part(u, t)
  PROVE  Part(u, s)
<1>1. PICK m \in [DOMAIN t -> DOMAIN s] :
        /\ \A i, j \in DOMAIN t : i < j => m[i] < m[j]
        /\ \A i \in DOMAIN t :
             /\ t[i].gen = s[m[i]].gen /\ t[i].align = s[m[i]].align
             /\ t[i].at = s[m[i]].at /\ (Marked(s[m[i]]) => Marked(t[i]))
  BY DEF Part
<1>2. PICK l \in [DOMAIN u -> DOMAIN t] :
        /\ \A i, j \in DOMAIN u : i < j => l[i] < l[j]
        /\ \A i \in DOMAIN u :
             /\ u[i].gen = t[l[i]].gen /\ u[i].align = t[l[i]].align
             /\ u[i].at = t[l[i]].at /\ (Marked(t[l[i]]) => Marked(u[i]))
  BY DEF Part
<1> DEFINE p == [i \in DOMAIN u |-> m[l[i]]]
<1>3. /\ p \in [DOMAIN u -> DOMAIN s] /\ \A i \in DOMAIN u : p[i] = m[l[i]]
      /\ \A i \in DOMAIN u : l[i] \in DOMAIN t
  OBVIOUS
<1> HIDE DEF p
<1>4. \A i, j \in DOMAIN u : i < j => p[i] < p[j]
  BY <1>1, <1>2, <1>3
<1>5. \A i \in DOMAIN u :
        /\ u[i].gen = s[p[i]].gen /\ u[i].align = s[p[i]].align
        /\ u[i].at = s[p[i]].at /\ (Marked(s[p[i]]) => Marked(u[i]))
  BY <1>1, <1>2, <1>3
<1> QED BY <1>3, <1>4, <1>5 DEF Part

\* The parts that the steps leave.
LEMMA PartOf ==
  ASSUME NEW s \in Seq(Captured), NEW t \in Seq(Captured)
  PROVE  /\ Part(s, s) /\ Part(s, s \o t) /\ Part(t, s \o t)
         /\ s # <<>> => Part(Tail(s), s)
         /\ t # <<>> => Part(s \o Tail(t), s \o t)
<1> DEFINE u == s \o t
           n == Len(s)
<1>0. /\ u \in Seq(Captured) /\ Len(u) = n + Len(t)
      /\ DOMAIN s = 1 .. n /\ DOMAIN t = 1 .. Len(t) /\ DOMAIN u = 1 .. n + Len(t)
      /\ n \in Nat /\ Len(t) \in Nat
      /\ \A i \in 1 .. n : u[i] = s[i]
      /\ \A i \in 1 .. Len(t) : u[n + i] = t[i]
  BY Joined
<1>1. Part(s, s)
  <2> DEFINE m == [i \in DOMAIN s |-> i]
  <2>1. m \in [DOMAIN s -> DOMAIN s] /\ \A i \in DOMAIN s : m[i] = i
    OBVIOUS
  <2> HIDE DEF m
  <2> QED BY <2>1, IsPart
<1>2. Part(s, u)
  <2> DEFINE m == [i \in DOMAIN s |-> i]
  <2>1. m \in [DOMAIN s -> DOMAIN u] /\ \A i \in DOMAIN s : m[i] = i
    BY <1>0
  <2> HIDE DEF m, u, n
  <2>2. \A i \in DOMAIN s : m[i] \in DOMAIN u /\ s[i] = u[m[i]]
    BY <1>0, <2>1
  <2>3. \A i, j \in DOMAIN s : i < j => m[i] < m[j]
    BY <1>0, <2>1
  <2> QED BY <1>0, <2>1, <2>2, <2>3, IsPart
<1>3. Part(t, u)
  <2> DEFINE m == [i \in DOMAIN t |-> n + i]
  <2>1. m \in [DOMAIN t -> DOMAIN u] /\ \A i \in DOMAIN t : m[i] = n + i
    BY <1>0
  <2> HIDE DEF m, u, n
  <2>2. \A i \in DOMAIN t : m[i] \in DOMAIN u /\ t[i] = u[m[i]]
    BY <1>0, <2>1
  <2>3. \A i, j \in DOMAIN t : i < j => m[i] < m[j]
    BY <1>0, <2>1
  <2> QED BY <1>0, <2>1, <2>2, <2>3, IsPart
<1>4. ASSUME s # <<>> PROVE Part(Tail(s), s)
  <2> DEFINE r == Tail(s)
             m == [i \in DOMAIN r |-> i + 1]
  <2>1. /\ r \in Seq(Captured) /\ DOMAIN r = 1 .. n - 1
        /\ \A i \in 1 .. n - 1 : r[i] = s[i + 1]
    BY <1>4
  <2>2. m \in [DOMAIN r -> DOMAIN s] /\ \A i \in DOMAIN r : m[i] = i + 1
    BY <1>0, <2>1
  <2> HIDE DEF m, r, n
  <2>3. Part(r, s)
    <3>1. \A i \in DOMAIN r : m[i] \in DOMAIN s /\ r[i] = s[m[i]]
      BY <1>0, <2>1, <2>2
    <3>2. \A i, j \in DOMAIN r : i < j => m[i] < m[j]
      BY <1>0, <2>1, <2>2
    <3> QED BY <2>1, <2>2, <3>1, <3>2, IsPart
  <2> QED BY <2>3 DEF r
<1>5. ASSUME t # <<>> PROVE Part(s \o Tail(t), u)
  <2> DEFINE r == Tail(t)
             v == s \o r
             m == [i \in DOMAIN v |-> IF i <= n THEN i ELSE i + 1]
  <2>1. /\ r \in Seq(Captured) /\ Len(r) = Len(t) - 1
        /\ \A i \in 1 .. Len(t) - 1 : r[i] = t[i + 1]
    BY <1>5
  <2> HIDE DEF r
  <2>2. /\ v \in Seq(Captured) /\ DOMAIN v = 1 .. n + Len(r)
        /\ \A i \in 1 .. n : v[i] = s[i]
        /\ \A i \in n + 1 .. n + Len(r) : v[i] = r[i - n]
    BY <2>1, Joined
  <2>3. \A i \in n + 1 .. n + Len(t) : u[i] = t[i - n]
    BY Joined
  <2>4. /\ m \in [DOMAIN v -> DOMAIN u]
        /\ \A i \in DOMAIN v : m[i] = IF i <= n THEN i ELSE i + 1
    BY <1>0, <2>1, <2>2
  <2> HIDE DEF m, v, u, n
  <2>5. ASSUME NEW i \in DOMAIN v PROVE v[i] = u[m[i]]
    <3>1. CASE i <= n
      BY <1>0, <2>2, <2>4, <3>1
    <3>2. CASE ~(i <= n)
      <4>1. i \in n + 1 .. n + Len(r) /\ i + 1 \in n + 1 .. n + Len(t)
            /\ i - n \in 1 .. Len(t) - 1 /\ i + 1 - n = i - n + 1
        BY <1>0, <2>1, <2>2, <3>2
      <4>2. v[i] = t[i - n + 1] /\ u[i + 1] = t[i + 1 - n]
        <5>1. v[i] = r[i - n] /\ r[i - n] = t[i - n + 1]
          BY <2>1, <2>2, <4>1
        <5>2. u[i + 1] = t[i + 1 - n]
          <6> DEFINE k == i + 1
          <6>1. k \in n + 1 .. n + Len(t)
            BY <4>1
          <6> HIDE DEF k
          <6>2. u[k] = t[k - n]
            BY <2>3, <6>1
          <6>3. k - n = i + 1 - n
            BY <1>0, <4>1 DEF k
          <6> QED BY <6>2, <6>3 DEF k
        <5> QED BY <5>1, <5>2
      <4> QED BY <2>4, <3>2, <4>1, <4>2
    <3> QED BY <3>1, <3>2
  <2>6. \A i, j \in DOMAIN v : i < j => m[i] < m[j]
    BY <1>0, <2>1, <2>2, <2>4
  <2>7. Part(v, u)
    BY <1>0, <2>2, <2>4, <2>5, <2>6, IsPart
  <2> QED BY <2>7 DEF v, r
<1> QED BY <1>1, <1>2, <1>3, <1>4, <1>5

\* Taking from the front list and adding to the back one, seen in the whole line.
LEMMA Shifted ==
  ASSUME NEW s \in Seq(Captured), NEW t \in Seq(Captured)
  PROVE  /\ s # <<>> => /\ s \o t # <<>> /\ Head(s) = (s \o t)[1]
                        /\ Tail(s) \o t = Tail(s \o t)
         /\ t # <<>> => Append(s, Head(t)) \o Tail(t) = s \o t
         /\ \A f \in Captured : s \o Append(t, f) = Append(s \o t, f)
         /\ s \o <<>> = s
<1>1. s # <<>> => s \o t # <<>> /\ Head(s) = (s \o t)[1]
  OBVIOUS
<1>2. s # <<>> => Tail(s) \o t = Tail(s \o t)
  OBVIOUS
<1>3. t # <<>> => Append(s, Head(t)) \o Tail(t) = s \o t
  OBVIOUS
<1>4. \A f \in Captured : s \o Append(t, f) = Append(s \o t, f)
  OBVIOUS
<1>5. s \o <<>> = s
  OBVIOUS
<1> QED BY <1>1, <1>2, <1>3, <1>4, <1>5

-----------------------------------------------------------------------------

\* The line of frames, from the oldest being demodulated to the newest queued.
LEMMA LineTyped ==
  ASSUME SyncTypeOK
  PROVE  /\ slots \in Seq(Captured) /\ frames \in Seq(Captured)
         /\ Line \in Seq(Captured)
         /\ Part(slots, Line)
BY Joined, PartOf DEF SyncTypeOK, Line

\* What a step that adds no frame leaves of them.
LineLess ==
  /\ Part(Line', Line) /\ Line' \in Seq(Captured) /\ Line \in Seq(Captured)
  /\ Part(slots', Line) /\ slots' \in Seq(Captured)

SlotsLess == Part(slots', slots) /\ slots' \in Seq(Captured) /\ slots \in Seq(Captured)

\* A step that leaves both lists alone leaves the line alone.
LEMMA LineUnchanged ==
  ASSUME SyncTypeOK, UNCHANGED <<frames, slots>>
  PROVE  LineLess /\ SlotsLess
<1>1. Line' = Line /\ slots' = slots
  BY DEF Line
<1> QED BY <1>1, LineTyped, PartOf DEF LineLess, SlotsLess

\* Emptying the queue leaves the frames being demodulated.
LEMMA LineCleared ==
  ASSUME SyncTypeOK, frames' = <<>>, slots' = slots
  PROVE  LineLess /\ SlotsLess /\ Line' = slots
<1>1. Line' = slots
  BY Shifted, LineTyped DEF Line
<1> QED BY <1>1, LineTyped, PartOf DEF LineLess, SlotsLess

\* A frame that goes to a worker stays in line, or is dropped.
LEMMA LineLaunched ==
  ASSUME SyncTypeOK, ProcLaunch
  PROVE  LineLess
<1>1. /\ frames # <<>> /\ frames' = Tail(frames) /\ Head(frames) \in Captured
      /\ slots' = slots \/ slots' = Append(slots, Head(frames))
      /\ frames' \in Seq(Captured) /\ slots' \in Seq(Captured)
  BY LineTyped DEF ProcLaunch
<1>2. CASE slots' = slots
  <2>1. Line' = slots \o Tail(frames)
    BY <1>1, <1>2 DEF Line
  <2>2. Part(Line', Line) /\ Line' \in Seq(Captured)
    BY <1>1, <2>1, LineTyped, PartOf, Joined DEF Line
  <2> QED BY <1>2, <2>2, LineTyped DEF LineLess
<1>3. CASE slots' = Append(slots, Head(frames))
  <2>1. Line' = Append(slots, Head(frames)) \o Tail(frames)
    BY <1>1, <1>3 DEF Line
  <2>2. Line' = Line
    BY <1>1, <2>1, LineTyped, Shifted DEF Line
  <2>3. Part(slots', Line')
    <3>1. Line' = slots' \o frames'
      BY DEF Line
    <3> QED BY <1>1, <3>1, PartOf
  <2> QED BY <1>1, <2>2, <2>3, LineTyped, PartOf DEF LineLess
<1> QED BY <1>1, <1>2, <1>3

\* The frame collected is the first in line.
LEMMA LineCollected ==
  ASSUME SyncTypeOK, ProcCollect
  PROVE  /\ LineLess /\ SlotsLess /\ Line # <<>> /\ Line' = Tail(Line)
         /\ Line[1] = Head(slots)
         /\ Head(slots) \in Captured /\ slots # <<>> /\ slots' = Tail(slots)
<1>1. slots # <<>> /\ slots' = Tail(slots) /\ frames' = frames
  BY DEF ProcCollect
<1>2. Head(slots) \in Captured /\ slots' \in Seq(Captured)
  BY <1>1, LineTyped
<1>3. Line' = Tail(slots) \o frames
  BY <1>1 DEF Line
<1>4. Line # <<>> /\ Line' = Tail(Line) /\ Line[1] = Head(slots)
  BY <1>1, <1>3, LineTyped, Shifted DEF Line
<1>5. Line' \in Seq(Captured)
  BY <1>4, LineTyped
<1>6. Part(Line', Line)
  BY <1>4, LineTyped, PartOf
<1>7. Part(slots', Line)
  <2>1. Part(slots', Line')
    <3>1. Line' = slots' \o frames'
      BY DEF Line
    <3> QED BY <1>1, <1>2, <3>1, LineTyped, PartOf
  <2> QED BY <1>2, <1>5, <1>6, <2>1, LineTyped, PartTransitive
<1>8. Part(slots', slots)
  BY <1>1, LineTyped, PartOf
<1> QED BY <1>1, <1>2, <1>4, <1>5, <1>6, <1>7, <1>8, LineTyped DEF LineLess, SlotsLess

\* Closing a gate changes nothing but the marks.
LEMMA LineMarked ==
  ASSUME SyncTypeOK, NEW g \in Gates, NEW b \in BOOLEAN, Mark(g, b)
  PROVE  /\ LineLess /\ SlotsLess
         /\ g = "alignment" => \A i \in DOMAIN Line' : Marked(Line'[i])
         /\ g = "alignment" => \A i \in DOMAIN slots' : Marked(slots'[i])
<1> DEFINE old(f) == [f EXCEPT !.past = @ \union {g}]
<1>1. ASSUME NEW f \in Captured
      PROVE  /\ old(f).gen = f.gen /\ old(f).align = f.align /\ old(f).at = f.at
             /\ (Marked(f) => Marked(old(f))) /\ (g = "alignment" => Marked(old(f)))
  BY DEF Captured, Marked
<1>2. /\ frames' = [i \in DOMAIN frames |-> old(frames[i])]
      /\ slots' = [i \in DOMAIN slots |-> old(slots[i])]
  BY DEF Mark
<1> HIDE DEF old
<1>3. /\ DOMAIN frames' = DOMAIN frames /\ DOMAIN slots' = DOMAIN slots
      /\ \A i \in DOMAIN frames : frames'[i] = old(frames[i])
      /\ \A i \in DOMAIN slots : slots'[i] = old(slots[i])
  BY <1>2
<1>4. frames' \in Seq(Captured) /\ slots' \in Seq(Captured)
  BY MarkTyped
<1>5. Len(frames') = Len(frames) /\ Len(slots') = Len(slots)
  BY <1>3, <1>4, LineTyped
<1>6. /\ Line' \in Seq(Captured) /\ DOMAIN Line' = DOMAIN Line
      /\ \A i \in DOMAIN Line : Line[i] \in Captured /\ Line'[i] = old(Line[i])
  <2> DEFINE n == Len(slots)
             l == Len(frames)
  <2> DEFINE u == slots'
             v == frames'
  <2>a. Line' = u \o v /\ Line = slots \o frames
    BY DEF Line
  <2>b. u \in Seq(Captured) /\ v \in Seq(Captured) /\ Len(u) = n /\ Len(v) = l
    BY <1>4, <1>5
  <2> HIDE DEF u, v
  <2>c. /\ u \o v \in Seq(Captured) /\ DOMAIN (u \o v) = 1 .. n + l
        /\ \A i \in 1 .. n : (u \o v)[i] = u[i]
        /\ \A i \in n + 1 .. n + l : (u \o v)[i] = v[i - n]
    <3>1. /\ u \o v \in Seq(Captured) /\ DOMAIN (u \o v) = 1 .. Len(u) + Len(v)
          /\ \A i \in 1 .. Len(u) : (u \o v)[i] = u[i]
          /\ \A i \in Len(u) + 1 .. Len(u) + Len(v) : (u \o v)[i] = v[i - Len(u)]
      BY <2>b, Joined
    <3> QED BY <2>b, <3>1
  <2>d. /\ n \in Nat /\ l \in Nat /\ DOMAIN (slots \o frames) = 1 .. n + l
        /\ DOMAIN slots = 1 .. n /\ DOMAIN frames = 1 .. l
        /\ \A i \in 1 .. n : (slots \o frames)[i] = slots[i]
        /\ \A i \in n + 1 .. n + l : (slots \o frames)[i] = frames[i - n]
    BY LineTyped, Joined
  <2>1. /\ Line' \in Seq(Captured) /\ n \in Nat /\ l \in Nat
        /\ DOMAIN Line' = 1 .. n + l /\ DOMAIN Line = 1 .. n + l
        /\ DOMAIN slots = 1 .. n /\ DOMAIN frames = 1 .. l
    BY <2>a, <2>c, <2>d
  <2>2. /\ \A i \in 1 .. n : Line[i] = slots[i] /\ Line'[i] = slots'[i]
        /\ \A i \in n + 1 .. n + l : Line[i] = frames[i - n] /\ Line'[i] = frames'[i - n]
    BY <2>a, <2>c, <2>d DEF u, v
  <2>3. ASSUME NEW i \in DOMAIN Line PROVE Line'[i] = old(Line[i])
    <3> HIDE DEF n, l
    <3>1. CASE i \in 1 .. n
      BY <1>3, <2>1, <2>2, <3>1
    <3>2. CASE i \in n + 1 .. n + l
      <4>1. i - n \in DOMAIN frames
        BY <2>1, <3>2
      <4> QED BY <1>3, <2>2, <3>2, <4>1
    <3> QED BY <2>1, <3>1, <3>2
  <2>4. \A i \in DOMAIN Line : Line[i] \in Captured
    BY LineTyped
  <2> QED BY <2>1, <2>3, <2>4
<1>7. ASSUME NEW s \in Seq(Captured), NEW t \in Seq(Captured), DOMAIN t = DOMAIN s,
             \A i \in DOMAIN s : s[i] \in Captured /\ t[i] = old(s[i])
      PROVE  Part(t, s)
  <2> DEFINE m == [i \in DOMAIN t |-> i]
  <2>1. m \in [DOMAIN t -> DOMAIN s] /\ \A i \in DOMAIN t : m[i] = i
    BY <1>7
  <2> HIDE DEF m
  <2>2. \A i, j \in DOMAIN t : i < j => m[i] < m[j]
    BY <2>1
  <2>3. \A i \in DOMAIN t :
          /\ t[i].gen = s[m[i]].gen /\ t[i].align = s[m[i]].align
          /\ t[i].at = s[m[i]].at /\ (Marked(s[m[i]]) => Marked(t[i]))
    BY <1>1, <1>7, <2>1
  <2> QED BY <2>1, <2>2, <2>3 DEF Part
<1>8. Part(Line', Line)
  BY <1>6, <1>7, LineTyped
<1>9. \A i \in DOMAIN slots : slots[i] \in Captured
  BY LineTyped
<1>10. Part(slots', Line) /\ Part(slots', slots)
  <2>1. Part(slots', slots)
    BY <1>3, <1>4, <1>7, <1>9, LineTyped
  <2>2. Part(slots', Line)
    BY <1>4, <2>1, LineTyped, PartTransitive
  <2> QED BY <2>1, <2>2
<1>11. g = "alignment" => \A i \in DOMAIN Line' : Marked(Line'[i])
  BY <1>1, <1>6
<1>12. g = "alignment" => \A i \in DOMAIN slots' : Marked(slots'[i])
  BY <1>1, <1>3, <1>9
<1> QED BY <1>4, <1>6, <1>8, <1>10, <1>11, <1>12, LineTyped DEF LineLess, SlotsLess

\* What a step that adds no frame keeps of the whole line.
LEMMA LessKeeps ==
  ASSUME LineLess, gen' = gen
  PROVE  /\ Young(Line) => Young(Line)'
         /\ NoneIn(Line) => NoneIn(Line)' /\ NoneIn(slots)'
         /\ NoneAligned(Line) => NoneAligned(Line)' /\ NoneAligned(slots)'
         /\ latch' = latch /\ Barred(Line) => Barred(Line)' /\ Barred(slots)'
         /\ latch' = latch /\ rx'.pos = rx.pos /\ Opens(Line) => Opens(Line)'
<1> DEFINE u == Line'
           v == slots'
<1>1. /\ u \in Seq(Captured) /\ v \in Seq(Captured) /\ Line \in Seq(Captured)
      /\ Part(u, Line) /\ Part(v, Line)
  BY DEF LineLess
<1>2. /\ NoneIn(u) <=> NoneIn(Line)'
      /\ NoneIn(v) <=> NoneIn(slots)'
  BY DEF NoneIn, Current
<1>3. /\ NoneAligned(u) <=> NoneAligned(Line)'
      /\ NoneAligned(v) <=> NoneAligned(slots)'
      /\ Young(u) <=> Young(Line)'
  BY DEF NoneAligned, Current, Young
<1>4. latch' = latch => (Barred(u) <=> Barred(Line)') /\ (Barred(v) <=> Barred(slots)')
  BY DEF Barred, Current
<1>5. latch' = latch /\ rx'.pos = rx.pos => (Opens(u) <=> Opens(Line)')
  BY DEF Opens, Current
<1> HIDE DEF u, v
<1> QED BY <1>1, <1>2, <1>3, <1>4, <1>5, PartKeeps

\* ... and of the frames being demodulated.
LEMMA SlotsKeep ==
  ASSUME SlotsLess, gen' = gen
  PROVE  /\ NoneIn(slots) => NoneIn(slots)'
         /\ NoneAligned(slots) => NoneAligned(slots)'
         /\ latch' = latch /\ Barred(slots) => Barred(slots)'
<1> DEFINE v == slots'
<1>1. /\ v \in Seq(Captured) /\ slots \in Seq(Captured) /\ Part(v, slots)
  BY DEF SlotsLess
<1>2. /\ NoneIn(v) <=> NoneIn(slots)'
      /\ NoneAligned(v) <=> NoneAligned(slots)'
  BY DEF NoneIn, Current, NoneAligned
<1>3. latch' = latch => (Barred(v) <=> Barred(slots)')
  BY DEF Barred, Current
<1> HIDE DEF v
<1> QED BY <1>1, <1>2, <1>3, PartKeeps

\* No frame is of a generation that has only begun.
LEMMA NewGeneration ==
  ASSUME SyncTypeOK, Young(Line), Young(batch), gen' = gen + 1,
         UNCHANGED <<frames, slots, batch>>
  PROVE  /\ Young(Line)' /\ Young(batch)'
         /\ NoneIn(Line)' /\ NoneIn(slots)' /\ NoneIn(batch)'
         /\ NoneAligned(Line)' /\ NoneAligned(slots)'
         /\ Barred(Line)' /\ Barred(slots)' /\ Opens(Line)'
<1>1. gen \in Nat /\ Line' = Line /\ Line \in Seq(Captured)
  BY LineTyped DEF Line, SyncTypeOK
<1>2. /\ \A i \in DOMAIN Line : Line[i].gen \in Nat /\ Line[i].gen <= gen
      /\ \A i \in DOMAIN batch : batch[i].gen \in Nat /\ batch[i].gen <= gen
  <2>1. \A i \in DOMAIN Line : Line[i] \in Captured
    BY <1>1
  <2>2. \A i \in DOMAIN batch : batch[i] \in Batches
    BY DEF SyncTypeOK
  <2> QED BY <2>1, <2>2 DEF Young, Captured, Batches
<1>3. \A i \in DOMAIN slots : slots[i].gen \in Nat /\ slots[i].gen <= gen
  <2>1. Young(slots)
    BY LineTyped, PartKeeps
  <2>2. \A i \in DOMAIN slots : slots[i] \in Captured
    BY LineTyped
  <2> QED BY <2>1, <2>2 DEF Young, Captured
<1>4. NoneIn(Line)' /\ NoneIn(slots)' /\ NoneIn(batch)'
  BY <1>1, <1>2, <1>3 DEF NoneIn, Current
<1>5. Young(Line)' /\ Young(batch)'
  BY <1>1, <1>2 DEF Young
<1> QED BY <1>4, <1>5 DEF NoneIn, NoneAligned, Barred, Opens

\* The newest frame is the last in line, when there is room for it.
LEMMA LinePushed ==
  ASSUME SyncTypeOK, NEW f \in Captured, UNCHANGED <<gen, slots>>,
         frames' = frames \/ frames' = Append(frames, f)
  PROVE  /\ Young(Line) /\ f.gen <= gen => Young(Line)'
         /\ NoneIn(slots) => NoneIn(slots)'
         /\ NoneAligned(Line) /\ (Current(f) => f.align = 0) => NoneAligned(Line)'
         /\ latch' = latch /\ Barred(Line) /\ (Current(f) => latch) => Barred(Line)'
         /\ /\ latch' = latch /\ Opens(Line) /\ f.align = 0
            /\ rx'.pos = rx.pos /\ f.at = rx.pos
            => Opens(Line)'
         /\ /\ latch' = latch /\ NoneAligned(Line) /\ Barred(Line) /\ f.at = rx'.pos
            => Opens(Line)'
         /\ NoneAligned(slots) => NoneAligned(slots)'
         /\ latch' = latch /\ Barred(slots) => Barred(slots)'
<1>1. Line \in Seq(Captured) /\ slots \in Seq(Captured) /\ frames \in Seq(Captured)
  BY LineTyped
<1>2. Line' = Line \/ Line' = Append(Line, f)
  <2>1. slots \o Append(frames, f) = Append(slots \o frames, f)
    BY <1>1, Shifted
  <2> QED BY <2>1 DEF Line
<1> DEFINE n == Len(Line)
<1>3. /\ n \in Nat /\ DOMAIN Line = 1 .. n
      /\ \A i \in 1 .. n : Append(Line, f)[i] = Line[i]
      /\ DOMAIN Append(Line, f) = 1 .. n + 1 /\ Append(Line, f)[n + 1] = f
  BY <1>1
<1> HIDE DEF n
<1>4. Young(Line) /\ f.gen <= gen => Young(Line)'
  BY <1>2, <1>3 DEF Young
<1>5. NoneAligned(Line) /\ (Current(f) => f.align = 0) => NoneAligned(Line)'
  BY <1>2, <1>3 DEF NoneAligned, Current
<1>6. latch' = latch /\ Barred(Line) /\ (Current(f) => latch) => Barred(Line)'
  BY <1>2, <1>3 DEF Barred, Current
<1>7. ASSUME latch' = latch, Opens(Line), f.align = 0, rx'.pos = rx.pos, f.at = rx.pos
      PROVE  Opens(Line)'
  BY <1>2, <1>3, <1>7 DEF Opens, Current
<1>8. ASSUME latch' = latch, NoneAligned(Line), Barred(Line), f.at = rx'.pos,
             frames' = Append(frames, f) \/ frames' = frames
      PROVE  Opens(Line)'
  BY <1>2, <1>3, <1>8 DEF Opens, Current, NoneAligned, Barred
<1>9. /\ NoneIn(slots) => NoneIn(slots)'
      /\ NoneAligned(slots) => NoneAligned(slots)'
      /\ latch' = latch /\ Barred(slots) => Barred(slots)'
  BY DEF NoneIn, NoneAligned, Barred, Current
<1> QED BY <1>4, <1>5, <1>6, <1>7, <1>8, <1>9

-----------------------------------------------------------------------------
\* What the steps do to what the invariants are about.

\* RxDispatch, as far as the invariants go.
LEMMA RxDispatchDoes ==
  ASSUME SyncTypeOK, RxDispatch
  PROVE  /\ rx.pc = "loop"
         /\ rx'.pc = state /\ rx'.pos = rx.pos /\ rx'.gen = gen /\ rx'.align = discard
         /\ UNCHANGED <<state, gen, latch, discard, fresh, batch, frames, slots, shift,
                        overtaken, proc>>
<1>1. rx \in RxStates /\ proc \in ProcStates
  BY DEF SyncTypeOK
<1>2. rx'.pc = state /\ rx'.pos = rx.pos /\ rx'.gen = gen /\ rx'.align = discard
  BY <1>1 DEF RxDispatch, RxStates
<1> QED BY <1>2 DEF RxDispatch, txVars

\* RxSearch, as far as the invariants go.
LEMMA RxSearchDoes ==
  ASSUME SyncTypeOK, RxSearch
  PROVE  /\ rx.pc = "SYNC_SEARCH" /\ rx'.pc = "loop" /\ rx'.pos = rx.pos
         /\ rx'.gen = rx.gen /\ rx'.align = rx.align
         /\ \/ batch' = batch
            \/ rx.gen = gen /\ \E o : batch' = <<[gen |-> rx.gen, off |-> o]>>
         /\ UNCHANGED <<state, gen, latch, discard, fresh, frames, slots, shift,
                        overtaken, proc>>
<1>1. rx \in RxStates
  BY DEF SyncTypeOK
<1>2. /\ rx.pc = "SYNC_SEARCH" /\ rx'.pc = "loop" /\ rx'.pos = rx.pos
      /\ rx'.gen = rx.gen /\ rx'.align = rx.align
  BY <1>1 DEF RxSearch, RxStates
<1>3. batch' = batch \/ (rx.gen = gen /\ \E o : batch' = <<[gen |-> rx.gen, off |-> o]>>)
  BY DEF RxSearch
<1> QED BY <1>2, <1>3 DEF RxSearch, txVars

\* RxNormal, as far as the invariants go.
LEMMA RxNormalDoes ==
  ASSUME SyncTypeOK, RxNormal
  PROVE  /\ rx.pc = "NORMAL" /\ rx'.pc = "loop" /\ rx'.pos = rx.pos /\ rx'.gen = rx.gen
         /\ rx'.align = rx.align
         /\ \E f \in Captured : /\ frames' = frames \/ frames' = Append(frames, f)
                                /\ f.gen = rx.gen /\ f.align = 0 /\ f.at = rx.pos
         /\ UNCHANGED <<state, gen, latch, discard, fresh, batch, slots, shift,
                        overtaken, proc>>
<1>1. rx \in RxStates
  BY DEF SyncTypeOK
<1>2. /\ rx.pc = "NORMAL" /\ rx'.pc = "loop" /\ rx'.pos = rx.pos /\ rx'.gen = rx.gen
      /\ rx'.align = rx.align
  BY <1>1 DEF RxNormal, RxStates
<1>3. rx.pos \in Positions /\ rx.gen \in Nat /\ 0 \in Int
  BY Fields
<1>4. PICK f \in Captures(rx.pos, rx.gen, 0) : RxPush(f)
  BY DEF RxNormal
<1>5. /\ f \in Captured /\ f.gen = rx.gen /\ f.align = 0 /\ f.at = rx.pos
      /\ frames' = frames \/ frames' = Append(frames, f)
  BY <1>3, <1>4, CapturesTyped, Pushed
<1> QED BY <1>2, <1>5 DEF RxNormal, txVars

\* RxAlign, as far as the invariants go.
LEMMA RxAlignDoes ==
  ASSUME SyncTypeOK, RxAlign
  PROVE  /\ rx.pc = "ALIGNMENT" /\ rx'.pc = "raise" /\ rx'.gen = rx.gen
         /\ rx'.align = rx.align
         /\ rx'.pos = (rx.pos + rx.align) % FrameLen
         /\ \E f \in Captured : /\ frames' = frames \/ frames' = Append(frames, f)
                                /\ f.gen = gen /\ f.at = rx'.pos
         /\ fresh' = FALSE
         /\ shift' = IF fresh THEN -Canonical(rx'.pos) ELSE shift
         /\ overtaken' = (overtaken /\ ~fresh)
         /\ UNCHANGED <<state, gen, latch, discard, batch, slots, proc>>
<1> DEFINE p == (rx.pos + rx.align) % FrameLen
<1>1. rx \in RxStates /\ gen \in Nat
  BY DEF SyncTypeOK
<1>2. rx.pos + rx.align \in Int /\ rx.align \in Int
  BY Constants, Fields DEF Positions
<1>3. p \in Positions
  BY <1>2, ModuloFrame
<1>4. PICK f \in Captures(p, gen, rx.align) : RxPush(f)
  BY DEF RxAlign
<1>5. /\ f \in Captured /\ f.gen = gen /\ f.at = p
      /\ frames' = frames \/ frames' = Append(frames, f)
  BY <1>1, <1>2, <1>3, <1>4, CapturesTyped, Pushed
<1>6. /\ rx' = [rx EXCEPT !.pc = "raise", !.pos = p]
      /\ shift' = IF fresh THEN -Canonical(p) ELSE shift
  BY DEF RxAlign
<1> HIDE DEF p
<1>7. /\ rx'.pc = "raise" /\ rx'.pos = p /\ rx'.gen = rx.gen /\ rx'.align = rx.align
  BY <1>1, <1>6 DEF RxStates
<1>8. \E c \in Captured : /\ frames' = frames \/ frames' = Append(frames, c)
                          /\ c.gen = gen /\ c.at = rx'.pos
  BY <1>5, <1>7
<1> QED BY <1>6, <1>7, <1>8 DEF RxAlign, p

\* RxRaise, as far as the invariants go.
LEMMA RxRaiseDoes ==
  ASSUME SyncTypeOK, RxRaise
  PROVE  /\ rx.pc = "raise"
         /\ rx'.pc = "settle" /\ rx'.pos = rx.pos /\ rx'.gen = rx.gen
         /\ rx'.align = rx.align
         /\ UNCHANGED <<state, gen, latch, discard, fresh, batch, frames, slots, shift,
                        overtaken, proc>>
<1>1. rx \in RxStates /\ proc \in ProcStates
  BY DEF SyncTypeOK
<1>2. rx'.pc = "settle" /\ rx'.pos = rx.pos /\ rx'.gen = rx.gen /\ rx'.align = rx.align
  BY <1>1 DEF RxRaise, RxStates
<1> QED BY <1>2 DEF RxRaise, txVars

\* RxEnterNormal, as far as the invariants go.
LEMMA RxEnterNormalDoes ==
  ASSUME SyncTypeOK, RxEnterNormal
  PROVE  /\ rx.pc = "settle"
         /\ rx'.pc = "loop" /\ rx'.pos = rx.pos /\ rx'.gen = rx.gen
         /\ rx'.align = rx.align
         /\ state' = "NORMAL"
         /\ UNCHANGED <<gen, latch, discard, fresh, batch, frames, slots, shift,
                        overtaken, proc>>
<1>1. rx \in RxStates /\ proc \in ProcStates
  BY DEF SyncTypeOK
<1>2. rx'.pc = "loop" /\ rx'.pos = rx.pos /\ rx'.gen = rx.gen /\ rx'.align = rx.align
  BY <1>1 DEF RxEnterNormal, RxStates
<1> QED BY <1>2 DEF RxEnterNormal, txVars

\* RxError, as far as the invariants go.
LEMMA RxErrorDoes ==
  ASSUME SyncTypeOK, RxError
  PROVE  /\ rx.pc \in States
         /\ rx'.pc = "loop" /\ rx'.pos = rx.pos /\ rx'.gen = rx.gen
         /\ rx'.align = rx.align
         /\ UNCHANGED <<state, gen, latch, discard, fresh, batch, frames, slots, shift,
                        overtaken, proc>>
<1>1. rx \in RxStates /\ proc \in ProcStates
  BY DEF SyncTypeOK
<1>2. rx'.pc = "loop" /\ rx'.pos = rx.pos /\ rx'.gen = rx.gen /\ rx'.align = rx.align
  BY <1>1 DEF RxError, RxStates, States
<1> QED BY <1>2 DEF RxError, txVars, States

\* RxRestart, as far as the invariants go.
LEMMA RxRestartDoes ==
  ASSUME SyncTypeOK, RxRestart
  PROVE  /\ rx.pc = "loop"
         /\ rx'.pc = "reset" /\ rx'.pos = 0 /\ rx'.gen = rx.gen /\ rx'.align = rx.align
         /\ proc'.pc = proc.pc /\ proc'.align = proc.align /\ proc'.from = proc.from
         /\ proc'.found = proc.found
         /\ gen' = gen + 1 /\ latch' = FALSE
         /\ UNCHANGED <<state, discard, fresh, batch, frames, slots, shift, overtaken>>
<1>1. rx \in RxStates /\ proc \in ProcStates
  BY DEF SyncTypeOK
<1>2. /\ rx'.pc = "reset" /\ rx'.pos = 0 /\ rx'.gen = rx.gen /\ rx'.align = rx.align
      /\ proc'.pc = proc.pc /\ proc'.align = proc.align /\ proc'.from = proc.from
      /\ proc'.found = proc.found
  BY <1>1 DEF RxRestart, RxStates, ProcStates
<1> QED BY <1>2 DEF RxRestart, txVars

\* RxResetShift, as far as the invariants go.
LEMMA RxResetShiftDoes ==
  ASSUME SyncTypeOK, RxResetShift
  PROVE  /\ rx.pc = "reset"
         /\ rx'.pc = "seek" /\ rx'.pos = rx.pos /\ rx'.gen = rx.gen
         /\ rx'.align = rx.align
         /\ discard' = 0 /\ shift' = 0 /\ overtaken' = (overtaken \/ Correcting)
         /\ UNCHANGED <<state, gen, latch, fresh, batch, frames, slots, proc>>
<1>1. rx \in RxStates /\ proc \in ProcStates
  BY DEF SyncTypeOK
<1>2. rx'.pc = "seek" /\ rx'.pos = rx.pos /\ rx'.gen = rx.gen /\ rx'.align = rx.align
  BY <1>1 DEF RxResetShift, RxStates
<1> QED BY <1>2 DEF RxResetShift, txVars

\* RxEnterSearch, as far as the invariants go.
LEMMA RxEnterSearchDoes ==
  ASSUME SyncTypeOK, RxEnterSearch
  PROVE  /\ rx.pc = "seek"
         /\ rx'.pc = "flag" /\ rx'.pos = rx.pos /\ rx'.gen = rx.gen
         /\ rx'.align = rx.align
         /\ state' = "SYNC_SEARCH"
         /\ UNCHANGED <<gen, latch, discard, fresh, batch, frames, slots, shift,
                        overtaken, proc>>
<1>1. rx \in RxStates /\ proc \in ProcStates
  BY DEF SyncTypeOK
<1>2. rx'.pc = "flag" /\ rx'.pos = rx.pos /\ rx'.gen = rx.gen /\ rx'.align = rx.align
  BY <1>1 DEF RxEnterSearch, RxStates
<1> QED BY <1>2 DEF RxEnterSearch, txVars

\* RxFlag, as far as the invariants go.
LEMMA RxFlagDoes ==
  ASSUME SyncTypeOK, RxFlag
  PROVE  /\ rx.pc = "flag"
         /\ rx'.pc = "wait" /\ rx'.pos = rx.pos /\ rx'.gen = rx.gen
         /\ rx'.align = rx.align
         /\ UNCHANGED <<state, gen, latch, discard, fresh, batch, frames, slots, shift,
                        overtaken, proc>>
<1>1. rx \in RxStates /\ proc \in ProcStates
  BY DEF SyncTypeOK
<1>2. rx'.pc = "wait" /\ rx'.pos = rx.pos /\ rx'.gen = rx.gen /\ rx'.align = rx.align
  BY <1>1 DEF RxFlag, RxStates
<1> QED BY <1>2 DEF RxFlag, txVars

\* RxStarted, as far as the invariants go.
LEMMA RxStartedDoes ==
  ASSUME SyncTypeOK, RxStarted
  PROVE  /\ rx.pc = "wait"
         /\ rx'.pc = "loop" /\ rx'.pos = rx.pos /\ rx'.gen = rx.gen
         /\ rx'.align = rx.align
         /\ UNCHANGED <<state, gen, latch, discard, fresh, batch, frames, slots, shift,
                        overtaken, proc>>
<1>1. rx \in RxStates /\ proc \in ProcStates
  BY DEF SyncTypeOK
<1>2. rx'.pc = "loop" /\ rx'.pos = rx.pos /\ rx'.gen = rx.gen /\ rx'.align = rx.align
  BY <1>1 DEF RxStarted, RxStates
<1> QED BY <1>2 DEF RxStarted, txVars

\* ProcClear, as far as the invariants go.
LEMMA ProcClearDoes ==
  ASSUME SyncTypeOK, ProcClear
  PROVE  /\ proc.pc = "loop"
         /\ frames' = <<>> /\ batch' = <<>>
         /\ UNCHANGED <<state, gen, latch, discard, fresh, slots, shift, overtaken, rx,
                        proc>>
BY DEF ProcClear, txVars

\* ProcMiss, as far as the invariants go.
LEMMA ProcMissDoes ==
  ASSUME SyncTypeOK, ProcMiss
  PROVE  /\ proc.pc = "loop"
         /\ batch' = <<>>
         /\ UNCHANGED <<state, gen, latch, discard, fresh, frames, slots, shift,
                        overtaken, rx, proc>>
BY DEF ProcMiss, txVars, Idle

\* ProcFound, as far as the invariants go.
LEMMA ProcFoundDoes ==
  ASSUME SyncTypeOK, ProcFound
  PROVE  /\ proc.pc = "loop" /\ proc'.pc = "schedule" /\ proc'.found
         /\ state = "SYNC_SEARCH" /\ ~NoneIn(batch) /\ batch' = <<>> /\ frames' = <<>>
         /\ UNCHANGED <<state, gen, latch, discard, fresh, slots, shift, overtaken, rx>>
<1>1. proc \in ProcStates /\ batch \in Seq(Batches)
  BY DEF SyncTypeOK
<1>2. batch # <<>> /\ Head(batch).gen = gen
  BY DEF ProcFound
<1>3. 1 \in DOMAIN batch /\ Head(batch) = batch[1]
  BY <1>1, <1>2
<1>4. ~NoneIn(batch)
  BY <1>2, <1>3 DEF NoneIn, Current
<1>5. proc.pc = "loop" /\ proc'.pc = "schedule" /\ proc'.found
  BY <1>1 DEF ProcFound, Idle, ProcStates
<1> QED BY <1>4, <1>5 DEF ProcFound, txVars

\* ProcLaunch, as far as the invariants go.
LEMMA ProcLaunchDoes ==
  ASSUME SyncTypeOK, ProcLaunch
  PROVE  /\ proc.pc = "loop" /\ state = "NORMAL"
         /\ UNCHANGED <<state, gen, latch, discard, fresh, batch, shift, overtaken, rx,
                        proc>>
BY DEF ProcLaunch, txVars, Idle

\* ProcCollect, as far as the invariants go.
LEMMA ProcCollectDoes ==
  ASSUME SyncTypeOK, ProcCollect
  PROVE  /\ proc.pc = "loop" /\ proc'.pc \in {"loop", "schedule", "forget"}
         /\ proc'.found => proc.found
         /\ \/ latch' = latch
            \/ Current(Head(slots)) /\ latch' = (latch /\ Head(slots).align = 0)
         /\ proc'.pc = "schedule" =>
              /\ Current(Head(slots)) /\ ~Marked(Head(slots)) /\ ~proc'.found
              /\ ~(latch /\ Head(slots).align = 0)
         /\ UNCHANGED <<state, gen, discard, fresh, batch, frames, shift, overtaken,
                        rx>>
<1>1. proc \in ProcStates /\ proc.pc = "loop"
  BY DEF SyncTypeOK, ProcCollect, Idle
<1> DEFINE f == Head(slots)
           t == Tracked(f)
<1>2. /\ t.pc \in {"loop", "schedule"} /\ ~t.found
      /\ t.pc = "schedule" => ~(latch /\ f.align = 0) /\ ~Marked(f)
      /\ \A n : [t EXCEPT !.bad = n].pc = t.pc /\ [t EXCEPT !.bad = n].found = t.found
  BY <1>1 DEF Tracked, ProcStates, Marked
<1>3. \/ proc' = proc /\ latch' = latch
      \/ proc' = [proc EXCEPT !.pc = "forget", !.bad = 0] /\ latch' = latch
      \/ /\ \E n : proc' = [t EXCEPT !.bad = n]
         /\ f.gen = gen /\ latch' = (latch /\ f.align = 0)
  BY DEF ProcCollect
<1> HIDE DEF t
<1>4. CASE proc' = proc /\ latch' = latch
  BY <1>1, <1>4 DEF ProcCollect, txVars
<1>5. CASE proc' = [proc EXCEPT !.pc = "forget", !.bad = 0] /\ latch' = latch
  <2>1. proc'.pc = "forget" /\ proc'.found = proc.found
    BY <1>1, <1>5 DEF ProcStates
  <2> QED BY <1>1, <1>5, <2>1 DEF ProcCollect, txVars
<1>6. CASE /\ \E n : proc' = [t EXCEPT !.bad = n]
           /\ f.gen = gen /\ latch' = (latch /\ f.align = 0)
  <2>1. proc'.pc = t.pc /\ proc'.found = t.found
    BY <1>2, <1>6
  <2> QED BY <1>1, <1>2, <1>6, <2>1 DEF ProcCollect, txVars, Current
<1> QED BY <1>3, <1>4, <1>5, <1>6

\* ProcSchedule, as far as the invariants go.
LEMMA ProcScheduleDoes ==
  ASSUME SyncTypeOK, ProcSchedule
  PROVE  /\ proc.pc = "schedule"
         /\ proc'.pc = "discard" /\ proc'.align = proc.align /\ proc'.from = state
         /\ proc'.found = proc.found
         /\ UNCHANGED <<state, gen, latch, discard, fresh, batch, frames, slots, shift,
                        overtaken, rx>>
<1>1. rx \in RxStates /\ proc \in ProcStates
  BY DEF SyncTypeOK
<1>2. /\ proc'.pc = "discard" /\ proc'.align = proc.align /\ proc'.from = state
      /\ proc'.found = proc.found
  BY <1>1 DEF ProcSchedule, ProcStates
<1> QED BY <1>2 DEF ProcSchedule, txVars

\* ProcDiscard, as far as the invariants go.
LEMMA ProcDiscardDoes ==
  ASSUME SyncTypeOK, ProcDiscard
  PROVE  /\ proc.pc = "discard"
         /\ proc'.pc = "shift" /\ proc'.align = proc.align /\ proc'.from = proc.from
         /\ proc'.found = proc.found
         /\ discard' = proc.align
         /\ UNCHANGED <<state, gen, latch, fresh, batch, frames, slots, shift,
                        overtaken, rx>>
<1>1. rx \in RxStates /\ proc \in ProcStates
  BY DEF SyncTypeOK
<1>2. /\ proc'.pc = "shift" /\ proc'.align = proc.align /\ proc'.from = proc.from
      /\ proc'.found = proc.found
  BY <1>1 DEF ProcDiscard, ProcStates
<1> QED BY <1>2 DEF ProcDiscard, txVars

\* ProcShift, as far as the invariants go.
LEMMA ProcShiftDoes ==
  ASSUME SyncTypeOK, ProcShift
  PROVE  /\ proc.pc = "shift"
         /\ proc'.pc = "align" /\ proc'.align = proc.align /\ proc'.from = proc.from
         /\ proc'.found = proc.found
         /\ fresh' = (proc.from = "SYNC_SEARCH")
         /\ shift' = IF proc.from = "SYNC_SEARCH" THEN shift
                     ELSE shift - Canonical(proc.align)
         /\ UNCHANGED <<state, gen, latch, discard, batch, frames, slots, overtaken,
                        rx>>
<1>1. rx \in RxStates /\ proc \in ProcStates
  BY DEF SyncTypeOK
<1>2. /\ proc'.pc = "align" /\ proc'.align = proc.align /\ proc'.from = proc.from
      /\ proc'.found = proc.found
  BY <1>1 DEF ProcShift, ProcStates
<1> QED BY <1>2 DEF ProcShift, txVars

\* ProcAlign, as far as the invariants go.
LEMMA ProcAlignDoes ==
  ASSUME SyncTypeOK, ProcAlign
  PROVE  /\ proc.pc = "align"
         /\ proc'.pc = "mark" /\ proc'.align = proc.align /\ proc'.from = proc.from
         /\ proc'.found = proc.found
         /\ state' = "ALIGNMENT"
         /\ UNCHANGED <<gen, latch, discard, fresh, batch, frames, slots, shift,
                        overtaken, rx>>
<1>1. rx \in RxStates /\ proc \in ProcStates
  BY DEF SyncTypeOK
<1>2. /\ proc'.pc = "mark" /\ proc'.align = proc.align /\ proc'.from = proc.from
      /\ proc'.found = proc.found
  BY <1>1 DEF ProcAlign, ProcStates
<1> QED BY <1>2 DEF ProcAlign, txVars

\* ProcMark, as far as the invariants go.
LEMMA ProcMarkDoes ==
  ASSUME SyncTypeOK, ProcMark
  PROVE  /\ proc.pc = "mark" /\ proc'.pc = "loop" /\ ~proc'.found
         /\ latch' = (latch \/ ~proc.found)
         /\ rx'.pc = rx.pc /\ rx'.pos = rx.pos /\ rx'.gen = rx.gen
         /\ rx'.align = rx.align
         /\ \E b \in BOOLEAN : Mark("alignment", b)
         /\ UNCHANGED <<state, gen, discard, fresh, batch, shift, overtaken>>
<1>1. proc \in ProcStates /\ rx \in RxStates
  BY DEF SyncTypeOK
<1>2. proc.pc = "mark" /\ proc'.pc = "loop" /\ ~proc'.found
  BY <1>1 DEF ProcMark, ProcStates
<1>3. rx'.pc = rx.pc /\ rx'.pos = rx.pos /\ rx'.gen = rx.gen /\ rx'.align = rx.align
  BY <1>1 DEF ProcMark, Mark, RxStates
<1> QED BY <1>2, <1>3 DEF ProcMark, txVars

\* ProcForget, as far as the invariants go.
LEMMA ProcForgetDoes ==
  ASSUME SyncTypeOK, ProcForget
  PROVE  /\ proc.pc = "forget"
         /\ proc'.pc = "mute" /\ proc'.align = proc.align /\ proc'.from = proc.from
         /\ proc'.found = proc.found
         /\ gen' = gen + 1 /\ latch' = FALSE
         /\ UNCHANGED <<state, discard, fresh, batch, frames, slots, shift, overtaken,
                        rx>>
<1>1. rx \in RxStates /\ proc \in ProcStates
  BY DEF SyncTypeOK
<1>2. /\ proc'.pc = "mute" /\ proc'.align = proc.align /\ proc'.from = proc.from
      /\ proc'.found = proc.found
  BY <1>1 DEF ProcForget, ProcStates
<1> QED BY <1>2 DEF ProcForget, txVars

\* ProcMute, as far as the invariants go.
LEMMA ProcMuteDoes ==
  ASSUME SyncTypeOK, ProcMute
  PROVE  /\ proc.pc = "mute"
         /\ proc'.pc = "search" /\ proc'.align = proc.align /\ proc'.from = proc.from
         /\ proc'.found = proc.found
         /\ frames' = <<>> /\ batch' = <<>>
         /\ UNCHANGED <<state, gen, latch, discard, fresh, slots, shift, overtaken, rx>>
<1>1. rx \in RxStates /\ proc \in ProcStates
  BY DEF SyncTypeOK
<1>2. /\ proc'.pc = "search" /\ proc'.align = proc.align /\ proc'.from = proc.from
      /\ proc'.found = proc.found
  BY <1>1 DEF ProcMute, ProcStates
<1> QED BY <1>2 DEF ProcMute, txVars

\* ProcEnterSearch, as far as the invariants go.
LEMMA ProcEnterSearchDoes ==
  ASSUME SyncTypeOK, ProcEnterSearch
  PROVE  /\ proc.pc = "search"
         /\ proc'.pc = "gate" /\ proc'.align = proc.align /\ proc'.from = proc.from
         /\ proc'.found = proc.found
         /\ state' = "SYNC_SEARCH"
         /\ UNCHANGED <<gen, latch, discard, fresh, batch, frames, slots, shift,
                        overtaken, rx>>
<1>1. rx \in RxStates /\ proc \in ProcStates
  BY DEF SyncTypeOK
<1>2. /\ proc'.pc = "gate" /\ proc'.align = proc.align /\ proc'.from = proc.from
      /\ proc'.found = proc.found
  BY <1>1 DEF ProcEnterSearch, ProcStates
<1> QED BY <1>2 DEF ProcEnterSearch, txVars

\* ProcGate, as far as the invariants go.
LEMMA ProcGateDoes ==
  ASSUME SyncTypeOK, ProcGate
  PROVE  /\ proc.pc = "gate" /\ proc'.pc = "loop" /\ proc'.align = proc.align
         /\ proc'.from = proc.from /\ proc'.found = proc.found
         /\ rx'.pc = rx.pc /\ rx'.pos = rx.pos /\ rx'.gen = rx.gen
         /\ rx'.align = rx.align
         /\ \E b \in BOOLEAN : Mark("reset", b)
         /\ UNCHANGED <<state, gen, latch, discard, fresh, batch, shift, overtaken>>
<1>1. proc \in ProcStates /\ rx \in RxStates
  BY DEF SyncTypeOK
<1>2. /\ proc.pc = "gate" /\ proc'.pc = "loop" /\ proc'.align = proc.align
      /\ proc'.from = proc.from /\ proc'.found = proc.found
  BY <1>1 DEF ProcGate, ProcStates
<1>3. rx'.pc = rx.pc /\ rx'.pos = rx.pos /\ rx'.gen = rx.gen /\ rx'.align = rx.align
  BY <1>1 DEF ProcGate, Mark, RxStates
<1> QED BY <1>2, <1>3 DEF ProcGate, txVars

-----------------------------------------------------------------------------

\* A step keeps what a new generation leaves behind known as old.
LEMMA GenerationKept == SyncTypeOK /\ GenerationInv /\ [Next]_vars => GenerationInv'
<1> SUFFICES ASSUME SyncTypeOK, GenerationInv, [Next]_vars PROVE GenerationInv'
  OBVIOUS
<1>0. Young(Line) /\ Young(batch) /\ gen \in Nat /\ rx.gen \in Nat /\ state \in States
  BY Fields DEF GenerationInv, SyncTypeOK
<1>1. CASE RxDispatch
  <2>1. LineLess /\ SlotsLess
    BY <1>1, RxDispatchDoes, LineUnchanged
  <2>2. (NoneIn(batch) => NoneIn(batch)') /\ (Young(batch) => Young(batch)')
    BY <1>1, RxDispatchDoes DEF NoneIn, Current, Young
  <2> QED BY <1>0, <1>1, <2>1, RxDispatchDoes, LessKeeps, SlotsKeep, <2>2
          DEF GenerationInv, Aligning, States
<1>2. CASE RxSearch
  <2>1. LineLess /\ SlotsLess
    BY <1>2, RxSearchDoes, LineUnchanged
  <2>2. Young(batch)' /\ (NoneIn(batch)' \/ rx.gen = gen \/ ~NoneIn(batch))
    BY <1>0, <1>2, RxSearchDoes DEF Young, NoneIn, Current, GenerationInv
  <2> QED BY <1>0, <1>2, <2>1, RxSearchDoes, LessKeeps, SlotsKeep, <2>2
          DEF GenerationInv, Aligning, States
<1>3. CASE RxNormal
  <2>1. PICK f \in Captured : /\ frames' = frames \/ frames' = Append(frames, f)
                             /\ f.gen = rx.gen /\ f.align = 0 /\ f.at = rx.pos
    BY <1>3, RxNormalDoes
  <2>2. (NoneIn(batch) => NoneIn(batch)') /\ (Young(batch) => Young(batch)')
    BY <1>3, RxNormalDoes DEF NoneIn, Current, Young
  <2> QED BY <1>0, <1>3, <2>1, RxNormalDoes, LinePushed, <2>2
          DEF GenerationInv, Aligning, States
<1>4. CASE RxAlign
  <2>1. PICK f \in Captured : /\ frames' = frames \/ frames' = Append(frames, f)
                             /\ f.gen = gen /\ f.at = rx'.pos
    BY <1>4, RxAlignDoes
  <2>2. (NoneIn(batch) => NoneIn(batch)') /\ (Young(batch) => Young(batch)')
    BY <1>4, RxAlignDoes DEF NoneIn, Current, Young
  <2> QED BY <1>0, <1>4, <2>1, RxAlignDoes, LinePushed, <2>2
          DEF GenerationInv, Aligning, States
<1>5. CASE RxRaise
  <2>1. LineLess /\ SlotsLess
    BY <1>5, RxRaiseDoes, LineUnchanged
  <2>2. (NoneIn(batch) => NoneIn(batch)') /\ (Young(batch) => Young(batch)')
    BY <1>5, RxRaiseDoes DEF NoneIn, Current, Young
  <2> QED BY <1>0, <1>5, <2>1, RxRaiseDoes, LessKeeps, SlotsKeep, <2>2
          DEF GenerationInv, Aligning, States
<1>6. CASE RxEnterNormal
  <2>1. LineLess /\ SlotsLess
    BY <1>6, RxEnterNormalDoes, LineUnchanged
  <2>2. (NoneIn(batch) => NoneIn(batch)') /\ (Young(batch) => Young(batch)')
    BY <1>6, RxEnterNormalDoes DEF NoneIn, Current, Young
  <2> QED BY <1>0, <1>6, <2>1, RxEnterNormalDoes, LessKeeps, SlotsKeep, <2>2
          DEF GenerationInv, Aligning, States
<1>7. CASE RxError
  <2>1. LineLess /\ SlotsLess
    BY <1>7, RxErrorDoes, LineUnchanged
  <2>2. (NoneIn(batch) => NoneIn(batch)') /\ (Young(batch) => Young(batch)')
    BY <1>7, RxErrorDoes DEF NoneIn, Current, Young
  <2> QED BY <1>0, <1>7, <2>1, RxErrorDoes, LessKeeps, SlotsKeep, <2>2
          DEF GenerationInv, Aligning, States
<1>8. CASE RxRestart
  <2>1. /\ Young(Line)' /\ Young(batch)'
        /\ NoneIn(Line)' /\ NoneIn(slots)' /\ NoneIn(batch)'
        /\ NoneAligned(Line)' /\ NoneAligned(slots)'
        /\ Barred(Line)' /\ Barred(slots)' /\ Opens(Line)'
    BY <1>0, <1>8, RxRestartDoes, NewGeneration
  <2> QED BY <1>0, <1>8, <2>1, RxRestartDoes
          DEF GenerationInv, Aligning, States
<1>9. CASE RxResetShift
  <2>1. LineLess /\ SlotsLess
    BY <1>9, RxResetShiftDoes, LineUnchanged
  <2>2. (NoneIn(batch) => NoneIn(batch)') /\ (Young(batch) => Young(batch)')
    BY <1>9, RxResetShiftDoes DEF NoneIn, Current, Young
  <2> QED BY <1>0, <1>9, <2>1, RxResetShiftDoes, LessKeeps, SlotsKeep, <2>2
          DEF GenerationInv, Aligning, States
<1>10. CASE RxEnterSearch
  <2>1. LineLess /\ SlotsLess
    BY <1>10, RxEnterSearchDoes, LineUnchanged
  <2>2. (NoneIn(batch) => NoneIn(batch)') /\ (Young(batch) => Young(batch)')
    BY <1>10, RxEnterSearchDoes DEF NoneIn, Current, Young
  <2> QED BY <1>0, <1>10, <2>1, RxEnterSearchDoes, LessKeeps, SlotsKeep, <2>2
          DEF GenerationInv, Aligning, States
<1>11. CASE RxFlag
  <2>1. LineLess /\ SlotsLess
    BY <1>11, RxFlagDoes, LineUnchanged
  <2>2. (NoneIn(batch) => NoneIn(batch)') /\ (Young(batch) => Young(batch)')
    BY <1>11, RxFlagDoes DEF NoneIn, Current, Young
  <2> QED BY <1>0, <1>11, <2>1, RxFlagDoes, LessKeeps, SlotsKeep, <2>2
          DEF GenerationInv, Aligning, States
<1>12. CASE RxStarted
  <2>1. LineLess /\ SlotsLess
    BY <1>12, RxStartedDoes, LineUnchanged
  <2>2. (NoneIn(batch) => NoneIn(batch)') /\ (Young(batch) => Young(batch)')
    BY <1>12, RxStartedDoes DEF NoneIn, Current, Young
  <2> QED BY <1>0, <1>12, <2>1, RxStartedDoes, LessKeeps, SlotsKeep, <2>2
          DEF GenerationInv, Aligning, States
<1>13. CASE ProcClear
  <2>1. LineLess /\ SlotsLess
    BY <1>13, ProcClearDoes, LineCleared
  <2>2. NoneIn(batch)' /\ Young(batch)'
    BY <1>13, ProcClearDoes DEF NoneIn, Young
  <2> QED BY <1>0, <1>13, <2>1, ProcClearDoes, LessKeeps, SlotsKeep, <2>2
          DEF GenerationInv, Aligning, States
<1>14. CASE ProcMiss
  <2>1. LineLess /\ SlotsLess
    BY <1>14, ProcMissDoes, LineUnchanged
  <2>2. NoneIn(batch)' /\ Young(batch)'
    BY <1>14, ProcMissDoes DEF NoneIn, Young
  <2> QED BY <1>0, <1>14, <2>1, ProcMissDoes, LessKeeps, SlotsKeep, <2>2
          DEF GenerationInv, Aligning, States
<1>15. CASE ProcFound
  <2>1. LineLess /\ SlotsLess
    BY <1>15, ProcFoundDoes, LineCleared
  <2>2. NoneIn(batch)' /\ Young(batch)'
    BY <1>15, ProcFoundDoes DEF NoneIn, Young
  <2> QED BY <1>0, <1>15, <2>1, ProcFoundDoes, LessKeeps, SlotsKeep, <2>2
          DEF GenerationInv, Aligning, States
<1>16. CASE ProcLaunch
  <2>1. LineLess
    BY <1>16, LineLaunched
  <2>2. (NoneIn(batch) => NoneIn(batch)') /\ (Young(batch) => Young(batch)')
    BY <1>16, ProcLaunchDoes DEF NoneIn, Current, Young
  <2> QED BY <1>0, <1>16, <2>1, ProcLaunchDoes, LessKeeps, SlotsKeep, <2>2
          DEF GenerationInv, Aligning, States
<1>17. CASE ProcCollect
  <2>1. LineLess /\ SlotsLess
    BY <1>17, LineCollected
  <2>2. (NoneIn(batch) => NoneIn(batch)') /\ (Young(batch) => Young(batch)')
    BY <1>17, ProcCollectDoes DEF NoneIn, Current, Young
  <2> QED BY <1>0, <1>17, <2>1, ProcCollectDoes, LessKeeps, SlotsKeep, <2>2
          DEF GenerationInv, Aligning, States
<1>18. CASE ProcSchedule
  <2>1. LineLess /\ SlotsLess
    BY <1>18, ProcScheduleDoes, LineUnchanged
  <2>2. (NoneIn(batch) => NoneIn(batch)') /\ (Young(batch) => Young(batch)')
    BY <1>18, ProcScheduleDoes DEF NoneIn, Current, Young
  <2> QED BY <1>0, <1>18, <2>1, ProcScheduleDoes, LessKeeps, SlotsKeep, <2>2
          DEF GenerationInv, Aligning, States
<1>19. CASE ProcDiscard
  <2>1. LineLess /\ SlotsLess
    BY <1>19, ProcDiscardDoes, LineUnchanged
  <2>2. (NoneIn(batch) => NoneIn(batch)') /\ (Young(batch) => Young(batch)')
    BY <1>19, ProcDiscardDoes DEF NoneIn, Current, Young
  <2> QED BY <1>0, <1>19, <2>1, ProcDiscardDoes, LessKeeps, SlotsKeep, <2>2
          DEF GenerationInv, Aligning, States
<1>20. CASE ProcShift
  <2>1. LineLess /\ SlotsLess
    BY <1>20, ProcShiftDoes, LineUnchanged
  <2>2. (NoneIn(batch) => NoneIn(batch)') /\ (Young(batch) => Young(batch)')
    BY <1>20, ProcShiftDoes DEF NoneIn, Current, Young
  <2> QED BY <1>0, <1>20, <2>1, ProcShiftDoes, LessKeeps, SlotsKeep, <2>2
          DEF GenerationInv, Aligning, States
<1>21. CASE ProcAlign
  <2>1. LineLess /\ SlotsLess
    BY <1>21, ProcAlignDoes, LineUnchanged
  <2>2. (NoneIn(batch) => NoneIn(batch)') /\ (Young(batch) => Young(batch)')
    BY <1>21, ProcAlignDoes DEF NoneIn, Current, Young
  <2> QED BY <1>0, <1>21, <2>1, ProcAlignDoes, LessKeeps, SlotsKeep, <2>2
          DEF GenerationInv, Aligning, States
<1>22. CASE ProcMark
  <2>1. LineLess /\ SlotsLess
    BY <1>22, ProcMarkDoes, LineMarked DEF Gates
  <2>2. (NoneIn(batch) => NoneIn(batch)') /\ (Young(batch) => Young(batch)')
    BY <1>22, ProcMarkDoes DEF NoneIn, Current, Young
  <2> QED BY <1>0, <1>22, <2>1, ProcMarkDoes, LessKeeps, SlotsKeep, <2>2
          DEF GenerationInv, Aligning, States
<1>23. CASE ProcForget
  <2>1. /\ Young(Line)' /\ Young(batch)'
        /\ NoneIn(Line)' /\ NoneIn(slots)' /\ NoneIn(batch)'
        /\ NoneAligned(Line)' /\ NoneAligned(slots)'
        /\ Barred(Line)' /\ Barred(slots)' /\ Opens(Line)'
    BY <1>0, <1>23, ProcForgetDoes, NewGeneration
  <2> QED BY <1>0, <1>23, <2>1, ProcForgetDoes
          DEF GenerationInv, Aligning, States
<1>24. CASE ProcMute
  <2>1. LineLess /\ SlotsLess
    BY <1>24, ProcMuteDoes, LineCleared
  <2>2. NoneIn(batch)' /\ Young(batch)'
    BY <1>24, ProcMuteDoes DEF NoneIn, Young
  <2> QED BY <1>0, <1>24, <2>1, ProcMuteDoes, LessKeeps, SlotsKeep, <2>2
          DEF GenerationInv, Aligning, States
<1>25. CASE ProcEnterSearch
  <2>1. LineLess /\ SlotsLess
    BY <1>25, ProcEnterSearchDoes, LineUnchanged
  <2>2. (NoneIn(batch) => NoneIn(batch)') /\ (Young(batch) => Young(batch)')
    BY <1>25, ProcEnterSearchDoes DEF NoneIn, Current, Young
  <2> QED BY <1>0, <1>25, <2>1, ProcEnterSearchDoes, LessKeeps, SlotsKeep, <2>2
          DEF GenerationInv, Aligning, States
<1>26. CASE ProcGate
  <2>1. LineLess /\ SlotsLess
    BY <1>26, ProcGateDoes, LineMarked DEF Gates
  <2>2. (NoneIn(batch) => NoneIn(batch)') /\ (Young(batch) => Young(batch)')
    BY <1>26, ProcGateDoes DEF NoneIn, Current, Young
  <2> QED BY <1>0, <1>26, <2>1, ProcGateDoes, LessKeeps, SlotsKeep, <2>2
          DEF GenerationInv, Aligning, States
<1>27. CASE UNCHANGED <<state, gen, latch, discard, fresh, batch, frames, slots, rx, proc>>
  <2>1. LineLess /\ SlotsLess
    BY <1>27, LineUnchanged
  <2>2. (NoneIn(batch) => NoneIn(batch)') /\ (Young(batch) => Young(batch)')
    BY <1>27 DEF NoneIn, Current, Young
  <2> QED BY <1>27, <2>1, <2>2, LessKeeps, SlotsKeep DEF GenerationInv, Aligning, States
<1>28. AsyncError \/ Drift \/ Transmit \/ TransmitShort \/ UNCHANGED vars =>
        UNCHANGED <<state, gen, latch, discard, fresh, batch, frames, slots, rx, proc>>
  BY DEF AsyncError, Drift, Transmit, TransmitShort, vars, syncVars
<1> QED BY <1>1, <1>2, <1>3, <1>4, <1>5, <1>6, <1>7, <1>8, <1>9, <1>10, <1>11, <1>12,
           <1>13, <1>14, <1>15, <1>16, <1>17, <1>18, <1>19, <1>20, <1>21, <1>22, <1>23,
           <1>24, <1>25, <1>26, <1>27, <1>28
        DEF Next, Receive, Process

\* Where no frame is of the generation, none is aligned or may act.
LEMMA NoneNoneAligned ==
  ASSUME NEW list
  PROVE  NoneIn(list) => NoneAligned(list) /\ Barred(list)
BY DEF NoneIn, NoneAligned, Barred

\* The line before and after a frame is collected, place by place.
LEMMA Collected ==
  ASSUME SyncTypeOK, ProcCollect
  PROVE  /\ 1 \in DOMAIN Line /\ Line[1] = Head(slots)
         /\ 1 \in DOMAIN slots /\ slots[1] = Head(slots)
         /\ DOMAIN Line = 1 .. Len(Line) /\ Len(Line) \in Nat
         /\ DOMAIN Line' = 1 .. Len(Line) - 1
         /\ \A i \in DOMAIN Line' : i + 1 \in DOMAIN Line /\ Line'[i] = Line[i + 1]
<1>1. /\ Line # <<>> /\ Line' = Tail(Line) /\ Line[1] = Head(slots) /\ slots # <<>>
      /\ Line \in Seq(Captured) /\ slots \in Seq(Captured)
  BY LineCollected, LineTyped
<1>2. 1 \in DOMAIN slots /\ slots[1] = Head(slots) /\ 1 \in DOMAIN Line
  BY <1>1
<1>3. /\ DOMAIN Line = 1 .. Len(Line) /\ Len(Line) \in Nat
      /\ DOMAIN Line' = 1 .. Len(Line) - 1
  BY <1>1
<1>4. \A i \in 1 .. Len(Line) - 1 : Tail(Line)[i] = Line[i + 1]
  BY <1>1
<1>5. \A i \in DOMAIN Line' : i + 1 \in DOMAIN Line /\ Line'[i] = Line[i + 1]
  BY <1>1, <1>3, <1>4
<1> QED BY <1>1, <1>2, <1>3, <1>5

\* A correction is only ever due from the frame where the receiver is.
LEMMA Due ==
  ASSUME SyncTypeOK, GenerationInv, AlignmentInv, GateInv, ProcCollect,
         proc'.pc = "schedule"
  PROVE  /\ state = "NORMAL" /\ rx.pc \notin Aligning /\ ~proc'.found
         /\ Head(slots).at = rx.pos /\ NoneAligned(Line)'
<1> DEFINE f == Head(slots)
<1>1. /\ proc.pc = "loop" /\ ~proc'.found /\ gen' = gen
      /\ Current(f) /\ ~Marked(f) /\ ~(latch /\ f.align = 0)
  BY ProcCollectDoes
<1>2. /\ 1 \in DOMAIN Line /\ Line[1] = f /\ 1 \in DOMAIN slots /\ slots[1] = f
      /\ DOMAIN Line = 1 .. Len(Line) /\ Len(Line) \in Nat
      /\ DOMAIN Line' = 1 .. Len(Line) - 1
      /\ \A i \in DOMAIN Line' : i + 1 \in DOMAIN Line /\ Line'[i] = Line[i + 1]
  BY Collected
<1> HIDE DEF f
<1>3. state # "SYNC_SEARCH"
  BY <1>1, <1>2 DEF GenerationInv, NoneIn
<1>4. ~(NoneAligned(Line) /\ Barred(Line)) /\ ~(NoneAligned(slots) /\ Barred(slots))
  BY <1>1, <1>2 DEF NoneAligned, Barred
<1>5. state = "NORMAL" /\ rx.pc \notin Aligning
  <2>1. ~Pending /\ rx.pc \notin {"raise", "settle"}
    BY <1>1, <1>4 DEF AlignmentInv, GateInv
  <2>2. state \in States
    BY DEF SyncTypeOK
  <2> QED BY <1>3, <2>1, <2>2 DEF Pending, Aligning, States
<1>6. /\ f.at = rx.pos
      /\ \A j \in DOMAIN Line : 1 < j /\ Current(Line[j]) => Line[j].align = 0
  BY <1>1, <1>2 DEF GateInv, Opens
<1>7. NoneAligned(Line)'
  <2> SUFFICES ASSUME NEW i \in DOMAIN Line', Line'[i].gen = gen PROVE Line'[i].align = 0
    BY <1>1 DEF NoneAligned, Current
  <2>1. /\ i + 1 \in DOMAIN Line /\ Line'[i] = Line[i + 1] /\ 1 < i + 1
        /\ Current(Line[i + 1])
    BY <1>2 DEF Current
  <2> QED BY <1>6, <2>1
<1> QED BY <1>1, <1>5, <1>6, <1>7 DEF f

\* The latch is opened by the frame that the alignment began with.
LEMMA Unlatched ==
  ASSUME SyncTypeOK, GenerationInv, AlignmentInv, GateInv, ProcCollect, latch' # latch
  PROVE  ~Pending /\ rx.pc \notin {"raise", "settle"} /\ Opens(Line)'
<1> DEFINE f == Head(slots)
<1>1. /\ proc.pc = "loop" /\ gen' = gen /\ rx' = rx /\ latch \in BOOLEAN
      /\ Current(f) /\ latch' = (latch /\ f.align = 0)
  BY ProcCollectDoes DEF SyncTypeOK
<1>2. /\ 1 \in DOMAIN Line /\ Line[1] = f /\ 1 \in DOMAIN slots /\ slots[1] = f
      /\ DOMAIN Line = 1 .. Len(Line) /\ Len(Line) \in Nat
      /\ DOMAIN Line' = 1 .. Len(Line) - 1
      /\ \A i \in DOMAIN Line' : i + 1 \in DOMAIN Line /\ Line'[i] = Line[i + 1]
  BY Collected
<1> HIDE DEF f
<1>3. latch /\ f.align # 0
  BY <1>1
<1>4. ~NoneAligned(Line) /\ ~NoneAligned(slots)
  BY <1>1, <1>2, <1>3 DEF NoneAligned
<1>5. ~Pending /\ rx.pc \notin {"raise", "settle"}
  BY <1>4 DEF AlignmentInv, GateInv
<1>6. Opens(Line)
  BY <1>1 DEF GateInv
<1>7. Opens(Line)'
  <2> SUFFICES ASSUME NEW i \in DOMAIN Line', Line'[i].gen = gen, ~Marked(Line'[i])
               PROVE  /\ Line'[i].at = rx.pos
                      /\ \A j \in DOMAIN Line' :
                           i < j /\ Line'[j].gen = gen => Line'[j].align = 0
    BY <1>1 DEF Opens, Current
  <2>1. /\ i + 1 \in DOMAIN Line /\ Line'[i] = Line[i + 1] /\ 1 < i + 1
        /\ Current(Line[i + 1]) /\ ~Marked(Line[i + 1])
    BY <1>2 DEF Current
  <2> DEFINE k == i + 1
  <2>2. k \in DOMAIN Line /\ 1 < k /\ Current(Line[k]) /\ ~Marked(Line[k])
    BY <2>1
  <2> HIDE DEF k
  <2>3. /\ Line[k].at = rx.pos
        /\ \A j \in DOMAIN Line : k < j /\ Current(Line[j]) => Line[j].align = 0
    BY <1>1, <1>2, <1>3, <1>6, <2>2 DEF Opens
  <2>4. ASSUME NEW j \in DOMAIN Line', i < j, Line'[j].gen = gen PROVE Line'[j].align = 0
    <3>1. j + 1 \in DOMAIN Line /\ Line'[j] = Line[j + 1] /\ k < j + 1
      BY <1>2, <2>4 DEF k
    <3> QED BY <2>3, <2>4, <3>1 DEF Current
  <2> QED BY <2>1, <2>3, <2>4 DEF k
<1> QED BY <1>5, <1>7

\* A step keeps alignments apart: one is scheduled when the one before has settled.
LEMMA AlignmentKept ==
  SyncTypeOK /\ GenerationInv /\ AlignmentInv /\ GateInv /\ [Next]_vars
    => AlignmentInv'
<1> SUFFICES ASSUME SyncTypeOK, GenerationInv, AlignmentInv, GateInv, [Next]_vars
             PROVE  AlignmentInv'
  OBVIOUS
<1>0. Young(Line) /\ Young(batch) /\ gen \in Nat /\ rx.gen \in Nat /\ state \in States
  BY Fields DEF GenerationInv, SyncTypeOK
<1>1. CASE RxDispatch
  <2>1. LineLess /\ SlotsLess
    BY <1>1, RxDispatchDoes, LineUnchanged
  <2> QED BY <1>0, <1>1, <2>1, RxDispatchDoes, LessKeeps, SlotsKeep
          DEF GenerationInv, AlignmentInv, Aligning, Scheduling, Pending, States
<1>2. CASE RxSearch
  <2>1. LineLess /\ SlotsLess
    BY <1>2, RxSearchDoes, LineUnchanged
  <2> QED BY <1>0, <1>2, <2>1, RxSearchDoes, LessKeeps, SlotsKeep
          DEF GenerationInv, AlignmentInv, Aligning, Scheduling, Pending, States
<1>3. CASE RxNormal
  <2>1. PICK f \in Captured : /\ frames' = frames \/ frames' = Append(frames, f)
                             /\ f.gen = rx.gen /\ f.align = 0 /\ f.at = rx.pos
    BY <1>3, RxNormalDoes
  <2> QED BY <1>0, <1>3, <2>1, RxNormalDoes, LinePushed
          DEF GenerationInv, AlignmentInv, Aligning, Scheduling, Pending, States
<1>4. CASE RxAlign
  <2>1. PICK f \in Captured : /\ frames' = frames \/ frames' = Append(frames, f)
                             /\ f.gen = gen /\ f.at = rx'.pos
    BY <1>4, RxAlignDoes
  <2> QED BY <1>0, <1>4, <2>1, RxAlignDoes, LinePushed
          DEF GenerationInv, AlignmentInv, Aligning, Scheduling, Pending, States
<1>5. CASE RxRaise
  <2>1. LineLess /\ SlotsLess
    BY <1>5, RxRaiseDoes, LineUnchanged
  <2> QED BY <1>0, <1>5, <2>1, RxRaiseDoes, LessKeeps, SlotsKeep
          DEF GenerationInv, AlignmentInv, Aligning, Scheduling, Pending, States
<1>6. CASE RxEnterNormal
  <2>1. LineLess /\ SlotsLess
    BY <1>6, RxEnterNormalDoes, LineUnchanged
  <2> QED BY <1>0, <1>6, <2>1, RxEnterNormalDoes, LessKeeps, SlotsKeep
          DEF GenerationInv, AlignmentInv, Aligning, Scheduling, Pending, States
<1>7. CASE RxError
  <2>1. LineLess /\ SlotsLess
    BY <1>7, RxErrorDoes, LineUnchanged
  <2> QED BY <1>0, <1>7, <2>1, RxErrorDoes, LessKeeps, SlotsKeep
          DEF GenerationInv, AlignmentInv, Aligning, Scheduling, Pending, States
<1>8. CASE RxRestart
  <2>1. /\ Young(Line)' /\ Young(batch)'
        /\ NoneIn(Line)' /\ NoneIn(slots)' /\ NoneIn(batch)'
        /\ NoneAligned(Line)' /\ NoneAligned(slots)'
        /\ Barred(Line)' /\ Barred(slots)' /\ Opens(Line)'
    BY <1>0, <1>8, RxRestartDoes, NewGeneration
  <2> QED BY <1>0, <1>8, <2>1, RxRestartDoes
          DEF GenerationInv, AlignmentInv, Aligning, Scheduling, Pending, States
<1>9. CASE RxResetShift
  <2>1. LineLess /\ SlotsLess
    BY <1>9, RxResetShiftDoes, LineUnchanged
  <2> QED BY <1>0, <1>9, <2>1, RxResetShiftDoes, LessKeeps, SlotsKeep
          DEF GenerationInv, AlignmentInv, Aligning, Scheduling, Pending, States
<1>10. CASE RxEnterSearch
  <2>1. LineLess /\ SlotsLess
    BY <1>10, RxEnterSearchDoes, LineUnchanged
  <2> QED BY <1>0, <1>10, <2>1, RxEnterSearchDoes, LessKeeps, SlotsKeep
          DEF GenerationInv, AlignmentInv, Aligning, Scheduling, Pending, States
<1>11. CASE RxFlag
  <2>1. LineLess /\ SlotsLess
    BY <1>11, RxFlagDoes, LineUnchanged
  <2> QED BY <1>0, <1>11, <2>1, RxFlagDoes, LessKeeps, SlotsKeep
          DEF GenerationInv, AlignmentInv, Aligning, Scheduling, Pending, States
<1>12. CASE RxStarted
  <2>1. LineLess /\ SlotsLess
    BY <1>12, RxStartedDoes, LineUnchanged
  <2> QED BY <1>0, <1>12, <2>1, RxStartedDoes, LessKeeps, SlotsKeep
          DEF GenerationInv, AlignmentInv, Aligning, Scheduling, Pending, States
<1>13. CASE ProcClear
  <2>1. LineLess /\ SlotsLess
    BY <1>13, ProcClearDoes, LineCleared
  <2> QED BY <1>0, <1>13, <2>1, ProcClearDoes, LessKeeps, SlotsKeep
          DEF GenerationInv, AlignmentInv, Aligning, Scheduling, Pending, States
<1>14. CASE ProcMiss
  <2>1. LineLess /\ SlotsLess
    BY <1>14, ProcMissDoes, LineUnchanged
  <2> QED BY <1>0, <1>14, <2>1, ProcMissDoes, LessKeeps, SlotsKeep
          DEF GenerationInv, AlignmentInv, Aligning, Scheduling, Pending, States
<1>15. CASE ProcFound
  <2>1. NoneIn(slots) /\ Line' = slots /\ gen' = gen
    BY <1>15, ProcFoundDoes, LineCleared DEF GenerationInv
  <2>2. NoneIn(Line)' /\ NoneAligned(Line)'
    BY <2>1 DEF NoneIn, NoneAligned, Current
  <2> QED BY <1>15, <2>2, ProcFoundDoes
          DEF GenerationInv, AlignmentInv, Aligning, Scheduling, Pending
<1>16. CASE ProcLaunch
  <2>1. LineLess
    BY <1>16, LineLaunched
  <2> QED BY <1>0, <1>16, <2>1, ProcLaunchDoes, LessKeeps, SlotsKeep
          DEF GenerationInv, AlignmentInv, Aligning, Scheduling, Pending, States
<1>17. CASE ProcCollect
  <2>1. LineLess
    BY <1>17, LineCollected
  <2>2. CASE proc'.pc = "schedule"
    BY <1>17, <2>2, ProcCollectDoes, Due
       DEF AlignmentInv, Aligning, Scheduling, Pending
  <2>3. CASE proc'.pc # "schedule"
    BY <1>17, <2>1, <2>3, ProcCollectDoes, LessKeeps
       DEF AlignmentInv, Aligning, Scheduling, Pending
  <2> QED BY <2>2, <2>3
<1>18. CASE ProcSchedule
  <2>1. LineLess /\ SlotsLess
    BY <1>18, ProcScheduleDoes, LineUnchanged
  <2> QED BY <1>0, <1>18, <2>1, ProcScheduleDoes, LessKeeps, SlotsKeep
          DEF GenerationInv, AlignmentInv, Aligning, Scheduling, Pending, States
<1>19. CASE ProcDiscard
  <2>1. LineLess /\ SlotsLess
    BY <1>19, ProcDiscardDoes, LineUnchanged
  <2> QED BY <1>0, <1>19, <2>1, ProcDiscardDoes, LessKeeps, SlotsKeep
          DEF GenerationInv, AlignmentInv, Aligning, Scheduling, Pending, States
<1>20. CASE ProcShift
  <2>1. LineLess /\ SlotsLess
    BY <1>20, ProcShiftDoes, LineUnchanged
  <2> QED BY <1>0, <1>20, <2>1, ProcShiftDoes, LessKeeps, SlotsKeep
          DEF GenerationInv, AlignmentInv, Aligning, Scheduling, Pending, States
<1>21. CASE ProcAlign
  <2>1. LineLess /\ SlotsLess
    BY <1>21, ProcAlignDoes, LineUnchanged
  <2> QED BY <1>0, <1>21, <2>1, ProcAlignDoes, LessKeeps, SlotsKeep
          DEF GenerationInv, AlignmentInv, Aligning, Scheduling, Pending, States
<1>22. CASE ProcMark
  <2>1. LineLess /\ SlotsLess
    BY <1>22, ProcMarkDoes, LineMarked DEF Gates
  <2> QED BY <1>0, <1>22, <2>1, ProcMarkDoes, LessKeeps, SlotsKeep
          DEF GenerationInv, AlignmentInv, Aligning, Scheduling, Pending, States
<1>23. CASE ProcForget
  <2>1. /\ Young(Line)' /\ Young(batch)'
        /\ NoneIn(Line)' /\ NoneIn(slots)' /\ NoneIn(batch)'
        /\ NoneAligned(Line)' /\ NoneAligned(slots)'
        /\ Barred(Line)' /\ Barred(slots)' /\ Opens(Line)'
    BY <1>0, <1>23, ProcForgetDoes, NewGeneration
  <2> QED BY <1>0, <1>23, <2>1, ProcForgetDoes
          DEF GenerationInv, AlignmentInv, Aligning, Scheduling, Pending, States
<1>24. CASE ProcMute
  <2>1. LineLess /\ SlotsLess
    BY <1>24, ProcMuteDoes, LineCleared
  <2> QED BY <1>0, <1>24, <2>1, ProcMuteDoes, LessKeeps, SlotsKeep
          DEF GenerationInv, AlignmentInv, Aligning, Scheduling, Pending, States
<1>25. CASE ProcEnterSearch
  <2>1. LineLess /\ SlotsLess
    BY <1>25, ProcEnterSearchDoes, LineUnchanged
  <2> QED BY <1>0, <1>25, <2>1, ProcEnterSearchDoes, LessKeeps, SlotsKeep
          DEF GenerationInv, AlignmentInv, Aligning, Scheduling, Pending, States
<1>26. CASE ProcGate
  <2>1. LineLess /\ SlotsLess
    BY <1>26, ProcGateDoes, LineMarked DEF Gates
  <2> QED BY <1>0, <1>26, <2>1, ProcGateDoes, LessKeeps, SlotsKeep
          DEF GenerationInv, AlignmentInv, Aligning, Scheduling, Pending, States
<1>27. CASE UNCHANGED <<state, gen, latch, discard, fresh, batch, frames, slots, rx, proc>>
  <2>1. LineLess /\ SlotsLess
    BY <1>27, LineUnchanged
  <2>2. (NoneIn(batch) => NoneIn(batch)') /\ (Young(batch) => Young(batch)')
    BY <1>27 DEF NoneIn, Current, Young
  <2> QED BY <1>27, <2>1, <2>2, LessKeeps, SlotsKeep
             DEF GenerationInv, AlignmentInv, Aligning, Scheduling, Pending, States
<1>28. AsyncError \/ Drift \/ Transmit \/ TransmitShort \/ UNCHANGED vars =>
        UNCHANGED <<state, gen, latch, discard, fresh, batch, frames, slots, rx, proc>>
  BY DEF AsyncError, Drift, Transmit, TransmitShort, vars, syncVars
<1> QED BY <1>1, <1>2, <1>3, <1>4, <1>5, <1>6, <1>7, <1>8, <1>9, <1>10, <1>11, <1>12,
           <1>13, <1>14, <1>15, <1>16, <1>17, <1>18, <1>19, <1>20, <1>21, <1>22, <1>23,
           <1>24, <1>25, <1>26, <1>27, <1>28
        DEF Next, Receive, Process

\* A step keeps the frames from before an alignment barred.
LEMMA GateKept ==
  SyncTypeOK /\ GenerationInv /\ AlignmentInv /\ GateInv /\ [Next]_vars
    => GateInv'
<1> SUFFICES ASSUME SyncTypeOK, GenerationInv, AlignmentInv, GateInv, [Next]_vars
             PROVE  GateInv'
  OBVIOUS
<1>0. Young(Line) /\ Young(batch) /\ gen \in Nat /\ rx.gen \in Nat /\ state \in States
  BY Fields DEF GenerationInv, SyncTypeOK
<1>1. CASE RxDispatch
  <2>1. LineLess /\ SlotsLess
    BY <1>1, RxDispatchDoes, LineUnchanged
  <2> QED BY <1>0, <1>1, <2>1, RxDispatchDoes, LessKeeps, SlotsKeep
          DEF GenerationInv, AlignmentInv, GateInv, Aligning, Scheduling, Pending, States
<1>2. CASE RxSearch
  <2>1. LineLess /\ SlotsLess
    BY <1>2, RxSearchDoes, LineUnchanged
  <2> QED BY <1>0, <1>2, <2>1, RxSearchDoes, LessKeeps, SlotsKeep
          DEF GenerationInv, AlignmentInv, GateInv, Aligning, Scheduling, Pending, States
<1>3. CASE RxNormal
  <2>1. PICK f \in Captured : /\ frames' = frames \/ frames' = Append(frames, f)
                             /\ f.gen = rx.gen /\ f.align = 0 /\ f.at = rx.pos
    BY <1>3, RxNormalDoes
  <2>2. Current(f) <=> rx.gen = gen
    BY <2>1 DEF Current
  <2>3. /\ NoneAligned(Line) => NoneAligned(Line)'
        /\ Barred(Line) /\ (rx.gen = gen => latch) => Barred(Line)'
        /\ Opens(Line) => Opens(Line)'
        /\ NoneAligned(slots) => NoneAligned(slots)'
        /\ Barred(slots) => Barred(slots)'
    BY <1>3, <2>1, <2>2, RxNormalDoes, LinePushed
  <2> QED BY <1>3, <2>3, RxNormalDoes DEF GateInv, Pending
<1>4. CASE RxAlign
  <2>1. PICK f \in Captured : /\ frames' = frames \/ frames' = Append(frames, f)
                             /\ f.gen = gen /\ f.at = rx'.pos
    BY <1>4, RxAlignDoes
  <2>2. Pending /\ NoneAligned(Line) /\ (proc.pc # "mark" => Barred(Line))
    BY <1>4, RxAlignDoes DEF AlignmentInv, GateInv, Pending
  <2>3. NoneAligned(slots) /\ (Barred(Line) => Barred(slots))
    BY <2>2, LineTyped, PartKeeps
  <2>4. /\ NoneAligned(slots)' /\ (Barred(Line) => Barred(slots)')
        /\ Barred(Line) => Opens(Line)'
    BY <1>4, <2>1, <2>2, <2>3, RxAlignDoes, LinePushed
  <2> QED BY <1>4, <2>2, <2>4, RxAlignDoes DEF GateInv, Pending
<1>5. CASE RxRaise
  <2>1. LineLess /\ SlotsLess
    BY <1>5, RxRaiseDoes, LineUnchanged
  <2> QED BY <1>0, <1>5, <2>1, RxRaiseDoes, LessKeeps, SlotsKeep
          DEF GenerationInv, AlignmentInv, GateInv, Aligning, Scheduling, Pending, States
<1>6. CASE RxEnterNormal
  <2>1. LineLess /\ SlotsLess
    BY <1>6, RxEnterNormalDoes, LineUnchanged
  <2> QED BY <1>0, <1>6, <2>1, RxEnterNormalDoes, LessKeeps, SlotsKeep
          DEF GenerationInv, AlignmentInv, GateInv, Aligning, Scheduling, Pending, States
<1>7. CASE RxError
  <2>1. LineLess /\ SlotsLess
    BY <1>7, RxErrorDoes, LineUnchanged
  <2> QED BY <1>0, <1>7, <2>1, RxErrorDoes, LessKeeps, SlotsKeep
          DEF GenerationInv, AlignmentInv, GateInv, Aligning, Scheduling, Pending, States
<1>8. CASE RxRestart
  <2>1. /\ Young(Line)' /\ Young(batch)'
        /\ NoneIn(Line)' /\ NoneIn(slots)' /\ NoneIn(batch)'
        /\ NoneAligned(Line)' /\ NoneAligned(slots)'
        /\ Barred(Line)' /\ Barred(slots)' /\ Opens(Line)'
    BY <1>0, <1>8, RxRestartDoes, NewGeneration
  <2> QED BY <1>0, <1>8, <2>1, RxRestartDoes
          DEF GenerationInv, AlignmentInv, GateInv, Aligning, Scheduling, Pending, States
<1>9. CASE RxResetShift
  <2>1. LineLess /\ SlotsLess
    BY <1>9, RxResetShiftDoes, LineUnchanged
  <2> QED BY <1>0, <1>9, <2>1, RxResetShiftDoes, LessKeeps, SlotsKeep
          DEF GenerationInv, AlignmentInv, GateInv, Aligning, Scheduling, Pending, States
<1>10. CASE RxEnterSearch
  <2>1. LineLess /\ SlotsLess
    BY <1>10, RxEnterSearchDoes, LineUnchanged
  <2> QED BY <1>0, <1>10, <2>1, RxEnterSearchDoes, LessKeeps, SlotsKeep
          DEF GenerationInv, AlignmentInv, GateInv, Aligning, Scheduling, Pending, States
<1>11. CASE RxFlag
  <2>1. LineLess /\ SlotsLess
    BY <1>11, RxFlagDoes, LineUnchanged
  <2> QED BY <1>0, <1>11, <2>1, RxFlagDoes, LessKeeps, SlotsKeep
          DEF GenerationInv, AlignmentInv, GateInv, Aligning, Scheduling, Pending, States
<1>12. CASE RxStarted
  <2>1. LineLess /\ SlotsLess
    BY <1>12, RxStartedDoes, LineUnchanged
  <2> QED BY <1>0, <1>12, <2>1, RxStartedDoes, LessKeeps, SlotsKeep
          DEF GenerationInv, AlignmentInv, GateInv, Aligning, Scheduling, Pending, States
<1>13. CASE ProcClear
  <2>1. LineLess /\ SlotsLess
    BY <1>13, ProcClearDoes, LineCleared
  <2> QED BY <1>0, <1>13, <2>1, ProcClearDoes, LessKeeps, SlotsKeep
          DEF GenerationInv, AlignmentInv, GateInv, Aligning, Scheduling, Pending, States
<1>14. CASE ProcMiss
  <2>1. LineLess /\ SlotsLess
    BY <1>14, ProcMissDoes, LineUnchanged
  <2> QED BY <1>0, <1>14, <2>1, ProcMissDoes, LessKeeps, SlotsKeep
          DEF GenerationInv, AlignmentInv, GateInv, Aligning, Scheduling, Pending, States
<1>15. CASE ProcFound
  <2>1. LineLess /\ SlotsLess
    BY <1>15, ProcFoundDoes, LineCleared
  <2> QED BY <1>0, <1>15, <2>1, ProcFoundDoes, LessKeeps, SlotsKeep
          DEF GenerationInv, AlignmentInv, GateInv, Aligning, Scheduling, Pending, States
<1>16. CASE ProcLaunch
  <2>1. LineLess
    BY <1>16, LineLaunched
  <2> QED BY <1>0, <1>16, <2>1, ProcLaunchDoes, LessKeeps, SlotsKeep
          DEF GenerationInv, AlignmentInv, GateInv, Aligning, Scheduling, Pending, States
<1>17. CASE ProcCollect
  <2>1. LineLess /\ SlotsLess
    BY <1>17, LineCollected
  <2>2. CASE latch' = latch
    BY <1>17, <2>1, <2>2, ProcCollectDoes, LessKeeps, SlotsKeep DEF GateInv, Pending
  <2>3. CASE latch' # latch
    BY <1>17, <2>3, ProcCollectDoes, Unlatched DEF GateInv, Pending
  <2> QED BY <2>2, <2>3
<1>18. CASE ProcSchedule
  <2>1. LineLess /\ SlotsLess
    BY <1>18, ProcScheduleDoes, LineUnchanged
  <2> QED BY <1>0, <1>18, <2>1, ProcScheduleDoes, LessKeeps, SlotsKeep
          DEF GenerationInv, AlignmentInv, GateInv, Aligning, Scheduling, Pending, States
<1>19. CASE ProcDiscard
  <2>1. LineLess /\ SlotsLess
    BY <1>19, ProcDiscardDoes, LineUnchanged
  <2> QED BY <1>0, <1>19, <2>1, ProcDiscardDoes, LessKeeps, SlotsKeep
          DEF GenerationInv, AlignmentInv, GateInv, Aligning, Scheduling, Pending, States
<1>20. CASE ProcShift
  <2>1. LineLess /\ SlotsLess
    BY <1>20, ProcShiftDoes, LineUnchanged
  <2> QED BY <1>0, <1>20, <2>1, ProcShiftDoes, LessKeeps, SlotsKeep
          DEF GenerationInv, AlignmentInv, GateInv, Aligning, Scheduling, Pending, States
<1>21. CASE ProcAlign
  <2>1. LineLess /\ SlotsLess
    BY <1>21, ProcAlignDoes, LineUnchanged
  <2> QED BY <1>0, <1>21, <2>1, ProcAlignDoes, LessKeeps, SlotsKeep
          DEF GenerationInv, AlignmentInv, GateInv, Aligning, Scheduling, Pending, States
<1>22. CASE ProcMark
  <2>1. PICK b \in BOOLEAN : Mark("alignment", b)
    BY <1>22, ProcMarkDoes
  <2>2. /\ SlotsLess
        /\ \A i \in DOMAIN Line' : Marked(Line'[i])
        /\ \A i \in DOMAIN slots' : Marked(slots'[i])
    BY <2>1, LineMarked DEF Gates
  <2>3. Barred(Line)' /\ Barred(slots)' /\ Opens(Line)'
    BY <2>2 DEF Barred, Opens, Marked
  <2>4. NoneAligned(slots) => NoneAligned(slots)'
    BY <1>22, <2>2, ProcMarkDoes, SlotsKeep
  <2>5. Pending' /\ rx'.pc = "NORMAL" => latch'
    BY <1>22, ProcMarkDoes DEF Pending, AlignmentInv
  <2> QED BY <1>22, <2>3, <2>4, <2>5, ProcMarkDoes DEF GateInv
<1>23. CASE ProcForget
  <2>1. /\ Young(Line)' /\ Young(batch)'
        /\ NoneIn(Line)' /\ NoneIn(slots)' /\ NoneIn(batch)'
        /\ NoneAligned(Line)' /\ NoneAligned(slots)'
        /\ Barred(Line)' /\ Barred(slots)' /\ Opens(Line)'
    BY <1>0, <1>23, ProcForgetDoes, NewGeneration
  <2> QED BY <1>0, <1>23, <2>1, ProcForgetDoes
          DEF GenerationInv, AlignmentInv, GateInv, Aligning, Scheduling, Pending, States
<1>24. CASE ProcMute
  <2>1. LineLess /\ SlotsLess
    BY <1>24, ProcMuteDoes, LineCleared
  <2> QED BY <1>0, <1>24, <2>1, ProcMuteDoes, LessKeeps, SlotsKeep
          DEF GenerationInv, AlignmentInv, GateInv, Aligning, Scheduling, Pending, States
<1>25. CASE ProcEnterSearch
  <2>1. LineLess /\ SlotsLess
    BY <1>25, ProcEnterSearchDoes, LineUnchanged
  <2> QED BY <1>0, <1>25, <2>1, ProcEnterSearchDoes, LessKeeps, SlotsKeep
          DEF GenerationInv, AlignmentInv, GateInv, Aligning, Scheduling, Pending, States
<1>26. CASE ProcGate
  <2>1. LineLess /\ SlotsLess
    BY <1>26, ProcGateDoes, LineMarked DEF Gates
  <2> QED BY <1>0, <1>26, <2>1, ProcGateDoes, LessKeeps, SlotsKeep
          DEF GenerationInv, AlignmentInv, GateInv, Aligning, Scheduling, Pending, States
<1>27. CASE UNCHANGED <<state, gen, latch, discard, fresh, batch, frames, slots, rx, proc>>
  <2>1. LineLess /\ SlotsLess
    BY <1>27, LineUnchanged
  <2>2. (NoneIn(batch) => NoneIn(batch)') /\ (Young(batch) => Young(batch)')
    BY <1>27 DEF NoneIn, Current, Young
  <2> QED BY <1>27, <2>1, <2>2, LessKeeps, SlotsKeep
             DEF GenerationInv, AlignmentInv, GateInv, Aligning, Scheduling, Pending,
                 States
<1>28. AsyncError \/ Drift \/ Transmit \/ TransmitShort \/ UNCHANGED vars =>
        UNCHANGED <<state, gen, latch, discard, fresh, batch, frames, slots, rx, proc>>
  BY DEF AsyncError, Drift, Transmit, TransmitShort, vars, syncVars
<1> QED BY <1>1, <1>2, <1>3, <1>4, <1>5, <1>6, <1>7, <1>8, <1>9, <1>10, <1>11, <1>12,
           <1>13, <1>14, <1>15, <1>16, <1>17, <1>18, <1>19, <1>20, <1>21, <1>22, <1>23,
           <1>24, <1>25, <1>26, <1>27, <1>28
        DEF Next, Receive, Process

-----------------------------------------------------------------------------

\* A step keeps the anchor of the uplink, or what the next acquisition will make of it.
LEMMA AnchorKept ==
  SyncTypeOK /\ GenerationInv /\ AlignmentInv /\ GateInv /\ AnchorInv /\ [Next]_vars
    => AnchorInv'
<1> SUFFICES ASSUME SyncTypeOK, GenerationInv, AlignmentInv, GateInv, AnchorInv, [Next]_vars
             PROVE  AnchorInv'
  OBVIOUS
<1>0. state \in States
  BY DEF SyncTypeOK
<1>1. CASE RxDispatch
  <2>1. (Owes(0)' <=> Owes(0)) /\ (Owes(discard)' <=> Owes(discard))
    BY <1>1, RxDispatchDoes DEF Owes
  <2> QED BY <1>0, <1>1, <2>1, RxDispatchDoes
             DEF AnchorInv, AlignmentInv, Aligning, Scheduling, Pending, States
<1>2. CASE RxSearch
  <2>1. (Owes(0)' <=> Owes(0)) /\ (Owes(discard)' <=> Owes(discard))
    BY <1>2, RxSearchDoes DEF Owes
  <2> QED BY <1>0, <1>2, <2>1, RxSearchDoes
             DEF AnchorInv, AlignmentInv, Aligning, Scheduling, Pending, States
<1>3. CASE RxNormal
  <2>1. (Owes(0)' <=> Owes(0)) /\ (Owes(discard)' <=> Owes(discard))
    BY <1>3, RxNormalDoes DEF Owes
  <2> QED BY <1>0, <1>3, <2>1, RxNormalDoes
             DEF AnchorInv, AlignmentInv, Aligning, Scheduling, Pending, States
<1>4. CASE RxAlign
  <2> DEFINE y == rx.pos + rx.align
             p == y % FrameLen
  <2>1. y \in Int /\ FrameLen \in Nat \ {0} /\ shift \in Int /\ rx.align = discard
    <3>1. rx.pos \in Int /\ rx.align \in Int /\ shift \in Int /\ FrameLen \in Nat \ {0}
      BY Constants, Fields DEF Positions, SyncTypeOK, TxTypeOK
    <3>2. rx.align = discard
      BY <1>4, RxAlignDoes DEF AlignmentInv
    <3> QED BY <3>1, <3>2
  <2>2. /\ rx'.pos = p /\ shift' = IF fresh THEN -Canonical(p) ELSE shift
    BY <1>4, RxAlignDoes
  <2>3. p \in Int
    BY <2>1, ModuloFrame DEF Positions
  <2> HIDE DEF p
  <2>4. fresh => Owes(0)'
    <3>1. (-Canonical(p) + p + 0) % FrameLen = 0
      BY <2>1, <2>3, Corrected
    <3> QED BY <2>2, <3>1 DEF Owes
  <2>5. ~fresh /\ Owes(discard) => Owes(0)'
    <3>1. shift + p + 0 = shift + ((rx.pos + rx.align) % FrameLen) + 0
      BY DEF p
    <3>2. rx.pos \in Int /\ rx.align \in Int
      BY <2>1, Constants, Fields DEF Positions
    <3>3. (shift + p + 0) % FrameLen = 0 <=> (shift + rx.pos + rx.align) % FrameLen = 0
      <4>1. (shift + ((rx.pos + rx.align) % FrameLen) + 0) % FrameLen = 0
               <=> (shift + rx.pos + rx.align) % FrameLen = 0
        BY <2>1, <3>2, Corrected
      <4> QED BY <3>1, <4>1
    <3> QED BY <2>1, <2>2, <3>3 DEF Owes
  <2>6. ~overtaken => fresh \/ Owes(discard)
    BY <1>4, RxAlignDoes DEF AnchorInv, Pending
  <2>7. ~overtaken' => Owes(0)'
    BY <1>4, <2>4, <2>5, <2>6, RxAlignDoes
  <2> QED BY <1>4, <2>7, RxAlignDoes
             DEF AnchorInv, AlignmentInv, Aligning, Scheduling, Pending
<1>5. CASE RxRaise
  <2>1. (Owes(0)' <=> Owes(0)) /\ (Owes(discard)' <=> Owes(discard))
    BY <1>5, RxRaiseDoes DEF Owes
  <2> QED BY <1>0, <1>5, <2>1, RxRaiseDoes
             DEF AnchorInv, AlignmentInv, Aligning, Scheduling, Pending, States
<1>6. CASE RxEnterNormal
  <2>1. (Owes(0)' <=> Owes(0)) /\ (Owes(discard)' <=> Owes(discard))
    BY <1>6, RxEnterNormalDoes DEF Owes
  <2> QED BY <1>0, <1>6, <2>1, RxEnterNormalDoes
             DEF AnchorInv, AlignmentInv, Aligning, Scheduling, Pending, States
<1>7. CASE RxError
  <2>1. (Owes(0)' <=> Owes(0)) /\ (Owes(discard)' <=> Owes(discard))
    BY <1>7, RxErrorDoes DEF Owes
  <2> QED BY <1>0, <1>7, <2>1, RxErrorDoes
             DEF AnchorInv, AlignmentInv, Aligning, Scheduling, Pending, States
<1>8. CASE RxRestart
  BY <1>8, RxRestartDoes DEF AnchorInv
<1>9. CASE RxResetShift
  <2>1. shift' = 0 /\ rx'.pos = 0 /\ discard' = 0
    BY <1>9, RxResetShiftDoes DEF AnchorInv
  <2>2. Owes(0)'
    <3>1. 0 + 0 + 0 = 0 /\ 0 % FrameLen = 0
      BY Constants
    <3> QED BY <2>1, <3>1 DEF Owes
  <2>3. Owes(discard)'
    BY <2>1, <2>2 DEF Owes
  <2> QED BY <1>9, <2>2, <2>3, RxResetShiftDoes DEF AnchorInv, Correcting
<1>10. CASE RxEnterSearch
  <2>1. (Owes(0)' <=> Owes(0)) /\ (Owes(discard)' <=> Owes(discard))
    BY <1>10, RxEnterSearchDoes DEF Owes
  <2> QED BY <1>0, <1>10, <2>1, RxEnterSearchDoes
             DEF AnchorInv, AlignmentInv, Aligning, Scheduling, Pending, States
<1>11. CASE RxFlag
  <2>1. (Owes(0)' <=> Owes(0)) /\ (Owes(discard)' <=> Owes(discard))
    BY <1>11, RxFlagDoes DEF Owes
  <2> QED BY <1>0, <1>11, <2>1, RxFlagDoes
             DEF AnchorInv, AlignmentInv, Aligning, Scheduling, Pending, States
<1>12. CASE RxStarted
  <2>1. (Owes(0)' <=> Owes(0)) /\ (Owes(discard)' <=> Owes(discard))
    BY <1>12, RxStartedDoes DEF Owes
  <2> QED BY <1>0, <1>12, <2>1, RxStartedDoes
             DEF AnchorInv, AlignmentInv, Aligning, Scheduling, Pending, States
<1>13. CASE ProcClear
  <2>1. (Owes(0)' <=> Owes(0)) /\ (Owes(discard)' <=> Owes(discard))
    BY <1>13, ProcClearDoes DEF Owes
  <2> QED BY <1>0, <1>13, <2>1, ProcClearDoes
             DEF AnchorInv, AlignmentInv, Aligning, Scheduling, Pending, States
<1>14. CASE ProcMiss
  <2>1. (Owes(0)' <=> Owes(0)) /\ (Owes(discard)' <=> Owes(discard))
    BY <1>14, ProcMissDoes DEF Owes
  <2> QED BY <1>0, <1>14, <2>1, ProcMissDoes
             DEF AnchorInv, AlignmentInv, Aligning, Scheduling, Pending, States
<1>15. CASE ProcFound
  <2>1. (Owes(0)' <=> Owes(0)) /\ (Owes(discard)' <=> Owes(discard))
    BY <1>15, ProcFoundDoes DEF Owes
  <2> QED BY <1>0, <1>15, <2>1, ProcFoundDoes
             DEF AnchorInv, AlignmentInv, Aligning, Scheduling, Pending, States
<1>16. CASE ProcLaunch
  <2>1. (Owes(0)' <=> Owes(0)) /\ (Owes(discard)' <=> Owes(discard))
    BY <1>16, ProcLaunchDoes DEF Owes
  <2> QED BY <1>0, <1>16, <2>1, ProcLaunchDoes
             DEF AnchorInv, AlignmentInv, Aligning, Scheduling, Pending, States
<1>17. CASE ProcCollect
  <2>1. (Owes(0)' <=> Owes(0)) /\ (Owes(discard)' <=> Owes(discard))
    BY <1>17, ProcCollectDoes DEF Owes
  <2> QED BY <1>0, <1>17, <2>1, ProcCollectDoes, Due
             DEF AnchorInv, AlignmentInv, Aligning, Scheduling, Pending, States
<1>18. CASE ProcSchedule
  <2>1. (Owes(0)' <=> Owes(0)) /\ (Owes(discard)' <=> Owes(discard))
    BY <1>18, ProcScheduleDoes DEF Owes
  <2> QED BY <1>0, <1>18, <2>1, ProcScheduleDoes
             DEF AnchorInv, AlignmentInv, Aligning, Scheduling, Pending, States
<1>19. CASE ProcDiscard
  <2>1. Owes(0)' <=> Owes(0)
    BY <1>19, ProcDiscardDoes DEF Owes
  <2> QED BY <1>19, <2>1, ProcDiscardDoes
          DEF AnchorInv, AlignmentInv, Aligning, Scheduling, Pending
<1>20. CASE ProcShift
  <2>1. /\ shift \in Int /\ rx.pos \in Int /\ proc.align \in Int
    BY Constants, Fields DEF Positions, SyncTypeOK, TxTypeOK
  <2>2. CASE proc.from = "SYNC_SEARCH"
    <3>1. UNCHANGED <<shift, rx>>
      BY <1>20, <2>2, ProcShiftDoes
    <3>2. Owes(0)' <=> Owes(0)
      BY <3>1 DEF Owes
    <3> QED BY <1>20, <2>2, <3>2, ProcShiftDoes
            DEF AnchorInv, AlignmentInv, Aligning, Scheduling, Pending
  <2>3. CASE proc.from # "SYNC_SEARCH"
    <3>1. (shift - Canonical(proc.align) + rx.pos + proc.align) % FrameLen = 0
             <=> (shift + rx.pos) % FrameLen = 0
      BY <2>1, Corrected
    <3>2. shift + rx.pos + 0 = shift + rx.pos
      BY <2>1
    <3>3. proc.align = discard => (Owes(0) => Owes(discard)')
      BY <1>20, <2>3, <3>1, <3>2, ProcShiftDoes DEF Owes
    <3> QED BY <1>20, <2>3, <3>3, ProcShiftDoes
            DEF AnchorInv, AlignmentInv, Aligning, Scheduling, Pending
  <2> QED BY <2>2, <2>3
<1>21. CASE ProcAlign
  <2>1. (Owes(0)' <=> Owes(0)) /\ (Owes(discard)' <=> Owes(discard))
    BY <1>21, ProcAlignDoes DEF Owes
  <2> QED BY <1>0, <1>21, <2>1, ProcAlignDoes
             DEF AnchorInv, AlignmentInv, Aligning, Scheduling, Pending, States
<1>22. CASE ProcMark
  <2>1. (Owes(0)' <=> Owes(0)) /\ (Owes(discard)' <=> Owes(discard))
    BY <1>22, ProcMarkDoes DEF Owes
  <2> QED BY <1>0, <1>22, <2>1, ProcMarkDoes
             DEF AnchorInv, AlignmentInv, Aligning, Scheduling, Pending, States
<1>23. CASE ProcForget
  <2>1. (Owes(0)' <=> Owes(0)) /\ (Owes(discard)' <=> Owes(discard))
    BY <1>23, ProcForgetDoes DEF Owes
  <2> QED BY <1>0, <1>23, <2>1, ProcForgetDoes
             DEF AnchorInv, AlignmentInv, Aligning, Scheduling, Pending, States
<1>24. CASE ProcMute
  <2>1. (Owes(0)' <=> Owes(0)) /\ (Owes(discard)' <=> Owes(discard))
    BY <1>24, ProcMuteDoes DEF Owes
  <2> QED BY <1>0, <1>24, <2>1, ProcMuteDoes
             DEF AnchorInv, AlignmentInv, Aligning, Scheduling, Pending, States
<1>25. CASE ProcEnterSearch
  <2>1. (Owes(0)' <=> Owes(0)) /\ (Owes(discard)' <=> Owes(discard))
    BY <1>25, ProcEnterSearchDoes DEF Owes
  <2> QED BY <1>0, <1>25, <2>1, ProcEnterSearchDoes
             DEF AnchorInv, AlignmentInv, Aligning, Scheduling, Pending, States
<1>26. CASE ProcGate
  <2>1. (Owes(0)' <=> Owes(0)) /\ (Owes(discard)' <=> Owes(discard))
    BY <1>26, ProcGateDoes DEF Owes
  <2> QED BY <1>0, <1>26, <2>1, ProcGateDoes
             DEF AnchorInv, AlignmentInv, Aligning, Scheduling, Pending, States
<1>27. CASE UNCHANGED <<state, discard, fresh, shift, overtaken, rx, proc>>
  <2>1. (Owes(0)' <=> Owes(0)) /\ (Owes(discard)' <=> Owes(discard))
    BY <1>27 DEF Owes
  <2> QED BY <1>27, <2>1 DEF AnchorInv, Pending
<1>28. AsyncError \/ Drift \/ Transmit \/ TransmitShort \/ UNCHANGED vars =>
        UNCHANGED <<state, discard, fresh, shift, overtaken, rx, proc>>
  BY DEF AsyncError, Drift, Transmit, TxStep, TxTakeRestart, TxReadStart, TxReadEpoch,
         TxSendAll, TxSend, TransmitShort, TxSendShort, vars, txVars, syncVars
<1> QED BY <1>1, <1>2, <1>3, <1>4, <1>5, <1>6, <1>7, <1>8, <1>9, <1>10, <1>11, <1>12,
           <1>13, <1>14, <1>15, <1>16, <1>17, <1>18, <1>19, <1>20, <1>21, <1>22, <1>23,
           <1>24, <1>25, <1>26, <1>27, <1>28
        DEF Next, Receive, Process

-----------------------------------------------------------------------------

\* The invariant holds at the start.
LEMMA SyncInit == Init => SyncInv
<1> SUFFICES ASSUME Init PROVE SyncInv
  OBVIOUS
<1>1. /\ tx = [pc |-> "period", start |-> 1, epoch |-> 0, first |-> TRUE,
              applied |-> 0, slip |-> 0]
      /\ order = [start |-> 1, epoch |-> 0, flag |-> FALSE]
      /\ request = [flag |-> FALSE, epoch |-> 0, count |-> 0, clear |-> FALSE]
      /\ rx = [pc |-> "loop", pos |-> 0, start |-> 1, epoch |-> 0, handled |-> 0,
              gen |-> 0, align |-> 0, past |-> {}]
      /\ proc = [pc |-> "loop", align |-> 0, from |-> "NORMAL", adjust |-> 0, last |-> 0,
                bad |-> 0, found |-> FALSE]
      /\ budget = [failures |-> Failures, disturb |-> Disturbances]
      /\ shift = 0 /\ loud = FALSE /\ errors = 0 /\ submitted = 0
      /\ state = "SYNC_SEARCH" /\ gen = 0 /\ latch = FALSE /\ discard = 0
      /\ fresh = FALSE
      /\ batch = <<>> /\ frames = <<>> /\ slots = <<>>
      /\ downlink \in Phases /\ overtaken = FALSE
  BY DEF Init, TxInit
<1>2. SyncTypeOK
  <2>1. tx \in TxStates /\ order \in Orders /\ request \in Requests
    BY <1>1 DEF TxStates, Orders, Requests, TxPlaces
  <2>2. rx \in RxStates
    BY <1>1, Constants DEF RxStates, RxPlaces
  <2>3. proc \in ProcStates
    BY <1>1 DEF ProcStates, ProcPlaces, States
  <2>4. budget \in Budgets
    BY <1>1, Constants DEF Budgets
  <2>5. downlink \in Positions
    BY <1>1, Constants
  <2>6. batch \in Seq(Batches) /\ frames \in Seq(Captured) /\ slots \in Seq(Captured)
    BY <1>1
  <2>7. /\ shift \in Int /\ errors \in Nat /\ submitted \in Nat /\ gen \in Nat
        /\ discard \in Int
    BY <1>1
  <2>8. loud \in BOOLEAN /\ latch \in BOOLEAN /\ fresh \in BOOLEAN /\ overtaken \in BOOLEAN
    BY <1>1
  <2>9. state \in States
    BY <1>1 DEF States
  <2> QED BY <2>1, <2>2, <2>3, <2>4, <2>5, <2>6, <2>7, <2>8, <2>9
             DEF SyncTypeOK, TxTypeOK
<1>3. RestartInv /\ StreamInv
  BY <1>1 DEF RestartInv, StreamInv, Restarting
<1>4. DOMAIN Line = {} /\ DOMAIN slots = {} /\ DOMAIN batch = {}
  BY <1>1 DEF Line
<1>5. /\ NoneIn(Line) /\ NoneIn(slots) /\ NoneIn(batch) /\ Young(Line) /\ Young(batch)
      /\ Opens(Line)
  BY <1>4 DEF NoneIn, Young, Opens
<1>6. GenerationInv
  BY <1>1, <1>5 DEF GenerationInv
<1>7. /\ ~Pending /\ rx.pc \notin Aligning /\ rx.pc = "loop" /\ proc.pc = "loop"
      /\ ~proc.found
  BY <1>1 DEF Pending, Aligning
<1>8. AlignmentInv /\ GateInv
  BY <1>5, <1>7 DEF AlignmentInv, GateInv, Scheduling, Aligning
<1>9. AnchorInv
  BY <1>1, <1>7 DEF AnchorInv
<1> QED BY <1>2, <1>3, <1>6, <1>8, <1>9 DEF SyncInv

\* A step of any thread, of the radio or of the system keeps the invariant.
LEMMA SyncStep == SyncInv /\ [Next]_vars => SyncInv'
BY SyncTyped, RestartKept, StreamKept, GenerationKept, AlignmentKept, GateKept,
   AnchorKept
   DEF SyncInv

\* The inductive invariant of the three threads.
THEOREM SyncSound == Spec => []SyncInv
BY SyncInit, SyncStep, PTL DEF Spec

\* Every value that the three threads share keeps its type.
THEOREM SyncTypeCorrect == Spec => []SyncTypeOK
<1>1. SyncInv => SyncTypeOK
  BY DEF SyncInv
<1> QED BY <1>1, SyncSound, PTL

\* When the receive stream has been started again, the burst on the air shares its
\* start (UplinkTxEngine::wait_for_restart_submitted).
THEOREM StreamsShareTheirStart == Spec => []StartsTogether
<1>1. SyncInv => StartsTogether
  BY DEF SyncInv, RestartInv, StartsTogether, Restarting
<1> QED BY <1>1, SyncSound, PTL

\* Once everything has settled the uplink leaves at the start of the UE's own receive
\* frame, less the timing advance, and its samples are where its thread believes them
\* to be.
THEOREM UplinkIsAnchored == Spec => []UplinkFollowsDownlink
<1>1. SyncInv => StreamFollowsShift
  BY DEF SyncInv, StreamInv, StreamFollowsShift, Restarting
<1>2. SyncInv => AnchorIsKept
  <2> SUFFICES ASSUME SyncInv, Settled, ~overtaken
               PROVE  (tx.slip + TimingAdvance - rx.pos) % FrameLen = 0
    BY DEF AnchorIsKept
  <2>1. SyncTypeOK /\ StreamInv /\ AnchorInv
    BY DEF SyncInv
  <2>2. /\ shift \in Int /\ rx.pos \in Int /\ TimingAdvance \in Int /\ tx.slip \in Int
    BY <2>1, Constants, Fields DEF Positions, SyncTypeOK, TxTypeOK
  <2>3. tx.slip = -Target
    BY <2>1 DEF StreamInv, Settled, Restarting
  <2>4. tx.slip + TimingAdvance - rx.pos = -(shift + rx.pos + 0)
    BY <2>2, <2>3 DEF Target
  <2>5. (shift + rx.pos + 0) % FrameLen = 0
    BY <2>1 DEF AnchorInv, Settled, Owes
  <2> QED BY <2>2, <2>4, <2>5, Negated
<1> QED BY <1>1, <1>2, SyncSound, PTL DEF UplinkFollowsDownlink

\* A tracking correction is never made from a frame received before the last one was
\* applied (the latch, the gates and the generation of _collect_cpu_demod_result).
THEOREM CorrectedOnce == Spec => CorrectionIsFresh
<1>1. SyncInv /\ [Next]_vars =>
        [ProcCollect /\ proc'.pc = "schedule" =>
           state = "NORMAL" /\ Head(slots).at = rx.pos]_vars
  BY Due DEF SyncInv
<1> QED BY <1>1, SyncSound, PTL DEF Spec, CorrectionIsFresh
=============================================================================
