------------------------ MODULE FramePipeline_proofs ------------------------
(***************************************************************************)
(* A frame's slot goes round: from the producer to the list of pending     *)
(* slots, the consumer, the list of completed ones, the receiver and back  *)
(* to the free ones.  Read in that order from the receiver backwards, the  *)
(* slots are one sequence, `Round`, which a step either leaves as it is or *)
(* turns by one; what holds of each slot follows from its place in it.     *)
(***************************************************************************)
EXTENDS FramePipeline, SequenceTheorems, FiniteSetTheorems, TLAPS

-----------------------------------------------------------------------------
(* The invariant *)

\* The slot that one of the threads ts holds, as a sequence.
Holding(th, ts) == {th[t].slot : t \in ts} \ {NoSlot}
HeldBy(th, ts) ==
  IF Holding(th, ts) = {} THEN <<>> ELSE <<CHOOSE i \in Holding(th, ts) : TRUE>>

\* The slots with an accepted frame that is not yet answered, the oldest first.
Decoded == HeldBy(thread, Receivers) \o completed
Waiting == HeldBy(thread, {Consumer}) \o pending
Pipe == Decoded \o Waiting
Open == HeldBy(thread, Producers) \o free
Round == Pipe \o Open

\* producer_mutex and receive_mutex let one thread in, and a thread has a slot
\* while it works on a frame.
ProducerAt == {"idle", "acquire", "prepare", "queue", "abort"}
ConsumerAt == {"idle", "decode", "finish", "exited"}
ReceiverAt == {"idle", "pick", "move", "release"}
Roles ==
  /\ \A p \in Producers : thread[p].at \in ProducerAt
  /\ thread[Consumer].at \in ConsumerAt
  /\ \A r \in Receivers : thread[r].at \in ReceiverAt
  /\ \A t \in Threads :
       thread[t].slot = NoSlot <=> thread[t].at \in {"idle", "acquire", "pick", "exited"}
  /\ \A p, q \in Producers : thread[p].at # "idle" /\ thread[q].at # "idle" => p = q
  /\ \A p, q \in Receivers : thread[p].at # "idle" /\ thread[q].at # "idle" => p = q

\* Every slot is at one place of the round.
IsWhole(list) ==
  /\ Len(list) = SlotCount
  /\ \A j, k \in DOMAIN list : list[j] = list[k] => j = k
  /\ \A i \in Slots : \E k \in DOMAIN list : list[k] = i
Whole == IsWhole(Round)

\* Frames are accepted in the order of their numbers.
Rising ==
  /\ \A j, k \in DOMAIN accepted : j < k => accepted[j] < accepted[k]
  /\ \A k \in DOMAIN accepted : accepted[k] <= calls
  /\ \A p \in Producers : thread[p].at # "idle" =>
       /\ calls > 0
       /\ \A k \in DOMAIN accepted : accepted[k] < calls

\* The answers are those of the first frames, and the slots have the others.
InOrder ==
  /\ Len(accepted) = Len(answers) + Len(Pipe)
  /\ \A k \in DOMAIN answers : answers[k].frame = accepted[k]
  /\ \A k \in DOMAIN Pipe : slot[Pipe[k]].frame = accepted[Len(answers) + k]
  /\ \A p \in Producers : thread[p].at = "queue" => slot[thread[p].slot].frame = calls
  /\ \A r \in Receivers : thread[r].at = "release" =>
       thread[r].took = [frame  |-> slot[thread[r].slot].frame,
                         failed |-> slot[thread[r].slot].failed]

\* A slot has failed when the decoding of its frame threw.
Blamed ==
  /\ \A f \in broken : \E k \in DOMAIN accepted : accepted[k] = f
  /\ \A k \in DOMAIN Pipe : slot[Pipe[k]].failed <=> slot[Pipe[k]].frame \in broken
  /\ \A p \in Producers : thread[p].at = "queue" => ~slot[thread[p].slot].failed
  /\ FailuresAreOwn

RoundInv == PipelineTypeOK /\ Roles /\ Whole /\ Rising /\ InOrder /\ Blamed

-----------------------------------------------------------------------------
(* Sequences of slots *)

LEMMA NoneHeld ==
  ASSUME NEW th, NEW ts, \A t \in ts : th[t].slot = NoSlot
  PROVE  HeldBy(th, ts) = <<>>
BY DEF HeldBy, Holding

\* The slot of the one thread that holds any.
LEMMA OneHeld ==
  ASSUME NEW th, NEW ts, NEW t \in ts, th[t].slot # NoSlot,
         \A u \in ts : u # t => th[u].slot = NoSlot
  PROVE  HeldBy(th, ts) = <<th[t].slot>>
<1>1. Holding(th, ts) = {th[t].slot}
  BY DEF Holding
<1> QED BY <1>1 DEF HeldBy

\* Threads that keep their slots hold what they held.
LEMMA SameHeld ==
  ASSUME NEW th, NEW tn, NEW ts, \A t \in ts : tn[t].slot = th[t].slot
  PROVE  HeldBy(tn, ts) = HeldBy(th, ts)
<1>1. Holding(tn, ts) = Holding(th, ts)
  BY DEF Holding
<1> QED BY <1>1 DEF HeldBy

\* What threads hold is a list of slots.
LEMMA HeldType ==
  ASSUME NEW th, NEW ts, \A t \in ts : th[t].slot \in Slots \cup {NoSlot}
  PROVE  HeldBy(th, ts) \in Seq(Slots)
<1>1. Holding(th, ts) \subseteq Slots
  BY DEF Holding
<1> QED BY <1>1 DEF HeldBy

\* A list is its head and then its tail.
LEMMA HeadFirst ==
  ASSUME NEW S, NEW list \in Seq(S), list # <<>>
  PROVE  <<Head(list)>> \o Tail(list) = list
<1>1. Head(list) \in S /\ Tail(list) \in Seq(S) /\ Len(Tail(list)) = Len(list) - 1
      /\ \A i \in 1 .. Len(Tail(list)) : Tail(list)[i] = list[i + 1]
      /\ Len(list) \in Nat \ {0} /\ Head(list) = list[1]
  BY HeadTailProperties, EmptySeq
<1>2. <<Head(list)>> \in Seq(S) /\ Len(<<Head(list)>>) = 1 /\ <<Head(list)>>[1] = Head(list)
  BY <1>1
<1> DEFINE new == <<Head(list)>> \o Tail(list)
<1>3. /\ new \in Seq(S) /\ Len(new) = Len(list)
      /\ \A i \in 1 .. Len(list) : new[i] = list[i]
  <2> HIDE DEF new
  <2>1. /\ new \in Seq(S) /\ Len(new) = 1 + Len(Tail(list))
        /\ \A i \in 1 .. 1 + Len(Tail(list)) :
             new[i] = IF i <= 1 THEN <<Head(list)>>[i] ELSE Tail(list)[i - 1]
    BY <1>1, <1>2, ConcatProperties DEF new
  <2> QED BY <1>1, <1>2, <2>1
<1> QED BY <1>3, SeqEqual

\* Appending is joining a list of one.
LEMMA LastAppended ==
  ASSUME NEW S, NEW list \in Seq(S), NEW x \in S
  PROVE  Append(list, x) = list \o <<x>>
<1> DEFINE new == list \o <<x>>
<1>1. <<x>> \in Seq(S) /\ Len(<<x>>) = 1 /\ <<x>>[1] = x
  OBVIOUS
<1>2. /\ new \in Seq(S) /\ Len(new) = Len(list) + 1
      /\ \A i \in 1 .. Len(list) + 1 :
           new[i] = IF i <= Len(list) THEN list[i] ELSE <<x>>[i - Len(list)]
  BY <1>1, ConcatProperties
<1>3. /\ Append(list, x) \in Seq(S) /\ Len(Append(list, x)) = Len(list) + 1
      /\ \A i \in 1 .. Len(list) + 1 :
           Append(list, x)[i] = IF i <= Len(list) THEN list[i] ELSE x
  OBVIOUS
<1> HIDE DEF new
<1>4. \A i \in 1 .. Len(new) : new[i] = Append(list, x)[i]
  BY <1>1, <1>2, <1>3
<1>5. new = Append(list, x)
  BY <1>2, <1>3, <1>4, SeqEqual
<1> QED BY <1>5 DEF new

\* Turning a part of the round keeps it whole.
LEMMA TurnedIsWhole ==
  ASSUME NEW a \in Seq(Slots), NEW b \in Seq(Slots), NEW s \in Slots,
         IsWhole(a \o (<<s>> \o b))
  PROVE  IsWhole(a \o (b \o <<s>>))
<1> DEFINE old == a \o (<<s>> \o b)
           new == a \o (b \o <<s>>)
           n == Len(a)
           m == Len(b)
           from(k) == IF k <= n THEN k ELSE IF k <= n + m THEN k + 1 ELSE n + 1
           to(k) == IF k <= n THEN k ELSE IF k = n + 1 THEN n + m + 1 ELSE k - 1
<1>1. <<s>> \in Seq(Slots) /\ Len(<<s>>) = 1 /\ <<s>>[1] = s /\ n \in Nat /\ m \in Nat
  OBVIOUS
<1>2. /\ <<s>> \o b \in Seq(Slots) /\ Len(<<s>> \o b) = m + 1
      /\ \A i \in 1 .. m + 1 : (<<s>> \o b)[i] = IF i = 1 THEN s ELSE b[i - 1]
  <2>1. /\ <<s>> \o b \in Seq(Slots) /\ Len(<<s>> \o b) = 1 + Len(b)
        /\ \A i \in 1 .. 1 + Len(b) :
             (<<s>> \o b)[i] = IF i <= 1 THEN <<s>>[i] ELSE b[i - 1]
    BY <1>1, ConcatProperties
  <2> QED BY <1>1, <2>1
<1>3. /\ b \o <<s>> \in Seq(Slots) /\ Len(b \o <<s>>) = m + 1
      /\ \A i \in 1 .. m + 1 : (b \o <<s>>)[i] = IF i <= m THEN b[i] ELSE s
  <2>1. /\ b \o <<s>> \in Seq(Slots) /\ Len(b \o <<s>>) = Len(b) + 1
        /\ \A i \in 1 .. Len(b) + 1 :
             (b \o <<s>>)[i] = IF i <= Len(b) THEN b[i] ELSE <<s>>[i - Len(b)]
    BY <1>1, ConcatProperties
  <2> QED BY <1>1, <2>1
<1>4. /\ old \in Seq(Slots) /\ Len(old) = n + m + 1
      /\ \A i \in 1 .. n + m + 1 :
           old[i] = IF i <= n THEN a[i] ELSE IF i = n + 1 THEN s ELSE b[i - n - 1]
  <2> DEFINE c == <<s>> \o b
  <2>1. c \in Seq(Slots) /\ Len(c) = m + 1
    BY <1>2
  <2>2. /\ a \o c \in Seq(Slots) /\ Len(a \o c) = n + (m + 1)
        /\ \A i \in 1 .. n + (m + 1) : (a \o c)[i] = IF i <= n THEN a[i] ELSE c[i - n]
    <3>1. /\ a \o c \in Seq(Slots) /\ Len(a \o c) = Len(a) + Len(c)
          /\ \A i \in 1 .. Len(a) + Len(c) :
               (a \o c)[i] = IF i <= Len(a) THEN a[i] ELSE c[i - Len(a)]
      <4> HIDE DEF c
      <4> QED BY <2>1, ConcatProperties
    <3> HIDE DEF c, m
    <3> QED BY <2>1, <3>1
  <2> QED BY <1>1, <1>2, <2>2
<1>5. /\ new \in Seq(Slots) /\ Len(new) = n + m + 1
      /\ \A i \in 1 .. n + m + 1 :
           new[i] = IF i <= n THEN a[i] ELSE IF i <= n + m THEN b[i - n] ELSE s
  <2> DEFINE c == b \o <<s>>
  <2>1. c \in Seq(Slots) /\ Len(c) = m + 1
    BY <1>3
  <2>2. /\ a \o c \in Seq(Slots) /\ Len(a \o c) = n + (m + 1)
        /\ \A i \in 1 .. n + (m + 1) : (a \o c)[i] = IF i <= n THEN a[i] ELSE c[i - n]
    <3>1. /\ a \o c \in Seq(Slots) /\ Len(a \o c) = Len(a) + Len(c)
          /\ \A i \in 1 .. Len(a) + Len(c) :
               (a \o c)[i] = IF i <= Len(a) THEN a[i] ELSE c[i - Len(a)]
      <4> HIDE DEF c
      <4> QED BY <2>1, ConcatProperties
    <3> HIDE DEF c, m
    <3> QED BY <2>1, <3>1
  <2> QED BY <1>1, <1>3, <2>2
<1> HIDE DEF old, new, n, m
<1>6. DOMAIN old = 1 .. n + m + 1 /\ DOMAIN new = 1 .. n + m + 1
  BY <1>4, <1>5
<1>7. \A k \in 1 .. n + m + 1 :
        /\ from(k) \in 1 .. n + m + 1 /\ new[k] = old[from(k)] /\ to(from(k)) = k
        /\ to(k) \in 1 .. n + m + 1 /\ old[k] = new[to(k)]
  <2> SUFFICES ASSUME NEW k \in 1 .. n + m + 1
               PROVE  /\ from(k) \in 1 .. n + m + 1 /\ new[k] = old[from(k)]
                      /\ to(from(k)) = k
                      /\ to(k) \in 1 .. n + m + 1 /\ old[k] = new[to(k)]
    OBVIOUS
  <2>1. n \in Nat /\ m \in Nat
    BY <1>1 DEF n, m
  <2>2. from(k) \in 1 .. n + m + 1 /\ to(k) \in 1 .. n + m + 1 /\ to(from(k)) = k
    BY <2>1
  <2>3. new[k] = old[from(k)]
    BY <2>1, <2>2, <1>4, <1>5
  <2>4. old[k] = new[to(k)]
    <3>1. CASE k <= n
      BY <3>1, <2>1, <1>4, <1>5
    <3>2. CASE k = n + 1
      BY <3>2, <2>1, <1>4, <1>5
    <3>3. CASE k > n + 1
      <4>1. to(k) = k - 1 /\ (k - 1) - n = k - n - 1 /\ k - 1 \in 1 .. n + m + 1
            /\ ~(k - 1 <= n) /\ k - 1 <= n + m
        BY <3>3, <2>1
      <4>2. new[k - 1] = b[(k - 1) - n]
        BY <4>1, <1>5
      <4>3. old[k] = b[k - n - 1]
        BY <3>3, <2>1, <1>4
      <4> QED BY <4>1, <4>2, <4>3
    <3> QED BY <3>1, <3>2, <3>3, <2>1
  <2> QED BY <2>2, <2>3, <2>4
<1> HIDE DEF from, to
<1>8. IsWhole(old)
  BY DEF old
<1>9. \A j, k \in DOMAIN new : new[j] = new[k] => j = k
  <2> SUFFICES ASSUME NEW j \in DOMAIN new, NEW k \in DOMAIN new, new[j] = new[k]
               PROVE  j = k
    OBVIOUS
  <2>1. from(j) = from(k)
    BY <1>6, <1>7, <1>8 DEF IsWhole
  <2> QED BY <2>1, <1>6, <1>7
<1>10. \A i \in Slots : \E k \in DOMAIN new : new[k] = i
  BY <1>6, <1>7, <1>8 DEF IsWhole
<1>11. IsWhole(new)
  BY <1>4, <1>5, <1>8, <1>9, <1>10 DEF IsWhole
<1> QED BY <1>11 DEF new

-----------------------------------------------------------------------------
(* Where the threads are *)

Places == {"idle", "acquire", "prepare", "queue", "abort",
           "decode", "finish", "exited", "pick", "move", "release"}
Locals == [at : Places, slot : Slots \union {NoSlot}, took : Outcomes]

\* The locals of each thread.
LEMMA ThreadsTyped ==
  ASSUME PipelineTypeOK
  PROVE  thread \in [Threads -> Locals]
BY DEF PipelineTypeOK, Locals, Places

\* Producers, receivers and the consumer are different threads.
LEMMA ThreadKinds ==
  /\ Producers \subseteq Threads /\ Receivers \subseteq Threads /\ Consumer \in Threads
  /\ \A p \in Producers : p # Consumer /\ p \notin Receivers
  /\ \A r \in Receivers : r # Consumer /\ r \notin Producers
BY PipelineAssumption DEF Threads, Consumer

\* Thread t, and no other, moves to a place w that its role has, with slot i.
Moves(t, w, i) ==
  /\ thread' \in [Threads -> Locals]
  /\ thread'[t].at = w /\ thread'[t].slot = i
  /\ \A u \in Threads : u # t => thread'[u] = thread[u]

\* Goes moves the thread and leaves what it took.
LEMMA GoesMoves ==
  ASSUME PipelineTypeOK, NEW t \in Threads, NEW w \in Places,
         NEW i \in Slots \cup {NoSlot}, Goes(t, w, i)
  PROVE  Moves(t, w, i) /\ thread'[t].took = thread[t].took
<1>1. thread \in [Threads -> Locals]
  BY ThreadsTyped
<1>2. thread' = [thread EXCEPT ![t] = [thread[t] EXCEPT !.at = w, !.slot = i]]
  BY <1>1 DEF Goes, Locals
<1>3. thread[t] \in Locals
  BY <1>1
<1>4. /\ [thread[t] EXCEPT !.at = w, !.slot = i] \in Locals
      /\ [thread[t] EXCEPT !.at = w, !.slot = i].at = w
      /\ [thread[t] EXCEPT !.at = w, !.slot = i].slot = i
      /\ [thread[t] EXCEPT !.at = w, !.slot = i].took = thread[t].took
  BY <1>3 DEF Locals
<1> DEFINE x == [thread[t] EXCEPT !.at = w, !.slot = i]
<1> HIDE DEF x
<1>5. thread' = [thread EXCEPT ![t] = x] /\ x \in Locals
      /\ x.at = w /\ x.slot = i /\ x.took = thread[t].took
  BY <1>2, <1>4 DEF x
<1> QED BY <1>1, <1>5 DEF Moves

NoSlotAt == {"idle", "acquire", "pick", "exited"}

\* A thread alone in its role may move on within its role.
LEMMA MoveKeepsRoles ==
  ASSUME PipelineTypeOK, Roles,
         NEW t \in Threads, NEW w \in Places, NEW i \in Slots \cup {NoSlot},
         Moves(t, w, i), i = NoSlot <=> w \in NoSlotAt,
         t \in Producers => /\ w \in ProducerAt
                            /\ \A q \in Producers : q # t => thread[q].at = "idle",
         t = Consumer => w \in ConsumerAt,
         t \in Receivers => /\ w \in ReceiverAt
                            /\ \A q \in Receivers : q # t => thread[q].at = "idle"
  PROVE  Roles'
<1>1. \A p \in Producers : thread'[p].at \in ProducerAt
  BY ThreadKinds DEF Moves, Roles
<1>2. thread'[Consumer].at \in ConsumerAt
  BY ThreadKinds DEF Moves, Roles
<1>3. \A r \in Receivers : thread'[r].at \in ReceiverAt
  BY ThreadKinds DEF Moves, Roles
<1>4. \A u \in Threads : thread'[u].slot = NoSlot <=> thread'[u].at \in NoSlotAt
  BY DEF Moves, Roles, NoSlotAt
<1>5. \A p, q \in Producers : thread'[p].at # "idle" /\ thread'[q].at # "idle" => p = q
  BY ThreadKinds DEF Moves, Roles
<1>6. \A p, q \in Receivers : thread'[p].at # "idle" /\ thread'[q].at # "idle" => p = q
  BY ThreadKinds DEF Moves, Roles
<1> QED BY <1>1, <1>2, <1>3, <1>4, <1>5, <1>6 DEF Roles, NoSlotAt

\* The one that is in is the only one.
LEMMA OthersIdle ==
  ASSUME Roles
  PROVE  /\ \A p, q \in Producers : thread[p].at # "idle" /\ q # p => thread[q].at = "idle"
         /\ \A p, q \in Receivers : thread[p].at # "idle" /\ q # p => thread[q].at = "idle"
BY DEF Roles

\* What a set of threads holds, when one of them at most is not idle.
LEMMA HeldAfterMove ==
  ASSUME PipelineTypeOK, Roles,
         NEW ts \in SUBSET Threads, NEW t \in ts,
         NEW w \in Places, NEW i \in Slots \cup {NoSlot}, Moves(t, w, i),
         \A u \in ts : u # t => thread[u].at \in NoSlotAt
  PROVE  /\ HeldBy(thread, ts) = IF thread[t].slot = NoSlot THEN <<>> ELSE <<thread[t].slot>>
         /\ HeldBy(thread', ts) = IF i = NoSlot THEN <<>> ELSE <<i>>
<1>1. \A u \in ts : u # t => thread[u].slot = NoSlot /\ thread'[u].slot = NoSlot
  BY DEF Roles, NoSlotAt, Moves
<1>2. thread'[t].slot = i
  BY DEF Moves
<1>3. HeldBy(thread, ts) = IF thread[t].slot = NoSlot THEN <<>> ELSE <<thread[t].slot>>
  BY <1>1, NoneHeld, OneHeld
<1>4. HeldBy(thread', ts) = IF i = NoSlot THEN <<>> ELSE <<i>>
  BY <1>1, <1>2, NoneHeld, OneHeld
<1> QED BY <1>3, <1>4

\* The move of one thread leaves what the others hold.
LEMMA HeldByOthers ==
  ASSUME NEW ts \in SUBSET Threads, NEW t \in Threads \ ts,
         NEW w, NEW i, Moves(t, w, i)
  PROVE  HeldBy(thread', ts) = HeldBy(thread, ts)
<1>1. \A u \in ts : thread'[u].slot = thread[u].slot
  BY DEF Moves
<1> QED BY <1>1, SameHeld

\* Every part of the round is a list of slots.
LEMMA RoundTyped ==
  ASSUME PipelineTypeOK
  PROVE  /\ HeldBy(thread, Producers) \in Seq(Slots)
         /\ HeldBy(thread, {Consumer}) \in Seq(Slots)
         /\ HeldBy(thread, Receivers) \in Seq(Slots)
         /\ Decoded \in Seq(Slots) /\ Waiting \in Seq(Slots) /\ Open \in Seq(Slots)
         /\ Pipe \in Seq(Slots) /\ Round \in Seq(Slots)
<1>1. \A t \in Threads : thread[t].slot \in Slots \cup {NoSlot}
  BY ThreadsTyped DEF Locals
<1>2. /\ HeldBy(thread, Producers) \in Seq(Slots)
      /\ HeldBy(thread, {Consumer}) \in Seq(Slots)
      /\ HeldBy(thread, Receivers) \in Seq(Slots)
  BY <1>1, ThreadKinds, HeldType
<1>3. free \in Seq(Slots) /\ pending \in Seq(Slots) /\ completed \in Seq(Slots)
  BY DEF PipelineTypeOK
<1>4. Decoded \in Seq(Slots) /\ Waiting \in Seq(Slots) /\ Open \in Seq(Slots)
  BY <1>2, <1>3, ConcatProperties DEF Decoded, Waiting, Open
<1>5. Pipe \in Seq(Slots)
  BY <1>4, ConcatProperties DEF Pipe
<1>6. Round \in Seq(Slots)
  BY <1>4, <1>5, ConcatProperties DEF Round
<1> QED BY <1>2, <1>4, <1>5, <1>6

-----------------------------------------------------------------------------
(* How a step turns the round *)

\* A slot that leaves the head of a list for a thread that held none.
LEMMA TakenFromList ==
  ASSUME NEW list \in Seq(Slots), list # <<>>
  PROVE  <<Head(list)>> \o Tail(list) = <<>> \o list
BY HeadFirst, ConcatEmptySeq

\* A producer takes the first free slot: the round stays.
LEMMA AcquireTurns ==
  ASSUME PipelineTypeOK, Roles, NEW p \in Producers, free # <<>>,
         thread[p].at = "acquire", Moves(p, "prepare", Head(free)),
         free' = Tail(free), UNCHANGED <<pending, completed>>
  PROVE  Pipe' = Pipe /\ Round' = Round
<1>1. Head(free) \in Slots /\ Head(free) # NoSlot
  BY PipelineAssumption DEF PipelineTypeOK, Slots, NoSlot
<1>2. thread[p].slot = NoSlot /\ \A q \in Producers : q # p => thread[q].at \in NoSlotAt
  BY OthersIdle, ThreadKinds DEF Roles, NoSlotAt
<1>3. HeldBy(thread, Producers) = <<>> /\ HeldBy(thread', Producers) = <<Head(free)>>
  BY <1>1, <1>2, ThreadKinds, HeldAfterMove DEF Places
<1>4. HeldBy(thread', {Consumer}) = HeldBy(thread, {Consumer})
  BY ThreadKinds, HeldByOthers
<1>5. HeldBy(thread', Receivers) = HeldBy(thread, Receivers)
  BY ThreadKinds, HeldByOthers
<1>6. Open' = Open
  BY <1>3, TakenFromList DEF Open, PipelineTypeOK
<1> QED BY <1>4, <1>5, <1>6 DEF Round, Pipe, Decoded, Waiting

\* The consumer takes the first queued slot: the round stays.
LEMMA TakeTurns ==
  ASSUME PipelineTypeOK, Roles, pending # <<>>,
         thread[Consumer].at = "idle", Moves(Consumer, "decode", Head(pending)),
         pending' = Tail(pending), UNCHANGED <<free, completed>>
  PROVE  Pipe' = Pipe /\ Round' = Round
<1>1. Head(pending) \in Slots /\ Head(pending) # NoSlot
  BY PipelineAssumption DEF PipelineTypeOK, Slots, NoSlot
<1>2. thread[Consumer].slot = NoSlot
  BY ThreadKinds DEF Roles
<1>3. /\ HeldBy(thread, {Consumer}) = <<>>
      /\ HeldBy(thread', {Consumer}) = <<Head(pending)>>
  BY <1>1, <1>2, ThreadKinds, HeldAfterMove DEF Places
<1>4. HeldBy(thread', Producers) = HeldBy(thread, Producers)
  BY ThreadKinds, HeldByOthers
<1>5. HeldBy(thread', Receivers) = HeldBy(thread, Receivers)
  BY ThreadKinds, HeldByOthers
<1>6. Waiting' = Waiting
  BY <1>3, TakenFromList DEF Waiting, PipelineTypeOK
<1> QED BY <1>4, <1>5, <1>6 DEF Round, Pipe, Decoded, Open

\* A receiver takes the first finished slot: the round stays.
LEMMA PickTurns ==
  ASSUME PipelineTypeOK, Roles, NEW r \in Receivers, completed # <<>>,
         thread[r].at = "pick", Moves(r, "move", Head(completed)),
         completed' = Tail(completed), UNCHANGED <<free, pending>>
  PROVE  Pipe' = Pipe /\ Round' = Round
<1>1. Head(completed) \in Slots /\ Head(completed) # NoSlot
  BY PipelineAssumption DEF PipelineTypeOK, Slots, NoSlot
<1>2. thread[r].slot = NoSlot /\ \A q \in Receivers : q # r => thread[q].at \in NoSlotAt
  BY OthersIdle, ThreadKinds DEF Roles, NoSlotAt
<1>3. HeldBy(thread, Receivers) = <<>> /\ HeldBy(thread', Receivers) = <<Head(completed)>>
  BY <1>1, <1>2, ThreadKinds, HeldAfterMove DEF Places
<1>4. HeldBy(thread', {Consumer}) = HeldBy(thread, {Consumer})
  BY ThreadKinds, HeldByOthers
<1>5. HeldBy(thread', Producers) = HeldBy(thread, Producers)
  BY ThreadKinds, HeldByOthers
<1>6. Decoded' = Decoded
  BY <1>3, TakenFromList DEF Decoded, PipelineTypeOK
<1> QED BY <1>4, <1>5, <1>6 DEF Round, Pipe, Open, Waiting

\* The consumer queues its slot as finished: the round stays.
LEMMA FinishTurns ==
  ASSUME PipelineTypeOK, Roles,
         thread[Consumer].at = "finish", Moves(Consumer, "idle", NoSlot),
         completed' = Append(completed, thread[Consumer].slot),
         UNCHANGED <<free, pending>>
  PROVE  Pipe' = Pipe /\ Round' = Round
<1> DEFINE s == thread[Consumer].slot
           held == HeldBy(thread, Receivers)
<1>1. s \in Slots /\ s # NoSlot
  BY ThreadKinds, ThreadsTyped DEF Roles, Locals
<1>2. HeldBy(thread, {Consumer}) = <<s>> /\ HeldBy(thread', {Consumer}) = <<>>
  BY <1>1, ThreadKinds, HeldAfterMove DEF Places
<1>3. HeldBy(thread', Producers) = HeldBy(thread, Producers)
  BY ThreadKinds, HeldByOthers
<1>4. HeldBy(thread', Receivers) = held
  BY ThreadKinds, HeldByOthers
<1>5. held \in Seq(Slots) /\ completed \in Seq(Slots) /\ pending \in Seq(Slots)
      /\ <<s>> \in Seq(Slots) /\ Decoded \in Seq(Slots)
  BY <1>1, RoundTyped DEF PipelineTypeOK
<1> HIDE DEF s, held
<1>6. Append(completed, s) = completed \o <<s>>
  BY <1>1, <1>5, LastAppended
<1>7. held \o (completed \o <<s>>) = (held \o completed) \o <<s>>
  <2>1. held \in Seq(Slots) /\ completed \in Seq(Slots) /\ <<s>> \in Seq(Slots)
    BY <1>5
  <2> QED BY <2>1, ConcatAssociative
<1>8. Decoded = held \o completed /\ Decoded' = (held \o completed) \o <<s>>
  BY <1>4, <1>6, <1>7 DEF Decoded, s, held
<1>9. Waiting = <<s>> \o pending /\ Waiting' = pending
  BY <1>2, <1>5, ConcatEmptySeq DEF Waiting, s
<1>10. (Decoded \o <<s>>) \o pending = Decoded \o (<<s>> \o pending)
  BY <1>5, ConcatAssociative
<1>11. Pipe' = Pipe
  BY <1>8, <1>9, <1>10 DEF Pipe
<1> QED BY <1>3, <1>11 DEF Round, Open

\* The slot joins the pipe, and keeps its place in the round.
LEMMA QueueTurns ==
  ASSUME PipelineTypeOK, Roles, NEW p \in Producers,
         thread[p].at = "queue", Moves(p, "idle", NoSlot),
         pending' = Append(pending, thread[p].slot),
         UNCHANGED <<free, completed>>
  PROVE  Pipe' = Append(Pipe, thread[p].slot) /\ Round' = Round
<1> DEFINE s == thread[p].slot
           held == HeldBy(thread, {Consumer})
<1>1. s \in Slots /\ s # NoSlot
  BY ThreadKinds, ThreadsTyped DEF Roles, Locals
<1>2. \A q \in Producers : q # p => thread[q].at \in NoSlotAt
  BY OthersIdle DEF NoSlotAt
<1>3. HeldBy(thread, Producers) = <<s>> /\ HeldBy(thread', Producers) = <<>>
  BY <1>1, <1>2, ThreadKinds, HeldAfterMove DEF Places
<1>4. HeldBy(thread', {Consumer}) = held
  BY ThreadKinds, HeldByOthers
<1>5. HeldBy(thread', Receivers) = HeldBy(thread, Receivers)
  BY ThreadKinds, HeldByOthers
<1>6. /\ held \in Seq(Slots) /\ pending \in Seq(Slots) /\ free \in Seq(Slots)
      /\ <<s>> \in Seq(Slots) /\ Decoded \in Seq(Slots) /\ Waiting \in Seq(Slots)
      /\ Pipe \in Seq(Slots)
  BY <1>1, RoundTyped DEF PipelineTypeOK
<1> HIDE DEF s, held
<1>7. Decoded' = Decoded
  BY <1>5 DEF Decoded
<1>8. Waiting' = Waiting \o <<s>>
  <2>1. Append(pending, s) = pending \o <<s>>
    BY <1>1, <1>6, LastAppended
  <2>2. held \o (pending \o <<s>>) = (held \o pending) \o <<s>>
    <3>1. held \in Seq(Slots) /\ pending \in Seq(Slots) /\ <<s>> \in Seq(Slots)
      BY <1>6
    <3> QED BY <3>1, ConcatAssociative
  <2> QED BY <1>4, <2>1, <2>2 DEF Waiting, s, held
<1>9. Pipe' = Pipe \o <<s>>
  <2>1. Decoded \o (Waiting \o <<s>>) = (Decoded \o Waiting) \o <<s>>
    BY <1>6, ConcatAssociative
  <2> QED BY <1>7, <1>8, <2>1 DEF Pipe
<1>10. Open = <<s>> \o free /\ Open' = free
  BY <1>3, <1>6, ConcatEmptySeq DEF Open, s
<1>11. (Pipe \o <<s>>) \o free = Pipe \o (<<s>> \o free)
  BY <1>6, ConcatAssociative
<1>12. Append(Pipe, s) = Pipe \o <<s>>
  BY <1>1, <1>6, LastAppended
<1>13. Round' = Round
  BY <1>9, <1>10, <1>11 DEF Round
<1> QED BY <1>9, <1>12, <1>13 DEF s

\* The slot goes to the end of the free ones.
LEMMA AbortTurns ==
  ASSUME PipelineTypeOK, Roles, Whole, NEW p \in Producers,
         thread[p].at = "abort", Moves(p, "idle", NoSlot),
         free' = Append(free, thread[p].slot),
         UNCHANGED <<pending, completed>>
  PROVE  Pipe' = Pipe /\ Whole'
<1> DEFINE s == thread[p].slot
<1>1. s \in Slots /\ s # NoSlot
  BY ThreadKinds, ThreadsTyped DEF Roles, Locals
<1>2. \A q \in Producers : q # p => thread[q].at \in NoSlotAt
  BY OthersIdle DEF NoSlotAt
<1>3. HeldBy(thread, Producers) = <<s>> /\ HeldBy(thread', Producers) = <<>>
  BY <1>1, <1>2, ThreadKinds, HeldAfterMove DEF Places
<1>4. HeldBy(thread', {Consumer}) = HeldBy(thread, {Consumer})
  BY ThreadKinds, HeldByOthers
<1>5. HeldBy(thread', Receivers) = HeldBy(thread, Receivers)
  BY ThreadKinds, HeldByOthers
<1>6. free \in Seq(Slots) /\ <<s>> \in Seq(Slots) /\ Pipe \in Seq(Slots)
  BY <1>1, RoundTyped DEF PipelineTypeOK
<1>7. Pipe' = Pipe
  BY <1>4, <1>5 DEF Pipe, Decoded, Waiting
<1> HIDE DEF s
<1>8. Append(free, s) = free \o <<s>> /\ free \o <<s>> \in Seq(Slots)
  BY <1>1, <1>6, LastAppended, ConcatProperties
<1>9. Round = Pipe \o (<<s>> \o free)
  BY <1>3 DEF Round, Open, s
<1>10. Round' = Pipe \o (free \o <<s>>)
  <2>1. Open' = free \o <<s>>
    BY <1>3, <1>8, ConcatEmptySeq DEF Open, s
  <2> QED BY <1>7, <2>1 DEF Round
<1>11. IsWhole(Round')
  BY <1>1, <1>6, <1>9, <1>10, TurnedIsWhole DEF Whole
<1> QED BY <1>7, <1>11 DEF Whole, IsWhole

\* The slot leaves the pipe, and goes to the end of the free ones.
LEMMA ReleaseTurns ==
  ASSUME PipelineTypeOK, Roles, Whole, NEW r \in Receivers,
         thread[r].at = "release", Moves(r, "idle", NoSlot),
         free' = Append(free, thread[r].slot),
         UNCHANGED <<pending, completed>>
  PROVE  /\ Pipe' \in Seq(Slots) /\ Pipe = <<thread[r].slot>> \o Pipe'
         /\ Whole'
<1> DEFINE s == thread[r].slot
           rest == completed \o Waiting
           held == HeldBy(thread, Producers)
<1>1. s \in Slots /\ s # NoSlot
  BY ThreadKinds, ThreadsTyped DEF Roles, Locals
<1>2. \A q \in Receivers : q # r => thread[q].at \in NoSlotAt
  BY OthersIdle DEF NoSlotAt
<1>3. HeldBy(thread, Receivers) = <<s>> /\ HeldBy(thread', Receivers) = <<>>
  BY <1>1, <1>2, ThreadKinds, HeldAfterMove DEF Places
<1>4. HeldBy(thread', {Consumer}) = HeldBy(thread, {Consumer})
  BY ThreadKinds, HeldByOthers
<1>5. HeldBy(thread', Producers) = held
  BY ThreadKinds, HeldByOthers
<1>6. /\ free \in Seq(Slots) /\ <<s>> \in Seq(Slots) /\ completed \in Seq(Slots)
      /\ Waiting \in Seq(Slots) /\ Open \in Seq(Slots) /\ held \in Seq(Slots)
      /\ <<>> \in Seq(Slots)
  BY <1>1, RoundTyped DEF PipelineTypeOK
<1> HIDE DEF s, held
<1>7. rest \in Seq(Slots)
  BY <1>6, ConcatProperties
<1>8. Waiting' = Waiting
  BY <1>4 DEF Waiting
<1>9. Pipe' = rest
  BY <1>3, <1>6, <1>8, ConcatEmptySeq DEF Pipe, Decoded
<1>10. Pipe = <<s>> \o rest
  <2>1. (<<s>> \o completed) \o Waiting = <<s>> \o (completed \o Waiting)
    BY <1>6, ConcatAssociative
  <2> QED BY <1>3, <2>1 DEF Pipe, Decoded, s
<1> HIDE DEF rest
<1>11. rest \o Open \in Seq(Slots)
  BY <1>6, <1>7, ConcatProperties
<1>12. Round = <<>> \o (<<s>> \o (rest \o Open))
  <2>1. (<<s>> \o rest) \o Open = <<s>> \o (rest \o Open)
    <3>1. <<s>> \in Seq(Slots) /\ Open \in Seq(Slots)
      BY <1>6
    <3> QED BY <1>7, <3>1, ConcatAssociative
  <2>2. <<s>> \o (rest \o Open) \in Seq(Slots)
    BY <1>6, <1>11, ConcatProperties
  <2> QED BY <1>10, <2>1, <2>2, ConcatEmptySeq DEF Round
<1>13. Round' = <<>> \o ((rest \o Open) \o <<s>>)
  <2>1. Append(free, s) = free \o <<s>>
    BY <1>1, <1>6, LastAppended
  <2>2. held \o (free \o <<s>>) = (held \o free) \o <<s>>
    BY <1>6, ConcatAssociative
  <2>3. Open' = Open \o <<s>>
    BY <1>5, <2>1, <2>2 DEF Open, s, held
  <2>4. rest \o (Open \o <<s>>) = (rest \o Open) \o <<s>>
    BY <1>6, <1>7, ConcatAssociative
  <2>5. (rest \o Open) \o <<s>> \in Seq(Slots)
    BY <1>6, <1>11, ConcatProperties
  <2> QED BY <1>9, <2>3, <2>4, <2>5, ConcatEmptySeq DEF Round
<1>14. IsWhole(Round')
  BY <1>1, <1>6, <1>11, <1>12, <1>13, TurnedIsWhole DEF Whole
<1> QED BY <1>7, <1>9, <1>10, <1>14 DEF Whole, IsWhole, s

\* The round stays where no slot changes hands.
LEMMA StillTurns ==
  ASSUME \A t \in Threads : thread'[t].slot = thread[t].slot,
         UNCHANGED <<free, pending, completed>>
  PROVE  Pipe' = Pipe /\ Round' = Round
<1>1. /\ HeldBy(thread', Producers) = HeldBy(thread, Producers)
      /\ HeldBy(thread', Receivers) = HeldBy(thread, Receivers)
      /\ HeldBy(thread', {Consumer}) = HeldBy(thread, {Consumer})
  BY ThreadKinds, SameHeld
<1> QED BY <1>1 DEF Round, Pipe, Open, Decoded, Waiting

-----------------------------------------------------------------------------
(* What is in the slots *)

Contents == [state : SlotStates, frame : 0 .. MaxFrames, failed : BOOLEAN]

SameContents == \A i \in Slots : slot'[i].frame = slot[i].frame /\ slot'[i].failed = slot[i].failed

\* A change of a slot's state leaves its frame and its failure.
LEMMA StateKeepsContents ==
  ASSUME PipelineTypeOK, NEW i \in Slots, NEW state \in SlotStates, InState(i, state)
  PROVE  slot' \in [Slots -> Contents] /\ SameContents
<1>1. slot \in [Slots -> Contents]
  BY DEF PipelineTypeOK, Contents
<1>2. slot' = [slot EXCEPT ![i] = [slot[i] EXCEPT !.state = state]]
  BY <1>1 DEF InState, Contents
<1> DEFINE x == [slot[i] EXCEPT !.state = state]
<1>3. x \in Contents /\ x.frame = slot[i].frame /\ x.failed = slot[i].failed
  BY <1>1 DEF Contents
<1> HIDE DEF x
<1>4. slot' = [slot EXCEPT ![i] = x]
  BY <1>2 DEF x
<1> QED BY <1>1, <1>3, <1>4 DEF SameContents

\* A step that keeps order and contents, and queues, accepts and answers nothing.
LEMMA QuietKeeps ==
  ASSUME PipelineTypeOK, Roles, Rising, InOrder, Blamed, Pipe' = Pipe,
         SameContents, UNCHANGED <<calls, accepted, answers, broken>>,
         \A p \in Producers : thread'[p].at # "idle" => thread[p].at # "idle",
         \A p \in Producers : thread'[p].at = "queue" =>
           thread[p].at = "queue" /\ thread'[p].slot = thread[p].slot,
         \A r \in Receivers : thread'[r].at = "release" =>
           thread[r].at = "release" /\ thread'[r] = thread[r]
  PROVE  Rising' /\ InOrder' /\ Blamed'
<1>1. Rising'
  BY DEF Rising
<1>2. Pipe \in Seq(Slots) /\ \A k \in DOMAIN Pipe : Pipe[k] \in Slots
  BY RoundTyped
<1>3. \A t \in Threads : thread[t].at \in {"queue", "release"} => thread[t].slot \in Slots
  BY ThreadsTyped DEF Roles, Locals
<1>4. InOrder'
  <2>1. (\A k \in DOMAIN Pipe : slot[Pipe[k]].frame = accepted[Len(answers) + k])'
    BY <1>2 DEF InOrder, SameContents
  <2>2. (\A p \in Producers : thread[p].at = "queue" => slot[thread[p].slot].frame = calls)'
    BY <1>3, ThreadKinds DEF InOrder, SameContents
  <2>3. (\A r \in Receivers : thread[r].at = "release" =>
           thread[r].took = [frame  |-> slot[thread[r].slot].frame,
                             failed |-> slot[thread[r].slot].failed])'
    BY <1>3, ThreadKinds DEF InOrder, SameContents
  <2>4. (Len(accepted) = Len(answers) + Len(Pipe))'
        /\ (\A k \in DOMAIN answers : answers[k].frame = accepted[k])'
    BY DEF InOrder
  <2> QED BY <2>1, <2>2, <2>3, <2>4 DEF InOrder
<1>5. Blamed'
  <2>1. (\A k \in DOMAIN Pipe : slot[Pipe[k]].failed <=> slot[Pipe[k]].frame \in broken)'
    BY <1>2 DEF Blamed, SameContents
  <2>2. (\A p \in Producers : thread[p].at = "queue" => ~slot[thread[p].slot].failed)'
    BY <1>3, ThreadKinds DEF Blamed, SameContents
  <2>3. (\A f \in broken : \E k \in DOMAIN accepted : accepted[k] = f)' /\ FailuresAreOwn'
    BY DEF Blamed, FailuresAreOwn
  <2> QED BY <2>1, <2>2, <2>3 DEF Blamed
<1> QED BY <1>1, <1>4, <1>5

-----------------------------------------------------------------------------
(* One step at a time *)

LEMMA RoundInit == Init => RoundInv
<1> SUFFICES ASSUME Init PROVE RoundInv
  OBVIOUS
<1>1. SlotCount \in Nat \ {0} /\ MaxFrames \in Nat
  BY PipelineAssumption
<1>2. free \in Seq(Slots) /\ Len(free) = SlotCount
      /\ \A k \in 1 .. SlotCount : free[k] = k - 1
  <2>1. \A k \in 1 .. SlotCount : k - 1 \in Slots
    BY <1>1 DEF Slots
  <2> QED BY <1>1, <2>1 DEF Init
<1>3. PipelineTypeOK
  <2>1. slot \in [Slots -> [state : SlotStates, frame : 0 .. MaxFrames, failed : BOOLEAN]]
    BY <1>1 DEF Init, SlotStates
  <2>2. thread \in [Threads -> Locals]
    BY <1>1 DEF Init, Locals, Places, Outcomes
  <2>3. /\ pending \in Seq(Slots) /\ completed \in Seq(Slots) /\ accepted \in Seq(Frames)
        /\ answers \in Seq([frame : Frames, failed : BOOLEAN])
    BY DEF Init
  <2>4. stopping \in BOOLEAN /\ asleep \subseteq Threads /\ broken \subseteq Frames
    BY DEF Init
  <2>5. calls \in 0 .. MaxFrames
    BY <1>1 DEF Init
  <2> QED BY <1>2, <2>1, <2>2, <2>3, <2>4, <2>5 DEF PipelineTypeOK, Locals, Places
<1>4. Roles
  BY DEF Init, Roles, ProducerAt, ConsumerAt, ReceiverAt, Threads
<1>5. Round = free /\ Pipe = <<>>
  <2>1. /\ HeldBy(thread, Producers) = <<>>
        /\ HeldBy(thread, Receivers) = <<>>
        /\ HeldBy(thread, {Consumer}) = <<>>
    BY ThreadKinds, NoneHeld DEF Init
  <2>2. <<>> \in Seq(Slots) /\ <<>> \o <<>> = <<>>
    BY ConcatEmptySeq
  <2>3. Pipe = <<>>
    BY <2>1, <2>2 DEF Init, Pipe, Decoded, Waiting
  <2> QED BY <1>2, <2>1, <2>3, ConcatEmptySeq DEF Round, Open
<1>6. Whole
  <2>1. DOMAIN free = 1 .. SlotCount
    BY <1>2
  <2>2. \A i \in Slots : i + 1 \in 1 .. SlotCount /\ free[i + 1] = i
    BY <1>1, <1>2 DEF Slots
  <2>3. \A j, k \in 1 .. SlotCount : free[j] = free[k] => j = k
    BY <1>1, <1>2
  <2> QED BY <1>2, <1>5, <2>1, <2>2, <2>3 DEF Whole, IsWhole
<1>7. Rising /\ InOrder /\ Blamed
  <2>1. /\ DOMAIN accepted = {} /\ DOMAIN answers = {} /\ DOMAIN Pipe = {}
        /\ Len(accepted) = 0 /\ Len(answers) = 0 /\ Len(Pipe) = 0
        /\ broken = {}
    BY <1>5 DEF Init
  <2>2. \A t \in Threads : thread[t].at = "idle"
    BY DEF Init
  <2>3. Rising
    BY <2>1, <2>2, ThreadKinds DEF Rising
  <2>4. InOrder
    BY <2>1, <2>2, ThreadKinds DEF InOrder
  <2>5. Blamed
    BY <2>1, <2>2, ThreadKinds DEF Blamed, FailuresAreOwn
  <2> QED BY <2>3, <2>4, <2>5
<1> QED BY <1>3, <1>4, <1>6, <1>7 DEF RoundInv

\* A producer that begins to submit keeps the invariant.
LEMMA BeginSubmitStep ==
  ASSUME RoundInv, NEW p \in Producers, BeginSubmit(p)
  PROVE  RoundInv'
<1>1. Moves(p, "acquire", NoSlot) /\ thread[p].slot = NoSlot
  BY ThreadKinds, GoesMoves DEF RoundInv, BeginSubmit, Places, Roles
<1>2. Roles'
  BY <1>1, ThreadKinds, MoveKeepsRoles DEF RoundInv, BeginSubmit, Places, NoSlotAt, ProducerAt
<1>3. calls \in 0 .. MaxFrames /\ calls' = calls + 1 /\ calls' \in 0 .. MaxFrames
  BY PipelineAssumption DEF RoundInv, PipelineTypeOK, BeginSubmit
<1>4. PipelineTypeOK'
  BY <1>1, <1>3 DEF RoundInv, PipelineTypeOK, BeginSubmit, Moves, Locals, Places
<1>5. Pipe' = Pipe /\ Round' = Round
  <2>1. \A t \in Threads : thread'[t].slot = thread[t].slot
    BY <1>1 DEF Moves
  <2> QED BY <2>1, StillTurns DEF BeginSubmit
<1>6. Rising'
  <2>1. \A k \in DOMAIN accepted : accepted[k] \in Nat /\ accepted[k] <= calls
    <3>1. accepted \in Seq(Frames)
      BY DEF RoundInv, PipelineTypeOK
    <3>2. \A k \in DOMAIN accepted : accepted[k] \in Frames
      BY <3>1
    <3>3. Frames \subseteq Nat
      BY PipelineAssumption DEF Frames
    <3> QED BY <3>2, <3>3 DEF RoundInv, Rising
  <2>2. UNCHANGED accepted
    BY DEF BeginSubmit
  <2>3. \A k \in DOMAIN accepted : accepted[k] <= calls + 1 /\ accepted[k] < calls + 1
    BY <1>3, <2>1
  <2>4. calls + 1 > 0
    BY <1>3
  <2> QED BY <1>3, <2>2, <2>3, <2>4 DEF Rising, RoundInv
<1>7. InOrder' /\ Blamed'
  <2>1. \A q \in Producers : thread'[q].at # "queue"
    BY <1>1, ThreadKinds DEF Moves, BeginSubmit
  <2>2. \A r \in Receivers : thread'[r] = thread[r]
    BY <1>1, ThreadKinds DEF Moves
  <2>3. UNCHANGED <<slot, accepted, answers, broken>>
    BY DEF BeginSubmit
  <2> QED BY <1>5, <2>1, <2>2, <2>3 DEF InOrder, Blamed, FailuresAreOwn, RoundInv
<1> QED BY <1>2, <1>4, <1>5, <1>6, <1>7 DEF RoundInv, Whole, IsWhole

-----------------------------------------------------------------------------
(* The place of a slot in the round *)

LEMMA HeldNow ==
  ASSUME Roles
  PROVE  /\ \A p \in Producers : thread[p].slot # NoSlot =>
              HeldBy(thread, Producers) = <<thread[p].slot>>
         /\ \A r \in Receivers : thread[r].slot # NoSlot =>
              HeldBy(thread, Receivers) = <<thread[r].slot>>
         /\ thread[Consumer].slot # NoSlot =>
              HeldBy(thread, {Consumer}) = <<thread[Consumer].slot>>
<1>1. ASSUME NEW p \in Producers, thread[p].slot # NoSlot
      PROVE  HeldBy(thread, Producers) = <<thread[p].slot>>
  <2>1. \A q \in Producers : q # p => thread[q].slot = NoSlot
    BY <1>1, OthersIdle, ThreadKinds DEF Roles
  <2> QED BY <1>1, <2>1, OneHeld
<1>2. ASSUME NEW r \in Receivers, thread[r].slot # NoSlot
      PROVE  HeldBy(thread, Receivers) = <<thread[r].slot>>
  <2>1. \A q \in Receivers : q # r => thread[q].slot = NoSlot
    BY <1>2, OthersIdle, ThreadKinds DEF Roles
  <2> QED BY <1>2, <2>1, OneHeld
<1>3. ASSUME thread[Consumer].slot # NoSlot
      PROVE  HeldBy(thread, {Consumer}) = <<thread[Consumer].slot>>
  BY <1>3, OneHeld
<1> QED BY <1>1, <1>2, <1>3

\* The lengths and the elements of two sequences put together.
LEMMA Joined ==
  ASSUME NEW a \in Seq(Slots), NEW b \in Seq(Slots)
  PROVE  /\ a \o b \in Seq(Slots) /\ Len(a \o b) = Len(a) + Len(b)
         /\ Len(a) \in Nat /\ Len(b) \in Nat
         /\ DOMAIN a = 1 .. Len(a) /\ DOMAIN b = 1 .. Len(b)
         /\ DOMAIN (a \o b) = 1 .. Len(a) + Len(b)
         /\ \A k \in 1 .. Len(a) : (a \o b)[k] = a[k]
         /\ \A k \in 1 .. Len(b) : (a \o b)[Len(a) + k] = b[k]
<1> DEFINE c == a \o b
<1>1. /\ c \in Seq(Slots) /\ Len(c) = Len(a) + Len(b)
      /\ \A i \in 1 .. Len(a) + Len(b) : c[i] = IF i <= Len(a) THEN a[i] ELSE b[i - Len(a)]
  BY ConcatProperties
<1>2. Len(a) \in Nat /\ Len(b) \in Nat /\ DOMAIN a = 1 .. Len(a) /\ DOMAIN b = 1 .. Len(b)
  OBVIOUS
<1> DEFINE n == Len(a)
           m == Len(b)
<1> HIDE DEF c, n, m
<1>3. /\ c \in Seq(Slots) /\ Len(c) = n + m /\ n \in Nat /\ m \in Nat
      /\ \A i \in 1 .. n + m : c[i] = IF i <= n THEN a[i] ELSE b[i - n]
  BY <1>1, <1>2 DEF n, m
<1>4. DOMAIN c = 1 .. n + m
  BY <1>3
<1>5. \A k \in 1 .. n : c[k] = a[k]
  BY <1>3
<1>6. \A k \in 1 .. m : c[n + k] = b[k]
  <2> SUFFICES ASSUME NEW k \in 1 .. m PROVE c[n + k] = b[k]
    OBVIOUS
  <2>1. n + k \in 1 .. n + m /\ ~(n + k <= n) /\ (n + k) - n = k
    BY <1>3
  <2>2. c[n + k] = b[(n + k) - n]
    BY <1>3, <2>1
  <2> QED BY <2>1, <2>2
<1> QED BY <1>1, <1>2, <1>4, <1>5, <1>6 DEF c, n, m

\* No slot is twice in the pipe, and the slots of the pipe are not among the others.
LEMMA PipeDistinct ==
  ASSUME PipelineTypeOK, Whole
  PROVE  /\ \A j, k \in DOMAIN Pipe : Pipe[j] = Pipe[k] => j = k
         /\ \A j \in DOMAIN Pipe, k \in DOMAIN Open : Pipe[j] # Open[k]
         /\ Len(Pipe) + Len(Open) = SlotCount
<1>1. Pipe \in Seq(Slots) /\ Open \in Seq(Slots)
  BY RoundTyped
<1> DEFINE n == Len(Pipe)
           m == Len(Open)
<1>2. /\ Len(Round) = n + m /\ n \in Nat /\ m \in Nat
      /\ DOMAIN Pipe = 1 .. n /\ DOMAIN Open = 1 .. m /\ DOMAIN Round = 1 .. n + m
      /\ \A k \in 1 .. n : Round[k] = Pipe[k]
      /\ \A k \in 1 .. m : Round[n + k] = Open[k]
  BY <1>1, Joined DEF Round
<1> HIDE DEF n, m
<1>3. \A j, k \in 1 .. n + m : Round[j] = Round[k] => j = k
  BY <1>2 DEF Whole, IsWhole
<1>4. \A j, k \in 1 .. n : Pipe[j] = Pipe[k] => j = k
  <2>1. \A j \in 1 .. n : j \in 1 .. n + m
    BY <1>2
  <2> QED BY <1>2, <1>3, <2>1
<1>5. \A j \in 1 .. n, k \in 1 .. m : Pipe[j] # Open[k]
  <2>1. \A j \in 1 .. n, k \in 1 .. m : j \in 1 .. n + m /\ n + k \in 1 .. n + m /\ j # n + k
    BY <1>2
  <2> QED BY <1>2, <1>3, <2>1
<1>6. n + m = SlotCount
  BY <1>2 DEF Whole, IsWhole
<1> QED BY <1>2, <1>4, <1>5, <1>6 DEF n, m

\* A producer's slot is not in the pipe, and the pipe is not full then.
LEMMA OutsideThePipe ==
  ASSUME PipelineTypeOK, Roles, Whole, NEW p \in Producers, thread[p].slot # NoSlot
  PROVE  /\ thread[p].slot \in Slots
         /\ \A k \in DOMAIN Pipe : Pipe[k] # thread[p].slot
         /\ Len(Pipe) < SlotCount
<1>1. thread[p].slot \in Slots
  BY ThreadKinds, ThreadsTyped DEF Locals
<1>2. Open = <<thread[p].slot>> \o free
  BY HeldNow DEF Open
<1>3. <<thread[p].slot>> \in Seq(Slots) /\ Len(<<thread[p].slot>>) = 1 /\ free \in Seq(Slots)
  BY <1>1 DEF PipelineTypeOK
<1>4. /\ Len(Open) = 1 + Len(free) /\ Len(free) \in Nat
      /\ DOMAIN Open = 1 .. 1 + Len(free)
      /\ \A k \in 1 .. 1 : Open[k] = <<thread[p].slot>>[k]
  BY <1>2, <1>3, Joined
<1>5. 1 \in DOMAIN Open /\ Open[1] = thread[p].slot
  BY <1>4
<1>6. Len(Pipe) \in Nat /\ Len(Open) \in Nat /\ Len(Open) > 0
  BY <1>4, RoundTyped
<1> QED BY <1>1, <1>5, <1>6, PipeDistinct, PipelineAssumption

\* The consumer's slot is behind those decoded, and a receiver's is the first.
LEMMA InThePipe ==
  ASSUME PipelineTypeOK, Roles
  PROVE  /\ \A r \in Receivers : thread[r].slot # NoSlot =>
              1 \in DOMAIN Pipe /\ Pipe[1] = thread[r].slot
         /\ thread[Consumer].slot # NoSlot =>
              /\ Len(Decoded) + 1 \in DOMAIN Pipe
              /\ Pipe[Len(Decoded) + 1] = thread[Consumer].slot
         /\ \A r \in Receivers : thread[r].slot # NoSlot => Len(Decoded) >= 1
<1> DEFINE n == Len(Decoded)
           m == Len(Waiting)
<1>1. /\ DOMAIN Pipe = 1 .. n + m /\ n \in Nat /\ m \in Nat
      /\ \A k \in 1 .. n : Pipe[k] = Decoded[k]
      /\ \A k \in 1 .. m : Pipe[n + k] = Waiting[k]
  BY RoundTyped, Joined DEF Pipe
<1>2. ASSUME NEW r \in Receivers, thread[r].slot # NoSlot
      PROVE  n >= 1 /\ Decoded[1] = thread[r].slot
  <2>1. thread[r].slot \in Slots
    BY <1>2, ThreadKinds, ThreadsTyped DEF Locals
  <2>2. <<thread[r].slot>> \in Seq(Slots) /\ Len(<<thread[r].slot>>) = 1
        /\ completed \in Seq(Slots)
    BY <2>1 DEF PipelineTypeOK
  <2>3. Decoded = <<thread[r].slot>> \o completed
    BY <1>2, HeldNow DEF Decoded
  <2>4. /\ n = 1 + Len(completed) /\ Len(completed) \in Nat
        /\ \A k \in 1 .. 1 : Decoded[k] = <<thread[r].slot>>[k]
    BY <2>2, <2>3, Joined
  <2> QED BY <2>4
<1>3. ASSUME thread[Consumer].slot # NoSlot
      PROVE  m >= 1 /\ Waiting[1] = thread[Consumer].slot
  <2> DEFINE s == thread[Consumer].slot
  <2>1. s \in Slots
    BY <1>3, ThreadKinds, ThreadsTyped DEF Locals
  <2>2. <<s>> \in Seq(Slots) /\ Len(<<s>>) = 1 /\ pending \in Seq(Slots)
    BY <2>1 DEF PipelineTypeOK
  <2>3. Waiting = <<s>> \o pending
    BY <1>3, HeldNow DEF Waiting
  <2>4. /\ m = 1 + Len(pending) /\ Len(pending) \in Nat
        /\ \A k \in 1 .. 1 : Waiting[k] = <<s>>[k]
    BY <2>2, <2>3, Joined
  <2> QED BY <2>4
<1> HIDE DEF n, m
<1>4. ASSUME NEW r \in Receivers, thread[r].slot # NoSlot
      PROVE  1 \in DOMAIN Pipe /\ Pipe[1] = thread[r].slot
  <2>1. n >= 1 /\ Decoded[1] = thread[r].slot
    BY <1>2, <1>4
  <2> QED BY <1>1, <2>1
<1>5. ASSUME thread[Consumer].slot # NoSlot
      PROVE  n + 1 \in DOMAIN Pipe /\ Pipe[n + 1] = thread[Consumer].slot
  <2>1. m >= 1 /\ Waiting[1] = thread[Consumer].slot
    BY <1>3, <1>5
  <2> QED BY <1>1, <2>1
<1> QED BY <1>2, <1>4, <1>5 DEF n

-----------------------------------------------------------------------------
(* The steps of a producer *)

\* A step that keeps the round, the contents and what the callers have seen.
LEMMA QuietStep ==
  ASSUME RoundInv, PipelineTypeOK', Roles', Whole', Pipe' = Pipe, SameContents,
         UNCHANGED <<calls, accepted, answers, broken>>,
         \A p \in Producers : thread'[p].at # "idle" => thread[p].at # "idle",
         \A p \in Producers : thread'[p].at = "queue" =>
           thread[p].at = "queue" /\ thread'[p].slot = thread[p].slot,
         \A r \in Receivers : thread'[r].at = "release" =>
           thread[r].at = "release" /\ thread'[r] = thread[r]
  PROVE  RoundInv'
<1>1. Rising' /\ InOrder' /\ Blamed'
  BY QuietKeeps DEF RoundInv
<1> QED BY <1>1 DEF RoundInv

\* A notification wakes threads and puts none to sleep.
LEMMA NotifyKeeps ==
  ASSUME NEW ts, asleep \subseteq Threads, NotifyOne(ts)
  PROVE  asleep' \subseteq Threads
BY DEF NotifyOne

\* The first slot of a list that is not empty, and the rest.
LEMMA HeadTail ==
  ASSUME NEW list \in Seq(Slots), list # <<>>
  PROVE  Head(list) \in Slots /\ Head(list) # NoSlot /\ Tail(list) \in Seq(Slots)
<1>1. Head(list) \in Slots /\ Tail(list) \in Seq(Slots)
  OBVIOUS
<1> QED BY <1>1, PipelineAssumption DEF Slots, NoSlot

\* A producer that takes a slot, or sleeps or leaves, keeps the invariant.
LEMMA AcquireSlotStep ==
  ASSUME RoundInv, NEW p \in Producers, AcquireSlot(p)
  PROVE  RoundInv'
<1>1. /\ PipelineTypeOK /\ Roles /\ Whole /\ p \in Threads /\ p \notin Receivers
      /\ p # Consumer /\ thread[p].at = "acquire" /\ thread[p].slot = NoSlot
  BY ThreadKinds DEF RoundInv, AcquireSlot, At, Roles
<1>2. \A q \in Producers : q # p => thread[q].at = "idle"
  BY <1>1, OthersIdle
<1>3. UNCHANGED <<pending, completed, stopping, calls, accepted, answers, broken>>
  BY DEF AcquireSlot
<1>4. CASE stopping /\ Goes(p, "idle", NoSlot) /\ UNCHANGED <<slot, free, asleep>>
  <2>1. Moves(p, "idle", NoSlot)
    BY <1>1, <1>4, GoesMoves DEF Places
  <2>2. Roles'
    BY <1>1, <1>2, <2>1, MoveKeepsRoles DEF Places, NoSlotAt, ProducerAt
  <2>3. PipelineTypeOK'
    BY <1>1, <1>3, <1>4, <2>1 DEF PipelineTypeOK, Moves, Locals, Places
  <2>4. \A t \in Threads : thread'[t].slot = thread[t].slot
    BY <1>1, <2>1 DEF Moves
  <2>5. Pipe' = Pipe /\ Round' = Round
    BY <1>3, <1>4, <2>4, StillTurns
  <2>6. SameContents /\ Whole'
    BY <1>1, <1>4, <2>5 DEF SameContents, Whole, IsWhole
  <2> QED BY <1>1, <1>3, <2>1, <2>2, <2>3, <2>5, <2>6, ThreadKinds, QuietStep DEF Moves
<1>5. CASE Sleeps(p) /\ UNCHANGED free
  <2>1. UNCHANGED <<slot, thread, free>> /\ asleep' \subseteq Threads
    BY <1>1, <1>5 DEF Sleeps, PipelineTypeOK
  <2>2. PipelineTypeOK' /\ Roles'
    BY <1>1, <1>3, <2>1 DEF PipelineTypeOK, Roles
  <2>3. Pipe' = Pipe /\ Round' = Round
    BY <1>3, <2>1, StillTurns
  <2>4. SameContents /\ Whole'
    BY <1>1, <2>1, <2>3 DEF SameContents, Whole, IsWhole
  <2> QED BY <1>3, <2>1, <2>2, <2>3, <2>4, QuietStep
<1>6. CASE /\ free # <<>> /\ free' = Tail(free) /\ InState(Head(free), "preparing")
           /\ Goes(p, "prepare", Head(free)) /\ UNCHANGED asleep
  <2>1. Head(free) \in Slots /\ Head(free) # NoSlot /\ Tail(free) \in Seq(Slots)
    BY <1>1, <1>6, HeadTail DEF PipelineTypeOK
  <2>2. Moves(p, "prepare", Head(free))
    BY <1>1, <1>6, <2>1, GoesMoves DEF Places
  <2>3. Roles'
    BY <1>1, <1>2, <2>1, <2>2, MoveKeepsRoles DEF Places, NoSlotAt, ProducerAt
  <2>4. slot' \in [Slots -> Contents] /\ SameContents
    BY <1>1, <1>6, <2>1, StateKeepsContents DEF SlotStates
  <2>5. PipelineTypeOK'
    BY <1>1, <1>3, <1>6, <2>1, <2>2, <2>4 DEF PipelineTypeOK, Moves, Locals, Places, Contents
  <2>6. Pipe' = Pipe /\ Round' = Round
    BY <1>1, <1>3, <1>6, <2>2, AcquireTurns
  <2>7. Whole'
    BY <1>1, <2>6 DEF Whole, IsWhole
  <2> QED BY <1>1, <1>3, <2>2, <2>3, <2>4, <2>5, <2>6, <2>7, ThreadKinds, QuietStep DEF Moves
<1> QED BY <1>4, <1>5, <1>6 DEF AcquireSlot

\* A preparation that threw gives its slot back and keeps the invariant.
LEMMA AbortStep ==
  ASSUME RoundInv, NEW p \in Producers, Abort(p)
  PROVE  RoundInv'
<1>1. /\ PipelineTypeOK /\ Roles /\ Whole /\ p \in Threads /\ p \notin Receivers
      /\ p # Consumer /\ thread[p].at = "abort" /\ thread[p].slot \in Slots
  BY ThreadKinds, ThreadsTyped DEF RoundInv, Abort, At, Roles, Locals
<1>2. \A q \in Producers : q # p => thread[q].at = "idle"
  BY <1>1, OthersIdle
<1>3. /\ UNCHANGED <<pending, completed, stopping, calls, accepted, answers, broken>>
      /\ free' = Append(free, thread[p].slot) /\ free' \in Seq(Slots)
      /\ asleep' \subseteq Threads
  <2>1. free' = Append(free, thread[p].slot) /\ free \in Seq(Slots)
    BY <1>1 DEF Abort, PushBack, PipelineTypeOK
  <2>2. asleep' \subseteq Threads
    BY <1>1, NotifyKeeps DEF Abort, PipelineTypeOK
  <2> QED BY <1>1, <2>1, <2>2 DEF Abort
<1>4. Moves(p, "idle", NoSlot)
  BY <1>1, GoesMoves DEF Abort, Places
<1>5. Roles'
  BY <1>1, <1>2, <1>4, MoveKeepsRoles DEF Places, NoSlotAt, ProducerAt
<1>6. slot' \in [Slots -> Contents] /\ SameContents
  BY <1>1, StateKeepsContents DEF Abort, SlotStates
<1>7. PipelineTypeOK'
  BY <1>1, <1>3, <1>4, <1>6 DEF PipelineTypeOK, Moves, Locals, Places, Contents
<1>8. Pipe' = Pipe /\ Whole'
  BY <1>1, <1>3, <1>4, AbortTurns
<1> QED BY <1>1, <1>3, <1>4, <1>5, <1>6, <1>7, <1>8, ThreadKinds, QuietStep DEF Moves

\* Nothing in the pipe is touched: the slot prepared is outside of it.
LEMMA PrepareStep ==
  ASSUME RoundInv, NEW p \in Producers, Prepare(p)
  PROVE  RoundInv'
<1> DEFINE s == thread[p].slot
<1>1. /\ PipelineTypeOK /\ Roles /\ Whole /\ p \in Threads /\ p \notin Receivers
      /\ p # Consumer /\ thread[p].at = "prepare" /\ s \in Slots /\ s # NoSlot
  BY ThreadKinds, ThreadsTyped DEF RoundInv, Prepare, At, Roles, Locals
<1>2. \A q \in Producers : q # p => thread[q].at = "idle"
  BY <1>1, OthersIdle
<1>3. UNCHANGED <<free, pending, completed, stopping, asleep, calls, accepted, answers, broken>>
  BY DEF Prepare
<1>4. PICK w \in {"queue", "abort"} : Goes(p, w, s)
  BY DEF Prepare
<1>5. Moves(p, w, s)
  BY <1>1, <1>4, GoesMoves DEF Places
<1>6. Roles'
  BY <1>1, <1>2, <1>5, MoveKeepsRoles DEF Places, NoSlotAt, ProducerAt
<1>7. /\ slot' \in [Slots -> Contents]
      /\ slot'[s].frame = calls /\ ~slot'[s].failed
      /\ \A i \in Slots : i # s => slot'[i] = slot[i]
  <2>1. slot \in [Slots -> Contents] /\ calls \in 0 .. MaxFrames
    BY <1>1 DEF PipelineTypeOK, Contents
  <2>2. slot' = [slot EXCEPT ![s] = [slot[s] EXCEPT !.frame = calls, !.failed = FALSE]]
    BY <1>1, <2>1 DEF Prepare, Resets, Contents
  <2> DEFINE x == [slot[s] EXCEPT !.frame = calls, !.failed = FALSE]
  <2>3. x \in Contents /\ x.frame = calls /\ x.failed = FALSE
    BY <1>1, <2>1 DEF Contents
  <2> HIDE DEF x
  <2>4. slot' = [slot EXCEPT ![s] = x]
    BY <2>2 DEF x
  <2> QED BY <1>1, <2>1, <2>3, <2>4
<1>8. PipelineTypeOK'
  BY <1>1, <1>3, <1>5, <1>7 DEF PipelineTypeOK, Moves, Locals, Places, Contents
<1>9. Pipe' = Pipe /\ Round' = Round
  <2>1. \A t \in Threads : thread'[t].slot = thread[t].slot
    BY <1>5 DEF Moves
  <2> QED BY <1>3, <2>1, StillTurns
<1>10. Pipe \in Seq(Slots) /\ \A k \in DOMAIN Pipe : Pipe[k] \in Slots /\ Pipe[k] # s
  BY <1>1, RoundTyped, OutsideThePipe
<1>11. Rising'
  <2>1. Rising
    BY DEF RoundInv
  <2> QED BY <1>1, <1>3, <1>5, <2>1, ThreadKinds DEF Rising, Moves
<1>12. \A q \in Producers : thread'[q].at = "queue" => thread'[q].slot = s
  BY <1>2, <1>5, ThreadKinds DEF Moves
<1>13. \A r \in Receivers : thread'[r].at = "release" =>
         /\ thread[r].at = "release" /\ thread'[r] = thread[r]
         /\ thread[r].slot \in Slots /\ slot'[thread[r].slot] = slot[thread[r].slot]
  <2> SUFFICES ASSUME NEW r \in Receivers, thread'[r].at = "release"
               PROVE  /\ thread[r].at = "release" /\ thread'[r] = thread[r]
                      /\ thread[r].slot \in Slots
                      /\ slot'[thread[r].slot] = slot[thread[r].slot]
    OBVIOUS
  <2>1. thread[r].at = "release" /\ thread'[r] = thread[r]
    BY <1>1, <1>5, ThreadKinds DEF Moves
  <2>2. thread[r].slot # NoSlot
    BY <1>1, <2>1, ThreadKinds DEF Roles
  <2>3. 1 \in DOMAIN Pipe /\ Pipe[1] = thread[r].slot
    BY <1>1, <2>2, InThePipe
  <2> QED BY <1>7, <1>10, <2>1, <2>3
<1>14. InOrder'
  <2>1. InOrder
    BY DEF RoundInv
  <2>2. \A k \in DOMAIN Pipe : slot'[Pipe[k]].frame = accepted[Len(answers) + k]
    BY <1>7, <1>10, <2>1 DEF InOrder
  <2>3. \A q \in Producers : thread'[q].at = "queue" => slot'[thread'[q].slot].frame = calls
    BY <1>7, <1>12
  <2>4. \A r \in Receivers : thread'[r].at = "release" =>
          thread'[r].took = [frame  |-> slot'[thread'[r].slot].frame,
                             failed |-> slot'[thread'[r].slot].failed]
    BY <1>13, <2>1 DEF InOrder
  <2> QED BY <1>3, <1>9, <2>1, <2>2, <2>3, <2>4 DEF InOrder
<1>15. Blamed'
  <2>1. Blamed
    BY DEF RoundInv
  <2>2. \A k \in DOMAIN Pipe : slot'[Pipe[k]].failed <=> slot'[Pipe[k]].frame \in broken
    BY <1>7, <1>10, <2>1 DEF Blamed
  <2>3. \A q \in Producers : thread'[q].at = "queue" => ~slot'[thread'[q].slot].failed
    BY <1>7, <1>12
  <2> QED BY <1>3, <1>9, <2>1, <2>2, <2>3 DEF Blamed, FailuresAreOwn
<1> QED BY <1>1, <1>6, <1>8, <1>9, <1>11, <1>14, <1>15 DEF RoundInv, Whole, IsWhole

\* The places of a list that grew by one.
LEMMA AppendedTo ==
  ASSUME NEW S, NEW list \in Seq(S), NEW x \in S
  PROVE  /\ Append(list, x) \in Seq(S) /\ Len(Append(list, x)) = Len(list) + 1
         /\ Len(list) \in Nat /\ DOMAIN list = 1 .. Len(list)
         /\ DOMAIN Append(list, x) = 1 .. Len(list) + 1
         /\ \A k \in 1 .. Len(list) : Append(list, x)[k] = list[k]
         /\ Append(list, x)[Len(list) + 1] = x
OBVIOUS

\* The frame queued is newer than all the others, so it is in nobody's way.
LEMMA QueueFrameStep ==
  ASSUME RoundInv, NEW p \in Producers, QueueFrame(p)
  PROVE  RoundInv'
<1> DEFINE s == thread[p].slot
<1>1. /\ PipelineTypeOK /\ Roles /\ Whole /\ Rising /\ InOrder /\ Blamed
      /\ p \in Threads /\ p \notin Receivers
      /\ p # Consumer /\ thread[p].at = "queue" /\ s \in Slots
  BY ThreadKinds, ThreadsTyped DEF RoundInv, QueueFrame, At, Roles, Locals
<1>2. \A q \in Producers : q # p => thread[q].at = "idle"
  BY <1>1, OthersIdle
<1>3. /\ UNCHANGED <<free, completed, stopping, calls, answers, broken>>
      /\ pending' = Append(pending, s) /\ pending' \in Seq(Slots)
      /\ asleep' \subseteq Threads
  <2>1. pending' = Append(pending, s) /\ pending \in Seq(Slots)
    BY <1>1 DEF QueueFrame, PushBack, PipelineTypeOK
  <2>2. asleep' \subseteq Threads
    BY <1>1, NotifyKeeps DEF QueueFrame, PipelineTypeOK
  <2> QED BY <1>1, <2>1, <2>2 DEF QueueFrame
<1>4. Moves(p, "idle", NoSlot)
  BY <1>1, GoesMoves DEF QueueFrame, Places
<1>5. Roles'
  BY <1>1, <1>2, <1>4, MoveKeepsRoles DEF Places, NoSlotAt, ProducerAt
<1>6. slot' \in [Slots -> Contents] /\ SameContents
  BY <1>1, StateKeepsContents DEF QueueFrame, SlotStates
<1>7. /\ slot[s].frame = calls /\ ~slot[s].failed /\ accepted' = Append(accepted, calls)
      /\ calls > 0 /\ \A k \in DOMAIN accepted : accepted[k] < calls
  BY <1>1 DEF InOrder, Blamed, Rising, QueueFrame
<1>8. calls \in Frames /\ accepted \in Seq(Frames)
  <2>1. calls \in 0 .. MaxFrames /\ accepted \in Seq(Frames)
    BY <1>1 DEF PipelineTypeOK
  <2> QED BY <1>7, <2>1, PipelineAssumption DEF Frames
<1> DEFINE n == Len(accepted)
           a == Len(answers)
           m == Len(Pipe)
<1>9. /\ accepted' \in Seq(Frames) /\ Len(accepted') = n + 1 /\ n \in Nat
      /\ DOMAIN accepted = 1 .. n /\ DOMAIN accepted' = 1 .. n + 1
      /\ \A k \in 1 .. n : accepted'[k] = accepted[k]
      /\ accepted'[n + 1] = calls
  BY <1>7, <1>8, AppendedTo
<1>10. PipelineTypeOK'
  BY <1>1, <1>3, <1>4, <1>6, <1>9 DEF PipelineTypeOK, Moves, Locals, Places, Contents
<1>11. Pipe' = Append(Pipe, s) /\ Round' = Round
  BY <1>1, <1>3, <1>4, QueueTurns
<1>12. /\ Len(Pipe') = m + 1 /\ m \in Nat /\ DOMAIN Pipe = 1 .. m /\ DOMAIN Pipe' = 1 .. m + 1
       /\ \A k \in 1 .. m : Pipe'[k] = Pipe[k] /\ Pipe[k] \in Slots
       /\ Pipe'[m + 1] = s
  <2>1. Pipe \in Seq(Slots)
    BY <1>1, RoundTyped
  <2> QED BY <1>1, <1>11, <2>1, AppendedTo
<1>13. n = a + m /\ a \in Nat /\ DOMAIN answers = 1 .. a
  <2>1. answers \in Seq([frame : Frames, failed : BOOLEAN])
    BY <1>1 DEF PipelineTypeOK
  <2> QED BY <1>1, <2>1 DEF InOrder
<1> HIDE DEF n, a, m
<1>14. calls \in Nat /\ \A k \in 1 .. n : accepted[k] \in Nat /\ accepted[k] < calls
  <2>1. \A k \in 1 .. n : accepted[k] \in Frames
    BY <1>8, <1>9
  <2>2. Frames \subseteq Nat
    BY PipelineAssumption DEF Frames
  <2> QED BY <1>7, <1>8, <1>9, <2>1, <2>2
<1>15. \A q \in Producers : thread'[q].at = "idle"
  BY <1>2, <1>4, ThreadKinds DEF Moves
<1>16. Rising'
  <2>1. \A j, k \in 1 .. n + 1 : j < k => accepted'[j] < accepted'[k]
    <3> SUFFICES ASSUME NEW j \in 1 .. n + 1, NEW k \in 1 .. n + 1, j < k
                 PROVE  accepted'[j] < accepted'[k]
      OBVIOUS
    <3>1. j \in 1 .. n
      BY <1>9
    <3>2. CASE k = n + 1
      BY <1>9, <1>14, <3>1, <3>2
    <3>3. CASE k \in 1 .. n
      BY <1>1, <1>9, <3>1, <3>3 DEF Rising
    <3> QED BY <1>9, <3>2, <3>3
  <2>2. \A k \in 1 .. n + 1 : accepted'[k] <= calls
    <3>1. \A k \in 1 .. n : accepted'[k] <= calls
      BY <1>9, <1>14
    <3> QED BY <1>9, <1>14, <3>1
  <2> QED BY <1>3, <1>9, <1>15, <2>1, <2>2 DEF Rising
<1>17. \A r \in Receivers : thread'[r].at = "release" =>
         /\ thread[r].at = "release" /\ thread'[r] = thread[r] /\ thread[r].slot \in Slots
  BY <1>1, <1>4, ThreadKinds, ThreadsTyped DEF Moves, Roles, Locals
<1>18. InOrder'
  <2>1. Len(accepted') = a + (m + 1)
    BY <1>9, <1>12, <1>13
  <2>2. \A k \in 1 .. a : answers[k].frame = accepted'[k]
    <3>1. \A k \in 1 .. a : k \in 1 .. n
      BY <1>9, <1>12, <1>13
    <3> QED BY <1>1, <1>9, <1>13, <3>1 DEF InOrder
  <2>3. \A k \in 1 .. m + 1 : slot'[Pipe'[k]].frame = accepted'[a + k]
    <3>1. ASSUME NEW k \in 1 .. m PROVE slot'[Pipe'[k]].frame = accepted'[a + k]
      <4>1. a + k \in 1 .. n
        BY <1>9, <1>12, <1>13
      <4>2. slot[Pipe[k]].frame = accepted[a + k]
        BY <1>1, <1>12 DEF InOrder, a
      <4> QED BY <1>6, <1>9, <1>12, <4>1, <4>2 DEF SameContents
    <3>2. slot'[Pipe'[m + 1]].frame = accepted'[a + (m + 1)]
      <4>1. a + (m + 1) = n + 1
        BY <1>9, <1>12, <1>13
      <4> QED BY <1>1, <1>6, <1>7, <1>9, <1>12, <4>1 DEF SameContents
    <3> QED BY <1>12, <3>1, <3>2
  <2>4. \A r \in Receivers : thread'[r].at = "release" =>
          thread'[r].took = [frame  |-> slot'[thread'[r].slot].frame,
                             failed |-> slot'[thread'[r].slot].failed]
    <3>1. \A r \in Receivers : thread[r].at = "release" =>
            thread[r].took = [frame  |-> slot[thread[r].slot].frame,
                              failed |-> slot[thread[r].slot].failed]
      BY <1>1 DEF InOrder
    <3> QED BY <1>6, <1>17, <3>1 DEF SameContents
  <2> QED BY <1>3, <1>12, <1>13, <1>15, <2>1, <2>2, <2>3, <2>4 DEF InOrder, a
<1>19. calls \notin broken
  <2>1. \A f \in broken : \E k \in 1 .. n : accepted[k] = f
    BY <1>1, <1>9 DEF Blamed
  <2> QED BY <1>14, <2>1
<1>20. Blamed'
  <2>1. \A f \in broken : \E k \in 1 .. n + 1 : accepted'[k] = f
    <3>1. \A k \in 1 .. n : k \in 1 .. n + 1
      BY <1>9
    <3> QED BY <1>1, <1>9, <3>1 DEF Blamed
  <2>2. \A k \in 1 .. m + 1 : slot'[Pipe'[k]].failed <=> slot'[Pipe'[k]].frame \in broken
    <3>1. ASSUME NEW k \in 1 .. m
          PROVE slot'[Pipe'[k]].failed <=> slot'[Pipe'[k]].frame \in broken
      BY <1>1, <1>6, <1>12 DEF Blamed, SameContents
    <3>2. slot'[Pipe'[m + 1]].failed <=> slot'[Pipe'[m + 1]].frame \in broken
      BY <1>1, <1>6, <1>7, <1>12, <1>19 DEF SameContents
    <3> QED BY <1>12, <3>1, <3>2
  <2> QED BY <1>1, <1>3, <1>9, <1>12, <1>15, <2>1, <2>2 DEF Blamed, FailuresAreOwn
<1> QED BY <1>1, <1>5, <1>10, <1>11, <1>16, <1>18, <1>20 DEF RoundInv, Whole, IsWhole

-----------------------------------------------------------------------------
(* The steps of the consumer *)

LEMMA TakePendingStep ==
  ASSUME RoundInv, TakePending
  PROVE  RoundInv'
<1>1. /\ PipelineTypeOK /\ Roles /\ Whole /\ Consumer \in Threads
      /\ Consumer \notin Receivers /\ Consumer \notin Producers
      /\ thread[Consumer].at = "idle" /\ thread[Consumer].slot = NoSlot
  BY ThreadKinds DEF RoundInv, TakePending, At, Roles
<1>2. UNCHANGED <<free, completed, stopping, calls, accepted, answers, broken>>
  BY DEF TakePending
<1>3. CASE Goes(Consumer, "exited", NoSlot) /\ UNCHANGED <<slot, pending, asleep>>
  <2>1. Moves(Consumer, "exited", NoSlot)
    BY <1>1, <1>3, GoesMoves DEF Places
  <2>2. Roles'
    BY <1>1, <2>1, MoveKeepsRoles DEF Places, NoSlotAt, ConsumerAt
  <2>3. PipelineTypeOK'
    BY <1>1, <1>2, <1>3, <2>1 DEF PipelineTypeOK, Moves, Locals, Places
  <2>4. \A t \in Threads : thread'[t].slot = thread[t].slot
    BY <1>1, <2>1 DEF Moves
  <2>5. Pipe' = Pipe /\ Round' = Round
    BY <1>2, <1>3, <2>4, StillTurns
  <2>6. SameContents /\ Whole'
    BY <1>1, <1>3, <2>5 DEF SameContents, Whole, IsWhole
  <2> QED BY <1>1, <1>2, <2>1, <2>2, <2>3, <2>5, <2>6, ThreadKinds, QuietStep DEF Moves
<1>4. CASE Sleeps(Consumer) /\ UNCHANGED pending
  <2>1. UNCHANGED <<slot, thread, pending>> /\ asleep' \subseteq Threads
    BY <1>1, <1>4 DEF Sleeps, PipelineTypeOK
  <2>2. PipelineTypeOK' /\ Roles'
    BY <1>1, <1>2, <2>1 DEF PipelineTypeOK, Roles
  <2>3. Pipe' = Pipe /\ Round' = Round
    BY <1>2, <2>1, StillTurns
  <2>4. SameContents /\ Whole'
    BY <1>1, <2>1, <2>3 DEF SameContents, Whole, IsWhole
  <2> QED BY <1>2, <2>1, <2>2, <2>3, <2>4, QuietStep
<1>5. CASE /\ pending # <<>> /\ pending' = Tail(pending)
           /\ InState(Head(pending), "processing")
           /\ Goes(Consumer, "decode", Head(pending)) /\ UNCHANGED asleep
  <2>1. Head(pending) \in Slots /\ Head(pending) # NoSlot /\ Tail(pending) \in Seq(Slots)
    BY <1>1, <1>5, HeadTail DEF PipelineTypeOK
  <2>2. Moves(Consumer, "decode", Head(pending))
    BY <1>1, <1>5, <2>1, GoesMoves DEF Places
  <2>3. Roles'
    BY <1>1, <2>1, <2>2, MoveKeepsRoles DEF Places, NoSlotAt, ConsumerAt
  <2>4. slot' \in [Slots -> Contents] /\ SameContents
    BY <1>1, <1>5, <2>1, StateKeepsContents DEF SlotStates
  <2>5. PipelineTypeOK'
    BY <1>1, <1>2, <1>5, <2>1, <2>2, <2>4 DEF PipelineTypeOK, Moves, Locals, Places, Contents
  <2>6. Pipe' = Pipe /\ Round' = Round
    BY <1>1, <1>2, <1>5, <2>2, TakeTurns
  <2>7. Whole'
    BY <1>1, <2>6 DEF Whole, IsWhole
  <2> QED BY <1>1, <1>2, <2>2, <2>3, <2>4, <2>5, <2>6, <2>7, ThreadKinds, QuietStep DEF Moves
<1> QED BY <1>3, <1>4, <1>5 DEF TakePending

\* The consumer that reports a finished frame keeps the invariant.
LEMMA FinishStep ==
  ASSUME RoundInv, Finish
  PROVE  RoundInv'
<1>1. /\ PipelineTypeOK /\ Roles /\ Whole /\ Consumer \in Threads
      /\ Consumer \notin Receivers /\ Consumer \notin Producers
      /\ thread[Consumer].at = "finish" /\ thread[Consumer].slot \in Slots
  BY ThreadKinds, ThreadsTyped DEF RoundInv, Finish, At, Roles, Locals
<1>2. /\ UNCHANGED <<free, pending, stopping, calls, accepted, answers, broken>>
      /\ completed' = Append(completed, thread[Consumer].slot)
      /\ completed' \in Seq(Slots) /\ asleep' \subseteq Threads
  <2>1. completed' = Append(completed, thread[Consumer].slot) /\ completed \in Seq(Slots)
    BY <1>1 DEF Finish, PushBack, PipelineTypeOK
  <2>2. asleep' \subseteq Threads
    BY <1>1, NotifyKeeps DEF Finish, PipelineTypeOK
  <2> QED BY <1>1, <2>1, <2>2 DEF Finish
<1>3. Moves(Consumer, "idle", NoSlot)
  BY <1>1, GoesMoves DEF Finish, Places
<1>4. Roles'
  BY <1>1, <1>3, MoveKeepsRoles DEF Places, NoSlotAt, ConsumerAt
<1>5. slot' \in [Slots -> Contents] /\ SameContents
  BY <1>1, StateKeepsContents DEF Finish, SlotStates
<1>6. PipelineTypeOK'
  BY <1>1, <1>2, <1>3, <1>5 DEF PipelineTypeOK, Moves, Locals, Places, Contents
<1>7. Pipe' = Pipe /\ Round' = Round
  BY <1>1, <1>2, <1>3, FinishTurns
<1>8. Whole'
  BY <1>1, <1>7 DEF Whole, IsWhole
<1> QED BY <1>1, <1>2, <1>3, <1>4, <1>5, <1>6, <1>7, <1>8, ThreadKinds, QuietStep DEF Moves

\* Every slot of the pipe has a frame of its own, and none already answered.
LEMMA FramesDiffer ==
  ASSUME PipelineTypeOK, Rising, InOrder
  PROVE  /\ \A k \in DOMAIN Pipe :
              \E n \in DOMAIN accepted : slot[Pipe[k]].frame = accepted[n]
         /\ \A j, k \in DOMAIN Pipe : slot[Pipe[j]].frame = slot[Pipe[k]].frame => j = k
         /\ \A j \in DOMAIN answers, k \in DOMAIN Pipe : answers[j].frame # slot[Pipe[k]].frame
         /\ \A k \in DOMAIN Pipe : slot[Pipe[k]].frame \in Frames
<1> DEFINE n == Len(accepted)
           a == Len(answers)
           m == Len(Pipe)
<1>1. /\ accepted \in Seq(Frames) /\ Pipe \in Seq(Slots)
      /\ answers \in Seq([frame : Frames, failed : BOOLEAN])
  BY RoundTyped DEF PipelineTypeOK
<1>2. /\ n \in Nat /\ a \in Nat /\ m \in Nat /\ n = a + m
      /\ DOMAIN accepted = 1 .. n /\ DOMAIN answers = 1 .. a /\ DOMAIN Pipe = 1 .. m
      /\ \A k \in 1 .. n : accepted[k] \in Frames
  BY <1>1 DEF InOrder
<1>3. /\ \A k \in 1 .. m : slot[Pipe[k]].frame = accepted[a + k]
      /\ \A k \in 1 .. a : answers[k].frame = accepted[k]
  BY <1>2 DEF InOrder
<1> HIDE DEF n, a, m
<1>4. \A j, k \in 1 .. n : accepted[j] = accepted[k] => j = k
  <2> SUFFICES ASSUME NEW j \in 1 .. n, NEW k \in 1 .. n, accepted[j] = accepted[k], j # k
               PROVE  FALSE
    OBVIOUS
  <2>1. Frames \subseteq Nat
    BY PipelineAssumption DEF Frames
  <2>2. accepted[j] \in Nat /\ accepted[k] \in Nat
    BY <1>2, <2>1
  <2>3. CASE j < k
    BY <1>2, <2>2, <2>3 DEF Rising
  <2>4. CASE k < j
    BY <1>2, <2>2, <2>4 DEF Rising
  <2> QED BY <1>2, <2>3, <2>4
<1>5. \A k \in 1 .. m : a + k \in 1 .. n
  BY <1>2
<1>6. \A k \in 1 .. a : k \in 1 .. n
  BY <1>2
<1>7. \A j, k \in 1 .. m : slot[Pipe[j]].frame = slot[Pipe[k]].frame => j = k
  <2> SUFFICES ASSUME NEW j \in 1 .. m, NEW k \in 1 .. m,
                      slot[Pipe[j]].frame = slot[Pipe[k]].frame
               PROVE  j = k
    OBVIOUS
  <2>1. a + j = a + k
    BY <1>3, <1>4, <1>5
  <2> QED BY <1>2, <2>1
<1>8. \A j \in 1 .. a, k \in 1 .. m : answers[j].frame # slot[Pipe[k]].frame
  <2> SUFFICES ASSUME NEW j \in 1 .. a, NEW k \in 1 .. m,
                      answers[j].frame = slot[Pipe[k]].frame
               PROVE  FALSE
    OBVIOUS
  <2>1. j = a + k
    BY <1>3, <1>4, <1>5, <1>6
  <2> QED BY <1>2, <2>1
<1> QED BY <1>2, <1>3, <1>5, <1>7, <1>8

\* The failure is kept in the slot of the frame that failed, and in no other.
LEMMA DecodeStep ==
  ASSUME RoundInv, Decode
  PROVE  RoundInv'
<1> DEFINE s == thread[Consumer].slot
           f == slot[s].frame
<1>1. /\ PipelineTypeOK /\ Roles /\ Whole /\ Rising /\ InOrder /\ Blamed
      /\ Consumer \in Threads /\ Consumer \notin Receivers /\ Consumer \notin Producers
      /\ thread[Consumer].at = "decode" /\ s \in Slots /\ s # NoSlot
  BY ThreadKinds, ThreadsTyped DEF RoundInv, Decode, At, Roles, Locals
<1>2. UNCHANGED <<free, pending, completed, stopping, asleep, calls, accepted, answers>>
  BY DEF Decode
<1>3. Moves(Consumer, "finish", s)
  BY <1>1, GoesMoves DEF Decode, Places
<1>4. Roles'
  BY <1>1, <1>3, MoveKeepsRoles DEF Places, NoSlotAt, ConsumerAt
<1>5. Pipe' = Pipe /\ Round' = Round
  <2>1. \A t \in Threads : thread'[t].slot = thread[t].slot
    BY <1>3 DEF Moves
  <2> QED BY <1>2, <2>1, StillTurns
<1>6. Whole'
  BY <1>1, <1>5 DEF Whole, IsWhole
<1>7. CASE slot' = slot /\ broken' = broken
  <2>1. PipelineTypeOK'
    BY <1>1, <1>2, <1>3, <1>7 DEF PipelineTypeOK, Moves, Locals, Places
  <2>2. SameContents
    BY <1>7 DEF SameContents
  <2> QED BY <1>1, <1>2, <1>3, <1>4, <1>5, <1>6, <1>7, <2>1, <2>2, ThreadKinds, QuietStep
          DEF Moves
<1>8. CASE slot' = [slot EXCEPT ![s].failed = TRUE] /\ broken' = broken \union {f}
  <2>1. /\ slot' \in [Slots -> Contents]
        /\ slot'[s].frame = f /\ slot'[s].failed
        /\ \A i \in Slots : i # s => slot'[i] = slot[i]
    <3>1. slot \in [Slots -> Contents]
      BY <1>1 DEF PipelineTypeOK, Contents
    <3>2. slot' = [slot EXCEPT ![s] = [slot[s] EXCEPT !.failed = TRUE]]
      BY <1>1, <1>8, <3>1 DEF Contents
    <3> DEFINE x == [slot[s] EXCEPT !.failed = TRUE]
    <3>3. x \in Contents /\ x.frame = f /\ x.failed
      BY <1>1, <3>1 DEF Contents
    <3> HIDE DEF x
    <3>4. slot' = [slot EXCEPT ![s] = x]
      BY <3>2 DEF x
    <3> HIDE DEF f
    <3> QED BY <1>1, <3>1, <3>3, <3>4
  <2> DEFINE c == Len(Decoded) + 1
  <2>2. c \in DOMAIN Pipe /\ Pipe[c] = s
    BY <1>1, InThePipe
  <2>3. f \in Frames /\ \E n \in DOMAIN accepted : f = accepted[n]
    BY <1>1, <2>2, FramesDiffer
  <2>4. \A k \in DOMAIN Pipe : Pipe[k] = s => k = c
    BY <1>1, <2>2, PipeDistinct
  <2>5. \A k \in DOMAIN Pipe : slot[Pipe[k]].frame = f => k = c
    BY <1>1, <2>2, FramesDiffer
  <2>6. \A k \in DOMAIN answers : answers[k].frame # f
    BY <1>1, <2>2, FramesDiffer
  <2>7. \A k \in DOMAIN Pipe : Pipe[k] \in Slots
    BY <1>1, RoundTyped
  <2>8. \A r \in Receivers : thread'[r].at = "release" =>
          /\ thread[r].at = "release" /\ thread'[r] = thread[r]
          /\ slot'[thread[r].slot] = slot[thread[r].slot]
    <3> SUFFICES ASSUME NEW r \in Receivers, thread'[r].at = "release"
                 PROVE  /\ thread[r].at = "release" /\ thread'[r] = thread[r]
                        /\ slot'[thread[r].slot] = slot[thread[r].slot]
      OBVIOUS
    <3>1. thread[r].at = "release" /\ thread'[r] = thread[r]
      BY <1>1, <1>3, ThreadKinds DEF Moves
    <3>2. thread[r].slot # NoSlot
      BY <1>1, <3>1, ThreadKinds DEF Roles
    <3>3. 1 \in DOMAIN Pipe /\ Pipe[1] = thread[r].slot /\ Len(Decoded) >= 1
      BY <1>1, <3>2, InThePipe
    <3>4. 1 # c
      BY <1>1, <3>3, RoundTyped
    <3> HIDE DEF c
    <3> QED BY <2>1, <2>4, <2>7, <3>1, <3>3, <3>4
  <2>9. \A p \in Producers : thread'[p].at = "queue" =>
          /\ thread[p].at = "queue" /\ thread'[p] = thread[p]
          /\ slot'[thread[p].slot] = slot[thread[p].slot]
    <3> SUFFICES ASSUME NEW p \in Producers, thread'[p].at = "queue"
                 PROVE  /\ thread[p].at = "queue" /\ thread'[p] = thread[p]
                        /\ slot'[thread[p].slot] = slot[thread[p].slot]
      OBVIOUS
    <3>1. thread[p].at = "queue" /\ thread'[p] = thread[p]
      BY <1>1, <1>3, ThreadKinds DEF Moves
    <3>2. thread[p].slot # NoSlot
      BY <1>1, <3>1, ThreadKinds DEF Roles
    <3>3. thread[p].slot \in Slots /\ thread[p].slot # s
      BY <1>1, <2>2, <3>2, OutsideThePipe
    <3> QED BY <2>1, <3>1, <3>3
  <2> HIDE DEF s, f, c
  <2>10. PipelineTypeOK'
    <3>1. broken' \subseteq Frames
      BY <1>1, <1>8, <2>3 DEF PipelineTypeOK
    <3> QED BY <1>1, <1>2, <1>3, <2>1, <3>1
            DEF PipelineTypeOK, Moves, Locals, Places, Contents
  <2>11. Rising'
    <3>1. \A p \in Producers : thread'[p] = thread[p]
      BY <1>1, <1>3, ThreadKinds DEF Moves
    <3> QED BY <1>1, <1>2, <3>1 DEF Rising
  <2>12. \A k \in DOMAIN Pipe : slot'[Pipe[k]].frame = slot[Pipe[k]].frame
    BY <2>1, <2>7 DEF f, s
  <2>13. InOrder'
    <3>1. \A k \in DOMAIN Pipe : slot'[Pipe[k]].frame = accepted[Len(answers) + k]
      BY <1>1, <2>12 DEF InOrder
    <3>2. \A p \in Producers : thread'[p].at = "queue" => slot'[thread'[p].slot].frame = calls
      BY <1>1, <2>9 DEF InOrder
    <3>3. \A r \in Receivers : thread'[r].at = "release" =>
            thread'[r].took = [frame  |-> slot'[thread'[r].slot].frame,
                               failed |-> slot'[thread'[r].slot].failed]
      BY <1>1, <2>8 DEF InOrder
    <3> QED BY <1>1, <1>2, <1>5, <3>1, <3>2, <3>3 DEF InOrder
  <2>14. Blamed'
    <3>1. \A g \in broken' : \E k \in DOMAIN accepted : accepted[k] = g
      BY <1>1, <1>8, <2>3 DEF Blamed
    <3>2. \A k \in DOMAIN Pipe : slot'[Pipe[k]].failed <=> slot'[Pipe[k]].frame \in broken'
      <4> SUFFICES ASSUME NEW k \in DOMAIN Pipe
                   PROVE  slot'[Pipe[k]].failed <=> slot'[Pipe[k]].frame \in broken'
        OBVIOUS
      <4>1. CASE k = c
        BY <1>8, <2>1, <2>2, <4>1
      <4>2. CASE k # c
        <5>1. slot'[Pipe[k]] = slot[Pipe[k]]
          BY <2>1, <2>4, <2>7, <4>2
        <5>2. slot[Pipe[k]].frame # f
          BY <2>5, <4>2
        <5>3. slot[Pipe[k]].failed <=> slot[Pipe[k]].frame \in broken
          BY <1>1 DEF Blamed
        <5>4. slot[Pipe[k]].frame \in broken' <=> slot[Pipe[k]].frame \in broken
          BY <1>8, <5>2
        <5> QED BY <5>1, <5>3, <5>4
      <4> QED BY <4>1, <4>2
    <3>3. \A p \in Producers : thread'[p].at = "queue" => ~slot'[thread'[p].slot].failed
      BY <1>1, <2>9 DEF Blamed
    <3>4. \A k \in DOMAIN answers : answers[k].failed <=> answers[k].frame \in broken'
      BY <1>1, <1>8, <2>6 DEF Blamed, FailuresAreOwn
    <3> QED BY <1>2, <1>5, <3>1, <3>2, <3>3, <3>4 DEF Blamed, FailuresAreOwn
  <2> QED BY <1>4, <1>6, <2>10, <2>11, <2>13, <2>14 DEF RoundInv
<1> QED BY <1>7, <1>8 DEF Decode

-----------------------------------------------------------------------------
(* The steps of a receiver *)

LEMMA BeginReceiveStep ==
  ASSUME RoundInv, NEW r \in Receivers, BeginReceive(r)
  PROVE  RoundInv'
<1>1. /\ PipelineTypeOK /\ Roles /\ Whole /\ r \in Threads /\ r \notin Producers
      /\ r # Consumer /\ \A q \in Receivers : thread[q].at = "idle"
      /\ thread[r].slot = NoSlot
  BY ThreadKinds DEF RoundInv, BeginReceive, Roles
<1>2. UNCHANGED <<slot, free, pending, completed, stopping, asleep, calls,
                  accepted, answers, broken>>
  BY DEF BeginReceive
<1>3. Moves(r, "pick", NoSlot)
  BY <1>1, GoesMoves DEF BeginReceive, Places
<1>4. Roles'
  BY <1>1, <1>3, MoveKeepsRoles DEF Places, NoSlotAt, ReceiverAt
<1>5. PipelineTypeOK'
  BY <1>1, <1>2, <1>3 DEF PipelineTypeOK, Moves, Locals, Places
<1>6. Pipe' = Pipe /\ Round' = Round
  <2>1. \A t \in Threads : thread'[t].slot = thread[t].slot
    BY <1>1, <1>3 DEF Moves
  <2> QED BY <1>2, <2>1, StillTurns
<1>7. SameContents /\ Whole'
  BY <1>1, <1>2, <1>6 DEF SameContents, Whole, IsWhole
<1> QED BY <1>1, <1>2, <1>3, <1>4, <1>5, <1>6, <1>7, ThreadKinds, QuietStep DEF Moves

\* A receiver that takes a finished slot keeps the invariant.
LEMMA PickResultStep ==
  ASSUME RoundInv, NEW r \in Receivers, PickResult(r)
  PROVE  RoundInv'
<1>1. /\ PipelineTypeOK /\ Roles /\ Whole /\ r \in Threads /\ r \notin Producers
      /\ r # Consumer /\ thread[r].at = "pick" /\ thread[r].slot = NoSlot
  BY ThreadKinds DEF RoundInv, PickResult, At, Roles
<1>2. \A q \in Receivers : q # r => thread[q].at = "idle"
  BY <1>1, OthersIdle
<1>3. UNCHANGED <<free, pending, stopping, calls, accepted, answers, broken>>
  BY DEF PickResult
<1>4. CASE Goes(r, "idle", NoSlot) /\ UNCHANGED <<completed, asleep, slot>>
  <2>1. Moves(r, "idle", NoSlot)
    BY <1>1, <1>4, GoesMoves DEF Places
  <2>2. Roles'
    BY <1>1, <1>2, <2>1, MoveKeepsRoles DEF Places, NoSlotAt, ReceiverAt
  <2>3. PipelineTypeOK'
    BY <1>1, <1>3, <1>4, <2>1 DEF PipelineTypeOK, Moves, Locals, Places
  <2>4. \A t \in Threads : thread'[t].slot = thread[t].slot
    BY <1>1, <2>1 DEF Moves
  <2>5. Pipe' = Pipe /\ Round' = Round
    BY <1>3, <1>4, <2>4, StillTurns
  <2>6. SameContents /\ Whole'
    BY <1>1, <1>4, <2>5 DEF SameContents, Whole, IsWhole
  <2> QED BY <1>1, <1>3, <2>1, <2>2, <2>3, <2>5, <2>6, ThreadKinds, QuietStep DEF Moves
<1>5. CASE Sleeps(r) /\ UNCHANGED completed
  <2>1. UNCHANGED <<slot, thread, completed>> /\ asleep' \subseteq Threads
    BY <1>1, <1>5 DEF Sleeps, PipelineTypeOK
  <2>2. PipelineTypeOK' /\ Roles'
    BY <1>1, <1>3, <2>1 DEF PipelineTypeOK, Roles
  <2>3. Pipe' = Pipe /\ Round' = Round
    BY <1>3, <2>1, StillTurns
  <2>4. SameContents /\ Whole'
    BY <1>1, <2>1, <2>3 DEF SameContents, Whole, IsWhole
  <2> QED BY <1>3, <2>1, <2>2, <2>3, <2>4, QuietStep
<1>6. CASE /\ completed # <<>> /\ completed' = Tail(completed)
           /\ Goes(r, "move", Head(completed)) /\ UNCHANGED <<asleep, slot>>
  <2>1. Head(completed) \in Slots /\ Head(completed) # NoSlot /\ Tail(completed) \in Seq(Slots)
    BY <1>1, <1>6, HeadTail DEF PipelineTypeOK
  <2>2. Moves(r, "move", Head(completed))
    BY <1>1, <1>6, <2>1, GoesMoves DEF Places
  <2>3. Roles'
    BY <1>1, <1>2, <2>1, <2>2, MoveKeepsRoles DEF Places, NoSlotAt, ReceiverAt
  <2>4. PipelineTypeOK'
    BY <1>1, <1>3, <1>6, <2>1, <2>2 DEF PipelineTypeOK, Moves, Locals, Places
  <2>5. Pipe' = Pipe /\ Round' = Round
    BY <1>1, <1>3, <1>6, <2>2, PickTurns
  <2>6. SameContents /\ Whole'
    BY <1>1, <1>6, <2>5 DEF SameContents, Whole, IsWhole
  <2> QED BY <1>1, <1>3, <2>2, <2>3, <2>4, <2>5, <2>6, ThreadKinds, QuietStep DEF Moves
<1> QED BY <1>4, <1>5, <1>6 DEF PickResult

\* A receiver that moves the result out keeps the invariant.
LEMMA MoveResultStep ==
  ASSUME RoundInv, NEW r \in Receivers, MoveResult(r)
  PROVE  RoundInv'
<1> DEFINE s == thread[r].slot
           result == [frame |-> slot[s].frame, failed |-> slot[s].failed]
<1>1. /\ PipelineTypeOK /\ Roles /\ Whole /\ Rising /\ InOrder /\ Blamed
      /\ r \in Threads /\ r \notin Producers
      /\ r # Consumer /\ thread[r].at = "move" /\ s \in Slots /\ s # NoSlot
  BY ThreadKinds, ThreadsTyped DEF RoundInv, MoveResult, At, Roles, Locals
<1>2. \A q \in Receivers : q # r => thread[q].at = "idle"
  BY <1>1, OthersIdle
<1>3. UNCHANGED <<slot, free, pending, completed, stopping, asleep, calls,
                  accepted, answers, broken>>
  BY DEF MoveResult
<1>4. Moves(r, "release", s) /\ thread'[r].took = result
  <2>1. thread \in [Threads -> Locals]
    BY <1>1, ThreadsTyped
  <2>2. thread' = [thread EXCEPT ![r] = [thread[r] EXCEPT !.at = "release", !.took = result]]
    BY <1>1, <2>1 DEF MoveResult, Locals
  <2>3. result \in Outcomes
    BY <1>1 DEF PipelineTypeOK, Outcomes
  <2> DEFINE x == [thread[r] EXCEPT !.at = "release", !.took = result]
  <2>4. x \in Locals /\ x.at = "release" /\ x.slot = s /\ x.took = result
    <3> HIDE DEF result
    <3> QED BY <1>1, <2>1, <2>3 DEF Locals, Places
  <2> HIDE DEF x
  <2>5. thread' = [thread EXCEPT ![r] = x]
    BY <2>2 DEF x
  <2> HIDE DEF s, result
  <2> QED BY <1>1, <2>1, <2>4, <2>5 DEF Moves
<1>5. Roles'
  BY <1>1, <1>2, <1>4, MoveKeepsRoles DEF Places, NoSlotAt, ReceiverAt
<1>6. PipelineTypeOK'
  BY <1>1, <1>3, <1>4 DEF PipelineTypeOK, Moves, Locals, Places
<1>7. Pipe' = Pipe /\ Round' = Round
  <2>1. \A t \in Threads : thread'[t].slot = thread[t].slot
    BY <1>1, <1>4 DEF Moves
  <2> QED BY <1>3, <2>1, StillTurns
<1>8. \A p \in Producers : thread'[p] = thread[p]
  BY <1>1, <1>4, ThreadKinds DEF Moves
<1>9. Rising' /\ Blamed'
  BY <1>1, <1>3, <1>7, <1>8 DEF Rising, Blamed, FailuresAreOwn
<1>10. InOrder'
  <2>1. \A q \in Receivers : thread'[q].at = "release" =>
          thread'[q].took = [frame  |-> slot[thread'[q].slot].frame,
                             failed |-> slot[thread'[q].slot].failed]
    BY <1>2, <1>4, ThreadKinds DEF Moves
  <2> QED BY <1>1, <1>3, <1>7, <1>8, <2>1 DEF InOrder
<1> QED BY <1>1, <1>5, <1>6, <1>7, <1>9, <1>10 DEF RoundInv, Whole, IsWhole

\* The frame answered is the oldest of those accepted and not answered.
LEMMA AnswerIsNext ==
  ASSUME RoundInv, NEW r \in Receivers, thread[r].at = "release"
  PROVE  /\ thread[r].took \in [frame : Frames, failed : BOOLEAN]
         /\ Len(answers) + 1 \in DOMAIN accepted
         /\ thread[r].took.frame = accepted[Len(answers) + 1]
         /\ thread[r].took.failed <=> thread[r].took.frame \in broken
<1>1. /\ PipelineTypeOK /\ Roles /\ Rising /\ InOrder /\ Blamed
      /\ thread[r].slot # NoSlot /\ thread[r] \in Locals
  BY ThreadKinds, ThreadsTyped DEF RoundInv, Roles
<1>2. 1 \in DOMAIN Pipe /\ Pipe[1] = thread[r].slot
  BY <1>1, InThePipe
<1>3. /\ accepted \in Seq(Frames) /\ Pipe \in Seq(Slots)
      /\ answers \in Seq([frame : Frames, failed : BOOLEAN])
  BY <1>1, RoundTyped DEF PipelineTypeOK
<1>4. thread[r].took = [frame  |-> slot[thread[r].slot].frame,
                        failed |-> slot[thread[r].slot].failed]
  BY <1>1 DEF InOrder
<1>5. thread[r].took.frame = accepted[Len(answers) + 1]
  BY <1>1, <1>2, <1>4 DEF InOrder
<1>6. Len(answers) + 1 \in DOMAIN accepted
  BY <1>1, <1>2, <1>3 DEF InOrder
<1>7. thread[r].took.frame \in Frames
  BY <1>3, <1>5, <1>6
<1>8. thread[r].took \in Outcomes
  BY <1>1 DEF Locals
<1>9. thread[r].took \in [frame : Frames, failed : BOOLEAN]
  BY <1>7, <1>8 DEF Outcomes
<1>10. slot[Pipe[1]].failed <=> slot[Pipe[1]].frame \in broken
  BY <1>1, <1>2 DEF Blamed
<1>11. thread[r].took.failed <=> thread[r].took.frame \in broken
  BY <1>2, <1>4, <1>10
<1> QED BY <1>5, <1>6, <1>9, <1>11

\* A receiver that frees its slot keeps the invariant.
LEMMA ReleaseSlotStep ==
  ASSUME RoundInv, NEW r \in Receivers, ReleaseSlot(r)
  PROVE  RoundInv'
<1> DEFINE s == thread[r].slot
<1>1. /\ PipelineTypeOK /\ Roles /\ Whole /\ Rising /\ InOrder /\ Blamed
      /\ r \in Threads /\ r \notin Producers
      /\ r # Consumer /\ thread[r].at = "release" /\ s \in Slots
  BY ThreadKinds, ThreadsTyped DEF RoundInv, ReleaseSlot, At, Roles, Locals
<1>2. \A q \in Receivers : q # r => thread[q].at = "idle"
  BY <1>1, OthersIdle
<1>3. /\ UNCHANGED <<pending, completed, stopping, calls, accepted, broken>>
      /\ free' = Append(free, s) /\ free' \in Seq(Slots)
      /\ asleep' \subseteq Threads
  <2>1. free' = Append(free, s) /\ free \in Seq(Slots)
    BY <1>1 DEF ReleaseSlot, PushBack, PipelineTypeOK
  <2>2. asleep' \subseteq Threads
    BY <1>1, NotifyKeeps DEF ReleaseSlot, PipelineTypeOK
  <2> QED BY <1>1, <2>1, <2>2 DEF ReleaseSlot
<1>4. Moves(r, "idle", NoSlot)
  BY <1>1, GoesMoves DEF ReleaseSlot, Places
<1>5. Roles'
  BY <1>1, <1>2, <1>4, MoveKeepsRoles DEF Places, NoSlotAt, ReceiverAt
<1>6. slot' \in [Slots -> Contents] /\ SameContents
  BY <1>1, StateKeepsContents DEF ReleaseSlot, SlotStates
<1> DEFINE took == thread[r].took
           a == Len(answers)
           m == Len(Pipe')
<1>7. /\ took \in [frame : Frames, failed : BOOLEAN] /\ took.frame = accepted[a + 1]
      /\ took.failed <=> took.frame \in broken
  BY <1>1, AnswerIsNext
<1>8. /\ answers' = Append(answers, took)
      /\ answers \in Seq([frame : Frames, failed : BOOLEAN])
  BY <1>1 DEF ReleaseSlot, PipelineTypeOK
<1>9. /\ answers' \in Seq([frame : Frames, failed : BOOLEAN])
      /\ Len(answers') = a + 1 /\ a \in Nat
      /\ DOMAIN answers = 1 .. a /\ DOMAIN answers' = 1 .. a + 1
      /\ \A k \in 1 .. a : answers'[k] = answers[k]
      /\ answers'[a + 1] = took
  <2> HIDE DEF took
  <2> QED BY <1>7, <1>8, AppendedTo
<1>10. PipelineTypeOK'
  BY <1>1, <1>3, <1>4, <1>6, <1>9 DEF PipelineTypeOK, Moves, Locals, Places, Contents
<1>11. Pipe' \in Seq(Slots) /\ Pipe = <<s>> \o Pipe' /\ Whole'
  BY <1>1, <1>3, <1>4, ReleaseTurns
<1>12. /\ Len(Pipe) = 1 + m /\ m \in Nat /\ DOMAIN Pipe = 1 .. 1 + m /\ DOMAIN Pipe' = 1 .. m
       /\ \A k \in 1 .. m : Pipe[1 + k] = Pipe'[k] /\ Pipe'[k] \in Slots
  <2>1. <<s>> \in Seq(Slots) /\ Len(<<s>>) = 1
    BY <1>1
  <2>2. \A k \in 1 .. m : Pipe'[k] \in Slots
    BY <1>11
  <2> QED BY <1>11, <2>1, <2>2, Joined
<1>13. Len(accepted) = a + (1 + m)
  BY <1>1, <1>12 DEF InOrder
<1> HIDE DEF took, a, m
<1>14. \A p \in Producers : thread'[p] = thread[p]
  BY <1>1, <1>4, ThreadKinds DEF Moves
<1>15. \A q \in Receivers : thread'[q].at # "release"
  BY <1>2, <1>4, ThreadKinds DEF Moves
<1>16. \A p \in Producers : thread[p].at = "queue" => thread[p].slot \in Slots
  BY <1>1, ThreadKinds, ThreadsTyped DEF Roles, Locals
<1>17. Rising'
  BY <1>1, <1>3, <1>14 DEF Rising
<1>18. InOrder'
  <2>1. Len(accepted) = (a + 1) + m
    BY <1>9, <1>12, <1>13
  <2>2. \A k \in 1 .. a + 1 : answers'[k].frame = accepted[k]
    <3>1. \A k \in 1 .. a : answers'[k].frame = accepted[k]
      BY <1>1, <1>9 DEF InOrder
    <3> QED BY <1>7, <1>9, <3>1
  <2>3. \A k \in 1 .. m : slot'[Pipe'[k]].frame = accepted[(a + 1) + k]
    <3> SUFFICES ASSUME NEW k \in 1 .. m
                 PROVE  slot'[Pipe'[k]].frame = accepted[(a + 1) + k]
      OBVIOUS
    <3>1. 1 + k \in 1 .. 1 + m /\ a + (1 + k) = (a + 1) + k
      BY <1>9, <1>12
    <3>2. slot[Pipe[1 + k]].frame = accepted[a + (1 + k)]
      BY <1>1, <1>12, <3>1 DEF InOrder, a
    <3> QED BY <1>6, <1>12, <3>1, <3>2 DEF SameContents
  <2>4. \A p \in Producers : thread'[p].at = "queue" => slot'[thread'[p].slot].frame = calls
    BY <1>1, <1>6, <1>14, <1>16 DEF InOrder, SameContents
  <2> QED BY <1>3, <1>9, <1>12, <1>15, <2>1, <2>2, <2>3, <2>4 DEF InOrder, m
<1>19. Blamed'
  <2>1. \A k \in 1 .. m : slot'[Pipe'[k]].failed <=> slot'[Pipe'[k]].frame \in broken
    <3> SUFFICES ASSUME NEW k \in 1 .. m
                 PROVE  slot'[Pipe'[k]].failed <=> slot'[Pipe'[k]].frame \in broken
      OBVIOUS
    <3>1. 1 + k \in 1 .. 1 + m
      BY <1>12
    <3>2. slot[Pipe[1 + k]].failed <=> slot[Pipe[1 + k]].frame \in broken
      BY <1>1, <1>12, <3>1 DEF Blamed
    <3> QED BY <1>6, <1>12, <3>2 DEF SameContents
  <2>2. \A p \in Producers : thread'[p].at = "queue" => ~slot'[thread'[p].slot].failed
    BY <1>1, <1>6, <1>14, <1>16 DEF Blamed, SameContents
  <2>3. \A k \in 1 .. a + 1 : answers'[k].failed <=> answers'[k].frame \in broken
    <3>1. \A k \in 1 .. a : answers'[k].failed <=> answers'[k].frame \in broken
      BY <1>1, <1>9 DEF Blamed, FailuresAreOwn
    <3> QED BY <1>7, <1>9, <3>1
  <2> QED BY <1>1, <1>3, <1>9, <1>12, <2>1, <2>2, <2>3 DEF Blamed, FailuresAreOwn
<1> QED BY <1>5, <1>10, <1>11, <1>17, <1>18, <1>19 DEF RoundInv

\* The destructor's flag, and a stutter, keep the invariant.
LEMMA StopStep ==
  ASSUME RoundInv, Stop \/ UNCHANGED vars
  PROVE  RoundInv'
<1>1. /\ UNCHANGED <<slot, free, pending, completed, thread, calls, accepted, answers, broken>>
      /\ stopping' \in BOOLEAN /\ asleep' \subseteq Threads
  BY DEF Stop, NotifyAll, vars, RoundInv, PipelineTypeOK
<1>2. PipelineTypeOK' /\ Roles'
  BY <1>1 DEF RoundInv, PipelineTypeOK, Roles
<1>3. Pipe' = Pipe /\ Round' = Round
  BY <1>1, StillTurns
<1>4. SameContents /\ Whole'
  BY <1>1, <1>3 DEF SameContents, Whole, IsWhole, RoundInv
<1> QED BY <1>1, <1>2, <1>3, <1>4, QuietStep

-----------------------------------------------------------------------------
(* The invariant holds of the specification *)

LEMMA RoundStep == RoundInv /\ [Next]_vars => RoundInv'
<1> SUFFICES ASSUME RoundInv, [Next]_vars PROVE RoundInv'
  OBVIOUS
<1>1. CASE \E p \in Producers : BeginSubmit(p)
  BY <1>1, BeginSubmitStep
<1>2. CASE \E p \in Producers : Submitting(p)
  BY <1>2, AcquireSlotStep, PrepareStep, AbortStep, QueueFrameStep DEF Submitting
<1>3. CASE Consuming
  BY <1>3, TakePendingStep, DecodeStep, FinishStep DEF Consuming
<1>4. CASE \E r \in Receivers : BeginReceive(r)
  BY <1>4, BeginReceiveStep
<1>5. CASE \E r \in Receivers : Receiving(r)
  BY <1>5, PickResultStep, MoveResultStep, ReleaseSlotStep DEF Receiving
<1>6. CASE Stop \/ UNCHANGED vars
  BY <1>6, StopStep
<1> QED BY <1>1, <1>2, <1>3, <1>4, <1>5, <1>6 DEF Next

\* At every moment the slots go round as one sequence, the oldest frame first:
\* the mutexes of dynamic_link_pipeline.cpp let no slot be lost, handed out
\* twice or overtaken, however many threads submit and receive.
THEOREM RoundInvariant == Spec => []RoundInv
BY RoundInit, RoundStep, PTL DEF Spec

-----------------------------------------------------------------------------
(* A slot is in one place *)

\* Where slot i stands in a list: nowhere, or at one place.
Spots(list, i) == {k \in DOMAIN list : list[k] = i}
AtMostOnce(list, i) == Spots(list, i) = {} \/ \E k \in DOMAIN list : Spots(list, i) = {k}

\* Counting a slot that a list holds at most once.
LEMMA SpotsCounted ==
  ASSUME NEW list, NEW i, AtMostOnce(list, i)
  PROVE  /\ Times(list, i) \in {0, 1}
         /\ Times(list, i) = 1 <=> \E k \in DOMAIN list : list[k] = i
<1>1. Times(list, i) = Cardinality(Spots(list, i))
  BY DEF Times, Spots
<1>2. CASE Spots(list, i) = {}
  <2>1. Times(list, i) = 0
    BY <1>1, <1>2, FS_EmptySet
  <2> QED BY <1>2, <2>1 DEF Spots
<1>3. CASE \E k \in DOMAIN list : Spots(list, i) = {k}
  <2>1. Times(list, i) = 1
    BY <1>1, <1>3, FS_Singleton
  <2> QED BY <1>3, <2>1 DEF Spots
<1> QED BY <1>2, <1>3 DEF AtMostOnce

\* A slot that stands once in a list stands once in one of its two parts.
LEMMA SpotsSplit ==
  ASSUME NEW a \in Seq(Slots), NEW b \in Seq(Slots), NEW i, AtMostOnce(a \o b, i)
  PROVE  /\ AtMostOnce(a, i) /\ AtMostOnce(b, i)
         /\ Times(a \o b, i) = Times(a, i) + Times(b, i)
<1> DEFINE c == a \o b
           n == Len(a)
           m == Len(b)
<1>1. /\ n \in Nat /\ m \in Nat
      /\ DOMAIN a = 1 .. n /\ DOMAIN b = 1 .. m /\ DOMAIN c = 1 .. n + m
      /\ \A k \in 1 .. n : c[k] = a[k]
      /\ \A k \in 1 .. m : c[n + k] = b[k]
  BY Joined
<1>2. AtMostOnce(c, i)
  OBVIOUS
<1> HIDE DEF c, n, m
<1>3. \A j, k \in 1 .. n + m : c[j] = i /\ c[k] = i => j = k
  <2> SUFFICES ASSUME NEW j \in DOMAIN c, NEW k \in DOMAIN c, c[j] = i, c[k] = i
               PROVE  j = k
    BY <1>1
  <2>1. j \in Spots(c, i) /\ k \in Spots(c, i)
    BY DEF Spots
  <2> QED BY <1>2, <2>1 DEF AtMostOnce
<1>4. \A j \in 1 .. n, k \in 1 .. m : j \in 1 .. n + m /\ n + k \in 1 .. n + m /\ j # n + k
  BY <1>1
<1>5. \A j \in 1 .. n : j \in 1 .. n + m
  BY <1>1
<1>6. \A k \in 1 .. m : n + k \in 1 .. n + m
  BY <1>1
<1>7. AtMostOnce(a, i)
  <2>1. \A j, k \in 1 .. n : a[j] = i /\ a[k] = i => j = k
    BY <1>1, <1>3, <1>5
  <2> QED BY <1>1, <2>1 DEF AtMostOnce, Spots
<1>8. AtMostOnce(b, i)
  <2>1. \A j, k \in 1 .. m : b[j] = i /\ b[k] = i => n + j = n + k
    BY <1>1, <1>3, <1>6
  <2>2. \A j, k \in 1 .. m : n + j = n + k => j = k
    BY <1>1
  <2> QED BY <1>1, <2>1, <2>2 DEF AtMostOnce, Spots
<1>9. ~((\E j \in 1 .. n : a[j] = i) /\ (\E k \in 1 .. m : b[k] = i))
  BY <1>1, <1>3, <1>4
<1>10. (\E k \in 1 .. n + m : c[k] = i)
         <=> (\E j \in 1 .. n : a[j] = i) \/ (\E k \in 1 .. m : b[k] = i)
  <2>1. ASSUME NEW k \in 1 .. n + m, c[k] = i
        PROVE  (\E j \in 1 .. n : a[j] = i) \/ (\E j \in 1 .. m : b[j] = i)
    <3>1. CASE k \in 1 .. n
      BY <1>1, <2>1, <3>1
    <3>2. CASE k \notin 1 .. n
      <4>1. k - n \in 1 .. m /\ n + (k - n) = k
        BY <1>1, <3>2
      <4>2. c[n + (k - n)] = b[k - n]
        BY <1>1, <4>1
      <4> QED BY <2>1, <4>1, <4>2
    <3> QED BY <3>1, <3>2
  <2> QED BY <1>1, <1>5, <1>6, <2>1
<1>11. /\ Times(a, i) \in {0, 1} /\ (Times(a, i) = 1 <=> \E j \in 1 .. n : a[j] = i)
       /\ Times(b, i) \in {0, 1} /\ (Times(b, i) = 1 <=> \E j \in 1 .. m : b[j] = i)
       /\ Times(c, i) \in {0, 1} /\ (Times(c, i) = 1 <=> \E j \in 1 .. n + m : c[j] = i)
  BY <1>1, <1>2, <1>7, <1>8, SpotsCounted
<1>12. Times(c, i) = Times(a, i) + Times(b, i)
  BY <1>9, <1>10, <1>11
<1> QED BY <1>7, <1>8, <1>12 DEF c

\* The round has each slot once, and so each slot is in one place.
LEMMA InOnePlace == RoundInv => SlotIsInOnePlace
<1> SUFFICES ASSUME RoundInv, NEW i \in Slots
             PROVE  Times(free, i) + Times(pending, i) + Times(completed, i)
                      + Cardinality(Holders(i)) = 1
  BY DEF SlotIsInOnePlace
<1> DEFINE hp == HeldBy(thread, Producers)
           hc == HeldBy(thread, {Consumer})
           hr == HeldBy(thread, Receivers)
<1>1. PipelineTypeOK /\ Roles /\ Whole
  BY DEF RoundInv
<1>2. /\ hp \in Seq(Slots) /\ hc \in Seq(Slots) /\ hr \in Seq(Slots)
      /\ Decoded \in Seq(Slots) /\ Waiting \in Seq(Slots) /\ Open \in Seq(Slots)
      /\ Pipe \in Seq(Slots) /\ Round \in Seq(Slots)
      /\ free \in Seq(Slots) /\ pending \in Seq(Slots) /\ completed \in Seq(Slots)
  BY <1>1, RoundTyped DEF PipelineTypeOK
<1>3. AtMostOnce(Round, i) /\ Times(Round, i) = 1
  <2>1. (\E k \in DOMAIN Round : Round[k] = i)
        /\ \A j, k \in DOMAIN Round : Round[j] = i /\ Round[k] = i => j = k
    BY <1>1 DEF Whole, IsWhole
  <2>2. AtMostOnce(Round, i)
    BY <2>1 DEF AtMostOnce, Spots
  <2> QED BY <2>1, <2>2, SpotsCounted
<1>4. /\ AtMostOnce(Pipe, i) /\ AtMostOnce(Open, i)
      /\ Times(Pipe, i) + Times(Open, i) = 1
  BY <1>2, <1>3, SpotsSplit DEF Round
<1>5. /\ AtMostOnce(Decoded, i) /\ AtMostOnce(Waiting, i)
      /\ Times(Pipe, i) = Times(Decoded, i) + Times(Waiting, i)
  BY <1>2, <1>4, SpotsSplit DEF Pipe
<1> HIDE DEF hp, hc, hr
<1>6. /\ AtMostOnce(hp, i) /\ Times(Open, i) = Times(hp, i) + Times(free, i)
      /\ AtMostOnce(free, i)
  BY <1>2, <1>4, SpotsSplit DEF Open, hp
<1>7. /\ AtMostOnce(hr, i) /\ Times(Decoded, i) = Times(hr, i) + Times(completed, i)
      /\ AtMostOnce(completed, i)
  BY <1>2, <1>5, SpotsSplit DEF Decoded, hr
<1>8. /\ AtMostOnce(hc, i) /\ Times(Waiting, i) = Times(hc, i) + Times(pending, i)
      /\ AtMostOnce(pending, i)
  BY <1>2, <1>5, SpotsSplit DEF Waiting, hc
<1>9. /\ Times(hp, i) \in {0, 1} /\ Times(hc, i) \in {0, 1} /\ Times(hr, i) \in {0, 1}
      /\ Times(free, i) \in {0, 1} /\ Times(pending, i) \in {0, 1}
      /\ Times(completed, i) \in {0, 1}
  BY <1>6, <1>7, <1>8, SpotsCounted
<1>10. i # NoSlot
  BY PipelineAssumption DEF Slots, NoSlot
\* A thread that holds the slot has it in the sequence of its kind, alone.
<1>11. /\ \A p \in Producers : thread[p].slot = i => Times(hp, i) = 1
       /\ \A r \in Receivers : thread[r].slot = i => Times(hr, i) = 1
       /\ thread[Consumer].slot = i => Times(hc, i) = 1
  <2>1. \A s : s = i => 1 \in DOMAIN <<s>> /\ <<s>>[1] = i
    OBVIOUS
  <2>2. \A p \in Producers : thread[p].slot = i => \E k \in DOMAIN hp : hp[k] = i
    BY <1>1, <1>10, <2>1, HeldNow DEF hp
  <2>3. \A r \in Receivers : thread[r].slot = i => \E k \in DOMAIN hr : hr[k] = i
    BY <1>1, <1>10, <2>1, HeldNow DEF hr
  <2>4. thread[Consumer].slot = i => \E k \in DOMAIN hc : hc[k] = i
    BY <1>1, <1>10, <2>1, HeldNow DEF hc
  <2> QED BY <1>6, <1>7, <1>8, <2>2, <2>3, <2>4, SpotsCounted
<1>12. /\ Times(hp, i) = 1 => \E p \in Producers : thread[p].slot = i
       /\ Times(hr, i) = 1 => \E r \in Receivers : thread[r].slot = i
       /\ Times(hc, i) = 1 => thread[Consumer].slot = i
  <2>1. \A ts : (\E k \in DOMAIN HeldBy(thread, ts) : HeldBy(thread, ts)[k] = i)
                  => \E t \in ts : thread[t].slot = i
    <3> SUFFICES ASSUME NEW ts, NEW k \in DOMAIN HeldBy(thread, ts),
                        HeldBy(thread, ts)[k] = i
                 PROVE  i \in Holding(thread, ts)
      BY DEF Holding
    <3>1. Holding(thread, ts) # {}
      BY DEF HeldBy
    <3> QED BY <3>1 DEF HeldBy
  <2> QED BY <1>6, <1>7, <1>8, <2>1, SpotsCounted DEF hp, hr, hc
<1>13. \A t, u \in Threads : thread[t].slot = i /\ thread[u].slot = i => t = u
  <2>1. Times(hp, i) + Times(hc, i) + Times(hr, i) <= 1
    BY <1>4, <1>5, <1>6, <1>7, <1>8, <1>9
  <2>2. \A p, q \in Producers : thread[p].slot = i /\ thread[q].slot = i => p = q
    BY <1>1, <1>10, ThreadKinds DEF Roles
  <2>3. \A p, q \in Receivers : thread[p].slot = i /\ thread[q].slot = i => p = q
    BY <1>1, <1>10, ThreadKinds DEF Roles
  <2> QED BY <1>9, <1>11, <2>1, <2>2, <2>3 DEF Threads
<1>14. Cardinality(Holders(i)) = Times(hp, i) + Times(hc, i) + Times(hr, i)
  <2>1. CASE \E t \in Threads : thread[t].slot = i
    <3>1. PICK t \in Threads : thread[t].slot = i
      BY <2>1
    <3>2. Holders(i) = {t}
      BY <1>13, <3>1 DEF Holders
    <3>3. Cardinality(Holders(i)) = 1
      BY <3>2, FS_Singleton
    <3>4. Times(hp, i) + Times(hc, i) + Times(hr, i) = 1
      BY <1>4, <1>5, <1>6, <1>7, <1>8, <1>9, <1>11, <3>1 DEF Threads
    <3> QED BY <3>3, <3>4
  <2>2. CASE ~ \E t \in Threads : thread[t].slot = i
    <3>1. Holders(i) = {}
      BY <2>2 DEF Holders
    <3>2. Cardinality(Holders(i)) = 0
      BY <3>1, FS_EmptySet
    <3>3. Times(hp, i) = 0 /\ Times(hc, i) = 0 /\ Times(hr, i) = 0
      BY <1>9, <1>12, <2>2, ThreadKinds
    <3> QED BY <3>2, <3>3
  <2> QED BY <2>1, <2>2
<1> QED BY <1>4, <1>5, <1>6, <1>7, <1>8, <1>9, <1>14

\* Every slot is in one list or with one thread, and receive() throws for the
\* frames whose decoding threw and no others (dynamic_link_pipeline.cpp).
THEOREM PipelineSound == Spec => []PipelineInv
<1>1. RoundInv => PipelineInv
  BY InOnePlace DEF RoundInv, Blamed, PipelineInv
<1> QED BY <1>1, RoundInvariant, PTL

-----------------------------------------------------------------------------
(* The pipeline implements the queue *)

LEMMA QueueStarts == Init => Queue!Init
BY DEF Init, Queue!Init

\* Only two steps are seen from outside: a frame is queued, a slot is released.
LEMMA QueueFollows ==
  RoundInv /\ [Next]_vars => [Queue!Accept \/ Queue!Answer]_<<accepted, answers>>
<1> SUFFICES ASSUME RoundInv, [Next]_vars
             PROVE  Queue!Accept \/ Queue!Answer \/ UNCHANGED <<accepted, answers>>
  OBVIOUS
<1>1. ASSUME NEW p \in Producers, QueueFrame(p) PROVE Queue!Accept
  <2>1. /\ PipelineTypeOK /\ Roles /\ Whole /\ Rising /\ InOrder
        /\ thread[p].at = "queue" /\ thread[p].slot # NoSlot
    BY <1>1, ThreadKinds DEF RoundInv, QueueFrame, At, Roles
  <2>2. Len(accepted) - Len(answers) < SlotCount
    <3>1. Len(Pipe) < SlotCount
      BY <2>1, OutsideThePipe
    <3>2. accepted \in Seq(Frames) /\ answers \in Seq([frame : Frames, failed : BOOLEAN])
          /\ Pipe \in Seq(Slots)
      BY <2>1, RoundTyped DEF PipelineTypeOK
    <3>3. Len(accepted) = Len(answers) + Len(Pipe)
      BY <2>1 DEF InOrder
    <3>4. Len(accepted) \in Nat /\ Len(answers) \in Nat /\ Len(Pipe) \in Nat
      BY <3>2
    <3> QED BY <3>1, <3>3, <3>4, PipelineAssumption
  <2>3. /\ accepted' = Append(accepted, calls) /\ calls \in Frames
        /\ \A k \in DOMAIN accepted : accepted[k] # calls
        /\ UNCHANGED answers
    <3>1. accepted' = Append(accepted, calls) /\ UNCHANGED answers
      BY <1>1, <2>1 DEF QueueFrame, InOrder
    <3>2. calls > 0 /\ calls \in 0 .. MaxFrames /\ \A k \in DOMAIN accepted : accepted[k] < calls
      BY <2>1 DEF Rising, PipelineTypeOK
    <3>3. calls \in Frames
      BY <3>2, PipelineAssumption DEF Frames
    <3>4. \A k \in DOMAIN accepted : accepted[k] # calls
      BY <3>2
    <3> QED BY <3>1, <3>3, <3>4
  <2> QED BY <2>2, <2>3 DEF Queue!Accept
<1>2. ASSUME NEW r \in Receivers, ReleaseSlot(r) PROVE Queue!Answer
  <2>1. /\ PipelineTypeOK /\ thread[r].at = "release"
        /\ answers' = Append(answers, thread[r].took) /\ UNCHANGED accepted
    BY <1>2 DEF RoundInv, ReleaseSlot, At
  <2>2. /\ thread[r].took \in [frame : Frames, failed : BOOLEAN]
        /\ Len(answers) + 1 \in DOMAIN accepted
        /\ thread[r].took.frame = accepted[Len(answers) + 1]
    BY <2>1, AnswerIsNext
  <2>3. Len(answers) < Len(accepted)
    <3>1. accepted \in Seq(Frames) /\ answers \in Seq([frame : Frames, failed : BOOLEAN])
      BY <2>1 DEF PipelineTypeOK
    <3> QED BY <2>2, <3>1
  <2>4. /\ thread[r].took.failed \in BOOLEAN
        /\ thread[r].took = [frame  |-> accepted[Len(answers) + 1],
                             failed |-> thread[r].took.failed]
    BY <2>2
  <2> QED BY <2>1, <2>3, <2>4 DEF Queue!Answer
<1>3. CASE \E p \in Producers : BeginSubmit(p) \/ AcquireSlot(p) \/ Prepare(p) \/ Abort(p)
  BY <1>3 DEF BeginSubmit, AcquireSlot, Prepare, Abort
<1>4. CASE Consuming
  BY <1>4 DEF Consuming, TakePending, Decode, Finish
<1>5. CASE \E r \in Receivers : BeginReceive(r) \/ PickResult(r) \/ MoveResult(r)
  BY <1>5 DEF BeginReceive, PickResult, MoveResult
<1>6. CASE Stop \/ UNCHANGED vars
  BY <1>6 DEF Stop, vars
<1> QED BY <1>1, <1>2, <1>3, <1>4, <1>5, <1>6 DEF Next, Submitting, Receiving

\* To its callers the pipeline is a queue: it accepts no more frames than it has
\* slots and answers them one by one in the order of acceptance, whatever the
\* producers, the consumer and the receivers do between their critical sections.
THEOREM PipelineRefinesQueue == Spec => QueueImplemented
BY QueueStarts, QueueFollows, RoundInvariant, PTL DEF Spec, Queue!Spec, QueueImplemented
=============================================================================
