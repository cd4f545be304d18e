------------------------------- MODULE Logger -------------------------------
(***************************************************************************)
(* AsyncLogger (src/src/AsyncLogger.cpp).  Threads put messages in bounded  *)
(* queues, one for each severity and path; a worker writes them in round    *)
(* robin.  A guaranteed message waits for room; a real-time one never       *)
(* waits: it pushes the oldest out, or is given up when the queue's mutex   *)
(* is taken.  shutdown() stops the intake and lets the worker write what is *)
(* queued.  `accepting` is read without any lock, so a submit may be in     *)
(* progress while the logger shuts down.                                    *)
(***************************************************************************)
EXTENDS Integers, Sequences

CONSTANTS Producers,    \* threads that log
          QueueCount,   \* 8 in the code
          Capacity,     \* of each queue: 2048 to 8192 in the code
          MaxMessages   \* bound of the model on the messages submitted

ASSUME LoggerAssumption ==
  /\ QueueCount \in Nat \ {0} /\ MaxMessages \in Nat
  /\ Capacity \in [0 .. QueueCount - 1 -> Nat \ {0}]
  /\ "nobody" \notin Producers

VARIABLES accepting,
          phase,       \* of the logger: new, up, notifying, joining
          unnotified,  \* queues whose waiters shutdown() has not notified
          queue,       \* the messages of each queue
          holder,      \* who holds the queue's mutex across several steps
          at,          \* where each producer is
          into, msg,   \* the queue and the message of its submit
          asleep,      \* producers waiting on cv_not_full
          worker,      \* where the worker is
          scanned,     \* queues it has looked at in the present pass
          nextIdx,     \* next_idx
          hand,        \* the queue and the message it has popped
          submitted,   \* number of messages submitted so far
          accepted,    \* messages pushed on each queue, in order
          written,     \* messages written from each queue, in order
          evicted,     \* real-time messages pushed out
          settled,     \* messages whose submit returned while accepting
          bypassed     \* messages taken from other queues since this one had any

intake == <<accepting, phase, unnotified>>
submit == <<at, into, msg, asleep, submitted>>
pass == <<worker, scanned, nextIdx, hand>>
vars == <<accepting, phase, unnotified, queue, holder, at, into, msg, asleep,
          worker, scanned, nextIdx, hand, submitted, accepted, written,
          evicted, settled, bypassed>>

Queues == 0 .. QueueCount - 1      \* QueueId, in the order of kSchedule
IsGuaranteed(q) == q % 2 = 0       \* GError, RTError, GWarn, ...
Messages == 1 .. MaxMessages
Nobody == "nobody"
Nothing == [queue |-> 0, message |-> 0]

Init ==
  /\ accepting = FALSE /\ phase = "new" /\ unnotified = {}
  /\ queue = [q \in Queues |-> <<>>]
  /\ holder = [q \in Queues |-> Nobody]
  /\ at = [p \in Producers |-> "idle"]
  /\ into = [p \in Producers |-> 0] /\ msg = [p \in Producers |-> 0]
  /\ asleep = {}
  /\ worker = "none" /\ scanned = 0 /\ nextIdx = 0 /\ hand = Nothing
  /\ submitted = 0
  /\ accepted = [q \in Queues |-> <<>>] /\ written = [q \in Queues |-> <<>>]
  /\ evicted = {} /\ settled = {}
  /\ bypassed = [q \in Queues |-> 0]

Free(q) == holder[q] = Nobody

\* submit returns; a message pushed while accepting is owed to its caller.
Return(p, pushed) ==
  /\ at' = [at EXCEPT ![p] = "idle"]
  /\ into' = [into EXCEPT ![p] = 0] /\ msg' = [msg EXCEPT ![p] = 0]
  /\ settled' = IF pushed /\ accepting THEN settled \union {msg[p]} ELSE settled

-----------------------------------------------------------------------------
(* AsyncLoggerGuard: start() and shutdown() *)

Start ==
  /\ phase = "new"
  /\ phase' = "up" /\ accepting' = TRUE
  /\ worker' = "test"
  /\ UNCHANGED <<unnotified, queue, holder, submit, scanned, nextIdx, hand,
                 accepted, written, evicted, settled, bypassed>>

StopAccepting ==
  /\ phase = "up"
  /\ phase' = "notifying" /\ accepting' = FALSE
  /\ unnotified' = Queues
  /\ UNCHANGED <<queue, holder, submit, pass, accepted, written, evicted,
                 settled, bypassed>>

\* cv_not_full.notify_all() of one queue after another, without its mutex
NotifyAll ==
  /\ phase = "notifying" /\ unnotified # {}
  /\ \E q \in unnotified :
       /\ \A r \in unnotified : q <= r
       /\ unnotified' = unnotified \ {q}
       /\ asleep' = {p \in asleep : into[p] # q}
  /\ phase' = IF unnotified' = {} THEN "joining" ELSE phase
  /\ UNCHANGED <<accepting, queue, holder, at, into, msg, submitted, pass,
                 accepted, written, evicted, settled, bypassed>>

-----------------------------------------------------------------------------
(* submit_realtime() and submit_guaranteed() *)

\* `accepting` is read first: a message that comes too late is dropped.
Submit(p) ==
  /\ at[p] = "idle" /\ submitted < MaxMessages
  /\ submitted' = submitted + 1
  /\ \/ /\ ~accepting
        /\ UNCHANGED <<into, at, msg>>
     \/ /\ accepting
        /\ msg' = [msg EXCEPT ![p] = submitted + 1]
        /\ \E q \in Queues :
             /\ into' = [into EXCEPT ![p] = q]
             /\ at' = [at EXCEPT ![p] = IF IsGuaranteed(q) THEN "lock" ELSE "trylock"]
  /\ UNCHANGED <<intake, queue, holder, asleep, pass, accepted, written,
                 evicted, settled, bypassed>>

\* Mutant: the newest message is pushed out.
MakesRoomAtEnd(q) ==
  IF Len(queue[q]) >= Capacity[q] THEN SubSeq(queue[q], 1, Capacity[q] - 1) ELSE queue[q]

\* pop_front when the queue is full
MakesRoom(q) == IF Len(queue[q]) >= Capacity[q] THEN Tail(queue[q]) ELSE queue[q]

\* The mutex is held by another thread, if only for an instant: rt_dropped_lock.
GiveUp(p) ==
  /\ at[p] = "trylock"
  /\ Return(p, FALSE)
  /\ UNCHANGED <<intake, queue, holder, asleep, submitted, pass, accepted,
                 written, evicted, bypassed>>

PushRealtime(p) ==
  /\ at[p] = "trylock"
  /\ \E q \in {into[p]} :
       /\ Free(q)
       /\ queue' = [queue EXCEPT ![q] = Append(MakesRoom(q), msg[p])]
       /\ accepted' = [accepted EXCEPT ![q] = Append(@, msg[p])]
       /\ evicted' = IF Len(queue[q]) >= Capacity[q]
                     THEN evicted \union {Head(queue[q])} ELSE evicted
  /\ Return(p, TRUE)
  /\ UNCHANGED <<intake, holder, asleep, submitted, pass, written, bypassed>>

\* Taking the mutex; the wait on cv_not_full takes it again when notified.
Lock(p) ==
  /\ at[p] = "lock" /\ p \notin asleep /\ Free(into[p])
  /\ holder' = [holder EXCEPT ![into[p]] = p]
  /\ at' = [at EXCEPT ![p] = "check"]
  /\ UNCHANGED <<intake, queue, into, msg, asleep, submitted, pass, accepted,
                 written, evicted, settled, bypassed>>

Full(q) == Len(queue[q]) >= Capacity[q]

\* The predicate of the wait, under the mutex but not under `accepting`'s
\* store, which has no mutex: the thread has decided to sleep but does not yet.
CheckRoom(p) ==
  /\ at[p] = "check"
  /\ at' = [at EXCEPT ![p] = IF accepting /\ Full(into[p]) THEN "block" ELSE "push"]
  /\ UNCHANGED <<intake, queue, holder, into, msg, asleep, submitted, pass,
                 accepted, written, evicted, settled, bypassed>>

\* The thread goes to sleep and the mutex is released, in one step.
Block(p) ==
  /\ at[p] = "block"
  /\ at' = [at EXCEPT ![p] = "lock"]
  /\ asleep' = asleep \union {p}
  /\ holder' = [holder EXCEPT ![into[p]] = Nobody]
  /\ UNCHANGED <<intake, queue, into, msg, submitted, pass, accepted, written,
                 evicted, settled, bypassed>>

\* `accepting` is read once more; the message is pushed or dropped.
PushGuaranteed(p) ==
  /\ at[p] = "push"
  /\ \/ /\ accepting
        /\ at' = [at EXCEPT ![p] = "append"]
        /\ UNCHANGED <<into, msg, holder, settled>>
     \/ /\ ~accepting
        /\ holder' = [holder EXCEPT ![into[p]] = Nobody]
        /\ Return(p, FALSE)
  /\ UNCHANGED <<intake, queue, asleep, submitted, pass, accepted, written,
                 evicted, bypassed>>

AppendGuaranteed(p) ==
  /\ at[p] = "append"
  /\ \E q \in {into[p]} :
       /\ queue' = [queue EXCEPT ![q] = Append(@, msg[p])]
       /\ accepted' = [accepted EXCEPT ![q] = Append(@, msg[p])]
       /\ holder' = [holder EXCEPT ![q] = Nobody]
  /\ Return(p, TRUE)
  /\ UNCHANGED <<intake, asleep, submitted, pass, written, evicted, bypassed>>

-----------------------------------------------------------------------------
(* worker_loop() *)

\* Mutant: the worker leaves as soon as nothing more is accepted.
TestAcceptingOnly ==
  /\ worker = "test"
  /\ worker' = IF accepting THEN "scan" ELSE "exited"
  /\ UNCHANGED <<intake, queue, holder, submit, scanned, nextIdx, hand, accepted,
                 written, evicted, settled, bypassed>>

\* The loop's condition: with `accepting` a pass begins, else the queues are
\* searched one after another for a message first.
Test ==
  /\ worker = "test"
  /\ worker' = IF accepting THEN "scan" ELSE "search"
  /\ UNCHANGED <<intake, queue, holder, submit, scanned, nextIdx, hand, accepted,
                 written, evicted, settled, bypassed>>

\* has_any_message()
Search ==
  /\ worker = "search" /\ Free(scanned)
  /\ \/ /\ queue[scanned] # <<>>
        /\ worker' = "scan" /\ scanned' = 0
     \/ /\ queue[scanned] = <<>> /\ scanned + 1 < QueueCount
        /\ scanned' = scanned + 1
        /\ UNCHANGED worker
     \/ /\ queue[scanned] = <<>> /\ scanned + 1 = QueueCount
        /\ worker' = "exited" /\ scanned' = 0
  /\ UNCHANGED <<intake, queue, holder, submit, nextIdx, hand, accepted,
                 written, evicted, settled, bypassed>>

\* The next pass starts after the queue the message came from.
StartsAfter(q) == (q + 1) % QueueCount

Looked == (nextIdx + scanned) % QueueCount

\* try_pop_from_queue()
Pop ==
  /\ worker = "scan" /\ scanned < QueueCount /\ Free(Looked) /\ queue[Looked] # <<>>
  /\ hand' = [queue |-> Looked, message |-> Head(queue[Looked])]
  /\ queue' = [queue EXCEPT ![Looked] = Tail(@)]
  /\ nextIdx' = StartsAfter(Looked)
  /\ worker' = "emit" /\ scanned' = 0
  /\ bypassed' = [q \in Queues |-> IF q = Looked \/ queue[q] = <<>>
                                   THEN 0 ELSE bypassed[q] + 1]
  /\ UNCHANGED <<intake, holder, submit, accepted, written, evicted, settled>>

LookOn ==
  /\ worker = "scan" /\ scanned < QueueCount /\ Free(Looked) /\ queue[Looked] = <<>>
  /\ scanned' = scanned + 1
  /\ UNCHANGED <<intake, queue, holder, submit, worker, nextIdx, hand, accepted,
                 written, evicted, settled, bypassed>>

\* Nothing found: the worker waits 20 ms at most, whether notified or not.
Pause ==
  /\ worker = "scan" /\ scanned = QueueCount
  /\ worker' = "test" /\ scanned' = 0
  /\ UNCHANGED <<intake, queue, holder, submit, nextIdx, hand,
                 accepted, written, evicted, settled, bypassed>>

\* Mutant: nobody is told that there is room.
NotifyNobody(q) == UNCHANGED asleep

\* cv_not_full.notify_one()
NotifyRoom(q) ==
  LET waiting == {p \in asleep : into[p] = q} IN
    IF waiting = {} THEN UNCHANGED asleep
    ELSE \E p \in waiting : asleep' = asleep \ {p}

\* After the mutex is released, a producer that waits for room is notified
\* and the line is written.
Emit ==
  /\ worker = "emit"
  /\ IF IsGuaranteed(hand.queue) THEN NotifyRoom(hand.queue) ELSE UNCHANGED asleep
  /\ written' = [written EXCEPT ![hand.queue] = Append(@, hand.message)]
  /\ hand' = Nothing
  /\ worker' = "test"
  /\ UNCHANGED <<intake, queue, holder, at, into, msg, submitted, scanned,
                 nextIdx, accepted, evicted, settled, bypassed>>

-----------------------------------------------------------------------------
Submitting(p) ==
  \/ GiveUp(p) \/ PushRealtime(p)
  \/ Lock(p) \/ CheckRoom(p) \/ Block(p) \/ PushGuaranteed(p) \/ AppendGuaranteed(p)
Working == Test \/ Search \/ Pop \/ LookOn \/ Pause \/ Emit

Next ==
  \/ Start \/ StopAccepting \/ NotifyAll
  \/ \E p \in Producers : Submit(p) \/ Submitting(p)
  \/ Working

Spec == Init /\ [][Next]_vars

\* Threads are scheduled; main() need never shut the logger down.
Fairness ==
  /\ WF_vars(NotifyAll)
  /\ WF_vars(Working)
  /\ \A p \in Producers : WF_vars(Submitting(p))

FairSpec == Spec /\ Fairness

-----------------------------------------------------------------------------

LoggerTypeOK ==
  /\ accepting \in BOOLEAN
  /\ phase \in {"new", "up", "notifying", "joining"} /\ unnotified \subseteq Queues
  /\ queue \in [Queues -> Seq(Messages)]
  /\ \A q \in Queues : Len(queue[q]) <= Capacity[q]
  /\ holder \in [Queues -> Producers \union {Nobody}]
  /\ at \in [Producers -> {"idle", "trylock", "lock", "check", "block", "push", "append"}]
  /\ into \in [Producers -> Queues] /\ msg \in [Producers -> 0 .. MaxMessages]
  /\ asleep \subseteq Producers
  /\ worker \in {"none", "test", "search", "scan", "emit", "exited"}
  /\ scanned \in 0 .. QueueCount /\ nextIdx \in Queues
  /\ hand \in [queue : Queues, message : 0 .. MaxMessages]
  /\ submitted \in 0 .. MaxMessages
  /\ accepted \in [Queues -> Seq(Messages)] /\ written \in [Queues -> Seq(Messages)]
  /\ evicted \subseteq Messages /\ settled \subseteq Messages

InHand(q) == IF worker = "emit" /\ hand.queue = q THEN <<hand.message>> ELSE <<>>

\* The messages of a queue that are written, in hand or still queued
Kept(q) == (written[q] \o InHand(q)) \o queue[q]

Contains(list, m) == \E k \in DOMAIN list : list[k] = m
Precedes(list, m, n) == \E j, k \in DOMAIN list : j < k /\ list[j] = m /\ list[k] = n

\* `kept` is `pushed` without the messages lost: none twice, none overtaken.
Conserved(pushed, lost, kept) ==
  /\ \A j, k \in DOMAIN pushed : pushed[j] = pushed[k] => j = k
  /\ \A m \in Messages : Contains(kept, m) <=> Contains(pushed, m) /\ m \notin lost
  /\ \A j, k \in DOMAIN kept : j < k => Precedes(pushed, kept[j], kept[k])

\* What was pushed on a queue is written, in hand or queued, in order, but for
\* the real-time messages pushed out.
MessagesAreConserved ==
  \A q \in Queues :
    /\ Conserved(accepted[q], evicted, Kept(q))
    /\ IsGuaranteed(q) => \A m \in evicted : ~Contains(accepted[q], m)

\* A queue that has a message is served after at most one message of each
\* other queue, however busy the more severe ones are.
NoQueueStarves == \A q \in Queues : bypassed[q] < QueueCount

LoggerInv == LoggerTypeOK /\ MessagesAreConserved /\ NoQueueStarves

WrittenFrom(q) == {written[q][k] : k \in DOMAIN written[q]}

\* What a submit has returned for before the shutdown began is written by the
\* worker before it leaves, unless a later real-time message pushed it out.
BacklogIsWritten ==
  \A m \in Messages :
    m \in settled ~> m \in evicted \/ \E q \in Queues : m \in WrittenFrom(q)

\* A thread that waits for room does not sleep for ever, not even when it has
\* missed the notification of the shutdown: at most one can, the one that holds
\* the mutex, and the queue it found full gives a notification for each pop.
EverySubmitReturns == \A p \in Producers : at[p] # "idle" ~> at[p] = "idle"

\* The worker that shutdown() joins ends.
ShutdownEnds == phase = "notifying" ~> worker = "exited"

\* Neither a thread that logs nor the one that shuts the logger down is held up
\* for ever.
NobodyIsHeldUp == EverySubmitReturns /\ ShutdownEnds
=============================================================================
