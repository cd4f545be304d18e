--------------------------- MODULE FramePipeline ----------------------------
(***************************************************************************)
(* DynamicLinkPipeline (src/cpp_phy/src/dynamic_link_pipeline.cpp), and its *)
(* twins DynamicFramePipeline and Rank4TimePipeline, which differ only in   *)
(* the stages they call.  A producer prepares a frame in a free slot, one   *)
(* consumer thread decodes the slots queued, a receiver moves the result    *)
(* out and frees the slot.  A critical section of `mutex` is one action;    *)
(* what a thread does outside it is another, so that the others interleave. *)
(* A thread whose wait finds nothing sleeps until it is notified.           *)
(***************************************************************************)
EXTENDS Integers, Sequences, FiniteSets

CONSTANTS Producers, Receivers,  \* threads that call submit(), receive()
          SlotCount,             \* 2 in the code
          MaxFrames,             \* bound of the model on the calls of submit()
          MayStop                \* the destructor may run

ASSUME PipelineAssumption ==
  /\ SlotCount \in Nat \ {0} /\ MaxFrames \in Nat /\ MayStop \in BOOLEAN
  /\ Producers \intersect Receivers = {}
  /\ "consumer" \notin Producers \union Receivers

VARIABLES slot,       \* slots: state, frame_id and link of the output, failure
          free, pending, completed,   \* free_slots, pending_slots, completed_slots
          stopping,
          thread,     \* where each thread is, the slot it holds, what it took
          asleep,     \* threads waiting on their condition variable
          calls,      \* calls of submit() so far: the number of the last frame
          accepted,   \* frames queued for the consumer, in order
          answers,    \* what receive() returned or threw, in order
          broken      \* frames whose decoding threw

vars == <<slot, free, pending, completed, stopping, thread, asleep, calls,
          accepted, answers, broken>>

Slots == 0 .. SlotCount - 1
NoSlot == -1
Frames == 1 .. MaxFrames
Consumer == "consumer"
Threads == Producers \union Receivers \union {Consumer}
Outcomes == [frame : 0 .. MaxFrames, failed : BOOLEAN]
SlotStates == {"free", "preparing", "queued", "processing", "complete"}

Init ==
  /\ slot = [i \in Slots |-> [state |-> "free", frame |-> 0, failed |-> FALSE]]
  /\ free = [k \in 1 .. SlotCount |-> k - 1]
  /\ pending = <<>> /\ completed = <<>>
  /\ stopping = FALSE
  /\ thread = [t \in Threads |->
       [at |-> "idle", slot |-> NoSlot, took |-> [frame |-> 0, failed |-> FALSE]]]
  /\ asleep = {}
  /\ calls = 0
  /\ accepted = <<>> /\ answers = <<>> /\ broken = {}

\* Thread t goes on at `where`, holding slot i.
Goes(t, where, i) == thread' = [thread EXCEPT ![t].at = where, ![t].slot = i]

InState(i, state) == slot' = [slot EXCEPT ![i].state = state]

\* wait(lock, predicate) finds the predicate false.
Sleeps(t) == asleep' = asleep \union {t} /\ UNCHANGED <<slot, thread>>

\* Mutant: the notification is forgotten.
NotifyNobody(ts) == UNCHANGED asleep

\* notify_one on the condition variable that the threads ts wait on.
NotifyOne(ts) ==
  IF asleep \intersect ts = {}
  THEN UNCHANGED asleep
  ELSE \E t \in asleep \intersect ts : asleep' = asleep \ {t}

\* Mutant: the slot keeps the failure of the frame it carried before.
KeepsFailure(i) == slot' = [slot EXCEPT ![i].frame = calls]

\* The output and the failure of slot i are reset for the frame submitted.
Resets(i) == slot' = [slot EXCEPT ![i].frame = calls, ![i].failed = FALSE]

\* Mutant: the newest slot of a list is taken first.
PutFirst(list, i) == <<i>> \o list

\* push_back on a list of slots
PushBack(list, i) == Append(list, i)

At(t, where) == thread[t].at = where /\ t \notin asleep

-----------------------------------------------------------------------------
(* submit(), submit_iq(), submit_capture() *)

\* producer_mutex is taken for the whole call.
BeginSubmit(p) ==
  /\ ~stopping /\ calls < MaxFrames
  /\ \A q \in Producers : thread[q].at = "idle"
  /\ calls' = calls + 1
  /\ Goes(p, "acquire", NoSlot)
  /\ UNCHANGED <<slot, free, pending, completed, stopping, asleep, accepted,
                 answers, broken>>

AcquireSlot(p) ==
  /\ At(p, "acquire")
  /\ \/ /\ stopping                                     \* throws
        /\ Goes(p, "idle", NoSlot)
        /\ UNCHANGED <<slot, free, asleep>>
     \/ /\ ~stopping /\ free = <<>>
        /\ Sleeps(p)
        /\ UNCHANGED free
     \/ /\ ~stopping /\ free # <<>>
        /\ free' = Tail(free)
        /\ InState(Head(free), "preparing")
        /\ Goes(p, "prepare", Head(free))
        /\ UNCHANGED asleep
  /\ UNCHANGED <<pending, completed, stopping, calls, accepted, answers, broken>>

\* Outside the mutex: the output is reset and the frame prepared, or the
\* preparation throws.
Prepare(p) ==
  /\ At(p, "prepare")
  /\ Resets(thread[p].slot)
  /\ \E next \in {"queue", "abort"} : Goes(p, next, thread[p].slot)
  /\ UNCHANGED <<free, pending, completed, stopping, asleep, calls, accepted,
                 answers, broken>>

\* The preparation threw: the slot is given back before submit() rethrows.
Abort(p) ==
  /\ At(p, "abort")
  /\ InState(thread[p].slot, "free")
  /\ free' = PushBack(free, thread[p].slot)
  /\ Goes(p, "idle", NoSlot)
  /\ NotifyOne(Producers)
  /\ UNCHANGED <<pending, completed, stopping, calls, accepted, answers, broken>>

QueueFrame(p) ==
  /\ At(p, "queue")
  /\ InState(thread[p].slot, "queued")
  /\ pending' = PushBack(pending, thread[p].slot)
  /\ Goes(p, "idle", NoSlot)
  /\ NotifyOne({Consumer})
  /\ accepted' = Append(accepted, slot[thread[p].slot].frame)
  /\ UNCHANGED <<free, completed, stopping, calls, answers, broken>>

-----------------------------------------------------------------------------
(* consumer_loop() *)

\* The consumer drains what is pending before it leaves.
Leaves == stopping /\ pending = <<>>

TakePending ==
  /\ At(Consumer, "idle")
  /\ \/ /\ Leaves
        /\ Goes(Consumer, "exited", NoSlot)
        /\ UNCHANGED <<slot, pending, asleep>>
     \/ /\ pending = <<>> /\ ~stopping
        /\ Sleeps(Consumer)
        /\ UNCHANGED pending
     \/ /\ pending # <<>> /\ ~Leaves
        /\ pending' = Tail(pending)
        /\ InState(Head(pending), "processing")
        /\ Goes(Consumer, "decode", Head(pending))
        /\ UNCHANGED asleep
  /\ UNCHANGED <<free, completed, stopping, calls, accepted, answers, broken>>

\* Outside the mutex: the frame is decoded, or the decoding throws.
Decode ==
  /\ At(Consumer, "decode")
  /\ \E i \in {thread[Consumer].slot}, fails \in BOOLEAN :
       /\ slot' = IF fails THEN [slot EXCEPT ![i].failed = TRUE] ELSE slot
       /\ broken' = IF fails THEN broken \union {slot[i].frame} ELSE broken
       /\ Goes(Consumer, "finish", i)
  /\ UNCHANGED <<free, pending, completed, stopping, asleep, calls, accepted, answers>>

Finish ==
  /\ At(Consumer, "finish")
  /\ InState(thread[Consumer].slot, "complete")
  /\ completed' = PushBack(completed, thread[Consumer].slot)
  /\ Goes(Consumer, "idle", NoSlot)
  /\ NotifyOne(Receivers)
  /\ UNCHANGED <<free, pending, stopping, calls, accepted, answers, broken>>

-----------------------------------------------------------------------------
(* receive() *)

\* receive_mutex is taken for the whole call.
BeginReceive(r) ==
  /\ ~stopping
  /\ \A q \in Receivers : thread[q].at = "idle"
  /\ Goes(r, "pick", NoSlot)
  /\ UNCHANGED <<slot, free, pending, completed, stopping, asleep, calls,
                 accepted, answers, broken>>

PickResult(r) ==
  /\ At(r, "pick")
  /\ \/ /\ completed = <<>> /\ stopping                 \* throws
        /\ Goes(r, "idle", NoSlot)
        /\ UNCHANGED <<completed, asleep, slot>>
     \/ /\ completed = <<>> /\ ~stopping
        /\ Sleeps(r)
        /\ UNCHANGED completed
     \/ /\ completed # <<>>
        /\ completed' = Tail(completed)
        /\ Goes(r, "move", Head(completed))
        /\ UNCHANGED <<asleep, slot>>
  /\ UNCHANGED <<free, pending, stopping, calls, accepted, answers, broken>>

\* Outside the mutex: the failure is copied and the output moved out.
MoveResult(r) ==
  /\ At(r, "move")
  /\ \E i \in {thread[r].slot} :
       thread' = [thread EXCEPT ![r].at = "release",
         ![r].took = [frame |-> slot[i].frame, failed |-> slot[i].failed]]
  /\ UNCHANGED <<slot, free, pending, completed, stopping, asleep, calls,
                 accepted, answers, broken>>

\* The slot is freed; the result is returned or its failure rethrown.
ReleaseSlot(r) ==
  /\ At(r, "release")
  /\ InState(thread[r].slot, "free")
  /\ free' = PushBack(free, thread[r].slot)
  /\ answers' = Append(answers, thread[r].took)
  /\ Goes(r, "idle", NoSlot)
  /\ NotifyOne(Producers)
  /\ UNCHANGED <<pending, completed, stopping, calls, accepted, broken>>

-----------------------------------------------------------------------------

\* notify_all on the three condition variables
NotifyAll == asleep' = {}

\* The destructor: every thread that waits is woken and finds `stopping`.
Stop ==
  /\ MayStop /\ ~stopping
  /\ stopping' = TRUE
  /\ NotifyAll
  /\ UNCHANGED <<slot, free, pending, completed, thread, calls, accepted,
                 answers, broken>>

Submitting(p) == AcquireSlot(p) \/ Prepare(p) \/ Abort(p) \/ QueueFrame(p)
Consuming == TakePending \/ Decode \/ Finish
Receiving(r) == PickResult(r) \/ MoveResult(r) \/ ReleaseSlot(r)

Next ==
  \/ \E p \in Producers : BeginSubmit(p) \/ Submitting(p)
  \/ Consuming
  \/ \E r \in Receivers : BeginReceive(r) \/ Receiving(r)
  \/ Stop

Spec == Init /\ [][Next]_vars

\* Threads are scheduled, and receive() is called again and again.
Fairness ==
  /\ \A p \in Producers : WF_vars(Submitting(p))
  /\ WF_vars(Consuming)
  /\ \A r \in Receivers : WF_vars(Receiving(r))
  /\ WF_vars(\E r \in Receivers : BeginReceive(r))

FairSpec == Spec /\ Fairness

-----------------------------------------------------------------------------

PipelineTypeOK ==
  /\ slot \in [Slots -> [state : SlotStates, frame : 0 .. MaxFrames, failed : BOOLEAN]]
  /\ free \in Seq(Slots) /\ pending \in Seq(Slots) /\ completed \in Seq(Slots)
  /\ stopping \in BOOLEAN
  /\ thread \in [Threads -> [at : {"idle", "acquire", "prepare", "queue", "abort",
                                   "decode", "finish", "exited", "pick", "move", "release"},
                             slot : Slots \union {NoSlot}, took : Outcomes]]
  /\ asleep \subseteq Threads
  /\ calls \in 0 .. MaxFrames
  /\ accepted \in Seq(Frames)
  /\ answers \in Seq([frame : Frames, failed : BOOLEAN])
  /\ broken \subseteq Frames

Times(list, i) == Cardinality({k \in DOMAIN list : list[k] = i})
Holders(i) == {t \in Threads : thread[t].slot = i}

(***************************************************************************)
(* A slot is in one list or with one thread, never two and never none: what *)
(* a thread does to its slot outside the mutex is seen by nobody else, and  *)
(* no slot is ever lost.                                                    *)
(***************************************************************************)
SlotIsInOnePlace ==
  \A i \in Slots :
    Times(free, i) + Times(pending, i) + Times(completed, i)
      + Cardinality(Holders(i)) = 1

\* receive() throws for a frame exactly when decoding that frame threw: the
\* failure kept in a slot never reaches the next frame that uses the slot.
FailuresAreOwn ==
  \A k \in DOMAIN answers : answers[k].failed <=> answers[k].frame \in broken

\* What holds of the slots at every moment.
PipelineInv == PipelineTypeOK /\ SlotIsInOnePlace /\ FailuresAreOwn

\* The two mutexes and the condition variables make it a queue in order.
Queue == INSTANCE FrameQueue WITH Capacity <- SlotCount
QueueImplemented == Queue!Spec

\* Every frame accepted is answered, unless the pipeline is destroyed first.
EveryFrameIsAnswered ==
  \A n \in Frames : Len(accepted) >= n ~> Len(answers) >= n \/ stopping

BeingDecoded == IF thread[Consumer].at \in {"decode", "finish"} THEN 1 ELSE 0

\* A frame accepted before the pipeline is destroyed is decoded all the same.
EveryFrameIsDecoded ==
  \A n \in Frames :
    ~stopping /\ Len(accepted) >= n
      ~> Len(accepted) - Len(pending) - BeingDecoded >= n

\* Destroying the pipeline ends the consumer and every call in progress:
\* nobody sleeps through it.
StopReleasesEveryone ==
  stopping ~> /\ thread[Consumer].at = "exited"
              /\ \A t \in Producers \union Receivers : thread[t].at = "idle"

\* Every frame and every caller comes to an end, the pipeline destroyed or not.
NothingIsLeftWaiting ==
  EveryFrameIsAnswered /\ EveryFrameIsDecoded /\ StopReleasesEveryone
=============================================================================
