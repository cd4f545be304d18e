---------------------------- MODULE DecoderPool -----------------------------
(***************************************************************************)
(* LdpcFrameDecoder (src/cpp_phy/src/ldpc_frame_decoder.cpp): a pool of      *)
(* threads that decode the blocks of one frame.  decode_blocks() posts the  *)
(* frame under `mutex` with a new generation, every worker decodes its share *)
(* without any lock, and the last to finish wakes the caller.  The input    *)
(* belongs to the caller and the results are shared, so a worker must be    *)
(* done with both when the call returns, even if a block has thrown.        *)
(***************************************************************************)
EXTENDS Integers, Sequences, FiniteSets

CONSTANTS Callers,     \* threads that call decode_blocks()
          Count,       \* configured_workers, 1 to 19, unless it is one
          MaxBlocks,   \* 19 in the code
          MaxCalls,    \* bound of the model on the calls of decode_blocks()
          MayStop      \* the destructor may run

ASSUME PoolAssumption ==
  /\ Count \in Nat \ {0} /\ MaxBlocks \in Nat \ {0}
  /\ MaxCalls \in Nat /\ MayStop \in BOOLEAN

VARIABLES mode,        \* alone with one worker, the caller; else threads
          life,        \* constructing, ready, failed (constructor threw), destroyed
          spawned,     \* threads.size()
          at,          \* where each worker is
          observed,    \* observed_generation of each worker
          block,       \* the next block of each worker
          caller,      \* where each caller is
          asleep,      \* workers waiting on `start`, the caller waiting on `done`
          input,       \* the call whose frame `input` points to
          blockCount,  \* block_count
          generation, finished, stopping,
          failure,     \* the call whose block threw, or 0 for null
          result,      \* for each block, the call it was decoded for
          outcomes,    \* what the calls returned or threw, in order
          broken       \* calls of which some block threw

thread == <<at, observed, block>>
job == <<input, blockCount>>
poolVars == <<mode, life, spawned, at, observed, block, caller, asleep, input, blockCount,
          generation, finished, stopping, failure, result, outcomes, broken>>

Workers == 0 .. Count - 1
Blocks == 0 .. MaxBlocks - 1
Calls == 0 .. MaxCalls
Alone == mode = "alone"
Generations == 0 .. MaxCalls + 1
Outcomes == [call : Calls, failed : BOOLEAN, from : SUBSET Calls]

PoolInit ==
  /\ mode \in IF Count = 1 THEN {"alone"} ELSE {"alone", "threads"}
  /\ life = IF Alone THEN "ready" ELSE "constructing"
  /\ spawned = 0
  /\ at = [w \in Workers |-> "none"]
  /\ observed = [w \in Workers |-> 0] /\ block = [w \in Workers |-> 0]
  /\ caller = [c \in Callers |-> "idle"]
  /\ asleep = {}
  /\ input = 0 /\ blockCount = 0
  /\ generation = 0 /\ finished = 0 /\ stopping = FALSE /\ failure = 0
  /\ result = [b \in Blocks |-> 0]
  /\ outcomes = <<>> /\ broken = {}

-----------------------------------------------------------------------------
(* The constructor and the destructor *)

\* What both do to end the threads, before joining them.
TellToStop ==
  /\ stopping' = TRUE
  /\ generation' = generation + 1
  /\ asleep' = asleep \ Workers

\* A thread starts, and runs while the next are being created.
Spawn ==
  /\ life = "constructing"
  /\ spawned' = spawned + 1
  /\ at' = [at EXCEPT ![spawned] = "wait"]
  /\ life' = IF spawned + 1 = Count THEN "ready" ELSE "constructing"
  /\ UNCHANGED <<mode, observed, block, caller, asleep, job, generation,
                 finished, stopping, failure, result, outcomes, broken>>

\* std::thread throws: those that started are stopped, and the constructor throws.
SpawnFails ==
  /\ life = "constructing"
  /\ life' = "failed"
  /\ TellToStop
  /\ UNCHANGED <<mode, spawned, thread, caller, job, finished, failure, result,
                 outcomes, broken>>

\* The owner destroys the decoder when no call is in progress.
Destroy ==
  /\ MayStop /\ life = "ready"
  /\ \A c \in Callers : caller[c] = "idle"
  /\ life' = "destroyed"
  /\ TellToStop
  /\ UNCHANGED <<mode, spawned, thread, caller, job, finished, failure, result,
                 outcomes, broken>>

-----------------------------------------------------------------------------
(* decode_blocks() *)

\* The vectors of results are resized to n blocks and keep what they held.
Resized(n) == [b \in Blocks |-> IF b < n THEN result[b] ELSE 0]

\* Mutant: only one worker is woken.
WakeOneWorker(c) ==
  \/ /\ asleep \intersect Workers = {}
     /\ asleep' = asleep \union {c}
  \/ \E w \in asleep \intersect Workers : asleep' = (asleep \ {w}) \union {c}

\* start.notify_all(), then the caller waits on `done`: its predicate is
\* false, since no worker has finished.
WakeWorkers(c) == asleep' = (asleep \ Workers) \union {c}

\* finished_workers = 0
FinishedReset == finished' = 0

\* The results once the first k blocks of the n of a new call are decoded
FirstDecoded(n, k) ==
  [b \in Blocks |-> IF b < k THEN input + 1 ELSE Resized(n)[b]]

\* call_mutex is taken, then the frame is posted to the threads.
Post(c) ==
  /\ life = "ready" /\ ~Alone /\ input < MaxCalls
  /\ \A d \in Callers : caller[d] = "idle"
  /\ \E n \in 1 .. MaxBlocks :
       /\ input' = input + 1 /\ blockCount' = n
       /\ result' = Resized(n)
  /\ FinishedReset /\ failure' = 0
  /\ generation' = generation + 1
  /\ caller' = [caller EXCEPT ![c] = "wait"]
  /\ WakeWorkers(c)
  /\ UNCHANGED <<mode, life, spawned, thread, stopping, outcomes, broken>>

\* With one worker the caller decodes the blocks itself, under call_mutex;
\* the first that throws ends the call.
DecodeAlone(c) ==
  /\ life = "ready" /\ Alone /\ input < MaxCalls
  /\ \A d \in Callers : caller[d] = "idle"
  /\ \E n \in 1 .. MaxBlocks :
       /\ input' = input + 1 /\ blockCount' = n
       /\ \/ /\ result' = FirstDecoded(n, n)
             /\ caller' = [caller EXCEPT ![c] = "copy"]
             /\ UNCHANGED <<outcomes, broken>>
          \/ \E k \in 0 .. n - 1 :
               /\ result' = FirstDecoded(n, k)
               /\ broken' = broken \union {input + 1}
               /\ outcomes' = Append(outcomes, [call |-> input + 1, failed |-> TRUE, from |-> {}])
               /\ UNCHANGED caller
  /\ UNCHANGED <<mode, life, spawned, thread, asleep, generation, finished, stopping, failure>>

\* The caller wakes: it waits on, rethrows the failure, or goes on.
AwaitDone(c) ==
  /\ caller[c] = "wait" /\ c \notin asleep
  /\ \/ /\ finished # spawned
        /\ asleep' = asleep \union {c}
        /\ UNCHANGED <<caller, outcomes>>
     \/ /\ finished = spawned /\ failure # 0
        /\ caller' = [caller EXCEPT ![c] = "idle"]
        /\ outcomes' = Append(outcomes, [call |-> input, failed |-> TRUE, from |-> {}])
        /\ UNCHANGED asleep
     \/ /\ finished = spawned /\ failure = 0
        /\ caller' = [caller EXCEPT ![c] = "copy"]
        /\ UNCHANGED <<asleep, outcomes>>
  /\ UNCHANGED <<mode, life, spawned, thread, job, generation, finished, stopping,
                 failure, result, broken>>

\* The results are copied to the caller's, without `mutex`.
CopyResult(c) ==
  /\ caller[c] = "copy"
  /\ outcomes' = Append(outcomes, [call |-> input, failed |-> FALSE,
                                   from |-> {result[b] : b \in 0 .. blockCount - 1}])
  /\ caller' = [caller EXCEPT ![c] = "idle"]
  /\ UNCHANGED <<mode, life, spawned, thread, asleep, job, generation, finished,
                 stopping, failure, result, broken>>

-----------------------------------------------------------------------------
(* worker_loop() *)

AwaitStart(w) ==
  /\ at[w] = "wait" /\ w \notin asleep
  /\ \/ /\ stopping
        /\ at' = [at EXCEPT ![w] = "exited"]
        /\ UNCHANGED <<asleep, observed, block>>
     \/ /\ ~stopping /\ generation = observed[w]
        /\ asleep' = asleep \union {w}
        /\ UNCHANGED thread
     \/ /\ ~stopping /\ generation # observed[w]
        /\ at' = [at EXCEPT ![w] = "decode"]
        /\ observed' = [observed EXCEPT ![w] = generation]
        /\ block' = [block EXCEPT ![w] = w]
        /\ UNCHANGED asleep
  /\ UNCHANGED <<mode, life, spawned, caller, job, generation, finished, stopping,
                 failure, result, outcomes, broken>>

\* The worker's next block, in round robin
NextBlock(w) == block[w] + Count

\* The next block of the worker's share, decoded from the input without a
\* lock; a failure is recorded under `mutex` unless there is one, and the
\* worker goes on.
DecodeBlock(w) ==
  /\ at[w] = "decode" /\ block[w] < blockCount
  /\ \/ /\ result' = [result EXCEPT ![block[w]] = input]
        /\ UNCHANGED <<failure, broken>>
     \/ /\ failure' = IF failure = 0 THEN input ELSE failure
        /\ broken' = broken \union {input}
        /\ UNCHANGED result
  /\ block' = [block EXCEPT ![w] = NextBlock(w)]
  /\ UNCHANGED <<mode, life, spawned, at, observed, caller, asleep, job, generation, finished,
                 stopping, outcomes>>

\* Mutant: the first worker that finishes wakes the caller, for good.
FinishForAll(w) ==
  /\ at[w] = "decode" /\ block[w] >= blockCount
  /\ at' = [at EXCEPT ![w] = "wait"]
  /\ finished' = spawned
  /\ asleep' = asleep \ Callers
  /\ UNCHANGED <<mode, life, spawned, observed, block, caller, job, generation,
                 stopping, failure, result, outcomes, broken>>

\* The worker is counted; the last wakes the caller.
FinishShare(w) ==
  /\ at[w] = "decode" /\ block[w] >= blockCount
  /\ at' = [at EXCEPT ![w] = "wait"]
  /\ finished' = finished + 1
  /\ asleep' = IF finished + 1 = spawned THEN asleep \ Callers ELSE asleep
  /\ UNCHANGED <<mode, life, spawned, observed, block, caller, job, generation,
                 stopping, failure, result, outcomes, broken>>

-----------------------------------------------------------------------------
Constructing == Spawn \/ SpawnFails
Calling(c) == AwaitDone(c) \/ CopyResult(c)
Working(w) == AwaitStart(w) \/ DecodeBlock(w) \/ FinishShare(w)

PoolNext ==
  \/ Constructing \/ Destroy
  \/ \E c \in Callers : Post(c) \/ DecodeAlone(c) \/ Calling(c)
  \/ \E w \in Workers : Working(w)

PoolSpec == PoolInit /\ [][PoolNext]_poolVars

\* The threads are scheduled.
PoolFairness ==
  /\ WF_poolVars(Constructing)
  /\ \A c \in Callers : WF_poolVars(Calling(c))
  /\ \A w \in Workers : WF_poolVars(Working(w))

FairSpec == PoolSpec /\ PoolFairness

-----------------------------------------------------------------------------
PoolTypeOK ==
  /\ mode \in {"alone", "threads"}
  /\ life \in {"constructing", "ready", "failed", "destroyed"}
  /\ spawned \in 0 .. Count
  /\ at \in [Workers -> {"none", "wait", "decode", "exited"}]
  /\ observed \in [Workers -> Generations]
  /\ block \in [Workers -> 0 .. MaxBlocks + Count]
  /\ caller \in [Callers -> {"idle", "wait", "copy"}]
  /\ asleep \subseteq Workers \union Callers
  /\ input \in Calls /\ blockCount \in 0 .. MaxBlocks
  /\ generation \in Generations /\ finished \in 0 .. Count
  /\ stopping \in BOOLEAN /\ failure \in Calls
  /\ result \in [Blocks -> Calls]
  /\ outcomes \in Seq(Outcomes)
  /\ broken \subseteq Calls

\* The workers that have finished with the call that is waited for
Done == {w \in Workers : at[w] = "wait" /\ observed[w] = generation}

\* Which threads there are at each stage of the pool's life
LifeInv ==
  /\ stopping <=> life \in {"failed", "destroyed"}
  /\ life = "constructing" => ~Alone /\ spawned < Count
  /\ life = "ready" => spawned = IF Alone THEN 0 ELSE Count
  /\ \A w \in Workers : at[w] = "none" <=> w >= spawned
  /\ \A w \in Workers : at[w] = "exited" => stopping
  /\ generation <= input + 1
  /\ ~stopping => generation <= input

\* One call at a time, and finished_workers counts the workers done with it.
CallInv ==
  /\ \A c \in Callers : caller[c] # "idle" =>
       /\ life = "ready"
       /\ \A d \in Callers : caller[d] # "idle" => d = c
  /\ \A c \in Callers : caller[c] = "wait" => ~Alone /\ finished = Cardinality(Done)

\* Workers decode for the call that waits; without one, all have seen the
\* last generation and none will start.
RoundInv ==
  /\ \A w \in Workers : observed[w] <= generation
  /\ \A w \in Workers : at[w] = "decode" =>
       /\ observed[w] = generation
       /\ \E c \in Callers : caller[c] = "wait"
  /\ ~stopping /\ (\A c \in Callers : caller[c] # "wait")
       => \A w \in Workers : observed[w] = generation

\* The inductive invariant: finished_workers is exactly the number of workers
\* past the generation barrier of the call posted, and of no other call.
PoolInv == PoolTypeOK /\ LifeInv /\ CallInv /\ RoundInv

\* A worker touches the input and the results only while the caller waits in
\* decode_blocks(): the frame is not freed or replaced under it, even when a
\* block has thrown, and the decoder is not destroyed under it.
WorkersQuietBetweenCalls ==
  \A w \in Workers :
    at[w] = "decode" => /\ \E c \in Callers : caller[c] = "wait"
                               /\ observed[w] = generation
                               /\ finished < Count /\ ~stopping

\* A call returns only what was decoded from its own input, every block of it,
\* and throws exactly when one of its own blocks threw.
CallGetsItsOwn ==
  \A i \in DOMAIN outcomes :
    LET o == outcomes[i] IN
      /\ o.failed <=> o.call \in broken
      /\ ~o.failed => o.from = {o.call}

\* decode_blocks() returns or throws: the last worker wakes the caller.
EveryCallReturns ==
  \A c \in Callers : caller[c] = "wait" ~> caller[c] = "idle"

\* The constructor that fails and the destructor join every thread started.
StopJoins ==
  stopping ~> \A w \in Workers : at[w] \in {"none", "exited"}

\* The two together with the results: whoever calls gets an answer of its own,
\* and the pool can always be taken down.
CallsAreAnswered == []CallGetsItsOwn /\ EveryCallReturns /\ StopJoins
=============================================================================
