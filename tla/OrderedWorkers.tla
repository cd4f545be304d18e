--------------------------- MODULE OrderedWorkers ---------------------------
(***************************************************************************)
(* The ordered round-robin stage that the UE uses twice (src/UE.cpp): one  *)
(* control thread hands tasks to N workers in turn and collects their      *)
(* results in the same turn, so results keep the order of the tasks.  Each *)
(* worker has a ring of tasks and a ring of results, both kPipelineDepth   *)
(* long; pending is the control thread's own count of what a worker holds. *)
(***************************************************************************)
EXTENDS Integers, Sequences

CONSTANTS
  Workers,  \* how many workers there are
  Depth     \* kPipelineDepth

VARIABLES
  slots,    \* each worker's rings and its pending count
  launch,   \* launch_slot_idx
  collect   \* collect_slot_idx

ids == 0..(Workers - 1)

Init ==
  /\ slots = [w \in ids |-> [tasks |-> <<>>, results |-> <<>>, pending |-> 0]]
  /\ launch = 0
  /\ collect = 0

Following(i) == (i + 1) % Workers

\* Mutant: only the task ring limits what a worker is given.
FullRing == Len(slots[launch].tasks) >= Depth

\* The worker whose turn it is holds as much as it may.
Full == slots[launch].pending >= Depth

CanPush == Len(slots[launch].tasks) < Depth

Dispatch(x) ==
  /\ CanPush
  /\ slots' = [slots EXCEPT ![launch].tasks = Append(@, x), ![launch].pending = @ + 1]
  /\ launch' = Following(launch)
  /\ UNCHANGED collect

\* A worker takes a task, runs it and commits the result r.  Nobody sees anything
\* between, so this is one step.
Work(w, r) ==
  /\ slots[w].tasks # <<>>
  /\ Len(slots[w].results) < Depth
  /\ slots' = [slots EXCEPT ![w].tasks = Tail(@), ![w].results = Append(@, r)]
  /\ UNCHANGED <<launch, collect>>

Ready == slots[collect].results # <<>>

Result == Head(slots[collect].results)

\* Mutant: a worker that is not done yet loses its turn.
PopReady ==
  /\ slots' = [slots EXCEPT ![collect].results = Tail(@), ![collect].pending = @ - 1]
  /\ collect' = IF slots[Following(collect)].results # <<>> THEN Following(collect)
                ELSE collect
  /\ UNCHANGED launch

\* consumer_pop, and on to the next worker.
Pop ==
  /\ slots' = [slots EXCEPT ![collect].results = Tail(@), ![collect].pending = @ - 1]
  /\ collect' = Following(collect)
  /\ UNCHANGED launch

\* After the workers have been joined, their rings are emptied.
Reset ==
  /\ slots' = [w \in ids |-> [tasks |-> <<>>, results |-> <<>>, pending |-> 0]]
  /\ UNCHANGED <<launch, collect>>
=============================================================================
