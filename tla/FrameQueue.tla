----------------------------- MODULE FrameQueue -----------------------------
(***************************************************************************)
(* What a two-slot pipeline promises its callers: submit() accepts a frame  *)
(* when a slot is free, and receive() answers the frames one by one, in the *)
(* order they were accepted, with a result or with the frame's own failure. *)
(***************************************************************************)
EXTENDS Integers, Sequences

CONSTANTS Frames, Capacity

VARIABLES accepted,   \* frames accepted, in order
          answers     \* what receive() gave for them

Init == accepted = <<>> /\ answers = <<>>

Accept ==
  /\ Len(accepted) - Len(answers) < Capacity
  /\ \E f \in Frames :
       /\ \A i \in DOMAIN accepted : accepted[i] # f
       /\ accepted' = Append(accepted, f)
  /\ UNCHANGED answers

Answer ==
  /\ Len(answers) < Len(accepted)
  /\ \E failed \in BOOLEAN :
       answers' = Append(answers, [frame  |-> accepted[Len(answers) + 1],
                                   failed |-> failed])
  /\ UNCHANGED accepted

Spec == Init /\ [][Accept \/ Answer]_<<accepted, answers>>
=============================================================================
