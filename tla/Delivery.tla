------------------------------ MODULE Delivery ------------------------------
(***************************************************************************)
(* What a datagram link promises its users: the datagrams taken are         *)
(* numbered 0, 1, ...; each is handed out at most once, only after it was   *)
(* taken, and in the order they were taken when InOrder is set.             *)
(***************************************************************************)
EXTENDS Integers, Sequences

CONSTANT InOrder

VARIABLES taken,   \* datagrams taken from the sending user
          output   \* datagrams handed to the receiving user

Init == taken = 0 /\ output = <<>>

Take == taken' = taken + 1 /\ UNCHANGED output

Deliver ==
  /\ Len(output') > Len(output)
  /\ SubSeq(output', 1, Len(output)) = output
  /\ \A i \in 1 .. Len(output') : output'[i] \in 0 .. (taken - 1)
  /\ \A i, j \in 1 .. Len(output') :
       i < j => /\ output'[i] # output'[j]
                /\ InOrder => output'[i] < output'[j]
  /\ UNCHANGED taken

Spec == Init /\ [][Take \/ Deliver]_<<taken, output>>
=============================================================================
