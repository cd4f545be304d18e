------------------------------ MODULE ShmRing ------------------------------
(***************************************************************************)
(* The shared-memory sample ring between two processes of the channel      *)
(* simulation (include/ShmRing.hpp).  A ring has one producer and one      *)
(* consumer, two counters that only grow, and an origin: the absolute      *)
(* sample index of ring position 0, set once.  A cell says what the sample *)
(* is, not its value: the air time its sender meant it for, and the air    *)
(* time at which the sender in fact put it on its ring.                    *)
(***************************************************************************)
EXTENDS Integers, SequencesExt

\* kShmTimelineUnset: the ring stands for no air time yet.
Unset == -1

\* The complex zero that fills gaps, prefixes and missing uplink samples.
Silence == [meant |-> Unset, aired |-> Unset]

\* ShmRing::create: no origin, both counters 0; `cells` holds what was
\* written and not yet read.
FreshRing == [origin |-> Unset, written |-> 0, read |-> 0, cells |-> <<>>]

Available(r) == r.written - r.read

FreeSlots(r, capacity) == capacity - Available(r)

OriginIsSet(r) == r.origin # Unset

\* set_timeline_origin: done once; the ring is never moved to another origin.
WithOrigin(r, origin) == [r EXCEPT !.origin = origin]

AbsoluteConsumed(r) == IF OriginIsSet(r) THEN r.origin + r.read ELSE Unset
AbsoluteProduced(r) == IF OriginIsSet(r) THEN r.origin + r.written ELSE Unset

\* One turn of push_block's loop: as many of the samples as there are slots.
Pushed(r, samples) ==
  [r EXCEPT !.written = @ + Len(samples), !.cells = @ \o samples]

\* One turn of pop_block's, pop_upto's or skip_block's loop, for n <= available.
Popped(r, n) ==
  [r EXCEPT !.read = @ + n, !.cells = SubSeq(@, n + 1, Len(@))]
FirstCells(r, n) == SubSeq(r.cells, 1, n)

\* The air time of the i-th unread cell.
AirTime(r, i) == r.origin + r.read + i - 1
=============================================================================
