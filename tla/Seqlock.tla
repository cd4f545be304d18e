------------------------------ MODULE Seqlock -------------------------------
(***************************************************************************)
(* SeqlockedChannelEstimate (src/include/Common.hpp): one writer publishes  *)
(* a buffer of samples, readers copy the latest one.  The BS publishes the  *)
(* uplink channel it estimated and its encode thread reads it.              *)
(*                                                                         *)
(* A sample is the number of the store() that wrote it.  A store is a set   *)
(* of writes to shared memory and a copy a set of reads from it; each is an *)
(* action.  InOrder says that they take effect in program order, as x86     *)
(* makes them.  Otherwise only what acquire and release promise holds: a    *)
(* release store follows the writes before it, but the relaxed writes after *)
(* it need not; an acquire load precedes the reads after it, but the        *)
(* relaxed reads before it need not.                                        *)
(***************************************************************************)
EXTENDS Integers

CONSTANTS Slots,      \* indices of _buf, 0 .. _size - 1
          Readers,    \* threads that call load()
          SeqValues,  \* values of _seq: 2^32 in the code
          MaxStores,  \* bound of the model on the calls of store()
          InOrder     \* the memory keeps program order

ASSUME SeqlockAssumption ==
  /\ Slots \in SUBSET Nat
  /\ SeqValues \in Nat /\ SeqValues > 1
  /\ MaxStores \in Nat
  /\ InOrder \in BOOLEAN

VARIABLES seq,      \* _seq
          buf,      \* _buf
          begun,    \* calls of store() so far
          pending,  \* writes of the current store() not yet in memory
          load      \* load() of each reader

seqlockVars == <<seq, buf, begun, pending, load>>

Versions == 0 .. MaxStores
\* The accesses to _seq, next to the slots in the sets of what is left to do.
Enter == -1
Leave == -2
Check == -3

\* Calls of store() whose writes are all in memory.
Stored == IF pending = {} THEN begun ELSE begun - 1

Loads == [at : {"idle", "copy", "done", "none"}, s1 : 0 .. SeqValues - 1,
          s2 : 0 .. SeqValues - 1, todo : SUBSET (Slots \union {Check}),
          out : [Slots -> Versions], from : Versions]

SeqlockInit ==
  /\ seq = 0
  /\ buf = [i \in Slots |-> 0]
  /\ begun = 0
  /\ pending = {}
  /\ load = [r \in Readers |->
              [at |-> "idle", s1 |-> 0, s2 |-> 0, todo |-> {},
               out |-> [i \in Slots |-> 0], from |-> 0]]

-----------------------------------------------------------------------------
Bump == seq' = (seq + 1) % SeqValues

\* store() is called with the next estimate.
Store ==
  /\ pending = {}
  /\ begun < MaxStores
  /\ begun' = begun + 1
  /\ pending' = {Enter, Leave} \union Slots
  /\ UNCHANGED <<seq, buf, load>>

\* _seq.store(s + 1, release)
WriteEnter ==
  /\ Enter \in pending
  /\ Bump
  /\ pending' = pending \ {Enter}
  /\ UNCHANGED <<buf, begun, load>>

\* _buf[i].store(.., relaxed): not bound by the release store before it.
WriteSlot(i) ==
  /\ i \in pending
  /\ InOrder => Enter \notin pending
  /\ buf' = [buf EXCEPT ![i] = begun]
  /\ pending' = pending \ {i}
  /\ UNCHANGED <<seq, begun, load>>

\* _seq.store(s + 2, release): after every write before it.
WriteLeave ==
  /\ pending = {Leave}
  /\ Bump
  /\ pending' = {}
  /\ UNCHANGED <<buf, begun, load>>

-----------------------------------------------------------------------------
\* load() is called.
Call(r) ==
  /\ load[r].at # "copy"
  /\ \/ /\ seq = 0                             \* never published
        /\ load' = [load EXCEPT ![r] = [@ EXCEPT !.at = "none", !.from = Stored]]
     \/ /\ seq # 0 /\ seq % 2 = 0
        /\ load' = [load EXCEPT ![r] =
             [@ EXCEPT !.at = "copy", !.s1 = seq, !.from = Stored,
                       !.todo = Slots \union {Check}]]
  /\ UNCHANGED <<seq, buf, begun, pending>>

\* out[i] = _buf[i].load(relaxed)
ReadSlot(r, i) ==
  /\ load[r].at = "copy" /\ i \in load[r].todo
  /\ load' = [load EXCEPT ![r] =
       [@ EXCEPT !.out[i] = buf[i], !.todo = load[r].todo \ {i}]]
  /\ UNCHANGED <<seq, buf, begun, pending>>

\* s2 = _seq.load(acquire): not held back by the relaxed reads before it.
ReadCheck(r) ==
  /\ load[r].at = "copy" /\ Check \in load[r].todo
  /\ InOrder => load[r].todo = {Check}
  /\ load' = [load EXCEPT ![r] =
       [@ EXCEPT !.s2 = seq, !.todo = load[r].todo \ {Check}]]
  /\ UNCHANGED <<seq, buf, begun, pending>>

\* Mutant: the copy is returned without comparing the two reads.
ReturnUnchecked(r) ==
  /\ load[r].at = "copy" /\ load[r].todo = {}
  /\ load' = [load EXCEPT ![r].at = "done"]
  /\ UNCHANGED <<seq, buf, begun, pending>>

\* s1 == s2 returns the copy; a store overlapped it otherwise, and the
\* counter is read again.
Return(r) ==
  /\ load[r].at = "copy" /\ load[r].todo = {} /\ load[r].s1 = load[r].s2
  /\ load' = [load EXCEPT ![r].at = "done"]
  /\ UNCHANGED <<seq, buf, begun, pending>>

Retry(r) ==
  /\ load[r].at = "copy" /\ load[r].todo = {} /\ load[r].s1 # load[r].s2
  /\ \/ /\ seq = 0
        /\ load' = [load EXCEPT ![r].at = "none"]
     \/ /\ seq # 0 /\ seq % 2 = 0
        /\ load' = [load EXCEPT ![r] =
             [@ EXCEPT !.s1 = seq, !.todo = Slots \union {Check}]]
  /\ UNCHANGED <<seq, buf, begun, pending>>

-----------------------------------------------------------------------------
SeqlockNext ==
  \/ Store \/ WriteEnter \/ WriteLeave
  \/ \E i \in Slots : WriteSlot(i)
  \/ \E r \in Readers : Call(r) \/ ReadCheck(r) \/ Return(r) \/ Retry(r)
  \/ \E r \in Readers, i \in Slots : ReadSlot(r, i)

SeqlockSpec == SeqlockInit /\ [][SeqlockNext]_seqlockVars

-----------------------------------------------------------------------------
\* A copy that load() returns is one estimate, not a mixture of two: "the
\* seqlock detects overlapping snapshots" (Common.hpp, above the class).
SnapshotWhole ==
  \A r \in Readers : load[r].at = "done" =>
    \A i, j \in Slots : load[r].out[i] = load[r].out[j]

\* The estimate returned is not older than the last one whose store() had
\* taken effect when load() was called, whatever was retried since.
SnapshotIsCurrent ==
  \A r \in Readers : load[r].at = "done" =>
    \A i \in Slots : load[r].out[i] \in load[r].from .. begun

\* Both: what load() promises of the estimate it returns.
SnapshotIsSound == SnapshotWhole /\ SnapshotIsCurrent

-----------------------------------------------------------------------------
(***************************************************************************)
(* What holds of a copy in whatever order memory takes the relaxed accesses *)
(* and however often _seq wraps: the sets of accesses still to be made are   *)
(* enough, and the counter is not looked at.                                *)
(***************************************************************************)
\* Nothing was published since load() was called: its copy is one estimate.
UndisturbedIsWhole ==
  \A r \in Readers : load[r].at = "done" /\ load[r].from = begun =>
    \A i \in Slots : load[r].out[i] = begun

SeqlockTypeOK ==
  /\ seq \in 0 .. SeqValues - 1
  /\ buf \in [Slots -> Versions]
  /\ begun \in Versions
  /\ pending \in SUBSET ({Enter, Leave} \union Slots)
  /\ load \in [Readers -> Loads]

\* A slot holds the last estimate, or the one before it while the store that
\* writes it is still under way; the release store of _seq comes last.
SlotsFollowStores ==
  /\ pending # {} => Leave \in pending /\ begun > 0
  /\ \A i \in Slots : buf[i] = IF i \in pending THEN begun - 1 ELSE begun

\* A slot copied since the call, or since the last retry, is not older than
\* what was in memory at the call; nothing is returned half copied.
CopyIsCurrent(l) ==
  /\ l.from <= Stored
  /\ l.at = "done" => l.todo = {}
  /\ l.at \in {"copy", "done"} =>
       \A i \in Slots \ l.todo : l.out[i] \in l.from .. begun

CopiesAreCurrent == \A r \in Readers : CopyIsCurrent(load[r])

SeqlockInv == SeqlockTypeOK /\ SlotsFollowStores /\ CopiesAreCurrent
=============================================================================
