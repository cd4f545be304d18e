---------------------------- MODULE MCUeReceive -----------------------------
(* Instances of UeReceive for TLC, and what they check.                    *)
EXTENDS UeReceive

\* The packets of the frames are handled in the order in which the radio delivered
\* the frames, whichever workers were done first and whatever was dropped between;
\* so what an earlier generation leaves behind never comes after a frame of a
\* later one (collect_ready_slots, collect_ready_ldpc).
InFrameOrder ==
  [][seen'.decoded # seen.decoded => seen'.decoded > seen.decoded]_vars

\* What each thread, ring and worker holds of each kind of buffer.
InUse ==
  [rx      |-> Len(rx.hand \o rx.queue) + Waiting(demod, D!ids)
               + Cardinality(Uncollected),
   llr     |-> Cardinality(WithLlr) + Len(llrs) + Waiting(decode, L!ids),
   sensing |-> Cardinality(WithSensing) + Len(sensing)
               - (IF proc.pc = "llr" THEN 1 ELSE 0)]

\* No worker holds more than its rings do, in whichever of them its frames are.
RingsSuffice ==
  /\ \A w \in D!ids : Len(demod[w].tasks \o demod[w].results) <= Depth
  /\ \A w \in L!ids : Len(decode[w].tasks \o decode[w].results) <= Depth

\* Every buffer is in its pool or in one place, on every path a frame may take:
\* none leaks and none is given back twice, through drops, resynchronisations and
\* stop().  And no worker holds more than its rings, so the buffers laid out in
\* advance are enough (_prefill_pools_for_topology; "so a free producer slot is
\* guaranteed").
BuffersSuffice == (\A p \in DOMAIN pool : pool[p] + InUse[p] = Target[p]) /\ RingsSuffice

\* An alignment that has been collected but not yet measured is not forgotten
\* before the receiver resynchronises: a frame that the sensing thread will not
\* drop forces the measurement, or the next one that gets there will
\* (_ertm_remeasure_deferred_after_sensing_drop; sensing_process_proc drops what
\* is of an earlier generation, and an alignment with it).
MeasurementIsOwed ==
  seen.unmeasured # 0 /\ seen.gen = sync.gen /\ SensingRunning =>
    \/ proc.deferred
    \/ \E i \in DOMAIN sensing :
         sensing[i].force /\ ~Stale(sensing[i]) /\ sensing[i].n >= seen.unmeasured

\* The frames between the frame queue and the packets.
Under(slots, ids) ==
  UNION {{x.n : x \in {slots[w].tasks[i] : i \in DOMAIN slots[w].tasks}} \union
         {slots[w].results[i].frame.n : i \in DOMAIN slots[w].results} : w \in ids}
UnderWay ==
  UNION {Under(demod, D!ids), Under(decode, L!ids),
         {llrs[i].n : i \in DOMAIN llrs}}

\* When the radio delivers no more, every frame handed to the workers is decoded or
\* dropped in the end (UE.cpp, "so in-flight frames are not stranded when the RX
\* stream stalls").
NoneIsStranded == <>[](UnderWay = {})

\* stop() comes to an end from wherever it finds the threads, although the process
\* thread may be waiting for room among the LLRs and the dispatchers for a worker.
StopEnds == ~Running ~> stop = "done"

\* Whichever comes, the threads do not wait for one another for ever.
EverythingEnds == NoneIsStranded /\ StopEnds
=============================================================================
