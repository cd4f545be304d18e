------------------------------ MODULE MCSimAir ------------------------------
(* Instances of SimAir for TLC, and what they check.                       *)
EXTENDS SimAir

OnTime(cell) == cell = Silence \/ cell.meant = cell.aired

\* What a step appends to a transmit ring.
Sent(s) ==
  SubSeq(ring'[s].cells, Len(ring[s].cells) + 1, Len(ring'[s].cells))
SendsOnTime(s) ==
  ring'[s].written > ring[s].written =>
    \A i \in DOMAIN Sent(s) : OnTime(Sent(s)[i])

\* A frame goes on the air at the time it was made for, however send() was cut
\* short by a full ring: the one exception is an uplink of which a period was
\* given up, until the UE has restarted it (UplinkTxEngine::_tx_proc,
\* "[UL-TX] short send; dropping").
SentOnTime ==
  [][/\ snd["ul.tx"].errors = 0 => SendsOnTime("ul.tx")
     /\ SendsOnTime("tx")]_vars

\* The hub neither delays nor advances anything: what waits on a receive ring at
\* an air time was put on the air at that time, or is silence, also on the
\* uplink ring, whose samples come late, too late, or not at all
\* (ChannelSimulator.cpp, "Map this BS-clock interval").
HeardWhenAired ==
  \A r \in RxRings : \A i \in DOMAIN ring[r].cells :
    ring[r].cells[i] = Silence \/ ring[r].cells[i].aired = AirTime(ring[r], i)

\* The time stamp of a received block is the air time of its first sample,
\* whatever start was asked for, taken, cut short or superseded meanwhile
\* (SimRxStream::_apply_pending_start and recv).
StampIsAirTime ==
  \A r \in RxRings : \A i \in DOMAIN rcv[r].got :
    LET c == rcv[r].got[i] IN c = Silence \/ c.aired = rcv[r].stamp + i - 1

\* Full rings make every process wait for another one, and none forever: as
\* long as the UE keeps receiving, the hub carries all the frames of the base
\* station through the air, whether the uplink has samples for it or not ("the
\* hub paces TX via shared-memory backpressure"; "the output timeline never
\* pauses").
AirKeepsMoving == (<>[]rcv["rx.comm"].streaming) => <>(clock >= Horizon)
=============================================================================
