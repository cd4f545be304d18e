------------------------------- MODULE SimAir -------------------------------
(***************************************************************************)
(* The simulated air: two transmit streams, the hub process that carries   *)
(* their samples to the receive rings, and the receive streams             *)
(* (src/ChannelSimulator.cpp, src/SimBackend.cpp, include/ShmRing.hpp),    *)
(* driven by the downlink TX thread of the base station (src/BS.cpp) and   *)
(* by the uplink TX thread of the UE (include/UplinkTxEngine.hpp).         *)
(*                                                                         *)
(* Time is counted in samples.  The channel is one path of delay 0 and     *)
(* clocks run at one rate, so a sample that is on the air at t arrives at  *)
(* t: what is left is which sample every process believes t to be.         *)
(***************************************************************************)
EXTENDS ShmRing, FiniteSetsExt

CONSTANTS
  RingCapacity,   \* simulation.ring_capacity_samples
  FrameLen,       \* samples of a downlink frame, and of an uplink period
  ChunkMax,       \* the most samples the hub takes at a time
  RecvLen,        \* samples a receiver asks for
  StartLead,      \* how far ahead of the clock a transmitter starts
  Horizon,        \* bound: no transmission is started at or after this time
  StartTimes,     \* start times the UE asks its receiver for
  CommandLimit,   \* bound: stream commands given to the receiver of the UE
  UlErrors        \* bound: uplink periods given up

ASSUME SimAirAssumption ==
  /\ {RingCapacity, FrameLen, ChunkMax, RecvLen, StartLead} \subseteq Nat \ {0}
  /\ {Horizon, CommandLimit, UlErrors} \subseteq Nat
  /\ StartTimes \subseteq Nat

TxRings   == {"tx", "ul.tx"}
RxRings   == {"rx.comm", "rx.ul"}

VARIABLES
  ring,     \* the four rings of the session
  clock,    \* sample_index of the control block
  snd,      \* the transmit stream, and the thread that drives it, per ring
  hub,      \* the hub's loop
  rcv,      \* the receive stream, and the thread that drives it, per ring
  budget    \* what is left of the bounds

vars == <<ring, clock, snd, hub, rcv, budget>>

FreshSender(start) ==
  [pc |-> "idle", inBurst |-> FALSE, first |-> TRUE, next |-> start,
   sob |-> FALSE, timed |-> FALSE, at |-> 0, gap |-> 0, left |-> 0,
   refused |-> FALSE, errors |-> 0]

FreshReceiver ==
  [pc |-> "idle", streaming |-> FALSE, pending |-> FALSE, requested |-> 0,
   target |-> 0, skip |-> 0, stamp |-> Unset, late |-> FALSE, got |-> <<>>]

Init ==
  /\ ring = [r \in TxRings \union RxRings |-> FreshRing]
  /\ clock = 0
  /\ snd = [r \in TxRings |-> FreshSender(StartLead)]
  /\ hub = [pc |-> "pop", start |-> 0, line |-> <<>>, ul |-> <<>>, size |-> 0,
            stale |-> 0]
  /\ rcv = [r \in RxRings |->
              [FreshReceiver EXCEPT
                 !.streaming = TRUE, !.pending = TRUE,
                 \* BSEngine::start: the start of the downlink; UEEngine::start,
                 \* with the clock still at 0: earlier than any sample.
                 !.requested = IF r = "rx.ul" THEN StartLead ELSE 0]]
  /\ budget = [commands |-> CommandLimit, errors |-> UlErrors]

-----------------------------------------------------------------------------
(* Transmitting: SimTxStream::send and its two callers.                    *)

\* The samples of the frame still to send, and where they will be on the air.
Rest(s) ==
  [i \in 1..snd[s].left |->
     [meant |-> snd[s].next + FrameLen - snd[s].left + i - 1,
      aired |-> AbsoluteProduced(ring[s]) + i - 1]]

\* BSEngine::_tx_proc and UplinkTxEngine::_tx_proc: every frame carries its
\* time; only the first of a burst says that it starts one.
Begun(t) ==
  [t EXCEPT !.pc = "call", !.left = FrameLen, !.sob = t.first, !.timed = TRUE,
            !.at = t.next]

\* The end of a frame: the next one follows, in the same burst.
FrameDone(t) ==
  [t EXCEPT !.pc = "idle", !.next = @ + FrameLen, !.first = FALSE,
            !.left = 0, !.refused = FALSE, !.gap = 0]

\* Mutant: the uplink, too, drops the time after any call.
AfterSendUntimed(s, t, n) ==
  LET u == [t EXCEPT !.left = @ - n, !.pc = "call", !.gap = 0, !.refused = n = 0,
                     !.sob = FALSE, !.timed = FALSE]
  IN  IF u.left = 0 THEN FrameDone(u) ELSE u

\* send() gave n samples to the ring.  BSEngine::_send_frame_chunked drops
\* the time after any call and, with the simulator alive, calls again;
\* UplinkTxEngine::_send_samples drops it after a call that sent something.
AfterSend(s, t, n) ==
  LET kept == s = "ul.tx" /\ n = 0
      u == [t EXCEPT !.left = @ - n, !.pc = "call", !.gap = 0, !.refused = n = 0,
                     !.sob = kept /\ @, !.timed = kept /\ @]
  IN  IF u.left = 0 THEN FrameDone(u) ELSE u

\* SimTxStream::send up to the push: a ring without an origin takes the
\* requested time, or the clock; a timed start of a burst is refused when it
\* is late and preceded by silence when it is early.
Call(s) ==
  LET t       == IF snd[s].pc = "idle" THEN Begun(snd[s]) ELSE snd[s]
      r       == ring[s]
      start   == IF t.timed THEN t.at ELSE clock
      starts  == t.sob \/ ~t.inBurst
      pushing == [t EXCEPT !.pc = "push", !.inBurst = TRUE]
  IN  /\ t.pc = "call"
      /\ snd[s].pc = "idle" => t.next < Horizon
      /\ \/ /\ ~OriginIsSet(r)
            /\ ring' = [ring EXCEPT ![s] = WithOrigin(r, start)]
            /\ snd' = [snd EXCEPT ![s] = pushing]
         \/ /\ OriginIsSet(r)
            /\ UNCHANGED ring
            /\ snd' = [snd EXCEPT ![s] =
                 IF ~(starts /\ t.timed) THEN pushing
                 ELSE IF start < AbsoluteProduced(r) THEN AfterSend(s, t, 0)
                 ELSE IF start = AbsoluteProduced(r) THEN pushing
                 ELSE [t EXCEPT !.pc = "gap", !.gap = start - AbsoluteProduced(r)]]
      /\ UNCHANGED <<clock, hub, rcv, budget>>

\* SimTxStream::_write_gap: silence up to the start of the burst.
WriteGap(s) ==
  LET t == snd[s]
      n == Min({t.gap, FreeSlots(ring[s], RingCapacity)})
  IN
  /\ t.pc = "gap"
  /\ n > 0
  /\ ring' = [ring EXCEPT ![s] = Pushed(@, [i \in 1..n |-> Silence])]
  /\ snd' = [snd EXCEPT ![s] =
       IF n = t.gap THEN [t EXCEPT !.pc = "push", !.gap = 0, !.inBurst = TRUE]
                    ELSE [t EXCEPT !.gap = @ - n]]
  /\ UNCHANGED <<clock, hub, rcv, budget>>

\* The ring stays full until the timeout: send() returns 0, the silence
\* already written stays, and the burst has not begun.
GapTimeout(s) ==
  /\ snd[s].pc = "gap"
  /\ FreeSlots(ring[s], RingCapacity) = 0
  /\ snd' = [snd EXCEPT ![s] = AfterSend(s, @, 0)]
  /\ UNCHANGED <<ring, clock, hub, rcv, budget>>

\* push_block on the samples of the frame.
Push(s) ==
  LET t == snd[s]
      n == Min({t.left, FreeSlots(ring[s], RingCapacity)})
  IN
  /\ t.pc = "push"
  /\ n > 0
  /\ ring' = [ring EXCEPT ![s] = Pushed(@, SubSeq(Rest(s), 1, n))]
  /\ snd' = [snd EXCEPT ![s] =
       [AfterSend(s, t, n) EXCEPT !.pc = IF n = t.left THEN @ ELSE "push"]]
  /\ UNCHANGED <<clock, hub, rcv, budget>>

\* push_block times out on a full ring.  What it had pushed was accounted for
\* by Push; a call that pushed nothing returns 0.  (A call cut short and the
\* next one, which finds the ring still full, are one step.)
PushTimeout(s) ==
  /\ snd[s].pc = "push"
  /\ FreeSlots(ring[s], RingCapacity) = 0
  /\ snd' = [snd EXCEPT ![s] =
       IF @.left = FrameLen THEN AfterSend(s, @, 0)
                            ELSE [@ EXCEPT !.pc = "call", !.refused = TRUE]]
  /\ UNCHANGED <<ring, clock, hub, rcv, budget>>

\* UplinkTxEngine::_send_samples gives up after many calls that sent nothing:
\* the rest of the period is dropped and the error counted.  A burst of which
\* nothing was sent is still to be started.
GiveUp ==
  LET t == snd["ul.tx"] IN
  /\ t.pc = "call"
  /\ t.refused
  /\ budget.errors > 0
  /\ snd' = [snd EXCEPT !["ul.tx"] =
       [FrameDone(t) EXCEPT !.first = t.first /\ t.left = FrameLen,
                            !.errors = @ + 1]]
  /\ budget' = [budget EXCEPT !.errors = @ - 1]
  /\ UNCHANGED <<ring, clock, hub, rcv>>

\* The UE answers an error with a timed restart of the uplink: the burst is
\* ended and a new one starts ahead of the clock.
UlRestart ==
  LET t == snd["ul.tx"] IN
  /\ t.pc = "idle"
  /\ t.errors > 0
  /\ snd' = [snd EXCEPT !["ul.tx"] =
       [t EXCEPT !.inBurst = FALSE, !.first = TRUE, !.next = clock + StartLead,
                 !.errors = 0]]
  /\ UNCHANGED <<ring, clock, hub, rcv, budget>>

-----------------------------------------------------------------------------
(* The hub: one chunk of downlink air at a time.                           *)

\* wait_for_timeline_origin, pop_upto and the stamps: every receive ring whose
\* origin is still open starts at this chunk.
HubPop ==
  LET r == ring["tx"]
      n == Min({Available(r), ChunkMax})
      t == AbsoluteConsumed(r)
  IN  /\ hub.pc = "pop"
      /\ OriginIsSet(r)
      /\ n > 0
      /\ ring' = [q \in DOMAIN ring |->
           IF q = "tx" THEN Popped(r, n)
           ELSE IF q \in RxRings /\ ~OriginIsSet(ring[q]) THEN WithOrigin(ring[q], t)
           ELSE ring[q]]
      /\ clock' = t
      /\ hub' = [hub EXCEPT !.pc = "publish", !.start = t, !.line = FirstCells(r, n),
                            !.size = n]
      /\ UNCHANGED <<snd, rcv, budget>>

\* push_block without a timeout on the downlink ring: the hub, and through it
\* the air, waits for the receiver.
HubPublish ==
  LET n == Min({Len(hub.line), FreeSlots(ring["rx.comm"], RingCapacity)}) IN
  /\ hub.pc = "publish"
  /\ n > 0
  /\ ring' = [ring EXCEPT !["rx.comm"] = Pushed(@, SubSeq(hub.line, 1, n))]
  /\ hub' = [hub EXCEPT !.line = SubSeq(@, n + 1, Len(@)),
                        !.pc = IF n = Len(hub.line) THEN "uplink" ELSE @]
  /\ UNCHANGED <<clock, snd, rcv, budget>>

\* Where the chunk lies on the uplink stream: a future start leaves a prefix
\* of silence, a past one leaves samples that are too old to be sent.
HubMapUplink ==
  LET r        == ring["ul.tx"]
      relative == hub.start - r.origin
      silence(n) == [i \in 1..n |-> Silence]
  IN  /\ hub.pc = "uplink"
      /\ hub' = IF ~OriginIsSet(r)
                THEN [hub EXCEPT !.pc = "answer", !.ul = silence(hub.size)]
                ELSE IF relative < 0
                THEN [hub EXCEPT !.pc = "drain",
                                 !.ul = silence(Min({-relative, hub.size}))]
                ELSE [hub EXCEPT !.pc = "skip", !.ul = <<>>,
                                 !.stale = Max({0, relative - r.read})]
      /\ UNCHANGED <<ring, clock, snd, rcv, budget>>

\* Mutant: a stream that could not be aligned is read all the same.
HubSkipAnyway ==
  LET n == Min({hub.stale, Available(ring["ul.tx"])}) IN
  /\ hub.pc = "skip"
  /\ ring' = [ring EXCEPT !["ul.tx"] = Popped(@, n)]
  /\ hub' = IF n \in {0, hub.stale}
            THEN [hub EXCEPT !.pc = "drain", !.stale = 0]
            ELSE [hub EXCEPT !.stale = @ - n]
  /\ UNCHANGED <<clock, snd, rcv, budget>>

\* Mutant: pop_block and skip_block without a timeout.
HubDrainBlocking ==
  LET r == ring["ul.tx"]
      n == Min({hub.size - Len(hub.ul), Available(r)})
  IN  /\ hub.pc = "drain"
      /\ n > 0 \/ Len(hub.ul) = hub.size
      /\ ring' = [ring EXCEPT !["ul.tx"] = Popped(r, n)]
      /\ hub' = [hub EXCEPT !.ul = @ \o FirstCells(r, n),
                            !.pc = IF n = 0 THEN "answer" ELSE @]
      /\ UNCHANGED <<clock, snd, rcv, budget>>

\* skip_block with a timeout of 0: stops at the first empty ring; then the
\* stream is not aligned and nothing of it is sent in this chunk.
HubSkip ==
  LET n == Min({hub.stale, Available(ring["ul.tx"])}) IN
  /\ hub.pc = "skip"
  /\ ring' = [ring EXCEPT !["ul.tx"] = Popped(@, n)]
  /\ hub' = IF n = hub.stale THEN [hub EXCEPT !.pc = "drain", !.stale = 0]
            ELSE IF n > 0    THEN [hub EXCEPT !.stale = @ - n]
            ELSE [hub EXCEPT !.pc = "answer", !.stale = 0,
                             !.ul = [i \in 1..hub.size |-> Silence]]
  /\ UNCHANGED <<clock, snd, rcv, budget>>

\* pop_block with a timeout of 0: what is there, then silence.
HubDrain ==
  LET r == ring["ul.tx"]
      n == Min({hub.size - Len(hub.ul), Available(r)})
  IN  /\ hub.pc = "drain"
      /\ ring' = [ring EXCEPT !["ul.tx"] = Popped(r, n)]
      /\ hub' = IF n > 0
                THEN [hub EXCEPT !.ul = @ \o FirstCells(r, n)]
                ELSE [hub EXCEPT !.pc = "answer",
                        !.ul = @ \o [i \in 1..(hub.size - Len(@)) |-> Silence]]
      /\ UNCHANGED <<clock, snd, rcv, budget>>

\* push_block on the uplink receive ring, then the clock of the control block.
HubAnswer ==
  LET n    == Min({Len(hub.ul), FreeSlots(ring["rx.ul"], RingCapacity)})
      done == n = Len(hub.ul)
  IN  /\ hub.pc = "answer"
      /\ n > 0
      /\ ring' = [ring EXCEPT !["rx.ul"] = Pushed(@, SubSeq(hub.ul, 1, n))]
      /\ hub' = [hub EXCEPT !.ul = SubSeq(@, n + 1, Len(@)),
                            !.pc = IF done THEN "pop" ELSE @]
      /\ clock' = IF done THEN hub.start + hub.size ELSE clock
      /\ UNCHANGED <<snd, rcv, budget>>

-----------------------------------------------------------------------------
(* Receiving: SimRxStream and the thread that calls recv() in a loop.      *)

\* issue_stream_cmd, from any thread and at any point of a recv().
Command(r) ==
  /\ budget.commands > 0
  /\ budget' = [budget EXCEPT !.commands = @ - 1]
  /\ \/ rcv' = [rcv EXCEPT ![r].streaming = FALSE, ![r].pending = FALSE]
     \/ \E t \in StartTimes :
          rcv' = [rcv EXCEPT ![r].streaming = TRUE, ![r].pending = TRUE,
                             ![r].requested = t]
  /\ UNCHANGED <<ring, clock, snd, hub>>

\* recv() gives up with nothing: a start that could not be made is made again
\* by the next call, unless the stream was stopped meanwhile.
StartAgain(q) ==
  [q EXCEPT !.pc = "idle", !.pending = @ \/ q.streaming, !.target = 0, !.skip = 0]

\* Mutant: the stamp is the start that was asked for.
StampedAsAsked(r, q) ==
  [q EXCEPT !.pc = "pop", !.got = <<>>, !.target = 0, !.skip = 0,
            !.stamp = IF q.pc = "seek" THEN q.target ELSE AbsoluteConsumed(ring[r])]

\* The stamp of the first sample, read when any seek is over.
Stamped(r, q) ==
  [q EXCEPT !.pc = "pop", !.stamp = AbsoluteConsumed(ring[r]), !.got = <<>>,
            !.target = 0, !.skip = 0]

\* recv() returns at once on a stopped stream; on a running one the pending
\* start is taken under the mutex and applied after it is released.
Recv(r) ==
  LET q == rcv[r] IN
  /\ q.pc = "idle"
  /\ rcv' = [rcv EXCEPT ![r] =
       IF ~q.streaming THEN q
       ELSE IF q.pending
       THEN [q EXCEPT !.pc = "seek", !.pending = FALSE, !.target = q.requested,
                      !.late = FALSE]
       ELSE Stamped(r, [q EXCEPT !.late = FALSE])]
  /\ UNCHANGED <<ring, clock, snd, hub, budget>>

\* The start is moved to the origin when it lies before it; one that lies
\* before the samples already consumed is late, and the data is returned with
\* that error.
Seek(r) ==
  LET q    == rcv[r]
      from == AbsoluteConsumed(ring[r])
      goal == Max({q.target, ring[r].origin})
  IN  /\ q.pc = "seek"
      /\ rcv' = [rcv EXCEPT ![r] =
           IF ~OriginIsSet(ring[r]) THEN StartAgain(q)
           ELSE IF goal < from THEN Stamped(r, [q EXCEPT !.late = TRUE])
           ELSE IF goal = from THEN Stamped(r, q)
           ELSE [q EXCEPT !.pc = "skip", !.skip = goal - from]]
      /\ UNCHANGED <<ring, clock, snd, hub, budget>>

\* skip_block, with the timeout of recv(): a seek cut short is repeated.
Skip(r) ==
  LET q == rcv[r]
      n == Min({q.skip, Available(ring[r])})
      next == [ring EXCEPT ![r] = Popped(@, n)]
  IN  /\ q.pc = "skip"
      /\ ring' = next
      /\ rcv' = [rcv EXCEPT ![r] =
           IF n = 0 THEN StartAgain(q)
           ELSE IF n < q.skip THEN [q EXCEPT !.skip = @ - n]
           ELSE [q EXCEPT !.pc = "pop", !.stamp = AbsoluteConsumed(next[r]),
                          !.got = <<>>, !.target = 0, !.skip = 0]]
      /\ UNCHANGED <<clock, snd, hub, budget>>

\* pop_block, with the timeout of recv(): a full block, or what came in time,
\* is returned to the caller's loop with the stamp.
Pop(r) ==
  LET q == rcv[r]
      n == Min({RecvLen - Len(q.got), Available(ring[r])})
      got == q.got \o FirstCells(ring[r], n)
  IN  /\ q.pc = "pop"
      /\ ring' = [ring EXCEPT ![r] = Popped(@, n)]
      /\ rcv' = [rcv EXCEPT ![r] =
           [q EXCEPT !.got = got,
                     !.pc = IF n = 0 \/ Len(got) = RecvLen THEN "idle" ELSE @]]
      /\ UNCHANGED <<clock, snd, hub, budget>>

-----------------------------------------------------------------------------
Transmit(s) == Call(s) \/ WriteGap(s) \/ Push(s)
HubStep     == \/ HubPop \/ HubPublish \/ HubMapUplink \/ HubSkip \/ HubDrain
               \/ HubAnswer
Receive(r)  == Recv(r) \/ Seek(r) \/ Skip(r) \/ Pop(r)

Next ==
  \/ \E s \in TxRings : Transmit(s) \/ GapTimeout(s) \/ PushTimeout(s)
  \/ GiveUp \/ UlRestart
  \/ HubStep
  \/ Command("rx.comm")
  \/ \E r \in RxRings : Receive(r)

\* Every thread keeps running; a timeout may pass or not, and commands,
\* restarts and errors need not come.
Fairness ==
  /\ \A s \in TxRings : WF_vars(Transmit(s))
  /\ WF_vars(HubStep)
  /\ \A r \in RxRings : WF_vars(Receive(r))

Spec == Init /\ [][Next]_vars /\ Fairness

=============================================================================
