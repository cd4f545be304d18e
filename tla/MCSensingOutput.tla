-------------------------- MODULE MCSensingOutput --------------------------
(***************************************************************************)
(* Two sensing channels and their sender, small enough for TLC.            *)
(*                                                                         *)
(* Frames of six symbols with the training symbol in the last; strides are *)
(* asked for of which one is refused, and two that are served meet the     *)
(* training symbol if the sampling ever goes on from anywhere but the      *)
(* start of a frame when the stride changes.                               *)
(***************************************************************************)
EXTENDS SensingOutput

CONSTANTS
  MaxFrames,    \* frames sent
  MaxEvents     \* updates, batch resets, restarts and blank frames

VARIABLE events

mcVars == <<vars, events>>

Rows == <<1, 4>>

MCInit == Init /\ events = 0

Event ==
  \/ sent < MaxFrames /\ SendBlank
  \/ sent + Skipped <= MaxFrames /\ RestartBurst
  \/ Command

MCNext ==
  \/ events < MaxEvents /\ Event /\ events' = events + 1
  \/ /\ \/ sent < MaxFrames /\ EnqueueTxSymbols
        \/ CountFrame
        \/ RequestReacquire
        \/ ApplySharedCfg
        \/ \E c \in Channels : Channel(c)
        \/ Sender
     /\ UNCHANGED events

MCSpec == MCInit /\ [][MCNext]_mcVars

(***************************************************************************)
(* Properties                                                              *)
(***************************************************************************)
\* What a channel is at; a mask needs no next symbol.
Work(c) == [gather[c] EXCEPT !.next = IF mode = "dense" THEN @ ELSE 0]

\* Channels that were told to begin anew with the same frame, lost none from it on
\* and have worked through the same ones are at the same symbol of the same batch:
\* only a lost frame, an update that one of them missed or got with the frame it was
\* meant for begun, a restart that one met with an older frame in hand, or the rows
\* of a regular mask that a restart keeps, take them apart, and a batch reset brings
\* them together again (_shared_batch_reset_symbol, request_batch_reset in BS.cpp).
InStep ==
  \A c, d \in Channels :
    (/\ hand[c] = Idle /\ hand[d] = Idle
     /\ telling = <<>>
     /\ computeReset[c] = computeReset[d]
     /\ cut[c].begun = cut[d].begun
     /\ cut[c].from = cut[d].from
     /\ \A e \in {c, d} : (cut[e].lost < cut[e].from \/ cut[e].lost = None) /\ ~cut[e].missed)
    => Work(c) = Work(d)

\* A channel has no part for a batch, and it will have none: it has gone on.
Passed(c, first) ==
  /\ cut[c].begun # None /\ first < Begun(cut[c].begun + (IF hand[c] = Idle THEN 1 ELSE 0))
  /\ gather[c].first # first
  /\ \A i \in DOMAIN queue[c] : queue[c][i].first # first

\* What the sender gives up lacks the part of a channel that has passed it, or of
\* one that comes later than the sender waits: for as many later batches as may be
\* waiting it has no part there either.  So a channel that is fewer batches behind
\* the others loses none of them (_drop_oldest_pending_frame,
\* kMaxPendingAggregateFrames).
OnlyTheLateLose ==
  [][\A p \in pending :
       (turn > 1 /\ turn' = 1 /\ p \notin pending') =>
         \E c \in Channels :
           /\ \A q \in Of(p.first) : q.channel # c
           /\ \/ Passed(c, p.first)
              \/ Cardinality({k \in Keys : k > p.first /\ \A q \in Of(k) : q.channel # c})
                   >= MaxPending]_mcVars
=============================================================================
