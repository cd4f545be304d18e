--------------------------- MODULE SensingOutput ---------------------------
(***************************************************************************)
(* What the sensing channels of the base station make of the paired        *)
(* frames, and how it leaves: each channel gathers symbols in batches      *)
(* (SensingChannel::_sensing_loop), the finished batches go through a      *)
(* queue per channel, and AggregatedSensingDataSender joins those of all   *)
(* channels that begin with the same symbol.  Meanwhile the control thread *)
(* changes the stride (STRD) or the output (SKIP), the receive threads ask *)
(* for a new batch (ALGN), and the transmit thread restarts the channels.  *)
(*                                                                         *)
(* SensingRx models how a channel gets its pairs; here a channel has a     *)
(* queue of them, and a frame that finds it full is lost to that channel.  *)
(* A batch is the sequence of the symbols in it.                           *)
(***************************************************************************)
EXTENDS Integers, Sequences, FiniteSets, FiniteSetsExt

CONSTANTS
  ChannelCount,   \* sensing.rx_channel_count
  NumSymbols,     \* ofdm.num_symbols
  Training,       \* the CFO training symbol of a frame, sync_pos + 1
  CombRows,       \* the symbols a regular mask selects, in order
  BatchLen,       \* ofdm.sensing_symbol_num
  FirstStride,    \* sensing.symbol_stride
  PairCap,        \* sensing.paired_frame_queue_size
  QueueCap,       \* per_channel_queue_size
  MaxPending,     \* kMaxPendingAggregateFrames
  ResetLead,      \* kResetLeadFrames
  Skipped,        \* frame slots a restart of the transmitter skips
  Strides,        \* strides asked for
  Skips           \* outputs asked for

Channels == 1 .. ChannelCount
Modes == {"dense", "sparse", "regular"}

\* dense_sensing_stride_hits_symbol: whether samples a stride apart, taken from
\* the start of some frame on, ever fall on this symbol of a frame, which is when
\* the greatest common divisor of stride and frame, and so every one, divides it.
HitsSymbol(stride, symbol) ==
  \A d \in 1 .. stride : stride % d = 0 /\ NumSymbols % d = 0 => symbol % d = 0

ASSUME OutputAssumption ==
  /\ {ChannelCount, NumSymbols, BatchLen, FirstStride, PairCap, QueueCap, MaxPending}
       \subseteq Nat \ {0}
  /\ ResetLead \in Nat /\ Skipped \in Nat
  /\ Training \in 0 .. NumSymbols - 1
  /\ CombRows \in Seq((0 .. NumSymbols - 1) \ {Training})
  /\ ~HitsSymbol(FirstStride, Training)
  /\ Strides \subseteq Nat \ {0} /\ Skips \subseteq BOOLEAN

VARIABLES
  mode,         \* the output mode, and the kind of the mask
  sent,         \* frames counted; _next_frame_start_symbol is the first symbol of
                \* the next
  given,        \* how many channels have been given that one
  restarting,   \* the channels the transmit thread has yet to restart
  shared,       \* _shared_sensing_cfg
  telling,      \* the channels the control thread has yet to tell of it
  cfg,          \* _pending_shared_cfg of each channel
  resetAt,      \* _shared_batch_reset_symbol
  pairs,        \* the paired queue of each channel
  computeReset, \* compute_reset_requested
  hand,         \* the frame a channel has taken, and how far it is with it
  gather,       \* the compute state of each channel
  resetDone,    \* _applied_batch_reset_symbol
  queue,        \* the sender's queue of each channel
  pending,      \* the parts of _pending_frames
  turn,         \* the channel whose queue the sender looks at next
  cut           \* history: the frame a channel was last to begin anew with, the last
                \* it lost, whether it missed an update or kept old rows, the frame
                \* it is to be restarted with, and the last it has begun

channelVars == <<pairs, computeReset, hand, gather, resetDone, cut>>
controlVars == <<shared, telling, cfg>>
senderVars == <<pending, turn>>
vars == <<mode, sent, given, restarting, resetAt, channelVars, controlVars, queue, senderVars>>

None == -1
Idle == [frame |-> None, row |-> 0]
Begun(frame) == frame * NumSymbols

Init ==
  /\ mode \in Modes
  /\ sent = 0
  /\ given = 0
  /\ restarting = <<>>
  /\ shared = [gen |-> 0, stride |-> FirstStride, skip |-> FALSE, at |-> 0]
  /\ telling = <<>>
  /\ cfg = [c \in Channels |-> shared]
  /\ resetAt = 0
  /\ pairs = [c \in Channels |-> <<>>]
  /\ computeReset = [c \in Channels |-> FALSE]
  /\ hand = [c \in Channels |-> Idle]
  /\ gather = [c \in Channels |->
       [next |-> 0, first |-> None, rows |-> <<>>,
        stride |-> FirstStride, skip |-> FALSE, gen |-> 0]]
  /\ resetDone = [c \in Channels |-> 0]
  /\ queue = [c \in Channels |-> <<>>]
  /\ pending = {}
  /\ turn = 1
  /\ cut = [c \in Channels |-> [from |-> 0, lost |-> None, missed |-> FALSE,
                                restart |-> 0, begun |-> None]]

(***************************************************************************)
(* The transmit thread.                                                    *)
(***************************************************************************)
\* A frame that has been sent is given to one channel after the other; a full queue
\* drops it.
EnqueueTxSymbols ==
  /\ restarting = <<>>
  /\ given < ChannelCount
  /\ given' = given + 1
  /\ LET c == given + 1 IN
       IF Len(pairs[c]) < PairCap
       THEN pairs' = [pairs EXCEPT ![c] = Append(@, sent)] /\ UNCHANGED cut
       ELSE cut' = [cut EXCEPT ![c].lost = sent] /\ UNCHANGED pairs
  /\ UNCHANGED <<mode, sent, restarting, resetAt, computeReset, hand, gather, resetDone,
                 controlVars, queue, senderVars>>

\* Only then is it counted.
CountFrame ==
  /\ given = ChannelCount
  /\ sent' = sent + 1
  /\ given' = 0
  /\ UNCHANGED <<mode, restarting, resetAt, channelVars, controlVars, queue, senderVars>>

\* A blank frame, or one cut short, of which the channels hear nothing.
SendBlank ==
  /\ restarting = <<>> /\ given = 0
  /\ sent' = sent + 1
  /\ UNCHANGED <<mode, given, restarting, resetAt, channelVars, controlVars, queue,
                 senderVars>>

\* restart_tx_burst skips frame slots, and then restarts one channel after the
\* other (request_reacquire): what it has not taken is of an older generation.
RestartBurst ==
  /\ restarting = <<>> /\ given = 0
  /\ sent' = sent + Skipped
  /\ restarting' = [c \in Channels |-> c]
  /\ UNCHANGED <<mode, given, resetAt, channelVars, controlVars, queue, senderVars>>

RequestReacquire ==
  /\ restarting # <<>>
  /\ restarting' = Tail(restarting)
  /\ pairs' = [pairs EXCEPT ![Head(restarting)] = <<>>]
  /\ computeReset' = [computeReset EXCEPT ![Head(restarting)] = TRUE]
  /\ cut' = [cut EXCEPT ![Head(restarting)].lost = sent - 1,
                           ![Head(restarting)].restart = sent]
  /\ UNCHANGED <<mode, sent, given, resetAt, hand, gather, resetDone, controlVars, queue,
                 senderVars>>

(***************************************************************************)
(* The control thread: _schedule_shared_sensing_update, which takes effect *)
(* at the start of the frame to be counted next, which some channels may   *)
(* have been given already, and tells one channel after the other.  A      *)
(* channel keeps only the newest update.                                   *)
(***************************************************************************)
Schedule(stride, skip) ==
  /\ telling = <<>>
  /\ <<stride, skip>> # <<shared.stride, shared.skip>>
  /\ shared' = [gen |-> shared.gen + 1, stride |-> stride, skip |-> skip,
                at |-> Begun(sent)]
  /\ telling' = [c \in Channels |-> c]
  /\ UNCHANGED <<mode, sent, given, restarting, cfg, resetAt, channelVars, queue,
                 senderVars>>

\* STRD, refused when it would ever sample the training symbol.
CommandStride(stride) ==
  /\ mode = "dense"
  /\ ~HitsSymbol(stride, Training)
  /\ Schedule(stride, shared.skip)

\* SKIP, ignored when the mask has no local processing to skip.
CommandSkip(skip) ==
  /\ mode # "sparse"
  /\ Schedule(shared.stride, skip)

\* apply_shared_cfg.  A channel misses an update that the next one overtakes, and
\* one meant for a frame it has begun.
ApplySharedCfg ==
  /\ telling # <<>>
  /\ LET c == Head(telling) IN
       /\ cfg' = [cfg EXCEPT ![c] = shared]
       /\ cut' = [cut EXCEPT ![c].missed = \/ @
                                            \/ cfg[c].gen > gather[c].gen
                                            \/ Begun(cut[c].begun) >= shared.at]
  /\ telling' = Tail(telling)
  /\ UNCHANGED <<mode, sent, given, restarting, shared, resetAt, pairs, computeReset, hand,
                 gather, resetDone, queue, senderVars>>

\* The callback of set_alignment: a new batch, some frames ahead, never sooner
\* than one that has been asked for.
RequestBatchReset ==
  /\ resetAt' = Max({resetAt, Begun(sent + ResetLead)})
  /\ UNCHANGED <<mode, sent, given, restarting, channelVars, controlVars, queue, senderVars>>

(***************************************************************************)
(* A channel's sensing thread.                                             *)
(***************************************************************************)
Untouched == UNCHANGED <<mode, sent, given, restarting, controlVars, resetAt, senderVars>>

\* pop_pair.
Take(c) ==
  /\ hand[c] = Idle
  /\ pairs[c] # <<>>
  /\ hand' = [hand EXCEPT ![c] = [frame |-> Head(pairs[c]), row |-> 0]]
  /\ pairs' = [pairs EXCEPT ![c] = Tail(@)]
  /\ UNCHANGED <<computeReset, gather, resetDone, cut, queue>>
  /\ Untouched

\* _apply_shared_sensing_if_due: the sampling goes on from the start of the frame
\* the update was meant for when it has not got there, or when the stride changes.
\* Mutant: a new stride goes on from where the old one was.
AppliedInPlace(c, g, symbol) ==
  IF cfg[c].gen > g.gen /\ symbol >= cfg[c].at
  THEN [g EXCEPT !.stride = cfg[c].stride, !.skip = cfg[c].skip, !.gen = cfg[c].gen,
                 !.next = Max({@, cfg[c].at})]
  ELSE g

Applied(c, g, symbol) ==
  IF cfg[c].gen > g.gen /\ symbol >= cfg[c].at
  THEN [g EXCEPT !.stride = cfg[c].stride, !.skip = cfg[c].skip, !.gen = cfg[c].gen,
                 !.next = IF @ < cfg[c].at \/ g.stride # cfg[c].stride
                          THEN cfg[c].at ELSE @]
  ELSE g

\* _reset_monostatic_accumulators, which keeps the rows of a regular mask.
Reset(g) == [g EXCEPT !.next = 0, !.first = None,
                      !.rows = IF mode = "regular" THEN @ ELSE <<>>]

\* _apply_batch_reset_if_due.
\* Mutant: a reset is applied as soon as it is seen.
BatchResetSeen(c, start) == resetAt \notin {0, resetDone[c]}

BatchResetDue(c, start) == resetAt \notin {0, resetDone[c]} /\ start >= resetAt

\* A frame goes back to the pool when nothing is left to take from it.
Kept(c, g) == IF g.next < Begun(hand[c].frame + 1) THEN hand[c] ELSE Idle

\* The frame a channel has taken begins: first the resets that are due, then, as
\* the mode is, the update that is due or the first symbol that is not past.
Begin(c) ==
  /\ hand[c].frame # None /\ hand[c].row = 0
  /\ LET start == Begun(hand[c].frame)
         due == BatchResetDue(c, start)
         g0 == IF computeReset[c] THEN Reset(gather[c]) ELSE gather[c]
         g1 == IF due THEN [g0 EXCEPT !.rows = <<>>, !.first = None, !.next = start] ELSE g0
         g2 == IF mode = "dense" THEN [g1 EXCEPT !.next = Max({@, start})]
               ELSE Applied(c, g1, start)
     IN /\ gather' = [gather EXCEPT ![c] = g2]
        /\ hand' = [hand EXCEPT ![c] = IF mode = "dense" /\ Kept(c, g2) = Idle THEN Idle
                                       ELSE [@ EXCEPT !.row = 1]]
        /\ resetDone' = [resetDone EXCEPT ![c] = IF due THEN resetAt ELSE @]
        /\ cut' = [cut EXCEPT ![c] =
             [IF due \/ computeReset[c]
              THEN [@ EXCEPT !.from = Max({IF due THEN resetAt \div NumSymbols ELSE 0, cut[c].restart}),
                             !.missed = g1.rows # <<>> \/ hand[c].frame < cut[c].restart]
              ELSE @ EXCEPT !.begun = hand[c].frame]]
  /\ computeReset' = [computeReset EXCEPT ![c] = FALSE]
  /\ UNCHANGED <<pairs, queue>>
  /\ Untouched

\* SensingOutputDispatcher and _queue_frame: a full queue drops the newest.
Pushed(c, part) ==
  queue' = IF Len(queue[c]) < QueueCap
           THEN [queue EXCEPT ![c] = Append(@, part)] ELSE queue

Part(c, first, rows, size) == [channel |-> c, first |-> first, rows |-> rows, size |-> size]

\* A symbol joins the batch.  A full one is processed and pushed: a regular mask
\* whose processing is skipped sends the selected subcarriers only.
Joined(c, g, symbol) ==
  LET h == [g EXCEPT !.first = IF @ = None THEN symbol ELSE @, !.rows = Append(@, symbol)]
  IN  IF Len(h.rows) >= BatchLen
      THEN /\ gather' = [gather EXCEPT ![c] = [h EXCEPT !.rows = <<>>, !.first = None]]
           /\ Pushed(c, Part(c, h.first, h.rows,
                IF mode = "regular" /\ h.skip THEN "selected" ELSE "full"))
      ELSE gather' = [gather EXCEPT ![c] = h] /\ UNCHANGED queue

\* The next symbol of a frame, a stride after the last.
SampleDense(c) ==
  /\ mode = "dense" /\ hand[c].row > 0
  /\ LET g == Applied(c, gather[c], gather[c].next)
         symbol == Max({g.next, Begun(hand[c].frame)})
         h == [g EXCEPT !.next = symbol + g.stride]
     IN  Joined(c, h, symbol) /\ hand' = [hand EXCEPT ![c] = Kept(c, h)]
  /\ UNCHANGED <<pairs, computeReset, resetDone, cut>>
  /\ Untouched

\* The next row of a regular mask.
SampleRegular(c) ==
  /\ mode = "regular" /\ hand[c].row \in 1 .. Len(CombRows)
  /\ Joined(c, gather[c], Begun(hand[c].frame) + CombRows[hand[c].row])
  /\ hand' = [hand EXCEPT ![c] = IF @.row = Len(CombRows) THEN Idle
                                 ELSE [@ EXCEPT !.row = hand[c].row + 1]]
  /\ UNCHANGED <<pairs, computeReset, resetDone, cut>>
  /\ Untouched

\* A mask that is not regular: the selected elements of a frame, at once.
SampleSparse(c) ==
  /\ mode = "sparse" /\ hand[c].row = 1
  /\ Pushed(c, Part(c, Begun(hand[c].frame), <<Begun(hand[c].frame)>>, "full"))
  /\ hand' = [hand EXCEPT ![c] = Idle]
  /\ UNCHANGED <<pairs, computeReset, gather, resetDone, cut>>
  /\ Untouched

Channel(c) ==
  Take(c) \/ Begin(c) \/ SampleDense(c) \/ SampleRegular(c) \/ SampleSparse(c)

(***************************************************************************)
(* The sender: a pass takes at most one part from the queue of each        *)
(* channel, in turn.                                                       *)
(***************************************************************************)
Of(first) == {p \in pending : p.first = first}
Keys == {p.first : p \in pending}

\* The queues a pass has yet to look at.
Left == {c \in Channels : c >= turn /\ queue[c] # <<>>}

\* A part takes its place in the frame that begins with its symbol, in that of an
\* older one if need be; when all channels are there the frame is sent, unless
\* its parts differ in size, and leaves.
SenderPop ==
  /\ \E c \in Left :
       /\ \A d \in Left : c <= d
       /\ LET part == Head(queue[c])
              frame == {p \in Of(part.first) : p.channel # c} \cup {part}
          IN  pending' = (pending \ Of(part.first))
                \cup (IF Cardinality(frame) = ChannelCount THEN {} ELSE frame)
       /\ queue' = [queue EXCEPT ![c] = Tail(@)]
       /\ turn' = c + 1
  /\ UNCHANGED <<mode, sent, given, restarting, resetAt, channelVars, controlVars>>

\* At the end of a pass the oldest frames go until few enough are waiting.
\* Mutant: the newest go.
EvictNewest ==
  /\ turn > 1 /\ Left = {}
  /\ pending' = {p \in pending :
       Cardinality({k \in Keys : k < p.first}) < MaxPending}
  /\ turn' = 1
  /\ UNCHANGED <<mode, sent, given, restarting, resetAt, channelVars, controlVars, queue>>

Evict ==
  /\ turn > 1 /\ Left = {}
  /\ pending' = {p \in pending :
       Cardinality({k \in Keys : k > p.first}) < MaxPending}
  /\ turn' = 1
  /\ UNCHANGED <<mode, sent, given, restarting, resetAt, channelVars, controlVars, queue>>

Sender == SenderPop \/ Evict

(***************************************************************************)
(* Everything, at any pace.                                                *)
(***************************************************************************)
Command ==
  \/ \E s \in Strides : CommandStride(s)
  \/ mode = "regular" /\ \E b \in Skips : CommandSkip(b)
  \/ RequestBatchReset

Next ==
  \/ EnqueueTxSymbols \/ CountFrame \/ SendBlank \/ RestartBurst \/ RequestReacquire
  \/ Command \/ ApplySharedCfg
  \/ \E c \in Channels : Channel(c)
  \/ Sender

Spec == Init /\ [][Next]_vars

\* The training symbol is never in a batch, whatever strides follow each other,
\* and whatever frames are lost in between (dense_sensing_stride_cfo_training_error
\* refuses a stride by its residues alone, _apply_shared_sensing_if_due keeps to
\* them).
TrainingIsNeverSensed ==
  \A c \in Channels :
    \A rows \in {gather[c].rows} \cup {queue[c][i].rows : i \in DOMAIN queue[c]} :
      \A i \in DOMAIN rows : rows[i] % NumSymbols # Training
=============================================================================
