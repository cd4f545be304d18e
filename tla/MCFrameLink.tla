---------------------------- MODULE MCFrameLink -----------------------------
(* Instances of FrameLink for TLC, and what they check.                    *)
EXTENDS FrameLink

\* Nine symbols of four subcarriers: five downlink, a guard, three uplink.
Plain ==
  [symbols |-> 9, fft |-> 4, sync |-> 1, secSync |-> FALSE, cfo |-> FALSE,
   midframe |-> {}, pilots |-> {1}, bits |-> 2, ueBits |-> 2,
   limit |-> 9,
   uplink |-> TRUE, mode |-> "TDD", start |-> 5, count |-> 4, guards |-> 1,
   blocksConfigured |-> FALSE, blocks |-> {}, mask |-> {}]

Block(kind, symbol, symbols, subcarrier, subcarriers) ==
  [kind |-> kind, symbol |-> symbol, symbols |-> symbols,
   subcarrier |-> subcarrier, subcarriers |-> subcarriers]

MCConfigs ==
  { Plain,
    \* Every reserved symbol, a mid-frame pilot of which one is in the uplink, 16QAM.
    [Plain EXCEPT !.secSync = TRUE, !.cfo = TRUE, !.midframe = {3, 7},
                  !.bits = 4, !.ueBits = 4],
    \* Two carriers, a sync symbol in the middle, one packet per frame.
    [Plain EXCEPT !.mode = "FDD", !.symbols = 4, !.sync = 2, !.limit = 1,
                  !.midframe = {0}],
    \* Resource blocks over pilots, over each other, over the sync symbol and the
    \* uplink.
    [Plain EXCEPT !.blocksConfigured = TRUE,
       !.blocks = {Block("payload", 0, 6, 0, 3), Block("sensing_pilot", 2, 2, 1, 2)}],
    \* A range that is clamped, a guard at its end only.
    [Plain EXCEPT !.count = 7, !.guards = 0, !.pilots = {}, !.symbols = 8],
    \* No uplink: a range beyond the frame.
    [Plain EXCEPT !.symbols = 5, !.sync = 4, !.secSync = TRUE],
    \* A UE set to another modulation.
    [Plain EXCEPT !.symbols = 3, !.ueBits = 4],
    \* Refused: uplink over the CFO training symbol.
    [Plain EXCEPT !.sync = 6],
    \* Accepted and not served: the guard over the sync symbol, a long uplink range.
    [Plain EXCEPT !.sync = 5],
    [Plain EXCEPT !.start = 2, !.count = 7] }

(***************************************************************************)
(* Packets.                                                                *)
(***************************************************************************)
Faded(d, packet, field) ==
  \E r \in air.lost[d] :
    LET x == Undisturbed(d)[r] IN x.what = field /\ x.packet = packet

Sent(payload) ==
  LET headers == SelectSeq(payload, LAMBDA x : x.what = "control" /\ x.at = 1
                                               /\ x.packet.blocks > 0)
  IN [i \in DOMAIN headers |-> headers[i].packet]

\* What a receiver is to find: the packets of the frame before the first whose
\* control field is lost.
Expected(d) ==
  LET sent == Sent(air.payload[d])
      lost == {i \in DOMAIN sent : Faded(d, sent[i], "control")}
      n    == Min(lost \union {Len(sent) + 1}) - 1
  IN [i \in 1 .. n |-> [packet |-> sent[i],
                        whole  |-> ~Faded(d, sent[i], "payload")]]

\* Whatever the layout of the frame, the two ends agree on it: each receiver finds
\* the packets that were put into the frame and no others, in order, up to the first
\* header it cannot read, and only what a fade touched is damaged; a UE that is set
\* to another modulation finds none (_build_symbol_templates against
\* _build_compact_payload_indices, _build_period_buffer against
\* _build_payload_indices, and the duplex partition under both).
PacketsComeBack ==
  [][\A d \in Directions :
       heard'[d].read /\ ~heard[d].read =>
         heard'[d].packets =
           IF d = "dl" /\ link.cfg.ueBits # link.cfg.bits THEN <<>> ELSE Expected(d)]_vars

\* What the channel estimates and the sensing rest on is in its place in every frame,
\* whatever blocks are configured over it: sync symbols, pilots, mid-frame pilots and
\* sensing pilots are never overwritten by packets ("Pilot RE always keep the known
\* pilot sequence, regardless of block kind", Common.hpp:2452).
ReferencesStay ==
  out.dl # <<>> =>
    LET re == Frame("dl", out.dl[1])
        c  == link.cfg
    IN \A s \in Downlink(c), k \in Subcarriers(c) :
         /\ IsZcSync(c, s) => re[<<s, k>>].what = "sync"
         /\ s \in c.midframe /\ ~IsReserved(c, s) => re[<<s, k>>].what = "midframe"
         /\ ~IsReserved(c, s) /\ s \notin c.midframe =>
              /\ k \in c.pilots => re[<<s, k>>].what = "pilot"
              /\ c.blocksConfigured /\ k \notin c.pilots
                 /\ <<s, k>> \in Claimed(c, "sensing_pilot")
                   => re[<<s, k>>].what = "sensing"

\* No packet blocks the queue for ever: one that no frame can hold is not let in, so
\* with the base station's rule to leave such a packet at the head nothing stops
\* ("Warn periodically because this can stall queue progress", BS.cpp:2435).
QueueMoves == <>[](\A d \in Directions : queue[d] = <<>>)

(***************************************************************************)
(* Masks.                                                                  *)
(***************************************************************************)
Masks ==
  {UNION {IF width[s] = 0 THEN {} ELSE {Block("mask", s, 1, 0, width[s])} : s \in 0 .. 5}
     : width \in [0 .. 5 -> 0 .. 2]}

\* The masks that the local delay-Doppler processing takes are the combs: every
\* d-th symbol of the frame for some d that divides it, the same subcarriers in
\* each (analyze_compact_sensing_mask).  Looked at once per configuration, for a
\* frame of six symbols.
IsComb(c, d) ==
  /\ c.symbols % d = 0
  /\ LET rows == {re[1] : re \in Masked(c)}
     IN /\ \E o \in 0 .. d - 1 : rows = {s \in Symbols(c) : s % d = o}
        /\ \A s, t \in rows : MaskRow(c, s) = MaskRow(c, t)

CombIsRecognised ==
  tried.dl = 0 /\ tried.ul = 0 /\ out.dl = <<>> /\ air = Silence /\ heard.dl.packets = <<>> =>
    \A m \in Masks :
      LET c == [link.cfg EXCEPT !.symbols = 6, !.mask = m]
      IN ~MaskRefused(c) =>
           {d \in 1 .. c.symbols : IsComb(c, d)}
             = IF ImplicitStride(c) = 0 THEN {} ELSE {ImplicitStride(c)}
=============================================================================
