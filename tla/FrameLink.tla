----------------------------- MODULE FrameLink ------------------------------
(***************************************************************************)
(* Packets on the grid of FrameGrid: what the two transmitters put on the  *)
(* resources of a frame, and what the two receivers make of it             *)
(* (src/BS.cpp, src/UE.cpp, include/UplinkTxEngine.hpp,                    *)
(* include/UplinkRxEngine.hpp, LdpcPacketFraming of include/OFDMCore.hpp). *)
(*                                                                         *)
(* A resource carries [what, packet, at]: the at-th symbol of the control  *)
(* field or of the payload of a packet, or something known in advance.     *)
(***************************************************************************)
EXTENDS FrameGrid

CONSTANTS
  Configs,        \* configurations of the link
  PacketSizes,    \* LDPC blocks of a packet
  ControlSymbols, \* kControlSymbols: marker and mini-header
  BlockBits,      \* kLdpcCodeBitsPerBlock
  QueueCap,       \* capacity of _data_packet_buffer and _packet_buffer
  Tries           \* bound: packets offered to the transmitters

ASSUME FrameLinkAssumption ==
  /\ {ControlSymbols, BlockBits, QueueCap, Tries} \subseteq Nat \ {0}
  /\ PacketSizes \subseteq Nat \ {0}

VARIABLES
  link,    \* the configuration and what it is made into
  queue,   \* encoded packets, per direction
  tried,   \* packets offered, per direction
  out,     \* the payload of the frame each transmitter has built
  air,     \* what has reached the receivers: the payloads of both frames, and which
           \* resources were lost at whose receiver
  heard    \* the packets each receiver found in that frame

vars == <<link, queue, tried, out, air, heard>>

Directions == {"dl", "ul"}
NoPacket == [way |-> "ul", n |-> 0, blocks |-> 0, bits |-> 2]
Known(what) == [what |-> what, packet |-> NoPacket, at |-> 0]
Fields == {"control", "payload"}

(***************************************************************************)
(* Configurations.                                                         *)
(***************************************************************************)
\* Two configurations that the code accepts and does not serve; see the README.
\* The guard may cover the sync symbol, which is then never sent; and the uplink's
\* own grid leaves out the symbols of the link's uplink range.
SyncIsAired(c) == IsDownlink(c, c.sync)
UplinkIsWhole(c) == c.mode = "FDD" \/ c.start >= Duplex(c).count

Served == {c \in Configs :
             /\ ~Refused(c) /\ (UplinkEnabled(c) => ~Refused(UplinkConfig(c)))
             /\ SyncIsAired(c) /\ UplinkIsWhole(c)}

(***************************************************************************)
(* What the constructors make of a configuration.                          *)
(***************************************************************************)
\* Which symbol of the frame's payload is written over subcarrier k of the i-th data
\* symbol, 0 if none is.
Rank(grid, i, k) ==
  LET j == {x \in DOMAIN grid.rows[i] : grid.rows[i][x] = k}
  IN IF j = {} THEN 0 ELSE grid.offsets[i] + Max(j)

\* The base station's template of symbol s, and what is written over it
\* (_build_symbol_templates).
DownlinkTemplate(c, grid, s, k) ==
  CASE ~IsDownlink(c, s)     -> Known("silence")
    [] IsZcSync(c, s)        -> Known("sync")
    [] IsCfoTraining(c, s)   -> Known("training")
    [] s \in grid.midframe   -> Known("midframe")
    [] k \in c.pilots        -> Known("pilot")
    [] <<s, k>> \in grid.sensing -> Known("sensing")
    [] OTHER -> Known("fill")
DownlinkRank(grid, s, k) ==
  Max({0} \union {Rank(grid, i, k) : i \in {x \in DOMAIN grid.data : grid.data[x] = s}})

\* The symbols of the uplink that are not its sync symbol, counted as the two
\* uplink engines count them.
NonSync(u) == Sorted({s \in Symbols(u) : ~IsZcSync(u, s)})

\* The same for the UE and its own symbol s.
UplinkTemplate(u, s, k) ==
  CASE s \notin Symbols(u) -> Known("silence")
    [] IsZcSync(u, s)      -> Known("sync")
    [] k \in u.pilots      -> Known("pilot")
    [] OTHER -> Known("fill")
UplinkRank(u, grid, s, k) ==
  Max({0} \union {Rank(grid, i, k) : i \in {x \in DOMAIN NonSync(u) : NonSync(u)[x] = s}})

\* Where a receiver looks for the payload, given the symbol of the link's frame that
\* it keeps as the i-th (_build_compact_payload_indices, _build_payload_indices).
Places(grid, symbol) ==
  FlattenSeq([i \in DOMAIN grid.data |->
                [j \in DOMAIN grid.rows[i] |-> <<symbol[i], grid.rows[i][j]>>]])

Layout(c) ==
  LET u      == UplinkConfig(c)
      down   == Grid(c)
      up     == Grid(u)
      window == Duplex(c).start
      res    == Symbols(c) \X Subcarriers(c)
  IN [capacity |-> [dl |-> down.capacity, ul |-> up.capacity],
      template |-> [dl |-> [r \in res |-> DownlinkTemplate(c, down, r[1], r[2])],
                    ul |-> [r \in res |-> UplinkTemplate(u, r[1] - window, r[2])]],
      rank     |-> [dl |-> [r \in res |-> DownlinkRank(down, r[1], r[2])],
                    ul |-> [r \in res |-> UplinkRank(u, up, r[1] - window, r[2])]],
      places   |-> [dl |-> Places(down, down.data),
                    ul |-> Places(up, [i \in DOMAIN up.data |-> window + NonSync(u)[i]])]]
Capacity(d) == link.layout.capacity[d]
HasUplink == UplinkEnabled(link.cfg)

(***************************************************************************)
(* Packets.                                                                *)
(***************************************************************************)
PacketSymbols(p) == ControlSymbols + p.blocks * (BlockBits \div p.bits)
Encoded(p) ==
  [i \in 1 .. PacketSymbols(p) |->
     IF i <= ControlSymbols THEN [what |-> "control", packet |-> p, at |-> i]
     ELSE [what |-> "payload", packet |-> p, at |-> i - ControlSymbols]]
Stream(packets) == FlattenSeq([i \in DOMAIN packets |-> Encoded(packets[i])])

\* Mutant: whatever is offered is let into the queue.
EncodeAnySize(d) ==
  /\ tried.dl + tried.ul < Tries /\ Len(queue[d]) < QueueCap
  /\ d = "ul" => HasUplink
  /\ tried' = [tried EXCEPT ![d] = @ + 1]
  /\ \E blocks \in PacketSizes :
       queue' = [queue EXCEPT ![d] =
         Append(@, [way |-> d, n |-> tried[d] + 1, blocks |-> blocks,
                    bits |-> IF d = "dl" THEN link.cfg.bits ELSE 2])]
  /\ UNCHANGED <<link, out, air, heard>>

\* A packet that no frame could hold is dropped, any other waits for room in the
\* queue.
Encode(d) ==
  /\ tried.dl + tried.ul < Tries
  /\ d = "ul" => HasUplink
  /\ tried' = [tried EXCEPT ![d] = @ + 1]
  /\ \E blocks \in PacketSizes :
       LET p == [way    |-> d,
                 n      |-> tried[d] + 1,
                 blocks |-> blocks,
                 bits   |-> IF d = "dl" THEN link.cfg.bits ELSE 2]
       IN \/ PacketSymbols(p) > Capacity(d) /\ UNCHANGED queue
          \/ /\ PacketSymbols(p) <= Capacity(d) /\ Len(queue[d]) < QueueCap
             /\ queue' = [queue EXCEPT ![d] = Append(@, p)]
  /\ UNCHANGED <<link, out, air, heard>>

(***************************************************************************)
(* Frames.                                                                 *)
(***************************************************************************)
\* Whole packets are taken as long as they fit.
Pulled(packets, capacity, limit) ==
  SubSeq(packets, 1,
         Max({n \in 0 .. Len(packets) :
                n <= limit /\ Len(Stream(SubSeq(packets, 1, n))) <= capacity}))
Without(packets, taken) == SubSeq(packets, Len(taken) + 1, Len(packets))

BsBuild ==
  /\ out.dl = <<>>
  /\ LET packets == Pulled(queue.dl, Capacity("dl"), link.cfg.limit)
     IN /\ queue' = [queue EXCEPT !.dl = Without(@, packets)]
        /\ out' = [out EXCEPT !.dl = <<Stream(packets)>>]
  /\ UNCHANGED <<link, tried, air, heard>>

\* An oversized packet at the head of the queue would be dropped here; with no
\* packet at all a header without payload is sent.
UeBuild ==
  /\ out.ul = <<>> /\ HasUplink
  /\ LET capacity == Capacity("ul")
         packets  == Pulled(queue.ul, capacity, Len(queue.ul))
         rest     == Without(queue.ul, packets)
         stuck    == /\ rest # <<>> /\ PacketSymbols(rest[1]) > capacity
                     /\ Len(Stream(packets)) < capacity
     IN /\ queue' = [queue EXCEPT !.ul = IF stuck THEN Tail(rest) ELSE rest]
        /\ out' = [out EXCEPT !.ul =
             <<Stream(IF packets = <<>> /\ capacity >= ControlSymbols THEN <<NoPacket>>
                      ELSE packets)>>]
  /\ UNCHANGED <<link, tried, air, heard>>

\* The frame with as much of its payload as there is.
Frame(d, stream) ==
  LET rank == link.layout.rank[d]
  IN [r \in DOMAIN rank |-> IF rank[r] \in DOMAIN stream THEN stream[rank[r]]
                            ELSE link.layout.template[d][r]]

Silence == [payload |-> [d \in Directions |-> <<>>], lost |-> [d \in Directions |-> {}]]

\* On one carrier the two frames add up; on two each has its own.
Overlay(x, y) == CASE x.what = "silence" -> y [] y.what = "silence" -> x
                   [] OTHER -> Known("noise")
Undisturbed(d) ==
  LET bs == Frame("dl", air.payload.dl)
      ue == Frame("ul", air.payload.ul)
  IN IF link.cfg.mode = "FDD" THEN IF d = "dl" THEN bs ELSE ue
     ELSE [r \in DOMAIN bs |-> Overlay(bs[r], ue[r])]
Received(d) ==
  LET frame == Undisturbed(d)
  IN [r \in DOMAIN frame |-> IF r \in air.lost[d] THEN Known("noise") ELSE frame[r]]

\* Both frames have been sent.  A fade may destroy one of the resources that carry
\* packets.
Carrying(d) ==
  {link.layout.places[d][i] : i \in 1 .. Min({Len(x) : x \in ToSet(out[d])}
                                             \union {Len(link.layout.places[d])})}

Fly ==
  /\ heard.dl.read /\ heard.ul.read
  /\ out.dl # <<>> /\ (HasUplink => out.ul # <<>>)
  /\ \E d \in Directions : \E lost \in {{}} \union {{r} : r \in Carrying(d)} :
       air' = [payload |-> [x \in Directions |-> FlattenSeq(out[x])],
               lost    |-> [x \in Directions |-> IF x = d THEN lost ELSE {}]]
  /\ heard' = [d \in Directions |-> [read |-> FALSE, packets |-> <<>>]]
  /\ out' = [d \in Directions |-> <<>>]
  /\ UNCHANGED <<link, queue, tried>>

(***************************************************************************)
(* Reading a frame.                                                        *)
(***************************************************************************)
\* The control field of a packet from the entry after p, in n entries.
ControlAt(entries, p, n) ==
  \A i \in 1 .. n : entries[p + i] = [entries[p + 1] EXCEPT !.what = "control", !.at = i]

\* The soft bits of a resource.
Llrs(re, bits) ==
  [i \in 1 .. bits |->
     IF re.what \in Fields THEN [re EXCEPT !.at = (@ - 1) * bits + i] ELSE Known("noise")]

\* Mutant: the header's modulation is not compared with the configured one.
DemappedAnyModulation(res, bits) ==
  LET from[p \in 0 .. Len(res)] ==
        IF p + ControlSymbols > Len(res) \/ ~ControlAt(res, p, ControlSymbols) THEN <<>>
        ELSE LET end == p + PacketSymbols(res[p + 1].packet)
                 llrs(i) == Llrs(res[i], IF i <= p + ControlSymbols THEN 2 ELSE bits)
             IN IF end > Len(res) THEN <<>>
                ELSE FlattenSeq([i \in 1 .. end - p |-> llrs(p + i)]) \o from[end]
  IN from[0]

\* The resources that the UE takes for packets, as soft bits: control fields as
\* QPSK, payloads as their headers say (_demap_downlink_packet_llrs).
Demapped(res, bits) ==
  LET from[p \in 0 .. Len(res)] ==
        IF p + ControlSymbols > Len(res) \/ ~ControlAt(res, p, ControlSymbols) THEN <<>>
        ELSE LET packet == res[p + 1].packet
                 end    == p + PacketSymbols(packet)
                 llrs(i) == Llrs(res[i], IF i <= p + ControlSymbols THEN 2 ELSE bits)
             IN IF packet.bits # bits \/ end > Len(res) THEN <<>>
                ELSE FlattenSeq([i \in 1 .. end - p |-> llrs(p + i)]) \o from[end]
  IN from[0]

\* The packets among soft bits; a header without payload is skipped.  A payload
\* that the LDPC code does not recover is passed on all the same.
Packets(llrs) ==
  LET control == 2 * ControlSymbols
      from[b \in 0 .. Len(llrs)] ==
        IF b + control > Len(llrs) \/ ~ControlAt(llrs, b, control) THEN <<>>
        ELSE LET packet == llrs[b + 1].packet
                 begin  == b + control
                 end    == begin + packet.blocks * BlockBits
                 whole  == \A i \in 1 .. end - begin :
                             llrs[begin + i] = [what |-> "payload", packet |-> packet, at |-> i]
             IN IF end > Len(llrs) THEN <<>>
                ELSE (IF packet.blocks = 0 THEN <<>>
                      ELSE <<[packet |-> packet, whole |-> whole]>>) \o from[end]
  IN from[0]

\* Without its sync symbol a frame cannot be equalised.
Heard(frame, symbol) == \E r \in DOMAIN frame : r[1] = symbol /\ frame[r].what = "sync"
Payloads(d) ==
  LET frame  == Received(d)
      places == link.layout.places[d]
  IN [i \in DOMAIN places |-> frame[places[i]]]

\* What the last receiver has read is gone.
Found(d, packets) ==
  /\ heard' = [heard EXCEPT ![d] = [read |-> TRUE, packets |-> packets]]
  /\ air' = IF \A x \in Directions \ {d} : heard[x].read THEN Silence
            ELSE [air EXCEPT !.lost[d] = {}]
  /\ UNCHANGED <<link, queue, tried, out>>

UeRead ==
  /\ ~heard.dl.read
  /\ \E res \in {Payloads("dl")} : \E llrs \in {Demapped(res, link.cfg.ueBits)} :
       Found("dl", IF Heard(Received("dl"), link.cfg.sync) THEN Packets(llrs) ELSE <<>>)

BsRead ==
  /\ ~heard.ul.read
  /\ \E res \in {Payloads("ul")} :
       \E llrs \in {FlattenSeq([i \in DOMAIN res |-> Llrs(res[i], 2)])} :
         Found("ul", IF HasUplink /\ Heard(Received("ul"), Duplex(link.cfg).start)
                     THEN Packets(llrs) ELSE <<>>)

Init ==
  /\ \E c \in Served : link = [cfg |-> c, layout |-> Layout(c)]
  /\ queue = [d \in Directions |-> <<>>]
  /\ tried = [d \in Directions |-> 0]
  /\ out = [d \in Directions |-> <<>>]
  /\ air = Silence
  /\ heard = [d \in Directions |-> [read |-> TRUE, packets |-> <<>>]]

Next == \/ \E d \in Directions : Encode(d)
        \/ BsBuild \/ UeBuild \/ Fly \/ UeRead \/ BsRead

\* The modulation, transmission and reception threads never stop.
Fairness == /\ WF_vars(BsBuild) /\ WF_vars(UeBuild) /\ WF_vars(Fly)
            /\ WF_vars(UeRead) /\ WF_vars(BsRead)

Spec == Init /\ [][Next]_vars /\ Fairness
=============================================================================
