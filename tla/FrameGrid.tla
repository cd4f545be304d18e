----------------------------- MODULE FrameGrid ------------------------------
(***************************************************************************)
(* What every symbol and subcarrier of a frame is for                      *)
(* (include/Common.hpp): reserved symbols, the duplex partition, the       *)
(* configuration of the uplink derived from that of the link, the grid of  *)
(* data resources, and the analysis of a compact sensing mask.  A          *)
(* configuration that the code refuses with an exception is Refused.       *)
(*                                                                         *)
(* c is a configuration: symbols, fft, sync are num_symbols, fft_size and  *)
(* sync_pos; start, count and guards are the TDD uplink range; bits and *)
(* ueBits are the downlink's modulation set at either end; a block is a    *)
(* rectangle of the grid.                                                  *)
(***************************************************************************)
EXTENDS Integers, Sequences, FiniteSetsExt, SequencesExt

Symbols(c) == 0 .. c.symbols - 1
Subcarriers(c) == 0 .. c.fft - 1
Sorted(S) == [i \in 1 .. Cardinality(S) |->
                CHOOSE x \in S : Cardinality({y \in S : y < x}) = i - 1]

IsSecSync(c, s) == c.secSync /\ c.sync > 0 /\ s + 1 = c.sync
IsZcSync(c, s) == s = c.sync \/ IsSecSync(c, s)
IsCfoTraining(c, s) == c.cfo /\ s = c.sync + 1
IsReserved(c, s) == IsZcSync(c, s) \/ IsCfoTraining(c, s)

(***************************************************************************)
(* Downlink, uplink and guard.                                             *)
(***************************************************************************)
NoUplink == [uplink |-> {}, guard |-> {}, start |-> 0, count |-> 0]

Duplex(c) ==
  IF ~c.uplink \/ (c.mode = "TDD" /\ (c.count = 0 \/ c.start >= c.symbols))
  THEN NoUplink
  ELSE IF c.mode = "FDD"
  THEN [NoUplink EXCEPT !.uplink = Symbols(c), !.count = c.symbols]
  ELSE LET count == Min({c.count, c.symbols - c.start})
           data  == c.start + Min({c.guards, count})
       IN [uplink |-> data .. c.start + count - 1, guard |-> c.start .. data - 1,
           start |-> data, count |-> c.start + count - data]

IsDownlink(c, s) ==
  c.mode = "FDD" \/ s \notin Duplex(c).uplink \union Duplex(c).guard

\* The uplink is a frame of its own within the uplink's symbols.  What is not
\* mentioned here is kept, the range of the uplink within the link's frame too.
UplinkConfig(c) ==
  [c EXCEPT !.symbols = Duplex(c).count, !.sync = 0, !.secSync = FALSE, !.cfo = FALSE,
            !.midframe = {}, !.mask = {}, !.blocks = {}, !.blocksConfigured = FALSE]

UplinkEnabled(c) == UplinkConfig(c).symbols >= 2

(***************************************************************************)
(* The grid of data resources.                                             *)
(***************************************************************************)
Rows(b) == b.symbol .. b.symbol + b.symbols - 1
Columns(b) == b.subcarrier .. b.subcarrier + b.subcarriers - 1
Area(b) == Rows(b) \X Columns(b)
Inside(c, b) ==
  /\ b.symbols > 0 /\ Rows(b) \subseteq Symbols(c)
  /\ b.subcarriers > 0 /\ Columns(b) \subseteq Subcarriers(c)

Downlink(c) == {s \in Symbols(c) : IsDownlink(c, s)}
Reserved(c) == {s \in Symbols(c) : IsReserved(c, s)}
Midframe(c) == (c.midframe \intersect Downlink(c)) \ Reserved(c)
\* Mutant: mid-frame pilots are given to the payload.
DataSymbolsOverMidframe(c) == Downlink(c) \ Reserved(c)

DataSymbols(c) == Downlink(c) \ (Reserved(c) \union Midframe(c))
NonPilots(c) == Subcarriers(c) \ c.pilots
Claimed(c, kind) == UNION {Area(b) : b \in {x \in c.blocks : x.kind = kind}}

Refused(c) ==
  \/ c.symbols = 0 \/ c.sync >= c.symbols
  \/ c.secSync /\ (c.symbols < 2 \/ c.sync = 0)
  \/ c.cfo /\ c.sync + 1 >= c.symbols
  \/ c.mode = "TDD" /\ Duplex(c).uplink \intersect Reserved(c) # {}
  \/ Cardinality(Reserved(c) \intersect Downlink(c)) + Cardinality(Midframe(c))
       > Cardinality(Downlink(c))
  \/ /\ c.blocksConfigured
     /\ \E b \in c.blocks :
          \/ ~Inside(c, b)
          \/ b.kind = "sensing_pilot"
             /\ \E s \in Rows(b) \intersect Downlink(c) : IsCfoTraining(c, s)

\* rows[i] has the subcarriers that carry the payload in the i-th data symbol;
\* offsets[i] is how many there are in the symbols before.
Grid(c) ==
  LET data    == Sorted(DataSymbols(c))
      sensing == IF c.blocksConfigured THEN Claimed(c, "sensing_pilot") ELSE {}
      payload(s, k) == /\ <<s, k>> \notin sensing
                       /\ c.blocksConfigured => <<s, k>> \in Claimed(c, "payload")
      rows    == [i \in DOMAIN data |->
                    Sorted({k \in NonPilots(c) : payload(data[i], k)})]
  IN [data     |-> data,
      rows     |-> rows,
      offsets  |-> [i \in DOMAIN data |->
                      FoldLeft(LAMBDA n, row : n + Len(row), 0, SubSeq(rows, 1, i - 1))],
      capacity |-> Len(FlattenSeq(rows)),
      sensing  |-> sensing \intersect (DataSymbols(c) \X NonPilots(c)),
      midframe |-> Midframe(c)]

(***************************************************************************)
(* Compact sensing masks.                                                  *)
(***************************************************************************)
Masked(c) == UNION {Area(b) : b \in c.mask}
MaskRefused(c) ==
  \/ c.mask = {}
  \/ \E b \in c.mask : ~Inside(c, b) \/ \E s \in Rows(b) : IsCfoTraining(c, s)
MaskSymbols(c) == Sorted({re[1] : re \in Masked(c)})
MaskRow(c, s) == {k \in Subcarriers(c) : <<s, k>> \in Masked(c)}

\* Mutant: the gap from the last row round to the first is not looked at.
ImplicitStrideOfRows(c) ==
  LET rows == MaskSymbols(c)
      gap  == IF Len(rows) > 1 THEN rows[2] - rows[1] ELSE c.symbols
  IN IF \A i \in DOMAIN rows : /\ MaskRow(c, rows[i]) = MaskRow(c, rows[1])
                               /\ i > 1 => rows[i] - rows[i - 1] = gap
     THEN gap ELSE 0

\* The stride of a mask that a regular subsampling can process, 0 for any other
\* (analyze_compact_sensing_mask: regular_subsampling_compatible and
\* implicit_symbol_stride).
ImplicitStride(c) ==
  LET rows  == MaskSymbols(c)
      gap   == IF Len(rows) > 1 THEN rows[2] - rows[1] ELSE c.symbols
      alike == \A i \in DOMAIN rows : MaskRow(c, rows[i]) = MaskRow(c, rows[1])
      even  == /\ \A i \in 2 .. Len(rows) : rows[i] - rows[i - 1] = gap
               /\ c.symbols + rows[1] - rows[Len(rows)] = gap
  IN IF alike /\ even THEN gap ELSE 0
=============================================================================
