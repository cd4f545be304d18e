------------------------------- MODULE ArqSeq -------------------------------
(***************************************************************************)
(* The 16-bit sequence arithmetic of the link-layer ARQ                     *)
(* (include/OFDMCore.hpp, "Modulo-65536 sequence comparison helpers").      *)
(* The width is a parameter: HalfSpace is 32768 in the program.             *)
(***************************************************************************)
EXTENDS Integers, FiniteSets

CONSTANT HalfSpace

ASSUME HalfSpaceAssumption == HalfSpace \in Nat \ {0}

SeqSpace == 2 * HalfSpace
Seqs == 0 .. (SeqSpace - 1)

\* static_cast<uint16_t>(a + i)
SeqAdd(a, i) == (a + i) % SeqSpace

\* arq_seq_diff: the uint16_t difference read as an int16_t.
SeqDiff(a, b) ==
  LET d == (a - b) % SeqSpace IN IF d < HalfSpace THEN d ELSE d - SeqSpace

(***************************************************************************)
(* How far the loops "while the next one is present, take it" run: the      *)
(* least k not in S, for S a subset of 0..(n-1).                            *)
(***************************************************************************)
FirstGap(S, n) == CHOOSE k \in 0..n : k \notin S /\ \A j \in 0..(k-1) : j \in S
=============================================================================
