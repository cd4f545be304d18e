----------------------------- MODULE MCSeqlock ------------------------------
(* Instances of Seqlock for TLC. *)
EXTENDS Seqlock, TLC

ReaderSymmetry == Permutations(Readers)
=============================================================================
