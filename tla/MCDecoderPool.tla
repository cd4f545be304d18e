--------------------------- MODULE MCDecoderPool ----------------------------
(* The instance of DecoderPool for TLC: its constants are model values. *)
EXTENDS DecoderPool
=============================================================================
