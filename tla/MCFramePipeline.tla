-------------------------- MODULE MCFramePipeline ---------------------------
(* The instance of FramePipeline for TLC: its constants are model values. *)
EXTENDS FramePipeline
=============================================================================
