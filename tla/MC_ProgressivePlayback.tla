------------------------ MODULE MC_ProgressivePlayback ------------------------
(* ProgressivePlayback on a short clip; Users is a set of model values. *)
EXTENDS ProgressivePlayback
==============================================================================
