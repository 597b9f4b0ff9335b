----------------------------- MODULE MCRecording -----------------------------
(***************************************************************************)
(* Every two edits of traces of up to three events, and three lines of     *)
(* two logging threads: one more than the pair that overlaps.              *)
(***************************************************************************)
EXTENDS Recording

=============================================================================
