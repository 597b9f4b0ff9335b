----------------------------- MODULE MCWorkflow -----------------------------
(***************************************************************************)
(* Two threads drive runs of one request_id, so that submissions, releases *)
(* and tool calls collide, while its asset is offered and withdrawn.       *)
(***************************************************************************)
EXTENDS WorkflowEngine, TLC

MCRunIds == 1..MaxRuns

MCSymmetry == Permutations(Workers) \cup Permutations(Nonces)

=============================================================================
