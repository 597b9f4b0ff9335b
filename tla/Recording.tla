------------------------------ MODULE Recording ------------------------------
(***************************************************************************)
(* The two records a run of the evidence script leaves (generate_evidence  *)
(* .py:147 and :211): the hash-chained trace and the NDJSON log.           *)
(***************************************************************************)
EXTENDS TraceChain, NdjsonLog

vars == <<chainVars, logVars>>

Init == ChainInit /\ LogInit

Next ==
    \/ /\ (\E c \in EventContents : AppendEvent(c)) \/ TimePasses
       /\ UNCHANGED logVars
    \/ LogNext /\ UNCHANGED chainVars

Spec == Init /\ [][Next]_vars

=============================================================================
