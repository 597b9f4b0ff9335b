---------------------------- MODULE TraceRecorder ----------------------------
(***************************************************************************)
(* src/records/trace.py: the append-only trace.  append() builds and links *)
(* the event under one lock, so the order of the list is the order of the  *)
(* sequence numbers and of monotonic_ns; an event's position stands for    *)
(* both.  The hash chain is left out: nothing in src/ rewrites the list.   *)
(*                                                                         *)
(* `run` is history: the run an event is about, which the code does not    *)
(* record (events carry the request_id only), 0 if there is none yet.      *)
(***************************************************************************)
EXTENDS Integers, Sequences

CONSTANTS
    RequestIds,     \* request_id values
    RunIds          \* numbers of runs, in the order they are filed

VARIABLE trace      \* _events

EventNames ==
    {"request.received", "policy.allowed", "policy.conditional", "policy.human_review",
     "policy.blocked", "tool.called", "run.completed", "hold.released"}

TraceEvent == [request : RequestIds, event : EventNames, run : RunIds \cup {0}]

TraceTypeOK == trace \in Seq(TraceEvent)

TraceInit == trace = <<>>

Event(q, event, n) == [request |-> q, event |-> event, run |-> n]

(* append(): always at the end.                                            *)
AppendEvent(q, event, n) == trace' = Append(trace, Event(q, event, n))

Occurrences(q, event) == {i \in DOMAIN trace : trace[i].request = q /\ trace[i].event = event}

=============================================================================
