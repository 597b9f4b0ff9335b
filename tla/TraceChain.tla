----------------------------- MODULE TraceChain -----------------------------
(***************************************************************************)
(* The hash chain of src/records/trace.py and schemas/trace.py, and what   *)
(* verify_chain() makes of a list of events that somebody edited.  SHA-256 *)
(* is the pair of what it digests; the request, the name, the actor, the   *)
(* detail and the wall time of an event are its `content`.                 *)
(***************************************************************************)
EXTENDS Integers, SequencesExt

CONSTANTS
    EventContents,
    MaxEvents,          \* bound: length of the trace
    MaxNs               \* bound: time.monotonic_ns() stops there

ASSUME ChainAssumption == MaxEvents \in Nat /\ MaxNs \in Nat

VARIABLES
    events,             \* _events
    ns                  \* time.monotonic_ns()

chainVars == <<events, ns>>

Genesis == <<>>

ChainHash(prev, body) == <<prev, body>>

Body(e) == [sequence |-> e.sequence, ns |-> e.ns, content |-> e.content]

ChainInit == events = <<>> /\ ns = 0

(* append(): numbered, timed and linked to the last event under one lock.  *)
AppendEvent(content) ==
    /\ Len(events) < MaxEvents
    /\ LET body == [sequence |-> Len(events), ns |-> ns, content |-> content]
           prev == IF events = <<>> THEN Genesis ELSE Last(events).hash
       IN  events' = Append(events,
             [sequence |-> body.sequence, ns |-> ns, content |-> content,
              prev |-> prev, hash |-> ChainHash(prev, body)])
    /\ UNCHANGED ns

TimePasses == ns < MaxNs /\ ns' = ns + 1 /\ UNCHANGED events

(* A link that is checked without recomputing the event's hash.            *)
VerifyPrevOnly(e, prev) == e.prev = prev

VerifyLink(e, prev) == e.prev = prev /\ ChainHash(e.prev, Body(e)) = e.hash

VerifyChain(list) ==
    \A i \in DOMAIN list :
        /\ VerifyLink(list[i], IF i = 1 THEN Genesis ELSE list[i - 1].hash)
        /\ i > 1 => list[i].ns >= list[i - 1].ns

-----------------------------------------------------------------------------
Recorded == {events[i].hash : i \in DOMAIN events}

(* An edit may set any field of an event, the stored hashes included: to   *)
(* one of the trace, or to the hash anybody can recompute of an event.     *)
KnownHashes(list) ==
    {Genesis} \cup Recorded
      \cup {ChainHash(list[i].prev, Body(list[i])) : i \in DOMAIN list}

Altered(list) ==
    UNION {{[list EXCEPT ![i].content = c] : c \in EventContents}
             \cup {[list EXCEPT ![i].ns = t] : t \in 0..MaxNs}
             \cup {[list EXCEPT ![i].sequence = n] : n \in 0..MaxEvents}
             \cup {[list EXCEPT ![i].prev = h] : h \in KnownHashes(list)}
             \cup {[list EXCEPT ![i].hash = h] : h \in KnownHashes(list)} : i \in DOMAIN list}

Moved(list) ==
    {InsertAt(RemoveAt(list, i), j, list[i]) : i, j \in DOMAIN list}
      \cup {InsertAt(list, j, list[i]) : i, j \in DOMAIN list}

Cut(list) == {SubSeq(list, i, j) : i \in 1..Len(list) + 1, j \in 0..Len(list)}

Edited(list) == Altered(list) \cup Moved(list) \cup Cut(list)

(* "Any reordering, deletion, or mutation breaks the chain" (schemas/      *)
(* trace.py:4), for whoever has kept a hash of the trace: in a trace that  *)
(* was edited twice and verifies, an event under a hash the trace had      *)
(* stands after exactly the events it was recorded after, itself and those *)
(* unchanged.  The hashes have no key: events after the last recorded hash *)
(* may be new, their hashes computed by whoever edited, and events may be  *)
(* missing at the end.                                                     *)
ChainTellsEdits ==
    \A f \in UNION {Edited(g) : g \in Edited(events)} :
        /\ IsPrefix(f, events) => VerifyChain(f)
        /\ VerifyChain(f) =>
             \A i \in DOMAIN f : f[i].hash \in Recorded => IsPrefix(SubSeq(f, 1, i), events)

=============================================================================
