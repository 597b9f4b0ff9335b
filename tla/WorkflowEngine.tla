---------------------------- MODULE WorkflowEngine ----------------------------
(***************************************************************************)
(* src/workflows/engine.py: runs, the holding queues and the trace, on top *)
(* of the gateway.  The gateway is taken at its word: evaluate() is any    *)
(* behaviour GatewayPromise allows, which PolicyGateway is proved to       *)
(* implement, and the threads of the engine are its workers.               *)
(*                                                                         *)
(* The engine takes its lock for the table of runs and the queues, the     *)
(* recorder takes its own for each event, and neither is held across the   *)
(* other or across evaluate(): every call below is a chain of steps.       *)
(***************************************************************************)
EXTENDS GatewayPromise, TraceRecorder, FiniteSets

CONSTANTS
    NoJob,
    MaxRuns,        \* bound: calls of submit(), those of release included
    MaxTools        \* bound: tool calls per run

ASSUME EngineAssumption ==
    /\ IsFiniteSet(Workers)
    /\ MaxRuns \in Nat
    /\ RunIds = 1..MaxRuns
    /\ MaxTools \in Nat
    /\ NoToken \notin OpenCall /\ NoToken \notin Nonces
    /\ NoJob \notin [request : RequestIds, asset : Assets, release : BOOLEAN, answer : Nat,
                     verdict : {"allowed", "conditional", "human_review", "blocked"},
                     run : RunIds \cup {0}]

VARIABLES
    runs,           \* _runs: the sequence of runs filed, indexed by their number
    conditional,    \* _conditional_queue: per request_id the run held, or 0
    review,         \* _review_queue: the runs held under a ticket
    pc,             \* per thread: the call it is in and how far it got
    job,            \* per thread: what that call is about
    handed          \* history: the runs whose run_id some caller was given

engineVars == <<runs, conditional, review, pc, job, handed>>
vars == <<promiseVars, trace, engineVars>>

Verdicts == {"allowed", "conditional", "human_review", "blocked"}
RunStates == {"Executing", "HeldConditional", "HeldReview", "Completed", "Rejected"}

(* `answer`, `asset` and `verdict` are what the run keeps of the decision. *)
Run == [request : RequestIds, asset : Assets, answer : Nat, verdict : Verdicts,
        state : RunStates, tools : Nat]

(* A submit() or release_conditional(): `answer` is the decision's number, *)
(* `run` the run the thread works on.                                      *)
Job == [request : RequestIds, asset : Assets, release : BOOLEAN, answer : Nat,
        verdict : Verdicts, run : RunIds \cup {0}]

EngineInit ==
    /\ runs = <<>>
    /\ conditional = [q \in RequestIds |-> 0]
    /\ review = {}
    /\ pc = [w \in Workers |-> "idle"]
    /\ job = [w \in Workers |-> NoJob]
    /\ handed = {}

EngineStart == Init /\ TraceInit /\ EngineInit

-----------------------------------------------------------------------------
(* submit(), and release_conditional(), which looks for the hold under the *)
(* lock and then submits without it.                                       *)

InSubmit == {"evaluate", "received", "policy", "file"}

Submissions == Len(runs) + Cardinality({w \in Workers : pc[w] \in InSubmit})

Begin(w, q, a, release) ==
    /\ pc[w] = "idle"
    /\ Submissions < MaxRuns
    /\ Open(w, a)
    /\ pc' = [pc EXCEPT ![w] = "evaluate"]
    /\ job' = [job EXCEPT ![w] = [request |-> q, asset |-> a, release |-> release,
                                  answer |-> 0, verdict |-> "blocked", run |-> 0]]
    /\ UNCHANGED <<trace, runs, conditional, review, handed>>

Submit(w, q, a) == Begin(w, q, a, FALSE)

(* The hold is looked up by request_id alone; what is submitted is what    *)
(* the caller passes, for the asset held or another.                       *)
Release(w, q, a) == conditional[q] # 0 /\ Begin(w, q, a, TRUE)

(* evaluate() reads the record of the asset.                               *)
Read(w) == pc[w] = "evaluate" /\ Look(w) /\ UNCHANGED <<trace, engineVars>>

(* It burns a token on the way to its answer.                              *)
Consume(w, n) == pc[w] = "evaluate" /\ Pay(w, n) /\ UNCHANGED <<trace, engineVars>>

Decide(w, verdict) ==
    /\ pc[w] = "evaluate"
    /\ \/ verdict \in {"allowed", "human_review"} /\ Grant(w, Cardinality(answers))
       \/ verdict = "conditional" /\ Defer(w, Cardinality(answers))
       \/ verdict = "blocked" /\ Refuse(w, Cardinality(answers))
    /\ pc' = [pc EXCEPT ![w] = "received"]
    /\ job' = [job EXCEPT ![w].answer = Cardinality(answers), ![w].verdict = verdict]
    /\ UNCHANGED <<trace, runs, conditional, review, handed>>

TraceReceived(w) ==
    /\ pc[w] = "received"
    /\ AppendEvent(job[w].request, "request.received", 0)
    /\ pc' = [pc EXCEPT ![w] = "policy"]
    /\ UNCHANGED <<promiseVars, runs, conditional, review, job, handed>>

(* A submit() that leaves the policy event out.                            *)
TracePolicySkipped(w) ==
    /\ pc[w] = "policy"
    /\ pc' = [pc EXCEPT ![w] = "file"]
    /\ UNCHANGED <<promiseVars, trace, runs, conditional, review, job, handed>>

PolicyEvent == [allowed |-> "policy.allowed", conditional |-> "policy.conditional",
                human_review |-> "policy.human_review", blocked |-> "policy.blocked"]

TracePolicy(w) ==
    /\ pc[w] = "policy"
    /\ AppendEvent(job[w].request, PolicyEvent[job[w].verdict], 0)
    /\ pc' = [pc EXCEPT ![w] = "file"]
    /\ UNCHANGED <<promiseVars, runs, conditional, review, job, handed>>

StateFor == [allowed |-> "Executing", conditional |-> "HeldConditional",
             human_review |-> "HeldReview", blocked |-> "Rejected"]

(* A call that leaves its locals behind.                                   *)
FinishKeepingJob(w, given) ==
    /\ pc' = [pc EXCEPT ![w] = "idle"]
    /\ handed' = handed \cup given
    /\ UNCHANGED job

(* The call of w ends; `given` is the run its caller is handed, if any.    *)
Finish(w, given) ==
    /\ pc' = [pc EXCEPT ![w] = "idle"]
    /\ job' = [job EXCEPT ![w] = NoJob]
    /\ handed' = handed \cup given

NewRun(w) == [request |-> job[w].request, asset |-> job[w].asset, answer |-> job[w].answer,
              verdict |-> job[w].verdict, state |-> StateFor[job[w].verdict], tools |-> 0]

(* A hold of the same request_id is overwritten.                           *)
HeldAfterFiling(w, n) ==
    IF job[w].verdict = "conditional"
    THEN [conditional EXCEPT ![job[w].request] = n] ELSE conditional

(* The lock section that ends submit(): the run becomes visible in the     *)
(* state its verdict calls for, and in the queue that goes with it.        *)
FileRun(w) ==
    /\ pc[w] = "file"
    /\ LET n == Len(runs) + 1
       IN /\ runs' = Append(runs, NewRun(w))
          /\ conditional' = HeldAfterFiling(w, n)
          /\ review' = IF job[w].verdict = "human_review" THEN review \cup {n} ELSE review
          /\ IF job[w].release
             THEN /\ pc' = [pc EXCEPT ![w] = "settle"]
                  /\ job' = [job EXCEPT ![w].run = n]
                  /\ UNCHANGED handed
             ELSE Finish(w, {n})
    /\ UNCHANGED <<promiseVars, trace>>

(* A release that deletes the hold whatever the fresh verdict is.          *)
SettleAnyVerdict(w) ==
    /\ pc[w] = "settle"
    /\ job[w].verdict = "allowed" => conditional[job[w].request] # 0
    /\ conditional' = [conditional EXCEPT ![job[w].request] = 0]
    /\ pc' = [pc EXCEPT ![w] = "released"]
    /\ UNCHANGED <<promiseVars, trace, runs, review, job, handed>>

(* The rest of release_conditional(): an Allowed verdict deletes the hold, *)
(* which is a KeyError if another release has deleted it meanwhile.        *)
Settle(w) ==
    /\ pc[w] = "settle"
    /\ job[w].verdict = "allowed" => conditional[job[w].request] # 0
    /\ conditional' = IF job[w].verdict = "allowed"
                      THEN [conditional EXCEPT ![job[w].request] = 0] ELSE conditional
    /\ pc' = [pc EXCEPT ![w] = "released"]
    /\ UNCHANGED <<promiseVars, trace, runs, review, job, handed>>

SettleRaises(w) ==
    /\ pc[w] = "settle"
    /\ job[w].verdict = "allowed"
    /\ conditional[job[w].request] = 0
    /\ Finish(w, {})
    /\ UNCHANGED <<promiseVars, trace, runs, conditional, review>>

TraceReleased(w) ==
    /\ pc[w] = "released"
    /\ AppendEvent(job[w].request, "hold.released", 0)
    /\ Finish(w, {job[w].run})
    /\ UNCHANGED <<promiseVars, runs, conditional, review>>

-----------------------------------------------------------------------------
(* Agents at work on a run: the run changes under the engine's lock, the   *)
(* event follows under the recorder's.  run_id values are random: only a   *)
(* run that was handed to a caller is worked on.                           *)

Work(w, n, step) ==
    /\ pc[w] = "idle"
    /\ pc' = [pc EXCEPT ![w] = step]
    /\ job' = [job EXCEPT ![w] = [request |-> runs[n].request, asset |-> runs[n].asset,
                                  release |-> FALSE, answer |-> runs[n].answer,
                                  verdict |-> runs[n].verdict, run |-> n]]
    /\ UNCHANGED <<promiseVars, trace, conditional, review, handed>>

(* A record_tool_call() that has lost both of its checks.                  *)
RecordToolCallUnchecked(w, n) ==
    /\ runs[n].tools < MaxTools
    /\ Work(w, n, "tool")
    /\ runs' = [runs EXCEPT ![n].tools = @ + 1]

RecordToolCall(w, n) ==
    /\ runs[n].state = "Executing"
    /\ runs[n].verdict = "allowed"
    /\ runs[n].tools < MaxTools
    /\ Work(w, n, "tool")
    /\ runs' = [runs EXCEPT ![n].tools = @ + 1]

(* A record_output() that takes outputs in any state.                      *)
RecordOutputUnchecked(w, n) ==
    /\ Work(w, n, "output")
    /\ runs' = [runs EXCEPT ![n].state = "Completed"]

RecordOutput(w, n) ==
    /\ runs[n].state = "Executing"
    /\ Work(w, n, "output")
    /\ runs' = [runs EXCEPT ![n].state = "Completed"]

TraceWork(w) ==
    /\ pc[w] \in {"tool", "output"}
    /\ AppendEvent(job[w].request,
                   IF pc[w] = "tool" THEN "tool.called" ELSE "run.completed", job[w].run)
    /\ Finish(w, {})
    /\ UNCHANGED <<promiseVars, runs, conditional, review>>

-----------------------------------------------------------------------------
Continue(w) ==
    \/ Read(w)
    \/ \E n \in Nonces : Consume(w, n)
    \/ \E verdict \in Verdicts : Decide(w, verdict)
    \/ TraceReceived(w) \/ TracePolicy(w) \/ FileRun(w)
    \/ Settle(w) \/ SettleRaises(w) \/ TraceReleased(w)
    \/ TraceWork(w)

StartCall(w) ==
    \/ \E q \in RequestIds, a \in Assets : Submit(w, q, a) \/ Release(w, q, a)
    \/ \E n \in handed : RecordToolCall(w, n) \/ RecordOutput(w, n)

(* The registry changes as the gateway's promise allows.                   *)
RegistryChanges ==
    /\ \E a \in Assets : Offer(a) \/ Withdraw(a)
    /\ UNCHANGED <<trace, engineVars>>

EngineNext ==
    \/ \E w \in Workers : StartCall(w) \/ Continue(w)
    \/ RegistryChanges

EngineSpec == EngineStart /\ [][EngineNext]_vars

-----------------------------------------------------------------------------
(* Every variable of the engine and the recorder keeps its type.           *)
EngineTypeOK ==
    /\ TraceTypeOK
    /\ runs \in Seq(Run)
    /\ Len(runs) <= MaxRuns
    /\ conditional \in [RequestIds -> RunIds \cup {0}]
    /\ review \in SUBSET RunIds
    /\ pc \in [Workers -> {"idle", "settle", "released", "tool", "output"} \cup InSubmit]
    /\ job \in [Workers -> Job \cup {NoJob}]
    /\ handed \in SUBSET (DOMAIN runs)
    /\ \A w \in Workers : pc[w] = "idle" <=> job[w] = NoJob

InFlight(n, step) == Cardinality({w \in Workers : pc[w] = step /\ job[w].run = n})

EventsOf(n, event) == Cardinality({i \in DOMAIN trace : trace[i].run = n /\ trace[i].event = event})

(* The trace accounts for the work: a run has made the tool calls whose    *)
(* events are traced or about to be, neither more nor fewer, and has       *)
(* completed exactly once if it has completed at all, although run and     *)
(* trace change under different locks.                                     *)
WorkAccounted ==
    \A n \in DOMAIN runs :
        /\ EventsOf(n, "tool.called") + InFlight(n, "tool") = runs[n].tools
        /\ EventsOf(n, "run.completed") + InFlight(n, "output") =
             IF runs[n].state = "Completed" THEN 1 ELSE 0

(* "Execution of a tool call requires an Allowed decision for the same     *)
(* request_id" (engine.py:6): a run that called a tool rests on an answer  *)
(* that granted its asset, in time, paid for if the asset has a price, and *)
(* no other run rests on that answer or on the token it burnt.             *)
Funds(n, r) ==
    /\ r.id = runs[n].answer
    /\ r.outcome = "granted" /\ ~r.late
    /\ r.asset = runs[n].asset
    /\ r.asset \in priced <=> r.paid # NoToken
    /\ \A s \in answers \ {r} : s.paid = r.paid => r.paid = NoToken
    /\ \A m \in DOMAIN runs : runs[m].answer = r.id => m = n

ToolsAreFunded ==
    \A n \in DOMAIN runs :
        runs[n].tools > 0 => runs[n].verdict = "allowed" /\ \E r \in answers : Funds(n, r)

(* The trace explains every tool call: before it stand at least as many    *)
(* policy.allowed events of its request_id as runs of that request_id that *)
(* had worked by then, for runs that share a request_id too.               *)
PolicyRecordedFirst ==
    \A i \in DOMAIN trace :
        trace[i].run # 0 =>
          LET q == trace[i].request
              worked == {trace[j].run : j \in {k \in 1..i : trace[k].request = q}} \ {0}
          IN  Cardinality(worked) <= Cardinality({k \in Occurrences(q, "policy.allowed") : k < i})

(* The queues and the states of the runs agree, though agents work on runs *)
(* and releases file and settle their own: what a queue names is held for  *)
(* it, every run held for review is in the review queue, and a held run    *)
(* whose request_id has lost its hold lost it to an Allowed run.           *)
QueuesHoldHeldRuns ==
    /\ review = {n \in DOMAIN runs : runs[n].state = "HeldReview"}
    /\ \A q \in RequestIds :
         conditional[q] # 0 =>
           /\ runs[conditional[q]].request = q
           /\ runs[conditional[q]].state = "HeldConditional"
    /\ \A n \in DOMAIN runs :
         runs[n].state = "HeldConditional" /\ conditional[runs[n].request] = 0 =>
           \E m \in DOMAIN runs :
             runs[m].request = runs[n].request /\ runs[m].verdict = "allowed"

(* A run left Executing that no caller was given, because the release that *)
(* filed it raised KeyError, is left so only where another Allowed run of  *)
(* the same request_id is its caller's, or still being filed and settled.  *)
Working(n) == \E w \in Workers : job[w] # NoJob /\ job[w].run = n

GrantReachesCaller ==
    \A n \in DOMAIN runs \ handed :
        runs[n].state = "Executing" /\ ~Working(n) =>
          \E m \in DOMAIN runs \ {n} :
            /\ runs[m].request = runs[n].request
            /\ runs[m].verdict = "allowed"
            /\ m \in handed \/ Working(m)

(* "AssetStore.withdraw plus ConnectorRegistry.quarantine halt downstream  *)
(* retrieval and generation synchronously" (regulatory-alignment.md:28),   *)
(* read for the runs under way: no tool call is accepted for an asset that *)
(* is withdrawn.                                                           *)
NoToolCallAfterWithdrawal ==
    [][\A n \in DOMAIN runs :
         runs'[n].tools > runs[n].tools => runs[n].asset \notin gone]_vars

(* A hold goes only because a release was Allowed: when it does, a run of  *)
(* its request_id, filed after one that was held, is Allowed and about to  *)
(* be handed to the caller of the release.                                 *)
HoldGoesWithGrant ==
    [][\A q \in RequestIds :
         conditional[q] # 0 /\ conditional'[q] = 0 =>
           \E n, m \in DOMAIN runs :
             /\ m < n /\ runs[m].request = q /\ runs[n].request = q
             /\ runs[m].state = "HeldConditional"
             /\ runs[n].verdict = "allowed" /\ n \notin handed]_vars

(* "Conditional decisions park in a FIFO holding queue keyed by request"   *)
(* (engine.py:5): a held run is in the queue, unless a later run of its    *)
(* request_id was Allowed or is held in its place.                         *)
HeldRunsAreParked ==
    \A n \in DOMAIN runs :
        /\ runs[n].state = "HeldConditional"
        /\ \A m \in n + 1..Len(runs) :
             runs[m].request = runs[n].request => runs[m].verdict \notin {"allowed", "conditional"}
        => conditional[runs[n].request] = n

=============================================================================
