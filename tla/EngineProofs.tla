---------------------------- MODULE EngineProofs ----------------------------
(***************************************************************************)
(* Theorems about WorkflowEngine, for any number of threads, assets,       *)
(* request ids and nonces.                                                 *)
(***************************************************************************)
EXTENDS WorkflowEngine, SequenceTheorems, FiniteSetTheorems, TLAPS

-----------------------------------------------------------------------------
(* Types                                                                   *)

Submitters == {w \in Workers : pc[w] \in InSubmit}

(* A decision takes its number from the number of answers, and the run a   *)
(* thread works on is filed.                                               *)
TypeInv ==
    /\ EngineTypeOK
    /\ IsFiniteSet(answers)
    /\ Len(runs) + Cardinality(Submitters) <= MaxRuns
    /\ \A w \in Workers : pc[w] \notin InSubmit \cup {"idle"} => job[w].run \in DOMAIN runs

(* A decided submission, not filed yet; a run that its release still holds.*)
Decided(w) == pc[w] \in {"received", "policy", "file"}

Settling(w) == pc[w] \in {"settle", "released"}

-----------------------------------------------------------------------------
(* Grants                                                                  *)

Outcomes == {"granted", "held", "refused"}

AnswerType == [id : Nat, asset : Assets, late : BOOLEAN, outcome : Outcomes,
               paid : Nonces \cup {NoToken}]

(* What the answers of a gateway that keeps its promise are worth.         *)
AnswersSound ==
    /\ open \in [Workers -> OpenCall \cup {NoToken}]
    /\ answers \in SUBSET AnswerType
    /\ priced \subseteq offered
    /\ \A r, s \in answers : r.id = s.id => r = s
    /\ \A r \in answers : r.outcome = "granted" =>
         ~r.late /\ r.asset \in offered /\ (r.asset \in priced <=> r.paid # NoToken)

(* A nonce that is sold is paid in one call or one answer.                 *)
Holds(w, n) == open[w] # NoToken /\ open[w].paid = n

SalesSound ==
    \A n \in Nonces :
        /\ (\E w \in Workers : Holds(w, n)) => n \in spent /\ \A r \in answers : r.paid # n
        /\ \A w, u \in Workers : Holds(w, n) /\ Holds(u, n) => w = u
        /\ \A r \in answers : r.paid = n => n \in spent
        /\ \A r, s \in answers : r.paid = n /\ s.paid = n => r = s

(* The submission of a thread and the runs filed each have an answer of    *)
(* their own, for their asset, and granted if they say so.                 *)
Favourable == {"allowed", "human_review"}

RestsOn(answer, asset, verdict) ==
    \E r \in answers :
        r.id = answer /\ r.asset = asset /\ (r.outcome = "granted" <=> verdict \in Favourable)

AnswersOwned ==
    /\ \A w \in Workers : open[w] # NoToken <=> pc[w] = "evaluate"
    /\ \A w \in Workers : pc[w] = "evaluate" => open[w].asset = job[w].asset
    /\ \A w \in Workers : Decided(w) => RestsOn(job[w].answer, job[w].asset, job[w].verdict)
    /\ \A n \in DOMAIN runs : RestsOn(runs[n].answer, runs[n].asset, runs[n].verdict)
    /\ \A w, u \in Workers : Decided(w) /\ Decided(u) /\ job[w].answer = job[u].answer => w = u
    /\ \A w \in Workers : \A n \in DOMAIN runs : Decided(w) => job[w].answer # runs[n].answer
    /\ \A m, n \in DOMAIN runs : runs[m].answer = runs[n].answer => m = n

ToolsAllowed == \A n \in DOMAIN runs : runs[n].tools > 0 => runs[n].verdict = "allowed"

FundInv == AnswersSound /\ SalesSound /\ AnswersOwned /\ ToolsAllowed

-----------------------------------------------------------------------------
(* Holds                                                                   *)

StateMatches(n) ==
    /\ runs[n].state \in {StateFor[runs[n].verdict], "Completed"}
    /\ runs[n].state = "Completed" => runs[n].verdict = "allowed"

(* A run that a release has filed and not handed out yet.                  *)
Delivered(m) == m \in handed \/ \E u \in Workers : pc[u] = "released" /\ job[u].run = m

(* The Allowed release that took a hold, from the point of view of one     *)
(* that finds it gone.                                                     *)
Outrun(q, n) ==
    \E m \in DOMAIN runs \ {n} :
        runs[m].request = q /\ runs[m].verdict = "allowed" /\ Delivered(m)

HeldBefore(q, n) ==
    \E m \in DOMAIN runs : m < n /\ runs[m].request = q /\ runs[m].state = "HeldConditional"

Releasing(w) == pc[w] \in InSubmit \cup {"settle"} /\ job[w].release

HoldInv ==
    /\ QueuesHoldHeldRuns
    /\ \A q \in RequestIds : conditional[q] \in DOMAIN runs \cup {0}
    /\ \A n \in DOMAIN runs : StateMatches(n)
    /\ \A w \in Workers : Settling(w) =>
         LET n == job[w].run
         IN  /\ job[w].release /\ n \notin handed
             /\ runs[n].request = job[w].request /\ runs[n].verdict = job[w].verdict
             /\ HeldBefore(job[w].request, n)
    /\ \A w, u \in Workers : Settling(w) /\ Settling(u) /\ job[w].run = job[u].run => w = u
    /\ \A w \in Workers : Releasing(w) =>
         /\ pc[w] # "settle" => job[w].run = 0
         /\ HeldBefore(job[w].request, Len(runs) + 1)
         /\ conditional[job[w].request] # 0 \/ Outrun(job[w].request, job[w].run)
    /\ \A n \in DOMAIN runs \ handed :
         runs[n].state = "Executing" =>
           (\E w \in Workers : Settling(w) /\ job[w].run = n) \/ Outrun(runs[n].request, n)

-----------------------------------------------------------------------------
(* Counts                                                                  *)

(* Tool calls and outputs are of runs that were Allowed, and their events  *)
(* carry the request_id of the run.                                        *)
EventsOfRuns ==
    /\ \A i \in DOMAIN trace : trace[i].run # 0 =>
         /\ trace[i].run \in DOMAIN runs
         /\ runs[trace[i].run].verdict = "allowed"
         /\ runs[trace[i].run].request = trace[i].request
         /\ trace[i].event # "policy.allowed"
    /\ \A w \in Workers : pc[w] \in {"tool", "output"} =>
         /\ runs[job[w].run].verdict = "allowed"
         /\ runs[job[w].run].request = job[w].request

AllowedRuns(q) == {n \in DOMAIN runs : runs[n].request = q /\ runs[n].verdict = "allowed"}

AboutToFile(q) ==
    {w \in Workers : pc[w] = "file" /\ job[w].request = q /\ job[w].verdict = "allowed"}

(* Every policy.allowed event is of a run filed or about to be.            *)
PolicyCounted ==
    \A q \in RequestIds :
        Cardinality(AllowedRuns(q)) + Cardinality(AboutToFile(q))
          = Cardinality(Occurrences(q, "policy.allowed"))

CountInv == WorkAccounted /\ EventsOfRuns /\ PolicyCounted /\ PolicyRecordedFirst

-----------------------------------------------------------------------------
(* Proofs: types                                                           *)

LEMMA StateForTypes ==
    /\ \A v \in Verdicts : StateFor[v] \in RunStates
    /\ StateFor["allowed"] = "Executing" /\ StateFor["conditional"] = "HeldConditional"
    /\ StateFor["human_review"] = "HeldReview" /\ StateFor["blocked"] = "Rejected"
BY DEF StateFor, Verdicts, RunStates

LEMMA JobOf ==
    ASSUME TypeInv, NEW w \in Workers, pc[w] # "idle"
    PROVE  /\ job[w] \in Job
           /\ job[w].request \in RequestIds /\ job[w].asset \in Assets
           /\ job[w].release \in BOOLEAN /\ job[w].answer \in Nat
           /\ job[w].verdict \in Verdicts /\ job[w].run \in RunIds \cup {0}
<1>1. job[w] \in Job
  BY DEF TypeInv, EngineTypeOK
<1> QED BY <1>1 DEF Job

LEMMA RunOf ==
    ASSUME TypeInv, NEW n \in DOMAIN runs
    PROVE  /\ runs[n] \in Run /\ n \in RunIds /\ n \in Nat \ {0} /\ n <= Len(runs)
           /\ runs[n].request \in RequestIds /\ runs[n].asset \in Assets
           /\ runs[n].answer \in Nat /\ runs[n].verdict \in Verdicts
           /\ runs[n].state \in RunStates /\ runs[n].tools \in Nat
<1>1. runs \in Seq(Run) /\ Len(runs) <= MaxRuns
  BY DEF TypeInv, EngineTypeOK
<1>2. DOMAIN runs = 1..Len(runs) /\ Len(runs) \in Nat
  BY <1>1, LenProperties
<1>3. runs[n] \in Run
  BY <1>1, <1>2, ElementOfSeq
<1> QED BY <1>1, <1>2, <1>3, EngineAssumption DEF Run

LEMMA RunsLength ==
    ASSUME TypeInv
    PROVE  /\ runs \in Seq(Run) /\ Len(runs) \in Nat /\ DOMAIN runs = 1..Len(runs)
           /\ Len(runs) + 1 \notin DOMAIN runs
<1>1. runs \in Seq(Run)
  BY DEF TypeInv, EngineTypeOK
<1> QED BY <1>1, LenProperties

LEMMA SubmittersFinite == IsFiniteSet(Submitters) /\ Cardinality(Submitters) \in Nat
<1>1. Submitters \in SUBSET Workers
  BY DEF Submitters
<1> QED BY <1>1, EngineAssumption, FS_Subset, FS_CardinalityType

(* What a step of one thread does to the number of submissions.            *)
LEMMA FewSubmit ==
    ASSUME TypeInv, NEW w \in Workers, NEW step, pc' = [pc EXCEPT ![w] = step]
    PROVE  /\ Cardinality(Submitters)' \in Nat
           /\ (step \in InSubmit <=> pc[w] \in InSubmit)
                => Cardinality(Submitters)' = Cardinality(Submitters)
           /\ step \in InSubmit /\ pc[w] \notin InSubmit
                => Cardinality(Submitters)' = Cardinality(Submitters) + 1
           /\ step \notin InSubmit /\ pc[w] \in InSubmit
                => Cardinality(Submitters)' = Cardinality(Submitters) - 1
<1>1. pc \in [Workers -> {"idle", "settle", "released", "tool", "output"} \cup InSubmit]
  BY DEF TypeInv, EngineTypeOK
<1>2. w \in Submitters <=> pc[w] \in InSubmit
  BY DEF Submitters
<1>3. CASE step \in InSubmit
  <2>1. Submitters' = Submitters \cup {w}
    BY <1>1, <1>3 DEF Submitters
  <2>2. Cardinality(Submitters \cup {w}) =
          IF w \in Submitters THEN Cardinality(Submitters) ELSE Cardinality(Submitters) + 1
    BY SubmittersFinite, FS_AddElement
  <2> QED BY <1>2, <1>3, <2>1, <2>2, SubmittersFinite
<1>4. CASE step \notin InSubmit
  <2>1. Submitters' = Submitters \ {w}
    BY <1>1, <1>4 DEF Submitters
  <2>2. Cardinality(Submitters \ {w}) =
          IF w \in Submitters THEN Cardinality(Submitters) - 1 ELSE Cardinality(Submitters)
    BY SubmittersFinite, FS_RemoveElement
  <2>3. IsFiniteSet(Submitters \ {w})
    BY SubmittersFinite, FS_RemoveElement
  <2>4. Cardinality(Submitters \ {w}) \in Nat
    BY <2>3, FS_CardinalityType
  <2> QED BY <1>2, <1>4, <2>1, <2>2, <2>4, SubmittersFinite
<1> QED BY <1>3, <1>4

(* The record that FileRun appends.                                        *)
LEMMA NewRunType ==
    ASSUME TypeInv, NEW w \in Workers, pc[w] = "file"
    PROVE  /\ NewRun(w) \in Run
           /\ NewRun(w).request = job[w].request /\ NewRun(w).asset = job[w].asset
           /\ NewRun(w).answer = job[w].answer /\ NewRun(w).verdict = job[w].verdict
           /\ NewRun(w).state = StateFor[job[w].verdict] /\ NewRun(w).tools = 0
BY JobOf, StateForTypes DEF NewRun, Run

LEMMA TraceEventType ==
    ASSUME TraceTypeOK, NEW q \in RequestIds, NEW e \in EventNames, NEW n \in RunIds \cup {0},
           AppendEvent(q, e, n)
    PROVE  TraceTypeOK'
BY AppendProperties DEF AppendEvent, Event, TraceEvent, TraceTypeOK

LEMMA PolicyEventName ==
    \A v \in Verdicts :
        /\ PolicyEvent[v] \in EventNames
        /\ PolicyEvent[v] = "policy.allowed" <=> v = "allowed"
BY DEF PolicyEvent, Verdicts, EventNames

(* A thread that moves to another step of its call, nothing else changing. *)
LEMMA MoveTypes ==
    ASSUME TypeInv, NEW w \in Workers, pc[w] # "idle",
           NEW step \in {"settle", "released", "tool", "output"} \cup InSubmit,
           pc' = [pc EXCEPT ![w] = step],
           NEW j \in Job, job' = [job EXCEPT ![w] = j],
           step \in InSubmit => pc[w] \in InSubmit,
           step \notin InSubmit => j.run \in DOMAIN runs,
           conditional' \in [RequestIds -> RunIds \cup {0}],
           TraceTypeOK', IsFiniteSet(answers'), UNCHANGED <<runs, review, handed>>
    PROVE  TypeInv'
<1>1. Cardinality(Submitters)' <= Cardinality(Submitters)
  <2>1. Cardinality(Submitters)' \in {Cardinality(Submitters), Cardinality(Submitters) - 1}
    BY FewSubmit
  <2> QED BY <2>1, SubmittersFinite
<1>2. EngineTypeOK'
  <2>1. job' \in [Workers -> Job \cup {NoJob}]
    BY DEF TypeInv, EngineTypeOK
  <2>2. pc' \in [Workers -> {"idle", "settle", "released", "tool", "output"} \cup InSubmit]
    BY DEF TypeInv, EngineTypeOK
  <2>3. NoJob # j
    BY EngineAssumption DEF Job, Verdicts
  <2>4. \A u \in Workers : pc'[u] = "idle" <=> job'[u] = NoJob
    BY <2>3 DEF TypeInv, EngineTypeOK, InSubmit
  <2> QED BY <2>1, <2>2, <2>4 DEF TypeInv, EngineTypeOK
<1>3. Len(runs') + Cardinality(Submitters)' <= MaxRuns
  <2>1. Len(runs) + Cardinality(Submitters) <= MaxRuns
    BY DEF TypeInv
  <2>2. Cardinality(Submitters)' \in Nat
    BY FewSubmit
  <2> QED BY <1>1, <2>1, <2>2, RunsLength, SubmittersFinite, EngineAssumption
<1>4. \A u \in Workers : pc'[u] \notin InSubmit \cup {"idle"} => job'[u].run \in DOMAIN runs'
  BY DEF TypeInv, EngineTypeOK
<1> QED BY <1>2, <1>3, <1>4 DEF TypeInv

(* A thread whose call ends.                                               *)
LEMMA FinishTypes ==
    ASSUME TypeInv, NEW w \in Workers, pc[w] \notin InSubmit \cup {"idle"},
           NEW given \in SUBSET DOMAIN runs, Finish(w, given),
           TraceTypeOK', UNCHANGED <<runs, conditional, review, answers>>
    PROVE  TypeInv'
<1>1. Cardinality(Submitters)' = Cardinality(Submitters)
  <2>1. Submitters' = Submitters
    BY DEF Finish, Submitters, InSubmit, TypeInv, EngineTypeOK
  <2> QED BY <2>1
<1>2. EngineTypeOK'
  BY DEF Finish, TypeInv, EngineTypeOK
<1>3. \A u \in Workers : pc'[u] \notin InSubmit \cup {"idle"} => job'[u].run \in DOMAIN runs'
  BY DEF Finish, TypeInv, EngineTypeOK
<1> QED BY <1>1, <1>2, <1>3 DEF TypeInv

LEMMA AnswersFinite ==
    ASSUME TypeInv, NEW w, NEW id, NEW outcome, Answer(w, id, outcome)
    PROVE  IsFiniteSet(answers')
<1> DEFINE r == [id |-> id, asset |-> open[w].asset, late |-> open[w].late,
                 outcome |-> outcome, paid |-> open[w].paid]
<1>1. answers' = answers \cup {r}
  BY DEF Answer
<1> HIDE DEF r
<1> QED BY <1>1, FS_AddElement DEF TypeInv

LEMMA BeginTypes ==
    ASSUME TypeInv, NEW w \in Workers, NEW q \in RequestIds, NEW a \in Assets,
           NEW release \in BOOLEAN, Begin(w, q, a, release)
    PROVE  TypeInv'
<1> DEFINE j == [request |-> q, asset |-> a, release |-> release,
                 answer |-> 0, verdict |-> "blocked", run |-> 0]
<1>1. j \in Job /\ j # NoJob
  BY EngineAssumption DEF Job, Verdicts
<1>2. Cardinality(Submitters)' = Cardinality(Submitters) + 1
  BY FewSubmit, SubmittersFinite DEF Begin, InSubmit
<1>3. Len(runs') + Cardinality(Submitters)' <= MaxRuns
  BY <1>2, RunsLength, SubmittersFinite, EngineAssumption DEF Begin, Submissions, Submitters
<1>4. job' = [job EXCEPT ![w] = j] /\ pc' = [pc EXCEPT ![w] = "evaluate"]
      /\ UNCHANGED <<trace, runs, conditional, review, handed, answers>>
  BY DEF Begin, Open
<1> HIDE DEF j
<1>5. EngineTypeOK'
  <2>1. job' \in [Workers -> Job \cup {NoJob}]
    BY <1>1, <1>4 DEF TypeInv, EngineTypeOK
  <2>2. pc' \in [Workers -> {"idle", "settle", "released", "tool", "output"} \cup InSubmit]
    BY <1>4 DEF TypeInv, EngineTypeOK, InSubmit
  <2>3. \A u \in Workers : pc'[u] = "idle" <=> job'[u] = NoJob
    BY <1>1, <1>4 DEF TypeInv, EngineTypeOK
  <2> QED BY <1>4, <2>1, <2>2, <2>3 DEF TypeInv, EngineTypeOK, TraceTypeOK
<1>6. \A u \in Workers : pc'[u] \notin InSubmit \cup {"idle"} => job'[u].run \in DOMAIN runs'
  BY <1>4 DEF TypeInv, EngineTypeOK, InSubmit
<1> QED BY <1>3, <1>4, <1>5, <1>6 DEF TypeInv

LEMMA SubmitStepTypes ==
    ASSUME TypeInv, NEW w \in Workers,
           \/ Read(w) \/ \E n \in Nonces : Consume(w, n)
           \/ \E v \in Verdicts : Decide(w, v)
           \/ TraceReceived(w) \/ TracePolicy(w)
    PROVE  TypeInv'
<1>1. ASSUME Read(w) \/ \E n \in Nonces : Consume(w, n)
      PROVE  TypeInv'
  BY <1>1 DEF Read, Look, Consume, Pay, engineVars, TypeInv, EngineTypeOK, TraceTypeOK, Submitters
<1>2. ASSUME NEW v \in Verdicts, Decide(w, v)
      PROVE  TypeInv'
  <2> DEFINE j == [job[w] EXCEPT !.answer = Cardinality(answers), !.verdict = v]
  <2>1. pc[w] = "evaluate" /\ pc' = [pc EXCEPT ![w] = "received"]
        /\ UNCHANGED <<trace, runs, conditional, review, handed>>
    BY <1>2 DEF Decide
  <2>2. Cardinality(answers) \in Nat
    BY FS_CardinalityType DEF TypeInv
  <2>3. j \in Job
    BY <2>1, <2>2, JobOf DEF Job
  <2>4. job' = [job EXCEPT ![w] = j]
    BY <1>2 DEF Decide, TypeInv, EngineTypeOK
  <2>5. IsFiniteSet(answers')
    BY <1>2, AnswersFinite DEF Decide, Grant, Defer, Refuse
  <2>6. TraceTypeOK' /\ conditional' \in [RequestIds -> RunIds \cup {0}]
    BY <2>1 DEF TypeInv, EngineTypeOK, TraceTypeOK
  <2> QED BY <2>1, <2>3, <2>4, <2>5, <2>6, MoveTypes DEF InSubmit
<1>3. CASE TraceReceived(w) \/ TracePolicy(w)
  <2> DEFINE step == IF pc[w] = "received" THEN "policy" ELSE "file"
  <2>1. /\ pc[w] \in {"received", "policy"} /\ pc' = [pc EXCEPT ![w] = step]
        /\ UNCHANGED <<answers, runs, conditional, review, job, handed>>
    BY <1>3 DEF TraceReceived, TracePolicy, promiseVars
  <2>2. TraceTypeOK'
    <3>1. job[w].request \in RequestIds /\ job[w].verdict \in Verdicts
      BY <2>1, JobOf
    <3>2. TraceTypeOK /\ "request.received" \in EventNames
      BY DEF TypeInv, EngineTypeOK, EventNames
    <3> QED BY <1>3, <3>1, <3>2, PolicyEventName, TraceEventType DEF TraceReceived, TracePolicy
  <2>3. job[w] \in Job /\ job' = [job EXCEPT ![w] = job[w]]
    BY <2>1, JobOf DEF TypeInv, EngineTypeOK
  <2>4. IsFiniteSet(answers') /\ conditional' \in [RequestIds -> RunIds \cup {0}]
    BY <2>1 DEF TypeInv, EngineTypeOK
  <2>5. step \in InSubmit /\ pc[w] \in InSubmit /\ pc[w] # "idle"
    BY <2>1 DEF InSubmit
  <2> HIDE DEF step
  <2> QED BY <2>1, <2>2, <2>3, <2>4, <2>5, MoveTypes
<1> QED BY <1>1, <1>2, <1>3

LEMMA FileTypes ==
    ASSUME TypeInv, NEW w \in Workers, FileRun(w)
    PROVE  TypeInv'
<1> DEFINE n == Len(runs) + 1
<1>1. pc[w] = "file" /\ runs' = Append(runs, NewRun(w)) /\ UNCHANGED <<trace, answers>>
  BY DEF FileRun, promiseVars
<1>2. /\ runs' \in Seq(Run) /\ Len(runs') = n /\ DOMAIN runs' = 1..n
      /\ DOMAIN runs \subseteq DOMAIN runs' /\ n \in DOMAIN runs'
  BY <1>1, NewRunType, RunsLength, AppendProperties, LenProperties
<1>3. /\ Cardinality(Submitters)' = Cardinality(Submitters) - 1
      /\ pc' = [pc EXCEPT ![w] = IF job[w].release THEN "settle" ELSE "idle"]
      /\ job' = [job EXCEPT ![w] = IF job[w].release THEN [job[w] EXCEPT !.run = n] ELSE NoJob]
      /\ handed' \in SUBSET DOMAIN runs'
  <2>1. pc' = [pc EXCEPT ![w] = IF job[w].release THEN "settle" ELSE "idle"]
    BY DEF FileRun, Finish
  <2>2. job' = [job EXCEPT ![w] = IF job[w].release THEN [job[w] EXCEPT !.run = n] ELSE NoJob]
    BY DEF FileRun, Finish, TypeInv, EngineTypeOK
  <2>3. handed' \in SUBSET DOMAIN runs'
    BY <1>2 DEF FileRun, Finish, TypeInv, EngineTypeOK
  <2>4. Cardinality(Submitters)' = Cardinality(Submitters) - 1
    <3> DEFINE step == IF job[w].release THEN "settle" ELSE "idle"
    <3>1. step \notin InSubmit /\ pc[w] \in InSubmit
      BY <1>1 DEF InSubmit
    <3>2. pc' = [pc EXCEPT ![w] = step]
      BY <2>1
    <3> HIDE DEF step
    <3> QED BY <3>1, <3>2, FewSubmit
  <2> QED BY <2>1, <2>2, <2>3, <2>4
<1>4. Len(runs') + Cardinality(Submitters)' <= MaxRuns /\ n \in RunIds
  <2>1. w \in Submitters
    BY <1>1 DEF Submitters, InSubmit
  <2>2. Cardinality(Submitters) # 0
    BY <2>1, SubmittersFinite, FS_EmptySet
  <2> QED BY <1>2, <1>3, <2>2, SubmittersFinite, RunsLength, EngineAssumption DEF TypeInv
<1>5. job' \in [Workers -> Job \cup {NoJob}] /\ [job[w] EXCEPT !.run = n] \in Job
  BY <1>1, <1>3, <1>4, JobOf DEF Job, TypeInv, EngineTypeOK
<1>6. \A u \in Workers : pc'[u] = "idle" <=> job'[u] = NoJob
  <2>1. [job[w] EXCEPT !.run = n] # NoJob
    BY <1>5, EngineAssumption DEF Job, Verdicts
  <2> QED BY <1>3, <2>1 DEF TypeInv, EngineTypeOK
<1>7. conditional' \in [RequestIds -> RunIds \cup {0}] /\ review' \in SUBSET RunIds
  BY <1>4 DEF FileRun, HeldAfterFiling, TypeInv, EngineTypeOK
<1>8. EngineTypeOK'
  <2>1. pc' \in [Workers -> {"idle", "settle", "released", "tool", "output"} \cup InSubmit]
    BY <1>3 DEF TypeInv, EngineTypeOK
  <2>2. Len(runs') <= MaxRuns
    BY <1>2, <1>4, SubmittersFinite, <1>3, RunsLength, EngineAssumption
  <2> QED BY <1>1, <1>2, <1>3, <1>5, <1>6, <1>7, <2>1, <2>2 DEF EngineTypeOK, TypeInv, TraceTypeOK
<1>9. \A u \in Workers : pc'[u] \notin InSubmit \cup {"idle"} => job'[u].run \in DOMAIN runs'
  <2>1. ASSUME job[w].release PROVE job'[w].run = n
    BY <1>1, <1>3, <2>1, JobOf DEF TypeInv, EngineTypeOK, Job
  <2> QED BY <1>2, <1>3, <2>1 DEF TypeInv, EngineTypeOK
<1> QED BY <1>1, <1>4, <1>8, <1>9 DEF TypeInv

LEMMA ReleaseStepTypes ==
    ASSUME TypeInv, NEW w \in Workers,
           Settle(w) \/ SettleRaises(w) \/ TraceReleased(w) \/ TraceWork(w)
    PROVE  TypeInv'
<1>1. CASE Settle(w)
  <2>1. /\ pc[w] = "settle" /\ pc' = [pc EXCEPT ![w] = "released"]
        /\ UNCHANGED <<answers, trace, runs, review, job, handed>>
    BY <1>1 DEF Settle, promiseVars
  <2>2. job[w] \in Job /\ job' = [job EXCEPT ![w] = job[w]] /\ job[w].run \in DOMAIN runs
    BY <2>1, JobOf DEF TypeInv, EngineTypeOK, InSubmit
  <2>3. conditional' \in [RequestIds -> RunIds \cup {0}]
    BY <1>1 DEF Settle, TypeInv, EngineTypeOK
  <2>4. TraceTypeOK' /\ IsFiniteSet(answers')
    BY <2>1 DEF TypeInv, EngineTypeOK, TraceTypeOK
  <2>5. "released" \notin InSubmit /\ pc[w] # "idle"
    BY <2>1 DEF InSubmit
  <2> QED BY <2>1, <2>2, <2>3, <2>4, <2>5, MoveTypes
<1>2. CASE SettleRaises(w)
  <2>1. pc[w] = "settle" /\ UNCHANGED <<answers, trace, runs, conditional, review>>
    BY <1>2 DEF SettleRaises, promiseVars
  <2>2. TraceTypeOK'
    BY <2>1 DEF TypeInv, EngineTypeOK, TraceTypeOK
  <2> QED BY <1>2, <2>1, <2>2, FinishTypes DEF SettleRaises, InSubmit
<1>3. CASE TraceReleased(w) \/ TraceWork(w)
  <2>1. /\ pc[w] \in {"released", "tool", "output"}
        /\ UNCHANGED <<answers, runs, conditional, review>>
    BY <1>3 DEF TraceReleased, TraceWork, promiseVars
  <2>2. job[w].run \in DOMAIN runs /\ job[w].request \in RequestIds /\ job[w].run \in RunIds
    BY <2>1, JobOf, RunOf DEF TypeInv, EngineTypeOK, InSubmit
  <2>3. TraceTypeOK'
    <3>1. TraceTypeOK /\ {"hold.released", "tool.called", "run.completed"} \subseteq EventNames
      BY DEF TypeInv, EngineTypeOK, EventNames
    <3> QED BY <1>3, <2>2, <3>1, TraceEventType DEF TraceReleased, TraceWork
  <2>4. PICK given \in SUBSET DOMAIN runs : Finish(w, given)
    BY <1>3, <2>2 DEF TraceReleased, TraceWork
  <2> QED BY <2>1, <2>3, <2>4, FinishTypes DEF InSubmit
<1> QED BY <1>1, <1>2, <1>3

(* An agent's call: the run changes in place.                              *)
LEMMA WorkTypes ==
    ASSUME TypeInv, NEW w \in Workers, NEW n \in handed,
           RecordToolCall(w, n) \/ RecordOutput(w, n)
    PROVE  TypeInv'
<1>1. n \in DOMAIN runs
  BY DEF TypeInv, EngineTypeOK
<1>2. PICK step \in {"tool", "output"} : Work(w, n, step)
  BY DEF RecordToolCall, RecordOutput
<1>3. runs' \in Seq(Run) /\ Len(runs') = Len(runs) /\ DOMAIN runs' = DOMAIN runs
  <2>1. PICK r \in Run : runs' = [runs EXCEPT ![n] = r]
    <3>1. CASE RecordToolCall(w, n)
      <4>1. [runs[n] EXCEPT !.tools = @ + 1] \in Run
        BY <1>1, RunOf DEF Run
      <4>2. runs' = [runs EXCEPT ![n] = [runs[n] EXCEPT !.tools = @ + 1]]
        BY <3>1 DEF RecordToolCall
      <4> QED BY <4>1, <4>2
    <3>2. CASE RecordOutput(w, n)
      <4>1. [runs[n] EXCEPT !.state = "Completed"] \in Run
        BY <1>1, RunOf DEF Run, RunStates
      <4>2. runs' = [runs EXCEPT ![n] = [runs[n] EXCEPT !.state = "Completed"]]
        BY <3>2 DEF RecordOutput
      <4> QED BY <4>1, <4>2
    <3> QED BY <3>1, <3>2
  <2> QED BY <1>1, <2>1, RunsLength, ExceptSeq
<1> DEFINE j == [request |-> runs[n].request, asset |-> runs[n].asset, release |-> FALSE,
                 answer |-> runs[n].answer, verdict |-> runs[n].verdict, run |-> n]
<1>4. j \in Job /\ j # NoJob /\ j.run = n
  <2>1. j \in Job
    BY <1>1, RunOf DEF Job
  <2>2. Job = [request : RequestIds, asset : Assets, release : BOOLEAN, answer : Nat,
               verdict : {"allowed", "conditional", "human_review", "blocked"},
               run : RunIds \cup {0}]
    BY DEF Job, Verdicts
  <2> QED BY <2>1, <2>2, EngineAssumption
<1>5. /\ pc[w] = "idle" /\ pc' = [pc EXCEPT ![w] = step] /\ job' = [job EXCEPT ![w] = j]
      /\ UNCHANGED <<trace, conditional, review, handed, answers>>
  BY <1>2 DEF Work, promiseVars
<1> HIDE DEF j
<1>6. Submitters' = Submitters
  BY <1>5 DEF Submitters, InSubmit, TypeInv, EngineTypeOK
<1>7. EngineTypeOK'
  <2>1. job' \in [Workers -> Job \cup {NoJob}]
    BY <1>4, <1>5 DEF TypeInv, EngineTypeOK
  <2>2. pc' \in [Workers -> {"idle", "settle", "released", "tool", "output"} \cup InSubmit]
    BY <1>5 DEF TypeInv, EngineTypeOK
  <2>3. \A u \in Workers : pc'[u] = "idle" <=> job'[u] = NoJob
    BY <1>4, <1>5 DEF TypeInv, EngineTypeOK
  <2> QED BY <1>3, <1>5, <2>1, <2>2, <2>3 DEF TypeInv, EngineTypeOK, TraceTypeOK
<1>8. \A u \in Workers : pc'[u] \notin InSubmit \cup {"idle"} => job'[u].run \in DOMAIN runs'
  BY <1>1, <1>3, <1>4, <1>5 DEF TypeInv, EngineTypeOK
<1> QED BY <1>3, <1>5, <1>6, <1>7, <1>8 DEF TypeInv

LEMMA StepTypes == TypeInv /\ [EngineNext]_vars => TypeInv'
<1> SUFFICES ASSUME TypeInv, [EngineNext]_vars PROVE TypeInv'
  OBVIOUS
<1>1. ASSUME NEW w \in Workers, StartCall(w) PROVE TypeInv'
  <2>1. ASSUME NEW q \in RequestIds, NEW a \in Assets, Submit(w, q, a) \/ Release(w, q, a)
        PROVE  TypeInv'
    BY <2>1, BeginTypes DEF Submit, Release
  <2> QED BY <1>1, <2>1, WorkTypes DEF StartCall
<1>2. ASSUME NEW w \in Workers, Continue(w) PROVE TypeInv'
  BY <1>2, SubmitStepTypes, FileTypes, ReleaseStepTypes DEF Continue
<1>3. CASE RegistryChanges \/ UNCHANGED vars
  <2>1. UNCHANGED <<answers, trace, runs, conditional, review, pc, job, handed>>
    BY <1>3 DEF RegistryChanges, Offer, Withdraw, engineVars, vars, promiseVars
  <2> QED BY <2>1 DEF TypeInv, EngineTypeOK, TraceTypeOK, Submitters
<1> QED BY <1>1, <1>2, <1>3 DEF EngineNext

LEMMA InitTypes == EngineStart => TypeInv
<1> SUFFICES ASSUME EngineStart PROVE TypeInv
  OBVIOUS
<1>1. Submitters = {}
  BY DEF EngineStart, EngineInit, Submitters, InSubmit
<1>2. runs = <<>> /\ trace = <<>> /\ Len(runs) = 0 /\ runs \in Seq(Run) /\ trace \in Seq(TraceEvent)
  BY EmptySeq DEF EngineStart, EngineInit, TraceInit
<1>3. EngineTypeOK
  BY <1>2, EngineAssumption DEF EngineStart, EngineInit, EngineTypeOK, TraceTypeOK
<1> QED BY <1>1, <1>2, <1>3, FS_EmptySet, EngineAssumption DEF EngineStart, EngineInit, Init, TypeInv

LEMMA TypesHold == EngineSpec => []TypeInv
BY InitTypes, StepTypes, PTL DEF EngineSpec

(* Every variable of the engine and the recorder keeps its type.           *)
THEOREM EngineTypeCorrect == EngineSpec => []EngineTypeOK
<1>1. TypeInv => EngineTypeOK
  BY DEF TypeInv
<1> QED BY <1>1, TypesHold, PTL

-----------------------------------------------------------------------------
(* Proofs: grants                                                          *)

LEMMA OpenOf ==
    ASSUME AnswersSound, NEW w \in Workers, open[w] # NoToken
    PROVE  /\ open[w] \in OpenCall
           /\ open[w].asset \in Assets /\ open[w].late \in BOOLEAN
           /\ open[w].paid \in Nonces \cup {NoToken}
BY DEF AnswersSound, OpenCall

LEMMA RegistrySound ==
    ASSUME AnswersSound, SalesSound, NEW a \in Assets, Offer(a) \/ Withdraw(a)
    PROVE  AnswersSound' /\ SalesSound'
<1>1. UNCHANGED <<open, answers, spent>>
  BY DEF Offer, Withdraw
<1>2. /\ priced' \subseteq offered'
      /\ \A b \in offered : b \in offered' /\ (b \in priced' <=> b \in priced)
  BY DEF Offer, Withdraw, AnswersSound
<1>3. AnswersSound'
  BY <1>1, <1>2 DEF AnswersSound
<1> QED BY <1>1, <1>3 DEF SalesSound, Holds

LEMMA OpenSound ==
    ASSUME AnswersSound, SalesSound, NEW w \in Workers, NEW a \in Assets, Open(w, a)
    PROVE  AnswersSound' /\ SalesSound'
<1> DEFINE late == a \in gone
           c == [asset |-> a, late |-> late, clear |-> FALSE, paid |-> NoToken]
<1>1. c \in OpenCall /\ c # NoToken /\ c.paid = NoToken
  <2>1. late \in BOOLEAN
    OBVIOUS
  <2> HIDE DEF late
  <2>2. c \in OpenCall
    BY <2>1 DEF OpenCall
  <2> QED BY <2>2, EngineAssumption
<1>2. open' = [open EXCEPT ![w] = c] /\ UNCHANGED <<offered, priced, gone, spent, answers>>
  BY DEF Open
<1> HIDE DEF c
<1>3. AnswersSound'
  BY <1>1, <1>2 DEF AnswersSound
<1>4. \A u \in Workers, n \in Nonces : Holds(u, n)' => Holds(u, n)
  BY <1>1, <1>2, EngineAssumption DEF Holds, AnswersSound
<1> QED BY <1>2, <1>3, <1>4 DEF SalesSound

LEMMA LookSound ==
    ASSUME AnswersSound, SalesSound, NEW w \in Workers, Look(w)
    PROVE  /\ AnswersSound' /\ SalesSound'
           /\ \A u \in Workers : /\ open'[u] # NoToken <=> open[u] # NoToken
                                 /\ open[u] # NoToken => open'[u].asset = open[u].asset
<1> DEFINE c == [open[w] EXCEPT !.clear = TRUE]
<1>1. open[w] \in OpenCall /\ open[w] # NoToken
  BY OpenOf DEF Look
<1>2. c \in OpenCall /\ c # NoToken /\ c.paid = open[w].paid /\ c.asset = open[w].asset
  BY <1>1, EngineAssumption DEF OpenCall
<1>3. open' = [open EXCEPT ![w] = c] /\ UNCHANGED <<offered, priced, gone, spent, answers>>
  BY DEF Look
<1> HIDE DEF c
<1>4. AnswersSound'
  BY <1>2, <1>3 DEF AnswersSound
<1>5. \A u \in Workers, n \in Nonces : Holds(u, n)' <=> Holds(u, n)
  BY <1>1, <1>2, <1>3 DEF Holds, AnswersSound
<1>6. SalesSound'
  BY <1>3, <1>5 DEF SalesSound
<1> QED BY <1>1, <1>2, <1>3, <1>4, <1>6 DEF AnswersSound

LEMMA PaySound ==
    ASSUME AnswersSound, SalesSound, NEW w \in Workers, NEW n \in Nonces, Pay(w, n)
    PROVE  /\ AnswersSound' /\ SalesSound'
           /\ \A u \in Workers : /\ open'[u] # NoToken <=> open[u] # NoToken
                                 /\ open[u] # NoToken => open'[u].asset = open[u].asset
<1> DEFINE c == [open[w] EXCEPT !.paid = n]
<1>1. open[w] \in OpenCall /\ open[w] # NoToken
  BY OpenOf DEF Pay
<1>2. c \in OpenCall /\ c # NoToken /\ c.paid = n /\ c.asset = open[w].asset
  BY <1>1, EngineAssumption DEF OpenCall
<1>3. open' = [open EXCEPT ![w] = c] /\ spent' = spent \cup {n} /\ n \notin spent
      /\ UNCHANGED <<offered, priced, gone, answers>>
  BY DEF Pay
<1> HIDE DEF c
<1>4. AnswersSound'
  BY <1>2, <1>3 DEF AnswersSound
<1>5. \A u \in Workers, k \in Nonces : Holds(u, k)' => Holds(u, k) \/ (u = w /\ k = n)
  BY <1>2, <1>3 DEF Holds, AnswersSound
<1>6. SalesSound'
  BY <1>3, <1>5 DEF SalesSound
<1> QED BY <1>1, <1>2, <1>3, <1>4, <1>6 DEF AnswersSound

(* The answer a call is given.                                             *)
GivenAnswer(w, id, outcome) ==
    [id |-> id, asset |-> open[w].asset, late |-> open[w].late, outcome |-> outcome,
     paid |-> open[w].paid]

LEMMA AnswerSound ==
    ASSUME AnswersSound, SalesSound, NEW w \in Workers, NEW id \in Nat, NEW outcome \in Outcomes,
           Answer(w, id, outcome), outcome = "granted" => Grant(w, id)
    PROVE  /\ AnswersSound' /\ SalesSound'
           /\ answers' = answers \cup {GivenAnswer(w, id, outcome)}
           /\ open[w] # NoToken /\ open' = [open EXCEPT ![w] = NoToken]
           /\ \A r \in answers : r.id # id
<1> DEFINE r == GivenAnswer(w, id, outcome)
<1>2. /\ open[w] # NoToken /\ \A s \in answers : s.id # id
      /\ answers' = answers \cup {r} /\ open' = [open EXCEPT ![w] = NoToken]
      /\ UNCHANGED <<offered, priced, gone, spent>>
  BY DEF Answer, GivenAnswer
<1>3. /\ r \in AnswerType /\ r.id = id /\ r.asset = open[w].asset /\ r.late = open[w].late
      /\ r.outcome = outcome /\ r.paid = open[w].paid
  BY <1>2, OpenOf DEF AnswerType, GivenAnswer
<1>4. outcome = "granted" => ~open[w].late /\ open[w].asset \in offered
                             /\ (open[w].asset \in priced <=> open[w].paid # NoToken)
  BY DEF Grant
<1> HIDE DEF r
<1>5. AnswersSound'
  <2>1. \A s, t \in answers' : s.id = t.id => s = t
    BY <1>2, <1>3 DEF AnswersSound
  <2>2. \A s \in answers' : s.outcome = "granted" =>
          ~s.late /\ s.asset \in offered /\ (s.asset \in priced <=> s.paid # NoToken)
    BY <1>2, <1>3, <1>4 DEF AnswersSound
  <2> QED BY <1>2, <1>3, <2>1, <2>2 DEF AnswersSound
<1>6. \A u \in Workers, n \in Nonces : Holds(u, n)' => Holds(u, n) /\ u # w
  BY <1>2 DEF Holds, AnswersSound
<1>7. \A n \in Nonces : r.paid = n => Holds(w, n)
  BY <1>2, <1>3 DEF Holds
<1>8. SalesSound'
  <2> SUFFICES ASSUME NEW n \in Nonces
               PROVE  /\ (\E u \in Workers : Holds(u, n)') => n \in spent' /\ \A s \in answers' : s.paid # n
                      /\ \A u, v \in Workers : Holds(u, n)' /\ Holds(v, n)' => u = v
                      /\ \A s \in answers' : s.paid = n => n \in spent'
                      /\ \A s, t \in answers' : s.paid = n /\ t.paid = n => s = t
    BY DEF SalesSound
  <2>1. (\E u \in Workers : Holds(u, n)') => n \in spent' /\ \A s \in answers' : s.paid # n
    BY <1>2, <1>6, <1>7 DEF SalesSound
  <2>2. \A u, v \in Workers : Holds(u, n)' /\ Holds(v, n)' => u = v
    BY <1>6 DEF SalesSound
  <2>3. \A s \in answers' : s.paid = n => n \in spent'
    BY <1>2, <1>7 DEF SalesSound
  <2>4. \A s, t \in answers' : s.paid = n /\ t.paid = n => s = t
    BY <1>2, <1>7 DEF SalesSound
  <2> QED BY <2>1, <2>2, <2>3, <2>4
<1> QED BY <1>2, <1>5, <1>8 DEF r

(* Steps that move no submission and keep what the runs rest on.           *)
LEMMA OwnedFrame ==
    ASSUME AnswersOwned, UNCHANGED <<open, answers>>,
           \A u \in Workers : /\ pc'[u] = "evaluate" <=> pc[u] = "evaluate"
                              /\ Decided(u)' => Decided(u)
                              /\ pc[u] = "evaluate" \/ Decided(u)' => job'[u] = job[u],
           DOMAIN runs' = DOMAIN runs,
           \A n \in DOMAIN runs : /\ runs'[n].answer = runs[n].answer
                                  /\ runs'[n].asset = runs[n].asset
                                  /\ runs'[n].verdict = runs[n].verdict
    PROVE  AnswersOwned'
BY DEF AnswersOwned, RestsOn

LEMMA BeginFunds ==
    ASSUME TypeInv, FundInv, NEW w \in Workers, NEW q \in RequestIds, NEW a \in Assets,
           NEW release \in BOOLEAN, Begin(w, q, a, release)
    PROVE  FundInv'
<1>1. Open(w, a) /\ UNCHANGED <<runs, answers>> /\ pc[w] = "idle" /\ pc' = [pc EXCEPT ![w] = "evaluate"]
  BY DEF Begin, Open
<1>2. AnswersSound' /\ SalesSound'
  BY <1>1, OpenSound DEF FundInv
<1>3. job'[w].asset = a /\ \A u \in Workers \ {w} : job'[u] = job[u] /\ pc'[u] = pc[u]
  BY DEF Begin, TypeInv, EngineTypeOK
<1>4. open'[w] # NoToken /\ open'[w].asset = a /\ \A u \in Workers \ {w} : open'[u] = open[u]
  <2>1. [asset |-> a, late |-> a \in gone, clear |-> FALSE, paid |-> NoToken] \in OpenCall
    BY DEF OpenCall
  <2> QED BY <1>1, <2>1, EngineAssumption DEF Open, FundInv, AnswersSound
<1>5. pc'[w] = "evaluate"
  BY <1>1 DEF TypeInv, EngineTypeOK
<1>6. \A u \in Workers : Decided(u)' <=> Decided(u) /\ u # w
  BY <1>1, <1>3, <1>5 DEF Decided
<1>7. AnswersOwned'
  BY <1>1, <1>3, <1>4, <1>5, <1>6 DEF AnswersOwned, RestsOn, FundInv
<1> QED BY <1>1, <1>2, <1>7 DEF FundInv, ToolsAllowed

LEMMA DecideFunds ==
    ASSUME TypeInv, FundInv, NEW w \in Workers, NEW verdict \in Verdicts, Decide(w, verdict)
    PROVE  FundInv'
<1> DEFINE id == Cardinality(answers)
           outcome == IF verdict \in Favourable THEN "granted"
                      ELSE IF verdict = "conditional" THEN "held" ELSE "refused"
           r == GivenAnswer(w, id, outcome)
<1>1. id \in Nat
  BY FS_CardinalityType DEF TypeInv
<1>2. /\ outcome \in Outcomes /\ (outcome = "granted" <=> verdict \in Favourable)
      /\ Answer(w, id, outcome) /\ (outcome = "granted" => Grant(w, id))
  <2>1. \/ verdict \in Favourable /\ Grant(w, id)
        \/ verdict = "conditional" /\ Defer(w, id)
        \/ verdict = "blocked" /\ Refuse(w, id)
    BY DEF Decide, Favourable
  <2>2. CASE verdict \in Favourable /\ Grant(w, id)
    BY <2>2 DEF Outcomes, Grant
  <2>3. CASE verdict = "conditional" /\ Defer(w, id)
    BY <2>3 DEF Outcomes, Defer, Favourable
  <2>4. CASE verdict = "blocked" /\ Refuse(w, id)
    BY <2>4 DEF Outcomes, Refuse, Favourable
  <2> QED BY <2>1, <2>2, <2>3, <2>4
<1> HIDE DEF outcome
<1>3. /\ AnswersSound' /\ SalesSound'
      /\ answers' = answers \cup {r}
      /\ open[w] # NoToken /\ open' = [open EXCEPT ![w] = NoToken]
      /\ \A s \in answers : s.id # id
  BY <1>1, <1>2, AnswerSound DEF FundInv
<1>4. /\ pc[w] = "evaluate" /\ pc' = [pc EXCEPT ![w] = "received"]
      /\ job' = [job EXCEPT ![w].answer = id, ![w].verdict = verdict] /\ UNCHANGED runs
  BY DEF Decide
<1>5. /\ job'[w].answer = id /\ job'[w].verdict = verdict /\ job'[w].asset = job[w].asset
      /\ \A u \in Workers \ {w} : job'[u] = job[u] /\ pc'[u] = pc[u] /\ open'[u] = open[u]
      /\ pc'[w] = "received" /\ open'[w] = NoToken
  <2>1. job[w] \in Job
    BY <1>4, JobOf
  <2> QED BY <1>3, <1>4, <2>1 DEF TypeInv, EngineTypeOK, Job, FundInv, AnswersSound
<1>6. r.id = id /\ r.asset = open[w].asset /\ (r.outcome = "granted" <=> verdict \in Favourable)
  BY <1>2 DEF GivenAnswer
<1>7. open[w].asset = job[w].asset
  BY <1>4 DEF FundInv, AnswersOwned
<1> HIDE DEF r, id
<1>8. \A i, a, v : RestsOn(i, a, v) => RestsOn(i, a, v)' /\ i # id
  BY <1>3 DEF RestsOn
<1>9. RestsOn(job[w].answer, job[w].asset, job[w].verdict)'
  BY <1>3, <1>5, <1>6, <1>7 DEF RestsOn
<1>10. \A u \in Workers : Decided(u)' <=> Decided(u) \/ u = w
  BY <1>4, <1>5 DEF Decided
<1>11. AnswersOwned'
  <2>1. \A u \in Workers : open'[u] # NoToken <=> pc'[u] = "evaluate"
    BY <1>5 DEF FundInv, AnswersOwned
  <2>2. \A u \in Workers : pc'[u] = "evaluate" => open'[u].asset = job'[u].asset
    BY <1>5 DEF FundInv, AnswersOwned
  <2>3. \A u \in Workers : Decided(u)' => RestsOn(job[u].answer, job[u].asset, job[u].verdict)'
    BY <1>5, <1>8, <1>9, <1>10 DEF FundInv, AnswersOwned
  <2>4. \A n \in DOMAIN runs : RestsOn(runs[n].answer, runs[n].asset, runs[n].verdict)'
                               /\ runs[n].answer # id
    BY <1>4, <1>8 DEF FundInv, AnswersOwned
  <2>5. \A u \in Workers : Decided(u) => job[u].answer # id
    BY <1>8 DEF FundInv, AnswersOwned
  <2>6. \A u, v \in Workers : Decided(u)' /\ Decided(v)' /\ job'[u].answer = job'[v].answer => u = v
    BY <1>5, <1>10, <2>5 DEF FundInv, AnswersOwned
  <2>7. \A u \in Workers : \A n \in DOMAIN runs : Decided(u)' => job'[u].answer # runs[n].answer
    BY <1>5, <1>10, <2>4 DEF FundInv, AnswersOwned
  <2>8. \A m, n \in DOMAIN runs : runs[m].answer = runs[n].answer => m = n
    BY DEF FundInv, AnswersOwned
  <2>9. (\A n \in DOMAIN runs : RestsOn(runs[n].answer, runs[n].asset, runs[n].verdict))'
    BY <1>4, <2>4
  <2>10. /\ (\A u \in Workers : Decided(u) => RestsOn(job[u].answer, job[u].asset, job[u].verdict))'
         /\ (\A u, v \in Workers : Decided(u) /\ Decided(v) /\ job[u].answer = job[v].answer => u = v)'
         /\ (\A u \in Workers : \A n \in DOMAIN runs : Decided(u) => job[u].answer # runs[n].answer)'
    BY <1>4, <2>3, <2>6, <2>7
  <2> QED BY <1>4, <2>1, <2>2, <2>8, <2>9, <2>10 DEF AnswersOwned
<1> QED BY <1>3, <1>4, <1>11 DEF FundInv, ToolsAllowed

LEMMA FileFunds ==
    ASSUME TypeInv, FundInv, NEW w \in Workers, FileRun(w)
    PROVE  FundInv'
<1> DEFINE n == Len(runs) + 1
<1>1. /\ pc[w] = "file" /\ runs' = Append(runs, NewRun(w))
      /\ UNCHANGED <<offered, priced, gone, spent, open, answers>>
  BY DEF FileRun, promiseVars
<1>2. /\ DOMAIN runs' = DOMAIN runs \cup {n} /\ n \notin DOMAIN runs
      /\ runs'[n] = NewRun(w) /\ \A k \in DOMAIN runs : runs'[k] = runs[k]
  <2>1. NewRun(w) \in Run
    BY <1>1, NewRunType
  <2> QED BY <1>1, <2>1, RunsLength, AppendProperties, LenProperties
<1>3. /\ NewRun(w).asset = job[w].asset /\ NewRun(w).answer = job[w].answer
      /\ NewRun(w).verdict = job[w].verdict /\ NewRun(w).tools = 0
  BY <1>1, NewRunType
<1>4. \A u \in Workers : /\ u # w => pc'[u] = pc[u] /\ job'[u] = job[u]
                         /\ u = w => pc'[u] \in {"settle", "idle"}
  BY DEF FileRun, Finish, TypeInv, EngineTypeOK
<1>5. AnswersSound' /\ SalesSound' /\ ToolsAllowed'
  BY <1>1, <1>2, <1>3 DEF FundInv, AnswersSound, SalesSound, Holds, ToolsAllowed
<1>6. \A i, a, v : RestsOn(i, a, v)' <=> RestsOn(i, a, v)
  BY <1>1 DEF RestsOn
<1>7. Decided(w) /\ \A u \in Workers : Decided(u)' <=> Decided(u) /\ u # w
  BY <1>1, <1>4 DEF Decided
<1> HIDE DEF n
<1>8. AnswersOwned'
  <2>1. \A u \in Workers : /\ open'[u] # NoToken <=> pc'[u] = "evaluate"
                           /\ pc'[u] = "evaluate" => open'[u].asset = job'[u].asset
    BY <1>1, <1>4 DEF FundInv, AnswersOwned
  <2>2. \A u \in Workers : Decided(u)' => RestsOn(job[u].answer, job[u].asset, job[u].verdict)'
    BY <1>4, <1>6, <1>7 DEF FundInv, AnswersOwned
  <2>3. \A k \in DOMAIN runs' : RestsOn(runs[k].answer, runs[k].asset, runs[k].verdict)'
    BY <1>2, <1>3, <1>6, <1>7 DEF FundInv, AnswersOwned
  <2>4. \A u, v \in Workers : Decided(u)' /\ Decided(v)' /\ job'[u].answer = job'[v].answer => u = v
    BY <1>4, <1>7 DEF FundInv, AnswersOwned
  <2>5. \A u \in Workers : \A k \in DOMAIN runs' : Decided(u)' => job'[u].answer # runs'[k].answer
    BY <1>2, <1>3, <1>4, <1>7 DEF FundInv, AnswersOwned
  <2>6. \A k, m \in DOMAIN runs' : runs'[m].answer = runs'[k].answer => m = k
    BY <1>2, <1>3, <1>7 DEF FundInv, AnswersOwned
  <2> QED BY <2>1, <2>2, <2>3, <2>4, <2>5, <2>6 DEF AnswersOwned
<1> QED BY <1>5, <1>8 DEF FundInv

(* An agent's call changes the tools or the state of one run.              *)
LEMMA WorkEffect ==
    ASSUME TypeInv, NEW w \in Workers, NEW n \in handed,
           RecordToolCall(w, n) \/ RecordOutput(w, n)
    PROVE  /\ n \in DOMAIN runs /\ DOMAIN runs' = DOMAIN runs /\ Len(runs') = Len(runs)
           /\ \A k \in DOMAIN runs : /\ runs'[k].request = runs[k].request
                                     /\ runs'[k].answer = runs[k].answer
                                     /\ runs'[k].asset = runs[k].asset
                                     /\ runs'[k].verdict = runs[k].verdict
                                     /\ k # n => runs'[k] = runs[k]
           /\ runs[n].state = "Executing"
           /\ RecordToolCall(w, n) => /\ runs'[n].tools = runs[n].tools + 1
                                      /\ runs'[n].state = runs[n].state
                                      /\ runs[n].verdict = "allowed"
           /\ RecordOutput(w, n) => /\ runs'[n].tools = runs[n].tools
                                    /\ runs'[n].state = "Completed"
<1>1. n \in DOMAIN runs
  BY DEF TypeInv, EngineTypeOK
<1>2. runs[n] \in Run
  BY <1>1, RunOf
<1>3. CASE RecordToolCall(w, n)
  <2>1. runs' = [runs EXCEPT ![n] = [runs[n] EXCEPT !.tools = runs[n].tools + 1]]
    BY <1>3 DEF RecordToolCall
  <2>2. Len(runs') = Len(runs)
    <3>1. [runs[n] EXCEPT !.tools = runs[n].tools + 1] \in Run
      BY <1>1, <1>2, RunOf DEF Run
    <3> QED BY <1>1, <2>1, <3>1, RunsLength, ExceptSeq
  <2>3. runs'[n].state = runs[n].state
    BY <1>1, <1>2, <2>1 DEF Run
  <2>4. ~RecordOutput(w, n)
    BY <1>1, <1>2, <1>3, <2>3 DEF RecordOutput, RecordToolCall, Run
  <2> QED BY <1>1, <1>2, <1>3, <2>1, <2>2, <2>4 DEF Run, RecordToolCall
<1>4. CASE RecordOutput(w, n)
  <2>1. runs' = [runs EXCEPT ![n] = [runs[n] EXCEPT !.state = "Completed"]]
    BY <1>4 DEF RecordOutput
  <2>2. Len(runs') = Len(runs)
    <3>1. [runs[n] EXCEPT !.state = "Completed"] \in Run
      BY <1>1, <1>2, RunOf DEF Run, RunStates
    <3> QED BY <1>1, <2>1, <3>1, RunsLength, ExceptSeq
  <2>3. ~RecordToolCall(w, n)
    BY <1>1, <1>2, <1>4, <2>1 DEF RecordOutput, RecordToolCall, Run
  <2> QED BY <1>1, <1>2, <1>4, <2>1, <2>2, <2>3 DEF Run, RecordOutput
<1> QED BY <1>3, <1>4

LEMMA WorkFunds ==
    ASSUME TypeInv, FundInv, NEW w \in Workers, NEW n \in handed,
           RecordToolCall(w, n) \/ RecordOutput(w, n)
    PROVE  FundInv'
<1>1. PICK step \in {"tool", "output"} : Work(w, n, step)
  BY DEF RecordToolCall, RecordOutput
<1>2. UNCHANGED promiseVars /\ pc[w] = "idle" /\ pc' = [pc EXCEPT ![w] = step]
  BY <1>1 DEF Work
<1>3. AnswersSound' /\ SalesSound'
  BY <1>2 DEF promiseVars, FundInv, AnswersSound, SalesSound, Holds
<1>4. \A u \in Workers \ {w} : pc'[u] = pc[u] /\ job'[u] = job[u]
  BY <1>1 DEF Work, TypeInv, EngineTypeOK
<1>5. pc'[w] = step
  BY <1>2 DEF TypeInv, EngineTypeOK
<1>6. AnswersOwned'
  <2>1. \A u \in Workers : /\ pc'[u] = "evaluate" <=> pc[u] = "evaluate"
                           /\ Decided(u)' => Decided(u)
                           /\ pc[u] = "evaluate" \/ Decided(u)' => job'[u] = job[u]
    BY <1>2, <1>4, <1>5 DEF Decided
  <2>2. UNCHANGED <<open, answers>>
    BY <1>2 DEF promiseVars
  <2>3. /\ DOMAIN runs' = DOMAIN runs
        /\ \A k \in DOMAIN runs : /\ runs'[k].answer = runs[k].answer
                                  /\ runs'[k].asset = runs[k].asset
                                  /\ runs'[k].verdict = runs[k].verdict
    BY WorkEffect
  <2> QED BY <2>1, <2>2, <2>3, OwnedFrame DEF FundInv
<1>7. ToolsAllowed'
  <2>1. n \in DOMAIN runs /\ DOMAIN runs' = DOMAIN runs
    BY WorkEffect
  <2>2. runs[n].verdict = "allowed" \/ runs'[n].tools = runs[n].tools
    BY WorkEffect
  <2>3. \A k \in DOMAIN runs : runs'[k].verdict = runs[k].verdict /\ (k # n => runs'[k] = runs[k])
    BY WorkEffect
  <2> QED BY <2>1, <2>2, <2>3 DEF FundInv, ToolsAllowed
<1> QED BY <1>3, <1>6, <1>7 DEF FundInv

(* The other steps leave answers and runs alone, and no thread becomes or  *)
(* ceases to be about to file.                                             *)
LEMMA OtherFunds ==
    ASSUME TypeInv, FundInv, NEW w \in Workers,
           \/ TraceReceived(w) \/ TracePolicy(w)
           \/ Settle(w) \/ SettleRaises(w) \/ TraceReleased(w) \/ TraceWork(w)
    PROVE  FundInv'
<1>1. UNCHANGED <<offered, priced, gone, spent, open, answers, runs>>
  BY DEF TraceReceived, TracePolicy, Settle, SettleRaises, TraceReleased, TraceWork, promiseVars
<1>2. AnswersSound' /\ SalesSound' /\ ToolsAllowed'
  BY <1>1 DEF FundInv, AnswersSound, SalesSound, Holds, ToolsAllowed
<1>3. \A u \in Workers \ {w} : pc'[u] = pc[u] /\ job'[u] = job[u]
  BY DEF TraceReceived, TracePolicy, Settle, SettleRaises, TraceReleased, TraceWork, Finish,
     TypeInv, EngineTypeOK
<1>4. CASE TraceReceived(w) \/ TracePolicy(w)
  <2>1. Decided(w) /\ Decided(w)' /\ job' = job /\ pc[w] # "evaluate" /\ pc'[w] # "evaluate"
    BY <1>4 DEF TraceReceived, TracePolicy, Decided, TypeInv, EngineTypeOK
  <2> QED BY <1>1, <1>2, <1>3, <2>1, OwnedFrame DEF FundInv, Decided
<1>5. CASE Settle(w) \/ SettleRaises(w) \/ TraceReleased(w) \/ TraceWork(w)
  <2>1. pc[w] # "evaluate" /\ pc'[w] \in {"released", "idle"}
    BY <1>5 DEF Settle, SettleRaises, TraceReleased, TraceWork, Finish, TypeInv, EngineTypeOK
  <2> QED BY <1>1, <1>2, <1>3, <2>1, OwnedFrame DEF FundInv, Decided
<1> QED BY <1>4, <1>5

LEMMA StepFunds == TypeInv /\ FundInv /\ [EngineNext]_vars => FundInv'
<1> SUFFICES ASSUME TypeInv, FundInv, [EngineNext]_vars PROVE FundInv'
  OBVIOUS
<1>1. ASSUME NEW w \in Workers, StartCall(w) PROVE FundInv'
  <2>1. ASSUME NEW q \in RequestIds, NEW a \in Assets, Submit(w, q, a) \/ Release(w, q, a)
        PROVE  FundInv'
    BY <2>1, BeginFunds DEF Submit, Release
  <2> QED BY <1>1, <2>1, WorkFunds DEF StartCall
<1>2. ASSUME NEW w \in Workers, Read(w) \/ \E n \in Nonces : Consume(w, n) PROVE FundInv'
  <2>1. UNCHANGED <<runs, pc, job, answers>> /\ (Look(w) \/ \E n \in Nonces : Pay(w, n))
    BY <1>2 DEF Read, Look, Consume, engineVars, Pay
  <2>2. /\ AnswersSound' /\ SalesSound'
        /\ \A u \in Workers : /\ open'[u] # NoToken <=> open[u] # NoToken
                              /\ open[u] # NoToken => open'[u].asset = open[u].asset
    BY <2>1, LookSound, PaySound DEF FundInv
  <2>3. AnswersOwned'
    BY <2>1, <2>2 DEF FundInv, AnswersOwned, RestsOn, Decided
  <2> QED BY <2>1, <2>2, <2>3 DEF FundInv, ToolsAllowed
<1>3. CASE RegistryChanges
  <2>1. UNCHANGED <<open, answers, runs, pc, job>>
    BY <1>3 DEF RegistryChanges, Offer, Withdraw, engineVars
  <2>2. AnswersSound' /\ SalesSound'
    BY <1>3, RegistrySound DEF RegistryChanges, FundInv
  <2>3. AnswersOwned' /\ ToolsAllowed'
    BY <2>1 DEF FundInv, AnswersOwned, RestsOn, Decided, ToolsAllowed
  <2> QED BY <2>2, <2>3 DEF FundInv
<1>4. CASE UNCHANGED vars
  BY <1>4 DEF vars, promiseVars, engineVars, FundInv, AnswersSound, SalesSound, Holds,
     AnswersOwned, RestsOn, Decided, ToolsAllowed
<1> QED BY <1>1, <1>2, <1>3, <1>4, DecideFunds, FileFunds, OtherFunds DEF EngineNext, Continue

LEMMA InitFunds == EngineStart => FundInv
<1> SUFFICES ASSUME EngineStart PROVE FundInv
  OBVIOUS
<1>1. DOMAIN runs = {}
  BY DEF EngineStart, EngineInit
<1>2. AnswersSound /\ SalesSound
  BY DEF EngineStart, Init, AnswersSound, SalesSound, Holds
<1> QED BY <1>1, <1>2
        DEF EngineStart, Init, EngineInit, FundInv, AnswersOwned, Decided, ToolsAllowed

LEMMA FundsHold == EngineSpec => []FundInv
BY InitFunds, StepFunds, TypesHold, PTL DEF EngineSpec

LEMMA FundsSuffice == FundInv => ToolsAreFunded
<1> SUFFICES ASSUME FundInv, NEW n \in DOMAIN runs, runs[n].tools > 0
             PROVE  runs[n].verdict = "allowed" /\ \E r \in answers : Funds(n, r)
  BY DEF ToolsAreFunded
<1>1. runs[n].verdict = "allowed"
  BY DEF FundInv, ToolsAllowed
<1>2. PICK r \in answers : r.id = runs[n].answer /\ r.asset = runs[n].asset /\ r.outcome = "granted"
  BY <1>1 DEF FundInv, AnswersOwned, RestsOn, Favourable
<1>3. r.paid \in Nonces \cup {NoToken}
  BY DEF FundInv, AnswersSound, AnswerType
<1>4. \A s \in answers \ {r} : s.paid = r.paid => r.paid = NoToken
  BY <1>3 DEF FundInv, SalesSound
<1>5. \A m \in DOMAIN runs : runs[m].answer = r.id => m = n
  BY <1>2 DEF FundInv, AnswersOwned
<1>6. Funds(n, r)
  BY <1>2, <1>4, <1>5 DEF Funds, FundInv, AnswersSound
<1> QED BY <1>1, <1>6

(* A run that called a tool rests on an answer of its own that granted its *)
(* asset in time, paid with a nonce of its own if the asset has a price.   *)
THEOREM ToolsFunded == EngineSpec => []ToolsAreFunded
BY FundsHold, FundsSuffice, PTL

-----------------------------------------------------------------------------
(* Proofs: holds                                                           *)

(* What every step keeps of the runs filed and of those delivered.         *)
RunsKept ==
    /\ Len(runs) <= Len(runs')
    /\ DOMAIN runs \subseteq DOMAIN runs'
    /\ \A n \in DOMAIN runs : /\ runs'[n].request = runs[n].request
                              /\ runs'[n].verdict = runs[n].verdict
                              /\ runs[n].state # "Executing" => runs'[n].state = runs[n].state

DeliveriesKept == \A m \in DOMAIN runs : Delivered(m) => Delivered(m)'

LEMMA HeldBeforeWiden ==
    ASSUME TypeInv, NEW q, NEW n \in Nat, NEW m \in Nat, n <= m, HeldBefore(q, n)
    PROVE  HeldBefore(q, m)
<1>1. DOMAIN runs \subseteq Nat
  BY RunOf
<1> QED BY <1>1 DEF HeldBefore

(* A thread that is settling after the step was settling before it, on the *)
(* same run; likewise a thread that is releasing.                          *)
SameSettlers ==
    \A u \in Workers :
        /\ Settling(u)' <=> Settling(u)
        /\ Settling(u) => job'[u] = job[u] /\ pc'[u] = pc[u]
        /\ Releasing(u)' => /\ Releasing(u)
                            /\ job'[u].request = job[u].request /\ job'[u].run = job[u].run
                            /\ pc'[u] = "settle" => pc[u] = "settle"

(* Steps that leave queues and holds alone, the state of the runs too.     *)
LEMMA HoldFrame ==
    ASSUME TypeInv, HoldInv, SameSettlers, UNCHANGED <<conditional, review, handed>>,
           DOMAIN runs' = DOMAIN runs, Len(runs') = Len(runs),
           \A n \in DOMAIN runs : /\ runs'[n].request = runs[n].request
                                  /\ runs'[n].verdict = runs[n].verdict
                                  /\ runs'[n].state = runs[n].state
    PROVE  HoldInv'
<1>1. RunsKept
  BY RunsLength DEF RunsKept
<1>2. DeliveriesKept
  BY DEF DeliveriesKept, Delivered, SameSettlers, Settling
<1>3. QueuesHoldHeldRuns'
  BY DEF HoldInv, QueuesHoldHeldRuns
<1>4. \A n \in DOMAIN runs' : StateMatches(n)'
  BY DEF HoldInv, StateMatches
<1>5. \A u \in Workers : Settling(u)' =>
        /\ job'[u].release /\ job'[u].run \notin handed'
        /\ runs'[job'[u].run].request = job'[u].request
        /\ runs'[job'[u].run].verdict = job'[u].verdict
        /\ HeldBefore(job[u].request, job[u].run)'
  <2> SUFFICES ASSUME NEW u \in Workers, Settling(u)'
               PROVE  /\ job'[u].release /\ job'[u].run \notin handed'
                      /\ runs'[job'[u].run].request = job'[u].request
                      /\ runs'[job'[u].run].verdict = job'[u].verdict
                      /\ HeldBefore(job[u].request, job[u].run)'
    OBVIOUS
  <2>1. Settling(u) /\ job'[u] = job[u] /\ job[u].run \in DOMAIN runs
    BY DEF SameSettlers, Settling, TypeInv, InSubmit
  <2>2. HeldBefore(job[u].request, job[u].run)
    BY <2>1 DEF HoldInv
  <2>3. HeldBefore(job[u].request, job[u].run)'
    BY <1>1, <2>1, <2>2 DEF RunsKept, HeldBefore
  <2> QED BY <2>1, <2>3 DEF HoldInv
<1>6. \A u, v \in Workers : Settling(u)' /\ Settling(v)' /\ job'[u].run = job'[v].run => u = v
  BY DEF SameSettlers, HoldInv
<1>7. \A u \in Workers : Releasing(u)' =>
        /\ pc'[u] # "settle" => job'[u].run = 0
        /\ HeldBefore(job[u].request, Len(runs) + 1)'
        /\ conditional'[job'[u].request] # 0 \/ Outrun(job[u].request, job[u].run)'
  <2> SUFFICES ASSUME NEW u \in Workers, Releasing(u)'
               PROVE  /\ pc'[u] # "settle" => job'[u].run = 0
                      /\ HeldBefore(job[u].request, Len(runs) + 1)'
                      /\ conditional'[job'[u].request] # 0 \/ Outrun(job[u].request, job[u].run)'
    OBVIOUS
  <2>1. /\ Releasing(u) /\ job'[u].request = job[u].request /\ job'[u].run = job[u].run
        /\ pc[u] = "settle" => pc'[u] = "settle"
    BY DEF SameSettlers, Settling
  <2>2. HeldBefore(job[u].request, Len(runs) + 1)'
    BY <1>1, <2>1 DEF HoldInv, RunsKept, HeldBefore
  <2>3. Outrun(job[u].request, job[u].run) => Outrun(job[u].request, job[u].run)'
    BY <1>1, <1>2, <2>1 DEF RunsKept, DeliveriesKept, Outrun
  <2> QED BY <2>1, <2>2, <2>3 DEF HoldInv
<1>8. \A n \in DOMAIN runs' \ handed' :
        runs'[n].state = "Executing" =>
          (\E u \in Workers : Settling(u)' /\ job'[u].run = n) \/ Outrun(runs[n].request, n)'
  <2> SUFFICES ASSUME NEW n \in DOMAIN runs \ handed, runs[n].state = "Executing"
               PROVE  (\E u \in Workers : Settling(u)' /\ job'[u].run = n)
                      \/ Outrun(runs[n].request, n)'
    OBVIOUS
  <2>1. Outrun(runs[n].request, n) => Outrun(runs[n].request, n)'
    BY <1>1, <1>2 DEF RunsKept, DeliveriesKept, Outrun
  <2>2. \A u \in Workers : Settling(u) => Settling(u)' /\ job'[u] = job[u]
    BY DEF SameSettlers
  <2> QED BY <2>1, <2>2 DEF HoldInv
<1>9. \A q \in RequestIds : conditional'[q] \in DOMAIN runs' \cup {0}
  BY DEF HoldInv
<1> QED BY <1>3, <1>4, <1>5, <1>6, <1>7, <1>8, <1>9 DEF HoldInv

(* A step of thread w that files, settles or hands out a run: what it must *)
(* show of w itself, the other threads keeping their place.                *)
LEMMA HoldStep ==
    ASSUME TypeInv, HoldInv, NEW w \in Workers, RunsKept, DeliveriesKept,
           \A u \in Workers \ {w} : pc'[u] = pc[u] /\ job'[u] = job[u],
           QueuesHoldHeldRuns',
           (\A q \in RequestIds : conditional[q] \in DOMAIN runs \cup {0})',
           (\A n \in DOMAIN runs : StateMatches(n))',
           \A q \in RequestIds : conditional[q] # 0 /\ conditional'[q] = 0 =>
             \A u \in Workers \ {w} :
               Releasing(u) /\ job[u].request = q => Outrun(job[u].request, job[u].run)',
           \A u \in Workers \ {w} : Settling(u) => job[u].run \notin handed',
           \A u \in Workers \ {w} : Settling(u) /\ Settling(w)' => job[u].run # job'[w].run,
           Settling(w)' => /\ job'[w].release /\ job'[w].run \notin handed'
                           /\ runs'[job'[w].run].request = job'[w].request
                           /\ runs'[job'[w].run].verdict = job'[w].verdict
                           /\ HeldBefore(job[w].request, job[w].run)',
           Releasing(w)' =>
             /\ pc'[w] # "settle" => job'[w].run = 0
             /\ HeldBefore(job[w].request, Len(runs) + 1)'
             /\ conditional'[job'[w].request] # 0 \/ Outrun(job[w].request, job[w].run)',
           \A n \in DOMAIN runs' \ handed' :
             /\ runs'[n].state = "Executing"
             /\ n \in DOMAIN runs \ handed /\ runs[n].state = "Executing" =>
                  Settling(w) /\ job[w].run = n
             => \/ Settling(w)' /\ job'[w].run = n
                \/ Outrun(runs[n].request, n)'
    PROVE  HoldInv'
<1>1. \A u \in Workers \ {w} : /\ Settling(u)' <=> Settling(u)
                               /\ Releasing(u)' <=> Releasing(u)
  BY DEF Settling, Releasing
<1>2. \A u \in Workers : Settling(u)' =>
        /\ job'[u].release /\ job'[u].run \notin handed'
        /\ runs'[job'[u].run].request = job'[u].request
        /\ runs'[job'[u].run].verdict = job'[u].verdict
        /\ HeldBefore(job[u].request, job[u].run)'
  <2> SUFFICES ASSUME NEW u \in Workers \ {w}, Settling(u)'
               PROVE  /\ job'[u].release /\ job'[u].run \notin handed'
                      /\ runs'[job'[u].run].request = job'[u].request
                      /\ runs'[job'[u].run].verdict = job'[u].verdict
                      /\ HeldBefore(job[u].request, job[u].run)'
    OBVIOUS
  <2>1. Settling(u) /\ job'[u] = job[u] /\ job[u].run \in DOMAIN runs
    BY <1>1 DEF Settling, TypeInv, InSubmit
  <2>2. HeldBefore(job[u].request, job[u].run)
    BY <2>1 DEF HoldInv
  <2>3. HeldBefore(job[u].request, job[u].run)'
    BY <2>1, <2>2 DEF RunsKept, HeldBefore
  <2> QED BY <2>1, <2>3 DEF HoldInv, RunsKept
<1>3. \A u, v \in Workers : Settling(u)' /\ Settling(v)' /\ job'[u].run = job'[v].run => u = v
  BY <1>1 DEF HoldInv
<1>4. \A u \in Workers : Releasing(u)' =>
        /\ pc'[u] # "settle" => job'[u].run = 0
        /\ HeldBefore(job[u].request, Len(runs) + 1)'
        /\ conditional'[job'[u].request] # 0 \/ Outrun(job[u].request, job[u].run)'
  <2> SUFFICES ASSUME NEW u \in Workers \ {w}, Releasing(u)'
               PROVE  /\ pc'[u] # "settle" => job'[u].run = 0
                      /\ HeldBefore(job[u].request, Len(runs) + 1)'
                      /\ conditional'[job'[u].request] # 0 \/ Outrun(job[u].request, job[u].run)'
    OBVIOUS
  <2>1. Releasing(u) /\ job'[u] = job[u] /\ pc'[u] = pc[u] /\ job[u].request \in RequestIds
    BY <1>1, JobOf DEF Releasing, InSubmit
  <2>2. HeldBefore(job[u].request, Len(runs') + 1)
    <3>1. Len(runs) \in Nat /\ Len(runs') \in Nat
      BY RunsLength DEF RunsKept
    <3> QED BY <2>1, <3>1, HeldBeforeWiden DEF HoldInv, RunsKept
  <2>3. HeldBefore(job[u].request, Len(runs) + 1)'
    BY <2>1, <2>2 DEF RunsKept, HeldBefore
  <2>4. Outrun(job[u].request, job[u].run) => Outrun(job[u].request, job[u].run)'
    BY <2>1 DEF RunsKept, DeliveriesKept, Outrun
  <2> QED BY <2>1, <2>3, <2>4 DEF HoldInv
<1>5. \A n \in DOMAIN runs' \ handed' :
        runs'[n].state = "Executing" =>
          (\E u \in Workers : Settling(u)' /\ job'[u].run = n) \/ Outrun(runs[n].request, n)'
  <2> SUFFICES ASSUME NEW n \in DOMAIN runs' \ handed', runs'[n].state = "Executing"
               PROVE  \/ \E u \in Workers : Settling(u)' /\ job'[u].run = n
                      \/ Outrun(runs[n].request, n)'
    OBVIOUS
  <2>1. CASE n \in DOMAIN runs \ handed /\ runs[n].state = "Executing"
    <3>1. CASE Outrun(runs[n].request, n)
      BY <2>1, <3>1 DEF RunsKept, DeliveriesKept, Outrun
    <3>2. CASE \E u \in Workers \ {w} : Settling(u) /\ job[u].run = n
      BY <1>1, <3>2
    <3>3. CASE Settling(w) /\ job[w].run = n
      BY <3>3
    <3> QED BY <2>1, <3>1, <3>2, <3>3 DEF HoldInv
  <2> QED BY <2>1
<1> QED BY <1>2, <1>3, <1>4, <1>5 DEF HoldInv

LEMMA BeginHolds ==
    ASSUME TypeInv, HoldInv, NEW w \in Workers, NEW q \in RequestIds, NEW a \in Assets,
           Submit(w, q, a) \/ Release(w, q, a)
    PROVE  HoldInv'
<1>1. /\ pc[w] = "idle" /\ pc' = [pc EXCEPT ![w] = "evaluate"]
      /\ UNCHANGED <<runs, conditional, review, handed>>
  BY DEF Submit, Release, Begin
<1>2. /\ pc'[w] = "evaluate"
      /\ \A u \in Workers \ {w} : pc'[u] = pc[u] /\ job'[u] = job[u]
      /\ job'[w].request = q /\ job'[w].run = 0
      /\ job'[w].release => conditional[q] # 0
  BY DEF Submit, Release, Begin, TypeInv, EngineTypeOK
<1>3. ~Settling(w) /\ ~Settling(w)'
  BY <1>1, <1>2 DEF Settling
<1>4. RunsKept /\ DeliveriesKept
  BY <1>1, <1>2, RunsLength DEF RunsKept, DeliveriesKept, Delivered
<1>5. ASSUME Releasing(w)' PROVE HeldBefore(job[w].request, Len(runs) + 1)'
  <2>1. conditional[q] # 0
    BY <1>2, <1>5 DEF Releasing
  <2>2. /\ conditional[q] \in DOMAIN runs /\ runs[conditional[q]].request = q
        /\ runs[conditional[q]].state = "HeldConditional"
    BY <2>1 DEF HoldInv, QueuesHoldHeldRuns
  <2>3. conditional[q] < Len(runs) + 1
    BY <2>2, RunOf, RunsLength
  <2> QED BY <1>1, <1>2, <2>2, <2>3 DEF HeldBefore
<1>6. Releasing(w)' => conditional'[job'[w].request] # 0
  BY <1>1, <1>2 DEF Releasing
<1>7. /\ QueuesHoldHeldRuns' /\ (\A n \in DOMAIN runs : StateMatches(n))'
      /\ (\A p \in RequestIds : conditional[p] \in DOMAIN runs \cup {0})'
  BY <1>1 DEF HoldInv, QueuesHoldHeldRuns, StateMatches
<1>8. \A u \in Workers \ {w} : Settling(u) => job[u].run \notin handed'
  BY <1>1 DEF HoldInv
<1> QED BY <1>1, <1>2, <1>3, <1>4, <1>5, <1>6, <1>7, <1>8, HoldStep

LEMMA FileHolds ==
    ASSUME TypeInv, HoldInv, NEW w \in Workers, FileRun(w)
    PROVE  HoldInv'
<1> DEFINE n == Len(runs) + 1
           q == job[w].request
           v == job[w].verdict
<1>1. /\ pc[w] = "file" /\ runs' = Append(runs, NewRun(w))
      /\ conditional' = HeldAfterFiling(w, n)
      /\ review' = IF v = "human_review" THEN review \cup {n} ELSE review
  BY DEF FileRun
<1>2. /\ n \in Nat \ {0} /\ Len(runs') = n /\ n \notin DOMAIN runs
      /\ DOMAIN runs' = DOMAIN runs \cup {n}
      /\ runs'[n] = NewRun(w) /\ \A k \in DOMAIN runs : runs'[k] = runs[k] /\ k < n
  BY <1>1, NewRunType, RunsLength, AppendProperties, LenProperties
<1>3. /\ NewRun(w).request = q /\ NewRun(w).verdict = v /\ NewRun(w).state = StateFor[v]
      /\ q \in RequestIds /\ v \in Verdicts /\ job[w].release \in BOOLEAN
  BY <1>1, NewRunType, JobOf
<1>4. \A u \in Workers \ {w} : pc'[u] = pc[u] /\ job'[u] = job[u]
  BY DEF FileRun, Finish, TypeInv, EngineTypeOK
<1>5. job[w].release => /\ pc'[w] = "settle" /\ handed' = handed
                        /\ job'[w] = [job[w] EXCEPT !.run = n]
  BY DEF FileRun, TypeInv, EngineTypeOK
<1>6. ~job[w].release => pc'[w] = "idle" /\ handed' = handed \cup {n}
  BY DEF FileRun, Finish, TypeInv, EngineTypeOK
<1>7. job[w].release => /\ job'[w].run = n /\ job'[w].release
                        /\ job'[w].request = q /\ job'[w].verdict = v
  BY <1>1, <1>5, JobOf DEF Job
<1>8. handed \subseteq DOMAIN runs /\ handed \subseteq handed'
  BY <1>3, <1>5, <1>6 DEF TypeInv, EngineTypeOK
<1>9. /\ StateFor[v] = "HeldReview" <=> v = "human_review"
      /\ StateFor[v] = "HeldConditional" <=> v = "conditional"
      /\ StateFor[v] = "Executing" <=> v = "allowed"
      /\ StateFor[v] # "Completed"
  BY <1>3 DEF Verdicts, StateFor
<1>10. conditional' = IF v = "conditional" THEN [conditional EXCEPT ![q] = n] ELSE conditional
  BY <1>1 DEF HeldAfterFiling
<1> HIDE DEF n, q, v
<1>11. RunsKept
  BY <1>2, RunsLength DEF RunsKept
<1>12. DeliveriesKept
  BY <1>1, <1>4, <1>8 DEF DeliveriesKept, Delivered
<1>13. conditional \in [RequestIds -> RunIds \cup {0}]
  BY DEF TypeInv, EngineTypeOK
<1>14. \A p \in RequestIds : conditional'[p] = IF v = "conditional" /\ p = q THEN n ELSE conditional[p]
  BY <1>3, <1>10, <1>13
<1>15. QueuesHoldHeldRuns'
  <2>1. review' = {k \in DOMAIN runs' : runs'[k].state = "HeldReview"}
    <3>1. review = {k \in DOMAIN runs : runs[k].state = "HeldReview"}
      BY DEF HoldInv, QueuesHoldHeldRuns
    <3> QED BY <1>1, <1>2, <1>3, <1>9, <3>1 DEF v
  <2>2. ASSUME NEW p \in RequestIds, conditional'[p] # 0
        PROVE  /\ runs'[conditional'[p]].request = p
               /\ runs'[conditional'[p]].state = "HeldConditional"
    <3>1. CASE v = "conditional" /\ p = q
      BY <1>2, <1>3, <1>9, <1>14, <3>1
    <3>2. CASE ~(v = "conditional" /\ p = q)
      <4>1. conditional'[p] = conditional[p] /\ conditional[p] \in DOMAIN runs
        BY <1>14, <2>2, <3>2 DEF HoldInv
      <4>2. /\ runs[conditional[p]].request = p
            /\ runs[conditional[p]].state = "HeldConditional"
        BY <2>2, <4>1 DEF HoldInv, QueuesHoldHeldRuns
      <4> QED BY <1>2, <4>1, <4>2
    <3> QED BY <3>1, <3>2
  <2>3. ASSUME NEW k \in DOMAIN runs', runs'[k].state = "HeldConditional",
               conditional'[runs'[k].request] = 0
        PROVE  \E m \in DOMAIN runs' :
                 runs'[m].request = runs'[k].request /\ runs'[m].verdict = "allowed"
    <3>1. k \in DOMAIN runs
      <4>1. CASE k = n
        <5>1. conditional'[q] = n
          BY <1>2, <1>3, <1>9, <1>14, <2>3, <4>1
        <5> QED BY <1>2, <1>3, <2>3, <4>1, <5>1
      <4> QED BY <1>2, <4>1
    <3>2. /\ runs[k].state = "HeldConditional" /\ runs'[k].request = runs[k].request
          /\ runs[k].request \in RequestIds
      BY <1>2, <2>3, <3>1, RunOf
    <3>3. conditional[runs[k].request] = 0
      BY <1>2, <1>14, <2>3, <3>2
    <3>4. PICK m \in DOMAIN runs : runs[m].request = runs[k].request /\ runs[m].verdict = "allowed"
      BY <3>1, <3>2, <3>3 DEF HoldInv, QueuesHoldHeldRuns
    <3> QED BY <1>2, <3>2, <3>4
  <2> QED BY <2>1, <2>2, <2>3 DEF QueuesHoldHeldRuns
<1>16. (\A k \in DOMAIN runs : StateMatches(k))'
  BY <1>2, <1>3, <1>9 DEF HoldInv, StateMatches
<1>17. (\A p \in RequestIds : conditional[p] \in DOMAIN runs \cup {0})'
  BY <1>2, <1>14 DEF HoldInv
<1>18. \A p \in RequestIds : conditional[p] # 0 => conditional'[p] # 0
  BY <1>2, <1>14
<1>19. \A u \in Workers \ {w} : Settling(u) => job[u].run \notin handed' /\ job[u].run # n
  <2> SUFFICES ASSUME NEW u \in Workers \ {w}, Settling(u)
               PROVE  job[u].run \notin handed' /\ job[u].run # n
    OBVIOUS
  <2>1. job[u].run \in DOMAIN runs
    BY DEF Settling, TypeInv, InSubmit
  <2> QED BY <1>2, <1>3, <1>5, <1>6, <2>1 DEF HoldInv
<1>20. ASSUME Settling(w)' \/ Releasing(w)'
       PROVE  /\ job[w].release /\ pc'[w] = "settle"
              /\ HeldBefore(job[w].request, job[w].run)'
              /\ HeldBefore(job[w].request, Len(runs) + 1)'
              /\ conditional'[job'[w].request] # 0 \/ Outrun(job[w].request, job[w].run)'
  <2>1. job[w].release /\ pc'[w] = "settle"
    BY <1>3, <1>5, <1>6, <1>20 DEF Settling, Releasing, InSubmit
  <2>2. Releasing(w)
    BY <1>1, <2>1 DEF Releasing, InSubmit
  <2>3. HeldBefore(q, n) /\ (conditional[q] # 0 \/ Outrun(q, job[w].run))
    BY <2>2 DEF HoldInv, n, q
  <2>4. HeldBefore(job[w].request, job[w].run)' /\ HeldBefore(job[w].request, Len(runs) + 1)'
    BY <1>2, <1>7, <2>1, <2>3 DEF HeldBefore
  <2>5. Outrun(q, job[w].run) => Outrun(job[w].request, job[w].run)'
    BY <1>2, <1>7, <1>12, <2>1 DEF Outrun, DeliveriesKept
  <2> QED BY <1>3, <1>7, <1>18, <2>1, <2>3, <2>4, <2>5
<1>21. \A k \in DOMAIN runs' \ handed' : /\ runs'[k].state = "Executing"
                                         /\ k \notin DOMAIN runs \ handed
                                         => Settling(w)' /\ job'[w].run = k
  BY <1>2, <1>3, <1>5, <1>6, <1>7, <1>8 DEF Settling
<1>22. ~Settling(w) /\ \A k \in DOMAIN runs : runs'[k].state = runs[k].state
  BY <1>1, <1>2 DEF Settling
<1>23. Settling(w)' => job[w].release /\ job'[w].run \notin handed'
  BY <1>2, <1>3, <1>5, <1>6, <1>7, <1>8, <1>20
<1> QED BY <1>2, <1>3, <1>4, <1>7, <1>11, <1>12, <1>15, <1>16, <1>17, <1>18, <1>19, <1>20, <1>21,
           <1>22, <1>23, HoldStep

(* A release that has filed its run: that run, the hold it was made for.   *)
LEMMA SettlingFacts ==
    ASSUME TypeInv, HoldInv, NEW w \in Workers, Settling(w)
    PROVE  /\ job[w].run \in DOMAIN runs \ handed /\ job[w].release
           /\ job[w].request \in RequestIds /\ job[w].verdict \in Verdicts
           /\ runs[job[w].run].request = job[w].request
           /\ runs[job[w].run].verdict = job[w].verdict
           /\ HeldBefore(job[w].request, job[w].run)
           /\ \A u \in Workers \ {w} : Settling(u) => job[u].run # job[w].run
<1>1. job[w].run \in DOMAIN runs /\ pc[w] # "idle"
  BY DEF Settling, TypeInv, InSubmit
<1> QED BY <1>1, JobOf DEF HoldInv

LEMMA SettleHolds ==
    ASSUME TypeInv, HoldInv, NEW w \in Workers, Settle(w)
    PROVE  HoldInv'
<1> DEFINE q == job[w].request
<1>1. /\ pc[w] = "settle" /\ pc' = [pc EXCEPT ![w] = "released"]
      /\ job[w].verdict = "allowed" => conditional[q] # 0
      /\ conditional' = IF job[w].verdict = "allowed"
                        THEN [conditional EXCEPT ![q] = 0] ELSE conditional
      /\ UNCHANGED <<runs, review, job, handed>>
  BY DEF Settle
<1>2. pc'[w] = "released" /\ \A u \in Workers \ {w} : pc'[u] = pc[u]
  BY <1>1 DEF TypeInv, EngineTypeOK
<1>3. /\ Settling(w) /\ Settling(w)' /\ ~Releasing(w)'
      /\ Delivered(job[w].run)'
  BY <1>1, <1>2 DEF Settling, Releasing, Delivered, InSubmit
<1>4. RunsKept /\ DeliveriesKept
  BY <1>1, <1>2, RunsLength DEF RunsKept, DeliveriesKept, Delivered
<1>5. \A p \in RequestIds : conditional'[p] = IF job[w].verdict = "allowed" /\ p = q
                                              THEN 0 ELSE conditional[p]
  BY <1>1 DEF TypeInv, EngineTypeOK
<1>6. QueuesHoldHeldRuns' /\ (\A p \in RequestIds : conditional[p] \in DOMAIN runs \cup {0})'
  <2>1. ASSUME NEW k \in DOMAIN runs, runs[k].state = "HeldConditional",
               conditional'[runs[k].request] = 0
        PROVE  \E m \in DOMAIN runs :
                 runs[m].request = runs[k].request /\ runs[m].verdict = "allowed"
    <3>1. CASE conditional[runs[k].request] = 0
      BY <2>1, <3>1 DEF HoldInv, QueuesHoldHeldRuns
    <3>2. CASE conditional[runs[k].request] # 0
      <4>1. job[w].verdict = "allowed" /\ runs[k].request = q
        BY <1>5, <2>1, <3>2, RunOf
      <4> QED BY <1>3, <4>1, SettlingFacts
    <3> QED BY <3>1, <3>2
  <2>2. \A p \in RequestIds :
          conditional'[p] # 0 => /\ runs[conditional'[p]].request = p
                                 /\ runs[conditional'[p]].state = "HeldConditional"
    BY <1>5 DEF HoldInv, QueuesHoldHeldRuns
  <2>3. review = {k \in DOMAIN runs : runs[k].state = "HeldReview"}
    BY DEF HoldInv, QueuesHoldHeldRuns
  <2>4. \A p \in RequestIds : conditional'[p] \in DOMAIN runs \cup {0}
    BY <1>5 DEF HoldInv
  <2> QED BY <1>1, <2>1, <2>2, <2>3, <2>4 DEF QueuesHoldHeldRuns
<1>7. (\A n \in DOMAIN runs : StateMatches(n))'
  BY <1>1 DEF HoldInv, StateMatches
<1>8. ASSUME NEW p \in RequestIds, conditional[p] # 0 /\ conditional'[p] = 0,
             NEW u \in Workers \ {w}, Releasing(u), job[u].request = p
      PROVE  Outrun(job[u].request, job[u].run)'
  <2>1. job[w].verdict = "allowed" /\ p = q
    BY <1>5, <1>8
  <2>2. job[u].run # job[w].run
    <3>1. job[w].run # 0
      BY <1>3, SettlingFacts, RunOf
    <3>2. CASE pc[u] = "settle"
      BY <1>3, <3>2, SettlingFacts DEF Settling
    <3>3. CASE pc[u] # "settle"
      BY <1>8, <3>1, <3>3 DEF HoldInv
    <3> QED BY <3>2, <3>3
  <2> QED BY <1>1, <1>3, <1>8, <2>1, <2>2, SettlingFacts DEF Outrun
<1>9. \A u \in Workers : Settling(u) => job[u].run \notin handed'
  BY <1>1 DEF HoldInv
<1>10. /\ job'[w].release /\ job'[w].run \notin handed'
       /\ runs'[job'[w].run].request = job'[w].request
       /\ runs'[job'[w].run].verdict = job'[w].verdict
       /\ HeldBefore(job[w].request, job[w].run)'
       /\ \A u \in Workers \ {w} : Settling(u) => job[u].run # job'[w].run
  BY <1>1, <1>3, SettlingFacts DEF HeldBefore
<1>11. \A n \in DOMAIN runs' \ handed' : n \in DOMAIN runs \ handed /\ runs'[n] = runs[n]
  BY <1>1
<1> HIDE DEF q
<1> QED BY <1>1, <1>2, <1>3, <1>4, <1>6, <1>7, <1>8, <1>9, <1>10, <1>11, HoldStep

LEMMA RaiseHolds ==
    ASSUME TypeInv, HoldInv, NEW w \in Workers, SettleRaises(w)
    PROVE  HoldInv'
<1>1. /\ pc[w] = "settle" /\ conditional[job[w].request] = 0
      /\ UNCHANGED <<runs, conditional, review>> /\ handed' = handed
  BY DEF SettleRaises, Finish
<1>2. pc'[w] = "idle" /\ \A u \in Workers \ {w} : pc'[u] = pc[u] /\ job'[u] = job[u]
  BY DEF SettleRaises, Finish, TypeInv, EngineTypeOK
<1>3. Settling(w) /\ Releasing(w) /\ ~Settling(w)' /\ ~Releasing(w)'
  <2>1. Settling(w)
    BY <1>1 DEF Settling
  <2> QED BY <1>1, <1>2, <2>1, SettlingFacts DEF Settling, Releasing, InSubmit
<1>4. RunsKept /\ DeliveriesKept
  BY <1>1, <1>2, RunsLength DEF RunsKept, DeliveriesKept, Delivered
<1>5. Outrun(job[w].request, job[w].run)
  BY <1>1, <1>3 DEF HoldInv
<1>6. ASSUME NEW n \in DOMAIN runs' \ handed',
             n \in DOMAIN runs \ handed /\ runs[n].state = "Executing" => Settling(w) /\ job[w].run = n,
             runs'[n].state = "Executing"
      PROVE  Outrun(runs[n].request, n)'
  <2>1. n = job[w].run /\ runs[n].request = job[w].request
    BY <1>1, <1>3, <1>6, SettlingFacts
  <2> QED BY <1>1, <1>4, <1>5, <2>1 DEF Outrun, DeliveriesKept
<1>7. /\ QueuesHoldHeldRuns' /\ (\A n \in DOMAIN runs : StateMatches(n))'
      /\ (\A p \in RequestIds : conditional[p] \in DOMAIN runs \cup {0})'
  BY <1>1 DEF HoldInv, QueuesHoldHeldRuns, StateMatches
<1>8. \A u \in Workers : Settling(u) => job[u].run \notin handed'
  BY <1>1 DEF HoldInv
<1> QED BY <1>1, <1>2, <1>3, <1>4, <1>6, <1>7, <1>8, HoldStep

LEMMA ReleasedHolds ==
    ASSUME TypeInv, HoldInv, NEW w \in Workers, TraceReleased(w)
    PROVE  HoldInv'
<1>1. /\ pc[w] = "released" /\ UNCHANGED <<runs, conditional, review>>
      /\ handed' = handed \cup {job[w].run}
  BY DEF TraceReleased, Finish
<1>2. pc'[w] = "idle" /\ \A u \in Workers \ {w} : pc'[u] = pc[u] /\ job'[u] = job[u]
  BY DEF TraceReleased, Finish, TypeInv, EngineTypeOK
<1>3. Settling(w) /\ ~Settling(w)' /\ ~Releasing(w)'
  BY <1>1, <1>2 DEF Settling, Releasing, InSubmit
<1>4. RunsKept /\ DeliveriesKept
  BY <1>1, <1>2, RunsLength DEF RunsKept, DeliveriesKept, Delivered
<1>5. \A u \in Workers \ {w} : Settling(u) => job[u].run \notin handed'
  BY <1>1, <1>3, SettlingFacts DEF HoldInv
<1>6. \A n \in DOMAIN runs' \ handed' : /\ n \in DOMAIN runs \ handed /\ runs'[n] = runs[n]
                                        /\ job[w].run # n
  BY <1>1
<1>7. /\ QueuesHoldHeldRuns' /\ (\A n \in DOMAIN runs : StateMatches(n))'
      /\ (\A p \in RequestIds : conditional[p] \in DOMAIN runs \cup {0})'
  BY <1>1 DEF HoldInv, QueuesHoldHeldRuns, StateMatches
<1> QED BY <1>1, <1>2, <1>3, <1>4, <1>5, <1>6, <1>7, HoldStep

LEMMA WorkHolds ==
    ASSUME TypeInv, HoldInv, NEW w \in Workers, NEW n \in handed,
           RecordToolCall(w, n) \/ RecordOutput(w, n)
    PROVE  HoldInv'
<1>1. PICK step \in {"tool", "output"} : Work(w, n, step)
  BY DEF RecordToolCall, RecordOutput
<1>2. /\ pc[w] = "idle" /\ UNCHANGED <<conditional, review, handed>>
      /\ pc'[w] = step /\ \A u \in Workers \ {w} : pc'[u] = pc[u] /\ job'[u] = job[u]
  BY <1>1 DEF Work, TypeInv, EngineTypeOK
<1>3. ~Settling(w) /\ ~Settling(w)' /\ ~Releasing(w)'
  BY <1>2 DEF Settling, Releasing, InSubmit
<1>4. /\ n \in DOMAIN runs /\ DOMAIN runs' = DOMAIN runs /\ Len(runs') = Len(runs)
      /\ runs[n].state = "Executing" /\ runs'[n].state \in {"Executing", "Completed"}
      /\ \A k \in DOMAIN runs : /\ runs'[k].request = runs[k].request
                                /\ runs'[k].verdict = runs[k].verdict
                                /\ k # n => runs'[k] = runs[k]
  BY WorkEffect
<1>5. RunsKept /\ DeliveriesKept
  BY <1>2, <1>4, RunsLength DEF RunsKept, DeliveriesKept, Delivered
<1>6. QueuesHoldHeldRuns'
  <2>1. \A k \in DOMAIN runs : /\ runs'[k].state = "HeldReview" <=> runs[k].state = "HeldReview"
                               /\ runs'[k].state = "HeldConditional" <=> runs[k].state = "HeldConditional"
    BY <1>4
  <2>2. review' = {k \in DOMAIN runs' : runs'[k].state = "HeldReview"}
    BY <1>2, <1>4, <2>1 DEF HoldInv, QueuesHoldHeldRuns
  <2>3. ASSUME NEW q \in RequestIds, conditional'[q] # 0
        PROVE  /\ runs'[conditional'[q]].request = q
               /\ runs'[conditional'[q]].state = "HeldConditional"
    <3>1. conditional[q] \in DOMAIN runs
      BY <1>2, <2>3 DEF HoldInv
    <3> QED BY <1>2, <1>4, <2>1, <2>3, <3>1 DEF HoldInv, QueuesHoldHeldRuns
  <2>4. ASSUME NEW k \in DOMAIN runs, runs[k].state = "HeldConditional",
               conditional[runs[k].request] = 0
        PROVE  \E m \in DOMAIN runs :
                 runs'[m].request = runs[k].request /\ runs'[m].verdict = "allowed"
    <3>1. PICK m \in DOMAIN runs : runs[m].request = runs[k].request /\ runs[m].verdict = "allowed"
      BY <2>4 DEF HoldInv, QueuesHoldHeldRuns
    <3> QED BY <1>4, <3>1
  <2>5. \A k \in DOMAIN runs' :
          runs'[k].state = "HeldConditional" /\ conditional'[runs'[k].request] = 0 =>
            \E m \in DOMAIN runs' :
              runs'[m].request = runs'[k].request /\ runs'[m].verdict = "allowed"
    BY <1>2, <1>4, <2>1, <2>4
  <2> QED BY <2>2, <2>3, <2>5 DEF QueuesHoldHeldRuns
<1>7. (\A k \in DOMAIN runs : StateMatches(k))'
  <2>1. runs[n].verdict = "allowed"
    <3>1. StateMatches(n) /\ runs[n].verdict \in Verdicts
      BY <1>4, RunOf DEF HoldInv
    <3> QED BY <1>4, <3>1 DEF StateMatches, StateFor, Verdicts
  <2>2. StateMatches(n)'
    BY <1>4, <2>1, StateForTypes DEF StateMatches
  <2> QED BY <1>4, <2>2 DEF HoldInv, StateMatches
<1>8. (\A q \in RequestIds : conditional[q] \in DOMAIN runs \cup {0})'
  BY <1>2, <1>4 DEF HoldInv
<1>9. \A u \in Workers : Settling(u) => job[u].run \notin handed'
  BY <1>2 DEF HoldInv
<1>10. \A k \in DOMAIN runs' \ handed' : k \in DOMAIN runs \ handed /\ runs'[k] = runs[k]
  BY <1>2, <1>4
<1> QED BY <1>2, <1>3, <1>5, <1>6, <1>7, <1>8, <1>9, <1>10, HoldStep

(* The steps before a run is filed, and the event of an agent's call.      *)
LEMMA QuietHolds ==
    ASSUME TypeInv, HoldInv, NEW w \in Workers,
           \/ Read(w)
           \/ \E n \in Nonces : Consume(w, n)
           \/ \E verdict \in Verdicts : Decide(w, verdict)
           \/ TraceReceived(w) \/ TracePolicy(w) \/ TraceWork(w)
    PROVE  HoldInv'
<1>1. UNCHANGED <<runs, conditional, review>> /\ handed' = handed
  BY DEF Read, Consume, Decide, TraceReceived, TracePolicy, TraceWork, Finish, engineVars
<1>2. \A u \in Workers \ {w} : pc'[u] = pc[u] /\ job'[u] = job[u]
  BY DEF Read, Consume, Decide, TraceReceived, TracePolicy, TraceWork, Finish, engineVars,
     TypeInv, EngineTypeOK
<1>3. /\ ~Settling(w) /\ ~Settling(w)'
      /\ Releasing(w)' => /\ Releasing(w) /\ pc'[w] # "settle"
                          /\ job'[w].request = job[w].request /\ job'[w].run = job[w].run
  <2>1. CASE TraceWork(w)
    BY <2>1 DEF TraceWork, Finish, Settling, Releasing, InSubmit, TypeInv, EngineTypeOK
  <2>2. CASE TraceReceived(w) \/ TracePolicy(w)
    BY <2>2 DEF TraceReceived, TracePolicy, Settling, Releasing, InSubmit, TypeInv, EngineTypeOK
  <2>3. CASE Read(w) \/ \E n \in Nonces : Consume(w, n)
    BY <2>3 DEF Read, Consume, engineVars, Settling, Releasing, InSubmit, TypeInv, EngineTypeOK
  <2>4. ASSUME NEW verdict \in Verdicts, Decide(w, verdict)
        PROVE  /\ pc[w] = "evaluate" /\ pc'[w] = "received"
               /\ job'[w].request = job[w].request /\ job'[w].run = job[w].run
               /\ job'[w].release = job[w].release
    <3>1. pc[w] = "evaluate" /\ pc'[w] = "received"
      BY <2>4 DEF Decide, TypeInv, EngineTypeOK
    <3>2. job[w] \in Job
      BY <3>1, JobOf
    <3>3. job'[w] = [job[w] EXCEPT !.answer = Cardinality(answers), !.verdict = verdict]
      BY <2>4 DEF Decide, TypeInv, EngineTypeOK
    <3> QED BY <3>1, <3>2, <3>3 DEF Job
  <2> QED BY <2>1, <2>2, <2>3, <2>4 DEF Settling, Releasing, InSubmit
<1>4. SameSettlers
  BY <1>2, <1>3 DEF SameSettlers, Settling, Releasing
<1> QED BY <1>1, <1>4, HoldFrame

LEMMA StepHolds == TypeInv /\ HoldInv /\ [EngineNext]_vars => HoldInv'
<1> SUFFICES ASSUME TypeInv, HoldInv, [EngineNext]_vars PROVE HoldInv'
  OBVIOUS
<1>1. ASSUME NEW w \in Workers, StartCall(w) PROVE HoldInv'
  BY <1>1, BeginHolds, WorkHolds DEF StartCall
<1>2. ASSUME NEW w \in Workers, Continue(w) PROVE HoldInv'
  BY <1>2, QuietHolds, FileHolds, SettleHolds, RaiseHolds, ReleasedHolds DEF Continue
<1>3. CASE RegistryChanges \/ UNCHANGED vars
  <2>1. UNCHANGED <<runs, conditional, review, pc, job, handed>>
    BY <1>3 DEF RegistryChanges, engineVars, vars
  <2>2. SameSettlers
    BY <2>1 DEF SameSettlers, Settling, Releasing
  <2> QED BY <2>1, <2>2, HoldFrame
<1> QED BY <1>1, <1>2, <1>3 DEF EngineNext

LEMMA InitHolds == EngineStart => HoldInv
<1> SUFFICES ASSUME EngineStart PROVE HoldInv
  OBVIOUS
<1>1. DOMAIN runs = {} /\ review = {} /\ \A q \in RequestIds : conditional[q] = 0
  BY DEF EngineStart, EngineInit
<1>2. \A w \in Workers : ~Settling(w) /\ ~Releasing(w)
  BY DEF EngineStart, EngineInit, Settling, Releasing, InSubmit
<1> QED BY <1>1, <1>2 DEF HoldInv, QueuesHoldHeldRuns

LEMMA HoldsHold == EngineSpec => []HoldInv
BY InitHolds, StepHolds, TypesHold, PTL DEF EngineSpec

(* A review queue entry is a run held for review and the other way round;  *)
(* a conditional hold is a held run of its request_id, and a held run      *)
(* whose request_id has no hold lost it to an Allowed run.                 *)
THEOREM QueuesFaithful == EngineSpec => []QueuesHoldHeldRuns
<1>1. HoldInv => QueuesHoldHeldRuns
  BY DEF HoldInv
<1> QED BY <1>1, HoldsHold, PTL

(* A run left Executing that no caller was given lost a race that another  *)
(* Allowed release of its request_id won.                                  *)
THEOREM GrantsReachCallers == EngineSpec => []GrantReachesCaller
<1>1. TypeInv /\ HoldInv => GrantReachesCaller
  <2> SUFFICES ASSUME TypeInv, HoldInv, NEW n \in DOMAIN runs \ handed,
                      runs[n].state = "Executing", ~Working(n)
               PROVE  \E m \in DOMAIN runs \ {n} :
                        /\ runs[m].request = runs[n].request
                        /\ runs[m].verdict = "allowed"
                        /\ m \in handed \/ Working(m)
    BY DEF GrantReachesCaller
  <2>1. \A u \in Workers : Settling(u) \/ pc[u] = "released" => job[u] # NoJob
    BY DEF TypeInv, EngineTypeOK, Settling
  <2>2. Outrun(runs[n].request, n)
    BY <2>1 DEF HoldInv, Working
  <2> QED BY <2>1, <2>2 DEF Outrun, Delivered, Working
<1> QED BY <1>1, TypesHold, HoldsHold, PTL

(* Only an Allowed release of a run filed after a held one of the same     *)
(* request_id takes a hold away.                                           *)
THEOREM HoldsGoWithGrants == EngineSpec => HoldGoesWithGrant
<1> DEFINE Goes(q) ==
      conditional[q] # 0 /\ conditional'[q] = 0 =>
        \E n, m \in DOMAIN runs :
          /\ m < n /\ runs[m].request = q /\ runs[n].request = q
          /\ runs[m].state = "HeldConditional"
          /\ runs[n].verdict = "allowed" /\ n \notin handed
<1>1. ASSUME TypeInv, HoldInv, [EngineNext]_vars, NEW q \in RequestIds,
             conditional[q] # 0, conditional'[q] = 0
      PROVE  \E n, m \in DOMAIN runs :
               /\ m < n /\ runs[m].request = q /\ runs[n].request = q
               /\ runs[m].state = "HeldConditional"
               /\ runs[n].verdict = "allowed" /\ n \notin handed
  <2>1. conditional' # conditional
    BY <1>1
  <2>2. \A w \in Workers : ~StartCall(w)
    BY <2>1 DEF StartCall, Submit, Release, Begin, RecordToolCall, RecordOutput, Work
  <2>3. ~RegistryChanges /\ ~UNCHANGED vars
    BY <2>1 DEF RegistryChanges, vars, engineVars
  <2>4. PICK w \in Workers : Continue(w)
    BY <1>1, <2>2, <2>3 DEF EngineNext
  <2>5. ~FileRun(w)
    <3> SUFFICES ASSUME FileRun(w) PROVE FALSE
      OBVIOUS
    <3>1. conditional' = HeldAfterFiling(w, Len(runs) + 1) /\ Len(runs) + 1 # 0
      BY RunsLength, <1>1 DEF FileRun
    <3> QED BY <1>1, <3>1 DEF HeldAfterFiling, TypeInv, EngineTypeOK
  <2>6. Settle(w)
    BY <2>1, <2>4, <2>5 DEF Continue, Read, Consume, Decide, TraceReceived, TracePolicy, SettleRaises,
       TraceReleased, TraceWork, engineVars
  <2>7. Settling(w) /\ job[w].verdict = "allowed" /\ job[w].request = q
    BY <1>1, <2>6 DEF Settle, Settling, TypeInv, EngineTypeOK
  <2>8. /\ job[w].run \in DOMAIN runs \ handed /\ runs[job[w].run].request = q
        /\ runs[job[w].run].verdict = "allowed" /\ HeldBefore(q, job[w].run)
    BY <1>1, <2>7, SettlingFacts
  <2> QED BY <2>8 DEF HeldBefore
<1>2. TypeInv /\ HoldInv /\ [EngineNext]_vars => [\A q \in RequestIds : Goes(q)]_vars
  BY <1>1
<1> QED BY <1>2, TypesHold, HoldsHold, PTL DEF EngineSpec, HoldGoesWithGrant

-----------------------------------------------------------------------------
(* Proofs: counts                                                          *)

LEMMA CountMove ==
    ASSUME NEW S, NEW T, NEW x, IsFiniteSet(S), T \ {x} = S \ {x}
    PROVE  /\ Cardinality(S) \in Nat /\ Cardinality(T) \in Nat
           /\ (x \in T <=> x \in S) => Cardinality(T) = Cardinality(S)
           /\ x \in T /\ x \notin S => Cardinality(T) = Cardinality(S) + 1
           /\ x \notin T /\ x \in S => Cardinality(T) = Cardinality(S) - 1
<1>1. Cardinality(S) \in Nat
  BY FS_CardinalityType
<1>2. CASE x \in T
  <2>1. T = S \cup {x}
    BY <1>2
  <2>2. /\ IsFiniteSet(S \cup {x})
        /\ Cardinality(S \cup {x}) = IF x \in S THEN Cardinality(S) ELSE Cardinality(S) + 1
    BY FS_AddElement
  <2> QED BY <1>1, <1>2, <2>1, <2>2
<1>3. CASE x \notin T
  <2>1. T = S \ {x}
    BY <1>3
  <2>2. /\ IsFiniteSet(S \ {x})
        /\ Cardinality(S \ {x}) = IF x \in S THEN Cardinality(S) - 1 ELSE Cardinality(S)
    BY FS_RemoveElement
  <2>3. Cardinality(S \ {x}) \in Nat
    BY <2>2, FS_CardinalityType
  <2> QED BY <1>1, <1>3, <2>1, <2>2, <2>3
<1> QED BY <1>2, <1>3

LEMMA TraceLength ==
    ASSUME TypeInv
    PROVE  /\ Len(trace) \in Nat /\ DOMAIN trace = 1..Len(trace) /\ IsFiniteSet(DOMAIN trace)
           /\ IsFiniteSet(DOMAIN runs)
<1>1. trace \in Seq(TraceEvent)
  BY DEF TypeInv, EngineTypeOK, TraceTypeOK
<1>2. Len(trace) \in Nat /\ DOMAIN trace = 1..Len(trace)
  BY <1>1, LenProperties
<1> QED BY <1>2, RunsLength, FS_Interval

LEMMA Appended ==
    ASSUME TypeInv, NEW q, NEW e, NEW m, AppendEvent(q, e, m)
    PROVE  /\ DOMAIN trace' = DOMAIN trace \cup {Len(trace) + 1} /\ Len(trace) + 1 \notin DOMAIN trace
           /\ trace'[Len(trace) + 1].request = q /\ trace'[Len(trace) + 1].event = e
           /\ trace'[Len(trace) + 1].run = m
           /\ \A i \in DOMAIN trace : trace'[i] = trace[i] /\ i < Len(trace) + 1
<1>1. trace' = Append(trace, Event(q, e, m)) /\ trace \in Seq(TraceEvent)
  BY DEF AppendEvent, TypeInv, EngineTypeOK, TraceTypeOK
<1>2. Len(trace) \in Nat /\ DOMAIN trace = 1..Len(trace)
  BY TraceLength
<1>3. /\ DOMAIN trace' = 1..Len(trace) + 1 /\ trace'[Len(trace) + 1] = Event(q, e, m)
      /\ \A i \in DOMAIN trace : trace'[i] = trace[i]
  BY <1>1, <1>2
<1> QED BY <1>2, <1>3 DEF Event

(* What an appended event adds to the events of a run, or of a request_id. *)
LEMMA EventMove ==
    ASSUME TypeInv, NEW q, NEW e, NEW m, AppendEvent(q, e, m), NEW n, NEW ev
    PROVE  /\ EventsOf(n, ev) \in Nat
           /\ EventsOf(n, ev)' = EventsOf(n, ev) + (IF n = m /\ ev = e THEN 1 ELSE 0)
<1> DEFINE S == {i \in DOMAIN trace : trace[i].run = n /\ trace[i].event = ev}
           T == {i \in DOMAIN trace' : trace'[i].run = n /\ trace'[i].event = ev}
           x == Len(trace) + 1
<1>1. IsFiniteSet(S)
  BY TraceLength, FS_Subset
<1>2. T \ {x} = S \ {x} /\ x \notin S /\ (x \in T <=> n = m /\ ev = e)
  BY Appended
<1>3. EventsOf(n, ev) = Cardinality(S) /\ EventsOf(n, ev)' = Cardinality(T)
  BY DEF EventsOf
<1> HIDE DEF S, T, x
<1> QED BY <1>1, <1>2, <1>3, CountMove

LEMMA OccurrenceMove ==
    ASSUME TypeInv, NEW q, NEW e, NEW m, AppendEvent(q, e, m), NEW p, NEW ev
    PROVE  /\ Cardinality(Occurrences(p, ev)) \in Nat
           /\ Cardinality(Occurrences(p, ev))'
                = Cardinality(Occurrences(p, ev)) + (IF p = q /\ ev = e THEN 1 ELSE 0)
<1> DEFINE S == {i \in DOMAIN trace : trace[i].request = p /\ trace[i].event = ev}
           T == {i \in DOMAIN trace' : trace'[i].request = p /\ trace'[i].event = ev}
           x == Len(trace) + 1
<1>1. IsFiniteSet(S)
  BY TraceLength, FS_Subset
<1>2. T \ {x} = S \ {x} /\ x \notin S /\ (x \in T <=> p = q /\ ev = e)
  BY Appended
<1>3. Occurrences(p, ev) = S /\ Occurrences(p, ev)' = T
  BY DEF Occurrences
<1> HIDE DEF S, T, x
<1> QED BY <1>1, <1>2, <1>3, CountMove

(* What a step of w does to the number of threads at work on a run.        *)
AtWork(w, n, step) == pc[w] = step /\ job[w].run = n

LEMMA FlightMove ==
    ASSUME NEW w \in Workers, \A u \in Workers \ {w} : pc'[u] = pc[u] /\ job'[u] = job[u],
           NEW n, NEW step
    PROVE  /\ InFlight(n, step) \in Nat
           /\ (AtWork(w, n, step)' <=> AtWork(w, n, step)) => InFlight(n, step)' = InFlight(n, step)
           /\ AtWork(w, n, step)' /\ ~AtWork(w, n, step) => InFlight(n, step)' = InFlight(n, step) + 1
           /\ ~AtWork(w, n, step)' /\ AtWork(w, n, step) => InFlight(n, step)' = InFlight(n, step) - 1
<1> DEFINE S == {u \in Workers : pc[u] = step /\ job[u].run = n}
           T == {u \in Workers : pc'[u] = step /\ job'[u].run = n}
<1>1. IsFiniteSet(S)
  BY EngineAssumption, FS_Subset
<1>2. T \ {w} = S \ {w} /\ (w \in S <=> AtWork(w, n, step)) /\ (w \in T <=> AtWork(w, n, step)')
  BY DEF AtWork
<1>3. InFlight(n, step) = Cardinality(S) /\ InFlight(n, step)' = Cardinality(T)
  BY DEF InFlight
<1> HIDE DEF S, T
<1> QED BY <1>1, <1>2, <1>3, CountMove

LEMMA AboutToFileMove ==
    ASSUME NEW w \in Workers, \A u \in Workers \ {w} : pc'[u] = pc[u] /\ job'[u] = job[u], NEW q
    PROVE  /\ Cardinality(AboutToFile(q)) \in Nat
           /\ (w \in AboutToFile(q)' <=> w \in AboutToFile(q))
                => Cardinality(AboutToFile(q))' = Cardinality(AboutToFile(q))
           /\ w \in AboutToFile(q)' /\ w \notin AboutToFile(q)
                => Cardinality(AboutToFile(q))' = Cardinality(AboutToFile(q)) + 1
           /\ w \notin AboutToFile(q)' /\ w \in AboutToFile(q)
                => Cardinality(AboutToFile(q))' = Cardinality(AboutToFile(q)) - 1
<1>1. AboutToFile(q)' \ {w} = AboutToFile(q) \ {w}
  BY DEF AboutToFile
<1>2. IsFiniteSet(AboutToFile(q))
  <2>1. AboutToFile(q) \in SUBSET Workers
    BY DEF AboutToFile
  <2> QED BY <2>1, EngineAssumption, FS_Subset
<1> QED BY <1>1, <1>2, CountMove

LEMMA AllowedFinite ==
    ASSUME TypeInv, NEW q
    PROVE  IsFiniteSet(AllowedRuns(q)) /\ Cardinality(AllowedRuns(q)) \in Nat
<1>1. AllowedRuns(q) \in SUBSET DOMAIN runs
  BY DEF AllowedRuns
<1> QED BY <1>1, TraceLength, FS_Subset, FS_CardinalityType

(* The first clause of EventsOfRuns as runs and trace grow.                *)
LEMMA EventsOfRunsKept ==
    ASSUME TypeInv, EventsOfRuns, RunsKept,
           \/ UNCHANGED trace
           \/ \E q, e : AppendEvent(q, e, 0)
           \/ \E n \in DOMAIN runs : \E e :
                /\ AppendEvent(runs[n].request, e, n)
                /\ e # "policy.allowed" /\ runs[n].verdict = "allowed"
    PROVE  (\A i \in DOMAIN trace : trace[i].run # 0 =>
              /\ trace[i].run \in DOMAIN runs
              /\ runs[trace[i].run].verdict = "allowed"
              /\ runs[trace[i].run].request = trace[i].request
              /\ trace[i].event # "policy.allowed")'
<1>1. CASE UNCHANGED trace
  BY <1>1 DEF EventsOfRuns, RunsKept
<1>2. ASSUME NEW q, NEW e, AppendEvent(q, e, 0)
      PROVE  (\A i \in DOMAIN trace : trace[i].run # 0 =>
                /\ trace[i].run \in DOMAIN runs
                /\ runs[trace[i].run].verdict = "allowed"
                /\ runs[trace[i].run].request = trace[i].request
                /\ trace[i].event # "policy.allowed")'
  BY <1>2, Appended DEF EventsOfRuns, RunsKept
<1>3. ASSUME NEW n \in DOMAIN runs, NEW e, AppendEvent(runs[n].request, e, n),
             e # "policy.allowed", runs[n].verdict = "allowed"
      PROVE  (\A i \in DOMAIN trace : trace[i].run # 0 =>
                /\ trace[i].run \in DOMAIN runs
                /\ runs[trace[i].run].verdict = "allowed"
                /\ runs[trace[i].run].request = trace[i].request
                /\ trace[i].event # "policy.allowed")'
  BY <1>3, Appended DEF EventsOfRuns, RunsKept
<1> QED BY <1>1, <1>2, <1>3

(* The runs that have worked by an event, and the policy events before it. *)
Worked(i) == {trace[j].run : j \in {k \in 1..i : trace[k].request = trace[i].request}} \ {0}

PolicyBefore(i) == {k \in Occurrences(trace[i].request, "policy.allowed") : k < i}

LEMMA RecordedFirst ==
    PolicyRecordedFirst <=>
      \A i \in DOMAIN trace :
        trace[i].run # 0 => Cardinality(Worked(i)) <= Cardinality(PolicyBefore(i))
BY DEF PolicyRecordedFirst, Worked, PolicyBefore

LEMMA WorkedAllowed ==
    ASSUME TypeInv, EventsOfRuns, NEW i \in DOMAIN trace
    PROVE  Worked(i) \subseteq AllowedRuns(trace[i].request)
<1>1. \A j \in 1..i : j \in DOMAIN trace
  BY TraceLength
<1> QED BY <1>1 DEF Worked, AllowedRuns, EventsOfRuns

(* An appended event leaves what stands before it as it was.               *)
LEMMA BeforeKept ==
    ASSUME TypeInv, NEW q, NEW e, NEW m, AppendEvent(q, e, m), NEW i \in DOMAIN trace
    PROVE  /\ Worked(i)' = Worked(i) /\ PolicyBefore(i)' = PolicyBefore(i)
           /\ trace'[i] = trace[i]
<1>1. \A j \in 1..i : j \in DOMAIN trace /\ trace'[j] = trace[j]
  BY Appended, TraceLength
<1>2. trace'[i] = trace[i] /\ i \in 1..i /\ i < Len(trace) + 1
  BY Appended, TraceLength
<1>3. Worked(i)' = Worked(i)
  BY <1>1, <1>2 DEF Worked
<1>4. PolicyBefore(i)' = PolicyBefore(i)
  BY <1>2, Appended DEF PolicyBefore, Occurrences
<1> QED BY <1>2, <1>3, <1>4

LEMMA RecordedFirstKept ==
    ASSUME TypeInv, PolicyRecordedFirst, NEW q, NEW e, AppendEvent(q, e, 0)
    PROVE  PolicyRecordedFirst'
<1>1. ASSUME NEW i \in DOMAIN trace', trace'[i].run # 0
      PROVE  Cardinality(Worked(i))' <= Cardinality(PolicyBefore(i))'
  <2>1. i \in DOMAIN trace
    BY <1>1, Appended
  <2> QED BY <1>1, <2>1, BeforeKept, RecordedFirst
<1> QED BY <1>1 DEF PolicyRecordedFirst, Worked, PolicyBefore

(* Steps that leave the runs alone, move no thread to, from or at an       *)
(* agent's call or the filing of a run, and trace nothing of the kind.     *)
LEMMA QuietCounts ==
    ASSUME TypeInv, CountInv, NEW w \in Workers, UNCHANGED runs,
           \A u \in Workers \ {w} : pc'[u] = pc[u] /\ job'[u] = job[u],
           pc[w] \notin {"tool", "output", "file"}, pc'[w] \notin {"tool", "output", "file"},
           \/ UNCHANGED trace
           \/ \E q, e : e \notin {"policy.allowed", "tool.called", "run.completed"} /\ AppendEvent(q, e, 0)
    PROVE  CountInv'
<1>1. \A n, step : step \in {"tool", "output"} => InFlight(n, step)' = InFlight(n, step)
  <2> SUFFICES ASSUME NEW n, NEW step \in {"tool", "output"}
               PROVE  InFlight(n, step)' = InFlight(n, step)
    OBVIOUS
  <2>1. ~AtWork(w, n, step) /\ ~AtWork(w, n, step)'
    BY DEF AtWork
  <2> QED BY <2>1, FlightMove
<1>2. \A n : /\ EventsOf(n, "tool.called")' = EventsOf(n, "tool.called")
             /\ EventsOf(n, "run.completed")' = EventsOf(n, "run.completed")
  <2> SUFFICES ASSUME NEW n
               PROVE  /\ EventsOf(n, "tool.called")' = EventsOf(n, "tool.called")
                      /\ EventsOf(n, "run.completed")' = EventsOf(n, "run.completed")
    OBVIOUS
  <2>1. CASE UNCHANGED trace
    BY <2>1 DEF EventsOf
  <2>2. ASSUME NEW q, NEW e, e \notin {"tool.called", "run.completed"}, AppendEvent(q, e, 0)
        PROVE  /\ EventsOf(n, "tool.called")' = EventsOf(n, "tool.called")
               /\ EventsOf(n, "run.completed")' = EventsOf(n, "run.completed")
    BY <2>2, EventMove
  <2> QED BY <2>1, <2>2
<1>3. WorkAccounted'
  <2>1. WorkAccounted
    BY DEF CountInv
  <2> QED BY <1>1, <1>2, <2>1 DEF WorkAccounted
<1>4. EventsOfRuns'
  <2>1. RunsKept
    BY RunsLength DEF RunsKept
  <2>2. (\A u \in Workers : pc[u] \in {"tool", "output"} =>
           /\ runs[job[u].run].verdict = "allowed"
           /\ runs[job[u].run].request = job[u].request)'
    BY DEF CountInv, EventsOfRuns
  <2> QED BY <2>1, <2>2, EventsOfRunsKept DEF CountInv, EventsOfRuns
<1>5. PolicyCounted'
  <2> SUFFICES ASSUME NEW q \in RequestIds
               PROVE  Cardinality(AllowedRuns(q))' + Cardinality(AboutToFile(q))'
                        = Cardinality(Occurrences(q, "policy.allowed"))'
    BY DEF PolicyCounted
  <2>1. AllowedRuns(q)' = AllowedRuns(q)
    BY DEF AllowedRuns
  <2>2. Cardinality(AboutToFile(q))' = Cardinality(AboutToFile(q))
    <3>1. w \notin AboutToFile(q) /\ w \notin AboutToFile(q)'
      BY DEF AboutToFile
    <3> QED BY <3>1, AboutToFileMove
  <2>3. Cardinality(Occurrences(q, "policy.allowed"))' = Cardinality(Occurrences(q, "policy.allowed"))
    <3>1. CASE UNCHANGED trace
      BY <3>1 DEF Occurrences
    <3>2. ASSUME NEW p, NEW e, e # "policy.allowed", AppendEvent(p, e, 0)
          PROVE  Cardinality(Occurrences(q, "policy.allowed"))' = Cardinality(Occurrences(q, "policy.allowed"))
      BY <3>2, OccurrenceMove
    <3> QED BY <3>1, <3>2
  <2> QED BY <2>1, <2>2, <2>3 DEF CountInv, PolicyCounted
<1>6. PolicyRecordedFirst'
  <2>1. CASE UNCHANGED trace
    BY <2>1 DEF CountInv, PolicyRecordedFirst, Occurrences
  <2>2. CASE \E q, e : AppendEvent(q, e, 0)
    BY <2>2, RecordedFirstKept DEF CountInv
  <2> QED BY <2>1, <2>2
<1> QED BY <1>3, <1>4, <1>5, <1>6 DEF CountInv

LEMMA PolicyCounts ==
    ASSUME TypeInv, CountInv, NEW w \in Workers, TracePolicy(w)
    PROVE  CountInv'
<1> DEFINE e == PolicyEvent[job[w].verdict]
<1>1. /\ pc[w] = "policy" /\ UNCHANGED <<runs, job>> /\ AppendEvent(job[w].request, e, 0)
      /\ job[w].verdict \in Verdicts
  BY JobOf DEF TracePolicy
<1>2. pc'[w] = "file" /\ \A u \in Workers \ {w} : pc'[u] = pc[u] /\ job'[u] = job[u]
  BY DEF TracePolicy, TypeInv, EngineTypeOK
<1>3. /\ e = "policy.allowed" <=> job[w].verdict = "allowed"
      /\ e \notin {"tool.called", "run.completed"}
  BY <1>1 DEF PolicyEvent, Verdicts
<1> HIDE DEF e
<1>4. WorkAccounted'
  <2> SUFFICES ASSUME NEW n \in DOMAIN runs
               PROVE  /\ EventsOf(n, "tool.called")' + InFlight(n, "tool")' = runs[n].tools
                      /\ EventsOf(n, "run.completed")' + InFlight(n, "output")' =
                           IF runs[n].state = "Completed" THEN 1 ELSE 0
    BY <1>1 DEF WorkAccounted
  <2>1. \A step \in {"tool", "output"} : ~AtWork(w, n, step) /\ ~AtWork(w, n, step)'
    BY <1>1, <1>2 DEF AtWork
  <2>2. \A step \in {"tool", "output"} : InFlight(n, step)' = InFlight(n, step)
    BY <1>2, <2>1, FlightMove
  <2>3. \A ev \in {"tool.called", "run.completed"} : EventsOf(n, ev)' = EventsOf(n, ev)
    BY <1>1, <1>3, EventMove
  <2> QED BY <2>2, <2>3 DEF CountInv, WorkAccounted
<1>5. EventsOfRuns'
  <2>1. RunsKept
    BY <1>1, RunsLength DEF RunsKept
  <2>2. (\A u \in Workers : pc[u] \in {"tool", "output"} =>
           /\ runs[job[u].run].verdict = "allowed"
           /\ runs[job[u].run].request = job[u].request)'
    BY <1>1, <1>2 DEF CountInv, EventsOfRuns
  <2> QED BY <1>1, <2>1, <2>2, EventsOfRunsKept DEF CountInv, EventsOfRuns
<1>6. PolicyCounted'
  <2> SUFFICES ASSUME NEW q \in RequestIds
               PROVE  Cardinality(AllowedRuns(q))' + Cardinality(AboutToFile(q))'
                        = Cardinality(Occurrences(q, "policy.allowed"))'
    BY DEF PolicyCounted
  <2>1. AllowedRuns(q)' = AllowedRuns(q)
    BY <1>1 DEF AllowedRuns
  <2>2. /\ w \notin AboutToFile(q)
        /\ w \in AboutToFile(q)' <=> q = job[w].request /\ e = "policy.allowed"
    BY <1>1, <1>2, <1>3 DEF AboutToFile
  <2>3. Cardinality(AboutToFile(q))' = Cardinality(AboutToFile(q))
          + (IF q = job[w].request /\ e = "policy.allowed" THEN 1 ELSE 0)
        /\ Cardinality(AboutToFile(q)) \in Nat
    BY <1>2, <2>2, AboutToFileMove
  <2>4. Cardinality(Occurrences(q, "policy.allowed"))' = Cardinality(Occurrences(q, "policy.allowed"))
          + (IF q = job[w].request /\ e = "policy.allowed" THEN 1 ELSE 0)
        /\ Cardinality(Occurrences(q, "policy.allowed")) \in Nat
    BY <1>1, OccurrenceMove
  <2>5. Cardinality(AllowedRuns(q)) + Cardinality(AboutToFile(q))
          = Cardinality(Occurrences(q, "policy.allowed"))
    BY DEF CountInv, PolicyCounted
  <2> QED BY <2>1, <2>3, <2>4, <2>5, AllowedFinite
<1>7. PolicyRecordedFirst'
  BY <1>1, RecordedFirstKept DEF CountInv
<1> QED BY <1>4, <1>5, <1>6, <1>7 DEF CountInv

LEMMA FileCounts ==
    ASSUME TypeInv, CountInv, NEW w \in Workers, FileRun(w)
    PROVE  CountInv'
<1> DEFINE n == Len(runs) + 1
<1>1. /\ pc[w] = "file" /\ runs' = Append(runs, NewRun(w)) /\ UNCHANGED trace
      /\ job[w].request \in RequestIds /\ job[w].verdict \in Verdicts
  BY JobOf DEF FileRun
<1>2. /\ n \in Nat \ {0} /\ Len(runs') = n /\ n \notin DOMAIN runs
      /\ DOMAIN runs' = DOMAIN runs \cup {n}
      /\ runs'[n] = NewRun(w) /\ \A k \in DOMAIN runs : runs'[k] = runs[k]
  BY <1>1, NewRunType, RunsLength, AppendProperties, LenProperties
<1>3. /\ NewRun(w).request = job[w].request /\ NewRun(w).verdict = job[w].verdict
      /\ NewRun(w).tools = 0 /\ NewRun(w).state # "Completed"
  BY <1>1, NewRunType DEF StateFor, Verdicts
<1>4. /\ pc'[w] \in {"settle", "idle"}
      /\ \A u \in Workers \ {w} : pc'[u] = pc[u] /\ job'[u] = job[u]
  BY DEF FileRun, Finish, TypeInv, EngineTypeOK
<1> HIDE DEF n
<1>5. RunsKept
  BY <1>2, RunsLength DEF RunsKept, n
<1>6. WorkAccounted'
  <2> SUFFICES ASSUME NEW k \in DOMAIN runs'
               PROVE  /\ EventsOf(k, "tool.called")' + InFlight(k, "tool")' = runs'[k].tools
                      /\ EventsOf(k, "run.completed")' + InFlight(k, "output")' =
                           IF runs'[k].state = "Completed" THEN 1 ELSE 0
    BY DEF WorkAccounted
  <2>1. \A step \in {"tool", "output"} : ~AtWork(w, k, step) /\ ~AtWork(w, k, step)'
    BY <1>1, <1>4 DEF AtWork
  <2>2. \A step \in {"tool", "output"} : InFlight(k, step)' = InFlight(k, step)
    BY <1>4, <2>1, FlightMove
  <2>3. \A ev : EventsOf(k, ev)' = EventsOf(k, ev)
    BY <1>1 DEF EventsOf
  <2>4. CASE k = n
    <3>1. \A ev : EventsOf(k, ev) = 0
      <4>1. \A i \in DOMAIN trace : trace[i].run # n
        BY <1>2 DEF CountInv, EventsOfRuns
      <4>2. ASSUME NEW ev PROVE {i \in DOMAIN trace : trace[i].run = k /\ trace[i].event = ev} = {}
        BY <2>4, <4>1
      <4> QED BY <4>2, FS_EmptySet DEF EventsOf
    <3>2. \A step \in {"tool", "output"} : InFlight(k, step) = 0
      <4>1. \A u \in Workers : pc[u] \in {"tool", "output"} => job[u].run # n
        BY <1>2 DEF TypeInv, InSubmit
      <4>2. ASSUME NEW step \in {"tool", "output"}
            PROVE  {u \in Workers : pc[u] = step /\ job[u].run = k} = {}
        BY <2>4, <4>1
      <4> QED BY <4>2, FS_EmptySet DEF InFlight
    <3> QED BY <1>2, <1>3, <2>2, <2>3, <2>4, <3>1, <3>2
  <2>5. CASE k \in DOMAIN runs
    BY <1>2, <2>2, <2>3, <2>5 DEF CountInv, WorkAccounted
  <2> QED BY <1>2, <2>4, <2>5
<1>7. EventsOfRuns'
  <2>1. (\A u \in Workers : pc[u] \in {"tool", "output"} =>
           /\ runs[job[u].run].verdict = "allowed"
           /\ runs[job[u].run].request = job[u].request)'
    <3> SUFFICES ASSUME NEW u \in Workers, pc'[u] \in {"tool", "output"}
                 PROVE  /\ runs'[job'[u].run].verdict = "allowed"
                        /\ runs'[job'[u].run].request = job'[u].request
      OBVIOUS
    <3>1. pc[u] \in {"tool", "output"} /\ job'[u] = job[u]
      BY <1>4
    <3>2. job[u].run \in DOMAIN runs
      BY <3>1 DEF TypeInv, InSubmit
    <3> QED BY <1>2, <3>1, <3>2 DEF CountInv, EventsOfRuns
  <2> QED BY <1>1, <1>5, <2>1, EventsOfRunsKept DEF CountInv, EventsOfRuns
<1>8. PolicyCounted'
  <2> SUFFICES ASSUME NEW q \in RequestIds
               PROVE  Cardinality(AllowedRuns(q))' + Cardinality(AboutToFile(q))'
                        = Cardinality(Occurrences(q, "policy.allowed"))'
    BY DEF PolicyCounted
  <2> DEFINE files == job[w].request = q /\ job[w].verdict = "allowed"
  <2>1. Cardinality(AllowedRuns(q)') = Cardinality(AllowedRuns(q)) + (IF files THEN 1 ELSE 0)
        /\ Cardinality(AllowedRuns(q)) \in Nat
    <3>1. AllowedRuns(q)' \ {n} = AllowedRuns(q) \ {n} /\ n \notin AllowedRuns(q)
          /\ (n \in AllowedRuns(q)' <=> files)
      BY <1>2, <1>3 DEF AllowedRuns
    <3> HIDE DEF files
    <3> QED BY <3>1, AllowedFinite, CountMove
  <2>2. (w \in AboutToFile(q) <=> files) /\ w \notin AboutToFile(q)'
    BY <1>1, <1>4 DEF AboutToFile
  <2> HIDE DEF files
  <2>3. Cardinality(AboutToFile(q))' = Cardinality(AboutToFile(q)) - (IF files THEN 1 ELSE 0)
        /\ Cardinality(AboutToFile(q)) \in Nat
    BY <1>4, <2>2, AboutToFileMove
  <2>4. Occurrences(q, "policy.allowed")' = Occurrences(q, "policy.allowed")
    BY <1>1 DEF Occurrences
  <2>5. Cardinality(AllowedRuns(q)) + Cardinality(AboutToFile(q))
          = Cardinality(Occurrences(q, "policy.allowed"))
    BY DEF CountInv, PolicyCounted
  <2> QED BY <2>1, <2>3, <2>4, <2>5
<1>9. PolicyRecordedFirst'
  BY <1>1 DEF CountInv, PolicyRecordedFirst, Occurrences
<1> QED BY <1>6, <1>7, <1>8, <1>9 DEF CountInv

LEMMA WorkCounts ==
    ASSUME TypeInv, HoldInv, CountInv, NEW w \in Workers, NEW n \in handed,
           RecordToolCall(w, n) \/ RecordOutput(w, n)
    PROVE  CountInv'
<1>1. /\ n \in DOMAIN runs /\ DOMAIN runs' = DOMAIN runs /\ Len(runs') = Len(runs)
      /\ runs[n].state = "Executing"
      /\ \A k \in DOMAIN runs : /\ runs'[k].request = runs[k].request
                                /\ runs'[k].verdict = runs[k].verdict
                                /\ k # n => runs'[k] = runs[k]
  BY WorkEffect
<1>2. runs[n].verdict = "allowed"
  <2>1. StateMatches(n) /\ runs[n].verdict \in Verdicts
    BY <1>1, RunOf DEF HoldInv
  <2> QED BY <1>1, <2>1 DEF StateMatches, StateFor, Verdicts
<1>3. PICK step \in {"tool", "output"} :
        /\ Work(w, n, step)
        /\ step = "tool" => RecordToolCall(w, n)
        /\ step = "output" => RecordOutput(w, n)
  BY DEF RecordToolCall, RecordOutput
<1>4. /\ pc[w] = "idle" /\ pc'[w] = step /\ UNCHANGED trace
      /\ job'[w].run = n /\ job'[w].request = runs[n].request
      /\ \A u \in Workers \ {w} : pc'[u] = pc[u] /\ job'[u] = job[u]
  BY <1>3 DEF Work, TypeInv, EngineTypeOK
<1>5. WorkAccounted'
  <2> SUFFICES ASSUME NEW k \in DOMAIN runs
               PROVE  /\ EventsOf(k, "tool.called")' + InFlight(k, "tool")' = runs'[k].tools
                      /\ EventsOf(k, "run.completed")' + InFlight(k, "output")' =
                           IF runs'[k].state = "Completed" THEN 1 ELSE 0
    BY <1>1 DEF WorkAccounted
  <2>1. \A ev : EventsOf(k, ev)' = EventsOf(k, ev)
    BY <1>4 DEF EventsOf
  <2>2. \A s \in {"tool", "output"} : ~AtWork(w, k, s) /\ (AtWork(w, k, s)' <=> s = step /\ k = n)
    BY <1>4 DEF AtWork
  <2>3. \A s \in {"tool", "output"} :
          /\ InFlight(k, s) \in Nat
          /\ InFlight(k, s)' = InFlight(k, s) + (IF s = step /\ k = n THEN 1 ELSE 0)
    BY <1>4, <2>2, FlightMove
  <2>4. /\ EventsOf(k, "tool.called") + InFlight(k, "tool") = runs[k].tools
        /\ EventsOf(k, "run.completed") + InFlight(k, "output") =
             IF runs[k].state = "Completed" THEN 1 ELSE 0
    BY DEF CountInv, WorkAccounted
  <2>5. \A ev : EventsOf(k, ev) \in Nat
    <3> SUFFICES ASSUME NEW ev PROVE EventsOf(k, ev) \in Nat
      OBVIOUS
    <3>1. {i \in DOMAIN trace : trace[i].run = k /\ trace[i].event = ev} \in SUBSET DOMAIN trace
      OBVIOUS
    <3> QED BY <3>1, TraceLength, FS_Subset, FS_CardinalityType DEF EventsOf
  <2>6. CASE k # n
    <3>1. runs'[k] = runs[k]
      BY <1>1, <2>6
    <3>2. \A s \in {"tool", "output"} : InFlight(k, s)' = InFlight(k, s)
      BY <2>3, <2>6
    <3> QED BY <2>1, <2>4, <3>1, <3>2
  <2>7. CASE k = n /\ step = "tool"
    <3>1. runs'[n].tools = runs[n].tools + 1 /\ runs'[n].state = runs[n].state
      BY <1>3, <2>7, WorkEffect
    <3> QED BY <2>1, <2>3, <2>4, <2>5, <2>7, <3>1
  <2>8. CASE k = n /\ step = "output"
    <3>1. runs'[n].tools = runs[n].tools /\ runs'[n].state = "Completed"
      BY <1>3, <2>8, WorkEffect
    <3> QED BY <1>1, <2>1, <2>3, <2>4, <2>5, <2>8, <3>1
  <2> QED BY <2>6, <2>7, <2>8
<1>6. EventsOfRuns'
  <2>1. RunsKept
    <3>1. \A k \in DOMAIN runs : runs[k].state # "Executing" => runs'[k].state = runs[k].state
      BY <1>1
    <3> QED BY <1>1, <3>1, RunsLength DEF RunsKept
  <2>2. (\A u \in Workers : pc[u] \in {"tool", "output"} =>
           /\ runs[job[u].run].verdict = "allowed"
           /\ runs[job[u].run].request = job[u].request)'
    <3> SUFFICES ASSUME NEW u \in Workers, pc'[u] \in {"tool", "output"}
                 PROVE  /\ runs'[job'[u].run].verdict = "allowed"
                        /\ runs'[job'[u].run].request = job'[u].request
      OBVIOUS
    <3>1. CASE u = w
      BY <1>1, <1>2, <1>4, <3>1
    <3>2. CASE u # w
      <4>1. pc[u] \in {"tool", "output"} /\ job'[u] = job[u]
        BY <1>4, <3>2
      <4>2. job[u].run \in DOMAIN runs
        BY <4>1 DEF TypeInv, InSubmit
      <4> QED BY <1>1, <4>1, <4>2 DEF CountInv, EventsOfRuns
    <3> QED BY <3>1, <3>2
  <2> QED BY <1>4, <2>1, <2>2, EventsOfRunsKept DEF CountInv, EventsOfRuns
<1>7. PolicyCounted'
  <2> SUFFICES ASSUME NEW q \in RequestIds
               PROVE  Cardinality(AllowedRuns(q))' + Cardinality(AboutToFile(q))'
                        = Cardinality(Occurrences(q, "policy.allowed"))'
    BY DEF PolicyCounted
  <2>1. AllowedRuns(q)' = AllowedRuns(q)
    BY <1>1 DEF AllowedRuns
  <2>2. AboutToFile(q)' = AboutToFile(q)
    BY <1>4 DEF AboutToFile
  <2>3. Occurrences(q, "policy.allowed")' = Occurrences(q, "policy.allowed")
    BY <1>4 DEF Occurrences
  <2> QED BY <2>1, <2>2, <2>3 DEF CountInv, PolicyCounted
<1>8. PolicyRecordedFirst'
  BY <1>4 DEF CountInv, PolicyRecordedFirst, Occurrences
<1> QED BY <1>5, <1>6, <1>7, <1>8 DEF CountInv

(* The event of an agent's call: one more event, one thread less at work;  *)
(* the policy events before it are those of all Allowed runs filed.        *)
LEMMA TraceWorkCounts ==
    ASSUME TypeInv, CountInv, NEW w \in Workers, TraceWork(w)
    PROVE  CountInv'
<1> DEFINE n == job[w].run
           q == job[w].request
           e == IF pc[w] = "tool" THEN "tool.called" ELSE "run.completed"
<1>1. /\ pc[w] \in {"tool", "output"} /\ AppendEvent(q, e, n) /\ runs' = runs
  BY DEF TraceWork
<1>2. pc'[w] = "idle" /\ \A u \in Workers \ {w} : pc'[u] = pc[u] /\ job'[u] = job[u]
  BY DEF TraceWork, Finish, TypeInv, EngineTypeOK
<1>3. /\ n \in DOMAIN runs /\ runs[n].verdict = "allowed" /\ runs[n].request = q
      /\ e # "policy.allowed" /\ q \in RequestIds
  BY <1>1, JobOf DEF TypeInv, InSubmit, CountInv, EventsOfRuns
<1>4. /\ e = "tool.called" <=> pc[w] = "tool"
      /\ e = "run.completed" <=> pc[w] = "output"
  BY <1>1
<1> HIDE DEF n, q, e
<1>5. WorkAccounted'
  <2> SUFFICES ASSUME NEW k \in DOMAIN runs
               PROVE  /\ EventsOf(k, "tool.called")' + InFlight(k, "tool")' = runs[k].tools
                      /\ EventsOf(k, "run.completed")' + InFlight(k, "output")' =
                           IF runs[k].state = "Completed" THEN 1 ELSE 0
    BY <1>1 DEF WorkAccounted
  <2>1. \A ev : /\ EventsOf(k, ev) \in Nat
                /\ EventsOf(k, ev)' = EventsOf(k, ev) + (IF k = n /\ ev = e THEN 1 ELSE 0)
    BY <1>1, EventMove
  <2>2. \A s \in {"tool", "output"} : ~AtWork(w, k, s)' /\ (AtWork(w, k, s) <=> s = pc[w] /\ k = n)
    BY <1>2 DEF AtWork, n
  <2>3. \A s \in {"tool", "output"} :
          /\ InFlight(k, s) \in Nat
          /\ InFlight(k, s)' = InFlight(k, s) - (IF s = pc[w] /\ k = n THEN 1 ELSE 0)
    BY <1>2, <2>2, FlightMove
  <2>4. /\ EventsOf(k, "tool.called") + InFlight(k, "tool") = runs[k].tools
        /\ EventsOf(k, "run.completed") + InFlight(k, "output") =
             IF runs[k].state = "Completed" THEN 1 ELSE 0
    BY DEF CountInv, WorkAccounted
  <2> QED BY <1>1, <1>4, <2>1, <2>3, <2>4
<1>6. EventsOfRuns'
  <2>1. RunsKept
    BY <1>1, RunsLength DEF RunsKept
  <2>2. (\A u \in Workers : pc[u] \in {"tool", "output"} =>
           /\ runs[job[u].run].verdict = "allowed"
           /\ runs[job[u].run].request = job[u].request)'
    BY <1>1, <1>2 DEF CountInv, EventsOfRuns
  <2>3. \E k \in DOMAIN runs : \E ev : /\ AppendEvent(runs[k].request, ev, k)
                                       /\ ev # "policy.allowed" /\ runs[k].verdict = "allowed"
    BY <1>1, <1>3
  <2> QED BY <2>1, <2>2, <2>3, EventsOfRunsKept DEF CountInv, EventsOfRuns
<1>7. PolicyCounted'
  <2> SUFFICES ASSUME NEW p \in RequestIds
               PROVE  Cardinality(AllowedRuns(p))' + Cardinality(AboutToFile(p))'
                        = Cardinality(Occurrences(p, "policy.allowed"))'
    BY DEF PolicyCounted
  <2>1. AllowedRuns(p)' = AllowedRuns(p)
    BY <1>1 DEF AllowedRuns
  <2>2. AboutToFile(p)' = AboutToFile(p)
    BY <1>1, <1>2 DEF AboutToFile
  <2>3. Cardinality(Occurrences(p, "policy.allowed"))' = Cardinality(Occurrences(p, "policy.allowed"))
    BY <1>1, <1>3, OccurrenceMove
  <2> QED BY <2>1, <2>2, <2>3 DEF CountInv, PolicyCounted
<1>8. PolicyRecordedFirst'
  <2>1. ASSUME NEW i \in DOMAIN trace', trace'[i].run # 0
        PROVE  Cardinality(Worked(i))' <= Cardinality(PolicyBefore(i))'
    <3>1. CASE i \in DOMAIN trace
      BY <1>1, <2>1, <3>1, BeforeKept, RecordedFirst DEF CountInv
    <3>2. CASE i = Len(trace) + 1
      <4>1. trace'[i].request = q /\ \A k \in DOMAIN trace : k < i /\ trace'[k] = trace[k]
        BY <1>1, <3>2, Appended
      <4>2. Worked(i)' \subseteq AllowedRuns(q)
        <5>1. \A j \in 1..i : j \in DOMAIN trace'
          BY <1>1, <3>2, Appended, TraceLength
        <5> QED BY <1>1, <1>6, <4>1, <5>1 DEF Worked, AllowedRuns, EventsOfRuns
      <4>3. PolicyBefore(i)' = Occurrences(q, "policy.allowed")
        BY <1>1, <1>3, <3>2, <4>1, Appended DEF PolicyBefore, Occurrences
      <4>4. Cardinality(Worked(i)') <= Cardinality(AllowedRuns(q))
        BY <4>2, AllowedFinite, FS_Subset
      <4>5. Cardinality(AllowedRuns(q)) <= Cardinality(Occurrences(q, "policy.allowed"))
        <5>1. Cardinality(AboutToFile(q)) \in Nat
          BY <1>2, AboutToFileMove
        <5> QED BY <1>3, <5>1, AllowedFinite DEF CountInv, PolicyCounted
      <4>6. /\ Cardinality(Worked(i)') \in Nat /\ Cardinality(AllowedRuns(q)) \in Nat
            /\ Cardinality(Occurrences(q, "policy.allowed")) \in Nat
        <5>1. IsFiniteSet(Worked(i)')
          BY <4>2, AllowedFinite, FS_Subset
        <5> QED BY <1>1, <5>1, AllowedFinite, OccurrenceMove, FS_CardinalityType
      <4> QED BY <4>3, <4>4, <4>5, <4>6
    <3> QED BY <1>1, <3>1, <3>2, Appended
  <2> QED BY <2>1 DEF PolicyRecordedFirst, Worked, PolicyBefore
<1> QED BY <1>5, <1>6, <1>7, <1>8 DEF CountInv

LEMMA StepCounts == TypeInv /\ HoldInv /\ CountInv /\ [EngineNext]_vars => CountInv'
<1> SUFFICES ASSUME TypeInv, HoldInv, CountInv, [EngineNext]_vars PROVE CountInv'
  OBVIOUS
<1>1. ASSUME NEW w \in Workers, NEW q \in RequestIds, NEW a \in Assets,
             Submit(w, q, a) \/ Release(w, q, a)
      PROVE  CountInv'
  <2>1. /\ pc[w] = "idle" /\ pc'[w] = "evaluate" /\ UNCHANGED <<runs, trace>>
        /\ \A u \in Workers \ {w} : pc'[u] = pc[u] /\ job'[u] = job[u]
    BY <1>1 DEF Submit, Release, Begin, TypeInv, EngineTypeOK
  <2> QED BY <2>1, QuietCounts
<1>2. ASSUME NEW w \in Workers,
             \/ Read(w)
             \/ \E n \in Nonces : Consume(w, n)
             \/ \E verdict \in Verdicts : Decide(w, verdict)
             \/ Settle(w) \/ SettleRaises(w)
      PROVE  CountInv'
  <2>1. /\ pc[w] \in {"evaluate", "settle"} /\ pc'[w] \in {"evaluate", "received", "released", "idle"}
        /\ UNCHANGED <<runs, trace>>
    BY <1>2 DEF Read, Consume, engineVars, Decide, Settle, SettleRaises, Finish, TypeInv, EngineTypeOK
  <2>2. \A u \in Workers \ {w} : pc'[u] = pc[u] /\ job'[u] = job[u]
    BY <1>2 DEF Read, Consume, engineVars, Decide, Settle, SettleRaises, Finish, TypeInv, EngineTypeOK
  <2> QED BY <2>1, <2>2, QuietCounts
<1>3. ASSUME NEW w \in Workers, TraceReceived(w) \/ TraceReleased(w)
      PROVE  CountInv'
  <2>1. /\ pc[w] \in {"received", "released"} /\ pc'[w] \in {"policy", "idle"}
        /\ UNCHANGED runs
        /\ \E q, e : e \notin {"policy.allowed", "tool.called", "run.completed"} /\ AppendEvent(q, e, 0)
    BY <1>3 DEF TraceReceived, TraceReleased, Finish, TypeInv, EngineTypeOK
  <2>2. \A u \in Workers \ {w} : pc'[u] = pc[u] /\ job'[u] = job[u]
    BY <1>3 DEF TraceReceived, TraceReleased, Finish, TypeInv, EngineTypeOK
  <2> QED BY <2>1, <2>2, QuietCounts
<1>4. CASE RegistryChanges \/ UNCHANGED vars
  <2>1. UNCHANGED <<trace, runs, pc, job>>
    BY <1>4 DEF RegistryChanges, engineVars, vars
  <2>2. WorkAccounted'
    BY <2>1 DEF CountInv, WorkAccounted, EventsOf, InFlight
  <2>3. EventsOfRuns'
    BY <2>1 DEF CountInv, EventsOfRuns
  <2>4. PolicyCounted'
    BY <2>1 DEF CountInv, PolicyCounted, AllowedRuns, AboutToFile, Occurrences
  <2>5. PolicyRecordedFirst'
    BY <2>1 DEF CountInv, PolicyRecordedFirst, Occurrences
  <2> QED BY <2>2, <2>3, <2>4, <2>5 DEF CountInv
<1>5. ASSUME NEW w \in Workers, StartCall(w) PROVE CountInv'
  BY <1>1, <1>5, WorkCounts DEF StartCall
<1>6. ASSUME NEW w \in Workers, Continue(w) PROVE CountInv'
  BY <1>2, <1>3, <1>6, PolicyCounts, FileCounts, TraceWorkCounts DEF Continue
<1> QED BY <1>4, <1>5, <1>6 DEF EngineNext

LEMMA InitCounts == EngineStart => CountInv
<1> SUFFICES ASSUME EngineStart PROVE CountInv
  OBVIOUS
<1>1. DOMAIN runs = {} /\ DOMAIN trace = {} /\ \A w \in Workers : pc[w] = "idle"
  BY DEF EngineStart, EngineInit, TraceInit
<1>2. PolicyCounted
  <2>1. \A q : AllowedRuns(q) = {} /\ AboutToFile(q) = {} /\ Occurrences(q, "policy.allowed") = {}
    BY <1>1 DEF AllowedRuns, AboutToFile, Occurrences
  <2> QED BY <2>1, FS_EmptySet DEF PolicyCounted
<1> QED BY <1>1, <1>2 DEF CountInv, WorkAccounted, EventsOfRuns, PolicyRecordedFirst

LEMMA CountsHold == EngineSpec => []CountInv
BY InitCounts, StepCounts, TypesHold, HoldsHold, PTL DEF EngineSpec

(* A run has made exactly the tool calls that are traced or about to be,   *)
(* and has completed exactly once if at all.                               *)
THEOREM WorkIsAccounted == EngineSpec => []WorkAccounted
<1>1. CountInv => WorkAccounted
  BY DEF CountInv
<1> QED BY <1>1, CountsHold, PTL

(* Before every tool call in the trace stand at least as many              *)
(* policy.allowed events of its request_id as runs that had worked.        *)
THEOREM PolicyComesFirst == EngineSpec => []PolicyRecordedFirst
<1>1. CountInv => PolicyRecordedFirst
  BY DEF CountInv
<1> QED BY <1>1, CountsHold, PTL

=============================================================================
