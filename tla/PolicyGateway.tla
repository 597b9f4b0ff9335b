---------------------------- MODULE PolicyGateway ----------------------------
(***************************************************************************)
(* src/policy/gateway.py: the four-state policy gateway, composed with the *)
(* asset registry and the consent token store whose locks it takes.        *)
(*                                                                         *)
(* evaluate() runs on many threads (service.py has a pool of 32).  Nothing *)
(* is locked across a call: the registry is read once, the rules are       *)
(* judged on that snapshot, every probe and every consumption of a token   *)
(* takes the token lock anew, and the sequence number is drawn under a     *)
(* lock of its own.  Each of these is one action here, and withdrawals,    *)
(* mints, clock ticks and other calls fall between them.                   *)
(***************************************************************************)
EXTENDS AssetStore, ConsentTokenStore

CONSTANTS
    Workers,        \* threads that call evaluate()
    Actions,        \* action names
    HighRisk,       \* HIGH_RISK_ACTIONS of rules.py
    Scopes,         \* auth scopes
    LongScopes,     \* those whose refusal is worded in over 1024 characters
    Requests,       \* PolicyRequests callers may make
    NoRequest,
    MaxCalls        \* bound: calls of evaluate()

ASSUME GatewayAssumption ==
    /\ HighRisk \subseteq Actions
    /\ LongScopes \subseteq Scopes
    /\ Metadata \subseteq [tenant : Tenants, signed : BOOLEAN, naive : BOOLEAN,
                           from : Int, until : Int, scopes : SUBSET Scopes,
                           actions : SUBSET Actions, consent : BOOLEAN]
    /\ Requests \subseteq [asset : Assets, tenant : Tenants, action : Actions,
                           scopes : SUBSET Scopes, injected : BOOLEAN,
                           tokens : Seq(Presentable)]
    /\ NoRequest \notin Requests
    /\ MaxCalls \in Nat

(* NoToken is no call either: a call is a record.                          *)
ASSUME NoTokenAssumption ==
    NoToken \notin [asset : Assets, late : BOOLEAN, clear : BOOLEAN, paid : Nonces \cup {NoToken}]

VARIABLES
    pc,             \* per worker: idle, fetch, probe, consume or emit
    req,            \* the request being evaluated
    at,             \* `current`: read once, at the start of evaluate()
    late,           \* history: the asset was already withdrawn at that point
    snap,           \* the AssetMetadata that store.get() returned
    pos,            \* index of the token the running loop looks at
    tamper,         \* the last TokenError of the probe loop
    draft,          \* the decision about to be constructed
    counter,        \* _counter
    decisions       \* every decision returned

callVars == <<pc, req, at, late, snap, pos, tamper, draft>>
gatewayVars == <<callVars, counter, decisions>>
vars == <<storeVars, tokenVars, gatewayVars>>

Grants == {"Allowed", "Human Review"}
States == Grants \cup {"Conditional", "Blocked"}

RuleOrder == <<"withdrawn", "mandate_signature", "tenant_isolation", "dates_not_comparable",
               "not_yet_valid", "expired", "prompt_injection",
               "privilege_escalation", "action_scope">>

TokenErrors == {"none", "token_invalid", "token_expired", "token_replay"}

Reasons == {RuleOrder[i] : i \in DOMAIN RuleOrder} \cup TokenErrors \cup
           {"unknown_asset", "awaiting_consent", "fail_closed", "high_risk_action", "within_scope"}

Draft == [state : States, reason : Reasons, nonce : Nonces \cup {NoToken}]
NoDraft == [state |-> "Blocked", reason |-> "none", nonce |-> NoToken]

Decision == [seq : Nat, req : Requests, at : Nat, late : BOOLEAN,
             state : States, reason : Reasons, nonce : Nonces \cup {NoToken}]

(* Local variables of a call that has not begun, or has ended.             *)
GatewayInit ==
    /\ pc = [w \in Workers |-> "idle"]
    /\ req = [w \in Workers |-> NoRequest]
    /\ at = [w \in Workers |-> 0]
    /\ late = [w \in Workers |-> FALSE]
    /\ snap = [w \in Workers |-> Absent]
    /\ pos = [w \in Workers |-> 1]
    /\ tamper = [w \in Workers |-> "none"]
    /\ draft = [w \in Workers |-> NoDraft]
    /\ counter = 0
    /\ decisions = {}

Init == StoreInit /\ TokenInit /\ GatewayInit

-----------------------------------------------------------------------------
(* The rules; RuleOrder is the order _evaluate_inner tries them in.        *)

(* Which rules request r breaks on metadata m at second t, `gone` being    *)
(* the withdrawn flag of the record read.  Comparing an aware `now` with   *)
(* naive dates raises, which evaluate() turns into a refusal.              *)
Broken(r, m, gone, t) ==
    [withdrawn            |-> gone,
     mandate_signature    |-> ~m.signed,
     tenant_isolation     |-> r.tenant # m.tenant,
     dates_not_comparable |-> m.naive,
     not_yet_valid        |-> t < m.from,
     expired              |-> t > m.until,
     prompt_injection     |-> r.injected,
     privilege_escalation |-> ~(r.scopes \subseteq m.scopes),
     action_scope         |-> m.actions # {} /\ r.action \notin m.actions]

Clear(r, m, gone, t) == \A i \in DOMAIN RuleOrder : ~Broken(r, m, gone, t)[RuleOrder[i]]

FirstBroken(i, r, m, gone, t) ==
    /\ Broken(r, m, gone, t)[RuleOrder[i]]
    /\ \A j \in 1..(i - 1) : ~Broken(r, m, gone, t)[RuleOrder[j]]

Refusal(reason) == [state |-> "Blocked", reason |-> reason, nonce |-> NoToken]

Hold == [state |-> "Conditional", reason |-> "awaiting_consent", nonce |-> NoToken]

(* The last two rules: high-risk actions go to review, others are allowed. *)
Grant(r, n) ==
    IF r.action \in HighRisk
    THEN [state |-> "Human Review", reason |-> "high_risk_action", nonce |-> n]
    ELSE [state |-> "Allowed", reason |-> "within_scope", nonce |-> n]

-----------------------------------------------------------------------------
(* evaluate(): one action per point where it touches shared state.         *)

Serving == {w \in Workers : pc[w] # "idle"}

Call(w, r) ==
    /\ pc[w] = "idle"
    /\ Cardinality(decisions) + Cardinality(Serving) < MaxCalls
    /\ pc' = [pc EXCEPT ![w] = "fetch"]
    /\ req' = [req EXCEPT ![w] = r]
    /\ at' = [at EXCEPT ![w] = clock]
    /\ late' = [late EXCEPT ![w] = r.asset \in withdrawn]
    /\ UNCHANGED <<snap, pos, tamper, draft, counter, decisions>>

Conclude(w, d) ==
    /\ pc' = [pc EXCEPT ![w] = "emit"]
    /\ draft' = [draft EXCEPT ![w] = d]
    /\ UNCHANGED <<req, at, late, counter, decisions>>

(* store.get(), and the rules that need nothing but what it returned.      *)
Fetch(w) == pc[w] = "fetch" /\ snap' = [snap EXCEPT ![w] = catalog[req[w].asset]]

FetchUnknown(w) ==
    /\ Fetch(w)
    /\ ~Registered(req[w].asset)
    /\ Conclude(w, Refusal("unknown_asset"))
    /\ UNCHANGED <<pos, tamper>>

RefuseByRule(w) ==
    /\ Fetch(w)
    /\ Registered(req[w].asset)
    /\ \E i \in DOMAIN RuleOrder :
         /\ FirstBroken(i, req[w], snap'[w], req[w].asset \in withdrawn, at[w])
         /\ Conclude(w, Refusal(RuleOrder[i]))
    /\ UNCHANGED <<pos, tamper>>

(* A gateway whose rule table lost its withdrawal check.                   *)
FetchClearIgnoringWithdrawal(w) ==
    /\ Fetch(w)
    /\ Registered(req[w].asset)
    /\ Clear(req[w], snap'[w], FALSE, at[w])

FetchClear(w) ==
    /\ Fetch(w)
    /\ Registered(req[w].asset)
    /\ Clear(req[w], snap'[w], req[w].asset \in withdrawn, at[w])

PassWithoutConsent(w) ==
    /\ FetchClear(w)
    /\ ~snap'[w].consent
    /\ Conclude(w, Grant(req[w], NoToken))
    /\ UNCHANGED <<pos, tamper>>

AwaitConsent(w) ==
    /\ FetchClear(w)
    /\ snap'[w].consent
    /\ req[w].tokens = <<>>
    /\ Conclude(w, Hold)
    /\ UNCHANGED <<pos, tamper>>

BeginProbe(w) ==
    /\ FetchClear(w)
    /\ snap'[w].consent
    /\ req[w].tokens # <<>>
    /\ pc' = [pc EXCEPT ![w] = "probe"]
    /\ pos' = [pos EXCEPT ![w] = 1]
    /\ tamper' = [tamper EXCEPT ![w] = "none"]
    /\ UNCHANGED <<req, at, late, draft, counter, decisions>>

(* The token the loop of worker w looks at, and what it is looked at for.  *)
Presented(w) == req[w].tokens[pos[w]]

HasToken(w) == pos[w] \in DOMAIN req[w].tokens

(* A loop that looks at the same token again.                              *)
SameToken(w) == UNCHANGED <<pc, req, at, late, snap, pos, draft, counter, decisions>>

NextToken(w) ==
    /\ pos' = [pos EXCEPT ![w] = @ + 1]
    /\ UNCHANGED <<pc, req, at, late, snap, draft, counter, decisions>>

(* The first loop: verify_without_consuming() until one token passes.      *)
ProbePasses(w) == ProbeAccepts(Presented(w), req[w].asset, snap[w].tenant, at[w])

ProbeAccept(w) ==
    /\ pc[w] = "probe"
    /\ HasToken(w)
    /\ ProbePasses(w)
    /\ pc' = [pc EXCEPT ![w] = "consume"]
    /\ pos' = [pos EXCEPT ![w] = 1]
    /\ UNCHANGED <<req, at, late, snap, tamper, draft, counter, decisions>>

ProbeReject(w) ==
    /\ pc[w] = "probe"
    /\ HasToken(w)
    /\ ~ProbePasses(w)
    /\ tamper' = [tamper EXCEPT ![w] =
                    ProbeError(Presented(w), req[w].asset, snap[w].tenant, at[w])]
    /\ NextToken(w)

ProbeExhausted(w) ==
    /\ pc[w] = "probe"
    /\ ~HasToken(w)
    /\ Conclude(w, Refusal(tamper[w]))
    /\ UNCHANGED <<snap, pos, tamper>>

(* The second loop: verify() until one token is consumed.                  *)
ConsumeAccept(w) ==
    /\ pc[w] = "consume"
    /\ HasToken(w)
    /\ VerifyAccepts(Presented(w), req[w].asset, snap[w].tenant, at[w])
    /\ Burn(Presented(w))
    /\ Conclude(w, Grant(req[w], Presented(w)))
    /\ UNCHANGED <<snap, pos, tamper>>

(* A TypeError is not a TokenError: it leaves the loop for evaluate().     *)
ConsumeCrash(w) ==
    /\ pc[w] = "consume"
    /\ HasToken(w)
    /\ VerifyCrashes(Presented(w), req[w].asset, snap[w].tenant)
    /\ Conclude(w, Refusal("fail_closed"))
    /\ UNCHANGED <<snap, pos, tamper>>

ConsumeReject(w) ==
    /\ pc[w] = "consume"
    /\ HasToken(w)
    /\ ~VerifyAccepts(Presented(w), req[w].asset, snap[w].tenant, at[w])
    /\ ~VerifyCrashes(Presented(w), req[w].asset, snap[w].tenant)
    /\ NextToken(w)
    /\ UNCHANGED tamper

ConsumeExhausted(w) ==
    /\ pc[w] = "consume"
    /\ ~HasToken(w)
    /\ Conclude(w, Refusal("token_replay"))
    /\ UNCHANGED <<snap, pos, tamper>>

(* Two calls that draw at once and without the lock may draw one number.   *)
NextSequenceUnlocked == counter' \in {counter, counter + 1}

(* _next_sequence(), under a lock of its own.                              *)
NextSequence == counter' = counter + 1

(* Constructing the decision draws its sequence number.  A refusal that    *)
(* names a scope too long for the reason field is rejected after the draw, *)
(* and evaluate() constructs a second refusal in its place.                *)
Escalated(w) == draft[w].reason = "privilege_escalation"

UngrantedScopes(w) == req[w].scopes \ snap[w].scopes

DiscardOverlong(w) ==
    /\ pc[w] = "emit"
    /\ Escalated(w)
    /\ UngrantedScopes(w) \cap LongScopes # {}
    /\ NextSequence
    /\ draft' = [draft EXCEPT ![w] = Refusal("fail_closed")]
    /\ UNCHANGED <<pc, req, at, late, snap, pos, tamper, decisions>>

Record(w, n) ==
    [seq |-> n, req |-> req[w], at |-> at[w], late |-> late[w],
     state |-> draft[w].state, reason |-> draft[w].reason, nonce |-> draft[w].nonce]

Emit(w) ==
    /\ pc[w] = "emit"
    /\ Escalated(w) => ~(UngrantedScopes(w) \subseteq LongScopes)
    /\ NextSequence
    /\ decisions' = decisions \cup {Record(w, counter)}
    /\ pc' = [pc EXCEPT ![w] = "idle"]
    /\ req' = [req EXCEPT ![w] = NoRequest]
    /\ at' = [at EXCEPT ![w] = 0]
    /\ late' = [late EXCEPT ![w] = FALSE]
    /\ snap' = [snap EXCEPT ![w] = Absent]
    /\ pos' = [pos EXCEPT ![w] = 1]
    /\ tamper' = [tamper EXCEPT ![w] = "none"]
    /\ draft' = [draft EXCEPT ![w] = NoDraft]

-----------------------------------------------------------------------------
(* The steps of a call that touch only what the gateway holds or reads.    *)
ReadStep(w) ==
    \/ FetchUnknown(w) \/ RefuseByRule(w)
    \/ PassWithoutConsent(w) \/ AwaitConsent(w) \/ BeginProbe(w)
    \/ ProbeAccept(w) \/ ProbeReject(w) \/ ProbeExhausted(w)
    \/ ConsumeCrash(w) \/ ConsumeReject(w) \/ ConsumeExhausted(w)
    \/ DiscardOverlong(w) \/ Emit(w)

Advance(w) ==
    \/ ReadStep(w) /\ UNCHANGED <<storeVars, tokenVars>>
    \/ ConsumeAccept(w) /\ UNCHANGED storeVars

(* What the rest of the process does meanwhile.  No listener is registered *)
(* anywhere in src/, and none could touch what the gateway reads.          *)
StoreStep ==
    /\ \/ \E a \in Assets, m \in Metadata, gone \in BOOLEAN : Register(a, m, gone)
       \/ \E v \in Revokers, a \in Assets : WithdrawMark(v, a)
    /\ UNCHANGED <<tokenVars, gatewayVars>>

TokenStep ==
    /\ \/ \E n \in Nonces, a \in Assets, t \in Tenants, iat \in IssueTimes, ttl \in Lifetimes :
            Mint(n, a, t, iat, ttl)
       \/ Tick
    /\ UNCHANGED <<storeVars, gatewayVars>>

Next ==
    \/ \E w \in Workers, r \in Requests : Call(w, r) /\ UNCHANGED <<storeVars, tokenVars>>
    \/ \E w \in Workers : Advance(w)
    \/ StoreStep
    \/ TokenStep

(* A thread inside evaluate() keeps running: nothing in it waits.          *)
Fairness == \A w \in Workers : WF_vars(Advance(w))

Spec == Init /\ [][Next]_vars /\ Fairness

-----------------------------------------------------------------------------
GatewayTypeOK ==
    /\ pc \in [Workers -> {"idle", "fetch", "probe", "consume", "emit"}]
    /\ req \in [Workers -> Requests \cup {NoRequest}]
    /\ \A w \in Workers : pc[w] # "idle" => req[w] \in Requests
    /\ at \in [Workers -> Nat]
    /\ late \in [Workers -> BOOLEAN]
    /\ snap \in [Workers -> Metadata \cup {Absent}]
    /\ \A w \in Workers : pc[w] \in {"probe", "consume"} => snap[w] \in Metadata
    /\ pos \in [Workers -> Nat \ {0}]
    /\ tamper \in [Workers -> TokenErrors]
    /\ draft \in [Workers -> Draft]
    /\ counter \in Nat
    /\ decisions \in SUBSET Decision

(* Every variable of the registry, the token store and the gateway keeps   *)
(* its type, and a call that reads its request or its snapshot has one.    *)
TypeOK == StoreTypeOK /\ TokenTypeOK /\ GatewayTypeOK

(* "The gateway blocks on the very next evaluation" (store.py:5): a call   *)
(* of evaluate() that began after its asset was marked withdrawn ends in   *)
(* Blocked and burns no nonce, however it interleaves with other calls.    *)
LateCallsBlocked ==
    /\ \A d \in decisions : d.late => d.state = "Blocked" /\ d.nonce = NoToken
    /\ \A w \in Workers :
         late[w] => /\ pc[w] \in {"fetch", "emit"}
                    /\ draft[w].state = "Blocked" /\ draft[w].nonce = NoToken

(* Single use, and "failed attempts cannot burn honest tokens" (tokens.py):*)
(* a nonce is burnt exactly when one grant, answered or about to be, has   *)
(* it, and no two grants share one, whatever calls raced for the token.    *)
OneGrantPerNonce ==
    /\ usedNonces = {n \in Nonces : \/ \E d \in decisions : d.nonce = n
                                    \/ \E w \in Workers : draft[w].nonce = n}
    /\ \A d \in decisions :
         d.nonce # NoToken =>
           /\ d.state \in Grants
           /\ \A e \in decisions : e.nonce = d.nonce => e = d
           /\ \A w \in Workers : draft[w].nonce # d.nonce
    /\ \A w \in Workers :
         draft[w].nonce # NoToken =>
           /\ draft[w].state \in Grants
           /\ \A x \in Workers : draft[x].nonce = draft[w].nonce => x = w

(* A decision's sequence number names it: the number is drawn under a lock *)
(* of its own, calls overtake one another, and a discarded decision leaves *)
(* a gap that no later decision fills.                                     *)
SequenceUnique ==
    /\ \A d \in decisions : d.seq < counter
    /\ \A d, e \in decisions : d.seq = e.seq => d = e

(* The record and the token a grant rests on, as they stand at any time    *)
(* after it, still justify it: rules, scope, validity and tenant, and, for *)
(* an asset that requires consent, a presented token minted for this asset *)
(* and tenant that had not expired when the call began.                    *)
Consented(r, t, n) ==
    /\ \E i \in DOMAIN r.tokens : r.tokens[i] = n
    /\ InScope(n, r.asset, r.tenant)
    /\ ~Expired(n, t)
    /\ claims[n].issuedAt <= t + ClockSkew

Authorised(r, t, d) ==
    /\ Registered(r.asset)
    /\ Clear(r, catalog[r.asset], FALSE, t)
    /\ d.state = "Human Review" <=> r.action \in HighRisk
    /\ IF catalog[r.asset].consent THEN Consented(r, t, d.nonce) ELSE d.nonce = NoToken

GrantsAuthorised ==
    \A d \in decisions : d.state \in Grants => Authorised(d.req, d.at, d)

(* The reason given is the reason there was: a call is refused as a replay *)
(* only if it presented a token for this asset that had been burnt, or one *)
(* that verify() finds postdated, which the gateway does not tell apart.   *)
ReplayExplained ==
    \A d \in decisions :
        d.reason = "token_replay" =>
          \E i \in DOMAIN d.req.tokens :
            LET n == d.req.tokens[i] IN
              /\ InScope(n, d.req.asset, d.req.tenant)
              /\ n \in usedNonces \/ claims[n].issuedAt > d.at + ClockSkew

(* "instantly revokes token validity" (README.md:36), read literally: no   *)
(* token is consumed for an asset that is already withdrawn.               *)
WithdrawalRevokesTokens ==
    [][\A n \in usedNonces' \ usedNonces : claims[n].asset \notin withdrawn]_vars

(* evaluate() always returns: each call of it ends in a decision, whatever *)
(* the other threads do between its steps.                                 *)
EveryCallAnswered == \A w \in Workers : pc[w] # "idle" ~> pc[w] = "idle"

(* The state of GatewayPromise that a state of the gateway stands for.     *)
OfferedAssets == {a \in Assets : Registered(a)}

PricedAssets == {a \in Assets : Registered(a) /\ catalog[a].consent}

(* The call has read a record that was not withdrawn.                      *)
FoundClear(w) == pc[w] # "fetch" /\ draft[w].reason \notin {"unknown_asset", "withdrawn"}

OpenCalls ==
    [w \in Workers |->
       IF pc[w] = "idle" THEN NoToken
       ELSE [asset |-> req[w].asset, late |-> late[w], clear |-> FoundClear(w),
             paid |-> draft[w].nonce]]

OutcomeOf(state) ==
    CASE state \in Grants -> "granted"
      [] state = "Conditional" -> "held"
      [] state = "Blocked" -> "refused"

AnswerOf(d) ==
    [id |-> d.seq, asset |-> d.req.asset, late |-> d.late,
     outcome |-> OutcomeOf(d.state), paid |-> d.nonce]

Promise == INSTANCE GatewayPromise WITH
    offered <- OfferedAssets, priced <- PricedAssets, gone <- withdrawn, spent <- usedNonces,
    open <- OpenCalls, answers <- {AnswerOf(d) : d \in decisions}

(* The detailed gateway implements GatewayPromise.                         *)
KeepsPromise == Promise!Spec

=============================================================================
