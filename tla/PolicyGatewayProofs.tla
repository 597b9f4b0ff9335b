------------------------- MODULE PolicyGatewayProofs -------------------------
(***************************************************************************)
(* Theorems about PolicyGateway, for any number of threads, assets,        *)
(* tokens, requests and calls.                                             *)
(***************************************************************************)
EXTENDS PolicyGateway, SequenceTheorems, TLAPS

-----------------------------------------------------------------------------
(* Types                                                                   *)

(* A call that reaches its verdict keeps the gateway's types, whatever it  *)
(* last read from the registry.                                            *)
LEMMA ConcludeType ==
    ASSUME GatewayTypeOK, NEW w \in Workers, pc[w] # "idle",
           NEW d \in Draft, Conclude(w, d),
           NEW m \in Metadata \cup {Absent}, snap' = [snap EXCEPT ![w] = m],
           UNCHANGED <<pos, tamper>>
    PROVE  GatewayTypeOK'
<1>1. pc' \in [Workers -> {"idle", "fetch", "probe", "consume", "emit"}]
  BY DEF GatewayTypeOK, Conclude
<1>2. draft' \in [Workers -> Draft]
  BY DEF GatewayTypeOK, Conclude
<1>3. \A x \in Workers : pc'[x] # "idle" => req'[x] \in Requests
  BY DEF GatewayTypeOK, Conclude
<1>4. snap' \in [Workers -> Metadata \cup {Absent}]
  BY DEF GatewayTypeOK
<1>5. \A x \in Workers : pc'[x] \in {"probe", "consume"} => snap'[x] \in Metadata
  BY DEF GatewayTypeOK, Conclude
<1> QED BY <1>1, <1>2, <1>3, <1>4, <1>5 DEF GatewayTypeOK, Conclude

(* The reasons and the drafts the actions conclude with.                   *)
LEMMA RuleNames == \A i \in DOMAIN RuleOrder : RuleOrder[i] \in Reasons
BY DEF Reasons

LEMMA OtherReasons ==
    /\ TokenErrors \subseteq Reasons
    /\ {"unknown_asset", "awaiting_consent", "fail_closed", "high_risk_action",
        "within_scope"} \subseteq Reasons
    /\ "none" \in TokenErrors /\ "token_replay" \in TokenErrors
BY DEF Reasons, TokenErrors

LEMMA RefusalType == ASSUME NEW reason \in Reasons PROVE Refusal(reason) \in Draft
BY DEF Refusal, Draft, States, Grants

LEMMA HoldType == Hold \in Draft
BY OtherReasons DEF Hold, Draft, States, Grants

LEMMA GrantType ==
    ASSUME NEW r \in Requests, NEW n \in Nonces \cup {NoToken}
    PROVE  Grant(r, n) \in Draft /\ Grant(r, n).state \in Grants /\ Grant(r, n).nonce = n
BY OtherReasons DEF Grant, Draft, States, Grants

LEMMA RequestAsset == \A r \in Requests : r.asset \in Assets
BY GatewayAssumption

(* Every step of a worker keeps the gateway's types.                       *)
LEMMA ReadStepType ==
    ASSUME TypeOK, NEW w \in Workers, ReadStep(w), UNCHANGED <<storeVars, tokenVars>>
    PROVE  GatewayTypeOK'
<1> USE DEF TypeOK
<1> DEFINE m == catalog[req[w].asset]
<1>1. pc[w] = "fetch" => m \in Metadata \cup {Absent}
  BY RequestAsset DEF GatewayTypeOK, StoreTypeOK
<1>2. CASE FetchUnknown(w)
  <2>1. Refusal("unknown_asset") \in Draft
    BY RefusalType, OtherReasons
  <2> QED BY <1>1, <1>2, <2>1, ConcludeType DEF FetchUnknown, Fetch
<1>3. CASE RefuseByRule(w)
  <2>1. PICK i \in DOMAIN RuleOrder : Conclude(w, Refusal(RuleOrder[i]))
    BY <1>3 DEF RefuseByRule
  <2> QED BY <1>1, <1>3, <2>1, ConcludeType, RefusalType, RuleNames
          DEF RefuseByRule, Fetch
<1>4. CASE PassWithoutConsent(w)
  <2>1. Grant(req[w], NoToken) \in Draft
    BY <1>4, GrantType DEF PassWithoutConsent, FetchClear, Fetch, GatewayTypeOK
  <2> QED BY <1>1, <1>4, <2>1, ConcludeType DEF PassWithoutConsent, FetchClear, Fetch
<1>5. CASE AwaitConsent(w)
  BY <1>1, <1>5, ConcludeType, HoldType DEF AwaitConsent, FetchClear, Fetch
<1>6. CASE BeginProbe(w)
  <2>1. m \in Metadata
    BY <1>1, <1>6 DEF BeginProbe, FetchClear, Fetch, Registered
  <2>2. snap' \in [Workers -> Metadata \cup {Absent}]
    BY <1>1, <1>6 DEF BeginProbe, FetchClear, Fetch, GatewayTypeOK
  <2>3. \A x \in Workers : pc'[x] \in {"probe", "consume"} => snap'[x] \in Metadata
    BY <1>6, <2>1 DEF BeginProbe, FetchClear, Fetch, GatewayTypeOK
  <2>4. \A x \in Workers : pc'[x] # "idle" => req'[x] \in Requests
    BY <1>6 DEF BeginProbe, FetchClear, Fetch, GatewayTypeOK
  <2>5. pc' \in [Workers -> {"idle", "fetch", "probe", "consume", "emit"}]
    BY <1>6 DEF BeginProbe, GatewayTypeOK
  <2>6. tamper' \in [Workers -> TokenErrors]
    BY <1>6, OtherReasons DEF BeginProbe, GatewayTypeOK
  <2>7. pos' \in [Workers -> Nat \ {0}]
    BY <1>6 DEF BeginProbe, GatewayTypeOK
  <2> QED BY <1>6, <2>2, <2>3, <2>4, <2>5, <2>6, <2>7 DEF BeginProbe, GatewayTypeOK
<1>7. CASE ProbeAccept(w)
  <2>1. \A x \in Workers : pc'[x] \in {"probe", "consume"} => snap'[x] \in Metadata
    BY <1>7 DEF ProbeAccept, GatewayTypeOK
  <2> QED BY <1>7, <2>1 DEF ProbeAccept, GatewayTypeOK
<1>8. CASE ProbeReject(w)
  <2>1. ProbeError(Presented(w), req[w].asset, snap[w].tenant, at[w]) \in TokenErrors
    BY DEF ProbeError, TokenErrors
  <2> QED BY <1>8, <2>1 DEF ProbeReject, NextToken, GatewayTypeOK
<1>9. CASE ProbeExhausted(w)
  <2>1. Refusal(tamper[w]) \in Draft
    BY RefusalType, OtherReasons DEF GatewayTypeOK
  <2> QED BY <1>9, <2>1, ConcludeType DEF ProbeExhausted, GatewayTypeOK
<1>10. CASE ConsumeCrash(w) \/ ConsumeExhausted(w)
  <2>1. PICK reason \in {"fail_closed", "token_replay"} : Conclude(w, Refusal(reason))
    BY <1>10 DEF ConsumeCrash, ConsumeExhausted
  <2>2. Refusal(reason) \in Draft
    BY RefusalType, OtherReasons
  <2>3. snap' = [snap EXCEPT ![w] = snap[w]] /\ UNCHANGED <<pos, tamper>> /\ pc[w] # "idle"
    BY <1>10 DEF ConsumeCrash, ConsumeExhausted, GatewayTypeOK
  <2>4. snap[w] \in Metadata \cup {Absent}
    BY DEF GatewayTypeOK
  <2> QED BY <2>1, <2>2, <2>3, <2>4, ConcludeType
<1>11. CASE ConsumeReject(w)
  BY <1>11 DEF ConsumeReject, NextToken, GatewayTypeOK
<1>12. CASE DiscardOverlong(w)
  <2>1. Refusal("fail_closed") \in Draft
    BY RefusalType, OtherReasons
  <2> QED BY <1>12, <2>1 DEF DiscardOverlong, NextSequence, GatewayTypeOK
<1>13. CASE Emit(w)
  <2>1. Record(w, counter) \in Decision
    BY <1>13 DEF Emit, NextSequence, Record, Decision, GatewayTypeOK, Draft
  <2>2. NoDraft \in Draft
    BY OtherReasons DEF TokenErrors, NoDraft, Draft, States, Grants
  <2>3. \A x \in Workers : pc'[x] # "idle" => req'[x] \in Requests
    BY <1>13 DEF Emit, NextSequence, GatewayTypeOK
  <2>4. \A x \in Workers : pc'[x] \in {"probe", "consume"} => snap'[x] \in Metadata
    BY <1>13 DEF Emit, NextSequence, GatewayTypeOK
  <2>5. pc' \in [Workers -> {"idle", "fetch", "probe", "consume", "emit"}]
    BY <1>13 DEF Emit, NextSequence, GatewayTypeOK
  <2>6. /\ req' \in [Workers -> Requests \cup {NoRequest}] /\ at' \in [Workers -> Nat]
        /\ late' \in [Workers -> BOOLEAN] /\ snap' \in [Workers -> Metadata \cup {Absent}]
        /\ draft' \in [Workers -> Draft] /\ counter' \in Nat
    BY <1>13, <2>2 DEF Emit, NextSequence, GatewayTypeOK
  <2>7. pos' \in [Workers -> Nat \ {0}]
    BY <1>13 DEF Emit, NextSequence, GatewayTypeOK
  <2>8. tamper' \in [Workers -> TokenErrors]
    BY <1>13, OtherReasons DEF Emit, NextSequence, GatewayTypeOK
  <2> QED BY <1>13, <2>1, <2>3, <2>4, <2>5, <2>6, <2>7, <2>8 DEF Emit, NextSequence, GatewayTypeOK
<1> QED BY <1>2, <1>3, <1>4, <1>5, <1>6, <1>7, <1>8, <1>9, <1>10, <1>11, <1>12, <1>13
        DEF ReadStep

(* A consumption burns a nonce of a token that was minted.                 *)
LEMMA ConsumeAcceptType ==
    ASSUME TypeOK, NEW w \in Workers, ConsumeAccept(w), UNCHANGED storeVars
    PROVE  TypeOK'
<1> DEFINE n == Presented(w)
<1>1. n \in Nonces
  BY DEF ConsumeAccept, VerifyAccepts, InScope
<1>2. TokenTypeOK'
  BY <1>1 DEF ConsumeAccept, Burn, TypeOK, TokenTypeOK
<1>3. Grant(req[w], n) \in Draft
  BY <1>1, GrantType DEF ConsumeAccept, TypeOK, GatewayTypeOK
<1>4. snap[w] \in Metadata \cup {Absent} /\ snap' = [snap EXCEPT ![w] = snap[w]]
  BY DEF ConsumeAccept, TypeOK, GatewayTypeOK
<1>5. GatewayTypeOK'
  BY <1>3, <1>4, ConcludeType DEF ConsumeAccept, TypeOK
<1> QED BY <1>2, <1>5 DEF TypeOK, StoreTypeOK, storeVars

LEMMA CallType ==
    ASSUME TypeOK, NEW w \in Workers, NEW r \in Requests, Call(w, r)
    PROVE  GatewayTypeOK'
<1>1. clock \in Nat /\ (r.asset \in withdrawn) \in BOOLEAN
  BY DEF TypeOK, TokenTypeOK
<1>2. pc' \in [Workers -> {"idle", "fetch", "probe", "consume", "emit"}]
  BY DEF Call, TypeOK, GatewayTypeOK
<1>3. req' \in [Workers -> Requests \cup {NoRequest}]
  BY DEF Call, TypeOK, GatewayTypeOK
<1>4. \A x \in Workers : pc'[x] # "idle" => req'[x] \in Requests
  BY DEF Call, TypeOK, GatewayTypeOK
<1>5. at' \in [Workers -> Nat] /\ late' \in [Workers -> BOOLEAN]
  BY <1>1 DEF Call, TypeOK, GatewayTypeOK
<1>6. \A x \in Workers : pc'[x] \in {"probe", "consume"} => snap'[x] \in Metadata
  BY DEF Call, TypeOK, GatewayTypeOK
<1> QED BY <1>2, <1>3, <1>4, <1>5, <1>6 DEF Call, TypeOK, GatewayTypeOK

LEMMA StoreStepType ==
    ASSUME TypeOK, StoreStep
    PROVE  TypeOK'
<1> USE DEF TypeOK, StoreTypeOK
<1>1. TokenTypeOK' /\ GatewayTypeOK'
  BY DEF StoreStep, tokenVars, gatewayVars, callVars, TokenTypeOK, GatewayTypeOK
<1>2. ASSUME NEW a \in Assets, NEW m \in Metadata, NEW gone \in BOOLEAN, Register(a, m, gone)
      PROVE  StoreTypeOK'
  BY <1>2 DEF Register
<1>3. ASSUME NEW v \in Revokers, NEW a \in Assets, WithdrawMark(v, a)
      PROVE  StoreTypeOK'
  <2> DEFINE calls == [i \in DOMAIN listeners |->
                         [listener |-> listeners[i], asset |-> a, ns |-> mono + 1]]
  <2>1. calls \in Seq(Notification)
    <3>1. \A i \in 1..Len(listeners) : listeners[i] \in Listeners
      OBVIOUS
    <3>2. DOMAIN listeners = 1..Len(listeners) /\ Len(listeners) \in Nat /\ mono + 1 \in Nat
      OBVIOUS
    <3>3. calls \in [1..Len(listeners) -> Notification]
      BY <3>1, <3>2 DEF Notification
    <3> HIDE DEF calls
    <3> QED BY <3>2, <3>3, SeqDef
  <2> HIDE DEF calls
  <2>2. pending' \in [Revokers -> Seq(Notification)]
    <3>1. pending' = [pending EXCEPT ![v] = calls]
      BY <1>3 DEF WithdrawMark, calls
    <3> QED BY <2>1, <3>1
  <2>3. withdrawn' \in SUBSET Assets /\ mono' \in Nat /\ revokedAt' \in [Assets -> Nat]
    BY <1>3 DEF WithdrawMark
  <2> QED BY <1>3, <2>2, <2>3 DEF WithdrawMark
<1> QED BY <1>1, <1>2, <1>3 DEF StoreStep

LEMMA TokenStepType ==
    ASSUME TypeOK, TokenStep
    PROVE  TypeOK'
<1> USE DEF TypeOK, TokenTypeOK
<1>1. StoreTypeOK' /\ GatewayTypeOK'
  BY DEF TokenStep, storeVars, gatewayVars, callVars, StoreTypeOK, GatewayTypeOK
<1>2. ASSUME NEW n \in Nonces, NEW a \in Assets, NEW t \in Tenants, NEW iat \in IssueTimes,
             NEW ttl \in Lifetimes, Mint(n, a, t, iat, ttl)
      PROVE  TokenTypeOK'
  <2>1. iat \in Nat /\ iat + ttl \in Int
    BY TokenAssumption
  <2> QED BY <1>2, <2>1 DEF Mint, ConsentClaim
<1>3. ASSUME Tick PROVE TokenTypeOK'
  BY <1>3 DEF Tick
<1> QED BY <1>1, <1>2, <1>3 DEF TokenStep

LEMMA InitType == Init => TypeOK
<1> SUFFICES ASSUME Init PROVE TypeOK
  OBVIOUS
<1>1. StoreTypeOK
  BY DEF Init, StoreInit, StoreTypeOK
<1>2. TokenTypeOK
  BY DEF Init, TokenInit, TokenTypeOK, NoClaim
<1>3. NoDraft \in Draft
  BY OtherReasons DEF TokenErrors, NoDraft, Draft, States, Grants
<1>4. GatewayTypeOK
  BY <1>3, OtherReasons DEF Init, GatewayInit, GatewayTypeOK
<1> QED BY <1>1, <1>2, <1>4 DEF TypeOK

LEMMA NextType == TypeOK /\ [Next]_vars => TypeOK'
<1> SUFFICES ASSUME TypeOK, [Next]_vars PROVE TypeOK'
  OBVIOUS
<1>1. ASSUME NEW w \in Workers, NEW r \in Requests, Call(w, r),
             UNCHANGED <<storeVars, tokenVars>>
      PROVE  TypeOK'
  BY <1>1, CallType DEF TypeOK, StoreTypeOK, TokenTypeOK, storeVars, tokenVars
<1>2. ASSUME NEW w \in Workers, Advance(w) PROVE TypeOK'
  <2>1. CASE ReadStep(w) /\ UNCHANGED <<storeVars, tokenVars>>
    BY <2>1, ReadStepType DEF TypeOK, StoreTypeOK, TokenTypeOK, storeVars, tokenVars
  <2>2. CASE ConsumeAccept(w) /\ UNCHANGED storeVars
    BY <2>2, ConsumeAcceptType
  <2> QED BY <1>2, <2>1, <2>2 DEF Advance
<1>3. CASE StoreStep
  BY <1>3, StoreStepType
<1>4. CASE TokenStep
  BY <1>4, TokenStepType
<1>5. CASE UNCHANGED vars
  BY <1>5 DEF vars, storeVars, tokenVars, gatewayVars, callVars,
              TypeOK, StoreTypeOK, TokenTypeOK, GatewayTypeOK
<1> QED BY <1>1, <1>2, <1>3, <1>4, <1>5 DEF Next

(* Every variable keeps its type, whatever calls interleave.               *)
THEOREM TypeCorrect == Spec => []TypeOK
BY InitType, NextType, PTL DEF Spec

-----------------------------------------------------------------------------
(* Sequence numbers                                                        *)

(* The counter is ahead of every number given out.                         *)
THEOREM NumbersUnique == Spec => []SequenceUnique
<1>1. Init => SequenceUnique
  BY DEF Init, GatewayInit, SequenceUnique
<1>2. TypeOK /\ SequenceUnique /\ [Next]_vars => SequenceUnique'
  <2> SUFFICES ASSUME TypeOK, SequenceUnique, [Next]_vars PROVE SequenceUnique'
    OBVIOUS
  <2>1. counter \in Nat /\ \A d \in decisions : d.seq \in Nat
    BY DEF TypeOK, GatewayTypeOK, Decision
  <2>2. ASSUME NEW w \in Workers, Emit(w) PROVE SequenceUnique'
    <3>1. Record(w, counter).seq = counter
      BY DEF Record
    <3> QED BY <2>1, <2>2, <3>1 DEF Emit, NextSequence, SequenceUnique
  <2>3. ASSUME NEW w \in Workers, DiscardOverlong(w) PROVE SequenceUnique'
    BY <2>1, <2>3 DEF DiscardOverlong, NextSequence, SequenceUnique
  <2>4. CASE UNCHANGED <<counter, decisions>>
    BY <2>4 DEF SequenceUnique
  <2>5. CASE UNCHANGED vars
    BY <2>4, <2>5 DEF vars, gatewayVars
  <2>6. ASSUME NEW w \in Workers, Advance(w) PROVE SequenceUnique'
    BY <2>2, <2>3, <2>4, <2>6 DEF Advance, ReadStep, FetchUnknown, RefuseByRule,
       PassWithoutConsent, AwaitConsent, BeginProbe, ProbeAccept, ProbeReject,
       ProbeExhausted, ConsumeAccept, ConsumeCrash, ConsumeReject, ConsumeExhausted,
       Conclude, NextToken
  <2>7. ASSUME NEW w \in Workers, NEW r \in Requests, Call(w, r) PROVE SequenceUnique'
    BY <2>4, <2>7 DEF Call
  <2>8. CASE StoreStep \/ TokenStep
    BY <2>4, <2>8 DEF StoreStep, TokenStep, gatewayVars
  <2> QED BY <2>5, <2>6, <2>7, <2>8 DEF Next
<1> QED BY <1>1, <1>2, TypeCorrect, PTL DEF Spec

-----------------------------------------------------------------------------
(* Drafts                                                                  *)

(* Only a call about to answer has a draft: Emit takes it away.            *)
DraftsOnlyAtEmit == \A w \in Workers : pc[w] # "emit" => draft[w] = NoDraft

LEMMA NextDrafts == TypeOK /\ DraftsOnlyAtEmit /\ [Next]_vars => DraftsOnlyAtEmit'
<1> SUFFICES ASSUME TypeOK, DraftsOnlyAtEmit, [Next]_vars PROVE DraftsOnlyAtEmit'
  OBVIOUS
<1> USE DEF DraftsOnlyAtEmit, TypeOK, GatewayTypeOK
<1>1. ASSUME NEW w \in Workers, NEW d, Conclude(w, d) PROVE DraftsOnlyAtEmit'
  BY <1>1 DEF Conclude
<1>2. CASE UNCHANGED <<pc, draft>>
  BY <1>2
<1>3. ASSUME NEW w \in Workers, Advance(w) PROVE DraftsOnlyAtEmit'
  <2>1. CASE \E d : Conclude(w, d)
    BY <1>1, <2>1
  <2>2. CASE BeginProbe(w) \/ ProbeAccept(w)
    BY <2>2 DEF BeginProbe, FetchClear, Fetch, ProbeAccept
  <2>3. CASE DiscardOverlong(w) \/ Emit(w)
    BY <2>3 DEF DiscardOverlong, Emit
  <2>4. CASE ProbeReject(w) \/ ConsumeReject(w)
    BY <1>2, <2>4 DEF ProbeReject, ConsumeReject, NextToken
  <2> QED BY <1>3, <2>1, <2>2, <2>3, <2>4 DEF Advance, ReadStep, FetchUnknown, RefuseByRule,
     PassWithoutConsent, AwaitConsent, ProbeExhausted, ConsumeAccept, ConsumeCrash,
     ConsumeExhausted
<1>4. ASSUME NEW w \in Workers, NEW r \in Requests, Call(w, r) PROVE DraftsOnlyAtEmit'
  BY <1>4 DEF Call
<1>5. CASE StoreStep \/ TokenStep \/ UNCHANGED vars
  BY <1>2, <1>5 DEF StoreStep, TokenStep, vars, gatewayVars, callVars
<1> QED BY <1>3, <1>4, <1>5 DEF Next

LEMMA DraftsFresh == Spec => []DraftsOnlyAtEmit
<1>1. Init => DraftsOnlyAtEmit
  BY DEF Init, GatewayInit, DraftsOnlyAtEmit
<1> QED BY <1>1, NextDrafts, TypeCorrect, PTL DEF Spec

-----------------------------------------------------------------------------
(* Withdrawal                                                              *)

(* A withdrawn record is never turned back and no record is replaced: a    *)
(* registration needs an id the registry does not hold.                    *)
THEOREM WithdrawalNeverUndone == Spec => WithdrawalMonotonic
<1>1. TypeOK /\ [Next]_vars =>
        [ /\ withdrawn \subseteq withdrawn'
          /\ \A a \in Assets : Registered(a) => catalog'[a] = catalog[a] ]_storeVars
  <2> SUFFICES ASSUME TypeOK, [Next]_vars
               PROVE  \/ UNCHANGED storeVars
                      \/ /\ withdrawn \subseteq withdrawn'
                         /\ \A a \in Assets : Registered(a) => catalog'[a] = catalog[a]
    OBVIOUS
  <2>1. CASE StoreStep
    <3>1. ASSUME NEW a \in Assets, NEW m \in Metadata, NEW gone \in BOOLEAN,
                 Register(a, m, gone)
          PROVE  /\ withdrawn \subseteq withdrawn'
                 /\ \A b \in Assets : Registered(b) => catalog'[b] = catalog[b]
      BY <3>1 DEF Register, Registered, TypeOK, StoreTypeOK
    <3>2. ASSUME NEW v \in Revokers, NEW a \in Assets, WithdrawMark(v, a)
          PROVE  withdrawn \subseteq withdrawn' /\ catalog' = catalog
      BY <3>2 DEF WithdrawMark
    <3> QED BY <2>1, <3>1, <3>2 DEF StoreStep
  <2>2. CASE ~StoreStep
    BY <2>2 DEF Next, Advance, TokenStep, vars
  <2> QED BY <2>1, <2>2
<1> QED BY <1>1, TypeCorrect, PTL DEF Spec, WithdrawalMonotonic

(* What LateCallsBlocked needs to be inductive: the asset of a late call   *)
(* stays withdrawn, so the rules judge a withdrawn record.                 *)
LateCallsKnown == \A w \in Workers : late[w] => req[w].asset \in withdrawn

LateInv == LateCallsBlocked /\ LateCallsKnown

(* The first rule refuses a withdrawn record.                              *)
LEMMA WithdrawnIsNotClear ==
    ASSUME NEW r, NEW m, NEW t, Clear(r, m, TRUE, t) PROVE FALSE
<1>1. 1 \in DOMAIN RuleOrder /\ RuleOrder[1] = "withdrawn"
  BY DEF RuleOrder
<1>2. Broken(r, m, TRUE, t)["withdrawn"] = TRUE
  BY DEF Broken
<1> QED BY <1>1, <1>2 DEF Clear

LEMMA FetchClearNotLate ==
    ASSUME LateInv, NEW w \in Workers, FetchClear(w) PROVE ~late[w]
BY WithdrawnIsNotClear DEF FetchClear, LateInv, LateCallsKnown

(* A step that concludes a call with a refusal, or concludes one that is   *)
(* not late.                                                               *)
LEMMA ConcludeLate ==
    ASSUME TypeOK, LateInv, NEW w \in Workers, NEW d, Conclude(w, d),
           withdrawn' = withdrawn,
           late[w] => d.state = "Blocked" /\ d.nonce = NoToken
    PROVE  LateInv'
BY DEF Conclude, LateInv, LateCallsBlocked, LateCallsKnown, TypeOK, GatewayTypeOK

LEMMA ReadStepLate ==
    ASSUME TypeOK, LateInv, NEW w \in Workers, ReadStep(w), UNCHANGED <<storeVars, tokenVars>>
    PROVE  LateInv'
<1>0. withdrawn' = withdrawn
  BY DEF storeVars
<1>1. ASSUME NEW reason, Conclude(w, Refusal(reason)) PROVE LateInv'
  BY <1>0, <1>1, ConcludeLate DEF Refusal
<1>2. CASE FetchUnknown(w) \/ RefuseByRule(w) \/ ProbeExhausted(w) \/ ConsumeCrash(w)
           \/ ConsumeExhausted(w)
  BY <1>1, <1>2 DEF FetchUnknown, RefuseByRule, ProbeExhausted, ConsumeCrash, ConsumeExhausted
<1>3. CASE PassWithoutConsent(w) \/ AwaitConsent(w)
  <2>1. ~late[w] /\ \E d : Conclude(w, d)
    BY <1>3, FetchClearNotLate DEF PassWithoutConsent, AwaitConsent
  <2> QED BY <1>0, <2>1, ConcludeLate
<1>4. CASE BeginProbe(w)
  <2>1. ~late[w]
    BY <1>4, FetchClearNotLate DEF BeginProbe
  <2> QED BY <1>0, <1>4, <2>1 DEF BeginProbe, LateInv, LateCallsBlocked, LateCallsKnown,
                                 TypeOK, GatewayTypeOK
<1>5. CASE ProbeAccept(w) \/ ProbeReject(w) \/ ConsumeReject(w)
  BY <1>0, <1>5 DEF ProbeAccept, ProbeReject, ConsumeReject, NextToken, LateInv,
     LateCallsBlocked, LateCallsKnown, TypeOK, GatewayTypeOK
<1>6. CASE DiscardOverlong(w)
  BY <1>0, <1>6 DEF DiscardOverlong, Refusal, LateInv, LateCallsBlocked, LateCallsKnown,
                    TypeOK, GatewayTypeOK
<1>7. CASE Emit(w)
  <2>1. LateCallsKnown'
    BY <1>0, <1>7 DEF Emit, LateInv, LateCallsKnown, TypeOK, GatewayTypeOK
  <2>2. \A d \in decisions' : d.late => d.state = "Blocked" /\ d.nonce = NoToken
    BY <1>7 DEF Emit, Record, LateInv, LateCallsBlocked
  <2>3. \A x \in Workers : late'[x] => /\ pc'[x] \in {"fetch", "emit"}
                                       /\ draft'[x].state = "Blocked" /\ draft'[x].nonce = NoToken
    BY <1>7 DEF Emit, LateInv, LateCallsBlocked, TypeOK, GatewayTypeOK
  <2> QED BY <2>1, <2>2, <2>3 DEF LateInv, LateCallsBlocked
<1> QED BY <1>2, <1>3, <1>4, <1>5, <1>6, <1>7 DEF ReadStep

LEMMA LateInvariant == Spec => []LateInv
<1>1. Init => LateInv
  BY DEF Init, GatewayInit, LateInv, LateCallsBlocked, LateCallsKnown
<1>2. TypeOK /\ DraftsOnlyAtEmit /\ LateInv /\ [Next]_vars => LateInv'
  <2> SUFFICES ASSUME TypeOK, DraftsOnlyAtEmit, LateInv, [Next]_vars PROVE LateInv'
    OBVIOUS
  <2>1. ASSUME NEW w \in Workers, NEW r \in Requests, Call(w, r), UNCHANGED storeVars
        PROVE  LateInv'
    BY <2>1 DEF Call, storeVars, DraftsOnlyAtEmit, NoDraft, LateInv, LateCallsBlocked,
                LateCallsKnown, TypeOK, GatewayTypeOK
  <2>2. ASSUME NEW w \in Workers, Advance(w) PROVE LateInv'
    <3>1. CASE ReadStep(w) /\ UNCHANGED <<storeVars, tokenVars>>
      BY <3>1, ReadStepLate
    <3>2. CASE ConsumeAccept(w) /\ UNCHANGED storeVars
      <4>1. ~late[w] /\ withdrawn' = withdrawn
        BY <3>2 DEF ConsumeAccept, storeVars, LateInv, LateCallsBlocked
      <4> QED BY <3>2, <4>1, ConcludeLate DEF ConsumeAccept
    <3> QED BY <2>2, <3>1, <3>2 DEF Advance
  <2>3. CASE StoreStep
    <3>1. withdrawn \subseteq withdrawn'
      BY <2>3 DEF StoreStep, Register, WithdrawMark
    <3> QED BY <2>3, <3>1 DEF StoreStep, gatewayVars, callVars, LateInv, LateCallsBlocked,
                              LateCallsKnown
  <2>4. CASE TokenStep \/ UNCHANGED vars
    BY <2>4 DEF TokenStep, vars, storeVars, gatewayVars, callVars, LateInv, LateCallsBlocked,
                LateCallsKnown
  <2> QED BY <2>1, <2>2, <2>3, <2>4 DEF Next
<1> QED BY <1>1, <1>2, TypeCorrect, DraftsFresh, PTL DEF Spec

(* A call of evaluate() that begins after its asset was withdrawn ends in  *)
(* Blocked and burns nothing.                                              *)
THEOREM WithdrawnBlocks == Spec => []LateCallsBlocked
<1>1. LateInv => LateCallsBlocked
  BY DEF LateInv
<1> QED BY <1>1, LateInvariant, PTL

-----------------------------------------------------------------------------
(* Nonces                                                                  *)

(* What OneGrantPerNonce needs to be inductive: the drafts that may be     *)
(* discarded hold no nonce.                                                *)
EscalationsUnpaid == \A w \in Workers : Escalated(w) => draft[w].nonce = NoToken

NonceInv == OneGrantPerNonce /\ EscalationsUnpaid

(* Replacing a draft without a nonce by another moves no nonce.            *)
LEMMA UnpaidDraft ==
    ASSUME TypeOK, NonceInv, NEW w \in Workers, draft[w].nonce = NoToken,
           NEW d, d.nonce = NoToken, draft' = [draft EXCEPT ![w] = d],
           UNCHANGED <<decisions, usedNonces>>
    PROVE  NonceInv'
<1>1. \A x \in Workers : draft'[x].nonce = draft[x].nonce
  BY DEF TypeOK, GatewayTypeOK
<1>2. \A x \in Workers : draft'[x] = IF x = w THEN d ELSE draft[x]
  BY DEF TypeOK, GatewayTypeOK
<1>3. EscalationsUnpaid'
  BY <1>2 DEF NonceInv, EscalationsUnpaid, Escalated
<1>4. usedNonces' = {n \in Nonces : \/ \E e \in decisions' : e.nonce = n
                                    \/ \E x \in Workers : draft'[x].nonce = n}
  BY <1>1 DEF NonceInv, OneGrantPerNonce
<1>5. \A x \in Workers : draft'[x].nonce # NoToken => draft'[x].state \in Grants
  BY <1>2 DEF NonceInv, OneGrantPerNonce
<1> QED BY <1>1, <1>3, <1>4, <1>5 DEF NonceInv, OneGrantPerNonce

LEMMA ReadStepNonce ==
    ASSUME TypeOK, DraftsOnlyAtEmit, NonceInv, NEW w \in Workers, ReadStep(w),
           UNCHANGED <<storeVars, tokenVars>>
    PROVE  NonceInv'
<1>1. usedNonces' = usedNonces
  BY DEF tokenVars
<1>2. ASSUME NEW d, Conclude(w, d), pc[w] # "emit", d.nonce = NoToken PROVE NonceInv'
  <2>1. draft[w].nonce = NoToken
    BY <1>2 DEF DraftsOnlyAtEmit, NoDraft
  <2> QED BY <1>1, <1>2, <2>1, UnpaidDraft DEF Conclude
<1>3. CASE FetchUnknown(w) \/ RefuseByRule(w) \/ ProbeExhausted(w) \/ ConsumeCrash(w)
           \/ ConsumeExhausted(w) \/ AwaitConsent(w)
  BY <1>2, <1>3 DEF FetchUnknown, RefuseByRule, ProbeExhausted, ConsumeCrash, ConsumeExhausted,
     AwaitConsent, FetchClear, Fetch, Refusal, Hold
<1>4. CASE PassWithoutConsent(w)
  <2>1. Grant(req[w], NoToken).nonce = NoToken
    BY DEF Grant
  <2> QED BY <1>2, <1>4, <2>1 DEF PassWithoutConsent, FetchClear, Fetch
<1>5. CASE BeginProbe(w) \/ ProbeAccept(w) \/ ProbeReject(w) \/ ConsumeReject(w)
  <2>1. UNCHANGED <<draft, decisions>>
    BY <1>5 DEF BeginProbe, ProbeAccept, ProbeReject, ConsumeReject, NextToken
  <2> QED BY <1>1, <2>1 DEF NonceInv, OneGrantPerNonce, EscalationsUnpaid, Escalated
<1>6. CASE DiscardOverlong(w)
  <2>1. draft[w].nonce = NoToken /\ Refusal("fail_closed").nonce = NoToken
    BY <1>6 DEF DiscardOverlong, NonceInv, EscalationsUnpaid, Refusal
  <2> QED BY <1>1, <1>6, <2>1, UnpaidDraft DEF DiscardOverlong
<1>7. CASE Emit(w)
  <2> DEFINE r == Record(w, counter)
  <2>1. r.nonce = draft[w].nonce /\ r.state = draft[w].state
    BY DEF Record
  <2>2. decisions' = decisions \cup {r}
    BY <1>7 DEF Emit
  <2>3. \A x \in Workers : draft'[x] = IF x = w THEN NoDraft ELSE draft[x]
    BY <1>7 DEF Emit, TypeOK, GatewayTypeOK
  <2>4. NoDraft.nonce = NoToken /\ NoToken \notin Nonces
    BY TokenAssumption DEF NoDraft
  <2> HIDE DEF r
  <2>5. EscalationsUnpaid'
    BY <2>3, <2>4 DEF NonceInv, EscalationsUnpaid, Escalated
  <2>6. usedNonces' = {n \in Nonces : \/ \E d \in decisions' : d.nonce = n
                                      \/ \E x \in Workers : draft'[x].nonce = n}
    BY <1>1, <2>1, <2>2, <2>3, <2>4 DEF NonceInv, OneGrantPerNonce
  <2>7. \A d \in decisions' :
          d.nonce # NoToken =>
            /\ d.state \in Grants
            /\ \A e \in decisions' : e.nonce = d.nonce => e = d
            /\ \A x \in Workers : draft'[x].nonce # d.nonce
    BY <2>1, <2>2, <2>3, <2>4 DEF NonceInv, OneGrantPerNonce
  <2>8. \A x \in Workers :
          draft'[x].nonce # NoToken =>
            /\ draft'[x].state \in Grants
            /\ \A y \in Workers : draft'[y].nonce = draft'[x].nonce => y = x
    BY <2>3, <2>4 DEF NonceInv, OneGrantPerNonce
  <2> QED BY <2>5, <2>6, <2>7, <2>8 DEF NonceInv, OneGrantPerNonce
<1> QED BY <1>3, <1>4, <1>5, <1>6, <1>7 DEF ReadStep

(* verify() looks the nonce up and burns it in one step, so it was no      *)
(* grant's before and is this one's after.                                 *)
LEMMA ConsumeNonce ==
    ASSUME TypeOK, DraftsOnlyAtEmit, NonceInv, NEW w \in Workers, ConsumeAccept(w)
    PROVE  NonceInv'
<1> DEFINE n == Presented(w)
           d == Grant(req[w], n)
<1>1. n \in Nonces /\ n \notin usedNonces /\ n # NoToken
  BY TokenAssumption DEF ConsumeAccept, VerifyAccepts, InScope
<1>2. d.nonce = n /\ d.state \in Grants /\ d.reason # "privilege_escalation"
  BY DEF Grant, Grants
<1>3. usedNonces' = usedNonces \cup {n} /\ decisions' = decisions
  BY DEF ConsumeAccept, Burn, Conclude
<1>4. \A x \in Workers : draft'[x] = IF x = w THEN d ELSE draft[x]
  BY DEF ConsumeAccept, Conclude, TypeOK, GatewayTypeOK
<1>5. draft[w].nonce = NoToken
  BY DEF ConsumeAccept, DraftsOnlyAtEmit, NoDraft
<1>6. /\ \A e \in decisions : e.nonce # n
      /\ \A x \in Workers : draft[x].nonce # n
  BY <1>1 DEF NonceInv, OneGrantPerNonce
<1> HIDE DEF n, d
<1>7. EscalationsUnpaid'
  BY <1>2, <1>4 DEF NonceInv, EscalationsUnpaid, Escalated
<1>8. usedNonces' = {k \in Nonces : \/ \E e \in decisions' : e.nonce = k
                                    \/ \E x \in Workers : draft'[x].nonce = k}
  BY <1>1, <1>2, <1>3, <1>4, <1>5, TokenAssumption DEF NonceInv, OneGrantPerNonce
<1>9. \A e \in decisions' :
        e.nonce # NoToken =>
          /\ e.state \in Grants
          /\ \A f \in decisions' : f.nonce = e.nonce => f = e
          /\ \A x \in Workers : draft'[x].nonce # e.nonce
  BY <1>2, <1>3, <1>4, <1>6 DEF NonceInv, OneGrantPerNonce
<1>10. \A x \in Workers :
         draft'[x].nonce # NoToken =>
           /\ draft'[x].state \in Grants
           /\ \A y \in Workers : draft'[y].nonce = draft'[x].nonce => y = x
  BY <1>2, <1>4, <1>6 DEF NonceInv, OneGrantPerNonce
<1> QED BY <1>7, <1>8, <1>9, <1>10 DEF NonceInv, OneGrantPerNonce

LEMMA NonceInvariant == Spec => []NonceInv
<1>1. Init => NonceInv
  BY TokenAssumption DEF Init, TokenInit, GatewayInit, NoDraft, NonceInv, OneGrantPerNonce,
     EscalationsUnpaid, Escalated
<1>2. TypeOK /\ DraftsOnlyAtEmit /\ NonceInv /\ [Next]_vars => NonceInv'
  <2> SUFFICES ASSUME TypeOK, DraftsOnlyAtEmit, NonceInv, [Next]_vars PROVE NonceInv'
    OBVIOUS
  <2>1. CASE UNCHANGED <<draft, decisions, usedNonces>>
    BY <2>1 DEF NonceInv, OneGrantPerNonce, EscalationsUnpaid, Escalated
  <2>2. ASSUME NEW w \in Workers, Advance(w) PROVE NonceInv'
    BY <2>2, ReadStepNonce, ConsumeNonce DEF Advance
  <2>3. ASSUME NEW w \in Workers, NEW r \in Requests, Call(w, r),
               UNCHANGED <<storeVars, tokenVars>>
        PROVE  NonceInv'
    BY <2>1, <2>3 DEF Call, tokenVars
  <2>4. CASE StoreStep \/ TokenStep \/ UNCHANGED vars
    BY <2>1, <2>4 DEF StoreStep, TokenStep, Mint, Tick, vars, tokenVars, gatewayVars, callVars
  <2> QED BY <2>2, <2>3, <2>4 DEF Next
<1> QED BY <1>1, <1>2, TypeCorrect, DraftsFresh, PTL DEF Spec

(* Every burnt nonce belongs to exactly one grant.                         *)
THEOREM NonceSingleUse == Spec => []OneGrantPerNonce
<1>1. NonceInv => OneGrantPerNonce
  BY DEF NonceInv
<1> QED BY <1>1, NonceInvariant, PTL

-----------------------------------------------------------------------------
(* Grants                                                                  *)

(* What GrantsAuthorised needs to be inductive: a call that looks for      *)
(* consent has been cleared by the rules on the record the registry still  *)
(* holds, and the draft of a grant is authorised like the decision it      *)
(* becomes.                                                                *)
ClearedCalls ==
    \A w \in Workers :
        pc[w] \in {"probe", "consume"} =>
          /\ Registered(req[w].asset)
          /\ snap[w] = catalog[req[w].asset]
          /\ snap[w].consent
          /\ Clear(req[w], snap[w], FALSE, at[w])

DraftsAuthorised ==
    \A w \in Workers :
        pc[w] = "emit" /\ draft[w].state \in Grants => Authorised(req[w], at[w], draft[w])

GrantInv == ClearedCalls /\ DraftsAuthorised /\ GrantsAuthorised

(* Records are never replaced, claims never rewritten.                     *)
Kept == /\ \A a \in Assets : Registered(a) => catalog'[a] = catalog[a]
        /\ \A n \in Nonces : Minted(n) => claims'[n] = claims[n]

LEMMA AuthorisedStable ==
    ASSUME Kept, NEW r \in Requests, NEW t, NEW d, Authorised(r, t, d)
    PROVE  Authorised(r, t, d)'
<1>1. r.asset \in Assets
  BY RequestAsset
<1>2. Registered(r.asset) /\ catalog'[r.asset] = catalog[r.asset]
  BY <1>1 DEF Authorised, Kept
<1>3. Clear(r, catalog[r.asset], FALSE, t)'
  <2>1. Clear(r, catalog'[r.asset], FALSE, t)
    BY <1>2 DEF Authorised
  <2> QED BY <2>1 DEF Clear, Broken
<1>4. ASSUME NEW n, Consented(r, t, n) PROVE Consented(r, t, n)'
  BY <1>4 DEF Consented, InScope, Expired, Minted, Kept
<1> QED BY <1>2, <1>3, <1>4 DEF Authorised, Registered

LEMMA NextKept == TypeOK /\ [Next]_vars => Kept
<1> SUFFICES ASSUME TypeOK, [Next]_vars PROVE Kept
  OBVIOUS
<1>1. CASE UNCHANGED <<catalog, claims>>
  BY <1>1 DEF Kept
<1>2. ASSUME NEW w \in Workers, Advance(w) PROVE UNCHANGED <<catalog, claims>>
  BY <1>2 DEF Advance, ConsumeAccept, Burn, storeVars, tokenVars
<1>3. ASSUME NEW a \in Assets, NEW m \in Metadata, NEW gone \in BOOLEAN, Register(a, m, gone),
             UNCHANGED tokenVars
      PROVE  Kept
  BY <1>3 DEF Register, Registered, Kept, tokenVars, TypeOK, StoreTypeOK
<1>4. ASSUME NEW n \in Nonces, NEW a \in Assets, NEW t \in Tenants, NEW iat \in IssueTimes,
             NEW ttl \in Lifetimes, Mint(n, a, t, iat, ttl), UNCHANGED storeVars
      PROVE  Kept
  BY <1>4 DEF Mint, Minted, Kept, storeVars, TypeOK, TokenTypeOK
<1> QED BY <1>1, <1>2, <1>3, <1>4 DEF Next, StoreStep, TokenStep, WithdrawMark, Tick, vars,
           storeVars, tokenVars

(* A step that leaves every call where it was keeps the invariant.         *)
LEMMA GrantStutter ==
    ASSUME TypeOK, Kept, GrantInv, UNCHANGED gatewayVars
    PROVE  GrantInv'
<1> USE DEF gatewayVars, callVars
<1>1. ClearedCalls'
  BY RequestAsset DEF GrantInv, ClearedCalls, Kept, Registered, Clear, Broken, TypeOK, GatewayTypeOK
<1>2. DraftsAuthorised'
  BY AuthorisedStable DEF GrantInv, DraftsAuthorised, TypeOK, GatewayTypeOK
<1>3. GrantsAuthorised'
  BY AuthorisedStable DEF GrantInv, GrantsAuthorised, TypeOK, GatewayTypeOK, Decision
<1> QED BY <1>1, <1>2, <1>3 DEF GrantInv

(* What Clear says of the two facts a grant is built from.                 *)
LEMMA ClearMeans ==
    ASSUME NEW r, NEW m, NEW gone \in BOOLEAN, NEW t, Clear(r, m, gone, t)
    PROVE  Clear(r, m, FALSE, t) /\ r.tenant = m.tenant
<1>1. gone = FALSE
  BY WithdrawnIsNotClear
<1>2. 3 \in DOMAIN RuleOrder /\ RuleOrder[3] = "tenant_isolation"
  BY DEF RuleOrder
<1>3. Broken(r, m, gone, t)["tenant_isolation"] = (r.tenant # m.tenant)
  BY DEF Broken
<1> QED BY <1>1, <1>2, <1>3 DEF Clear

(* A call concludes with a refusal, or with a grant that is authorised.    *)
LEMMA ConcludeGrant ==
    ASSUME TypeOK, Kept, GrantInv, NEW w \in Workers, NEW d, Conclude(w, d),
           NEW m, snap' = [snap EXCEPT ![w] = m], UNCHANGED <<catalog, claims>>,
           d.state \in Grants => Authorised(req[w], at[w], d),
           req[w] \in Requests
    PROVE  GrantInv'
<1>1. \A x \in Workers : /\ draft'[x] = IF x = w THEN d ELSE draft[x]
                         /\ pc'[x] = IF x = w THEN "emit" ELSE pc[x]
                         /\ x # w => snap'[x] = snap[x]
  BY DEF Conclude, TypeOK, GatewayTypeOK
<1>2. req' = req /\ at' = at /\ decisions' = decisions
  BY DEF Conclude
<1>3. ClearedCalls'
  BY <1>1, <1>2 DEF GrantInv, ClearedCalls, Registered, Clear, Broken
<1>4. DraftsAuthorised'
  BY <1>1, <1>2, AuthorisedStable DEF GrantInv, DraftsAuthorised, TypeOK, GatewayTypeOK
<1>5. GrantsAuthorised'
  BY <1>2, AuthorisedStable DEF GrantInv, GrantsAuthorised, TypeOK, GatewayTypeOK, Decision
<1> QED BY <1>3, <1>4, <1>5 DEF GrantInv

LEMMA GrantState ==
    ASSUME NEW r, NEW n
    PROVE  /\ Grant(r, n).state = "Human Review" <=> r.action \in HighRisk
           /\ Grant(r, n).nonce = n
BY DEF Grant

LEMMA NoGrant ==
    /\ \A reason : Refusal(reason).state \notin Grants
    /\ Hold.state \notin Grants
    /\ NoDraft.state \notin Grants
BY DEF Refusal, Hold, NoDraft, Grants

LEMMA ReadStepGrant ==
    ASSUME TypeOK, Kept, GrantInv, NEW w \in Workers, ReadStep(w),
           UNCHANGED <<storeVars, tokenVars>>
    PROVE  GrantInv'
<1> DEFINE m == catalog[req[w].asset]
           gone == req[w].asset \in withdrawn
<1>0. UNCHANGED <<catalog, claims>>
  BY DEF storeVars, tokenVars
<1>1. pc[w] # "idle" => req[w] \in Requests /\ snap = [snap EXCEPT ![w] = snap[w]]
  BY DEF TypeOK, GatewayTypeOK
<1>2. CASE \/ FetchUnknown(w) \/ RefuseByRule(w) \/ AwaitConsent(w)
           \/ ProbeExhausted(w) \/ ConsumeCrash(w) \/ ConsumeExhausted(w)
  <2>1. PICK d : Conclude(w, d) /\ d.state \notin Grants
    BY <1>2, NoGrant DEF FetchUnknown, RefuseByRule, AwaitConsent, ProbeExhausted, ConsumeCrash,
       ConsumeExhausted
  <2>2. PICK k : snap' = [snap EXCEPT ![w] = k]
    BY <1>1, <1>2 DEF FetchUnknown, RefuseByRule, AwaitConsent, FetchClear, Fetch,
       ProbeExhausted, ConsumeCrash, ConsumeExhausted
  <2>3. req[w] \in Requests
    BY <1>1, <1>2 DEF FetchUnknown, RefuseByRule, AwaitConsent, FetchClear, Fetch,
       ProbeExhausted, ConsumeCrash, ConsumeExhausted
  <2> QED BY <1>0, <2>1, <2>2, <2>3, ConcludeGrant
<1>3. ASSUME FetchClear(w)
      PROVE  /\ snap' = [snap EXCEPT ![w] = m] /\ snap'[w] = m
             /\ Registered(req[w].asset) /\ Clear(req[w], m, FALSE, at[w])
             /\ req[w] \in Requests
  <2>1. snap' = [snap EXCEPT ![w] = m] /\ snap'[w] = m
    BY <1>3 DEF FetchClear, Fetch, TypeOK, GatewayTypeOK
  <2>2. Clear(req[w], m, gone, at[w])
    BY <1>3, <2>1 DEF FetchClear
  <2>3. Clear(req[w], m, FALSE, at[w])
    <3> HIDE DEF m
    <3>1. gone \in BOOLEAN
      OBVIOUS
    <3> HIDE DEF gone
    <3> QED BY <2>2, <3>1, ClearMeans
  <2> QED BY <1>1, <1>3, <2>1, <2>3 DEF FetchClear, Fetch
<1>4. CASE PassWithoutConsent(w)
  <2> DEFINE d == Grant(req[w], NoToken)
  <2>1. FetchClear(w) /\ ~m.consent /\ Conclude(w, d)
    BY <1>3, <1>4 DEF PassWithoutConsent
  <2>2. Authorised(req[w], at[w], d)
    BY <1>3, <2>1, GrantState DEF Authorised
  <2> QED BY <1>0, <1>3, <2>1, <2>2, ConcludeGrant
<1>5. CASE BeginProbe(w)
  <2>1. FetchClear(w) /\ m.consent
    BY <1>3, <1>5 DEF BeginProbe
  <2>2. UNCHANGED <<req, at, draft, decisions>> /\ pc' = [pc EXCEPT ![w] = "probe"]
    BY <1>5 DEF BeginProbe
  <2>3. \A x \in Workers : x # w => pc'[x] = pc[x] /\ snap'[x] = snap[x]
    BY <1>3, <2>1, <2>2 DEF TypeOK, GatewayTypeOK
  <2>4. pc'[w] = "probe"
    BY <2>2 DEF TypeOK, GatewayTypeOK
  <2>5. ClearedCalls'
    <3>1. /\ Registered(req[w].asset)' /\ snap'[w] = catalog'[req'[w].asset]
          /\ snap'[w].consent /\ Clear(req'[w], snap'[w], FALSE, at'[w])
      <4> HIDE DEF m
      <4>1. Registered(req[w].asset)'
        BY <1>0, <1>3, <2>1, <2>2 DEF Registered
      <4>2. snap'[w] = m /\ req' = req /\ at' = at /\ catalog' = catalog
        BY <1>0, <1>3, <2>1, <2>2
      <4>3. m = catalog[req[w].asset] /\ m.consent /\ Clear(req[w], m, FALSE, at[w])
        BY <1>3, <2>1 DEF m
      <4> QED BY <4>1, <4>2, <4>3, Zenon
    <3>2. ASSUME NEW x \in Workers, x # w, pc'[x] \in {"probe", "consume"}
          PROVE  /\ Registered(req[x].asset)' /\ snap'[x] = catalog'[req'[x].asset]
                 /\ snap'[x].consent /\ Clear(req'[x], snap'[x], FALSE, at'[x])
      BY <1>0, <2>2, <2>3, <3>2 DEF GrantInv, ClearedCalls, Registered, Clear, Broken
    <3> QED BY <1>0, <3>1, <3>2, <2>2, <2>3 DEF ClearedCalls
  <2>6. DraftsAuthorised'
    BY <2>2, <2>3, <2>4, AuthorisedStable DEF GrantInv, DraftsAuthorised, TypeOK, GatewayTypeOK
  <2>7. GrantsAuthorised'
    BY <2>2, AuthorisedStable DEF GrantInv, GrantsAuthorised, TypeOK, GatewayTypeOK, Decision
  <2> QED BY <2>5, <2>6, <2>7 DEF GrantInv
<1>6. CASE ProbeAccept(w) \/ ProbeReject(w) \/ ConsumeReject(w)
  <2>1. UNCHANGED <<req, at, snap, draft, decisions>>
    BY <1>6 DEF ProbeAccept, ProbeReject, ConsumeReject, NextToken
  <2>2. \A x \in Workers : /\ pc'[x] = "emit" <=> pc[x] = "emit"
                           /\ pc'[x] \in {"probe", "consume"} <=> pc[x] \in {"probe", "consume"}
    BY <1>6 DEF ProbeAccept, ProbeReject, ConsumeReject, NextToken, TypeOK, GatewayTypeOK
  <2>3. ClearedCalls'
    BY <1>0, <2>1, <2>2 DEF GrantInv, ClearedCalls, Registered, Clear, Broken
  <2>4. DraftsAuthorised'
    BY <2>1, <2>2, AuthorisedStable DEF GrantInv, DraftsAuthorised, TypeOK, GatewayTypeOK
  <2>5. GrantsAuthorised'
    BY <2>1, AuthorisedStable DEF GrantInv, GrantsAuthorised, TypeOK, GatewayTypeOK, Decision
  <2> QED BY <2>3, <2>4, <2>5 DEF GrantInv
<1>7. CASE DiscardOverlong(w) \/ Emit(w)
  <2>1. \A x \in Workers : x # w => /\ pc'[x] = pc[x] /\ snap'[x] = snap[x] /\ req'[x] = req[x]
                                    /\ at'[x] = at[x] /\ draft'[x] = draft[x]
    BY <1>7 DEF DiscardOverlong, Emit, TypeOK, GatewayTypeOK
  <2>2. pc'[w] \in {"idle", "emit"} /\ draft'[w].state \notin Grants
    BY <1>7, NoGrant DEF DiscardOverlong, Emit, TypeOK, GatewayTypeOK
  <2>3. ClearedCalls'
    BY <1>0, <2>1, <2>2 DEF GrantInv, ClearedCalls, Registered, Clear, Broken
  <2>4. DraftsAuthorised'
    BY <2>1, <2>2, AuthorisedStable DEF GrantInv, DraftsAuthorised, TypeOK, GatewayTypeOK
  <2>5. CASE DiscardOverlong(w)
    <3>1. GrantsAuthorised'
      BY <2>5, AuthorisedStable DEF DiscardOverlong, GrantInv, GrantsAuthorised, TypeOK,
         GatewayTypeOK, Decision
    <3> QED BY <2>3, <2>4, <3>1 DEF GrantInv
  <2>6. CASE Emit(w)
    <3>1. PICK r : r = Record(w, counter)
      OBVIOUS
    <3>2. r.req = req[w] /\ r.at = at[w] /\ r.state = draft[w].state /\ r.nonce = draft[w].nonce
      BY <3>1 DEF Record
    <3>3. decisions' = decisions \cup {r} /\ pc[w] = "emit" /\ r.req \in Requests
      BY <1>1, <2>6, <3>1, <3>2 DEF Emit
    <3>4. r.state \in Grants => Authorised(r.req, r.at, r)
      BY <3>2, <3>3 DEF GrantInv, DraftsAuthorised, Authorised
    <3>5. \A d \in decisions' : d.state \in Grants => d.req \in Requests /\ Authorised(d.req, d.at, d)
      BY <3>3, <3>4 DEF GrantInv, GrantsAuthorised, TypeOK, GatewayTypeOK, Decision
    <3>6. GrantsAuthorised'
      BY <3>5, AuthorisedStable DEF GrantsAuthorised
    <3> QED BY <2>3, <2>4, <3>6 DEF GrantInv
  <2> QED BY <1>7, <2>5, <2>6
<1> QED BY <1>2, <1>4, <1>5, <1>6, <1>7 DEF ReadStep

(* The token a call consumes is one it presented, and it was verified      *)
(* against the tenant of a record whose tenant is the caller's.            *)
LEMMA ConsumeGrant ==
    ASSUME TypeOK, Kept, GrantInv, NEW w \in Workers, ConsumeAccept(w), UNCHANGED storeVars
    PROVE  GrantInv'
<1> DEFINE n == Presented(w)
           d == Grant(req[w], n)
<1>1. /\ Conclude(w, d) /\ req[w] \in Requests /\ UNCHANGED <<catalog, claims>>
      /\ snap' = [snap EXCEPT ![w] = snap[w]]
  BY DEF ConsumeAccept, Burn, storeVars, TypeOK, GatewayTypeOK
<1>2. /\ Registered(req[w].asset) /\ snap[w] = catalog[req[w].asset] /\ snap[w].consent
      /\ Clear(req[w], snap[w], FALSE, at[w])
  BY DEF ConsumeAccept, GrantInv, ClearedCalls
<1>3. req[w].tenant = snap[w].tenant
  BY <1>2, ClearMeans
<1>4. Consented(req[w], at[w], n)
  BY <1>3 DEF ConsumeAccept, HasToken, Presented, VerifyAccepts, Consented
<1>5. Authorised(req[w], at[w], d)
  BY <1>2, <1>4, GrantState DEF Authorised
<1> HIDE DEF d
<1> QED BY <1>1, <1>5, ConcludeGrant

LEMMA CallGrant ==
    ASSUME TypeOK, Kept, GrantInv, NEW w \in Workers, NEW r \in Requests, Call(w, r),
           UNCHANGED <<storeVars, tokenVars>>
    PROVE  GrantInv'
<1>1. \A x \in Workers : x # w => pc'[x] = pc[x] /\ req'[x] = req[x] /\ at'[x] = at[x]
  BY DEF Call, TypeOK, GatewayTypeOK
<1>2. pc'[w] = "fetch" /\ UNCHANGED <<snap, draft, decisions, catalog>>
  BY DEF Call, storeVars, TypeOK, GatewayTypeOK
<1>3. ClearedCalls'
  BY <1>1, <1>2 DEF GrantInv, ClearedCalls, Registered, Clear, Broken
<1>4. DraftsAuthorised'
  BY <1>1, <1>2, AuthorisedStable DEF GrantInv, DraftsAuthorised, TypeOK, GatewayTypeOK
<1>5. GrantsAuthorised'
  BY <1>2, AuthorisedStable DEF GrantInv, GrantsAuthorised, TypeOK, GatewayTypeOK, Decision
<1> QED BY <1>3, <1>4, <1>5 DEF GrantInv

LEMMA NextGrant == TypeOK /\ GrantInv /\ [Next]_vars => GrantInv'
<1> SUFFICES ASSUME TypeOK, GrantInv, [Next]_vars PROVE GrantInv'
  OBVIOUS
<1>1. Kept
  BY NextKept
<1>2. ASSUME NEW w \in Workers, Advance(w) PROVE GrantInv'
  BY <1>1, <1>2, ReadStepGrant, ConsumeGrant DEF Advance
<1>3. CASE StoreStep \/ TokenStep \/ UNCHANGED vars
  BY <1>1, <1>3, GrantStutter DEF StoreStep, TokenStep, vars
<1> QED BY <1>1, <1>2, <1>3, CallGrant DEF Next

LEMMA GrantsInvariant == Spec => []GrantInv
<1>1. Init => GrantInv
  BY DEF Init, GatewayInit, GrantInv, ClearedCalls, DraftsAuthorised, GrantsAuthorised
<1> QED BY <1>1, NextGrant, TypeCorrect, PTL DEF Spec

(* The registry's record and the consumed token justify every grant, when  *)
(* it is given and ever after.                                             *)
THEOREM GrantsJustified == Spec => []GrantsAuthorised
<1>1. GrantInv => GrantsAuthorised
  BY DEF GrantInv
<1> QED BY <1>1, GrantsInvariant, PTL

-----------------------------------------------------------------------------
(* Reasons                                                                 *)

(* A token that explains a refusal as a replay, and a request that         *)
(* presents one.                                                           *)
Explains(n, r, t) ==
    /\ InScope(n, r.asset, r.tenant)
    /\ n \in usedNonces \/ claims[n].issuedAt > t + ClockSkew

Explained(r, t) == \E i \in DOMAIN r.tokens : Explains(r.tokens[i], r, t)

(* The token that passed the probe, which the consuming loop, once it is   *)
(* past it, found burnt or postdated.                                      *)
PassedProbe(r, t, p) ==
    \E i \in DOMAIN r.tokens :
        /\ InScope(r.tokens[i], r.asset, r.tenant)
        /\ ~Expired(r.tokens[i], t)
        /\ i < p => Explains(r.tokens[i], r, t)

(* What ReplayExplained needs to be inductive, of one call.                *)
CallExplained(w) ==
    /\ pc[w] = "probe" /\ tamper[w] = "token_replay" => Explained(req[w], at[w])
    /\ pc[w] = "consume" => PassedProbe(req[w], at[w], pos[w])
    /\ pc[w] = "emit" /\ draft[w].reason = "token_replay" => Explained(req[w], at[w])

ReplayInv == (\A w \in Workers : CallExplained(w)) /\ ReplayExplained

(* Nonces stay burnt and claims stay as they were minted.                  *)
TokensKept ==
    /\ usedNonces \subseteq usedNonces'
    /\ \A n \in Nonces : Minted(n) => claims'[n] = claims[n]

LEMMA NextTokensKept == TypeOK /\ [Next]_vars => TokensKept
<1> SUFFICES ASSUME TypeOK, [Next]_vars PROVE TokensKept
  OBVIOUS
<1>1. usedNonces \subseteq usedNonces'
  BY DEF Next, Advance, ConsumeAccept, Burn, StoreStep, TokenStep, Mint, Tick, vars, tokenVars
<1> QED BY <1>1, NextKept DEF TokensKept, Kept

LEMMA ExplainsStable ==
    ASSUME TokensKept, NEW n, NEW r, NEW t
    PROVE  /\ InScope(n, r.asset, r.tenant) => InScope(n, r.asset, r.tenant)'
           /\ InScope(n, r.asset, r.tenant) /\ ~Expired(n, t) => ~Expired(n, t)'
           /\ Explains(n, r, t) => Explains(n, r, t)'
BY DEF TokensKept, InScope, Minted, Expired, Explains

LEMMA ExplainedStable ==
    ASSUME TokensKept, NEW r, NEW t, NEW p
    PROVE  /\ Explained(r, t) => Explained(r, t)'
           /\ PassedProbe(r, t, p) => PassedProbe(r, t, p)'
<1>1. Explained(r, t) => Explained(r, t)'
  BY ExplainsStable DEF Explained
<1>2. ASSUME PassedProbe(r, t, p) PROVE PassedProbe(r, t, p)'
  <2>1. PICK i \in DOMAIN r.tokens :
          /\ InScope(r.tokens[i], r.asset, r.tenant)
          /\ ~Expired(r.tokens[i], t)
          /\ i < p => Explains(r.tokens[i], r, t)
    BY <1>2 DEF PassedProbe
  <2>2. PICK n : n = r.tokens[i]
    OBVIOUS
  <2>3. /\ InScope(n, r.asset, r.tenant)'
        /\ ~Expired(n, t)'
        /\ i < p => Explains(n, r, t)'
    BY <2>1, <2>2, ExplainsStable
  <2> QED BY <2>2, <2>3 DEF PassedProbe
<1> QED BY <1>1, <1>2

(* A call that does not move stays explained.                              *)
LEMMA CallStaysExplained ==
    ASSUME TokensKept, NEW x \in Workers, CallExplained(x),
           pc'[x] = pc[x], req'[x] = req[x], at'[x] = at[x], pos'[x] = pos[x],
           tamper'[x] = tamper[x], draft'[x] = draft[x]
    PROVE  CallExplained(x)'
<1>1. PICK r, t, p : r = req[x] /\ t = at[x] /\ p = pos[x]
  OBVIOUS
<1>2. /\ pc[x] = "probe" /\ tamper[x] = "token_replay" => Explained(r, t)
      /\ pc[x] = "consume" => PassedProbe(r, t, p)
      /\ pc[x] = "emit" /\ draft[x].reason = "token_replay" => Explained(r, t)
  BY <1>1 DEF CallExplained
<1>3. /\ pc'[x] = "probe" /\ tamper'[x] = "token_replay" => Explained(r, t)'
      /\ pc'[x] = "consume" => PassedProbe(r, t, p)'
      /\ pc'[x] = "emit" /\ draft'[x].reason = "token_replay" => Explained(r, t)'
  BY <1>2, ExplainedStable
<1>4. r = req'[x] /\ t = at'[x] /\ p = pos'[x]
  BY <1>1
<1> QED BY <1>3, <1>4 DEF CallExplained

LEMMA DecisionsStayExplained ==
    ASSUME TokensKept, ReplayExplained, decisions' = decisions
    PROVE  ReplayExplained'
<1>1. ASSUME NEW d \in decisions, d.reason = "token_replay" PROVE Explained(d.req, d.at)'
  <2>1. Explained(d.req, d.at)
    BY <1>1 DEF ReplayExplained, Explained, Explains
  <2> QED BY <2>1, ExplainedStable
<1> QED BY <1>1 DEF ReplayExplained, Explained, Explains

(* What the probe and the consuming loop found out about a token.          *)
LEMMA ProbeFinds ==
    ASSUME NEW n, NEW a, NEW t, NEW when
    PROVE  /\ ProbeAccepts(n, a, t, when) => InScope(n, a, t) /\ ~Expired(n, when)
           /\ /\ ~ProbeAccepts(n, a, t, when)
              /\ ProbeError(n, a, t, when) = "token_replay"
              => InScope(n, a, t) /\ n \in usedNonces
BY DEF ProbeAccepts, ProbeError

LEMMA ConsumeFinds ==
    ASSUME TokenTypeOK, NEW n, NEW r, NEW t \in Nat, InScope(n, r.asset, r.tenant),
           ~Expired(n, t), ~VerifyAccepts(n, r.asset, r.tenant, t),
           ~VerifyCrashes(n, r.asset, r.tenant)
    PROVE  Explains(n, r, t)
<1>1. claims[n] \in ConsentClaim
  BY DEF InScope, Minted, TokenTypeOK
<1>2. claims[n].issuedAt \in Nat /\ t + ClockSkew \in Nat
  BY <1>1, TokenAssumption DEF ConsentClaim
<1> QED BY <1>2 DEF VerifyAccepts, Explains

(* What a step of one call leaves as it was.                               *)
OthersStay(w) ==
    \A x \in Workers : x # w =>
        /\ pc'[x] = pc[x] /\ req'[x] = req[x] /\ at'[x] = at[x]
        /\ pos'[x] = pos[x] /\ tamper'[x] = tamper[x] /\ draft'[x] = draft[x]

LEMMA AdvanceMovesOne ==
    ASSUME TypeOK, NEW w \in Workers, Advance(w)
    PROVE  OthersStay(w)
<1> USE DEF OthersStay, TypeOK, GatewayTypeOK
<1>1. CASE \/ FetchUnknown(w) \/ RefuseByRule(w) \/ PassWithoutConsent(w) \/ AwaitConsent(w)
           \/ ProbeExhausted(w) \/ ConsumeCrash(w) \/ ConsumeExhausted(w) \/ ConsumeAccept(w)
  <2>1. UNCHANGED <<pos, tamper>> /\ \E d : Conclude(w, d)
    BY <1>1 DEF FetchUnknown, RefuseByRule, PassWithoutConsent, AwaitConsent, ProbeExhausted,
       ConsumeCrash, ConsumeExhausted, ConsumeAccept
  <2> QED BY <2>1 DEF Conclude
<1>2. CASE BeginProbe(w)
  BY <1>2 DEF BeginProbe
<1>3. CASE ProbeAccept(w) \/ ProbeReject(w) \/ ConsumeReject(w)
  BY <1>3 DEF ProbeAccept, ProbeReject, ConsumeReject, NextToken
<1>4. CASE DiscardOverlong(w) \/ Emit(w)
  BY <1>4 DEF DiscardOverlong, Emit
<1> QED BY <1>1, <1>2, <1>3, <1>4 DEF Advance, ReadStep

(* Refusals for another reason, holds and grants are no refusals as a      *)
(* replay.                                                                 *)
LEMMA OtherwiseConcluded ==
    /\ \A i \in DOMAIN RuleOrder : RuleOrder[i] # "token_replay"
    /\ \A r, n : Grant(r, n).reason # "token_replay"
    /\ \A reason : Refusal(reason).reason = reason
    /\ Hold.reason # "token_replay"
BY DEF RuleOrder, Grant, Refusal, Hold

LEMMA ConcludedExplained ==
    ASSUME TypeOK, TokensKept, NEW w \in Workers, NEW d, Conclude(w, d),
           d.reason = "token_replay" => Explained(req[w], at[w])
    PROVE  CallExplained(w)'
<1>1. PICK r, t : r = req[w] /\ t = at[w]
  OBVIOUS
<1>2. pc'[w] = "emit" /\ draft'[w] = d /\ req'[w] = r /\ at'[w] = t
  BY <1>1 DEF Conclude, TypeOK, GatewayTypeOK
<1>3. d.reason = "token_replay" => Explained(r, t)'
  BY <1>1, ExplainedStable
<1> QED BY <1>2, <1>3 DEF CallExplained

LEMMA RequestTokens ==
    ASSUME NEW r \in Requests
    PROVE  DOMAIN r.tokens = 1..Len(r.tokens) /\ Len(r.tokens) \in Nat
<1>1. r.tokens \in Seq(Presentable)
  BY GatewayAssumption
<1> QED BY <1>1

LEMMA AdvanceExplained ==
    ASSUME TypeOK, GrantInv, ReplayInv, TokensKept, NEW w \in Workers, Advance(w)
    PROVE  CallExplained(w)'
<1> DEFINE r == req[w]
           t == at[w]
           n == Presented(w)
<1>0. t \in Nat /\ pos[w] \in Nat \ {0} /\ TokenTypeOK
  BY DEF TypeOK, GatewayTypeOK
<1>1. CASE FetchUnknown(w) \/ RefuseByRule(w) \/ PassWithoutConsent(w) \/ AwaitConsent(w)
  <2>1. PICK d : Conclude(w, d) /\ d.reason # "token_replay"
    <3>1. CASE FetchUnknown(w)
      BY <3>1, OtherwiseConcluded DEF FetchUnknown
    <3>2. CASE RefuseByRule(w)
      BY <3>2, OtherwiseConcluded DEF RefuseByRule
    <3>3. CASE PassWithoutConsent(w)
      BY <3>3, OtherwiseConcluded DEF PassWithoutConsent
    <3>4. CASE AwaitConsent(w)
      BY <3>4, OtherwiseConcluded DEF AwaitConsent
    <3> QED BY <1>1, <3>1, <3>2, <3>3, <3>4
  <2> QED BY <2>1, ConcludedExplained
<1>2. CASE BeginProbe(w)
  <2>1. pc'[w] = "probe" /\ tamper'[w] = "none"
    BY <1>2 DEF BeginProbe, TypeOK, GatewayTypeOK
  <2> QED BY <2>1 DEF CallExplained
<1>3. ASSUME pc[w] \in {"probe", "consume"} PROVE snap[w].tenant = r.tenant
  BY <1>3, ClearMeans DEF GrantInv, ClearedCalls
<1>4. CASE ProbeAccept(w)
  <2>1. InScope(n, r.asset, r.tenant) /\ ~Expired(n, t) /\ pos[w] \in DOMAIN r.tokens
    BY <1>3, <1>4, ProbeFinds DEF ProbeAccept, ProbePasses, HasToken
  <2>2. PICK i \in DOMAIN r.tokens : i = pos[w] /\ r.tokens[i] = n
    BY <2>1 DEF Presented
  <2>3. ~(i < 1)
    BY <1>0, <2>2
  <2>4. PassedProbe(r, t, 1)
    <3> HIDE DEF n
    <3> QED BY <2>1, <2>2, <2>3 DEF PassedProbe
  <2>5. pc'[w] = "consume" /\ pos'[w] = 1 /\ req'[w] = r /\ at'[w] = t
    BY <1>4 DEF ProbeAccept, TypeOK, GatewayTypeOK
  <2>6. PICK rr, tt : rr = r /\ tt = t
    OBVIOUS
  <2>7. PassedProbe(rr, tt, 1)'
    BY <2>4, <2>6, ExplainedStable
  <2> QED BY <2>5, <2>6, <2>7 DEF CallExplained
<1>5. CASE ProbeReject(w)
  <2>1. /\ pc'[w] = "probe" /\ req'[w] = r /\ at'[w] = t
        /\ tamper'[w] = ProbeError(n, r.asset, snap[w].tenant, t)
    BY <1>5 DEF ProbeReject, NextToken, TypeOK, GatewayTypeOK
  <2>2. ASSUME tamper'[w] = "token_replay" PROVE Explained(r, t)
    <3>1. InScope(n, r.asset, r.tenant) /\ n \in usedNonces /\ pos[w] \in DOMAIN r.tokens
      BY <1>3, <1>5, <2>1, <2>2, ProbeFinds DEF ProbeReject, ProbePasses, HasToken
    <3> QED BY <3>1 DEF Explained, Explains, Presented
  <2>3. PICK rr, tt : rr = r /\ tt = t
    OBVIOUS
  <2>4. tamper'[w] = "token_replay" => Explained(rr, tt)'
    BY <2>2, <2>3, ExplainedStable
  <2> QED BY <2>1, <2>3, <2>4 DEF CallExplained
<1>6. CASE ProbeExhausted(w)
  <2>1. Conclude(w, Refusal(tamper[w])) /\ pc[w] = "probe"
    BY <1>6 DEF ProbeExhausted
  <2>2. Refusal(tamper[w]).reason = "token_replay" => Explained(req[w], at[w])
    BY <2>1, OtherwiseConcluded DEF ReplayInv, CallExplained
  <2> QED BY <2>1, <2>2, ConcludedExplained
<1>7. CASE ConsumeCrash(w)
  <2>1. Conclude(w, Refusal("fail_closed")) /\ Refusal("fail_closed").reason # "token_replay"
    BY <1>7, OtherwiseConcluded DEF ConsumeCrash
  <2> QED BY <2>1, ConcludedExplained
<1>8. CASE ConsumeAccept(w)
  <2>1. Conclude(w, Grant(req[w], n)) /\ Grant(req[w], n).reason # "token_replay"
    BY <1>8, OtherwiseConcluded DEF ConsumeAccept
  <2> QED BY <2>1, ConcludedExplained
<1>9. CASE ConsumeReject(w)
  <2>1. /\ pc[w] = "consume" /\ pc'[w] = "consume" /\ req'[w] = r /\ at'[w] = t
        /\ pos'[w] = pos[w] + 1
    BY <1>9 DEF ConsumeReject, NextToken, TypeOK, GatewayTypeOK
  <2>2. PICK i \in DOMAIN r.tokens :
          /\ InScope(r.tokens[i], r.asset, r.tenant)
          /\ ~Expired(r.tokens[i], t)
          /\ i < pos[w] => Explains(r.tokens[i], r, t)
    BY <2>1 DEF ReplayInv, CallExplained, PassedProbe
  <2>3. i \in Nat
    <3>1. r \in Requests
      BY <2>1 DEF TypeOK, GatewayTypeOK
    <3> HIDE DEF r
    <3> QED BY <2>2, <3>1, RequestTokens
  <2>4. ASSUME i < pos[w] + 1 PROVE Explains(r.tokens[i], r, t)
    <3>1. CASE i < pos[w]
      BY <2>2, <3>1
    <3>2. CASE i = pos[w]
      <4>1. n = r.tokens[i]
        BY <3>2 DEF Presented
      <4>2. /\ ~VerifyAccepts(n, r.asset, r.tenant, t)
            /\ ~VerifyCrashes(n, r.asset, r.tenant)
        BY <1>3, <1>9, <2>1 DEF ConsumeReject
      <4> HIDE DEF n, r, t
      <4> QED BY <1>0, <2>2, <4>1, <4>2, ConsumeFinds
    <3> QED BY <1>0, <2>3, <2>4, <3>1, <3>2
  <2>5. PassedProbe(r, t, pos[w] + 1)
    <3> HIDE DEF r, t
    <3> QED BY <2>2, <2>4 DEF PassedProbe
  <2>6. PICK rr, tt, pp : rr = r /\ tt = t /\ pp = pos[w] + 1
    OBVIOUS
  <2>7. PassedProbe(rr, tt, pp)'
    BY <2>5, <2>6, ExplainedStable
  <2> QED BY <2>1, <2>6, <2>7 DEF CallExplained
<1>10. CASE ConsumeExhausted(w)
  <2>1. Conclude(w, Refusal("token_replay")) /\ pc[w] = "consume" /\ pos[w] \notin DOMAIN r.tokens
    BY <1>10 DEF ConsumeExhausted, HasToken
  <2>2. PICK i \in DOMAIN r.tokens :
          /\ InScope(r.tokens[i], r.asset, r.tenant)
          /\ ~Expired(r.tokens[i], t)
          /\ i < pos[w] => Explains(r.tokens[i], r, t)
    BY <2>1 DEF ReplayInv, CallExplained, PassedProbe
  <2>3. DOMAIN r.tokens = 1..Len(r.tokens) /\ Len(r.tokens) \in Nat
    <3>1. r \in Requests
      BY <2>1 DEF TypeOK, GatewayTypeOK
    <3> HIDE DEF r
    <3> QED BY <3>1, RequestTokens
  <2>4. i < pos[w]
    <3> HIDE DEF r
    <3> QED BY <1>0, <2>1, <2>3
  <2>5. Explained(r, t)
    BY <2>2, <2>4 DEF Explained
  <2>6. Refusal("token_replay").reason = "token_replay" => Explained(req[w], at[w])
    BY <2>5
  <2> QED BY <2>1, <2>6, ConcludedExplained
<1>11. CASE DiscardOverlong(w)
  <2>1. draft'[w].reason = "fail_closed" /\ pc'[w] = "emit"
    BY <1>11, OtherwiseConcluded DEF DiscardOverlong, TypeOK, GatewayTypeOK
  <2> QED BY <2>1 DEF CallExplained
<1>12. CASE Emit(w)
  <2>1. pc'[w] = "idle"
    BY <1>12 DEF Emit, TypeOK, GatewayTypeOK
  <2> QED BY <2>1 DEF CallExplained
<1> QED BY <1>1, <1>2, <1>4, <1>5, <1>6, <1>7, <1>8, <1>9, <1>10, <1>11, <1>12
        DEF Advance, ReadStep

LEMMA EmitExplained ==
    ASSUME TypeOK, ReplayInv, TokensKept, NEW w \in Workers, Advance(w)
    PROVE  ReplayExplained'
<1>1. CASE Emit(w)
  <2>1. PICK d : d = Record(w, counter)
    OBVIOUS
  <2>2. d.req = req[w] /\ d.at = at[w] /\ d.reason = draft[w].reason
    BY <2>1 DEF Record
  <2>3. decisions' = decisions \cup {d} /\ pc[w] = "emit"
    BY <1>1, <2>1 DEF Emit
  <2>4. d.reason = "token_replay" => Explained(d.req, d.at)
    BY <2>2, <2>3 DEF ReplayInv, CallExplained
  <2>5. ASSUME NEW e \in decisions', e.reason = "token_replay" PROVE Explained(e.req, e.at)'
    <3>1. Explained(e.req, e.at)
      BY <2>3, <2>4, <2>5 DEF ReplayInv, ReplayExplained, Explained, Explains
    <3> QED BY <3>1, ExplainedStable
  <2> QED BY <2>5 DEF ReplayExplained, Explained, Explains
<1>2. CASE ~Emit(w)
  <2>1. decisions' = decisions
    BY <1>2 DEF Advance, ReadStep, FetchUnknown, RefuseByRule, PassWithoutConsent, AwaitConsent,
       BeginProbe, ProbeAccept, ProbeReject, ProbeExhausted, ConsumeAccept, ConsumeCrash,
       ConsumeReject, ConsumeExhausted, DiscardOverlong, Conclude, NextToken
  <2> QED BY <2>1, DecisionsStayExplained DEF ReplayInv
<1> QED BY <1>1, <1>2

LEMMA NextReplay == TypeOK /\ GrantInv /\ ReplayInv /\ [Next]_vars => ReplayInv'
<1> SUFFICES ASSUME TypeOK, GrantInv, ReplayInv, [Next]_vars PROVE ReplayInv'
  OBVIOUS
<1>1. TokensKept
  BY NextTokensKept
<1>2. ASSUME NEW w \in Workers, Advance(w) PROVE ReplayInv'
  <2>1. CallExplained(w)' /\ ReplayExplained'
    BY <1>1, <1>2, AdvanceExplained, EmitExplained
  <2>2. ASSUME NEW x \in Workers, x # w PROVE CallExplained(x)'
    BY <1>1, <1>2, <2>2, AdvanceMovesOne, CallStaysExplained DEF OthersStay, ReplayInv
  <2> QED BY <2>1, <2>2 DEF ReplayInv
<1>3. ASSUME NEW w \in Workers, NEW r \in Requests, Call(w, r) PROVE ReplayInv'
  <2>1. pc'[w] = "fetch" /\ UNCHANGED <<pos, tamper, draft, decisions>>
    BY <1>3 DEF Call, TypeOK, GatewayTypeOK
  <2>2. CallExplained(w)'
    BY <2>1 DEF CallExplained
  <2>3. ASSUME NEW x \in Workers, x # w PROVE CallExplained(x)'
    <3>1. pc'[x] = pc[x] /\ req'[x] = req[x] /\ at'[x] = at[x]
      BY <1>3, <2>3 DEF Call, TypeOK, GatewayTypeOK
    <3> QED BY <1>1, <2>1, <3>1, CallStaysExplained DEF ReplayInv
  <2>4. ReplayExplained'
    BY <1>1, <2>1, DecisionsStayExplained DEF ReplayInv
  <2> QED BY <2>2, <2>3, <2>4 DEF ReplayInv
<1>4. CASE UNCHANGED gatewayVars
  <2>1. ASSUME NEW x \in Workers PROVE CallExplained(x)'
    BY <1>1, <1>4, CallStaysExplained DEF ReplayInv, gatewayVars, callVars
  <2>2. ReplayExplained'
    BY <1>1, <1>4, DecisionsStayExplained DEF ReplayInv, gatewayVars
  <2> QED BY <2>1, <2>2 DEF ReplayInv
<1> QED BY <1>2, <1>3, <1>4 DEF Next, StoreStep, TokenStep, vars

(* A refusal as a replay has a reason: the caller presented a token for    *)
(* this asset and tenant that is burnt, or postdated, whichever of the two *)
(* loops of evaluate() gave it and whatever other calls consumed between.  *)
THEOREM ReplaysHaveReason == Spec => []ReplayExplained
<1>1. Init => ReplayInv
  BY DEF Init, GatewayInit, ReplayInv, CallExplained, ReplayExplained
<1>2. ReplayInv => ReplayExplained
  BY DEF ReplayInv
<1> QED BY <1>1, <1>2, NextReplay, GrantsInvariant, TypeCorrect, PTL DEF Spec

-----------------------------------------------------------------------------
(* The refinement: every step of the registry, the token store and the     *)
(* gateway is a step of GatewayPromise or leaves its state as it was.      *)


(* The refusals of a call that did not find its asset registered and not   *)
(* withdrawn.                                                              *)
Missed == {"unknown_asset", "withdrawn"}

(* What a draft says of the call it belongs to.                            *)
DraftsNamed ==
    \A w \in Workers :
        /\ draft[w].reason \in Missed => draft[w].state = "Blocked"
        /\ draft[w].state = "Conditional" => req[w].asset \in PricedAssets

LEMMA RefusalNamed ==
    ASSUME NEW reason
    PROVE  Refusal(reason).state = "Blocked" /\ Refusal(reason).reason = reason
           /\ Refusal(reason).nonce = NoToken
BY DEF Refusal

LEMMA GrantNamed ==
    ASSUME NEW r, NEW n
    PROVE  Grant(r, n).reason \notin Missed /\ Grant(r, n).state # "Conditional"
           /\ Grant(r, n).nonce = n
BY DEF Grant, Missed

LEMMA ConcludeNamed ==
    ASSUME TypeOK, DraftsNamed, NEW w \in Workers, NEW d, Conclude(w, d),
           \A a \in PricedAssets : a \in PricedAssets',
           d.reason \in Missed => d.state = "Blocked",
           d.state = "Conditional" => req[w].asset \in PricedAssets
    PROVE  DraftsNamed'
<1>1. req' = req /\ \A x \in Workers : draft'[x] = IF x = w THEN d ELSE draft[x]
  BY DEF Conclude, TypeOK, GatewayTypeOK
<1> QED BY <1>1 DEF DraftsNamed

LEMMA NextNamed == TypeOK /\ DraftsOnlyAtEmit /\ DraftsNamed /\ [Next]_vars => DraftsNamed'
<1> SUFFICES ASSUME TypeOK, DraftsOnlyAtEmit, DraftsNamed, [Next]_vars PROVE DraftsNamed'
  OBVIOUS
<1>1. \A a \in PricedAssets : a \in PricedAssets'
  <2>1. Kept
    BY NextKept
  <2> QED BY <2>1 DEF Kept, PricedAssets, Registered
<1>2. CASE UNCHANGED <<req, draft>>
  BY <1>1, <1>2 DEF DraftsNamed
<1>3. ASSUME NEW w \in Workers, NEW reason, Conclude(w, Refusal(reason)) PROVE DraftsNamed'
  BY <1>1, <1>3, RefusalNamed, ConcludeNamed
<1>4. ASSUME NEW w \in Workers, NEW n, Conclude(w, Grant(req[w], n)) PROVE DraftsNamed'
  BY <1>1, <1>4, GrantNamed, ConcludeNamed
<1>5. ASSUME NEW w \in Workers, AwaitConsent(w) PROVE DraftsNamed'
  <2>1. Conclude(w, Hold) /\ req[w].asset \in PricedAssets
    BY <1>5, RequestAsset DEF AwaitConsent, FetchClear, Fetch, PricedAssets, TypeOK, GatewayTypeOK
  <2>2. Hold.reason \notin Missed
    BY DEF Hold, Missed
  <2> QED BY <1>1, <2>1, <2>2, ConcludeNamed
<1>6. ASSUME NEW w \in Workers, Advance(w) PROVE DraftsNamed'
  <2>1. CASE RefuseByRule(w)
    BY <1>3, <2>1 DEF RefuseByRule
  <2>2. CASE FetchUnknown(w) \/ ProbeExhausted(w) \/ ConsumeCrash(w) \/ ConsumeExhausted(w)
    BY <1>3, <2>2 DEF FetchUnknown, ProbeExhausted, ConsumeCrash, ConsumeExhausted
  <2>3. CASE PassWithoutConsent(w) \/ ConsumeAccept(w)
    BY <1>4, <2>3 DEF PassWithoutConsent, ConsumeAccept
  <2>4. CASE BeginProbe(w) \/ ProbeAccept(w) \/ ProbeReject(w) \/ ConsumeReject(w)
    BY <1>2, <2>4 DEF BeginProbe, ProbeAccept, ProbeReject, ConsumeReject, NextToken
  <2>5. CASE DiscardOverlong(w)
    <3>1. req' = req /\ \A x \in Workers : draft'[x] = IF x = w THEN Refusal("fail_closed") ELSE draft[x]
      BY <2>5 DEF DiscardOverlong, TypeOK, GatewayTypeOK
    <3> QED BY <1>1, <3>1, RefusalNamed DEF DraftsNamed
  <2>6. CASE Emit(w)
    <3>1. \A x \in Workers : /\ draft'[x] = IF x = w THEN NoDraft ELSE draft[x]
                             /\ x # w => req'[x] = req[x]
      BY <2>6 DEF Emit, TypeOK, GatewayTypeOK
    <3>2. NoDraft.state = "Blocked"
      BY DEF NoDraft
    <3> QED BY <1>1, <3>1, <3>2 DEF DraftsNamed
  <2> QED BY <1>5, <1>6, <2>1, <2>2, <2>3, <2>4, <2>5, <2>6 DEF Advance, ReadStep
<1>7. ASSUME NEW w \in Workers, NEW r \in Requests, Call(w, r) PROVE DraftsNamed'
  <2>1. draft' = draft /\ draft[w] = NoDraft /\ \A x \in Workers \ {w} : req'[x] = req[x]
    BY <1>7 DEF Call, DraftsOnlyAtEmit, TypeOK, GatewayTypeOK
  <2>2. NoDraft.state = "Blocked"
    BY DEF NoDraft
  <2> QED BY <1>1, <2>1, <2>2 DEF DraftsNamed
<1>8. CASE StoreStep \/ TokenStep \/ UNCHANGED vars
  BY <1>2, <1>8 DEF StoreStep, TokenStep, vars, gatewayVars, callVars
<1> QED BY <1>6, <1>7, <1>8 DEF Next

LEMMA NamesInvariant == Spec => []DraftsNamed
<1>1. Init => DraftsNamed
  BY DEF Init, GatewayInit, NoDraft, DraftsNamed
<1> QED BY <1>1, NextNamed, TypeCorrect, DraftsFresh, PTL DEF Spec

(* The invariants the steps are mapped under.                              *)
PromiseInv ==
    /\ TypeOK /\ DraftsOnlyAtEmit /\ LateInv /\ NonceInv /\ GrantInv /\ SequenceUnique
    /\ DraftsNamed

CallOf(w) == [asset |-> req[w].asset, late |-> late[w], clear |-> FoundClear(w),
              paid |-> draft[w].nonce]

LEMMA OpenIsCall ==
    ASSUME TypeOK, NEW w \in Workers, pc[w] # "idle"
    PROVE  OpenCalls[w] = CallOf(w) /\ OpenCalls[w] # NoToken
<1>1. req[w].asset \in Assets /\ late[w] \in BOOLEAN /\ draft[w].nonce \in Nonces \cup {NoToken}
  BY RequestAsset DEF TypeOK, GatewayTypeOK, Draft
<1>2. OpenCalls[w] = CallOf(w)
  BY DEF OpenCalls, CallOf
<1>3. FoundClear(w) \in BOOLEAN
  BY DEF FoundClear
<1>4. CallOf(w) \in [asset : Assets, late : BOOLEAN, clear : BOOLEAN, paid : Nonces \cup {NoToken}]
  BY <1>1, <1>3 DEF CallOf
<1> QED BY <1>2, <1>4, NoTokenAssumption

LEMMA CallFields ==
    ASSUME NEW w
    PROVE  /\ CallOf(w).asset = req[w].asset /\ CallOf(w).late = late[w]
           /\ CallOf(w).clear = FoundClear(w) /\ CallOf(w).paid = draft[w].nonce
BY DEF CallOf

LEMMA InitPromise == Init => Promise!Init
BY DEF Init, StoreInit, TokenInit, GatewayInit, Promise!Init, OfferedAssets, PricedAssets,
       Registered, OpenCalls

(* A step that moves no call in or out, no finding and no nonce is         *)
(* invisible.                                                              *)
LEMMA Invisible ==
    ASSUME UNCHANGED <<catalog, withdrawn, usedNonces, decisions>>,
           \A w \in Workers : /\ pc'[w] = "idle" <=> pc[w] = "idle"
                              /\ pc[w] # "idle" => req'[w] = req[w] /\ late'[w] = late[w]
                                                   /\ FoundClear(w)' = FoundClear(w)
                                                   /\ draft'[w].nonce = draft[w].nonce
    PROVE  UNCHANGED Promise!promiseVars
<1>1. OpenCalls' = OpenCalls
  BY DEF OpenCalls
<1>2. {AnswerOf(d) : d \in decisions}' = {AnswerOf(d) : d \in decisions}
  BY DEF AnswerOf
<1> QED BY <1>1, <1>2 DEF Promise!promiseVars, OfferedAssets, PricedAssets, Registered

LEMMA CallOpens ==
    ASSUME PromiseInv, NEW w \in Workers, NEW r \in Requests, Call(w, r),
           UNCHANGED <<storeVars, tokenVars>>
    PROVE  Promise!Next
<1>1. r.asset \in Assets
  BY RequestAsset
<1>2. OpenCalls[w] = NoToken
  BY DEF Call, OpenCalls
<1>3. draft[w].nonce = NoToken
  BY DEF Call, PromiseInv, DraftsOnlyAtEmit, NoDraft
<1>4. \A x \in Workers : /\ pc'[x] = IF x = w THEN "fetch" ELSE pc[x]
                         /\ req'[x] = IF x = w THEN r ELSE req[x]
                         /\ late'[x] = IF x = w THEN r.asset \in withdrawn ELSE late[x]
                         /\ draft'[x] = draft[x]
  BY DEF Call, PromiseInv, TypeOK, GatewayTypeOK
<1>5. \A x \in Workers : FoundClear(x)' = IF x = w THEN FALSE ELSE FoundClear(x)
  BY <1>4 DEF FoundClear
<1>6. OpenCalls' = [OpenCalls EXCEPT ![w] = [asset |-> r.asset, late |-> r.asset \in withdrawn,
                                             clear |-> FALSE, paid |-> NoToken]]
  BY <1>3, <1>4, <1>5 DEF OpenCalls
<1>7. {AnswerOf(d) : d \in decisions}' = {AnswerOf(d) : d \in decisions}
  BY DEF Call, AnswerOf
<1>8. UNCHANGED <<OfferedAssets, PricedAssets, withdrawn, usedNonces>>
  BY DEF storeVars, tokenVars, OfferedAssets, PricedAssets, Registered
<1>9. Promise!Open(w, r.asset)
  BY <1>2, <1>6, <1>7, <1>8 DEF Promise!Open
<1> QED BY <1>1, <1>9 DEF Promise!Next

LEMMA ConsumePays ==
    ASSUME PromiseInv, NEW w \in Workers, ConsumeAccept(w), UNCHANGED storeVars
    PROVE  Promise!Next
<1> DEFINE n == Presented(w)
<1>1. n \in Nonces /\ n \notin usedNonces
  BY DEF ConsumeAccept, VerifyAccepts, InScope
<1>2. pc[w] = "consume" /\ TypeOK
  BY DEF ConsumeAccept, PromiseInv
<1>3. OpenCalls[w] = CallOf(w) /\ OpenCalls[w] # NoToken
  BY <1>2, OpenIsCall
<1>4. draft[w] = NoDraft
  BY <1>2 DEF PromiseInv, DraftsOnlyAtEmit
<1>5. FoundClear(w) = TRUE /\ draft[w].nonce = NoToken
  BY <1>2, <1>4 DEF NoDraft, FoundClear
<1>6. ~late[w] /\ req[w].asset \in PricedAssets
  BY RequestAsset DEF ConsumeAccept, PromiseInv, LateInv, LateCallsBlocked, GrantInv, ClearedCalls,
     PricedAssets, TypeOK, GatewayTypeOK
<1>7. Grant(req[w], n).nonce = n /\ Grant(req[w], n).reason \notin Missed
  BY GrantNamed
<1>8. Conclude(w, Grant(req[w], n)) /\ usedNonces' = usedNonces \cup {n}
  BY DEF ConsumeAccept, Burn
<1> HIDE DEF n
<1>9. /\ UNCHANGED <<req, late, decisions>>
      /\ \A x \in Workers : /\ pc'[x] = IF x = w THEN "emit" ELSE pc[x]
                            /\ draft'[x] = IF x = w THEN Grant(req[w], n) ELSE draft[x]
  BY <1>8 DEF Conclude, PromiseInv, TypeOK, GatewayTypeOK
<1>10. \A x \in Workers : FoundClear(x)' = FoundClear(x)
  <2>1. FoundClear(w)' = TRUE
    BY <1>7, <1>9 DEF FoundClear, Missed
  <2>2. \A x \in Workers \ {w} : FoundClear(x)' = FoundClear(x)
    BY <1>9 DEF FoundClear
  <2> QED BY <1>5, <2>1, <2>2
<1>11. OpenCalls' = [OpenCalls EXCEPT ![w].paid = n]
  BY <1>2, <1>7, <1>9, <1>10 DEF OpenCalls
<1>12. UNCHANGED <<OfferedAssets, PricedAssets, withdrawn>>
  BY DEF storeVars, OfferedAssets, PricedAssets, Registered
<1>13. {AnswerOf(d) : d \in decisions}' = {AnswerOf(d) : d \in decisions}
  BY <1>9 DEF AnswerOf
<1>14. Promise!Pay(w, n)
  BY <1>1, <1>3, <1>5, <1>6, <1>8, <1>11, <1>12, <1>13, CallFields DEF Promise!Pay
<1> QED BY <1>1, <1>14 DEF Promise!Next

LEMMA EmitAnswers ==
    ASSUME PromiseInv, NEW w \in Workers, Emit(w), UNCHANGED <<storeVars, tokenVars>>
    PROVE  Promise!Next
<1> DEFINE r == AnswerOf(Record(w, counter))
           outcome == OutcomeOf(draft[w].state)
<1>1. OpenCalls[w] # NoToken /\ OpenCalls[w] = CallOf(w) /\ pc[w] = "emit"
  BY OpenIsCall DEF Emit, PromiseInv
<1>2. r = [id |-> counter, asset |-> OpenCalls[w].asset, late |-> OpenCalls[w].late,
           outcome |-> outcome, paid |-> OpenCalls[w].paid]
  BY <1>1, CallFields DEF AnswerOf, Record
<1>3. {AnswerOf(d) : d \in decisions}' = {AnswerOf(d) : d \in decisions} \cup {r}
  BY DEF Emit, AnswerOf, Record
<1>4. \A s \in {AnswerOf(d) : d \in decisions} : s.id # counter
  BY DEF AnswerOf, PromiseInv, SequenceUnique, TypeOK, GatewayTypeOK, Decision
<1>5. OpenCalls' = [OpenCalls EXCEPT ![w] = NoToken]
  <2>1. \A x \in Workers : /\ pc'[x] = IF x = w THEN "idle" ELSE pc[x]
                           /\ x # w => /\ req'[x] = req[x] /\ late'[x] = late[x]
                                       /\ draft'[x] = draft[x]
    BY DEF Emit, PromiseInv, TypeOK, GatewayTypeOK
  <2>2. \A x \in Workers \ {w} : FoundClear(x)' = FoundClear(x)
    BY <2>1 DEF FoundClear
  <2> QED BY <2>1, <2>2 DEF OpenCalls
<1>6. UNCHANGED <<OfferedAssets, PricedAssets, withdrawn, usedNonces>>
  BY DEF storeVars, tokenVars, OfferedAssets, PricedAssets, Registered
<1>7. counter \in {s.id : s \in {AnswerOf(d) : d \in decisions}'}
  BY <1>2, <1>3
<1> HIDE DEF r, outcome
<1>8. Promise!Answer(w, counter, outcome)
  BY <1>1, <1>2, <1>3, <1>4, <1>5, <1>6 DEF Promise!Answer
<1>9. /\ OpenCalls[w].late = late[w] /\ OpenCalls[w].asset = req[w].asset
      /\ OpenCalls[w].clear = FoundClear(w) /\ OpenCalls[w].paid = draft[w].nonce
  BY <1>1, CallFields
<1>10. draft[w].state # "Blocked" => FoundClear(w) = TRUE
  BY <1>1 DEF FoundClear, PromiseInv, DraftsNamed, Missed
<1>11. draft[w].state \in States /\ Grants = {"Allowed", "Human Review"}
       /\ States = {"Allowed", "Human Review", "Conditional", "Blocked"}
  BY DEF PromiseInv, TypeOK, GatewayTypeOK, Draft, States, Grants
<1>12. CASE draft[w].state \in Grants
  <2>1. Authorised(req[w], at[w], draft[w])
    BY <1>12 DEF Emit, PromiseInv, GrantInv, DraftsAuthorised
  <2>2. ~late[w]
    BY <1>11, <1>12 DEF PromiseInv, LateInv, LateCallsBlocked
  <2>3. req[w].asset \in OfferedAssets
    BY <2>1, RequestAsset DEF Emit, OfferedAssets, Authorised, PromiseInv, TypeOK, GatewayTypeOK
  <2>4. req[w].asset \in PricedAssets <=> draft[w].nonce # NoToken
    BY <2>1, <2>3, TokenAssumption DEF OfferedAssets, PricedAssets, Authorised, Consented, InScope
  <2>5. outcome = "granted"
    BY <1>11, <1>12 DEF outcome, OutcomeOf
  <2>6. Promise!Answer(w, counter, "granted")
    BY <1>8, <2>5
  <2>7. OpenCalls[w].clear
    BY <1>9, <1>10, <1>11, <1>12
  <2>8. Promise!Grant(w, counter)
    BY <1>9, <2>2, <2>3, <2>4, <2>6, <2>7, Zenon DEF Promise!Grant
  <2> QED BY <1>7, <2>8 DEF Promise!Next
<1>13. CASE draft[w].state = "Conditional"
  <2>1. draft[w].nonce = NoToken
    BY <1>11, <1>13 DEF PromiseInv, NonceInv, OneGrantPerNonce
  <2>2. req[w].asset \in PricedAssets
    BY <1>13 DEF PromiseInv, DraftsNamed
  <2>3. outcome = "held"
    BY <1>11, <1>13 DEF outcome, OutcomeOf
  <2>4. Promise!Answer(w, counter, "held")
    BY <1>8, <2>3
  <2>5. OpenCalls[w].clear
    BY <1>9, <1>10, <1>13
  <2>6. Promise!Defer(w, counter)
    BY <1>9, <2>1, <2>2, <2>4, <2>5, Zenon DEF Promise!Defer
  <2> QED BY <1>7, <2>6 DEF Promise!Next
<1>14. CASE draft[w].state = "Blocked"
  <2>1. draft[w].nonce = NoToken
    BY <1>11, <1>14 DEF PromiseInv, NonceInv, OneGrantPerNonce
  <2>2. outcome = "refused"
    BY <1>11, <1>14 DEF outcome, OutcomeOf
  <2>3. Promise!Answer(w, counter, "refused")
    BY <1>8, <2>2
  <2>4. Promise!Refuse(w, counter)
    BY <1>9, <2>1, <2>3, Zenon DEF Promise!Refuse
  <2> QED BY <1>7, <2>4 DEF Promise!Next
<1> QED BY <1>11, <1>12, <1>13, <1>14

LEMMA StoreOffers ==
    ASSUME PromiseInv, StoreStep
    PROVE  [Promise!Next]_(Promise!promiseVars)
<1>1. OpenCalls' = OpenCalls /\ usedNonces' = usedNonces
      /\ {AnswerOf(d) : d \in decisions}' = {AnswerOf(d) : d \in decisions}
  BY DEF StoreStep, gatewayVars, callVars, tokenVars, OpenCalls, FoundClear, AnswerOf
<1>2. ASSUME NEW a \in Assets, NEW m \in Metadata, NEW gone \in BOOLEAN, Register(a, m, gone)
      PROVE  Promise!Offer(a)
  <2>1. m # Absent /\ catalog' = [catalog EXCEPT ![a] = m] /\ ~Registered(a)
    BY <1>2, StoreAssumption DEF Register
  <2>2. OfferedAssets' = OfferedAssets \cup {a} /\ a \notin OfferedAssets
    BY <2>1 DEF OfferedAssets, Registered, PromiseInv, TypeOK, StoreTypeOK
  <2>3. PricedAssets' \in {PricedAssets, PricedAssets \cup {a}}
    <3>1. CASE m.consent
      <4>1. PricedAssets' = PricedAssets \cup {a}
        BY <2>1, <3>1 DEF PricedAssets, Registered, PromiseInv, TypeOK, StoreTypeOK
      <4> QED BY <4>1
    <3>2. CASE ~m.consent
      <4>1. PricedAssets' = PricedAssets
        BY <2>1, <3>2 DEF PricedAssets, Registered, PromiseInv, TypeOK, StoreTypeOK
      <4> QED BY <4>1
    <3> QED BY <3>1, <3>2
  <2>4. withdrawn' \in {withdrawn, withdrawn \cup {a}}
    BY <1>2 DEF Register
  <2> QED BY <1>1, <2>2, <2>3, <2>4 DEF Promise!Offer
<1>3. ASSUME NEW v \in Revokers, NEW a \in Assets, WithdrawMark(v, a)
      PROVE  Promise!Withdraw(a)
  BY <1>1, <1>3 DEF WithdrawMark, Promise!Withdraw, OfferedAssets, PricedAssets, Registered
<1> QED BY <1>2, <1>3 DEF StoreStep, Promise!Next

(* Stated for any value of the field: the provers type a Boolean one.      *)
LEMMA FieldSet ==
    ASSUME NEW a, NEW l, NEW old, NEW new, NEW n
    PROVE  [[asset |-> a, late |-> l, clear |-> old, paid |-> n] EXCEPT !.clear = new]
             = [asset |-> a, late |-> l, clear |-> new, paid |-> n]
OBVIOUS

(* A call that finds its asset registered and not withdrawn.               *)
LEMMA FetchLooks ==
    ASSUME PromiseInv, NEW w \in Workers, pc[w] = "fetch", NEW p \in {"probe", "emit"}, NEW d,
           UNCHANGED <<catalog, withdrawn, usedNonces, req, late, decisions>>,
           pc' = [pc EXCEPT ![w] = p], draft' = [draft EXCEPT ![w] = d],
           d.nonce = NoToken, d.reason \notin Missed,
           Registered(req[w].asset), req[w].asset \notin withdrawn
    PROVE  Promise!Next
<1>1. OpenCalls[w] = CallOf(w) /\ OpenCalls[w] # NoToken
  BY OpenIsCall DEF PromiseInv
<1>2. draft[w].nonce = NoToken
  BY DEF PromiseInv, DraftsOnlyAtEmit, NoDraft
<1>3. \A x \in Workers : /\ pc'[x] = IF x = w THEN p ELSE pc[x]
                         /\ draft'[x] = IF x = w THEN d ELSE draft[x]
  BY DEF PromiseInv, TypeOK, GatewayTypeOK
<1>4. \A x \in Workers : FoundClear(x)' = IF x = w THEN TRUE ELSE FoundClear(x)
  <2>1. FoundClear(w)' = TRUE
    BY <1>3 DEF FoundClear, Missed
  <2>2. \A x \in Workers \ {w} : FoundClear(x)' = FoundClear(x)
    BY <1>3 DEF FoundClear
  <2> QED BY <2>1, <2>2
<1>5. FoundClear(w) = FALSE
  BY DEF FoundClear
<1>6. OpenCalls' = [OpenCalls EXCEPT ![w].clear = TRUE]
  <2>1. ASSUME NEW x \in Workers, x # w PROVE OpenCalls'[x] = OpenCalls[x]
    BY <1>3, <1>4, <2>1 DEF OpenCalls
  <2>2. OpenCalls'[w] = CallOf(w)'
    BY <1>3 DEF OpenCalls, CallOf
  <2>3. CallOf(w)' = [CallOf(w) EXCEPT !.clear = TRUE]
    <3>1. FoundClear(w)' = TRUE /\ draft'[w].nonce = draft[w].nonce
      BY <1>2, <1>3, <1>4
    <3>2. CallOf(w)' = [asset |-> req[w].asset, late |-> late[w], clear |-> TRUE,
                        paid |-> draft[w].nonce]
      BY <3>1 DEF CallOf
    <3>3. PICK new : new = TRUE
      OBVIOUS
    <3>4. PICK old : old = FoundClear(w)
      OBVIOUS
    <3>5. CallOf(w) = [asset |-> req[w].asset, late |-> late[w], clear |-> old,
                       paid |-> draft[w].nonce]
      BY <3>4 DEF CallOf
    <3>6. CallOf(w)' = [asset |-> req[w].asset, late |-> late[w], clear |-> new,
                        paid |-> draft[w].nonce]
      BY <3>2, <3>3
    <3>7. CallOf(w)' = [CallOf(w) EXCEPT !.clear = new]
      BY <3>5, <3>6, FieldSet
    <3> QED BY <3>3, <3>7
  <2>4. /\ OpenCalls = [x \in Workers |-> OpenCalls[x]]
        /\ OpenCalls' = [x \in Workers |-> OpenCalls'[x]]
    BY DEF OpenCalls
  <2> QED BY <1>1, <2>1, <2>2, <2>3, <2>4
<1>7. req[w].asset \in OfferedAssets \ withdrawn
  BY RequestAsset DEF OfferedAssets, PromiseInv, TypeOK, GatewayTypeOK
<1>8. UNCHANGED <<OfferedAssets, PricedAssets>>
  BY DEF OfferedAssets, PricedAssets, Registered
<1>9. {AnswerOf(e) : e \in decisions}' = {AnswerOf(e) : e \in decisions}
  BY DEF AnswerOf
<1>10. Promise!Look(w)
  <2>1. /\ OpenCalls[w].asset \in OfferedAssets \ withdrawn
        /\ ~OpenCalls[w].clear
    BY <1>1, <1>5, <1>7, CallFields
  <2>2. UNCHANGED <<withdrawn, usedNonces>>
    OBVIOUS
  <2> QED BY <1>1, <1>6, <1>8, <1>9, <2>1, <2>2 DEF Promise!Look
<1> QED BY <1>10 DEF Promise!Next

(* The steps of a call that fetch the record, and those that follow, are   *)
(* its look or invisible.                                                  *)
LEMMA ReadStepLooks ==
    ASSUME PromiseInv, NEW w \in Workers, ReadStep(w), ~Emit(w), UNCHANGED <<storeVars, tokenVars>>
    PROVE  [Promise!Next]_(Promise!promiseVars)
<1>1. UNCHANGED <<catalog, withdrawn, usedNonces>>
  BY DEF storeVars, tokenVars
<1>2. ASSUME NEW d, Conclude(w, d), d.nonce = NoToken, pc[w] = "fetch", d.reason \notin Missed,
             Registered(req[w].asset), req[w].asset \notin withdrawn
      PROVE  Promise!Next
  BY <1>1, <1>2, FetchLooks DEF Conclude
<1>3. ASSUME NEW d, Conclude(w, d), d.nonce = NoToken, pc[w] \notin {"idle", "emit"},
             d.reason \in Missed <=> pc[w] = "fetch"
      PROVE  UNCHANGED Promise!promiseVars
  <2>1. draft[w] = NoDraft /\ draft[w].nonce = NoToken /\ draft[w].reason \notin Missed
    BY <1>3 DEF PromiseInv, DraftsOnlyAtEmit, NoDraft, Missed
  <2>2. /\ UNCHANGED <<req, late, decisions>>
        /\ \A x \in Workers : /\ pc'[x] = IF x = w THEN "emit" ELSE pc[x]
                              /\ draft'[x] = IF x = w THEN d ELSE draft[x]
    BY <1>3 DEF Conclude, PromiseInv, TypeOK, GatewayTypeOK
  <2>3. \A x \in Workers : FoundClear(x)' = FoundClear(x)
    <3>1. FoundClear(w)' = FoundClear(w)
      BY <1>3, <2>1, <2>2 DEF FoundClear, Missed
    <3>2. \A x \in Workers \ {w} : FoundClear(x)' = FoundClear(x)
      BY <2>2 DEF FoundClear
    <3> QED BY <3>1, <3>2
  <2> QED BY <1>1, <1>3, <2>1, <2>2, <2>3, Invisible
<1>4. CASE FetchUnknown(w)
  <2>1. Conclude(w, Refusal("unknown_asset")) /\ pc[w] = "fetch"
    BY <1>4 DEF FetchUnknown, Fetch
  <2> QED BY <1>3, <2>1, RefusalNamed DEF Missed
<1>5. CASE RefuseByRule(w)
  <2>1. pc[w] = "fetch" /\ Registered(req[w].asset)
    BY <1>5 DEF RefuseByRule, Fetch
  <2>2. PICK i \in DOMAIN RuleOrder :
          /\ FirstBroken(i, req[w], snap'[w], req[w].asset \in withdrawn, at[w])
          /\ Conclude(w, Refusal(RuleOrder[i]))
    BY <1>5 DEF RefuseByRule
  <2>3. CASE i = 1
    <3>1. RuleOrder[i] = "withdrawn"
      BY <2>3 DEF RuleOrder
    <3> QED BY <1>3, <2>1, <2>2, <3>1, RefusalNamed DEF Missed
  <2>4. CASE i # 1
    <3>1. 1 \in 1..(i - 1) /\ RuleOrder[1] = "withdrawn" /\ RuleOrder[i] \notin Missed
      BY <2>4 DEF RuleOrder, Missed
    <3>2. req[w].asset \notin withdrawn
      <4>1. ~Broken(req[w], snap'[w], req[w].asset \in withdrawn, at[w])["withdrawn"]
        BY <2>2, <3>1 DEF FirstBroken
      <4>2. Broken(req[w], snap'[w], TRUE, at[w])["withdrawn"] = TRUE
        BY DEF Broken
      <4> QED BY <4>1, <4>2
    <3> QED BY <1>2, <2>1, <2>2, <3>1, <3>2, RefusalNamed
  <2> QED BY <2>3, <2>4
<1>6. FetchClear(w) => pc[w] = "fetch" /\ Registered(req[w].asset) /\ req[w].asset \notin withdrawn
  BY WithdrawnIsNotClear DEF FetchClear, Fetch
<1>7. CASE PassWithoutConsent(w) \/ AwaitConsent(w)
  <2>1. FetchClear(w) /\ (Conclude(w, Grant(req[w], NoToken)) \/ Conclude(w, Hold))
    BY <1>7 DEF PassWithoutConsent, AwaitConsent
  <2>2. Hold.reason \notin Missed /\ Hold.nonce = NoToken
    BY DEF Hold, Missed
  <2> QED BY <1>2, <1>6, <2>1, <2>2, GrantNamed
<1>8. CASE BeginProbe(w)
  <2>1. /\ FetchClear(w) /\ pc' = [pc EXCEPT ![w] = "probe"]
        /\ UNCHANGED <<req, late, draft, decisions>>
    BY <1>8 DEF BeginProbe
  <2>2. draft[w] = NoDraft /\ NoDraft.nonce = NoToken /\ NoDraft.reason \notin Missed
    BY <1>6, <2>1 DEF PromiseInv, DraftsOnlyAtEmit, NoDraft, Missed
  <2>3. draft' = [draft EXCEPT ![w] = NoDraft]
    BY <2>1, <2>2 DEF PromiseInv, TypeOK, GatewayTypeOK
  <2> QED BY <1>1, <1>6, <2>1, <2>2, <2>3, FetchLooks
<1>9. CASE ProbeExhausted(w) \/ ConsumeCrash(w) \/ ConsumeExhausted(w)
  <2>1. pc[w] \in {"probe", "consume"}
        /\ \E reason \in TokenErrors \cup {"fail_closed"} : Conclude(w, Refusal(reason))
    BY <1>9, OtherReasons DEF ProbeExhausted, ConsumeCrash, ConsumeExhausted, PromiseInv, TypeOK,
       GatewayTypeOK
  <2>2. \A reason \in TokenErrors \cup {"fail_closed"} : reason \notin Missed
    BY DEF TokenErrors, Missed
  <2> QED BY <1>3, <2>1, <2>2, RefusalNamed
<1>10. CASE ProbeAccept(w) \/ ProbeReject(w) \/ ConsumeReject(w)
  <2>1. UNCHANGED <<req, late, draft, decisions>>
    BY <1>10 DEF ProbeAccept, ProbeReject, ConsumeReject, NextToken
  <2>2. \A x \in Workers : /\ pc'[x] = "idle" <=> pc[x] = "idle"
                           /\ pc'[x] = "fetch" <=> pc[x] = "fetch"
    BY <1>10 DEF ProbeAccept, ProbeReject, ConsumeReject, NextToken, PromiseInv, TypeOK, GatewayTypeOK
  <2>3. \A x \in Workers : FoundClear(x)' = FoundClear(x)
    BY <2>1, <2>2 DEF FoundClear
  <2> QED BY <1>1, <2>1, <2>2, <2>3, Invisible
<1>11. CASE DiscardOverlong(w)
  <2>1. draft[w].nonce = NoToken
    BY <1>11 DEF DiscardOverlong, PromiseInv, NonceInv, EscalationsUnpaid
  <2>2. /\ UNCHANGED <<pc, req, late, decisions>> /\ pc[w] = "emit"
        /\ draft[w].reason = "privilege_escalation"
        /\ \A x \in Workers : draft'[x] = IF x = w THEN Refusal("fail_closed") ELSE draft[x]
    BY <1>11 DEF DiscardOverlong, Escalated, PromiseInv, TypeOK, GatewayTypeOK
  <2>3. \A x \in Workers : draft'[x].nonce = draft[x].nonce /\ FoundClear(x)' = FoundClear(x)
    <3>1. draft'[w].nonce = draft[w].nonce /\ FoundClear(w)' = FoundClear(w)
      BY <2>1, <2>2, RefusalNamed DEF FoundClear
    <3>2. \A x \in Workers \ {w} : draft'[x].nonce = draft[x].nonce /\ FoundClear(x)' = FoundClear(x)
      BY <2>2 DEF FoundClear
    <3> QED BY <3>1, <3>2
  <2> QED BY <1>1, <2>2, <2>3, Invisible
<1> QED BY <1>4, <1>5, <1>7, <1>8, <1>9, <1>10, <1>11 DEF ReadStep

(* Every behaviour of the gateway is one GatewayPromise allows.            *)
THEOREM GatewayKeepsPromise == Spec => KeepsPromise
<1>1. PromiseInv /\ [Next]_vars => [Promise!Next]_(Promise!promiseVars)
  <2> SUFFICES ASSUME PromiseInv, [Next]_vars PROVE [Promise!Next]_(Promise!promiseVars)
    OBVIOUS
  <2>1. ASSUME NEW w \in Workers, Advance(w) PROVE [Promise!Next]_(Promise!promiseVars)
    BY <2>1, EmitAnswers, ReadStepLooks, ConsumePays DEF Advance
  <2>2. CASE TokenStep \/ UNCHANGED vars
    <3>1. UNCHANGED <<catalog, withdrawn, usedNonces, decisions, pc, req, late, draft>>
      BY <2>2 DEF TokenStep, Mint, Tick, vars, storeVars, tokenVars, gatewayVars, callVars
    <3>2. \A w \in Workers : FoundClear(w)' = FoundClear(w)
      BY <3>1 DEF FoundClear
    <3> QED BY <3>1, <3>2, Invisible
  <2> QED BY <2>1, <2>2, CallOpens, StoreOffers DEF Next
<1>2. Spec => []PromiseInv
  BY TypeCorrect, DraftsFresh, LateInvariant, NonceInvariant, GrantsInvariant, NumbersUnique,
     NamesInvariant, PTL DEF PromiseInv
<1> QED BY <1>1, <1>2, InitPromise, PTL DEF Spec, KeepsPromise, Promise!Spec

=============================================================================
