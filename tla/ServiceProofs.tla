---------------------------- MODULE ServiceProofs ----------------------------
(***************************************************************************)
(* Theorems about Service, for any number of threads, requests and assets  *)
(* and a pool of any size: types, what a revocation guarantees over the    *)
(* wire, and that the service implements GatewayPromise.                   *)
(***************************************************************************)
EXTENDS Service, SequenceTheorems, TLAPS

-----------------------------------------------------------------------------
(* The invariant                                                           *)

(* Threads wait in the queue once, with a request.                         *)
QueueSound ==
    /\ \A i \in DOMAIN queue : At(queue[i], "queued")
    /\ \A i, j \in DOMAIN queue : queue[i] = queue[j] => i = j

TypeInv == ServiceTypeOK /\ QueueSound

(* A gateway that is there is not being built; before the first is built   *)
(* the registry is empty.                                                  *)
GatewaySound ==
    /\ ~(built /\ building)
    /\ ~built /\ ~building => withdrawn = {} /\ \A a \in Assets : ~Registered(a)

Evaluated(k) == k.step = "reply" /\ k.code = 200

(* What a request that got so far says of the registry: that a gateway is  *)
(* there, that the asset it revoked or found withdrawn is withdrawn, and   *)
(* that it is refused if it asks for one a client was told is revoked.     *)
CallSound(k) ==
    /\ k.step # "reply" => k.code = 200
    /\ k.step \in {"withdraw", "probe", "read"} \/ Evaluated(k) => built
    /\ k.kind = "revoke" /\ (k.step \in {"probe", "read"} \/ Evaluated(k)) => k.asset \in withdrawn
    /\ k.step = "read" /\ k.late => k.asset \in withdrawn
    /\ Evaluated(k) => /\ k.kind = "revoke" \/ k.late => k.blocked
                       /\ ~k.blocked => Registered(k.asset)
    /\ Evaluated(k) /\ k.kind = "evaluate" =>
         \A i \in 1..k.since : Done(i, "revoke", k.asset) => k.blocked
    /\ k.since <= Len(replies)

CallsSound == \A c \in Clients : calls[c] # NoCall => CallSound(calls[c])

RepliesSound ==
    /\ \A i \in DOMAIN replies, a \in Assets :
         Done(i, "revoke", a) => replies[i].blocked /\ built /\ a \in withdrawn
    /\ \A j \in DOMAIN replies : replies[j].since < j
    /\ \A i, j \in DOMAIN replies, a \in Assets :
         Done(i, "revoke", a) /\ Done(j, "evaluate", a) /\ i <= replies[j].since => replies[j].blocked

RevokeInv == GatewaySound /\ CallsSound /\ RepliesSound

-----------------------------------------------------------------------------
(* Proofs: types                                                           *)

LEMMA CallOf ==
    ASSUME ServiceTypeOK, NEW c \in Clients, calls[c] # NoCall
    PROVE  /\ calls[c] \in Call
           /\ calls[c].kind \in Kinds /\ calls[c].asset \in Assets /\ calls[c].code \in Codes
           /\ calls[c].blocked \in BOOLEAN /\ calls[c].late \in BOOLEAN /\ calls[c].since \in Nat
           /\ calls[c].step \in {"queued", "enter", "withdraw", "probe", "read", "reply"}
BY DEF ServiceTypeOK, Call

LEMMA Lengths ==
    ASSUME ServiceTypeOK
    PROVE  /\ Len(replies) \in Nat /\ DOMAIN replies = 1..Len(replies)
           /\ Len(queue) \in Nat /\ DOMAIN queue = 1..Len(queue)
           /\ Len(listeners) \in Nat /\ DOMAIN listeners = 1..Len(listeners)
BY LenProperties DEF ServiceTypeOK, StoreTypeOK

LEMMA WithdrawTypes ==
    ASSUME ServiceTypeOK, NEW c \in Clients, NEW a \in Assets, WithdrawMark(c, a)
    PROVE  StoreTypeOK'
<1> DEFINE owed == [i \in DOMAIN listeners |->
                      [listener |-> listeners[i], asset |-> a, ns |-> mono + 1]]
<1>1. DOMAIN listeners = 1..Len(listeners) /\ Len(listeners) \in Nat
  BY Lengths
<1>2. \A i \in DOMAIN listeners : owed[i] \in Notification
  BY <1>1, ElementOfSeq DEF ServiceTypeOK, StoreTypeOK, Notification
<1>3. owed \in Seq(Notification)
  BY <1>1, <1>2
<1>4. pending' = [pending EXCEPT ![c] = owed]
  BY DEF WithdrawMark
<1> HIDE DEF owed
<1>5. pending' \in [Revokers -> Seq(Notification)]
  BY <1>3, <1>4 DEF ServiceTypeOK, StoreTypeOK, Clients
<1>6. mono' \in Nat /\ revokedAt' \in [Assets -> Nat]
  BY DEF WithdrawMark, ServiceTypeOK, StoreTypeOK
<1>7. withdrawn' \in SUBSET Assets /\ UNCHANGED <<catalog, listeners>>
  BY DEF WithdrawMark, ServiceTypeOK, StoreTypeOK
<1> QED BY <1>5, <1>6, <1>7 DEF ServiceTypeOK, StoreTypeOK

(* The posted request.                                                     *)
NewCall(kind, a) ==
    [kind |-> kind, asset |-> a, step |-> "queued", code |-> 200,
     blocked |-> FALSE, late |-> FALSE, since |-> Len(replies)]

LEMMA PostEffect ==
    ASSUME ServiceTypeOK, NEW c \in Clients, NEW kind \in Kinds, NEW a \in Assets, Post(c, kind, a)
    PROVE  /\ calls[c] = NoCall /\ NewCall(kind, a) \in Call /\ NewCall(kind, a) # NoCall
           /\ calls' = [calls EXCEPT ![c] = NewCall(kind, a)]
           /\ queue' = Append(queue, c)
           /\ UNCHANGED <<storeVars, built, building, replies>>
<1>1. NewCall(kind, a) \in Call
  BY Lengths DEF NewCall, Call, Codes
<1> QED BY <1>1, ServiceAssumption DEF Post, NewCall

LEMMA PostTypes ==
    ASSUME TypeInv, NEW c \in Clients, NEW kind \in Kinds, NEW a \in Assets, Post(c, kind, a)
    PROVE  TypeInv'
<1> DEFINE k == NewCall(kind, a)
           n == Len(queue) + 1
<1>1. /\ calls[c] = NoCall /\ k \in Call /\ k # NoCall /\ k.step = "queued"
      /\ calls' = [calls EXCEPT ![c] = k] /\ queue' = Append(queue, c)
      /\ UNCHANGED <<storeVars, built, building, replies>>
  BY PostEffect DEF TypeInv, NewCall
<1> HIDE DEF k
<1>2. ServiceTypeOK'
  BY <1>1, AppendProperties DEF TypeInv, ServiceTypeOK, StoreTypeOK, storeVars
<1>3. /\ DOMAIN queue' = DOMAIN queue \cup {n} /\ n \notin DOMAIN queue
      /\ queue'[n] = c /\ \A i \in DOMAIN queue : queue'[i] = queue[i] /\ queue[i] \in Clients
  BY <1>1, Lengths, AppendProperties, LenProperties, ElementOfSeq DEF TypeInv, ServiceTypeOK
<1> HIDE DEF n
<1>4. \A i \in DOMAIN queue : queue[i] # c
  BY <1>1 DEF TypeInv, QueueSound, At
<1>5. QueueSound'
  BY <1>1, <1>3, <1>4 DEF TypeInv, ServiceTypeOK, QueueSound, At
<1> QED BY <1>2, <1>5 DEF TypeInv

(* The head of the queue, and what StartWork makes of its request.         *)
LEMMA StepMoves ==
    ASSUME NEW S, NEW R, NEW f \in [S -> R], NEW c \in S, NEW s
    PROVE  [f EXCEPT ![c].step = s] = [f EXCEPT ![c] = [f[c] EXCEPT !.step = s]]
BY Zenon

LEMMA StepAndCodeMove ==
    ASSUME NEW S, NEW R, NEW f \in [S -> R], NEW c \in S, NEW s, NEW n
    PROVE  [f EXCEPT ![c].step = s, ![c].code = n]
             = [f EXCEPT ![c] = [f[c] EXCEPT !.step = s, !.code = n]]
BY Zenon

LEMMA StepAndVerdictMove ==
    ASSUME NEW S, NEW R, NEW f \in [S -> R], NEW c \in S, NEW s, NEW b
    PROVE  [f EXCEPT ![c].step = s, ![c].blocked = b]
             = [f EXCEPT ![c] = [f[c] EXCEPT !.step = s, !.blocked = b]]
BY Zenon

LEMMA StartEffect ==
    ASSUME TypeInv, StartWork
    PROVE  \E c \in Clients : \E k \in Call :
             /\ At(c, "queued") /\ c = Head(queue)
             /\ calls' = [calls EXCEPT ![c] = k]
             /\ \/ k = [calls[c] EXCEPT !.step = "enter"]
                \/ k = [calls[c] EXCEPT !.step = "reply", !.code = 400]
             /\ queue' = Tail(queue)
             /\ UNCHANGED <<storeVars, built, building, replies>>
<1> DEFINE c == Head(queue)
<1>1. queue # <<>> /\ queue \in Seq(Clients)
  BY DEF StartWork, TypeInv, ServiceTypeOK
<1>2. c \in Clients /\ c = queue[1] /\ 1 \in DOMAIN queue
  BY <1>1, HeadTailProperties, LenProperties, EmptySeq
<1>3. At(c, "queued")
  BY <1>2 DEF TypeInv, QueueSound
<1>4. calls[c] \in Call
  BY <1>2, <1>3, CallOf DEF At, TypeInv
<1>5. /\ [calls[c] EXCEPT !.step = "enter"] \in Call
      /\ [calls[c] EXCEPT !.step = "reply", !.code = 400] \in Call
  <2>1. ASSUME NEW k \in Call PROVE [k EXCEPT !.step = "enter"] \in Call
    BY <2>1 DEF Call
  <2>2. ASSUME NEW k \in Call PROVE [k EXCEPT !.step = "reply", !.code = 400] \in Call
    <3> DEFINE r == [k EXCEPT !.step = "reply"]
    <3>1. r \in Call
      BY <2>2 DEF Call
    <3>2. [r EXCEPT !.code = 400] \in Call
      <4> HIDE DEF r
      <4> QED BY <3>1 DEF Call, Codes
    <3>3. [k EXCEPT !.step = "reply", !.code = 400] = [r EXCEPT !.code = 400]
      BY Zenon
    <3> QED BY <3>2, <3>3
  <2> HIDE DEF c
  <2> QED BY <1>4, <2>1, <2>2
<1>6. \/ calls' = [calls EXCEPT ![c] = [calls[c] EXCEPT !.step = "enter"]]
      \/ calls' = [calls EXCEPT ![c] = [calls[c] EXCEPT !.step = "reply", !.code = 400]]
  <2>1. calls \in [Clients -> Call \cup {NoCall}] /\ c \in Clients
    BY <1>2 DEF TypeInv, ServiceTypeOK
  <2>2. \/ calls' = [calls EXCEPT ![c].step = "enter"]
        \/ calls' = [calls EXCEPT ![c].step = "reply", ![c].code = 400]
    BY Zenon DEF StartWork, c
  <2> HIDE DEF c
  <2>3. [calls EXCEPT ![c].step = "enter"] = [calls EXCEPT ![c] = [calls[c] EXCEPT !.step = "enter"]]
    BY <2>1, StepMoves, Zenon
  <2>4. [calls EXCEPT ![c].step = "reply", ![c].code = 400]
          = [calls EXCEPT ![c] = [calls[c] EXCEPT !.step = "reply", !.code = 400]]
    <3>1. PICK n : n = 400
      OBVIOUS
    <3>2. [calls EXCEPT ![c].step = "reply", ![c].code = n]
            = [calls EXCEPT ![c] = [calls[c] EXCEPT !.step = "reply", !.code = n]]
      BY <2>1, StepAndCodeMove, Zenon
    <3> QED BY <3>1, <3>2
  <2> QED BY <2>2, <2>3, <2>4, Zenon
<1>7. queue' = Tail(queue) /\ UNCHANGED <<storeVars, built, building, replies>>
  BY DEF StartWork
<1>8. \E k \in Call :
         /\ calls' = [calls EXCEPT ![c] = k]
         /\ \/ k = [calls[c] EXCEPT !.step = "enter"]
            \/ k = [calls[c] EXCEPT !.step = "reply", !.code = 400]
  <2> DEFINE k1 == [calls[c] EXCEPT !.step = "enter"]
             k2 == [calls[c] EXCEPT !.step = "reply", !.code = 400]
  <2>1. k1 \in Call /\ k2 \in Call
    BY <1>5
  <2>2. calls' = [calls EXCEPT ![c] = k1] \/ calls' = [calls EXCEPT ![c] = k2]
    BY <1>6, Zenon
  <2> SUFFICES \E k \in Call : calls' = [calls EXCEPT ![c] = k] /\ (k = k1 \/ k = k2)
    OBVIOUS
  <2> HIDE DEF c, k1, k2
  <2> QED BY <2>1, <2>2, Zenon
<1>9. c = Head(queue)
  OBVIOUS
<1> HIDE DEF c
<1> QED BY <1>2, <1>3, <1>7, <1>8, <1>9, Zenon

LEMMA StartTypes == ASSUME TypeInv, StartWork PROVE TypeInv'
<1>1. PICK c \in Clients, k \in Call :
             /\ At(c, "queued") /\ c = Head(queue)
             /\ calls' = [calls EXCEPT ![c] = k]
             /\ queue' = Tail(queue)
             /\ UNCHANGED <<storeVars, built, building, replies>>
  BY StartEffect
<1>2. queue \in Seq(Clients) /\ queue # <<>>
  BY DEF StartWork, TypeInv, ServiceTypeOK
<1>3. ServiceTypeOK'
  <2>1. queue' \in Seq(Clients)
    BY <1>1, <1>2, HeadTailProperties
  <2>2. calls' \in [Clients -> Call \cup {NoCall}]
    BY <1>1 DEF TypeInv, ServiceTypeOK
  <2> QED BY <1>1, <2>1, <2>2 DEF TypeInv, ServiceTypeOK, StoreTypeOK, storeVars
<1>4. /\ \A i \in DOMAIN queue' : i + 1 \in DOMAIN queue /\ queue'[i] = queue[i + 1] /\ i # 0 /\ i \in Int
      /\ 1 \in DOMAIN queue /\ c = queue[1]
  BY <1>1, <1>2, Lengths, HeadTailProperties, LenProperties, EmptySeq DEF TypeInv
<1>5. \A i \in DOMAIN queue' : queue'[i] # c
  BY <1>4 DEF TypeInv, QueueSound
<1>6. \A i \in DOMAIN queue' : At(queue[i + 1], "queued") /\ queue[i + 1] \in Clients
  BY <1>4, <1>2, Lengths, ElementOfSeq DEF TypeInv, QueueSound
<1>8. ASSUME NEW i \in DOMAIN queue' PROVE calls'[queue'[i]] = calls[queue'[i]]
  BY <1>8, <1>1, <1>4, <1>5, <1>6 DEF TypeInv, ServiceTypeOK
<1>7. \A i, j \in DOMAIN queue' : queue'[i] = queue'[j] => i = j
  BY <1>4 DEF TypeInv, QueueSound
<1>9. \A i \in DOMAIN queue' : calls'[queue'[i]] # NoCall /\ calls'[queue'[i]].step = "queued"
  BY <1>4, <1>6, <1>8 DEF At
<1> QED BY <1>3, <1>7, <1>9 DEF TypeInv, QueueSound, At

Steps == {"queued", "enter", "withdraw", "probe", "read", "reply"}

LEMMA Advanced ==
    ASSUME NEW k \in Call, NEW s \in Steps, NEW n \in Codes, NEW b \in BOOLEAN
    PROVE  /\ [k EXCEPT !.step = s] \in Call
           /\ [k EXCEPT !.step = s, !.code = n] \in Call
           /\ [k EXCEPT !.step = s, !.blocked = b] \in Call
           /\ [k EXCEPT !.step = s, !.late = b] \in Call
<1> DEFINE r == [k EXCEPT !.step = s]
<1>1. r \in Call
  BY DEF Call, Steps
<1>2. ASSUME NEW q \in Call
      PROVE [q EXCEPT !.code = n] \in Call /\ [q EXCEPT !.blocked = b] \in Call
            /\ [q EXCEPT !.late = b] \in Call
  BY <1>2 DEF Call
<1>3. /\ [k EXCEPT !.step = s, !.code = n] = [r EXCEPT !.code = n]
      /\ [k EXCEPT !.step = s, !.blocked = b] = [r EXCEPT !.blocked = b]
      /\ [k EXCEPT !.step = s, !.late = b] = [r EXCEPT !.late = b]
  BY Zenon
<1> HIDE DEF r
<1> QED BY <1>1, <1>2, <1>3 DEF r

(* A request that is past the queue moves on, or is done with.             *)
LEMMA MoveTypes ==
    ASSUME TypeInv, NEW c \in Clients, NEW k \in Call \cup {NoCall}, ~At(c, "queued"),
           calls' = [calls EXCEPT ![c] = k], StoreTypeOK', built' \in BOOLEAN, building' \in BOOLEAN,
           replies' \in Seq(ReplyRecord), queue' = queue
    PROVE  TypeInv'
<1>1. ServiceTypeOK'
  BY DEF TypeInv, ServiceTypeOK
<1>2. \A i \in DOMAIN queue : queue[i] \in Clients /\ queue[i] # c
  BY Lengths, ElementOfSeq DEF TypeInv, ServiceTypeOK, QueueSound
<1>3. QueueSound'
  BY <1>2 DEF TypeInv, ServiceTypeOK, QueueSound, At
<1> QED BY <1>1, <1>3 DEF TypeInv

(* What a step of a request makes of it.                                   *)
Advance(c, k) ==
    \/ EnterStore(c) /\ k = [calls[c] EXCEPT !.step = "withdraw"]
    \/ EnterGateway(c) /\ k = [calls[c] EXCEPT !.step = "read", !.late = calls[c].asset \in withdrawn]
    \/ Withdraw(c) /\ k = [calls[c] EXCEPT !.step = "probe"]
    \/ WithdrawUnknown(c) /\ k = [calls[c] EXCEPT !.step = "reply", !.code = 404]
    \/ \E blocked \in Verdicts(calls[c].asset) :
          Evaluate(c) /\ k = [calls[c] EXCEPT !.step = "reply", !.blocked = blocked]

LEMMA ServeEffect ==
    ASSUME TypeInv, NEW c \in Clients,
           EnterStore(c) \/ EnterGateway(c) \/ Withdraw(c) \/ WithdrawUnknown(c) \/ Evaluate(c)
    PROVE  /\ calls[c] \in Call /\ calls[c] # NoCall /\ ~At(c, "queued")
           /\ \E k \in Call : calls' = [calls EXCEPT ![c] = k] /\ Advance(c, k)
           /\ UNCHANGED <<built, building, queue, replies>>
<1>1. calls[c] # NoCall /\ ~At(c, "queued") /\ UNCHANGED <<built, building, queue, replies>>
  BY DEF EnterStore, EnterGateway, WithdrawUnknown, Evaluate, Withdraw, At
<1>2. calls[c] \in Call
  BY <1>1, CallOf DEF TypeInv
<1>3. ASSUME NEW s \in Steps, NEW n \in Codes, NEW b \in BOOLEAN
      PROVE  /\ [calls[c] EXCEPT !.step = s] \in Call
             /\ [calls[c] EXCEPT !.step = s, !.code = n] \in Call
             /\ [calls[c] EXCEPT !.step = s, !.blocked = b] \in Call
             /\ [calls[c] EXCEPT !.step = s, !.late = b] \in Call
  BY <1>2, Advanced
<1>4. CASE EnterStore(c)
  <2>1. [calls[c] EXCEPT !.step = "withdraw"] \in Call
    <3>1. "withdraw" \in Steps /\ 200 \in Codes /\ TRUE \in BOOLEAN
      BY DEF Steps, Codes
    <3> QED BY <1>3, <3>1, Zenon
  <2> QED BY <1>1, <1>2, <1>4, <2>1 DEF EnterStore, Advance
<1>5. CASE EnterGateway(c)
  <2>1. (calls[c].asset \in withdrawn) \in BOOLEAN
    OBVIOUS
  <2>2. [calls[c] EXCEPT !.step = "read", !.late = calls[c].asset \in withdrawn] \in Call
    <3>1. "read" \in Steps /\ 200 \in Codes
      BY DEF Steps, Codes
    <3> QED BY <1>3, <2>1, <3>1, Zenon
  <2>3. calls' = [calls EXCEPT ![c] =
                    [calls[c] EXCEPT !.step = "read", !.late = calls[c].asset \in withdrawn]]
    BY <1>5 DEF EnterGateway, TypeInv, ServiceTypeOK
  <2> QED BY <1>1, <1>2, <1>5, <2>2, <2>3 DEF Advance
<1>6. CASE Withdraw(c)
  <2>1. [calls[c] EXCEPT !.step = "probe"] \in Call
    <3>1. "probe" \in Steps /\ 200 \in Codes /\ TRUE \in BOOLEAN
      BY DEF Steps, Codes
    <3> QED BY <1>3, <3>1, Zenon
  <2> QED BY <1>1, <1>2, <1>6, <2>1 DEF Withdraw, Advance
<1>7. CASE WithdrawUnknown(c)
  <2>1. [calls[c] EXCEPT !.step = "reply", !.code = 404] \in Call
    <3>1. "reply" \in Steps /\ 404 \in Codes
      BY DEF Steps, Codes
    <3>2. ASSUME NEW s \in Steps, NEW n \in Codes
          PROVE  [calls[c] EXCEPT !.step = s, !.code = n] \in Call
      <4>1. TRUE \in BOOLEAN
        OBVIOUS
      <4> QED BY <1>3, <4>1
    <3> QED BY <3>1, <3>2, Zenon
  <2>2. calls' = [calls EXCEPT ![c] = [calls[c] EXCEPT !.step = "reply", !.code = 404]]
    <3>1. calls \in [Clients -> Call \cup {NoCall}]
      BY DEF TypeInv, ServiceTypeOK
    <3>2. calls' = [calls EXCEPT ![c].step = "reply", ![c].code = 404]
      BY <1>7 DEF WithdrawUnknown
    <3>3. [calls EXCEPT ![c].step = "reply", ![c].code = 404]
            = [calls EXCEPT ![c] = [calls[c] EXCEPT !.step = "reply", !.code = 404]]
      <4>1. PICK n : n = 404
        OBVIOUS
      <4>2. [calls EXCEPT ![c].step = "reply", ![c].code = n]
              = [calls EXCEPT ![c] = [calls[c] EXCEPT !.step = "reply", !.code = n]]
        BY <3>1, StepAndCodeMove, Zenon
      <4> QED BY <4>1, <4>2
    <3> QED BY <3>2, <3>3, Zenon
  <2> QED BY <1>1, <1>2, <1>7, <2>1, <2>2 DEF Advance
<1>8. CASE Evaluate(c)
  <2>1. PICK blocked \in Verdicts(calls[c].asset) :
           calls' = [calls EXCEPT ![c].step = "reply", ![c].blocked = blocked]
    BY <1>8 DEF Evaluate
  <2>2. blocked \in BOOLEAN
    BY DEF Verdicts
  <2>3. [calls[c] EXCEPT !.step = "reply", !.blocked = blocked] \in Call
    <3>1. "reply" \in Steps /\ 200 \in Codes
      BY DEF Steps, Codes
    <3> QED BY <1>3, <2>2, <3>1, Zenon
  <2>4. calls' = [calls EXCEPT ![c] = [calls[c] EXCEPT !.step = "reply", !.blocked = blocked]]
    <3>1. calls \in [Clients -> Call \cup {NoCall}]
      BY DEF TypeInv, ServiceTypeOK
    <3>2. [calls EXCEPT ![c].step = "reply", ![c].blocked = blocked]
            = [calls EXCEPT ![c] = [calls[c] EXCEPT !.step = "reply", !.blocked = blocked]]
      BY <3>1, StepAndVerdictMove, Zenon
    <3> QED BY <2>1, <3>2, Zenon
  <2> QED BY <1>1, <1>2, <1>8, <2>3, <2>4 DEF Advance
<1> QED BY <1>4, <1>5, <1>6, <1>7, <1>8

LEMMA ServeTypes ==
    ASSUME TypeInv, NEW c \in Clients, Serve(c)
    PROVE  TypeInv'
<1>s. UNCHANGED storeVars => StoreTypeOK'
  BY DEF storeVars, TypeInv, ServiceTypeOK, StoreTypeOK
<1>t. built \in BOOLEAN /\ building \in BOOLEAN /\ replies \in Seq(ReplyRecord)
  BY DEF TypeInv, ServiceTypeOK
<1>1. CASE BuildForRequest(c)
  BY <1>1 DEF BuildForRequest, Build, NewStore, TypeInv, ServiceTypeOK, StoreTypeOK, QueueSound, At
<1>2. CASE EnterStore(c) \/ EnterGateway(c) \/ Withdraw(c) \/ WithdrawUnknown(c) \/ Evaluate(c)
  <2>1. /\ calls[c] \in Call /\ ~At(c, "queued")
        /\ \E k \in Call : calls' = [calls EXCEPT ![c] = k]
        /\ UNCHANGED <<built, building, queue, replies>>
    BY <1>2, ServeEffect
  <2>2. StoreTypeOK'
    <3>1. CASE Withdraw(c)
      BY <3>1, <2>1, WithdrawTypes DEF Withdraw, Call, TypeInv
    <3> QED BY <1>2, <1>s, <3>1 DEF EnterStore, EnterGateway, WithdrawUnknown, Evaluate
  <2> QED BY <1>t, <2>1, <2>2, MoveTypes
<1>3. ASSUME NEW delivered \in BOOLEAN, Reply(c, delivered) PROVE TypeInv'
  <2> DEFINE k == calls[c]
  <2>1. k \in Call /\ ~At(c, "queued")
    BY <1>3, CallOf DEF Reply, At, TypeInv
  <2>2. [kind |-> k.kind, asset |-> k.asset, code |-> k.code, blocked |-> k.blocked,
         late |-> k.late, since |-> k.since, delivered |-> delivered] \in ReplyRecord
    BY <2>1 DEF Call, ReplyRecord
  <2>3. replies' \in Seq(ReplyRecord)
    BY <1>3, <1>t, <2>2, AppendProperties DEF Reply
  <2> QED BY <1>3, <1>s, <1>t, <2>1, <2>3, MoveTypes DEF Reply
<1> QED BY <1>1, <1>2, <1>3 DEF Serve

LEMMA StepTypes == ASSUME TypeInv, [Next]_vars PROVE TypeInv'
<1>1. CASE UNCHANGED vars
  BY <1>1 DEF vars, storeVars, serviceVars, TypeInv, ServiceTypeOK, StoreTypeOK, QueueSound, At
<1>2. CASE Build
  BY <1>2 DEF Build, NewStore, TypeInv, ServiceTypeOK, StoreTypeOK, QueueSound, At
<1>3. CASE SeedNext
  <2>1. StoreTypeOK'
    BY <1>3, ServiceAssumption DEF SeedNext, Register, TypeInv, ServiceTypeOK, StoreTypeOK
  <2> QED BY <1>3, <2>1 DEF SeedNext, serviceVars, TypeInv, ServiceTypeOK, QueueSound, At
<1>4. CASE Publish
  BY <1>4 DEF Publish, storeVars, TypeInv, ServiceTypeOK, StoreTypeOK, QueueSound, At
<1> QED BY <1>1, <1>2, <1>3, <1>4, PostTypes, ServeTypes, StartTypes DEF Next

LEMMA InitTypes == Init => TypeInv
<1> SUFFICES ASSUME Init PROVE TypeInv
  OBVIOUS
<1>1. <<>> \in Seq(Clients) /\ <<>> \in Seq(ReplyRecord) /\ <<>> \in Seq(Listeners)
      /\ <<>> \in Seq(Notification)
  BY EmptySeq
<1>2. ServiceTypeOK
  BY <1>1 DEF Init, StoreInit, ServiceTypeOK, StoreTypeOK, Clients
<1>3. DOMAIN queue = {}
  BY EmptySeq DEF Init
<1> QED BY <1>2, <1>3 DEF TypeInv, QueueSound

LEMMA TypesHold == Spec => []TypeInv
BY InitTypes, StepTypes, PTL DEF Spec

(* Every variable of the service keeps its type.                           *)
THEOREM ServiceTypeCorrect == Spec => []ServiceTypeOK
BY TypesHold, PTL DEF TypeInv

-----------------------------------------------------------------------------
(* Proofs: revocation                                                      *)

(* What the registry holds, and that there is a gateway, is there to stay. *)
StoreGrows ==
    /\ built => built'
    /\ withdrawn \subseteq withdrawn'
    /\ \A a \in Assets : Registered(a) => Registered(a)'

LEMMA SoundnessKept ==
    ASSUME NEW k \in Call, CallSound(k), StoreGrows, UNCHANGED replies
    PROVE  CallSound(k)'
<1>1. k.asset \in Assets
  BY DEF Call
<1> QED BY <1>1 DEF CallSound, StoreGrows, Evaluated, Done

LEMMA RepliesKept ==
    ASSUME RepliesSound, StoreGrows, UNCHANGED replies
    PROVE  RepliesSound'
BY DEF RepliesSound, StoreGrows, Done

(* A step of one request, or of none, that answers nobody.                 *)
LEMMA CallMoves ==
    ASSUME TypeInv, RevokeInv, StoreGrows, GatewaySound', UNCHANGED replies,
           NEW c \in Clients, NEW k, calls' = [calls EXCEPT ![c] = k],
           k # NoCall => CallSound(k)'
    PROVE  RevokeInv'
<1>1. ASSUME NEW d \in Clients, d # c, calls'[d] # NoCall PROVE CallSound(calls[d])'
  <2>1. calls'[d] = calls[d] /\ calls[d] \in Call /\ CallSound(calls[d])
    BY <1>1, CallOf DEF TypeInv, ServiceTypeOK, RevokeInv, CallsSound
  <2>2. PICK q \in Call : q = calls[d]
    BY <2>1
  <2>3. CallSound(q)'
    BY <2>1, <2>2, SoundnessKept
  <2>4. q = calls'[d]
    BY <2>1, <2>2
  <2> QED BY <2>3, <2>4
<1>2. calls'[c] = k
  BY DEF TypeInv, ServiceTypeOK
<1>3. CallsSound'
  BY <1>1, <1>2 DEF CallsSound
<1> QED BY <1>3, RepliesKept DEF RevokeInv

LEMMA NoneMoves ==
    ASSUME TypeInv, RevokeInv, StoreGrows, GatewaySound', UNCHANGED <<calls, replies>>
    PROVE  RevokeInv'
<1>1. ASSUME NEW d \in Clients, calls'[d] # NoCall PROVE CallSound(calls[d])'
  <2>1. PICK q \in Call : q = calls[d] /\ CallSound(q)
    BY <1>1, CallOf DEF TypeInv, RevokeInv, CallsSound
  <2>2. CallSound(q)'
    BY <2>1, SoundnessKept
  <2> QED BY <2>1, <2>2
<1> QED BY <1>1, RepliesKept DEF RevokeInv, CallsSound

LEMMA PostKeeps ==
    ASSUME TypeInv, RevokeInv, NEW c \in Clients, NEW kind \in Kinds, NEW a \in Assets, Post(c, kind, a)
    PROVE  RevokeInv'
<1>1. PICK k \in Call : k = NewCall(kind, a) /\ calls' = [calls EXCEPT ![c] = k]
                        /\ UNCHANGED <<storeVars, built, building, replies>>
  BY PostEffect DEF TypeInv
<1>2. Len(replies) \in Nat
  BY Lengths DEF TypeInv
<1>3. CallSound(k)'
  BY <1>1, <1>2 DEF NewCall, CallSound, Evaluated
<1>4. StoreGrows /\ GatewaySound'
  BY <1>1 DEF StoreGrows, GatewaySound, RevokeInv, storeVars, Registered
<1> QED BY <1>1, <1>3, <1>4, CallMoves

LEMMA StartKeeps == ASSUME TypeInv, RevokeInv, StartWork PROVE RevokeInv'
<1>1. PICK c \in Clients, k \in Call :
             /\ At(c, "queued")
             /\ calls' = [calls EXCEPT ![c] = k]
             /\ \/ k = [calls[c] EXCEPT !.step = "enter"]
                \/ k = [calls[c] EXCEPT !.step = "reply", !.code = 400]
             /\ UNCHANGED <<storeVars, built, building, replies>>
  BY StartEffect
<1>2. CallSound(calls[c]) /\ calls[c] \in Call
  BY <1>1, CallOf DEF At, RevokeInv, CallsSound, TypeInv
<1>3. /\ k.since = calls[c].since
      /\ \/ k.step = "enter" /\ k.code = calls[c].code
         \/ k.step = "reply" /\ k.code = 400
  <2>1. CASE k = [calls[c] EXCEPT !.step = "enter"]
    BY <1>2, <2>1 DEF Call
  <2>2. CASE k = [calls[c] EXCEPT !.step = "reply", !.code = 400]
    BY <1>2, <2>2 DEF Call
  <2> QED BY <1>1, <2>1, <2>2
<1>4. CallSound(k)'
  BY <1>1, <1>2, <1>3 DEF CallSound, Evaluated, At
<1>5. StoreGrows /\ GatewaySound'
  BY <1>1 DEF StoreGrows, GatewaySound, RevokeInv, storeVars, Registered
<1> QED BY <1>1, <1>4, <1>5, CallMoves

LEMMA WithdrawGrows ==
    ASSUME RevokeInv, NEW c \in Clients, NEW a \in Assets, WithdrawMark(c, a), UNCHANGED <<built, building>>, built
    PROVE  StoreGrows /\ GatewaySound' /\ a \in withdrawn'
BY DEF WithdrawMark, StoreGrows, GatewaySound, RevokeInv, Registered

LEMMA AdvanceKeeps ==
    ASSUME TypeInv, RevokeInv, NEW c \in Clients,
           EnterStore(c) \/ EnterGateway(c) \/ Withdraw(c) \/ WithdrawUnknown(c) \/ Evaluate(c)
    PROVE  RevokeInv'
<1> DEFINE q == calls[c]
<1>1. /\ q \in Call /\ CallSound(q) /\ q.asset \in Assets
      /\ UNCHANGED <<built, building, queue, replies>>
  BY ServeEffect, CallOf DEF RevokeInv, CallsSound, TypeInv
<1>2. PICK k \in Call : calls' = [calls EXCEPT ![c] = k] /\ Advance(c, k)
  BY ServeEffect
<1>s. UNCHANGED storeVars => StoreGrows /\ GatewaySound'
  BY <1>1 DEF StoreGrows, GatewaySound, RevokeInv, storeVars, Registered
<1>3. CASE EnterStore(c) /\ k = [q EXCEPT !.step = "withdraw"]
  <2>1. /\ k.step = "withdraw" /\ k.code = q.code /\ k.since = q.since /\ built
        /\ q.step = "enter" /\ UNCHANGED storeVars
    BY <1>1, <1>3 DEF EnterStore, At, Call
  <2>2. CallSound(k)'
    BY <1>1, <2>1 DEF CallSound, Evaluated
  <2> QED BY <1>1, <1>2, <1>s, <2>1, <2>2, CallMoves
<1>4. CASE EnterGateway(c) /\ k = [q EXCEPT !.step = "read", !.late = q.asset \in withdrawn]
  <2>1. /\ k.step = "read" /\ k.code = q.code /\ k.since = q.since /\ built
        /\ k.asset = q.asset /\ k.kind = q.kind /\ (k.late => q.asset \in withdrawn)
        /\ (q.step = "probe" \/ (q.step = "enter" /\ q.kind = "evaluate")) /\ UNCHANGED storeVars
    <3>1. (q.step = "probe" \/ (q.step = "enter" /\ q.kind = "evaluate")) /\ built /\ UNCHANGED storeVars
      BY <1>4 DEF EnterGateway, At
    <3>2. /\ k.step = "read" /\ k.code = q.code /\ k.since = q.since
          /\ k.asset = q.asset /\ k.kind = q.kind
      BY <1>1, <1>4 DEF Call
    <3>3. k.late = (q.asset \in withdrawn)
      BY <1>1, <1>4 DEF Call
    <3> QED BY <3>1, <3>2, <3>3
  <2>2. CallSound(k)'
    BY <1>1, <2>1 DEF CallSound, Evaluated, storeVars
  <2> QED BY <1>1, <1>2, <1>s, <2>1, <2>2, CallMoves
<1>5. CASE Withdraw(c) /\ k = [q EXCEPT !.step = "probe"]
  <2>1. /\ k.step = "probe" /\ k.code = q.code /\ k.since = q.since
        /\ k.asset = q.asset /\ q.step = "withdraw" /\ WithdrawMark(c, q.asset)
    BY <1>1, <1>5 DEF Withdraw, At, Call
  <2>2. built
    BY <1>1, <2>1 DEF CallSound
  <2>3. StoreGrows /\ GatewaySound' /\ q.asset \in withdrawn'
    BY <1>1, <2>1, <2>2, WithdrawGrows
  <2>4. CallSound(k)'
    BY <1>1, <2>1, <2>2, <2>3 DEF CallSound, Evaluated
  <2> QED BY <1>1, <1>2, <2>3, <2>4, CallMoves
<1>6. CASE WithdrawUnknown(c) /\ k = [q EXCEPT !.step = "reply", !.code = 404]
  <2>1. k.step = "reply" /\ k.code = 404 /\ k.since = q.since /\ UNCHANGED storeVars
    BY <1>1, <1>6 DEF WithdrawUnknown, Call
  <2>2. CallSound(k)'
    BY <1>1, <2>1 DEF CallSound, Evaluated
  <2> QED BY <1>1, <1>2, <1>s, <2>1, <2>2, CallMoves
<1>7. ASSUME NEW blocked \in Verdicts(q.asset), Evaluate(c),
             k = [q EXCEPT !.step = "reply", !.blocked = blocked]
      PROVE  RevokeInv'
  <2>1. /\ k.step = "reply" /\ k.code = q.code /\ k.since = q.since /\ k.blocked = blocked
        /\ k.asset = q.asset /\ k.kind = q.kind /\ k.late = q.late
    BY <1>1, <1>7 DEF Call
  <2>2. q.step = "read" /\ UNCHANGED storeVars
    BY <1>7 DEF Evaluate, At
  <2>3. (blocked = TRUE \/ blocked = FALSE) /\ (q.asset \in withdrawn => blocked = TRUE)
        /\ (blocked = FALSE => Registered(q.asset))
    BY <1>7 DEF Verdicts
  <2>4. \A i \in 1..q.since : Done(i, "revoke", q.asset) => q.asset \in withdrawn
    <3>1. q.since \in Nat /\ q.since <= Len(replies) /\ Len(replies) \in Nat
          /\ DOMAIN replies = 1..Len(replies)
      BY <1>1, Lengths DEF CallSound, Call, TypeInv
    <3>2. 1..q.since \subseteq DOMAIN replies
      BY <3>1
    <3> QED BY <1>1, <3>2 DEF RevokeInv, RepliesSound
  <2>5. CallSound(k)'
    <3>1. q.late => q.asset \in withdrawn
      BY <1>1, <2>2 DEF CallSound
    <3>2. q.kind = "revoke" => q.asset \in withdrawn
      BY <1>1, <2>2 DEF CallSound
    <3>3. built /\ q.since <= Len(replies)
      BY <1>1, <2>2 DEF CallSound
    <3> HIDE DEF q
    <3> QED BY <1>1, <2>1, <2>2, <2>3, <2>4, <3>1, <3>2, <3>3 DEF CallSound, Evaluated, Done, storeVars, Registered
  <2> QED BY <1>1, <1>2, <1>s, <2>2, <2>5, CallMoves
<1> QED BY <1>2, <1>3, <1>4, <1>5, <1>6, <1>7 DEF Advance

LEMMA ReplyKeeps ==
    ASSUME TypeInv, RevokeInv, NEW c \in Clients, NEW delivered \in BOOLEAN, Reply(c, delivered)
    PROVE  RevokeInv'
<1> DEFINE q == calls[c]
           n == Len(replies) + 1
           r == [kind |-> q.kind, asset |-> q.asset, code |-> q.code, blocked |-> q.blocked,
                 late |-> q.late, since |-> q.since, delivered |-> delivered]
<1>1. /\ q \in Call /\ CallSound(q) /\ q.asset \in Assets /\ q.step = "reply" /\ q.since \in Nat
      /\ UNCHANGED <<storeVars, built, building, queue>>
      /\ calls' = [calls EXCEPT ![c] = NoCall]
      /\ replies' = Append(replies, r)
  BY CallOf DEF Reply, At, RevokeInv, CallsSound, TypeInv
<1>2. r.kind = q.kind /\ r.asset = q.asset /\ r.code = q.code /\ r.blocked = q.blocked /\ r.since = q.since
  OBVIOUS
<1>r. replies \in Seq(ReplyRecord) /\ r \in ReplyRecord
  BY <1>1 DEF TypeInv, ServiceTypeOK, Call, ReplyRecord
<1> HIDE DEF q, r
<1>3. /\ Len(replies) \in Nat /\ DOMAIN replies = 1..Len(replies)
      /\ Len(replies') = n /\ DOMAIN replies' = 1..n
      /\ replies'[n] = r /\ \A i \in 1..Len(replies) : replies'[i] = replies[i]
  BY <1>1, <1>r, Lengths, AppendProperties, LenProperties DEF TypeInv
<1>4. \A i \in 1..Len(replies) : replies[i].since < i
  BY <1>3 DEF RevokeInv, RepliesSound
<1>5. GatewaySound' /\ built' = built /\ withdrawn' = withdrawn /\ catalog' = catalog
  BY <1>1 DEF GatewaySound, RevokeInv, storeVars, Registered
<1>6. ASSUME NEW k \in Call, CallSound(k) PROVE CallSound(k)'
  <2>1. k.since \in Nat /\ k.since <= Len(replies) /\ k.since <= Len(replies')
    BY <1>3, <1>6 DEF CallSound, Call
  <2>2. \A i \in 1..k.since : replies'[i] = replies[i]
    BY <1>3, <2>1
  <2>3. k.step = "read" /\ k.late => k.asset \in withdrawn
    BY <1>6 DEF CallSound
  <2> QED BY <1>5, <1>6, <2>1, <2>2 DEF CallSound, Evaluated, Done, Registered
<1>7. CallsSound'
  <2>1. ASSUME NEW d \in Clients, calls'[d] # NoCall PROVE CallSound(calls[d])'
    <3>1. calls'[d] = calls[d]
      BY <1>1, <2>1 DEF TypeInv, ServiceTypeOK
    <3>2. PICK k \in Call : k = calls[d] /\ CallSound(k)
      BY <2>1, <3>1, CallOf DEF TypeInv, RevokeInv, CallsSound
    <3>3. CallSound(k)'
      BY <1>6, <3>2
    <3> QED BY <3>1, <3>2, <3>3
  <2> QED BY <2>1 DEF CallsSound
<1>8. RepliesSound'
  <2>1. ASSUME NEW i \in 1..n, NEW a \in Assets, Done(i, "revoke", a)'
        PROVE  replies'[i].blocked /\ built /\ a \in withdrawn
    <3>1. CASE i = n
      BY <1>1, <1>2, <1>3, <2>1, <3>1 DEF Done, CallSound, Evaluated
    <3>2. CASE i # n
      <4>1. i \in 1..Len(replies)
        BY <1>3, <3>2
      <4> QED BY <1>3, <2>1, <4>1 DEF Done, RevokeInv, RepliesSound
    <3> QED BY <3>1, <3>2
  <2>2. \A j \in 1..n : replies'[j].since < j
    <3>1. r.since < n
      BY <1>1, <1>2, <1>3 DEF CallSound
    <3> QED BY <1>3, <1>4, <3>1
  <2>3. ASSUME NEW i \in 1..n, NEW j \in 1..n, NEW a \in Assets,
               Done(i, "revoke", a)', Done(j, "evaluate", a)', i <= replies'[j].since
        PROVE  replies'[j].blocked
    <3>1. replies'[j].since < j /\ j \in Int /\ i \in Int /\ replies'[j].since \in Int
      <4>1. replies' \in Seq(ReplyRecord)
        BY <1>1, <1>r, AppendProperties
      <4>2. replies'[j] \in ReplyRecord
        BY <1>3, <4>1, ElementOfSeq
      <4> QED BY <2>2, <4>2 DEF ReplyRecord
    <3>2. i \in 1..Len(replies)
      BY <1>3, <2>3, <3>1
    <3>3. Done(i, "revoke", a)
      BY <1>3, <2>3, <3>2 DEF Done
    <3>4. CASE j = n
      <4>1. q.since = replies'[j].since /\ i \in 1..q.since /\ q.asset = a /\ Evaluated(q) /\ q.kind = "evaluate"
        BY <1>1, <1>2, <1>3, <2>3, <3>2, <3>4 DEF Done, Evaluated
      <4>2. q.blocked
        BY <1>1, <3>3, <4>1 DEF CallSound
      <4> QED BY <1>2, <1>3, <3>4, <4>2
    <3>5. CASE j # n
      <4>1. j \in 1..Len(replies) /\ replies'[j] = replies[j]
        BY <1>3, <3>5
      <4> QED BY <1>3, <2>3, <3>2, <3>3, <4>1 DEF Done, RevokeInv, RepliesSound
    <3> QED BY <3>4, <3>5
  <2> QED BY <1>3, <1>5, <2>1, <2>2, <2>3 DEF RepliesSound
<1> QED BY <1>5, <1>7, <1>8 DEF RevokeInv

LEMMA StepKeeps == ASSUME TypeInv, RevokeInv, [Next]_vars PROVE RevokeInv'
<1>1. CASE UNCHANGED vars
  <2>1. StoreGrows /\ GatewaySound' /\ UNCHANGED <<calls, replies>>
    BY <1>1 DEF vars, storeVars, serviceVars, StoreGrows, GatewaySound, RevokeInv, Registered
  <2> QED BY <2>1, NoneMoves
<1>2. CASE Build
  <2>1. StoreGrows /\ GatewaySound' /\ UNCHANGED <<calls, replies>>
    BY <1>2 DEF Build, NewStore, StoreGrows, GatewaySound, RevokeInv, Registered
  <2> QED BY <2>1, NoneMoves
<1>3. CASE SeedNext
  <2>1. StoreGrows /\ GatewaySound' /\ UNCHANGED <<calls, replies>>
    BY <1>3, ServiceAssumption, StoreAssumption DEF SeedNext, Register, serviceVars, StoreGrows, GatewaySound,
       RevokeInv, Registered, TypeInv, ServiceTypeOK, StoreTypeOK
  <2> QED BY <2>1, NoneMoves
<1>4. CASE Publish
  <2>1. StoreGrows /\ GatewaySound' /\ UNCHANGED <<calls, replies>>
    BY <1>4 DEF Publish, storeVars, StoreGrows, GatewaySound, RevokeInv, Registered
  <2> QED BY <2>1, NoneMoves
<1>5. ASSUME NEW c \in Clients, Serve(c) PROVE RevokeInv'
  BY <1>2, <1>5, AdvanceKeeps, ReplyKeeps DEF Serve, BuildForRequest
<1> QED BY <1>1, <1>2, <1>3, <1>4, <1>5, PostKeeps, StartKeeps DEF Next

LEMMA InitRevoke == Init => RevokeInv
<1> SUFFICES ASSUME Init PROVE RevokeInv
  OBVIOUS
<1>1. DOMAIN replies = {}
  BY EmptySeq DEF Init
<1> QED BY <1>1 DEF Init, StoreInit, RevokeInv, GatewaySound, Registered, CallsSound, RepliesSound

LEMMA RevokeHolds == Spec => [](TypeInv /\ RevokeInv)
<1>1. TypeInv /\ RevokeInv /\ [Next]_vars => (TypeInv /\ RevokeInv)'
  BY StepTypes, StepKeeps
<1> QED BY InitTypes, InitRevoke, <1>1, PTL DEF Spec

(* A revocation answered with success reports that the asset is blocked,   *)
(* whatever other requests do between its withdrawal and its probe.        *)
THEOREM ProbesConfirm == Spec => []RevokeConfirmed
<1>1. RevokeInv => RevokeConfirmed
  BY DEF RevokeInv, RepliesSound, RevokeConfirmed
<1> QED BY <1>1, RevokeHolds, PTL

(* An evaluation posted after a client was told that its asset is revoked  *)
(* is answered Blocked, over any number of threads and workers.            *)
THEOREM RevocationLasts == Spec => []RevokedStaysBlocked
<1>1. RevokeInv => RevokedStaysBlocked
  BY DEF RevokeInv, RepliesSound, RevokedStaysBlocked
<1> QED BY <1>1, RevokeHolds, PTL

-----------------------------------------------------------------------------
(* Proofs: the abstract gateway                                            *)

ServiceInv == TypeInv /\ RevokeInv

(* The request was evaluated on a record that was not withdrawn.           *)
FoundClear(k) == k.step = "reply" /\ ~k.blocked

LEMMA OpenIsCall ==
    ASSUME TypeInv, NEW c \in Clients, Evaluating(c)
    PROVE  /\ OpenCalls[c] = [asset |-> calls[c].asset, late |-> calls[c].late,
                               clear |-> FoundClear(calls[c]), paid |-> NoCall]
           /\ OpenCalls[c] # NoCall
<1>1. calls[c].asset \in Assets /\ calls[c].late \in BOOLEAN
  BY CallOf DEF Evaluating, TypeInv
<1>2. FoundClear(calls[c]) \in BOOLEAN
  BY DEF FoundClear
<1>3. [asset |-> calls[c].asset, late |-> calls[c].late, clear |-> FoundClear(calls[c]),
       paid |-> NoCall] \in [asset : Assets, late : BOOLEAN, clear : BOOLEAN, paid : {NoCall}]
  BY <1>1, <1>2
<1>4. OpenCalls[c] = [asset |-> calls[c].asset, late |-> calls[c].late,
                      clear |-> FoundClear(calls[c]), paid |-> NoCall]
  BY DEF OpenCalls, FoundClear, Evaluating, At
<1> QED BY <1>3, <1>4, ServiceAssumption

LEMMA InitMirrors == Init => Promise!Init
<1> SUFFICES ASSUME Init PROVE Promise!Init
  OBVIOUS
<1>1. DOMAIN replies = {}
  BY EmptySeq DEF Init
<1>2. Answers = {} /\ OfferedAssets = {}
  BY <1>1 DEF Answers, OfferedAssets, Registered, Init, StoreInit
<1>3. OpenCalls = [c \in Clients |-> NoCall]
  BY DEF OpenCalls, Evaluating, Init
<1> QED BY <1>2, <1>3 DEF Init, StoreInit, Promise!Init

(* What a request amounts to for the abstract gateway.                     *)
OpenOf(k) ==
    IF k # NoCall /\ (k.step = "read" \/ Evaluated(k))
    THEN [asset |-> k.asset, late |-> k.late, clear |-> FoundClear(k), paid |-> NoCall]
    ELSE NoCall

LEMMA OpenMoves ==
    ASSUME TypeInv, NEW c \in Clients, NEW k, calls' = [calls EXCEPT ![c] = k]
    PROVE  OpenCalls[c] = OpenOf(calls[c]) /\ OpenCalls' = [OpenCalls EXCEPT ![c] = OpenOf(k)]
<1>1. \A d \in Clients : OpenCalls[d] = OpenOf(calls[d])
  BY DEF OpenCalls, OpenOf, FoundClear, Evaluating, Evaluated, At
<1>2. \A d \in Clients : calls'[d] = IF d = c THEN k ELSE calls[d]
  BY DEF TypeInv, ServiceTypeOK
<1>3. OpenCalls' = [d \in Clients |-> OpenOf(calls'[d])]
  BY DEF OpenCalls, OpenOf, FoundClear, Evaluating, Evaluated, At
<1>4. OpenCalls = [d \in Clients |-> OpenOf(calls[d])]
  BY DEF OpenCalls, OpenOf, FoundClear, Evaluating, Evaluated, At
<1> QED BY <1>1, <1>2, <1>3, <1>4

LEMMA RepliesSame == ASSUME UNCHANGED replies PROVE Answers' = Answers
BY DEF Answers, AnswerOf

(* A request that moves without opening or closing a call of the gateway.  *)
LEMMA MoveHidden ==
    ASSUME TypeInv, NEW c \in Clients, NEW k, calls' = [calls EXCEPT ![c] = k],
           OpenOf(k) = OpenOf(calls[c]), UNCHANGED <<catalog, withdrawn, replies>>
    PROVE  UNCHANGED Promise!promiseVars
<1>1. OpenCalls' = OpenCalls
  <2>1. OpenCalls = [OpenCalls EXCEPT ![c] = OpenOf(calls[c])]
    BY OpenMoves DEF OpenCalls
  <2> QED BY <2>1, OpenMoves
<1> QED BY <1>1, RepliesSame DEF Promise!promiseVars, OfferedAssets, Registered

(* Stated for any value of the field: the provers type a Boolean one.      *)
LEMMA FieldSet ==
    ASSUME NEW a, NEW l, NEW old, NEW new
    PROVE  [[asset |-> a, late |-> l, clear |-> old, paid |-> NoCall] EXCEPT !.clear = new]
             = [asset |-> a, late |-> l, clear |-> new, paid |-> NoCall]
OBVIOUS

LEMMA AdvanceMirrors ==
    ASSUME ServiceInv, NEW c \in Clients,
           EnterStore(c) \/ EnterGateway(c) \/ Withdraw(c) \/ WithdrawUnknown(c) \/ Evaluate(c)
    PROVE  [Promise!Next]_(Promise!promiseVars)
<1> DEFINE q == calls[c]
<1>1. /\ q \in Call /\ CallSound(q) /\ q.asset \in Assets /\ q # NoCall
      /\ UNCHANGED <<built, building, queue, replies>>
  BY ServeEffect, CallOf DEF ServiceInv, RevokeInv, CallsSound, TypeInv
<1>2. PICK k \in Call : calls' = [calls EXCEPT ![c] = k] /\ Advance(c, k)
  BY ServeEffect DEF ServiceInv
<1>n. k # NoCall
  BY <1>2, ServiceAssumption
<1>a. Answers' = Answers
  BY <1>1, RepliesSame
<1>3. CASE EnterStore(c) /\ k = [q EXCEPT !.step = "withdraw"]
  <2>1. k.step = "withdraw" /\ q.step = "enter" /\ UNCHANGED storeVars
    BY <1>1, <1>3 DEF EnterStore, At, Call
  <2>2. OpenOf(k) = OpenOf(q)
    BY <2>1 DEF OpenOf, Evaluated
  <2> QED BY <1>1, <1>2, <2>1, <2>2, MoveHidden DEF ServiceInv, storeVars
<1>4. CASE EnterGateway(c) /\ k = [q EXCEPT !.step = "read", !.late = q.asset \in withdrawn]
  <2>1. (q.step = "probe" \/ q.step = "enter") /\ UNCHANGED storeVars
    BY <1>4 DEF EnterGateway, At
  <2>2. k.step = "read" /\ k.asset = q.asset
    BY <1>1, <1>4 DEF Call
  <2>3. k.late = (q.asset \in withdrawn)
    BY <1>1, <1>4 DEF Call
  <2>4. OpenCalls[c] = NoCall
    BY <1>2, <2>1, OpenMoves DEF OpenOf, Evaluated, ServiceInv
  <2>5. OpenOf(k) = [asset |-> q.asset, late |-> q.asset \in withdrawn, clear |-> FALSE,
                     paid |-> NoCall]
    BY <1>n, <2>2, <2>3 DEF OpenOf, FoundClear
  <2>6. OpenCalls' = [OpenCalls EXCEPT ![c] = OpenOf(k)]
    BY <1>2, OpenMoves DEF ServiceInv
  <2>7. Promise!Open(c, q.asset)
    BY <1>a, <2>1, <2>4, <2>5, <2>6 DEF Promise!Open, storeVars, OfferedAssets, Registered
  <2> QED BY <1>1, <2>7 DEF Promise!Next
<1>5. CASE Withdraw(c) /\ k = [q EXCEPT !.step = "probe"]
  <2>1. k.step = "probe" /\ q.step = "withdraw" /\ WithdrawMark(c, q.asset)
    BY <1>1, <1>5 DEF Withdraw, At, Call
  <2>2. OpenCalls' = OpenCalls
    <3>1. OpenOf(k) = NoCall /\ OpenOf(q) = NoCall
      BY <2>1 DEF OpenOf, Evaluated
    <3>2. OpenCalls[c] = NoCall /\ OpenCalls' = [OpenCalls EXCEPT ![c] = NoCall]
      BY <1>2, <3>1, OpenMoves DEF ServiceInv
    <3> QED BY <3>2 DEF OpenCalls
  <2>3. Promise!Withdraw(q.asset)
    BY <1>a, <1>1, <2>1, <2>2 DEF Promise!Withdraw, WithdrawMark, OfferedAssets, Registered
  <2> QED BY <1>1, <2>3 DEF Promise!Next
<1>6. CASE WithdrawUnknown(c) /\ k = [q EXCEPT !.step = "reply", !.code = 404]
  <2>1. k.step = "reply" /\ k.code = 404 /\ q.step = "withdraw" /\ UNCHANGED storeVars
    BY <1>1, <1>6 DEF WithdrawUnknown, At, Call
  <2>2. OpenOf(k) = OpenOf(q)
    BY <2>1 DEF OpenOf, Evaluated
  <2> QED BY <1>1, <1>2, <2>1, <2>2, MoveHidden DEF ServiceInv, storeVars
<1>7. ASSUME NEW blocked \in Verdicts(q.asset), Evaluate(c),
             k = [q EXCEPT !.step = "reply", !.blocked = blocked]
      PROVE  [Promise!Next]_(Promise!promiseVars)
  <2>1. k.step = "reply" /\ k.code = q.code /\ k.asset = q.asset /\ k.late = q.late /\ k.blocked = blocked
    BY <1>1, <1>7 DEF Call
  <2>2. q.step = "read" /\ UNCHANGED storeVars
    BY <1>7 DEF Evaluate, At
  <2>3. k.code = 200
    BY <1>1, <2>1, <2>2 DEF CallSound
  <2>4. OpenOf(q) = [asset |-> q.asset, late |-> q.late, clear |-> FALSE, paid |-> NoCall]
    BY <1>1, <2>2 DEF OpenOf, FoundClear
  <2>5. CASE blocked
    <3>1. FoundClear(k) = FALSE
      BY <2>1, <2>5 DEF FoundClear
    <3>2. OpenOf(k) = OpenOf(q)
      BY <1>n, <2>1, <2>3, <2>4, <3>1 DEF OpenOf, Evaluated
    <3> QED BY <1>1, <1>2, <2>2, <3>2, MoveHidden DEF ServiceInv, storeVars
  <2>6. CASE ~blocked
    <3>1. Registered(q.asset) /\ q.asset \notin withdrawn
      BY <1>7, <2>6 DEF Verdicts
    <3>2. FoundClear(k) = TRUE
      BY <2>1, <2>6 DEF FoundClear
    <3>3. OpenOf(k) = [asset |-> q.asset, late |-> q.late, clear |-> TRUE, paid |-> NoCall]
      BY <1>n, <2>1, <2>3, <3>2 DEF OpenOf, Evaluated
    <3>4. OpenCalls[c] = OpenOf(q) /\ OpenCalls' = [OpenCalls EXCEPT ![c] = OpenOf(k)]
      BY <1>2, OpenMoves DEF ServiceInv
    <3>5. OpenCalls' = [OpenCalls EXCEPT ![c].clear = TRUE]
      <4>1. [OpenOf(q) EXCEPT !.clear = TRUE] = OpenOf(k)
        <5>1. PICK old : old = FALSE
          OBVIOUS
        <5>2. PICK new : new = TRUE
          OBVIOUS
        <5>3. OpenOf(q) = [asset |-> q.asset, late |-> q.late, clear |-> old, paid |-> NoCall]
          BY <2>4, <5>1
        <5>4. OpenOf(k) = [asset |-> q.asset, late |-> q.late, clear |-> new, paid |-> NoCall]
          BY <3>3, <5>2
        <5>5. [OpenOf(q) EXCEPT !.clear = new] = OpenOf(k)
          BY <5>3, <5>4, FieldSet
        <5> QED BY <5>2, <5>5
      <4>2. [OpenCalls EXCEPT ![c].clear = TRUE]
              = [OpenCalls EXCEPT ![c] = [OpenOf(q) EXCEPT !.clear = TRUE]]
        BY <3>4
      <4> QED BY <3>4, <4>1, <4>2
    <3>6. OpenCalls[c] # NoCall
      <4>1. Evaluating(c)
        BY <1>1, <2>2 DEF Evaluating, At
      <4> QED BY <4>1, OpenIsCall DEF ServiceInv
    <3>7. OpenCalls[c].asset = q.asset /\ OpenCalls[c].clear = FALSE
      BY <2>4, <3>4
    <3>8. q.asset \in OfferedAssets \ withdrawn
      BY <1>1, <3>1 DEF OfferedAssets
    <3>9. UNCHANGED <<OfferedAssets, withdrawn>>
      BY <2>2 DEF storeVars, OfferedAssets, Registered
    <3>10. Promise!Look(c)
      BY <1>a, <3>5, <3>6, <3>7, <3>8, <3>9 DEF Promise!Look
    <3> QED BY <3>10 DEF Promise!Next
  <2>7. blocked \in BOOLEAN
    BY DEF Verdicts
  <2> QED BY <2>5, <2>6, <2>7
<1> QED BY <1>2, <1>3, <1>4, <1>5, <1>6, <1>7 DEF Advance

LEMMA ReplyMirrors ==
    ASSUME ServiceInv, NEW c \in Clients, NEW delivered \in BOOLEAN, Reply(c, delivered)
    PROVE  [Promise!Next]_(Promise!promiseVars)
<1> DEFINE q == calls[c]
           r == [kind |-> q.kind, asset |-> q.asset, code |-> q.code, blocked |-> q.blocked,
                 late |-> q.late, since |-> q.since, delivered |-> delivered]
<1>0. PICK n : n = Len(replies) + 1
  OBVIOUS
<1> DEFINE outcome == IF q.blocked THEN "refused" ELSE "granted"
           answer == [id |-> n, asset |-> q.asset, late |-> q.late, outcome |-> outcome,
                    paid |-> NoCall]
<1>1. /\ q \in Call /\ CallSound(q) /\ q.asset \in Assets /\ q.step = "reply" /\ q # NoCall
      /\ q.blocked \in BOOLEAN /\ q.late \in BOOLEAN
      /\ UNCHANGED <<storeVars, built, building, queue>>
      /\ calls' = [calls EXCEPT ![c] = NoCall]
      /\ replies' = Append(replies, r)
  BY CallOf DEF Reply, At, ServiceInv, RevokeInv, CallsSound, TypeInv
<1>r. replies \in Seq(ReplyRecord) /\ r \in ReplyRecord
  BY <1>1 DEF ServiceInv, TypeInv, ServiceTypeOK, Call, ReplyRecord
<1>2. r.code = q.code /\ r.asset = q.asset /\ r.late = q.late /\ r.blocked = q.blocked
  OBVIOUS
<1>o. OpenCalls[c] = OpenOf(q) /\ OpenCalls' = [OpenCalls EXCEPT ![c] = NoCall]
  <2>1. OpenOf(NoCall) = NoCall
    BY DEF OpenOf
  <2> QED BY <1>1, <2>1, OpenMoves DEF ServiceInv
<1>s. OfferedAssets' = OfferedAssets /\ withdrawn' = withdrawn
  BY <1>1 DEF storeVars, OfferedAssets, Registered
<1> HIDE DEF q, r
<1>3. /\ Len(replies) \in Nat /\ DOMAIN replies = 1..Len(replies)
      /\ DOMAIN replies' = DOMAIN replies \cup {n} /\ n \notin DOMAIN replies
      /\ replies'[n] = r /\ \A i \in DOMAIN replies : replies'[i] = replies[i]
  BY <1>0, <1>1, <1>r, Lengths, AppendProperties, LenProperties DEF ServiceInv, TypeInv
<1>4. CASE q.code # 200
  <2>1. Answers' = Answers
    BY <1>2, <1>3, <1>4 DEF Answers, AnswerOf
  <2>2. OpenCalls' = OpenCalls
    <3>1. OpenCalls[c] = NoCall
      BY <1>1, <1>4, <1>o DEF OpenOf, Evaluated
    <3> QED BY <1>o, <3>1 DEF OpenCalls
  <2> QED BY <1>s, <2>1, <2>2 DEF Promise!promiseVars
<1>5. CASE q.code = 200
  <2>1. /\ OpenCalls[c] = [asset |-> q.asset, late |-> q.late, clear |-> FoundClear(q),
                            paid |-> NoCall]
        /\ OpenCalls[c] # NoCall
    <3>1. Evaluating(c)
      BY <1>1, <1>5 DEF Evaluating, At, q
    <3> QED BY <3>1, OpenIsCall DEF ServiceInv, q
  <2>2. \A i \in DOMAIN replies : AnswerOf(i)' = AnswerOf(i)
    BY <1>3 DEF AnswerOf
  <2>3. AnswerOf(n)' = answer
    BY <1>2, <1>3 DEF AnswerOf
  <2>4. Answers' = Answers \cup {answer}
    <3>1. {j \in DOMAIN replies' : replies'[j].code = 200} = {j \in DOMAIN replies : replies[j].code = 200} \cup {n}
      BY <1>2, <1>3, <1>5
    <3> HIDE DEF answer
    <3> QED BY <2>2, <2>3, <3>1 DEF Answers
  <2>5. \A s \in Answers : s.id # n
    BY <1>3 DEF Answers, AnswerOf
  <2>6. n \in {s.id : s \in Answers'}
    <3>1. answer.id = n /\ answer \in Answers'
      BY <2>4
    <3> QED BY <3>1
  <2>7. answer = [id |-> n, asset |-> OpenCalls[c].asset, late |-> OpenCalls[c].late,
                  outcome |-> outcome, paid |-> OpenCalls[c].paid]
    BY <2>1
  <2>8. Promise!Answer(c, n, outcome)
    BY <1>o, <1>s, <2>1, <2>4, <2>5, <2>7 DEF Promise!Answer
  <2>9. CASE q.blocked
    <3>1. Promise!Answer(c, n, "refused")
      <4>1. outcome = "refused"
        BY <2>9
      <4> QED BY <2>8, <4>1
    <3>2. OpenCalls[c].paid = NoCall
      BY <2>1
    <3>3. Promise!Refuse(c, n)
      BY <3>1, <3>2, Zenon DEF Promise!Refuse
    <3> QED BY <2>6, <3>3 DEF Promise!Next
  <2>10. CASE ~q.blocked
    <3>1. Promise!Answer(c, n, "granted")
      <4>1. outcome = "granted"
        BY <2>10
      <4> QED BY <2>8, <4>1
    <3>2. /\ OpenCalls[c].paid = NoCall /\ OpenCalls[c].late = q.late
          /\ OpenCalls[c].asset = q.asset /\ OpenCalls[c].clear = TRUE
      <4>1. FoundClear(q) = TRUE
        BY <1>1, <2>10 DEF FoundClear
      <4> QED BY <2>1, <4>1
    <3>3. ~q.late /\ Registered(q.asset)
      BY <1>1, <1>5, <2>10 DEF CallSound, Evaluated
    <3>4. q.asset \in OfferedAssets
      BY <1>1, <3>3 DEF OfferedAssets
    <3>5. Promise!Grant(c, n)
      BY <3>1, <3>2, <3>3, <3>4, Zenon DEF Promise!Grant
    <3> QED BY <2>6, <3>5 DEF Promise!Next
  <2> QED BY <2>9, <2>10
<1> QED BY <1>4, <1>5

(* Every behaviour of the service, probes included, is one that            *)
(* GatewayPromise allows of a gateway in the process of its callers.       *)
THEOREM ServiceMirrorsGateway == Spec => MirrorsGateway
<1>1. ServiceInv /\ [Next]_vars => [Promise!Next]_(Promise!promiseVars)
  <2> SUFFICES ASSUME ServiceInv, [Next]_vars PROVE [Promise!Next]_(Promise!promiseVars)
    OBVIOUS
  <2>1. CASE UNCHANGED vars
    <3>1. OpenCalls' = OpenCalls /\ OfferedAssets' = OfferedAssets /\ withdrawn' = withdrawn /\ UNCHANGED replies
      BY <2>1 DEF vars, storeVars, serviceVars, OpenCalls, OfferedAssets, Registered, Evaluating, At
    <3> QED BY <3>1, RepliesSame DEF Promise!promiseVars
  <2>2. CASE Build
    <3>1. OpenCalls' = OpenCalls /\ OfferedAssets' = OfferedAssets /\ withdrawn' = withdrawn /\ UNCHANGED replies
      BY <2>2 DEF Build, NewStore, OpenCalls, OfferedAssets, Registered, Evaluating, At, ServiceInv,
         RevokeInv, GatewaySound
    <3> QED BY <3>1, RepliesSame DEF Promise!promiseVars
  <2>3. CASE Publish
    <3>1. OpenCalls' = OpenCalls /\ OfferedAssets' = OfferedAssets /\ withdrawn' = withdrawn /\ UNCHANGED replies
      BY <2>3 DEF Publish, storeVars, OpenCalls, OfferedAssets, Registered, Evaluating, At
    <3> QED BY <3>1, RepliesSame DEF Promise!promiseVars
  <2>4. CASE SeedNext
    <3>1. PICK a \in Seeds : Register(a, SeedMetadata, FALSE)
      BY <2>4 DEF SeedNext
    <3>2. a \in Assets /\ SeedMetadata # Absent
      BY ServiceAssumption, StoreAssumption
    <3>3. UNCHANGED <<calls, replies>>
      BY <2>4 DEF SeedNext, serviceVars
    <3>4. OpenCalls' = OpenCalls /\ Answers' = Answers
      BY <3>3, RepliesSame DEF OpenCalls, Evaluating, At
    <3>5. a \notin OfferedAssets /\ OfferedAssets' = OfferedAssets \cup {a} /\ withdrawn' = withdrawn
      BY <3>1, <3>2 DEF Register, OfferedAssets, Registered, ServiceInv, TypeInv, ServiceTypeOK, StoreTypeOK
    <3>6. Promise!Offer(a)
      <4>1. {} \in {{}, {} \cup {a}} /\ withdrawn \in {withdrawn, withdrawn \cup {a}}
        OBVIOUS
      <4> QED BY <3>4, <3>5, <4>1 DEF Promise!Offer
    <3> QED BY <3>2, <3>6 DEF Promise!Next
  <2>5. CASE StartWork
    <3>1. PICK c \in Clients, k \in Call :
             /\ At(c, "queued")
             /\ calls' = [calls EXCEPT ![c] = k]
             /\ \/ k = [calls[c] EXCEPT !.step = "enter"]
                \/ k = [calls[c] EXCEPT !.step = "reply", !.code = 400]
             /\ UNCHANGED <<storeVars, built, building, replies>>
      BY <2>5, StartEffect DEF ServiceInv
    <3>2. calls[c] \in Call /\ calls[c].step = "queued"
      BY <3>1, CallOf DEF At, ServiceInv, TypeInv
    <3>3. k.step = "enter" \/ (k.step = "reply" /\ k.code = 400)
      <4>1. CASE k = [calls[c] EXCEPT !.step = "enter"]
        BY <3>2, <4>1 DEF Call
      <4>2. CASE k = [calls[c] EXCEPT !.step = "reply", !.code = 400]
        BY <3>2, <4>2 DEF Call
      <4> QED BY <3>1, <4>1, <4>2
    <3>4. OpenOf(k) = OpenOf(calls[c])
      BY <3>2, <3>3 DEF OpenOf, Evaluated
    <3> QED BY <3>1, <3>4, MoveHidden DEF ServiceInv, storeVars
  <2>6. ASSUME NEW c \in Clients, NEW kind \in Kinds, NEW a \in Assets, Post(c, kind, a)
        PROVE  UNCHANGED Promise!promiseVars
    <3>1. PICK k \in Call : k = NewCall(kind, a) /\ calls[c] = NoCall /\ calls' = [calls EXCEPT ![c] = k]
                            /\ UNCHANGED <<storeVars, replies>>
      BY <2>6, PostEffect DEF ServiceInv, TypeInv
    <3>2. k.step = "queued"
      BY <3>1 DEF NewCall
    <3>3. OpenOf(k) = OpenOf(calls[c])
      BY <3>1, <3>2 DEF OpenOf, Evaluated
    <3> QED BY <3>1, <3>3, MoveHidden DEF ServiceInv, storeVars
  <2>7. ASSUME NEW c \in Clients, Serve(c) PROVE [Promise!Next]_(Promise!promiseVars)
    BY <2>2, <2>7, AdvanceMirrors, ReplyMirrors DEF Serve, BuildForRequest
  <2> QED BY <2>1, <2>2, <2>3, <2>4, <2>5, <2>6, <2>7 DEF Next
<1>2. Spec => []ServiceInv
  BY RevokeHolds, PTL DEF ServiceInv
<1> QED BY <1>1, <1>2, InitMirrors, PTL DEF Spec, MirrorsGateway, Promise!Spec

=============================================================================
