------------------------------- MODULE Service -------------------------------
(***************************************************************************)
(* src/policy/service.py: POST /evaluate and POST /revoke.  Every request  *)
(* has a thread of the HTTP server, which hands the work to a pool shared  *)
(* by all and waits for it.  The gateway and its registry are built under  *)
(* _STATE_LOCK, by main() or by the first request that needs them.  A      *)
(* revocation withdraws and then probes the gateway, both on its own       *)
(* worker of the pool.                                                     *)
(*                                                                         *)
(* The rules of the gateway are PolicyGateway's; here a decision is Blocked*)
(* or not.  The registry of the service has no listeners.                  *)
(***************************************************************************)
EXTENDS AssetStore

CONSTANTS
    Seeds,          \* the assets _seed_assets() registers
    SeedMetadata,   \* and what it registers for them
    PoolSize,       \* max_workers of _POOL
    NoCall,
    MaxPosts        \* bound: number of requests

(* The threads of the HTTP server are the store's Revokers.                *)
Clients == Revokers

VARIABLES
    built,          \* _GATEWAY_STATE holds a gateway
    building,       \* _STATE_LOCK is held by a thread that builds one
    queue,          \* the requests submitted to _POOL and not yet taken up
    calls,          \* per thread: the request it serves and how far it got
    replies         \* history: how requests ended, in that order

serviceVars == <<built, building, queue, calls, replies>>
vars == <<storeVars, serviceVars>>

Kinds == {"evaluate", "revoke", "malformed"}

Codes == {200, 400, 404}

(* `late` and `since` are history: whether the asset was withdrawn when    *)
(* evaluate() was called, and how many requests had ended at the post.     *)
Call == [kind : Kinds, asset : Assets, step : {"queued", "enter", "withdraw", "probe", "read", "reply"},
         code : Codes, blocked : BOOLEAN, late : BOOLEAN, since : Nat]

(* A request whose client has gone away is not delivered.                  *)
ReplyRecord == [kind : Kinds, asset : Assets, code : Codes, blocked : BOOLEAN, late : BOOLEAN,
                since : Nat, delivered : BOOLEAN]

ASSUME ServiceAssumption ==
    /\ Seeds \subseteq Assets
    /\ SeedMetadata \in Metadata
    /\ PoolSize \in Nat \ {0}
    /\ MaxPosts \in Nat
    /\ NoCall \notin Call
    /\ NoCall \notin [asset : Assets, late : BOOLEAN, clear : BOOLEAN, paid : {NoCall}]

Init ==
    /\ StoreInit
    /\ built = FALSE
    /\ building = FALSE
    /\ queue = <<>>
    /\ calls = [c \in Clients |-> NoCall]
    /\ replies = <<>>

-----------------------------------------------------------------------------

At(c, step) == calls[c] # NoCall /\ calls[c].step = step

Posts == Len(replies) + Cardinality({c \in Clients : calls[c] # NoCall})

(* do_POST() up to future.result(): read, submitted, waited for.           *)
Post(c, kind, a) ==
    /\ calls[c] = NoCall
    /\ Posts < MaxPosts
    /\ calls' = [calls EXCEPT ![c] = [kind |-> kind, asset |-> a, step |-> "queued", code |-> 200,
                                      blocked |-> FALSE, late |-> FALSE, since |-> Len(replies)]]
    /\ queue' = Append(queue, c)
    /\ UNCHANGED <<storeVars, built, building, replies>>

Workers == {c \in Clients : calls[c] # NoCall /\ calls[c].step \notin {"queued", "reply"}}

(* A worker of the pool takes up the request at the head of the queue; one *)
(* that is not JSON, lacks the asset or has no handler is answered at once.*)
StartWork ==
    /\ queue # <<>>
    /\ Cardinality(Workers) < PoolSize
    /\ queue' = Tail(queue)
    /\ calls' = IF calls[Head(queue)].kind = "malformed"
                THEN [calls EXCEPT ![Head(queue)].step = "reply", ![Head(queue)].code = 400]
                ELSE [calls EXCEPT ![Head(queue)].step = "enter"]
    /\ UNCHANGED <<storeVars, built, building, replies>>

(* build_gateway() begins with an empty registry.                          *)
NewStore ==
    /\ building' = TRUE
    /\ catalog' = [a \in Assets |-> Absent]
    /\ withdrawn' = {}
    /\ UNCHANGED <<revokedAt, mono, listeners, pending, built, queue, calls, replies>>

(* A _gateway() that forgets the gateway it built.                         *)
BuildAgain == ~building /\ NewStore

(* _gateway() finds none under the lock.                                   *)
Build == ~built /\ ~building /\ NewStore

BuildForRequest(c) == At(c, "enter") /\ Build

SeedNext ==
    /\ building
    /\ \E a \in Seeds : Register(a, SeedMetadata, FALSE)
    /\ UNCHANGED serviceVars

Publish ==
    /\ building
    /\ \A a \in Seeds : Registered(a)
    /\ built' = TRUE
    /\ building' = FALSE
    /\ UNCHANGED <<storeVars, queue, calls, replies>>

(* _store() of a revocation.                                               *)
EnterStore(c) ==
    /\ At(c, "enter")
    /\ calls[c].kind = "revoke"
    /\ built /\ ~building
    /\ calls' = [calls EXCEPT ![c].step = "withdraw"]
    /\ UNCHANGED <<storeVars, built, building, queue, replies>>

(* _gateway().evaluate() is called, of an evaluation or for the probe.     *)
EnterGateway(c) ==
    /\ At(c, "probe") \/ (At(c, "enter") /\ calls[c].kind = "evaluate")
    /\ built /\ ~building
    /\ calls' = [calls EXCEPT ![c].step = "read", ![c].late = calls[c].asset \in withdrawn]
    /\ UNCHANGED <<storeVars, built, building, queue, replies>>

(* A revocation that sends its probe through the pool and waits for it.    *)
WithdrawThenQueue(c) ==
    /\ At(c, "withdraw")
    /\ calls[c].kind = "revoke"
    /\ WithdrawMark(c, calls[c].asset)
    /\ calls' = [calls EXCEPT ![c].kind = "evaluate"]
    /\ queue' = Append(queue, c)
    /\ UNCHANGED <<built, building, replies>>

Withdraw(c) ==
    /\ At(c, "withdraw")
    /\ WithdrawMark(c, calls[c].asset)
    /\ calls' = [calls EXCEPT ![c].step = "probe"]
    /\ UNCHANGED <<built, building, queue, replies>>

(* A revocation that lets AssetNotFound through.                           *)
WithdrawUnknownRaises(c) ==
    /\ At(c, "withdraw")
    /\ ~Registered(calls[c].asset)
    /\ calls' = [calls EXCEPT ![c].step = "reply", ![c].code = 500]
    /\ UNCHANGED <<storeVars, built, building, queue, replies>>

WithdrawUnknown(c) ==
    /\ At(c, "withdraw")
    /\ ~Registered(calls[c].asset)
    /\ calls' = [calls EXCEPT ![c].step = "reply", ![c].code = 404]
    /\ UNCHANGED <<storeVars, built, building, queue, replies>>

(* A gateway that judges the records it was built with.                    *)
VerdictsAsBuilt(a) == IF Registered(a) THEN BOOLEAN ELSE {TRUE}

(* Whether evaluate() may answer Blocked on the record it reads: it must   *)
(* for an unknown or withdrawn asset, and may by another rule.             *)
Verdicts(a) == IF Registered(a) /\ a \notin withdrawn THEN BOOLEAN ELSE {TRUE}

Evaluate(c) ==
    /\ At(c, "read")
    /\ \E blocked \in Verdicts(calls[c].asset) :
         calls' = [calls EXCEPT ![c].step = "reply", ![c].blocked = blocked]
    /\ UNCHANGED <<storeVars, built, building, queue, replies>>

(* The thread of the request writes the answer, unless the client is gone. *)
Reply(c, delivered) ==
    /\ At(c, "reply")
    /\ LET k == calls[c] IN
         replies' = Append(replies,
           [kind |-> k.kind, asset |-> k.asset, code |-> k.code, blocked |-> k.blocked,
            late |-> k.late, since |-> k.since, delivered |-> delivered])
    /\ calls' = [calls EXCEPT ![c] = NoCall]
    /\ UNCHANGED <<storeVars, built, building, queue>>

Serve(c) ==
    \/ BuildForRequest(c)
    \/ EnterStore(c) \/ EnterGateway(c)
    \/ Withdraw(c) \/ WithdrawUnknown(c)
    \/ Evaluate(c)
    \/ \E delivered \in BOOLEAN : Reply(c, delivered)

Next ==
    \/ \E c \in Clients :
         \/ \E kind \in Kinds, a \in Assets : Post(c, kind, a)
         \/ Serve(c)
    \/ StartWork
    \/ Build
    \/ SeedNext \/ Publish

(* The pool, its workers and the threads of the server keep running, and   *)
(* so does the thread that holds the lock.                                 *)
Fairness ==
    /\ WF_vars(StartWork)
    /\ WF_vars(SeedNext \/ Publish)
    /\ \A c \in Clients : WF_vars(Serve(c))

Spec == Init /\ [][Next]_vars /\ Fairness

-----------------------------------------------------------------------------
(* Every variable of the service keeps its type.                           *)
ServiceTypeOK ==
    /\ StoreTypeOK
    /\ built \in BOOLEAN /\ building \in BOOLEAN
    /\ queue \in Seq(Clients)
    /\ calls \in [Clients -> Call \cup {NoCall}]
    /\ replies \in Seq(ReplyRecord)

Done(i, kind, a) == replies[i].kind = kind /\ replies[i].asset = a /\ replies[i].code = 200

(* "Immediate probe: next evaluation must already block" (service.py:167): *)
(* a revocation that succeeds reports blocked, although it takes the lock  *)
(* of the registry and looks for the gateway anew for its probe, and other *)
(* requests build, revoke and evaluate in between.                         *)
RevokeConfirmed ==
    \A i \in DOMAIN replies, a \in Assets : Done(i, "revoke", a) => replies[i].blocked

(* Over the wire: an evaluation posted after a client was told that the    *)
(* asset is revoked is answered Blocked, on whichever worker either ran.   *)
RevokedStaysBlocked ==
    \A i, j \in DOMAIN replies, a \in Assets :
        /\ Done(i, "revoke", a) /\ replies[i].delivered
        /\ Done(j, "evaluate", a) /\ i <= replies[j].since
        => replies[j].blocked

(* Every request is answered: no two of them wait for each other, in the   *)
(* pool or for the lock, though revocations fill the pool.                 *)
EveryRequestAnswered == \A c \in Clients : calls[c] # NoCall ~> calls[c] = NoCall

Evaluating(c) ==
    calls[c] # NoCall /\ (At(c, "read") \/ (At(c, "reply") /\ calls[c].code = 200))

(* The state of GatewayPromise that a state of the service stands for.     *)
OfferedAssets == {a \in Assets : Registered(a)}

OpenCalls ==
    [c \in Clients |->
       IF Evaluating(c)
       THEN [asset |-> calls[c].asset, late |-> calls[c].late,
             clear |-> At(c, "reply") /\ ~calls[c].blocked, paid |-> NoCall]
       ELSE NoCall]

AnswerOf(i) ==
    [id |-> i, asset |-> replies[i].asset, late |-> replies[i].late,
     outcome |-> IF replies[i].blocked THEN "refused" ELSE "granted", paid |-> NoCall]

Answers == {AnswerOf(i) : i \in {j \in DOMAIN replies : replies[j].code = 200}}

Promise == INSTANCE GatewayPromise WITH
    Workers <- Clients, Nonces <- {}, NoToken <- NoCall,
    offered <- OfferedAssets, priced <- {}, gone <- withdrawn, spent <- {},
    open <- OpenCalls, answers <- Answers

(* "The service mirrors the in-process PolicyGateway exactly" (service.py: *)
(* 5): what it answers, and the registry behind it, is what the abstract   *)
(* gateway may do, from an empty registry on, probes included.             *)
MirrorsGateway == Promise!Spec

=============================================================================
