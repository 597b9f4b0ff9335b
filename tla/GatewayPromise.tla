--------------------------- MODULE GatewayPromise ---------------------------
(***************************************************************************)
(* What the policy gateway promises the code that calls evaluate(), with   *)
(* rules, tokens and time left out.  A call finds its asset registered and *)
(* not withdrawn, at one moment while it is open, or is refused; then it   *)
(* may buy one nonce, and a nonce is sold once.  A call that bought one is *)
(* granted; an asset that requires consent is granted to no other call,    *)
(* but one may be held.                                                    *)
(***************************************************************************)
CONSTANTS Assets, Workers, Nonces, NoToken

VARIABLES
    offered,        \* registered assets
    priced,         \* those of them that require consent
    gone,           \* withdrawn assets
    spent,          \* nonces sold
    open,           \* per worker: the call it is serving, or NoToken
    answers         \* every answer given

promiseVars == <<offered, priced, gone, spent, open, answers>>

(* `clear`: the call found its asset registered and not withdrawn.         *)
OpenCall == [asset : Assets, late : BOOLEAN, clear : BOOLEAN, paid : Nonces \cup {NoToken}]

Init ==
    /\ offered = {}
    /\ priced = {}
    /\ gone = {}
    /\ spent = {}
    /\ open = [w \in Workers |-> NoToken]
    /\ answers = {}

(* A record enters the registry once; it may already be withdrawn.         *)
Offer(a) ==
    /\ a \notin offered
    /\ offered' = offered \cup {a}
    /\ priced' \in {priced, priced \cup {a}}
    /\ gone' \in {gone, gone \cup {a}}
    /\ UNCHANGED <<spent, open, answers>>

Withdraw(a) ==
    /\ a \in offered
    /\ gone' = gone \cup {a}
    /\ UNCHANGED <<offered, priced, spent, open, answers>>

Open(w, a) ==
    /\ open[w] = NoToken
    /\ open' = [open EXCEPT ![w] = [asset |-> a, late |-> a \in gone, clear |-> FALSE,
                                    paid |-> NoToken]]
    /\ UNCHANGED <<offered, priced, gone, spent, answers>>

(* The one look at the registry; a withdrawal that comes later is not seen.*)
Look(w) ==
    /\ open[w] # NoToken
    /\ ~open[w].clear
    /\ open[w].asset \in offered \ gone
    /\ open' = [open EXCEPT ![w].clear = TRUE]
    /\ UNCHANGED <<offered, priced, gone, spent, answers>>

Pay(w, n) ==
    /\ open[w] # NoToken
    /\ open[w].paid = NoToken
    /\ open[w].clear /\ ~open[w].late
    /\ open[w].asset \in priced
    /\ n \notin spent
    /\ spent' = spent \cup {n}
    /\ open' = [open EXCEPT ![w].paid = n]
    /\ UNCHANGED <<offered, priced, gone, answers>>

(* The call of worker w is answered under an identifier no answer carries. *)
Answer(w, id, outcome) ==
    /\ open[w] # NoToken
    /\ \A r \in answers : r.id # id
    /\ answers' = answers \cup
         {[id |-> id, asset |-> open[w].asset, late |-> open[w].late,
           outcome |-> outcome, paid |-> open[w].paid]}
    /\ open' = [open EXCEPT ![w] = NoToken]
    /\ UNCHANGED <<offered, priced, gone, spent>>

Grant(w, id) ==
    /\ Answer(w, id, "granted")
    /\ open[w].clear /\ ~open[w].late
    /\ open[w].asset \in offered
    /\ open[w].asset \in priced <=> open[w].paid # NoToken

(* Consent is still awaited.                                               *)
Defer(w, id) ==
    /\ Answer(w, id, "held")
    /\ open[w].clear
    /\ open[w].asset \in priced
    /\ open[w].paid = NoToken

Refuse(w, id) ==
    /\ Answer(w, id, "refused")
    /\ open[w].paid = NoToken

(* Any identifier will do; the one the step used is read off its answer.   *)
Next ==
    \/ \E a \in Assets : Offer(a) \/ Withdraw(a)
    \/ \E w \in Workers :
         \/ \E a \in Assets : Open(w, a)
         \/ Look(w)
         \/ \E n \in Nonces : Pay(w, n)
         \/ \E id \in {r.id : r \in answers'} : Grant(w, id) \/ Defer(w, id) \/ Refuse(w, id)

Spec == Init /\ [][Next]_promiseVars

=============================================================================
