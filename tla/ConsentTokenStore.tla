-------------------------- MODULE ConsentTokenStore --------------------------
(***************************************************************************)
(* src/policy/tokens.py: consent tokens with single-use nonces.            *)
(*                                                                         *)
(* A token is named by the nonce its payload carries; claims[n] is that    *)
(* payload.  Whatever else a caller can present (not decodable, or with a  *)
(* signature that does not match) is the one value Forged.                 *)
(*                                                                         *)
(* verify_without_consuming() and verify() are modelled as the predicates  *)
(* their checks amount to; each reads _used_nonces once, under the lock,   *)
(* as its last check, so a call is one atomic step of its caller.          *)
(***************************************************************************)
EXTENDS CoreTypes

CONSTANTS
    Nonces,         \* nonces mint() may draw
    NoToken,        \* no token, no claim
    Forged,         \* a token mint() of this store did not make
    NonAscii,       \* ids hmac.compare_digest refuses to compare as str
    IssueTimes,     \* values of mint's now
    Lifetimes,      \* values of mint's ttl_seconds (a test uses a negative one)
    ClockSkew,      \* the 60 seconds of verify()
    MaxTime         \* bound: last second of the wall clock

ASSUME TokenAssumption ==
    /\ NoToken \notin Nonces \cup {Forged}
    /\ Forged \notin Nonces
    /\ NonAscii \subseteq Assets \cup Tenants
    /\ IssueTimes \subseteq Nat
    /\ Lifetimes \subseteq Int
    /\ ClockSkew \in Nat
    /\ MaxTime \in Nat

VARIABLES
    clock,          \* time.time(), whole seconds
    claims,         \* the payload behind each minted nonce
    usedNonces      \* _used_nonces

tokenVars == <<clock, claims, usedNonces>>

ConsentClaim == [asset : Assets, tenant : Tenants, issuedAt : Nat, expiresAt : Int]

Presentable == Nonces \cup {Forged}

NoClaim == NoToken

TokenTypeOK ==
    /\ clock \in Nat
    /\ claims \in [Nonces -> ConsentClaim \cup {NoClaim}]
    /\ usedNonces \in SUBSET Nonces

TokenInit ==
    /\ clock = 0
    /\ claims = [n \in Nonces |-> NoClaim]
    /\ usedNonces = {}

-----------------------------------------------------------------------------

Minted(n) == claims[n] # NoClaim

(* mint(): a fresh nonce, issued at `iat`, expiring ttl seconds later.     *)
Mint(n, a, t, iat, ttl) ==
    /\ ~Minted(n)
    /\ claims' = [claims EXCEPT ![n] =
                    [asset |-> a, tenant |-> t, issuedAt |-> iat, expiresAt |-> iat + ttl]]
    /\ UNCHANGED <<clock, usedNonces>>

Tick ==
    /\ clock < MaxTime
    /\ clock' = clock + 1
    /\ UNCHANGED <<claims, usedNonces>>

(* The token was minted for this asset and this tenant.                    *)
InScope(tok, a, t) ==
    /\ tok \in Nonces
    /\ Minted(tok)
    /\ claims[tok].asset = a
    /\ claims[tok].tenant = t

Expired(tok, at) == at >= claims[tok].expiresAt

(* verify_without_consuming() returns: note that it lacks verify()'s check *)
(* of issued_at.                                                           *)
ProbeAccepts(tok, a, t, at) ==
    /\ InScope(tok, a, t)
    /\ ~Expired(tok, at)
    /\ tok \notin usedNonces

(* A message the gateway has no reason for.                                *)
ProbeErrorUnmapped(tok, a, t, at) == "token_unknown"

(* An error that takes every token of this asset for a burnt one.          *)
ProbeErrorCoarse(tok, a, t, at) ==
    IF ~InScope(tok, a, t) THEN "token_invalid" ELSE "token_replay"

(* ... or raises a TokenError; the gateway tells these messages apart.     *)
ProbeError(tok, a, t, at) ==
    IF ~InScope(tok, a, t) THEN "token_invalid"
    ELSE IF Expired(tok, at) THEN "token_expired" ELSE "token_replay"

(* A verify() that forgets to look the nonce up.                           *)
VerifyAcceptsReplay(tok, a, t, at) ==
    /\ InScope(tok, a, t)
    /\ ~Expired(tok, at)
    /\ claims[tok].issuedAt <= at + ClockSkew

(* A verify() that takes a token issued in the future.                     *)
VerifyAcceptsPostdated(tok, a, t, at) ==
    /\ InScope(tok, a, t)
    /\ ~Expired(tok, at)
    /\ tok \notin usedNonces

(* verify() raises TypeError: it compares with compare_digest, which takes *)
(* only ASCII strings, first the assets and, if they agree, the tenants.   *)
VerifyCrashes(tok, a, t) ==
    /\ tok \in Nonces
    /\ Minted(tok)
    /\ \/ {a, claims[tok].asset} \cap NonAscii # {}
       \/ claims[tok].asset = a /\ {t, claims[tok].tenant} \cap NonAscii # {}

(* verify() returns, and burns the nonce under the lock it looked it up.   *)
VerifyAccepts(tok, a, t, at) ==
    /\ ~VerifyCrashes(tok, a, t)
    /\ InScope(tok, a, t)
    /\ ~Expired(tok, at)
    /\ claims[tok].issuedAt <= at + ClockSkew
    /\ tok \notin usedNonces

(* A verify() that does not record the nonce.                              *)
BurnNothing(n) == UNCHANGED tokenVars

Burn(n) ==
    /\ usedNonces' = usedNonces \cup {n}
    /\ UNCHANGED <<clock, claims>>

=============================================================================
