----------------------------- MODULE AssetStore -----------------------------
(***************************************************************************)
(* src/records/store.py: the thread-safe asset registry.                   *)
(*                                                                         *)
(* register() and the lock section of withdraw() are atomic (one RLock).   *)
(* withdraw() calls its listeners AFTER releasing the lock, one by one and *)
(* from a copy of the list taken under the lock, so everything else in the *)
(* process may run between the mark and each call: pending[v] is what the  *)
(* withdraw() call of thread v has still to notify.                        *)
(*                                                                         *)
(* Calls that raise before changing anything (a duplicate register(), a    *)
(* withdraw() of an unknown id) are stuttering steps and have no action.   *)
(***************************************************************************)
EXTENDS CoreTypes

CONSTANTS
    Metadata,           \* AssetMetadata contents other than asset_id, withdrawn
    Absent,             \* what _assets.get() returns for an unknown id
    Revokers,           \* threads that call withdraw()
    Listeners,          \* callables that may be passed to add_revocation_listener
    FaultyListeners,    \* those of them that may raise
    MaxListeners,       \* bound: length of _listeners
    MaxWithdrawals      \* bound: number of withdraw() calls

ASSUME StoreAssumption ==
    /\ Absent \notin Metadata
    /\ FaultyListeners \subseteq Listeners
    /\ MaxListeners \in Nat
    /\ MaxWithdrawals \in Nat

VARIABLES
    catalog,        \* _assets: [Assets -> metadata or Absent]
    withdrawn,      \* the assets whose record carries withdrawn=True
    revokedAt,      \* _revoked_at_monotonic_ns, 0 for no entry
    mono,           \* time.monotonic_ns(), as read under the lock by withdraw()
    listeners,      \* _listeners
    pending         \* per thread: the listener calls withdraw() has still to make

storeVars == <<catalog, withdrawn, revokedAt, mono, listeners, pending>>

Notification == [listener : Listeners, asset : Assets, ns : Nat]

StoreTypeOK ==
    /\ catalog \in [Assets -> Metadata \cup {Absent}]
    /\ withdrawn \in SUBSET Assets
    /\ revokedAt \in [Assets -> Nat]
    /\ mono \in Nat
    /\ listeners \in Seq(Listeners)
    /\ pending \in [Revokers -> Seq(Notification)]

StoreInit ==
    /\ catalog = [a \in Assets |-> Absent]
    /\ withdrawn = {}
    /\ revokedAt = [a \in Assets |-> 0]
    /\ mono = 0
    /\ listeners = <<>>
    /\ pending = [v \in Revokers |-> <<>>]

-----------------------------------------------------------------------------

Registered(a) == catalog[a] # Absent

(* A registry that overwrites an existing record.                          *)
RegisterAnew(a, meta, isWithdrawn) ==
    /\ catalog' = [catalog EXCEPT ![a] = meta]
    /\ withdrawn' = (withdrawn \ {a}) \cup (IF isWithdrawn THEN {a} ELSE {})
    /\ UNCHANGED <<revokedAt, mono, listeners, pending>>

(* register(): refuses an id it already holds, withdrawn or not.           *)
Register(a, meta, isWithdrawn) ==
    /\ ~Registered(a)
    /\ catalog' = [catalog EXCEPT ![a] = meta]
    /\ withdrawn' = withdrawn \cup (IF isWithdrawn THEN {a} ELSE {})
    /\ UNCHANGED <<revokedAt, mono, listeners, pending>>

AddRevocationListener(l) ==
    /\ Len(listeners) < MaxListeners
    /\ listeners' = Append(listeners, l)
    /\ UNCHANGED <<catalog, withdrawn, revokedAt, mono, pending>>

(* The lock section of withdraw(): the record is marked, the clock read,   *)
(* the listener list copied.                                               *)
WithdrawMark(v, a) ==
    /\ pending[v] = <<>>
    /\ Registered(a)
    /\ mono < MaxWithdrawals
    /\ withdrawn' = withdrawn \cup {a}
    /\ mono' = mono + 1
    /\ revokedAt' = [revokedAt EXCEPT ![a] = mono + 1]
    /\ pending' = [pending EXCEPT ![v] =
                     [i \in DOMAIN listeners |->
                        [listener |-> listeners[i], asset |-> a, ns |-> mono + 1]]]
    /\ UNCHANGED <<catalog, listeners>>

(* A loop that does not advance over its copy of the listeners.            *)
NotifyAgain(v) ==
    /\ pending[v] # <<>>
    /\ UNCHANGED storeVars

(* One listener(asset_id, revoked_ns) call of the loop after the lock; the *)
(* composing module adds what the listener does.  withdraw() returns with  *)
(* the last of them.                                                       *)
Notify(v) ==
    /\ pending[v] # <<>>
    /\ pending' = [pending EXCEPT ![v] = Tail(@)]
    /\ UNCHANGED <<catalog, withdrawn, revokedAt, mono, listeners>>

(* A listener that raises: the exception leaves withdraw(), the listeners  *)
(* after it are not called, and the mark stays.                            *)
ListenerRaises(v) ==
    /\ pending[v] # <<>>
    /\ Head(pending[v]).listener \in FaultyListeners
    /\ pending' = [pending EXCEPT ![v] = <<>>]
    /\ UNCHANGED <<catalog, withdrawn, revokedAt, mono, listeners>>

-----------------------------------------------------------------------------

(* "Withdrawal is monotonic: once withdrawn, an asset cannot be            *)
(* re-admitted through this store" (store.py:3): no call, of any thread,   *)
(* turns a withdrawn record back or replaces the record it was taken for.  *)
WithdrawalMonotonic ==
    [][ /\ withdrawn \subseteq withdrawn'
        /\ \A a \in Assets : Registered(a) => catalog'[a] = catalog[a] ]_storeVars

=============================================================================
