------------------------------ MODULE Revocation ------------------------------
(***************************************************************************)
(* The revocation path: AssetStore.withdraw() and the connector registry   *)
(* it reaches through a listener (tests/test_runtime.py:87 registers       *)
(* ConnectorRegistry.quarantine).  A withdrawal marks the record under the *)
(* store's lock and quarantines the connectors later, under the lock of    *)
(* the registry; another listener may raise before the registry is told.   *)
(***************************************************************************)
EXTENDS AssetStore, ConnectorRegistry

CONSTANT registry       \* the listener that is ConnectorRegistry.quarantine

ASSUME RevocationAssumption == registry \in Listeners \ FaultyListeners

VARIABLES
    marked,         \* history: the connectors a running withdraw() must reach
    cutOff,         \* history: <<connector, asset>> a withdraw() has cut off
    withdrawals     \* history: <<asset, moment>> of every withdraw()

historyVars == <<marked, cutOff, withdrawals>>
vars == <<storeVars, registryVars, historyVars>>

Init ==
    /\ StoreInit
    /\ RegistryInit
    /\ marked = [v \in Revokers |-> {}]
    /\ cutOff = {}
    /\ withdrawals = {}

-----------------------------------------------------------------------------

RegistryListens == \E i \in DOMAIN listeners : listeners[i] = registry

Withdraw(v, a) ==
    /\ WithdrawMark(v, a)
    /\ marked' = [marked EXCEPT ![v] = IF RegistryListens THEN Known ELSE {}]
    /\ withdrawals' = withdrawals \cup {<<a, mono'>>}
    /\ UNCHANGED <<registryVars, cutOff>>

Returning(v) == Len(pending[v]) = 1

(* The listener loop calls the registry, or a listener that touches none   *)
(* of this.  withdraw() returns with the last call.                        *)
NotifyListener(v) ==
    /\ Notify(v)
    /\ LET call == Head(pending[v]) IN
         /\ IF call.listener = registry
            THEN Quarantine(call.asset, call.ns) ELSE UNCHANGED registryVars
         /\ cutOff' = IF Returning(v) THEN cutOff \cup (marked[v] \X {call.asset}) ELSE cutOff
    /\ UNCHANGED <<marked, withdrawals>>

Raise(v) == ListenerRaises(v) /\ UNCHANGED <<registryVars, historyVars>>

(* An acknowledgement reopens what was cut off, and excuses the connector  *)
(* from the withdrawals under way.                                         *)
AcknowledgeConnector(c) ==
    /\ Acknowledge(c)
    /\ marked' = [v \in Revokers |-> marked[v] \ {c}]
    /\ cutOff' = {p \in cutOff : p[1] # c}
    /\ UNCHANGED <<storeVars, withdrawals>>

StoreStep ==
    /\ \/ \E a \in Assets, m \in Metadata : Register(a, m, FALSE)
       \/ \E l \in Listeners : AddRevocationListener(l)
    /\ UNCHANGED <<registryVars, historyVars>>

RegistryStep ==
    /\ \/ \E c \in Connectors : RegisterConnector(c) \/ Reactivate(c)
       \/ \E r \in Readers :
            \/ \E c \in Connectors, a \in Assets : ReadState(r, c, a)
            \/ ReadHeld(r)
    /\ UNCHANGED <<storeVars, historyVars>>

Next ==
    \/ \E v \in Revokers :
         \/ \E a \in Assets : Withdraw(v, a)
         \/ NotifyListener(v)
         \/ Raise(v)
    \/ \E c \in Connectors : AcknowledgeConnector(c)
    \/ StoreStep
    \/ RegistryStep

(* A thread inside withdraw() keeps calling its listeners.                 *)
Fairness == \A v \in Revokers : WF_vars(NotifyListener(v) \/ Raise(v))

Spec == Init /\ [][Next]_vars /\ Fairness

-----------------------------------------------------------------------------
(* Every variable of the store, the registry and the histories keeps its   *)
(* type, and only a Quarantined connector has quarantined assets.          *)
TypeOK ==
    /\ StoreTypeOK
    /\ RegistryTypeOK
    /\ marked \in [Revokers -> SUBSET Connectors]
    /\ cutOff \in SUBSET (Connectors \X Assets)
    /\ withdrawals \in SUBSET (Assets \X Nat)

(* "connectors flip to Quarantined and refuse reads until an explicit      *)
(* acknowledge()" (registry.py:4): once a withdraw() that the registry     *)
(* listens to has returned, no connector it found can serve the asset,     *)
(* however registrations, reactivations and other withdrawals interleave,  *)
(* until that connector is acknowledged.                                   *)
CutOffHolds ==
    \A p \in cutOff : p[2] \in held[p[1]] /\ state[p[1]] \notin {"Active", "Absent"}

(* A quarantine has its cause in the store, although the registry learns   *)
(* of withdrawals outside the store's lock and maybe in another order: all *)
(* that a connector has quarantined is withdrawn, and last_revocation_ns   *)
(* (registry.py:59) is the moment withdraw() read for an asset that is     *)
(* still quarantined, never one left of an asset acknowledged since.       *)
QuarantineTraced ==
    \A c \in Connectors :
        /\ held[c] \subseteq withdrawn
        /\ held[c] # {} => \E a \in held[c] : <<a, lastRevocation[c]>> \in withdrawals

(* can_serve() takes no lock, yet a True it returns was true when it began:*)
(* its two reads never combine an old state with a newer quarantine list   *)
(* into an answer no moment justifies.                                     *)
ServedWasServable ==
    [][\A r \in Readers :
         reading[r] # NotReading /\ reading'[r] = NotReading /\ Serves(r) => reading[r].servable]_vars

(* withdraw() returns, or raises what a listener raised: every listener    *)
(* call it owes is eventually made or given up.                            *)
WithdrawReturns == \A v \in Revokers : pending[v] # <<>> ~> pending[v] = <<>>

=============================================================================
