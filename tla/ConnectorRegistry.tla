-------------------------- MODULE ConnectorRegistry --------------------------
(***************************************************************************)
(* src/connectors/registry.py: external connectors and their quarantine.   *)
(*                                                                         *)
(* Every method of the registry is one lock section, hence one action.     *)
(* can_serve() is a method of the Connector that get() handed out and is   *)
(* called without the lock: it reads the state first and the quarantined   *)
(* assets second, and any lock section may fall in between.                *)
(* (quarantine() writes the state of a connector before its assets, so a   *)
(* reader that sees it half done answers as it would before or after it.)  *)
(***************************************************************************)
EXTENDS CoreTypes

CONSTANTS
    Connectors,     \* connector ids
    Readers,        \* threads that call can_serve()
    NotReading      \* a reader outside can_serve()

ASSUME RegistryAssumption ==
    NotReading \notin [connector : Connectors, asset : Assets, servable : BOOLEAN]

VARIABLES
    state,          \* per connector, Absent until it is registered
    held,           \* quarantined_assets
    lastRevocation, \* last_revocation_ns, 0 for None
    reading         \* per reader: the can_serve() that found the state Active,
                    \* and (history) whether a True was justified at that point

registryVars == <<state, held, lastRevocation, reading>>

Reading == [connector : Connectors, asset : Assets, servable : BOOLEAN]

(* Types; and a connector holds assets only while it is Quarantined.       *)
RegistryTypeOK ==
    /\ \A c \in Connectors : held[c] # {} => state[c] = "Quarantined"
    /\ state \in [Connectors -> {"Absent", "Active", "Quarantined", "Acknowledged"}]
    /\ held \in [Connectors -> SUBSET Assets]
    /\ lastRevocation \in [Connectors -> Nat]
    /\ reading \in [Readers -> Reading \cup {NotReading}]

RegistryInit ==
    /\ state = [c \in Connectors |-> "Absent"]
    /\ held = [c \in Connectors |-> {}]
    /\ lastRevocation = [c \in Connectors |-> 0]
    /\ reading = [r \in Readers |-> NotReading]

-----------------------------------------------------------------------------

Known == {c \in Connectors : state[c] # "Absent"}

RegisterConnector(c) ==
    /\ c \notin Known
    /\ state' = [state EXCEPT ![c] = "Active"]
    /\ UNCHANGED <<held, lastRevocation, reading>>

(* A quarantine() that skips the connectors that are not Active.           *)
QuarantineActive(a, ns) ==
    /\ state' = [c \in Connectors |-> IF state[c] = "Active" THEN "Quarantined" ELSE state[c]]
    /\ held' = [c \in Connectors |-> IF state[c] = "Active" THEN held[c] \cup {a} ELSE held[c]]
    /\ lastRevocation' = [c \in Connectors |-> IF c \in Known THEN ns ELSE lastRevocation[c]]
    /\ UNCHANGED reading

(* A quarantine() that keeps the later of two moments.                     *)
QuarantineLatest(a, ns) ==
    /\ state' = [c \in Connectors |-> IF c \in Known THEN "Quarantined" ELSE state[c]]
    /\ held' = [c \in Connectors |-> IF c \in Known THEN held[c] \cup {a} ELSE held[c]]
    /\ lastRevocation' = [c \in Connectors |->
                            IF c \in Known /\ ns > lastRevocation[c] THEN ns ELSE lastRevocation[c]]
    /\ UNCHANGED reading

(* quarantine(): every connector there is, whatever its state.             *)
Quarantine(a, ns) ==
    /\ state' = [c \in Connectors |-> IF c \in Known THEN "Quarantined" ELSE state[c]]
    /\ held' = [c \in Connectors |-> IF c \in Known THEN held[c] \cup {a} ELSE held[c]]
    /\ lastRevocation' = [c \in Connectors |-> IF c \in Known THEN ns ELSE lastRevocation[c]]
    /\ UNCHANGED reading

Acknowledge(c) ==
    /\ c \in Known
    /\ state' = [state EXCEPT ![c] = "Acknowledged"]
    /\ held' = [held EXCEPT ![c] = {}]
    /\ UNCHANGED <<lastRevocation, reading>>

(* A reactivate() that does not look at the quarantined assets.            *)
ReactivateUnchecked(c) ==
    /\ c \in Known
    /\ state' = [state EXCEPT ![c] = "Active"]
    /\ UNCHANGED <<held, lastRevocation, reading>>

(* reactivate(): raises, changing nothing, while assets are quarantined.   *)
Reactivate(c) ==
    /\ c \in Known
    /\ held[c] = {}
    /\ state' = [state EXCEPT ![c] = "Active"]
    /\ UNCHANGED <<held, lastRevocation, reading>>

CanServe(c, a) == state[c] = "Active" /\ a \notin held[c]

(* can_serve() finds the connector Active and goes on to its second read;  *)
(* a connector in any other state is refused at once.                      *)
ReadState(r, c, a) ==
    /\ reading[r] = NotReading
    /\ state[c] = "Active"
    /\ reading' = [reading EXCEPT ![r] = [connector |-> c, asset |-> a, servable |-> CanServe(c, a)]]
    /\ UNCHANGED <<state, held, lastRevocation>>

(* What the second read makes can_serve() answer.                          *)
Serves(r) == reading[r].asset \notin held[reading[r].connector]

ReadHeld(r) ==
    /\ reading[r] # NotReading
    /\ reading' = [reading EXCEPT ![r] = NotReading]
    /\ UNCHANGED <<state, held, lastRevocation>>

=============================================================================
