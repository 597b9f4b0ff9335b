-------------------------- MODULE RevocationProofs --------------------------
(***************************************************************************)
(* Theorems about Revocation, for any number of threads, assets,           *)
(* connectors, listeners and withdrawals.                                  *)
(***************************************************************************)
EXTENDS Revocation, SequenceTheorems, TLAPS

-----------------------------------------------------------------------------
(* Types                                                                   *)

LEMMA InitTypes == Init => TypeOK
<1> SUFFICES ASSUME Init PROVE TypeOK
  OBVIOUS
<1>1. StoreTypeOK
  BY DEF Init, StoreInit, StoreTypeOK
<1>2. RegistryTypeOK
  BY DEF Init, RegistryInit, RegistryTypeOK
<1> QED BY <1>1, <1>2 DEF Init, TypeOK

(* What withdraw() owes its listeners after its lock section.              *)
LEMMA WithdrawOwes ==
    ASSUME StoreTypeOK, NEW v \in Revokers, NEW a \in Assets, WithdrawMark(v, a)
    PROVE  /\ pending'[v] \in Seq(Notification)
           /\ Len(pending'[v]) = Len(listeners)
           /\ DOMAIN pending'[v] = DOMAIN listeners
           /\ \A i \in DOMAIN listeners :
                /\ pending'[v][i].listener = listeners[i] /\ pending'[v][i].asset = a
                /\ pending'[v][i].ns = mono + 1
<1> DEFINE owed == [i \in DOMAIN listeners |->
                      [listener |-> listeners[i], asset |-> a, ns |-> mono + 1]]
<1>1. pending'[v] = owed
  BY DEF WithdrawMark, StoreTypeOK
<1>2. DOMAIN listeners = 1..Len(listeners) /\ Len(listeners) \in Nat
  BY LenProperties DEF StoreTypeOK
<1>3. \A i \in DOMAIN listeners : owed[i] \in Notification
  BY <1>2, ElementOfSeq DEF StoreTypeOK, Notification
<1>4. owed \in Seq(Notification) /\ Len(owed) = Len(listeners)
  BY <1>2, <1>3
<1> QED BY <1>1, <1>4

LEMMA PendingCall ==
    ASSUME StoreTypeOK, NEW v \in Revokers, pending[v] # <<>>
    PROVE  /\ pending[v] \in Seq(Notification) /\ Tail(pending[v]) \in Seq(Notification)
           /\ Head(pending[v]) \in Notification /\ Head(pending[v]) = pending[v][1]
           /\ Len(Tail(pending[v])) = Len(pending[v]) - 1 /\ Len(pending[v]) \in Nat \ {0}
           /\ \A i \in 1..Len(pending[v]) - 1 : Tail(pending[v])[i] = pending[v][i + 1]
<1>1. pending[v] \in Seq(Notification)
  BY DEF StoreTypeOK
<1> QED BY <1>1, HeadTailProperties, EmptySeq

LEMMA StoreTypes ==
    ASSUME TypeOK, [Next]_vars
    PROVE  StoreTypeOK'
<1> USE DEF TypeOK
<1>1. ASSUME NEW v \in Revokers, NEW a \in Assets, Withdraw(v, a)
      PROVE  StoreTypeOK'
  <2>1. WithdrawMark(v, a)
    BY <1>1 DEF Withdraw
  <2>2. pending' \in [Revokers -> Seq(Notification)]
    BY <2>1, WithdrawOwes DEF WithdrawMark, StoreTypeOK
  <2> QED BY <2>1, <2>2 DEF WithdrawMark, StoreTypeOK
<1>2. ASSUME NEW v \in Revokers, NotifyListener(v) \/ Raise(v)
      PROVE  StoreTypeOK'
  <2>1. pending[v] # <<>>
    BY <1>2 DEF NotifyListener, Notify, Raise, ListenerRaises
  <2>2. Tail(pending[v]) \in Seq(Notification) /\ <<>> \in Seq(Notification)
    BY <2>1, PendingCall
  <2> QED BY <1>2, <2>2 DEF NotifyListener, Notify, Raise, ListenerRaises, StoreTypeOK
<1>3. CASE StoreStep
  <2>1. ASSUME NEW a \in Assets, NEW m \in Metadata, Register(a, m, FALSE)
        PROVE  StoreTypeOK'
    BY <2>1 DEF Register, StoreTypeOK
  <2>2. ASSUME NEW l \in Listeners, AddRevocationListener(l)
        PROVE  StoreTypeOK'
    BY <2>2, AppendProperties DEF AddRevocationListener, StoreTypeOK
  <2> QED BY <1>3, <2>1, <2>2 DEF StoreStep
<1>4. CASE UNCHANGED storeVars
  BY <1>4 DEF storeVars, StoreTypeOK
<1> QED BY <1>1, <1>2, <1>3, <1>4 DEF Next, AcknowledgeConnector, RegistryStep, vars

(* What a quarantine does to the connectors, in either case of the call.   *)
LEMMA QuarantineTypes ==
    ASSUME RegistryTypeOK, NEW a \in Assets, NEW ns \in Nat, Quarantine(a, ns)
    PROVE  RegistryTypeOK'
BY DEF Quarantine, RegistryTypeOK, Known

LEMMA RegistryTypes ==
    ASSUME TypeOK, [Next]_vars
    PROVE  RegistryTypeOK'
<1> USE DEF TypeOK
<1>1. ASSUME NEW v \in Revokers, NotifyListener(v)
      PROVE  RegistryTypeOK'
  <2> DEFINE call == Head(pending[v])
  <2>1. call \in Notification
    BY <1>1, PendingCall DEF NotifyListener, Notify
  <2>2. CASE Quarantine(call.asset, call.ns)
    BY <2>1, <2>2, QuarantineTypes DEF Notification
  <2>3. CASE UNCHANGED registryVars
    BY <2>3 DEF registryVars, RegistryTypeOK
  <2> QED BY <1>1, <2>2, <2>3 DEF NotifyListener
<1>2. ASSUME NEW c \in Connectors, AcknowledgeConnector(c) \/ RegisterConnector(c) \/ Reactivate(c)
      PROVE  RegistryTypeOK'
  BY <1>2 DEF AcknowledgeConnector, Acknowledge, RegisterConnector, Reactivate, Known,
     RegistryTypeOK
<1>3. ASSUME NEW r \in Readers, NEW c \in Connectors, NEW a \in Assets, ReadState(r, c, a)
      PROVE  RegistryTypeOK'
  BY <1>3 DEF ReadState, CanServe, Reading, RegistryTypeOK
<1>4. ASSUME NEW r \in Readers, ReadHeld(r)
      PROVE  RegistryTypeOK'
  BY <1>4 DEF ReadHeld, RegistryTypeOK
<1>5. CASE UNCHANGED registryVars
  BY <1>5 DEF registryVars, RegistryTypeOK
<1> QED BY <1>1, <1>2, <1>3, <1>4, <1>5
        DEF Next, Withdraw, Raise, StoreStep, RegistryStep, vars

LEMMA HistoryTypes ==
    ASSUME TypeOK, [Next]_vars
    PROVE  /\ marked' \in [Revokers -> SUBSET Connectors]
           /\ cutOff' \in SUBSET (Connectors \X Assets)
           /\ withdrawals' \in SUBSET (Assets \X Nat)
<1> USE DEF TypeOK
<1>1. ASSUME NEW v \in Revokers, NotifyListener(v)
      PROVE  UNCHANGED <<marked, withdrawals>> /\ cutOff' \in SUBSET (Connectors \X Assets)
  <2>1. Head(pending[v]).asset \in Assets
    BY <1>1, PendingCall DEF NotifyListener, Notify, Notification
  <2> QED BY <1>1, <2>1 DEF NotifyListener
<1>2. ASSUME NEW v \in Revokers, NEW a \in Assets, Withdraw(v, a)
      PROVE  /\ marked' \in [Revokers -> SUBSET Connectors] /\ UNCHANGED cutOff
             /\ withdrawals' \in SUBSET (Assets \X Nat)
  <2>1. mono' \in Nat
    BY <1>2 DEF Withdraw, WithdrawMark, StoreTypeOK
  <2> QED BY <1>2, <2>1 DEF Withdraw, Known
<1>3. ASSUME NEW c \in Connectors, AcknowledgeConnector(c)
      PROVE  /\ marked' \in [Revokers -> SUBSET Connectors]
             /\ cutOff' \in SUBSET (Connectors \X Assets)
             /\ UNCHANGED withdrawals
  BY <1>3 DEF AcknowledgeConnector
<1>4. CASE UNCHANGED historyVars
  BY <1>4 DEF historyVars
<1> QED BY <1>1, <1>2, <1>3, <1>4 DEF Next, Raise, StoreStep, RegistryStep, vars

(* Every variable of the store, the registry and the histories keeps its   *)
(* type, and only a Quarantined connector has quarantined assets.          *)
THEOREM TypeCorrect == Spec => []TypeOK
<1>1. TypeOK /\ [Next]_vars => TypeOK'
  BY StoreTypes, RegistryTypes, HistoryTypes DEF TypeOK
<1> QED BY <1>1, InitTypes, PTL DEF Spec

-----------------------------------------------------------------------------
(* Cut-offs                                                                *)

(* The calls one withdraw() makes are all about its asset.                 *)
OneAssetEach ==
    \A v \in Revokers : \A i, j \in DOMAIN pending[v] : pending[v][i].asset = pending[v][j].asset

RegistryTold(v) == \A i \in DOMAIN pending[v] : pending[v][i].listener # registry

(* A connector that a running withdraw() must reach is registered, and     *)
(* holds the asset unless the call of the registry is still to come.       *)
MarkedAreReached ==
    \A v \in Revokers : \A c \in marked[v] :
        /\ c \in Known
        /\ pending[v] # <<>> => ~RegistryTold(v) \/ Head(pending[v]).asset \in held[c]

CutOffInv == OneAssetEach /\ MarkedAreReached /\ CutOffHolds

LEMMA InitCutOff == Init => CutOffInv
BY DEF Init, StoreInit, CutOffInv, OneAssetEach, MarkedAreReached, CutOffHolds

LEMMA WithdrawCutOff ==
    ASSUME TypeOK, CutOffInv, NEW v \in Revokers, NEW a \in Assets, Withdraw(v, a)
    PROVE  CutOffInv'
<1> USE DEF CutOffInv
<1>1. WithdrawMark(v, a) /\ UNCHANGED <<state, held, cutOff>>
  BY DEF Withdraw, registryVars
<1>2. /\ pending'[v] \in Seq(Notification) /\ DOMAIN pending'[v] = DOMAIN listeners
      /\ \A i \in DOMAIN listeners :
           pending'[v][i].listener = listeners[i] /\ pending'[v][i].asset = a
  BY <1>1, WithdrawOwes DEF TypeOK
<1>3. \A u \in Revokers \ {v} : pending'[u] = pending[u] /\ marked'[u] = marked[u]
  BY <1>1 DEF Withdraw, WithdrawMark, TypeOK, StoreTypeOK
<1>4. OneAssetEach'
  BY <1>2, <1>3 DEF OneAssetEach
<1>5. \A c \in marked'[v] : c \in Known /\ RegistryListens
  BY DEF Withdraw, TypeOK
<1>6. marked'[v] # {} => ~RegistryTold(v)'
  BY <1>2, <1>5 DEF RegistryListens, RegistryTold
<1>7. Known' = Known
  BY <1>1 DEF Known
<1>8. MarkedAreReached'
  <2> SUFFICES ASSUME NEW u \in Revokers, NEW c \in marked'[u]
               PROVE  /\ c \in Known'
                      /\ pending'[u] # <<>> =>
                           ~RegistryTold(u)' \/ Head(pending'[u]).asset \in held'[c]
    BY DEF MarkedAreReached
  <2>1. CASE u = v
    BY <1>5, <1>6, <1>7, <2>1
  <2>2. CASE u # v
    BY <1>1, <1>3, <1>7, <2>2 DEF MarkedAreReached, RegistryTold
  <2> QED BY <2>1, <2>2
<1>9. CutOffHolds'
  BY <1>1 DEF CutOffHolds
<1> QED BY <1>4, <1>8, <1>9

(* A call of the listener loop: the registry's brings the asset into every *)
(* connector it knows, and with the last one what was marked is cut off.   *)
LEMMA NotifyCutOff ==
    ASSUME TypeOK, CutOffInv, NEW v \in Revokers, NotifyListener(v)
    PROVE  CutOffInv'
<1> USE DEF CutOffInv
<1> DEFINE call == Head(pending[v])
<1>1. Notify(v) /\ UNCHANGED marked /\ pending[v] # <<>>
  BY DEF NotifyListener, Notify
<1>2. /\ pending[v] \in Seq(Notification) /\ Tail(pending[v]) \in Seq(Notification)
      /\ call \in Notification /\ call = pending[v][1]
      /\ Len(Tail(pending[v])) = Len(pending[v]) - 1 /\ Len(pending[v]) \in Nat \ {0}
      /\ \A i \in 1..Len(pending[v]) - 1 : Tail(pending[v])[i] = pending[v][i + 1]
  BY <1>1, PendingCall DEF TypeOK
<1>3. DOMAIN pending[v] = 1..Len(pending[v])
      /\ DOMAIN Tail(pending[v]) = 1..Len(pending[v]) - 1
  BY <1>2, LenProperties
<1>4. pending'[v] = Tail(pending[v]) /\ \A u \in Revokers \ {v} : pending'[u] = pending[u]
  BY <1>1 DEF Notify, TypeOK, StoreTypeOK
<1>5. IF call.listener = registry THEN Quarantine(call.asset, call.ns) ELSE UNCHANGED registryVars
  BY DEF NotifyListener
<1>6. /\ Known' = Known
      /\ \A c \in Connectors : held[c] \subseteq held'[c]
      /\ call.listener = registry => \A c \in Known : call.asset \in held'[c]
      /\ \A c \in Connectors : state[c] \notin {"Active", "Absent"}
                               => state'[c] \notin {"Active", "Absent"}
  <2>1. CASE call.listener = registry
    BY <1>5, <2>1 DEF Quarantine, Known, TypeOK, RegistryTypeOK
  <2>2. CASE call.listener # registry
    BY <1>5, <2>2 DEF registryVars, Known
  <2> QED BY <2>1, <2>2
<1>7. OneAssetEach'
  <2>1. \A i, j \in DOMAIN pending'[v] : pending'[v][i].asset = pending'[v][j].asset
    <3>1. DOMAIN pending'[v] = 1..Len(pending[v]) - 1
      BY <1>3, <1>4
    <3>2. ASSUME NEW i \in 1..Len(pending[v]) - 1
          PROVE  pending'[v][i] = pending[v][i + 1] /\ i + 1 \in DOMAIN pending[v]
      BY <1>2, <1>3, <1>4
    <3> QED BY <3>1, <3>2 DEF OneAssetEach
  <2>2. \A u \in Revokers \ {v} : \A i, j \in DOMAIN pending'[u] :
          pending'[u][i].asset = pending'[u][j].asset
    BY <1>4 DEF OneAssetEach
  <2> QED BY <2>1, <2>2, Zenon DEF OneAssetEach
<1>8. ASSUME NEW c \in marked[v]
      PROVE  c \in Known /\ (RegistryTold(v)' => call.asset \in held'[c])
  <2>1. c \in Known
    BY DEF MarkedAreReached
  <2>2. ASSUME RegistryTold(v)', call.listener # registry
        PROVE  RegistryTold(v)
    <3> SUFFICES ASSUME NEW i \in 1..Len(pending[v]) PROVE pending[v][i].listener # registry
      BY <1>3 DEF RegistryTold
    <3>1. CASE i = 1
      BY <1>2, <2>2, <3>1
    <3>2. CASE i # 1
      <4>1. i - 1 \in 1..Len(pending[v]) - 1 /\ (i - 1) + 1 = i
        BY <1>2, <3>2
      <4>2. Tail(pending[v])[i - 1] = pending[v][i]
        BY <1>2, <4>1
      <4> QED BY <1>3, <1>4, <2>2, <4>1, <4>2 DEF RegistryTold
    <3> QED BY <3>1, <3>2
  <2>3. ASSUME RegistryTold(v)', call.listener # registry
        PROVE  call.asset \in held[c]
    BY <1>1, <2>2, <2>3 DEF MarkedAreReached
  <2> QED BY <1>6, <2>1, <2>3 DEF Known
<1>9. MarkedAreReached'
  <2> SUFFICES ASSUME NEW u \in Revokers, NEW c \in marked[u]
               PROVE  /\ c \in Known
                      /\ pending'[u] # <<>> =>
                           ~RegistryTold(u)' \/ Head(pending'[u]).asset \in held'[c]
    BY <1>1, <1>6 DEF MarkedAreReached
  <2>1. CASE u = v
    <3>1. ASSUME pending'[v] # <<>> PROVE Head(pending'[v]).asset = call.asset
      <4>1. Head(pending'[v]) = pending[v][2] /\ 1 \in DOMAIN pending[v] /\ 2 \in DOMAIN pending[v]
        BY <1>2, <1>3, <1>4, <3>1, EmptySeq, HeadTailProperties
      <4> QED BY <1>2, <4>1 DEF OneAssetEach
    <3> QED BY <1>8, <2>1, <3>1
  <2>2. CASE u # v
    <3>1. c \in Known /\ c \in Connectors
      BY DEF MarkedAreReached, Known
    <3>2. RegistryTold(u)' <=> RegistryTold(u)
      BY <1>4, <2>2 DEF RegistryTold
    <3> QED BY <1>4, <1>6, <2>2, <3>1, <3>2 DEF MarkedAreReached
  <2> QED BY <2>1, <2>2
<1>10. ASSUME NEW p \in cutOff'
       PROVE  p[2] \in held'[p[1]] /\ state'[p[1]] \notin {"Active", "Absent"}
  <2>1. CASE p \in cutOff
    BY <1>6, <2>1 DEF CutOffHolds, TypeOK
  <2>2. CASE p \notin cutOff
    <3>1. Returning(v) /\ p \in marked[v] \X {call.asset}
      BY <2>2 DEF NotifyListener
    <3>2. RegistryTold(v)'
      BY <1>2, <1>3, <1>4, <3>1 DEF Returning, RegistryTold
    <3>3. p[1] \in marked[v] /\ p[2] = call.asset /\ p[1] \in Connectors
      BY <3>1 DEF TypeOK
    <3>4. p[2] \in held'[p[1]]
      BY <1>8, <3>2, <3>3
    <3>5. RegistryTypeOK'
      BY RegistryTypes DEF Next
    <3> QED BY <3>3, <3>4, <3>5 DEF RegistryTypeOK
  <2> QED BY <2>1, <2>2
<1> QED BY <1>7, <1>9, <1>10 DEF CutOffHolds

(* The steps of the connector registry.                                    *)
LEMMA ConnectorsKeepCutOff ==
    ASSUME TypeOK, CutOffInv, UNCHANGED <<pending, marked, cutOff>>,
           \A c \in Known : state'[c] # "Absent" /\ held'[c] = held[c],
           \A c \in Known : held[c] # {} => state'[c] = state[c]
    PROVE  CutOffInv'
<1>1. Known \subseteq Known'
  BY DEF Known
<1>2. MarkedAreReached'
  BY <1>1 DEF CutOffInv, MarkedAreReached, RegistryTold
<1>3. CutOffHolds'
  BY DEF CutOffInv, CutOffHolds, Known, TypeOK
<1> QED BY <1>2, <1>3 DEF CutOffInv, OneAssetEach

LEMMA AcknowledgeCutOff ==
    ASSUME TypeOK, CutOffInv, NEW c \in Connectors, AcknowledgeConnector(c)
    PROVE  CutOffInv'
<1>1. /\ \A d \in Connectors \ {c} : held'[d] = held[d] /\ state'[d] = state[d]
      /\ UNCHANGED pending
      /\ \A v \in Revokers : marked'[v] = marked[v] \ {c}
      /\ cutOff' = {p \in cutOff : p[1] # c}
  BY DEF AcknowledgeConnector, Acknowledge, storeVars, TypeOK, RegistryTypeOK
<1>2. MarkedAreReached'
  BY <1>1 DEF CutOffInv, MarkedAreReached, RegistryTold, Known
<1>3. CutOffHolds'
  BY <1>1 DEF CutOffInv, CutOffHolds, TypeOK
<1> QED BY <1>1, <1>2, <1>3 DEF CutOffInv, OneAssetEach

LEMMA RaiseCutOff ==
    ASSUME TypeOK, CutOffInv, NEW v \in Revokers, Raise(v)
    PROVE  CutOffInv'
<1>1. pending'[v] = <<>> /\ \A u \in Revokers \ {v} : pending'[u] = pending[u]
  BY DEF Raise, ListenerRaises, TypeOK, StoreTypeOK
<1>2. UNCHANGED <<state, held, marked, cutOff>>
  BY DEF Raise, registryVars, historyVars
<1>3. OneAssetEach'
  BY <1>1 DEF CutOffInv, OneAssetEach
<1>4. MarkedAreReached'
  BY <1>1, <1>2 DEF CutOffInv, MarkedAreReached, RegistryTold, Known
<1>5. CutOffHolds'
  BY <1>2 DEF CutOffInv, CutOffHolds
<1> QED BY <1>3, <1>4, <1>5 DEF CutOffInv

LEMMA StepCutOff ==
    ASSUME TypeOK, CutOffInv, [Next]_vars
    PROVE  CutOffInv'
<1>1. CASE StoreStep \/ UNCHANGED vars
  <2>1. UNCHANGED <<pending, marked, cutOff, state, held>>
    BY <1>1 DEF StoreStep, Register, AddRevocationListener, registryVars, historyVars, vars, storeVars
  <2> QED BY <2>1, ConnectorsKeepCutOff DEF Known
<1>2. CASE RegistryStep
  <2>1. UNCHANGED <<pending, marked, cutOff>>
    BY <1>2 DEF RegistryStep, storeVars, historyVars
  <2>2. ASSUME NEW c \in Connectors, RegisterConnector(c) \/ Reactivate(c)
        PROVE  CutOffInv'
    <3>1. \A d \in Known : state'[d] # "Absent" /\ held'[d] = held[d]
      BY <2>2 DEF RegisterConnector, Reactivate, Known, TypeOK, RegistryTypeOK
    <3>2. \A d \in Known : held[d] # {} => state'[d] = state[d]
      BY <2>2 DEF RegisterConnector, Reactivate, Known, TypeOK, RegistryTypeOK
    <3> QED BY <2>1, <3>1, <3>2, ConnectorsKeepCutOff
  <2>3. ASSUME NEW r \in Readers,
               (\E c \in Connectors, a \in Assets : ReadState(r, c, a)) \/ ReadHeld(r)
        PROVE  CutOffInv'
    BY <2>1, <2>3, ConnectorsKeepCutOff DEF ReadState, ReadHeld, Known
  <2> QED BY <1>2, <2>2, <2>3 DEF RegistryStep
<1> QED BY <1>1, <1>2, WithdrawCutOff, NotifyCutOff, RaiseCutOff, AcknowledgeCutOff DEF Next

LEMMA CutOffInvariant == Spec => []CutOffInv
BY InitCutOff, StepCutOff, TypeCorrect, PTL DEF Spec

(* Once a withdraw() that the registry listens to has returned, no         *)
(* connector it found can serve the asset until it is acknowledged.        *)
THEOREM CutOffsHold == Spec => []CutOffHolds
<1>1. CutOffInv => CutOffHolds
  BY DEF CutOffInv
<1> QED BY <1>1, CutOffInvariant, PTL

-----------------------------------------------------------------------------
(* Causes of quarantines                                                   *)

(* What a withdraw() tells its listeners is true, and stays true.          *)
Traced(call) == call.asset \in withdrawn /\ <<call.asset, call.ns>> \in withdrawals

CallsTraced == \A v \in Revokers : \A i \in DOMAIN pending[v] : Traced(pending[v][i])

TraceInv == CallsTraced /\ QuarantineTraced

(* The store forgets no withdrawal.                                        *)
StoreGrows == withdrawn \subseteq withdrawn' /\ withdrawals \subseteq withdrawals'

(* A connector that is left alone, or acknowledged, stays explained.       *)
LEMMA QuarantineGrows ==
    ASSUME QuarantineTraced, StoreGrows,
           \A c \in Connectors : \/ held'[c] = {}
                                 \/ held'[c] = held[c] /\ lastRevocation'[c] = lastRevocation[c]
    PROVE  QuarantineTraced'
<1> SUFFICES ASSUME NEW c \in Connectors, held'[c] # {}
             PROVE  /\ held'[c] \subseteq withdrawn'
                    /\ \E a \in held'[c] : <<a, lastRevocation'[c]>> \in withdrawals'
  BY DEF QuarantineTraced
<1>1. held'[c] = held[c] /\ lastRevocation'[c] = lastRevocation[c]
  OBVIOUS
<1>2. PICK a \in held[c] : <<a, lastRevocation[c]>> \in withdrawals
  BY <1>1 DEF QuarantineTraced
<1>3. held[c] \subseteq withdrawn'
  BY DEF QuarantineTraced, StoreGrows
<1>4. <<a, lastRevocation[c]>> \in withdrawals'
  BY <1>2 DEF StoreGrows
<1> QED BY <1>1, <1>3, <1>4

LEMMA InitTrace == Init => TraceInv
BY DEF Init, StoreInit, RegistryInit, TraceInv, CallsTraced, QuarantineTraced

LEMMA WithdrawTrace ==
    ASSUME TypeOK, TraceInv, NEW v \in Revokers, NEW a \in Assets, Withdraw(v, a)
    PROVE  TraceInv'
<1>1. WithdrawMark(v, a) /\ UNCHANGED <<held, lastRevocation>>
  BY DEF Withdraw, registryVars
<1>2. /\ withdrawn' = withdrawn \cup {a} /\ mono' = mono + 1
      /\ withdrawals' = withdrawals \cup {<<a, mono'>>}
  BY <1>1 DEF WithdrawMark, Withdraw
<1>4. StoreGrows
  BY <1>2 DEF StoreGrows
<1>5. CallsTraced'
  <2> SUFFICES ASSUME NEW u \in Revokers, NEW i \in DOMAIN pending'[u],
                      NEW call, call = pending'[u][i]
               PROVE  Traced(call)'
    BY DEF CallsTraced, Traced
  <2>1. CASE u = v
    <3>1. call.asset = a /\ call.ns = mono + 1
      BY <1>1, <2>1, WithdrawOwes DEF TypeOK
    <3>2. a \in withdrawn' /\ <<a, mono + 1>> \in withdrawals'
      BY <1>2
    <3> QED BY <2>1, <3>1, <3>2 DEF Traced
  <2>2. CASE u # v
    <3>1. pending'[u] = pending[u]
      BY <1>1, <2>2 DEF WithdrawMark, TypeOK, StoreTypeOK
    <3>2. i \in DOMAIN pending[u] /\ call = pending[u][i]
      BY <3>1
    <3>3. Traced(call)
      BY <3>2 DEF TraceInv, CallsTraced
    <3> QED BY <1>4, <3>3 DEF StoreGrows, Traced
  <2> QED BY <2>1, <2>2
<1>6. QuarantineTraced'
  BY <1>1, <1>4, QuarantineGrows DEF TraceInv
<1> QED BY <1>5, <1>6 DEF TraceInv

(* Calls that go, made or given up, leave the others as they were.         *)
LEMMA FewerCallsTraced ==
    ASSUME CallsTraced, NEW v \in Revokers, UNCHANGED <<withdrawn, withdrawals>>,
           \A u \in Revokers \ {v} : pending'[u] = pending[u],
           \A i \in DOMAIN pending'[v] : \E j \in DOMAIN pending[v] : pending'[v][i] = pending[v][j]
    PROVE  CallsTraced'
<1> SUFFICES ASSUME NEW u \in Revokers, NEW i \in DOMAIN pending'[u],
                    NEW call, call = pending'[u][i]
             PROVE  Traced(call)'
  BY DEF CallsTraced, Traced
<1>1. PICK j \in DOMAIN pending[u] : call = pending[u][j]
  <2>1. CASE u = v
    BY <2>1, Zenon
  <2>2. CASE u # v
    BY <2>2, Zenon
  <2> QED BY <2>1, <2>2
<1>2. Traced(call)
  BY <1>1 DEF CallsTraced
<1> QED BY <1>2 DEF Traced

LEMMA NotifyTrace ==
    ASSUME TypeOK, TraceInv, NEW v \in Revokers, NotifyListener(v)
    PROVE  TraceInv'
<1> DEFINE call == Head(pending[v])
<1>1. Notify(v) /\ pending[v] # <<>> /\ UNCHANGED <<withdrawn, withdrawals>>
  BY DEF NotifyListener, Notify
<1>2. /\ call \in Notification /\ call = pending[v][1] /\ Len(pending[v]) \in Nat \ {0}
      /\ pending[v] \in Seq(Notification) /\ Tail(pending[v]) \in Seq(Notification)
      /\ Len(Tail(pending[v])) = Len(pending[v]) - 1
      /\ \A i \in 1..Len(pending[v]) - 1 : Tail(pending[v])[i] = pending[v][i + 1]
  BY <1>1, PendingCall DEF TypeOK
<1>3. DOMAIN pending[v] = 1..Len(pending[v]) /\ DOMAIN Tail(pending[v]) = 1..Len(pending[v]) - 1
  BY <1>2, LenProperties
<1>4. pending'[v] = Tail(pending[v]) /\ \A u \in Revokers \ {v} : pending'[u] = pending[u]
  BY <1>1 DEF Notify, TypeOK, StoreTypeOK
<1>6. CallsTraced'
  <2>1. ASSUME NEW i \in DOMAIN pending'[v]
        PROVE  \E j \in DOMAIN pending[v] : pending'[v][i] = pending[v][j]
    <3>1. i \in 1..Len(pending[v]) - 1 /\ i + 1 \in DOMAIN pending[v]
      BY <1>2, <1>3, <1>4
    <3> QED BY <1>2, <1>4, <3>1
  <2> QED BY <1>1, <1>4, <2>1, FewerCallsTraced DEF TraceInv
<1>7. Traced(call)
  <2>1. 1 \in DOMAIN pending[v]
    BY <1>2, <1>3
  <2> QED BY <1>2, <2>1 DEF TraceInv, CallsTraced
<1>8. call.asset \in withdrawn /\ <<call.asset, call.ns>> \in withdrawals
  BY <1>7 DEF Traced
<1> HIDE DEF call
<1>9. QuarantineTraced'
  <2>1. CASE call.listener = registry
    <3>1. Quarantine(call.asset, call.ns)
      BY <2>1 DEF NotifyListener, call
    <3> SUFFICES ASSUME NEW c \in Connectors
                 PROVE  /\ held'[c] \subseteq withdrawn
                        /\ held'[c] # {} => \E a \in held'[c] : <<a, lastRevocation'[c]>> \in withdrawals
      BY <1>1 DEF QuarantineTraced
    <3>2. held[c] \subseteq withdrawn
          /\ (held[c] # {} => \E a \in held[c] : <<a, lastRevocation[c]>> \in withdrawals)
      BY DEF TraceInv, QuarantineTraced
    <3>3. CASE c \in Known
      <4>1. held'[c] = held[c] \cup {call.asset} /\ lastRevocation'[c] = call.ns
        BY <3>1, <3>3 DEF Quarantine
      <4> QED BY <1>8, <3>2, <4>1
    <3>4. CASE c \notin Known
      <4>1. held'[c] = held[c] /\ lastRevocation'[c] = lastRevocation[c]
        BY <3>1, <3>4 DEF Quarantine
      <4> QED BY <3>2, <4>1
    <3> QED BY <3>3, <3>4
  <2>2. CASE call.listener # registry
    <3>1. UNCHANGED <<held, lastRevocation>>
      BY <2>2 DEF NotifyListener, registryVars, call
    <3> QED BY <1>1, <3>1 DEF TraceInv, QuarantineTraced
  <2> QED BY <2>1, <2>2
<1> QED BY <1>6, <1>9 DEF TraceInv

LEMMA RaiseTrace ==
    ASSUME TypeOK, TraceInv, NEW v \in Revokers, Raise(v)
    PROVE  TraceInv'
<1>1. /\ pending'[v] = <<>> /\ \A u \in Revokers \ {v} : pending'[u] = pending[u]
      /\ UNCHANGED <<withdrawn, withdrawals>>
  BY DEF Raise, ListenerRaises, historyVars, TypeOK, StoreTypeOK
<1>2. UNCHANGED <<held, lastRevocation>>
  BY DEF Raise, registryVars
<1>3. \A i \in DOMAIN pending'[v] : \E j \in DOMAIN pending[v] : pending'[v][i] = pending[v][j]
  BY <1>1
<1>4. CallsTraced'
  BY <1>1, <1>3, FewerCallsTraced DEF TraceInv
<1>5. QuarantineTraced'
  BY <1>1, <1>2 DEF TraceInv, QuarantineTraced
<1> QED BY <1>4, <1>5 DEF TraceInv

(* The steps that leave the withdrawals and their calls alone.             *)
LEMMA OtherStepsTrace ==
    ASSUME TraceInv, UNCHANGED <<withdrawn, withdrawals, pending>>,
           \A c \in Connectors : \/ held'[c] = {}
                                 \/ held'[c] = held[c] /\ lastRevocation'[c] = lastRevocation[c]
    PROVE  TraceInv'
<1>1. StoreGrows
  BY DEF StoreGrows
<1>2. QuarantineTraced'
  BY <1>1, QuarantineGrows DEF TraceInv
<1>3. CallsTraced'
  BY DEF TraceInv, CallsTraced, Traced
<1> QED BY <1>2, <1>3 DEF TraceInv

LEMMA StepTrace ==
    ASSUME TypeOK, TraceInv, [Next]_vars
    PROVE  TraceInv'
<1>1. ASSUME NEW c \in Connectors, AcknowledgeConnector(c)
      PROVE  TraceInv'
  <2>1. UNCHANGED <<withdrawn, withdrawals, pending, lastRevocation>>
    BY <1>1 DEF AcknowledgeConnector, Acknowledge, storeVars
  <2>2. held' = [held EXCEPT ![c] = {}]
    BY <1>1 DEF AcknowledgeConnector, Acknowledge
  <2>3. \A d \in Connectors : held'[d] = {} \/ held'[d] = held[d]
    BY <2>2 DEF TypeOK, RegistryTypeOK
  <2> QED BY <2>1, <2>3, OtherStepsTrace
<1>2. CASE StoreStep \/ RegistryStep \/ UNCHANGED vars
  <2>1. UNCHANGED <<withdrawals, pending>> /\ withdrawn' = withdrawn
    BY <1>2 DEF StoreStep, Register, AddRevocationListener, RegistryStep, storeVars, historyVars, vars
  <2>2. UNCHANGED <<held, lastRevocation>>
    BY <1>2 DEF StoreStep, RegistryStep, RegisterConnector, Reactivate, ReadState, ReadHeld,
       registryVars, vars
  <2> QED BY <2>1, <2>2, OtherStepsTrace
<1> QED BY <1>1, <1>2, WithdrawTrace, NotifyTrace, RaiseTrace DEF Next

(* All that a connector has quarantined is withdrawn in the store, and its *)
(* last_revocation_ns is the moment withdraw() read for an asset it still  *)
(* has quarantined, in whatever order the registry was told.               *)
THEOREM QuarantinesHaveCause == Spec => []QuarantineTraced
<1>1. TraceInv => QuarantineTraced
  BY DEF TraceInv
<1> QED BY <1>1, InitTrace, StepTrace, TypeCorrect, PTL DEF Spec

-----------------------------------------------------------------------------
(* can_serve()                                                             *)

(* A connector that is found Active quarantines nothing at that moment, so *)
(* a True is justified whatever the second read finds later.               *)
ActiveServes == \A r \in Readers : reading[r] # NotReading => reading[r].servable

LEMMA StepActiveServes ==
    ASSUME TypeOK, ActiveServes, [Next]_vars
    PROVE  ActiveServes'
<1>1. ASSUME NEW r \in Readers, NEW c \in Connectors, NEW a \in Assets, ReadState(r, c, a)
      PROVE  ActiveServes'
  <2>1. CanServe(c, a)
    BY <1>1 DEF ReadState, CanServe, TypeOK, RegistryTypeOK
  <2> QED BY <1>1, <2>1 DEF ReadState, ActiveServes, TypeOK, RegistryTypeOK
<1>2. ASSUME NEW r \in Readers, ReadHeld(r)
      PROVE  ActiveServes'
  BY <1>2 DEF ReadHeld, ActiveServes, TypeOK, RegistryTypeOK
<1>3. ASSUME UNCHANGED reading
      PROVE  ActiveServes'
  BY <1>3 DEF ActiveServes
<1> QED BY <1>1, <1>2, <1>3
        DEF Next, Withdraw, NotifyListener, Raise, AcknowledgeConnector, Acknowledge, StoreStep,
            RegistryStep, RegisterConnector, Reactivate, Quarantine, registryVars, vars

(* A True of can_serve(), which takes no lock, was true when it began.     *)
THEOREM ServedHonestly == Spec => ServedWasServable
<1>1. Init => ActiveServes
  BY DEF Init, RegistryInit, ActiveServes
<1>2. Spec => []ActiveServes
  BY <1>1, StepActiveServes, TypeCorrect, PTL DEF Spec
<1>3. ActiveServes /\ [Next]_vars =>
        [\A r \in Readers : reading[r] # NotReading /\ reading'[r] = NotReading /\ Serves(r)
                             => reading[r].servable]_vars
  BY DEF ActiveServes
<1> QED BY <1>2, <1>3, PTL DEF Spec, ServedWasServable

=============================================================================
