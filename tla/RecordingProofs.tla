--------------------------- MODULE RecordingProofs ---------------------------
(***************************************************************************)
(* Theorems about Recording: what the numbers in the NDJSON file tell of   *)
(* the calls that wrote it, for any number of threads and calls, and what  *)
(* the hash chain tells of edits, for a trace of any length.               *)
(***************************************************************************)
EXTENDS Recording, SequenceLemmas

-----------------------------------------------------------------------------
(* The invariant of the log                                                *)

LogTypes ==
    /\ nextSeq \in Nat
    /\ carrying \in [Loggers -> Line \cup {NoLine}]
    /\ lines \in Seq(Line)
    /\ lost \subseteq Nat

Carries(l) == carrying[l] # NoLine

(* A number was drawn before anything became of it, and one thing did.     *)
NumbersUsedOnce ==
    /\ \A i \in DOMAIN lines : lines[i].n < nextSeq /\ lines[i].n \notin lost
    /\ \A l \in Loggers : Carries(l) => carrying[l].n < nextSeq /\ carrying[l].n \notin lost
    /\ \A n \in lost : n < nextSeq
    /\ \A i, j \in DOMAIN lines : lines[i].n = lines[j].n => i = j
    /\ \A l, m \in Loggers : Carries(l) /\ Carries(m) /\ carrying[l].n = carrying[m].n => l = m
    /\ \A i \in DOMAIN lines, l \in Loggers : Carries(l) => lines[i].n # carrying[l].n

NumbersFound ==
    \A n \in 0..nextSeq - 1 :
        \/ n \in lost
        \/ \E i \in DOMAIN lines : lines[i].n = n
        \/ \E l \in Loggers : Carries(l) /\ carrying[l].n = n

(* A line that is still carried will stand after every line with a higher  *)
(* number that was written since its own number was drawn.                 *)
CarriedInOrder ==
    \A l \in Loggers : Carries(l) =>
        /\ carrying[l].seen <= Len(lines)
        /\ \A i \in DOMAIN lines : lines[i].n > carrying[l].n => i > carrying[l].seen

LogInv == LogTypes /\ NumbersUsedOnce /\ NumbersFound /\ CarriedInOrder /\ OnlyOverlapsReorder

-----------------------------------------------------------------------------
(* Proofs: the log                                                         *)

LEMMA LineLengths ==
    ASSUME LogTypes
    PROVE  Len(lines) \in Nat /\ DOMAIN lines = 1..Len(lines)
BY LenProperties DEF LogTypes

LEMMA LineFields ==
    ASSUME LogTypes
    PROVE  /\ \A i \in DOMAIN lines : lines[i] \in Line /\ lines[i].n \in Nat /\ lines[i].seen \in Nat
           /\ \A l \in Loggers : Carries(l) =>
                carrying[l] \in Line /\ carrying[l].n \in Nat /\ carrying[l].seen \in Nat
<1>1. \A i \in DOMAIN lines : lines[i] \in Line
  BY LineLengths, ElementOfSeq DEF LogTypes
<1>2. \A l \in Loggers : Carries(l) => carrying[l] \in Line
  BY DEF LogTypes, Carries
<1> QED BY <1>1, <1>2 DEF Line

LEMMA InitLog == LogInit => LogInv
<1> SUFFICES ASSUME LogInit PROVE LogInv
  OBVIOUS
<1>1. lines \in Seq(Line) /\ DOMAIN lines = {} /\ Len(lines) = 0
  BY EmptySeq DEF LogInit
<1> QED BY <1>1 DEF LogInit, LogInv, LogTypes, NumbersUsedOnce, NumbersFound, CarriedInOrder, Carries,
   OnlyOverlapsReorder

LEMMA DrawKeeps ==
    ASSUME LogInv, NEW l \in Loggers, Draw(l)
    PROVE  LogInv'
<1> DEFINE k == [n |-> nextSeq, seen |-> Len(lines)]
<1>1. /\ ~Carries(l) /\ carrying' = [carrying EXCEPT ![l] = k]
      /\ nextSeq' = nextSeq + 1 /\ UNCHANGED <<lines, lost>>
  BY DEF Draw, Carry, Carries
<1>2. LogTypes /\ nextSeq \in Nat /\ Len(lines) \in Nat /\ DOMAIN lines = 1..Len(lines)
  BY LineLengths DEF LogInv, LogTypes
<1>3. k \in Line /\ k # NoLine /\ k.n = nextSeq /\ k.seen = Len(lines)
  BY <1>2, LogAssumption DEF Line
<1> HIDE DEF k
<1>4. \A m \in Loggers : carrying'[m] = IF m = l THEN k ELSE carrying[m]
  BY <1>1, <1>2 DEF LogTypes
<1>5. \A m \in Loggers : Carries(m)' <=> (m = l \/ Carries(m))
  BY <1>3, <1>4 DEF Carries
<1>6. LogTypes'
  BY <1>1, <1>2, <1>3 DEF LogTypes
<1>7. NumbersUsedOnce'
  <2>1. /\ \A i \in DOMAIN lines : lines[i].n < nextSeq + 1 /\ lines[i].n # nextSeq
        /\ \A m \in Loggers : Carries(m) => carrying[m].n < nextSeq + 1 /\ carrying[m].n # nextSeq
        /\ \A n \in lost : n < nextSeq + 1 /\ n # nextSeq
        /\ nextSeq < nextSeq + 1
    BY <1>2, LineFields DEF LogInv, LogTypes, NumbersUsedOnce
  <2>2. \A m \in Loggers : Carries(m)' => /\ carrying'[m].n < nextSeq + 1 /\ carrying'[m].n \notin lost
                                          /\ \A i \in DOMAIN lines : lines[i].n # carrying'[m].n
    BY <1>3, <1>4, <1>5, <2>1 DEF LogInv, NumbersUsedOnce
  <2>3. \A m, o \in Loggers : Carries(m)' /\ Carries(o)' /\ carrying'[m].n = carrying'[o].n => m = o
    BY <1>3, <1>4, <1>5, <2>1 DEF LogInv, NumbersUsedOnce
  <2> QED BY <1>1, <2>1, <2>2, <2>3 DEF LogInv, NumbersUsedOnce
<1>8. NumbersFound'
  <2>1. \A n \in 0..nextSeq' - 1 : n = nextSeq \/ n \in 0..nextSeq - 1
    BY <1>1, <1>2
  <2> QED BY <1>1, <1>3, <1>4, <1>5, <2>1 DEF LogInv, NumbersFound
<1>9. CarriedInOrder' /\ OnlyOverlapsReorder'
  BY <1>1, <1>2, <1>3, <1>4, <1>5, LineFields DEF LogInv, CarriedInOrder, OnlyOverlapsReorder, NumbersUsedOnce
<1> QED BY <1>6, <1>7, <1>8, <1>9 DEF LogInv

LEMMA WriteKeeps ==
    ASSUME LogInv, NEW l \in Loggers, WriteLine(l)
    PROVE  LogInv'
<1> DEFINE k == carrying[l]
<1>0. PICK end : end = Len(lines) + 1
  OBVIOUS
<1>1. /\ Carries(l) /\ carrying' = [carrying EXCEPT ![l] = NoLine]
      /\ lines' = Append(lines, k) /\ UNCHANGED <<nextSeq, lost>>
  BY DEF WriteLine, Carries
<1>2. LogTypes /\ nextSeq \in Nat /\ Len(lines) \in Nat /\ DOMAIN lines = 1..Len(lines)
  BY LineLengths DEF LogInv, LogTypes
<1>3. k \in Line /\ k.n \in Nat /\ k.seen \in Nat
  BY <1>1, <1>2, LineFields
<1>4. \A m \in Loggers : carrying'[m] = IF m = l THEN NoLine ELSE carrying[m]
  BY <1>1, <1>2 DEF LogTypes
<1>5. \A m \in Loggers : Carries(m)' <=> (m # l /\ Carries(m))
  BY <1>4 DEF Carries
<1>k. /\ k.n < nextSeq /\ k.n \notin lost /\ k.seen <= Len(lines)
      /\ \A i \in DOMAIN lines : lines[i].n # k.n /\ (lines[i].n > k.n => i > k.seen)
      /\ \A m \in Loggers : Carries(m) /\ carrying[m].n = k.n => m = l
  BY <1>1 DEF LogInv, NumbersUsedOnce, CarriedInOrder
<1> HIDE DEF k
<1>6. /\ lines' \in Seq(Line) /\ Len(lines') = end
      /\ DOMAIN lines' = DOMAIN lines \cup {end} /\ end \notin DOMAIN lines
      /\ lines'[end] = k /\ \A i \in DOMAIN lines : lines'[i] = lines[i]
  BY <1>0, <1>1, <1>2, <1>3, AppendProperties, LenProperties DEF LogTypes
<1>7. LogTypes'
  BY <1>1, <1>2, <1>6 DEF LogTypes
<1>8. NumbersUsedOnce'
  BY <1>1, <1>4, <1>5, <1>6, <1>k DEF LogInv, NumbersUsedOnce
<1>9. NumbersFound'
  <2>1. ASSUME NEW n \in 0..nextSeq - 1
        PROVE  \/ n \in lost
               \/ \E i \in DOMAIN lines' : lines'[i].n = n
               \/ \E m \in Loggers : Carries(m)' /\ carrying'[m].n = n
    <3>1. CASE n \in lost
      BY <3>1
    <3>2. CASE \E i \in DOMAIN lines : lines[i].n = n
      BY <1>6, <3>2
    <3>3. CASE \E m \in Loggers : Carries(m) /\ carrying[m].n = n
      BY <1>4, <1>5, <1>6, <3>3 DEF k
    <3> QED BY <3>1, <3>2, <3>3 DEF LogInv, NumbersFound
  <2> QED BY <1>1, <2>1 DEF NumbersFound
<1>10. CarriedInOrder'
  BY <1>0, <1>2, <1>4, <1>5, <1>6, LineFields DEF LogInv, CarriedInOrder
<1>11. OnlyOverlapsReorder'
  BY <1>0, <1>2, <1>6, <1>k DEF LogInv, OnlyOverlapsReorder
<1> QED BY <1>7, <1>8, <1>9, <1>10, <1>11 DEF LogInv

LEMMA FailKeeps ==
    ASSUME LogInv, NEW l \in Loggers, WriteFails(l)
    PROVE  LogInv'
<1> DEFINE k == carrying[l]
<1>1. /\ Carries(l) /\ carrying' = [carrying EXCEPT ![l] = NoLine]
      /\ lost' = lost \cup {k.n} /\ UNCHANGED <<nextSeq, lines>>
  BY DEF WriteFails, Carries
<1>2. LogTypes /\ k.n \in Nat
  BY <1>1, LineFields DEF LogInv
<1>4. \A m \in Loggers : carrying'[m] = IF m = l THEN NoLine ELSE carrying[m]
  BY <1>1, <1>2 DEF LogTypes
<1>5. \A m \in Loggers : Carries(m)' <=> (m # l /\ Carries(m))
  BY <1>4 DEF Carries
<1>k. /\ k.n < nextSeq
      /\ \A i \in DOMAIN lines : lines[i].n # k.n
      /\ \A m \in Loggers : Carries(m) /\ carrying[m].n = k.n => m = l
  BY <1>1 DEF LogInv, NumbersUsedOnce
<1>7. LogTypes'
  BY <1>1, <1>2 DEF LogTypes
<1>8. NumbersUsedOnce'
  BY <1>1, <1>4, <1>5, <1>k DEF LogInv, NumbersUsedOnce
<1>9. NumbersFound'
  BY <1>1, <1>4, <1>5 DEF LogInv, NumbersFound
<1>10. CarriedInOrder' /\ OnlyOverlapsReorder'
  BY <1>1, <1>4, <1>5 DEF LogInv, CarriedInOrder, OnlyOverlapsReorder
<1> QED BY <1>7, <1>8, <1>9, <1>10 DEF LogInv

LEMMA LogHolds == Spec => []LogInv
<1>1. LogInv /\ [Next]_vars => LogInv'
  <2> SUFFICES ASSUME LogInv, [Next]_vars PROVE LogInv'
    OBVIOUS
  <2>1. CASE UNCHANGED logVars
    BY <2>1 DEF logVars, LogInv, LogTypes, NumbersUsedOnce, NumbersFound, CarriedInOrder, Carries,
       OnlyOverlapsReorder
  <2> QED BY <2>1, DrawKeeps, WriteKeeps, FailKeeps DEF Next, LogNext, vars
<1> QED BY InitLog, <1>1, PTL DEF Spec, Init

(* Lines whose numbers came the other way round were written by calls that *)
(* overlapped, whatever the threads do.                                    *)
THEOREM OverlapsOnly == Spec => []OnlyOverlapsReorder
BY LogHolds, PTL DEF LogInv

(* Every number drawn is accounted for exactly once: in the file, on its   *)
(* way there, or lost with an emit() that raised.                          *)
THEOREM LinesAddUp == Spec => []LinesAccounted
<1>1. LogInv => LinesAccounted
  <2> SUFFICES ASSUME LogInv, NEW n \in 0..nextSeq - 1
               PROVE  Cardinality(InFile(n)) + Cardinality(Carriers(n)) + Cardinality({n} \cap lost) = 1
    BY DEF LinesAccounted
  <2>1. /\ InFile(n) # {} <=> \E i \in DOMAIN lines : lines[i].n = n
        /\ Carriers(n) # {} <=> \E l \in Loggers : Carries(l) /\ carrying[l].n = n
    BY DEF InFile, Carriers, Carries
  <2>2. \A i, j \in InFile(n) : i = j
    BY DEF LogInv, NumbersUsedOnce, InFile
  <2>3. \A l, m \in Carriers(n) : l = m
    BY DEF LogInv, NumbersUsedOnce, Carriers, Carries
  <2>4. ASSUME NEW S, \A x, y \in S : x = y
        PROVE  Cardinality(S) = IF S = {} THEN 0 ELSE 1
    <3>1. CASE S = {}
      BY <3>1, FS_EmptySet
    <3>2. CASE S # {}
      <4>1. PICK x \in S : TRUE
        BY <3>2
      <4>2. S = {x}
        BY <2>4, <4>1
      <4> QED BY <4>2, FS_Singleton
    <3> QED BY <3>1, <3>2
  <2>5. /\ Cardinality(InFile(n)) = IF InFile(n) = {} THEN 0 ELSE 1
        /\ Cardinality(Carriers(n)) = IF Carriers(n) = {} THEN 0 ELSE 1
        /\ Cardinality({n} \cap lost) = IF {n} \cap lost = {} THEN 0 ELSE 1
    BY <2>2, <2>3, <2>4
  <2>6. CASE n \in lost
    <3>1. InFile(n) = {} /\ Carriers(n) = {} /\ {n} \cap lost # {}
      BY <2>1, <2>6 DEF LogInv, NumbersUsedOnce
    <3> QED BY <2>5, <3>1
  <2>7. CASE n \notin lost
    <3>1. {n} \cap lost = {}
      BY <2>7
    <3>2. (InFile(n) = {} /\ Carriers(n) # {}) \/ (InFile(n) # {} /\ Carriers(n) = {})
      BY <2>1, <2>7 DEF LogInv, NumbersUsedOnce, NumbersFound
    <3> QED BY <2>5, <3>1, <3>2
  <2> QED BY <2>6, <2>7
<1> QED BY <1>1, LogHolds, PTL

-----------------------------------------------------------------------------
(* The invariant of the trace                                              *)

(* An event whose stored hashes are in H, whoever computed them.           *)
Mark(H) == [sequence : Nat, ns : Nat, content : EventContents, prev : H, hash : H]

ChainInv ==
    /\ ns \in Nat
    /\ \E H : events \in Seq(Mark(H))
    /\ \A i \in DOMAIN events :
         /\ events[i].sequence = i - 1
         /\ events[i].ns <= ns
         /\ VerifyLink(events[i], IF i = 1 THEN Genesis ELSE events[i - 1].hash)
         /\ i > 1 => events[i].ns >= events[i - 1].ns

-----------------------------------------------------------------------------
(* Proofs: the trace                                                       *)

LEMMA EventLengths ==
    ASSUME NEW S, NEW f \in Seq(S)
    PROVE  /\ Len(f) \in Nat /\ DOMAIN f = 1..Len(f)
           /\ \A i \in DOMAIN f : f[i] \in S
BY LenProperties, ElementOfSeq

LEMMA HashIsPair ==
    ASSUME NEW p, NEW q, NEW b, NEW c
    PROVE  /\ ChainHash(p, b) # Genesis
           /\ ChainHash(p, b) = ChainHash(q, c) => p = q /\ b = c
BY DEF ChainHash, Genesis

LEMMA InitChain == ChainInit => ChainInv
<1> SUFFICES ASSUME ChainInit PROVE ChainInv
  OBVIOUS
<1>1. events \in Seq(Mark({})) /\ DOMAIN events = {}
  BY EmptySeq DEF ChainInit
<1> QED BY <1>1 DEF ChainInit, ChainInv

LEMMA AppendKeeps ==
    ASSUME ChainInv, NEW c \in EventContents, AppendEvent(c)
    PROVE  ChainInv'
<1>h. PICK H : events \in Seq(Mark(H))
  BY DEF ChainInv
<1>1. Len(events) \in Nat /\ DOMAIN events = 1..Len(events) /\ \A i \in DOMAIN events : events[i] \in Mark(H)
  BY <1>h, EventLengths
<1>n. PICK n \in Nat : n = Len(events) + 1
  BY <1>1
<1>p. PICK prev : prev = IF events = <<>> THEN Genesis ELSE Last(events).hash
  OBVIOUS
<1>b. PICK body : body = [sequence |-> n - 1, ns |-> ns, content |-> c]
  OBVIOUS
<1>2. PICK e : e = [sequence |-> n - 1, ns |-> ns, content |-> c, prev |-> prev, hash |-> ChainHash(prev, body)]
  OBVIOUS
<1>3. events' = Append(events, e) /\ ns' = ns
  BY <1>1, <1>n, <1>p, <1>b, <1>2 DEF AppendEvent
<1>k. PICK K : K = H \cup {e.prev, e.hash}
  OBVIOUS
<1>4. /\ events' \in Seq(Mark(K)) /\ Len(events') = n /\ DOMAIN events' = DOMAIN events \cup {n}
      /\ n \notin DOMAIN events
      /\ events'[n] = e /\ \A i \in DOMAIN events : events'[i] = events[i]
  <2>1. Mark(H) \subseteq Mark(K)
    BY <1>k DEF Mark
  <2>2. e \in Mark(K)
    <3>1. e.prev \in K /\ e.hash \in K /\ n - 1 \in Nat /\ ns \in Nat
      BY <1>1, <1>n, <1>k DEF ChainInv
    <3> QED BY <1>2, <3>1 DEF Mark
  <2>3. events \in Seq(Mark(K))
    BY <1>h, <2>1, SeqMonotonic
  <2> QED BY <1>1, <1>n, <1>3, <2>2, <2>3, AppendProperties, LenProperties
<1>7. prev = IF n = 1 THEN Genesis ELSE events[n - 1].hash
  <2>1. n = 1 <=> events = <<>>
    BY <1>1, <1>n, EmptySeq DEF ChainInv
  <2> QED BY <1>1, <1>n, <1>p, <2>1 DEF Last
<1>8. VerifyLink(e, prev) /\ e.sequence = n - 1 /\ e.ns = ns
  BY <1>b, <1>2 DEF VerifyLink, Body
<1>9. n > 1 => n - 1 \in DOMAIN events /\ events[n - 1].ns <= ns
  BY <1>1, <1>n DEF ChainInv
<1>10. ASSUME NEW i \in DOMAIN events'
       PROVE  /\ events'[i].sequence = i - 1
              /\ events'[i].ns <= ns
              /\ VerifyLink(events'[i], IF i = 1 THEN Genesis ELSE events'[i - 1].hash)
              /\ i > 1 => events'[i].ns >= events'[i - 1].ns
  <2>1. CASE i = n
    <3>1. n > 1 => events'[n - 1] = events[n - 1]
      BY <1>4, <1>9
    <3>2. ns <= ns /\ (n > 1 => ns >= events[n - 1].ns)
      BY <1>1, <1>9 DEF ChainInv, Mark
    <3>3. prev = IF n = 1 THEN Genesis ELSE events'[n - 1].hash
      BY <1>1, <1>n, <1>7, <3>1
    <3> QED BY <1>4, <1>8, <2>1, <3>1, <3>2, <3>3
  <2>2. CASE i # n
    <3>1. i \in DOMAIN events /\ events'[i] = events[i]
      BY <1>4, <2>2
    <3>2. i > 1 => i - 1 \in DOMAIN events /\ events'[i - 1] = events[i - 1]
      BY <1>1, <1>4, <3>1
    <3>3. i = 1 \/ i > 1
      BY <1>1, <3>1
    <3> QED BY <3>1, <3>2, <3>3 DEF ChainInv
  <2> QED BY <2>1, <2>2
<1> QED BY <1>3, <1>4, <1>10 DEF ChainInv, VerifyLink, Body

LEMMA ChainHolds == Spec => []ChainInv
<1>1. ASSUME ChainInv, [Next]_vars PROVE ChainInv'
  <2>1. CASE UNCHANGED chainVars
    BY <1>1, <2>1 DEF chainVars, ChainInv, VerifyLink, Body
  <2>2. CASE TimePasses
    <3>1. ns' = ns + 1 /\ events' = events
      BY <2>2 DEF TimePasses
    <3>2. PICK H : events \in Seq(Mark(H))
      BY <1>1 DEF ChainInv
    <3>3. \A i \in DOMAIN events : events[i].ns <= ns + 1
      <4>1. \A i \in DOMAIN events : events[i] \in Mark(H)
        BY <3>2, EventLengths
      <4>2. \A i \in DOMAIN events : events[i].ns \in Nat /\ events[i].ns <= ns
        BY <1>1, <4>1 DEF ChainInv, Mark
      <4> QED BY <1>1, <4>2 DEF ChainInv
    <3> QED BY <1>1, <3>1, <3>3 DEF ChainInv, VerifyLink, Body
  <2> QED BY <1>1, <2>1, <2>2, AppendKeeps DEF Next, vars
<1> QED BY InitChain, <1>1, PTL DEF Spec, Init

LEMMA EventHash ==
    ASSUME ChainInv, NEW i \in DOMAIN events, NEW j \in DOMAIN events
    PROVE  /\ events[i].prev = IF i = 1 THEN Genesis ELSE events[i - 1].hash
           /\ events[i].hash # Genesis
           /\ events[i].hash = events[j].hash => i = j
<1>1. /\ events[i].hash = ChainHash(events[i].prev, Body(events[i]))
      /\ events[j].hash = ChainHash(events[j].prev, Body(events[j]))
      /\ events[i].sequence = i - 1 /\ events[j].sequence = j - 1
      /\ events[i].prev = IF i = 1 THEN Genesis ELSE events[i - 1].hash
  BY DEF ChainInv, VerifyLink
<1>2. events[i].hash = events[j].hash => events[i].sequence = events[j].sequence
  BY <1>1, HashIsPair DEF Body
<1>3. i \in Int /\ j \in Int
  <2>1. PICK H : events \in Seq(Mark(H))
    BY DEF ChainInv
  <2> QED BY <2>1, EventLengths
<1> QED BY <1>1, <1>2, <1>3, HashIsPair

(* An event of a list that verifies, under a hash of the trace, is the     *)
(* event recorded under it.                                                *)
LEMMA SameHash ==
    ASSUME ChainInv, NEW H, NEW e \in Mark(H), NEW prev, VerifyLink(e, prev),
           NEW j \in DOMAIN events, e.hash = events[j].hash
    PROVE  e = events[j] /\ prev = events[j].prev
<1>1. PICK K : events \in Seq(Mark(K))
  BY DEF ChainInv
<1>2. events[j] \in Mark(K)
  BY <1>1, EventLengths
<1>3. PICK q : VerifyLink(events[j], q)
  BY DEF ChainInv
<1>4. e.prev = events[j].prev /\ Body(e) = Body(events[j]) /\ e.prev = prev
  BY <1>3, HashIsPair DEF VerifyLink
<1>5. e.sequence = events[j].sequence /\ e.ns = events[j].ns /\ e.content = events[j].content
  BY <1>4 DEF Body
<1>6. e = events[j]
  <2>1. ASSUME NEW x \in Mark(H), NEW y \in Mark(K), x.sequence = y.sequence, x.ns = y.ns,
               x.content = y.content, x.prev = y.prev, x.hash = y.hash
        PROVE  x = y
    BY <2>1 DEF Mark
  <2> QED BY <1>2, <1>4, <1>5, <2>1
<1> QED BY <1>4, <1>6

(* By induction: at the least position where a hash of the trace stands    *)
(* after other events than it was recorded after, the hash before it does. *)
LEMMA CommonHash ==
    ASSUME ChainInv, NEW H, NEW f \in Seq(Mark(H)), VerifyChain(f),
           NEW i \in DOMAIN f, NEW j \in DOMAIN events, f[i].hash = events[j].hash
    PROVE  \A k \in 1..i : k \in DOMAIN events /\ f[k] = events[k]
<1> DEFINE Told(n, p) == n = p /\ \A k \in 1..n : k \in DOMAIN events /\ f[k] = events[k]
           T == {n \in DOMAIN f : \E p \in DOMAIN events : f[n].hash = events[p].hash /\ ~Told(n, p)}
<1>1. Len(f) \in Nat /\ DOMAIN f = 1..Len(f) /\ \A n \in DOMAIN f : f[n] \in Mark(H)
  BY EventLengths
<1>2. Len(events) \in Nat /\ DOMAIN events = 1..Len(events)
  <2>1. PICK K : events \in Seq(Mark(K))
    BY DEF ChainInv
  <2> QED BY <2>1, EventLengths
<1>3. T \in SUBSET Nat
  BY <1>1
<1>4. ASSUME T # {} PROVE FALSE
  <2> HIDE DEF T
  <2>1. PICK m \in T : \A k \in T : m <= k
    BY <1>3, <1>4, LeastNatural
  <2>2. PICK p \in DOMAIN events : m \in DOMAIN f /\ f[m].hash = events[p].hash /\ ~Told(m, p)
    BY <2>1 DEF T
  <2> HIDE DEF Told
  <2>3. f[m] = events[p] /\ events[p].prev = IF m = 1 THEN Genesis ELSE f[m - 1].hash
    <3>1. VerifyLink(f[m], IF m = 1 THEN Genesis ELSE f[m - 1].hash)
      BY <2>2 DEF VerifyChain
    <3> QED BY <1>1, <2>2, <3>1, SameHash
  <2>4. m \in Nat /\ m >= 1 /\ p \in Nat /\ p >= 1
    BY <1>1, <1>2, <2>2
  <2>5. CASE m = 1
    <3>1. p = 1
      <4>1. ASSUME p # 1 PROVE FALSE
        <5>1. p - 1 \in DOMAIN events
          BY <1>2, <2>2, <2>4, <4>1
        <5>2. events[p - 1].hash # Genesis
          BY <5>1, EventHash
        <5>3. events[p].prev = events[p - 1].hash
          BY <2>2, <4>1, EventHash
        <5> QED BY <2>3, <2>5, <5>2, <5>3
      <4> QED BY <4>1
    <3>2. \A k \in 1..m : k = m
      BY <2>5
    <3> QED BY <2>2, <2>3, <2>5, <3>1, <3>2 DEF Told
  <2>6. CASE m # 1
    <3>1. m - 1 \in DOMAIN f /\ m - 1 \notin T
      <4>1. m - 1 \in DOMAIN f /\ ~(m <= m - 1)
        BY <1>1, <2>2, <2>4, <2>6
      <4> QED BY <2>1, <4>1
    <3>2. f[m - 1].hash # Genesis /\ events[p].prev = f[m - 1].hash
      <4>1. f[m - 1].hash = ChainHash(f[m - 1].prev, Body(f[m - 1]))
        BY <3>1 DEF VerifyChain, VerifyLink
      <4> QED BY <2>3, <2>6, <4>1, HashIsPair
    <3>3. p # 1 /\ events[p].prev = events[p - 1].hash
      BY <2>2, <3>2, EventHash
    <3>4. p - 1 \in DOMAIN events
      BY <1>2, <2>2, <2>4, <3>3
    <3>5. Told(m - 1, p - 1)
      BY <3>1, <3>2, <3>3, <3>4 DEF T
    <3>6. m - 1 = p - 1 /\ \A k \in 1..m - 1 : k \in DOMAIN events /\ f[k] = events[k]
      BY <3>5 DEF Told
    <3>7. m = p /\ \A k \in 1..m : k = m \/ k \in 1..m - 1
      BY <2>4, <3>6
    <3>8. \A k \in 1..m : k \in DOMAIN events /\ f[k] = events[k]
      BY <2>2, <2>3, <3>6, <3>7
    <3> QED BY <2>2, <3>7, <3>8 DEF Told
  <2> QED BY <2>5, <2>6
<1>5. Told(i, j)
  BY <1>4
<1> QED BY <1>5

(* Prefixes, event by event.                                               *)
LEMMA PrefixByEvent ==
    ASSUME NEW S, NEW R, NEW f \in Seq(S), NEW g \in Seq(R)
    PROVE  IsPrefix(f, g) <=> \A i \in DOMAIN f : i \in DOMAIN g /\ f[i] = g[i]
<1>1. Len(f) \in Nat /\ DOMAIN f = 1..Len(f) /\ \A i \in DOMAIN f : f[i] \in S
  BY EventLengths
<1>2. Len(g) \in Nat /\ DOMAIN g = 1..Len(g) /\ \A i \in DOMAIN g : g[i] \in R
  BY EventLengths
<1>3. /\ SubSeq(f, 1, Len(f)) \in Seq(S \cup R) /\ Len(SubSeq(f, 1, Len(f))) = Len(f)
      /\ \A i \in 1..Len(f) : SubSeq(f, 1, Len(f))[i] = f[i]
  <2>1. \A i \in 1..Len(f) : f[i] \in S \cup R /\ 1 + i - 1 = i
    BY <1>1
  <2> QED BY <1>1, <2>1, SubSeqProperties
<1>4. Len(f) <= Len(g) =>
        /\ SubSeq(g, 1, Len(f)) \in Seq(S \cup R) /\ Len(SubSeq(g, 1, Len(f))) = Len(f)
        /\ \A i \in 1..Len(f) : SubSeq(g, 1, Len(f))[i] = g[i]
  <2> HAVE Len(f) <= Len(g)
  <2>1. \A i \in 1..Len(f) : g[i] \in S \cup R /\ 1 + i - 1 = i
    BY <1>1, <1>2
  <2> QED BY <1>1, <2>1, SubSeqProperties
<1>5. ASSUME IsPrefix(f, g) PROVE \A i \in DOMAIN f : i \in DOMAIN g /\ f[i] = g[i]
  <2>1. Len(f) <= Len(g) /\ SubSeq(f, 1, Len(f)) = SubSeq(g, 1, Len(f))
    BY <1>5 DEF IsPrefix
  <2>2. \A i \in 1..Len(f) : i \in 1..Len(g)
    BY <1>1, <1>2, <2>1
  <2> QED BY <1>1, <1>2, <1>3, <1>4, <2>1, <2>2
<1>6. ASSUME \A i \in DOMAIN f : i \in DOMAIN g /\ f[i] = g[i] PROVE IsPrefix(f, g)
  <2>1. Len(f) <= Len(g)
    <3>1. CASE Len(f) = 0
      BY <1>2, <3>1
    <3>2. CASE Len(f) # 0
      BY <1>1, <1>2, <1>6, <3>2
    <3> QED BY <3>1, <3>2
  <2>2. SubSeq(f, 1, Len(f)) = SubSeq(g, 1, Len(f))
    BY <1>1, <1>3, <1>4, <1>6, <2>1, SeqEqual
  <2> QED BY <2>1, <2>2 DEF IsPrefix
<1> QED BY <1>5, <1>6

(* What the trace still verifies as, and what of a list that verifies must *)
(* be as recorded.                                                         *)
LEMMA ListsAgainstTrace ==
    ASSUME ChainInv, NEW H, NEW f \in Seq(Mark(H))
    PROVE  /\ IsPrefix(f, events) => VerifyChain(f)
           /\ VerifyChain(f) =>
                \A i \in DOMAIN f : f[i].hash \in Recorded => IsPrefix(SubSeq(f, 1, i), events)
<1>0. PICK K : events \in Seq(Mark(K))
  BY DEF ChainInv
<1>1. Len(f) \in Nat /\ DOMAIN f = 1..Len(f) /\ \A i \in DOMAIN f : f[i] \in Mark(H)
  BY EventLengths
<1>2. ASSUME IsPrefix(f, events) PROVE VerifyChain(f)
  <2>1. \A i \in DOMAIN f : i \in DOMAIN events /\ f[i] = events[i]
    BY <1>0, <1>2, PrefixByEvent
  <2>2. \A i \in DOMAIN f : i = 1 \/ (i > 1 /\ i - 1 \in DOMAIN f)
    BY <1>1
  <2> QED BY <2>1, <2>2 DEF VerifyChain, ChainInv
<1>3. ASSUME VerifyChain(f), NEW i \in DOMAIN f, f[i].hash \in Recorded
      PROVE  IsPrefix(SubSeq(f, 1, i), events)
  <2>1. \A k \in 1..i : k \in DOMAIN events /\ f[k] = events[k]
    BY <1>3, CommonHash DEF Recorded
  <2>2. /\ SubSeq(f, 1, i) \in Seq(Mark(H)) /\ DOMAIN SubSeq(f, 1, i) = 1..i
        /\ \A k \in 1..i : SubSeq(f, 1, i)[k] = f[k]
    <3>1. i \in Nat /\ \A k \in 1..i : f[k] \in Mark(H) /\ 1 + k - 1 = k
      BY <1>1
    <3>2. /\ SubSeq(f, 1, i) \in Seq(Mark(H)) /\ Len(SubSeq(f, 1, i)) = i
          /\ \A k \in 1..i : SubSeq(f, 1, i)[k] = f[k]
      BY <3>1, SubSeqProperties
    <3> QED BY <3>2, EventLengths
  <2> QED BY <1>0, <2>1, <2>2, PrefixByEvent
<1> QED BY <1>2, <1>3

(* An edit leaves a list of events, under hashes of whoever made it.       *)
LEMMA PartsAreLists ==
    ASSUME NEW S, NEW f \in Seq(S), NEW m \in Int, NEW n \in Int, m >= 1, n <= Len(f)
    PROVE  SubSeq(f, m, n) \in Seq(S)
<1>1. \A i \in m..n : f[i] \in S
  BY EventLengths
<1> QED BY <1>1, SubSeqProperties

LEMMA InsertIsList ==
    ASSUME NEW S, NEW f \in Seq(S), NEW j \in Int, j >= 1, j <= Len(f) + 1, NEW e \in S
    PROVE  InsertAt(f, j, e) \in Seq(S)
<1>1. Len(f) \in Int /\ j - 1 <= Len(f)
  BY EventLengths
<1>2. SubSeq(f, 1, j - 1) \in Seq(S) /\ SubSeq(f, j, Len(f)) \in Seq(S)
  BY <1>1, PartsAreLists
<1>3. <<e>> \in Seq(S)
  OBVIOUS
<1>4. SubSeq(f, 1, j - 1) \o <<e>> \in Seq(S)
  BY <1>2, <1>3, ConcatProperties
<1> QED BY <1>2, <1>4, ConcatProperties DEF InsertAt

LEMMA RemoveIsList ==
    ASSUME NEW S, NEW f \in Seq(S), NEW i \in DOMAIN f
    PROVE  RemoveAt(f, i) \in Seq(S) /\ Len(RemoveAt(f, i)) = Len(f) - 1
<1>1. Len(f) \in Nat /\ i \in 1..Len(f)
  BY EventLengths
<1>2. SubSeq(f, 1, i - 1) \in Seq(S) /\ SubSeq(f, i + 1, Len(f)) \in Seq(S)
  BY <1>1, PartsAreLists
<1>3. Len(SubSeq(f, 1, i - 1)) = i - 1 /\ Len(SubSeq(f, i + 1, Len(f))) = Len(f) - i
  <2>1. /\ \A k \in 1..i - 1 : f[k] \in S
        /\ \A k \in i + 1..Len(f) : f[k] \in S
    BY <1>1, EventLengths
  <2> QED BY <1>1, <2>1, SubSeqProperties
<1>4. /\ SubSeq(f, 1, i - 1) \o SubSeq(f, i + 1, Len(f)) \in Seq(S)
      /\ Len(SubSeq(f, 1, i - 1) \o SubSeq(f, i + 1, Len(f)))
           = Len(SubSeq(f, 1, i - 1)) + Len(SubSeq(f, i + 1, Len(f)))
  BY <1>2, ConcatProperties
<1>5. i - 1 + (Len(f) - i) = Len(f) - 1
  BY <1>1
<1> QED BY <1>3, <1>4, <1>5 DEF RemoveAt

LEMMA EditedAreLists ==
    ASSUME ChainInv, NEW H, NEW f \in Seq(Mark(H)), NEW g \in Edited(f)
    PROVE  \E K : g \in Seq(Mark(K))
<1>0. PICK K : K = H \cup KnownHashes(f)
  OBVIOUS
<1>s. Mark(H) \subseteq Mark(K)
  BY <1>0 DEF Mark
<1>f. f \in Seq(Mark(K))
  BY <1>s, SeqMonotonic
<1>1. Len(f) \in Nat /\ DOMAIN f = 1..Len(f) /\ \A i \in DOMAIN f : f[i] \in Mark(K)
  BY <1>f, EventLengths
<1>2. CASE g \in Altered(f)
  <2>1. PICK i \in DOMAIN f : \/ \E c \in EventContents : g = [f EXCEPT ![i].content = c]
                              \/ \E t \in 0..MaxNs : g = [f EXCEPT ![i].ns = t]
                              \/ \E n \in 0..MaxEvents : g = [f EXCEPT ![i].sequence = n]
                              \/ \E h \in KnownHashes(f) : g = [f EXCEPT ![i].prev = h]
                              \/ \E h \in KnownHashes(f) : g = [f EXCEPT ![i].hash = h]
    BY <1>2 DEF Altered
  <2>2. \E e \in Mark(K) : g = [f EXCEPT ![i] = e]
    <3>1. ASSUME NEW e \in Mark(K)
          PROVE  /\ \A c \in EventContents : [e EXCEPT !.content = c] \in Mark(K)
                 /\ \A t \in Nat : [e EXCEPT !.ns = t] \in Mark(K) /\ [e EXCEPT !.sequence = t] \in Mark(K)
                 /\ \A h \in K : [e EXCEPT !.prev = h] \in Mark(K) /\ [e EXCEPT !.hash = h] \in Mark(K)
      BY DEF Mark
    <3>2. /\ \A c \in EventContents : [f[i] EXCEPT !.content = c] \in Mark(K)
          /\ \A t \in Nat : [f[i] EXCEPT !.ns = t] \in Mark(K) /\ [f[i] EXCEPT !.sequence = t] \in Mark(K)
          /\ \A h \in K : [f[i] EXCEPT !.prev = h] \in Mark(K) /\ [f[i] EXCEPT !.hash = h] \in Mark(K)
      BY <1>1, <3>1
    <3>3. 0..MaxNs \subseteq Nat /\ 0..MaxEvents \subseteq Nat /\ KnownHashes(f) \subseteq K
      BY <1>0
    <3> QED BY <2>1, <3>2, <3>3
  <2>3. g \in Seq(Mark(K))
    BY <1>f, <1>1, <2>2, ExceptSeq
  <2> QED BY <2>3
<1>3. CASE g \in Moved(f)
  <2>1. PICK i \in DOMAIN f, j \in DOMAIN f :
          g = InsertAt(RemoveAt(f, i), j, f[i]) \/ g = InsertAt(f, j, f[i])
    BY <1>3 DEF Moved
  <2>2. RemoveAt(f, i) \in Seq(Mark(K)) /\ Len(RemoveAt(f, i)) = Len(f) - 1
    BY <1>f, RemoveIsList
  <2>3. j \in Int /\ j >= 1 /\ j <= Len(f) + 1 /\ j <= Len(RemoveAt(f, i)) + 1
    BY <1>1, <2>2
  <2>4. g \in Seq(Mark(K))
    BY <1>f, <1>1, <2>1, <2>2, <2>3, InsertIsList
  <2> QED BY <2>4
<1>4. CASE g \in Cut(f)
  <2>1. PICK i \in 1..Len(f) + 1, j \in 0..Len(f) : g = SubSeq(f, i, j)
    BY <1>4 DEF Cut
  <2>2. g \in Seq(Mark(K))
    BY <1>f, <1>1, <2>1, PartsAreLists
  <2> QED BY <2>2
<1> QED BY <1>2, <1>3, <1>4 DEF Edited

(* In a trace that was edited twice and verifies, an event under a hash of *)
(* the trace stands after what it was recorded after.  EditedAreLists and  *)
(* ListsAgainstTrace say it of any number of edits.                        *)
THEOREM EditsShow == Spec => []ChainTellsEdits
<1>1. ChainInv => ChainTellsEdits
  <2> SUFFICES ASSUME ChainInv, NEW g \in Edited(events), NEW f \in Edited(g)
               PROVE  /\ IsPrefix(f, events) => VerifyChain(f)
                      /\ VerifyChain(f) =>
                           \A i \in DOMAIN f : f[i].hash \in Recorded => IsPrefix(SubSeq(f, 1, i), events)
    BY DEF ChainTellsEdits
  <2>1. PICK H : g \in Seq(Mark(H))
    BY EditedAreLists DEF ChainInv
  <2>2. PICK K : f \in Seq(Mark(K))
    BY <2>1, EditedAreLists
  <2> QED BY <2>2, ListsAgainstTrace
<1> QED BY <1>1, ChainHolds, PTL

=============================================================================
