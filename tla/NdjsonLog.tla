------------------------------ MODULE NdjsonLog ------------------------------
(***************************************************************************)
(* NdjsonLogger.emit() of src/observability/tracing.py, called by many     *)
(* threads: the number of a line is drawn under the lock, the lock is      *)
(* released while the record is built, and taken again to write the line.  *)
(***************************************************************************)
EXTENDS Integers, Sequences, FiniteSets

CONSTANTS
    Loggers,        \* threads that call emit()
    NoLine,
    MaxLines        \* bound: calls of emit()

ASSUME LogAssumption == NoLine \notin [n : Nat, seen : Nat] /\ MaxLines \in Nat

VARIABLES
    nextSeq,        \* _seq
    carrying,       \* per thread: the line it is about to write
    lines,          \* the file
    lost            \* history: the numbers of lines that could not be written

logVars == <<nextSeq, carrying, lines, lost>>

(* `seen` is history: the length of the file when the number was drawn.    *)
Line == [n : Nat, seen : Nat]

LogInit ==
    /\ nextSeq = 0
    /\ carrying = [l \in Loggers |-> NoLine]
    /\ lines = <<>>
    /\ lost = {}

Carry(l, n) ==
    /\ carrying[l] = NoLine
    /\ carrying' = [carrying EXCEPT ![l] = [n |-> n, seen |-> Len(lines)]]

(* A number that is read off the file.                                     *)
DrawFromFile(l) ==
    /\ nextSeq < MaxLines
    /\ Carry(l, Len(lines))
    /\ nextSeq' = nextSeq + 1
    /\ UNCHANGED <<lines, lost>>

(* A logger that fills the gaps of lines it could not write.               *)
DrawLost(l) ==
    /\ nextSeq < MaxLines
    /\ IF lost = {}
       THEN Carry(l, nextSeq) /\ nextSeq' = nextSeq + 1 /\ UNCHANGED lost
       ELSE \E n \in lost : Carry(l, n) /\ lost' = lost \ {n} /\ UNCHANGED nextSeq
    /\ UNCHANGED lines

Draw(l) ==
    /\ nextSeq < MaxLines
    /\ Carry(l, nextSeq)
    /\ nextSeq' = nextSeq + 1
    /\ UNCHANGED <<lines, lost>>

WriteLine(l) ==
    /\ carrying[l] # NoLine
    /\ lines' = Append(lines, carrying[l])
    /\ carrying' = [carrying EXCEPT ![l] = NoLine]
    /\ UNCHANGED <<nextSeq, lost>>

(* The file cannot be opened or the attributes are no JSON: emit() raises  *)
(* and its number is never used.                                           *)
WriteFails(l) ==
    /\ carrying[l] # NoLine
    /\ lost' = lost \cup {carrying[l].n}
    /\ carrying' = [carrying EXCEPT ![l] = NoLine]
    /\ UNCHANGED <<nextSeq, lines>>

LogNext == \E l \in Loggers : Draw(l) \/ WriteLine(l) \/ WriteFails(l)

-----------------------------------------------------------------------------
InFile(n) == {i \in DOMAIN lines : lines[i].n = n}

Carriers(n) == {l \in Loggers : carrying[l] # NoLine /\ carrying[l].n = n}

(* Every number drawn is in the file once, or on its way there once, or of *)
(* a line whose emit() raised: a number missing from the file of a logger  *)
(* at rest tells of a line that was not written, and none comes twice.     *)
LinesAccounted ==
    \A n \in 0..nextSeq - 1 :
        Cardinality(InFile(n)) + Cardinality(Carriers(n)) + Cardinality({n} \cap lost) = 1

(* "monotonic sequence numbers" (tracing.py:3), as far as two locks keep   *)
(* them so: a line stands after one with a higher number only if the two   *)
(* calls overlapped, so that line had not been written when this one's     *)
(* number was drawn.                                                       *)
OnlyOverlapsReorder ==
    \A i, j \in DOMAIN lines : i < j /\ lines[i].n > lines[j].n => i > lines[j].seen

=============================================================================
