----------------------------- MODULE Statements -----------------------------
(***************************************************************************)
(* src/explanations/statements.py over the ledger.  A run statement reads  *)
(* the list of records under the ledger's lock, then the net of one record *)
(* after the other, each under the lock anew: refunds and disputes fall    *)
(* between its lines.  A custodian statement is one lock section, here an  *)
(* operator.  Both are given as numbers of cents; their layout is left out.*)
(***************************************************************************)
EXTENDS ContributionLedger

CONSTANT NoStatement

(* The totals below add up over the custodians.                            *)
ASSUME StatementAssumption == IsFiniteSet(Custodians)

VARIABLE statement      \* the run statement being written, or the one written last

statementVars == <<vars, statement>>

(* nets has the records whose lines are written.  `settled` is history: how*)
(* many offsets each record had at the start.                              *)
Statement ==
    [run : Runs, settled : Seq(Nat), nets : UNION {[D -> Int] : D \in SUBSET (Nat \ {0})}]

StatementInit == Init /\ statement = NoStatement

OffsetSum(list) == SumSeq([k \in DOMAIN list |-> list[k].cents])

(* A net that knows the latest offset only.                                *)
NetOfLatest(r, i) ==
    records[r][i].allocated + (IF offsets[r][i] = <<>> THEN 0 ELSE Last(offsets[r][i]).cents)

(* net_for_record()                                                        *)
NetForRecord(r, i) == records[r][i].allocated + OffsetSum(offsets[r][i])

(* records_for_run() of run_statement_text(): what is listed is fixed now. *)
StartStatement(r) ==
    /\ statement = NoStatement
    /\ records[r] # <<>>
    /\ statement' = [run |-> r, settled |-> [i \in DOMAIN offsets[r] |-> Len(offsets[r][i])],
                     nets |-> <<>>]
    /\ UNCHANGED vars

(* The next line, in the order of records_for_run().                       *)
WriteNet ==
    /\ statement # NoStatement
    /\ \E i \in DOMAIN statement.settled \ DOMAIN statement.nets :
         /\ \A j \in DOMAIN statement.settled \ DOMAIN statement.nets :
              IdKey(i - 1) <= IdKey(j - 1)
         /\ statement' = [statement EXCEPT !.nets =
                            [j \in DOMAIN @ \cup {i} |->
                               IF j = i THEN NetForRecord(statement.run, i) ELSE @[j]]]
    /\ UNCHANGED vars

StatementNext ==
    \/ Next /\ UNCHANGED statement
    \/ \E r \in Runs : StartStatement(r)
    \/ WriteNet

StatementSpec == StatementInit /\ [][StatementNext]_statementVars

-----------------------------------------------------------------------------
(* statement_for_custodian(), its net_cents.                               *)
HeldBy(c) ==
    UNION {{<<r, i>> : i \in {j \in DOMAIN records[r] : records[r][j].custodian = c}} : r \in Runs}

CustodianNet(c) ==
    LET gross == MapThenSumSet(LAMBDA p : records[p[1]][p[2]].allocated, HeldBy(c))
        adjustments == MapThenSumSet(LAMBDA p : OffsetSum(offsets[p[1]][p[2]]), HeldBy(c))
    IN  gross + adjustments

NetAfter(r, i, k) == records[r][i].allocated + OffsetSum(SubSeq(offsets[r][i], 1, k))

Undisturbed(s) == \A i \in DOMAIN s.settled : Len(offsets[s.run][i]) = s.settled[i]

(* "Statements are snapshots" (statements.py:4), line by line: every net a *)
(* run statement gives was the record's at some moment since the statement *)
(* was begun, with all that was settled before.  One that nothing was filed*)
(* during pays out, in all, what the statements of the custodians pay.     *)
StatementsJustified ==
    statement # NoStatement =>
      LET s == statement
      IN  /\ \A i \in DOMAIN s.nets : \E k \in s.settled[i]..Len(offsets[s.run][i]) :
               s.nets[i] = NetAfter(s.run, i, k)
          /\ DOMAIN s.nets = DOMAIN s.settled /\ Undisturbed(s) /\ Runs = {s.run} =>
               SumSeq(s.nets) = MapThenSumSet(CustodianNet, Custodians)

=============================================================================
