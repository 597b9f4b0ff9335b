------------------------- MODULE ContributionLedger -------------------------
(***************************************************************************)
(* ContributionLedger of src/accounting/ledger.py.  Every method holds the *)
(* ledger's lock from its first look at the records to its last write, so  *)
(* each is one action; a call that raises first changes nothing and has    *)
(* none.  A record id is f"{run_id}:{idx:04d}", here the run and the index,*)
(* counted from 1; IdKey is the place of the id in the order of strings.   *)
(* The reconciliation hash is a function of the other fields, left out.    *)
(***************************************************************************)
EXTENDS Allocation

CONSTANTS
    IdRadix,            \* base the index in a record id is written in, 10 in the code
    PaddedIds,          \* indices that the padding makes equally long, 10000 in the code
    Runs,               \* run_id values
    Assets,             \* asset_id values, as their rank in the order of strings
    Custodians,
    Malformed,          \* custodian ids that LedgerRecord refuses
    Revenues,           \* revenue_cents of posts
    Contributions,      \* contribution lists of posts
    Ratios,             \* <<numer, denom>> of partial refunds
    NoRatio,
    Adjustments,        \* adjustment_cents of other dispute offsets
    MaxOffsets          \* bound: number of offsets

ASSUME LedgerAssumption ==
    /\ IdRadix \in Nat \ {0, 1}
    /\ PaddedIds \in Nat \ {0}
    /\ Assets \subseteq Nat
    /\ Malformed \subseteq Custodians
    /\ Revenues \subseteq Nat
    /\ Contributions \subseteq Seq([asset : Assets, custodian : Custodians, weight : Nat])
    /\ Ratios \subseteq Nat \X (Nat \ {0})
    /\ NoRatio \notin Ratios
    /\ Adjustments \subseteq Int
    /\ MaxOffsets \in Nat

VARIABLES
    records,            \* _records: per run, its records by index
    offsets             \* _offsets: per run and index, in the order applied

vars == <<records, offsets>>

LedgerRecord == [asset : Assets, custodian : Custodians \ Malformed, revenue : Revenues,
                 share : 0..BasisPointsTotal, allocated : Nat]

Offset == [cents : Int, ratio : Ratios \cup {NoRatio}]

Init ==
    /\ records = [r \in Runs |-> <<>>]
    /\ offsets = [r \in Runs |-> <<>>]

-----------------------------------------------------------------------------

Weights(list) == [i \in DOMAIN list |-> list[i].weight]

(* The records that a contribution list amounts to.                        *)
RecordsFor(revenue, list) ==
    LET shares == AllocateCents(revenue, Weights(list))
    IN  [i \in DOMAIN list |->
           [asset |-> list[i].asset, custodian |-> list[i].custodian, revenue |-> revenue,
            share |-> list[i].weight, allocated |-> shares[i]]]

(* A record type that validates nothing.                                   *)
NothingRefused(list) == 0

(* The loop of post_run() stops, raising, at the first record it cannot    *)
(* construct; the records before it stay.                                  *)
FirstRefused(list) == SelectInSeq(list, LAMBDA c : c.custodian \in Malformed)

Posted(revenue, list) ==
    IF FirstRefused(list) = 0 THEN RecordsFor(revenue, list)
    ELSE SubSeq(RecordsFor(revenue, list), 1, FirstRefused(list) - 1)

(* A post_run() that goes on where an earlier post stopped.                *)
PostRunResuming(r) ==
    \E revenue \in Revenues, list \in Contributions :
        /\ ValidWeights(Weights(list))
        /\ records' = [records EXCEPT ![r] =
                         @ \o SubSeq(Posted(revenue, list), Len(@) + 1, Len(Posted(revenue, list)))]
        /\ offsets' = [offsets EXCEPT ![r] = [i \in DOMAIN records'[r] |-> <<>>]]

(* post_run(): a run that has its record 0 is a duplicate.                 *)
PostRun(r) ==
    /\ records[r] = <<>>
    /\ \E revenue \in Revenues, list \in Contributions :
         /\ ValidWeights(Weights(list))
         /\ records' = [records EXCEPT ![r] = Posted(revenue, list)]
         /\ offsets' = [offsets EXCEPT ![r] = [i \in DOMAIN Posted(revenue, list) |-> <<>>]]

OffsetCount(r) == SumSeq([i \in DOMAIN offsets[r] |-> Len(offsets[r][i])])

(* A store that keeps one offset per record_id.                            *)
AddOffsetReplacing(r, i, cents, ratio) ==
    /\ OffsetCount(r) < MaxOffsets
    /\ offsets' = [offsets EXCEPT ![r][i] = <<[cents |-> cents, ratio |-> ratio]>>]
    /\ UNCHANGED records

AddOffset(r, i, cents, ratio) ==
    /\ OffsetCount(r) < MaxOffsets
    /\ offsets' = [offsets EXCEPT ![r][i] = Append(@, [cents |-> cents, ratio |-> ratio])]
    /\ UNCHANGED records

ApplyDisputeOffset(r, i, cents) == AddOffset(r, i, cents, NoRatio)

(* The refund is a share of what was allocated, not of what is left: the   *)
(* same refund applied twice is deducted twice.                            *)
ApplyPartialRefund(r, i, ratio) ==
    AddOffset(r, i, -RoundHalfEvenCents(records[r][i].allocated, ratio[1], ratio[2]), ratio)

(* The order of record ids as strings, for an index idx from 0 that is at  *)
(* most one digit longer than the padding (bound: IdRadix * PaddedIds): an *)
(* index beyond the padding comes right after its digits without the last. *)
IdKey(idx) ==
    IF idx < PaddedIds THEN idx * (IdRadix + 1)
    ELSE (idx \div IdRadix) * (IdRadix + 1) + 1 + (idx % IdRadix)

(* records_for_run(): sorted by record_id.                                 *)
RecordsForRun(r) == SortedBy(records[r], [i \in DOMAIN records[r] |-> IdKey(i - 1)])

(* replay_run(): it returns only if the recomputed records are the run's,  *)
(* compared in the order of the contributions with records_for_run().      *)
ReplayRun(r, revenue, list) ==
    /\ ValidWeights(Weights(list))
    /\ RecordsFor(revenue, list) = RecordsForRun(r)

Next ==
    \E r \in Runs :
        \/ PostRun(r)
        \/ \E i \in DOMAIN records[r] :
             \/ \E cents \in Adjustments : ApplyDisputeOffset(r, i, cents)
             \/ \E ratio \in Ratios : ApplyPartialRefund(r, i, ratio)

Spec == Init /\ [][Next]_vars

-----------------------------------------------------------------------------
(* Every record and offset keeps its type, and offsets are kept for the    *)
(* records there are.                                                      *)
TypeOK ==
    /\ records \in [Runs -> Seq(LedgerRecord)]
    /\ offsets \in [Runs -> Seq(Seq(Offset))]
    /\ \A r \in Runs : DOMAIN offsets[r] = DOMAIN records[r]

Shares(r) == [i \in DOMAIN records[r] |-> records[r][i].share]

Whole(r) == records[r] # <<>> /\ SumSeq(Shares(r)) = BasisPointsTotal

Allocated(r) == SumSeq([i \in DOMAIN records[r] |-> records[r][i].allocated])

(* "zero drift": the records of a run add up to its revenue to the cent,   *)
(* and those of a post that broke off never to more.                       *)
SplitExact ==
    \A r \in Runs :
        records[r] # <<>> =>
          /\ Allocated(r) <= records[r][1].revenue
          /\ Whole(r) => Allocated(r) = records[r][1].revenue

(* How far record i is above its exact share, in BasisPointsTotal-ths.     *)
Excess(r, i) ==
    records[r][i].allocated * BasisPointsTotal - records[r][i].revenue * records[r][i].share

(* The largest-remainder split is the fairest one in whole cents: moving a *)
(* cent from one record to another brings no two of them closer to their   *)
(* exact shares, and where it would be as good, the cent is at the record  *)
(* that was listed first.                                                  *)
SplitFair ==
    \A r \in Runs :
        Whole(r) =>
          \A i, j \in DOMAIN records[r] :
            \/ Excess(r, i) - Excess(r, j) < BasisPointsTotal
            \/ Excess(r, i) - Excess(r, j) = BasisPointsTotal /\ i < j

(* "recompute(record_inputs) reproduces allocated_cents" (ledger.py:11):   *)
(* a replay from the inputs of a whole run finds no drift, whatever posts, *)
(* refused posts and retries came before, as long as every index fits the  *)
(* padding of its record id.  With one more record the ids no longer sort  *)
(* as the contributions do, and replay_run() may raise.                    *)
WholeRunsReplay ==
    \A r \in Runs :
        Whole(r) /\ Len(records[r]) <= PaddedIds =>
          ReplayRun(r, records[r][1].revenue,
                    [i \in DOMAIN records[r] |->
                       [asset |-> records[r][i].asset,
                        custodian |-> records[r][i].custodian,
                        weight |-> records[r][i].share]])

(* "ROUND_HALF_EVEN on the exact rational result" (ledger.py:79): a refund *)
(* is the nearest whole number of cents to its ratio of the allocation,    *)
(* and the even one of two that are as near.                               *)
RefundsRounded ==
    \A r \in Runs : \A i \in DOMAIN offsets[r] : \A k \in DOMAIN offsets[r][i] :
        LET o == offsets[r][i][k]
            error == 2 * (-o.cents * o.ratio[2] - records[r][i].allocated * o.ratio[1])
        IN  o.ratio # NoRatio =>
              /\ error \in -o.ratio[2]..o.ratio[2]
              /\ error \in {-o.ratio[2], o.ratio[2]} => o.cents % 2 = 0

(* "Append-only ledger" (ledger.py:117): nothing that was recorded changes *)
(* or goes, and a run takes records from one post only.                    *)
AppendOnly ==
    [][\A r \in Runs : \A i \in DOMAIN records[r] :
         /\ records'[r] = records[r]
         /\ IsPrefix(offsets[r][i], offsets'[r][i])]_vars

(* "ties break toward the lowest asset_id" (ledger.py:5): of two records   *)
(* with one remainder, of which one got a leftover cent, it is the one     *)
(* with the lower asset_id.                                                *)
TiesFavourLowestAsset ==
    \A r \in Runs :
        Whole(r) =>
          \A i, j \in DOMAIN records[r] :
            Excess(r, i) - Excess(r, j) = BasisPointsTotal => records[r][i].asset < records[r][j].asset

=============================================================================
