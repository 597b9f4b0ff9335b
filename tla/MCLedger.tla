------------------------------ MODULE MCLedger ------------------------------
(***************************************************************************)
(* Every split of a small whole among at most three contributors, listed   *)
(* in the order of their asset ids or against it, well-formed or with one  *)
(* contribution the ledger refuses, with refunds and disputes on top and   *)
(* one run statement written while they come in.  Some lists are one longer*)
(* than the padding of record ids provides for.                            *)
(***************************************************************************)
EXTENDS Statements

CONSTANTS alice, bob, broken, MaxRevenue, MaxContributors

MCRevenues == 0..MaxRevenue

MCAssets == 1..MaxContributors + 1

(* Weights that miss the whole by one are tried too.                       *)
MCWeights ==
    {w \in UNION {[1..n -> 0..BasisPointsTotal] : n \in 1..MaxContributors} :
        SumSeq(w) \in {BasisPointsTotal - 1, BasisPointsTotal}}

MCLongWeights == {<<3, 0, 1, 4>>, <<8, 0, 0, 0>>}

MCContributions ==
    {[i \in DOMAIN w |->
        [asset |-> IF rising THEN i ELSE Len(w) + 1 - i,
         custodian |-> IF i = refused THEN broken ELSE IF i = 1 THEN alice ELSE bob,
         weight |-> w[i]]] :
       w \in MCWeights \cup MCLongWeights, rising \in BOOLEAN, refused \in 0..MaxContributors}

MCRatios == {<<1, 2>>, <<1, 3>>, <<2, 3>>}

MCAdjustments == {1}

=============================================================================
