----------------------------- MODULE Allocation -----------------------------
(***************************************************************************)
(* The integer arithmetic of src/accounting/ledger.py.                     *)
(***************************************************************************)
EXTENDS Ranking, FiniteSetsExt, SequencesExt

CONSTANT BasisPointsTotal       \* BASIS_POINTS_TOTAL, 10000 in the code

ASSUME TotalAssumption == BasisPointsTotal \in Nat \ {0}

RunningSums(s) ==
    LET upTo[n \in 0..Len(s)] == IF n = 0 THEN 0 ELSE upTo[n - 1] + s[n]
    IN  upTo

SumSeq(s) == RunningSums(s)[Len(s)]

(* What allocate_cents() accepts: weights that add up to the whole.        *)
ValidWeights(weights) == weights # <<>> /\ SumSeq(weights) = BasisPointsTotal

Floors(revenue, weights) ==
    [i \in DOMAIN weights |-> (revenue * weights[i]) \div BasisPointsTotal]

Remainders(revenue, weights) ==
    [i \in DOMAIN weights |-> (revenue * weights[i]) % BasisPointsTotal]

(* A leftover handed out in the order the weights are listed.              *)
HandoutByIndex(remainders) == [i \in DOMAIN remainders |-> i]

(* Largest remainder first, ties by position in the list.                  *)
HandoutKeys(remainders) == [i \in DOMAIN remainders |-> -remainders[i]]

(* An allocation that drops the leftover cents.                            *)
FloorCents(revenue, weights) == Floors(revenue, weights)

(* allocate_cents(): the leftover cents go round the order, one each.      *)
AllocateCents(revenue, weights) ==
    LET floors == Floors(revenue, weights)
        keys == HandoutKeys(Remainders(revenue, weights))
        leftover == revenue - SumSeq(floors)
    IN  [i \in DOMAIN weights |->
           floors[i] + Cardinality({k \in 0..leftover - 1 : k % Len(weights) = Rank(keys, i)})]

(* A rounding that takes every half up.                                    *)
RoundHalfUpCents(amount, numer, denom) == (2 * amount * numer + denom) \div (2 * denom)

(* round_half_even_cents()                                                 *)
RoundHalfEvenCents(amount, numer, denom) ==
    LET quotient == (amount * numer) \div denom
        twice == 2 * ((amount * numer) % denom)
    IN  IF twice < denom \/ (twice = denom /\ quotient % 2 = 0) THEN quotient ELSE quotient + 1

=============================================================================
