------------------------------- MODULE Ranking -------------------------------
(***************************************************************************)
(* Python's sorted(), which is stable, as the ledger and the training      *)
(* admission use it: places in the order of a sequence of integer keys.    *)
(* It is written by counting, so that proofs can reason about it.          *)
(***************************************************************************)
EXTENDS Integers, Sequences, FiniteSets

Ahead(keys, j, i) ==
    \/ keys[j] < keys[i]
    \/ keys[j] = keys[i] /\ j < i

(* The place of i in the order, counted from 0.                            *)
Rank(keys, i) == Cardinality({j \in DOMAIN keys : Ahead(keys, j, i)})

SortedBy(seq, keys) ==
    [p \in DOMAIN seq |-> seq[CHOOSE i \in DOMAIN seq : Rank(keys, i) = p - 1]]

=============================================================================
