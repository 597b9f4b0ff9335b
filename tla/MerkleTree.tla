----------------------------- MODULE MerkleTree -----------------------------
(***************************************************************************)
(* merkle_root() of src/training/admission.py.  A hash is a number, for    *)
(* hashes are compared and sorted and nothing else: SHA-256 of two hashes  *)
(* is a number that no other two hashes have.  Leaves and inner nodes are  *)
(* hashed alike, and any number may be a content hash, the digest of two   *)
(* others included: the list of that digest alone has the root of the two. *)
(***************************************************************************)
EXTENDS Ranking, SequencesExt

CONSTANT Contents       \* content_hash values

ASSUME MerkleAssumption == Contents \subseteq Nat

(* A merkle_root() without its case for an empty build.                    *)
NoRoot == -1

EmptyBuild == 0

(* Cantor's pairing of the naturals, from 1 on.                            *)
Digest(left, right) == 1 + ((left + right) * (left + right + 1)) \div 2 + right

Ordered(level) == SortedBy(level, level)

(* A tree that leaves the odd digest out.                                  *)
NextLevelEven(level) ==
    [i \in 1..Len(level) \div 2 |-> Digest(level[2 * i - 1], level[2 * i])]

(* The last digest of an odd level is paired with itself.                  *)
NextLevel(level) ==
    [i \in 1..(Len(level) + 1) \div 2 |->
       Digest(level[2 * i - 1], level[IF 2 * i <= Len(level) THEN 2 * i ELSE 2 * i - 1])]

Climb[level \in Seq(Nat)] ==
    IF Len(level) = 1 THEN level[1] ELSE Climb[Ordered(NextLevel(level))]

MerkleRoot(leaves) == IF leaves = <<>> THEN EmptyBuild ELSE Climb[Ordered(leaves)]

=============================================================================
