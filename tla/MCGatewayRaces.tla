--------------------------- MODULE MCGatewayRaces ---------------------------
(***************************************************************************)
(* Threads that race for tokens: two workers serve three calls for one     *)
(* asset that requires consent, while its tokens expire and the asset is   *)
(* withdrawn under them.  Every rule but the withdrawal one is satisfied.  *)
(***************************************************************************)
EXTENDS PolicyGateway, TLC

CONSTANTS painting, tenantA, infer, basic, n1, n2

MCAssets == {painting}

MCTenants == {tenantA}

MCMetadata ==
    {[tenant |-> tenantA, signed |-> TRUE, naive |-> FALSE, from |-> 0, until |-> 1,
      scopes |-> {basic}, actions |-> {infer}, consent |-> TRUE]}

MCRequests ==
    {[asset |-> painting, tenant |-> tenantA, action |-> infer, scopes |-> {basic},
      injected |-> FALSE, tokens |-> tokens] : tokens \in {<<n1>>, <<n2>>, <<n1, n2>>, <<n2, n1>>}}

MCSymmetry == Permutations(Workers) \cup Permutations(Nonces)

=============================================================================
