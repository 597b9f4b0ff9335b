--------------------------- MODULE MCGatewayRules ---------------------------
(***************************************************************************)
(* Every rule of the gateway, and every way a token can fail: one worker   *)
(* serves two calls while records are registered and withdrawn, tokens are *)
(* minted for either tenant, postdated or short-lived, and the clock runs. *)
(***************************************************************************)
EXTENDS PolicyGateway

CONSTANTS painting, tenantA, tenantB, infer, publish, basic, root, n1

MCTenants == {tenantA, tenantB}

MCActions == {infer, publish}

Plain ==
    [tenant |-> tenantA, signed |-> TRUE, naive |-> FALSE, from |-> 0, until |-> 1,
     scopes |-> {basic}, actions |-> {}, consent |-> FALSE]

Gated == [Plain EXCEPT !.consent = TRUE]

MCMetadata ==
    {Plain, Gated, [Gated EXCEPT !.tenant = tenantB],
     [Plain EXCEPT !.signed = FALSE], [Plain EXCEPT !.naive = TRUE],
     [Plain EXCEPT !.from = 1, !.until = 2], [Plain EXCEPT !.from = -1, !.until = 0],
     [Plain EXCEPT !.actions = {infer}]}

Ask ==
    [asset |-> painting, tenant |-> tenantA, action |-> infer, scopes |-> {basic},
     injected |-> FALSE, tokens |-> <<>>]

MCRequests ==
    {Ask, [Ask EXCEPT !.action = publish], [Ask EXCEPT !.injected = TRUE],
     [Ask EXCEPT !.scopes = {basic, root}], [Ask EXCEPT !.tenant = tenantB, !.tokens = <<n1>>],
     [Ask EXCEPT !.tokens = <<Forged>>], [Ask EXCEPT !.tokens = <<Forged, n1>>],
     [Ask EXCEPT !.tokens = <<n1>>, !.action = publish]}

=============================================================================
