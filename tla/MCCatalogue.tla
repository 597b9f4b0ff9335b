---------------------------- MODULE MCCatalogue ----------------------------
(***************************************************************************)
(* One builder searches and freezes while three assets are registered and  *)
(* one is withdrawn.  Every record may be registered under every id, its   *)
(* own or one its mandate was not signed for; one record is registered     *)
(* with other constraints than its mandate was signed for, joined to the   *)
(* same text; and one content hash, 9, is the digest of the two others.    *)
(***************************************************************************)
EXTENDS Catalogue

CONSTANTS tenantA, tenantB, alice, mallory

MCActions == {"train", "infer", "infer,train"}

(* ",".join(sorted(strings)), of the sets that occur.                      *)
Commas(strings) ==
    CASE strings = {} -> ""
      [] strings = {"infer", "train"} -> "infer,train"
      [] Cardinality(strings) = 1 -> CHOOSE x \in strings : TRUE

MCMandateText(f) == [f EXCEPT !.actions = Commas(@), !.scopes = Commas(@)]

MCFields(content, custodian, tenant, from, actions) ==
    [content |-> content, custodian |-> custodian, tenant |-> tenant, from |-> from,
     until |-> from + 1, rights |-> "licence", actions |-> actions, scopes |-> {"train"},
     consent |-> FALSE]

(* A record registered as m, its mandate signed for the fields of `signed`.*)
MCSignedAs(a, signed, m) == m @@ [mandate |-> <<signed.custodian, MandateMessage(a, signed)>>]

MCSigned(a, m) == MCSignedAs(a, m, m)

MCMetadata ==
    {MCSigned(1, MCFields(1, alice, tenantA, -1, {})),
     MCSigned(1, MCFields(2, alice, tenantB, 1, {})),
     MCSignedAs(2, MCFields(2, alice, tenantA, 0, {"infer,train"}),
                   MCFields(2, alice, tenantA, 0, {"infer", "train"})),
     MCSigned(2, MCFields(1, mallory, tenantA, 0, {})),
     MCSigned(3, MCFields(9, alice, tenantA, 0, {})),
     MCSigned(3, MCFields(1, alice, tenantA, 0, {"infer"}))}

=============================================================================
