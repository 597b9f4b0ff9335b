------------------------------ MODULE CoreTypes ------------------------------
(***************************************************************************)
(* The identifiers every component of the governed core shares.  An asset  *)
(* id and a tenant id are opaque: the code only compares them.             *)
(***************************************************************************)
EXTENDS Integers, Sequences, FiniteSets

CONSTANTS
    Assets,         \* asset_id values that can be registered or asked for
    Tenants         \* tenant_id values

=============================================================================
