---------------------------- MODULE MCRevocation ----------------------------
(***************************************************************************)
(* Two threads withdraw two assets while two connectors are registered,    *)
(* acknowledged and reactivated and one thread asks can_serve().           *)
(***************************************************************************)
EXTENDS Revocation

=============================================================================
