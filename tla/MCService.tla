------------------------------ MODULE MCService ------------------------------
(***************************************************************************)
(* Three requests at a time on a pool of two, about a seeded asset and one *)
(* the registry does not know.                                             *)
(***************************************************************************)
EXTENDS Service

=============================================================================
