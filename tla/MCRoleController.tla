-------------------------- MODULE MCRoleController --------------------------
(***************************************************************************)
(* RoleController for TLC; the cfg files give the constants.               *)
(***************************************************************************)
EXTENDS RoleProperties
=============================================================================
