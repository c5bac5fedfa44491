------------------------ MODULE MCBindingController ------------------------
(***************************************************************************)
(* BindingController for TLC; the cfg files give the constants.            *)
(***************************************************************************)
EXTENDS BindingProperties, TLC

(* Sound where only safety is checked and the cfg makes them model values. *)
AccountSymmetry == Permutations(ServiceAccounts)
=============================================================================
