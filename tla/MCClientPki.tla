----------------------------- MODULE MCClientPki ----------------------------
(***************************************************************************)
(* Two commands at a time, for one device.                                 *)
(***************************************************************************)
EXTENDS ClientPki, TLC

Symmetry == Permutations(Proc)

=============================================================================
