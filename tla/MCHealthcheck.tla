---------------------------- MODULE MCHealthcheck ---------------------------
(***************************************************************************)
(* The timer and one operator.                                             *)
(***************************************************************************)
EXTENDS Healthcheck

=============================================================================
