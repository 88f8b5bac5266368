------------------------------- MODULE MCWebUi ------------------------------
(***************************************************************************)
(* Two processes, two threads, two sources.                                *)
(***************************************************************************)
EXTENDS WebUi, TLC

MCPower == [e \in 0 .. MaxExponent |-> 2 ^ e]

Symmetry ==
  Permutations(Source) \cup Permutations(Proc) \cup Permutations(Request)

=============================================================================
