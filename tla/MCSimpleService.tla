--------------------------- MODULE MCSimpleService ---------------------------
(***************************************************************************)
(* SimpleService for TLC.  Handler slots and hosts are interchangeable.    *)
(***************************************************************************)
EXTENDS SimpleService, TLC

Symmetry == Permutations(Calls) \cup Permutations(Hosts)
=============================================================================
