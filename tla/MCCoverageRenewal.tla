-------------------------- MODULE MCCoverageRenewal --------------------------
(* Small instances of CoverageRenewal: two replicas' loops and one or two  *)
(* calls at a time; loops are interchangeable, calls are too.              *)
EXTENDS CoverageRenewal, TLC

HandlerSymmetry == Permutations(Runners) \cup Permutations(Clients)

=============================================================================
