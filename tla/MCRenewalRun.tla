---------------------------- MODULE MCRenewalRun ----------------------------
(* Small instances of RenewalRun: the handlers are interchangeable.        *)
EXTENDS RenewalRun, TLC

ProcSymmetry == Permutations(Procs)

=============================================================================
