-------------------------- MODULE MCEvidenceBroker --------------------------
EXTENDS EvidenceBroker, TLC

\* Roles and calls are alike.
Symmetric == Permutations(Roles) \cup Permutations(Callers) \cup Permutations(Evidence)

=============================================================================
