-------------------------- MODULE MCProviderCache --------------------------
(* Instances of ProviderCache for TLC: goroutines are interchangeable, no    *)
(* definition of the specification tells them apart.                         *)
EXTENDS ProviderCache, TLC

Symmetry == Permutations(Caller)
============================================================================
