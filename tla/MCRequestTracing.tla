--------------------------- MODULE MCRequestTracing --------------------------
(* Instance of RequestTracing for TLC: identifiers of two bits, one that     *)
(* fits, one that is too long and begins alike, one that is too short and    *)
(* one that does not decode.                                                 *)
EXTENDS RequestTracing, TLC

Symmetry == Permutations(Requests)
Ids == {<<0, 1>>, <<0, 1, 1>>, <<1>>, Invalid}
OneTrace == {<<1, 0>>}
=============================================================================
