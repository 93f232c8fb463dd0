----------------------------- MODULE MCEndpoint -----------------------------
(* Model checking of Endpoint; the instances are given by the cfg files.      *)
EXTENDS Endpoint, TLC

\* The names of goroutines, requests and connections carry no meaning; used
\* by the runs that check safety only.
Symmetry == Permutations(Tasks) \cup Permutations(Requests) \cup Permutations(Conns)
=============================================================================
