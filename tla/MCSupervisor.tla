---------------------------- MODULE MCSupervisor ----------------------------
(* Model checking of Supervisor.  Between the two configurations a reload    *)
(* keeps endpoints, removes one, adds one, and rebuilds one on an address     *)
(* that another one still holds.                                              *)
EXTENDS Supervisor

At(n, a, u) == [name |-> n, listen |-> a, upstream |-> u]

MCNames == {"n1", "n2"}
MCAddresses == {"a1", "a2"}
MCConfigs == { {At("n1", "a1", "u1"), At("n2", "a2", "u1")},
               {At("n2", "a1", "u1")} }
=============================================================================
