-------------------------- MODULE MCExternalStatus --------------------------
(* Model checking of ExternalStatus.                                        *)
EXTENDS ExternalStatus
=============================================================================
