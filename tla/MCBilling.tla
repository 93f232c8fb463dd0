----------------------------- MODULE MCBilling ------------------------------
(* Model checking of Billing: two or three payments of two units, up to two *)
(* generations of one unit, a clock that passes one cooldown.               *)
EXTENDS Billing
=============================================================================
