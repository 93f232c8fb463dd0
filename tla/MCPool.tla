------------------------------- MODULE MCPool -------------------------------
(* Model checking of Pool; the instance is given by MCPool.cfg.  Three        *)
(* connections are enough for one that is tracked, one that is being closed   *)
(* and one whose handshake spans a re-pin, at the same time.                  *)
EXTENDS Pool
=============================================================================
