------------------------------- MODULE MCFanOut -------------------------------
(* Three coroutines, two recipients; Callers is a set of model values.     *)
EXTENDS FanOut
=============================================================================
