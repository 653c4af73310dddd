----------------------------- MODULE MCMovement -----------------------------
(* Model-checking instances of Movement. *)
EXTENDS Movement
=============================================================================
