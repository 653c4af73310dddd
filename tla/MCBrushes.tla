----------------------------- MODULE MCBrushes -----------------------------
(***************************************************************************)
(* Brushes for TLC.  brushes_power[1] may start as a valid bit or as       *)
(* anything else; all other values behave alike.                           *)
(***************************************************************************)
EXTENDS Brushes

StackGarbage == {0, 1, 7}

=============================================================================
