-------------------------- MODULE MCImplicitParam --------------------------
(* Two parameters with the values 0 (the default) and 1. *)
EXTENDS ImplicitParam

Zero(p) == 0
=============================================================================
