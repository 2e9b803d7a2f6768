----------------------------- MODULE MCCartItem -----------------------------
(* Constants of the TLC runs over CartItem.                                *)
EXTENDS CartItem
=============================================================================
