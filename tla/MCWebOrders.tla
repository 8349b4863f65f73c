----------------------------- MODULE MCWebOrders -----------------------------
(* A small instance of WebOrders for TLC. *)
EXTENDS WebOrders, TLC

Symmetry == Permutations(Slots)
==============================================================================
