------------------------------ MODULE MCWebCart ------------------------------
(* A small instance of WebCart for TLC. *)
EXTENDS WebCart, TLC

\* Products and slots are not told apart by the model.
Symmetry == Permutations(Products) \union Permutations(Slots)
==============================================================================
