------------------------------ MODULE MCWebSignIn ------------------------------
(* A small instance of WebSignIn for TLC. *)
EXTENDS WebSignIn, TLC

Symmetry == Permutations(Slots)
==============================================================================
