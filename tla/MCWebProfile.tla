------------------------------ MODULE MCWebProfile ------------------------------
(* A small instance of WebProfile for TLC. *)
EXTENDS WebProfile, TLC

Symmetry == Permutations(Slots) \union Permutations(Users)
\* Behaviours are followed as long as anything is promised of them.
Promised == trust # "nothing"
\* The second save is of one who is signed in, and stays so from then on.
SignedInForTwoSaves == saves' > 1 => token # Nobody /\ token' = token
==============================================================================
