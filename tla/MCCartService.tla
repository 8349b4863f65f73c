--------------------------- MODULE MCCartService ---------------------------
(* Small instances of CartService for TLC. *)
EXTENDS CartService, TLC

\* Three requests of one customer.
AllOfOne == [r \in Requests |-> "c1"]

\* Two products; the id "p1?" is answered with p1.
TwoAndAnAlias == {"p1", "p2", "p1?"}
Named == [p \in TwoAndAnAlias |-> IF p = "p1?" THEN "p1" ELSE p]
=============================================================================
