----------------------------- MODULE AtomicCart -----------------------------
(***************************************************************************)
(* What the cart API promises to a customer who does one thing at a time:  *)
(* a request changes the stored cart in one step, as it asks, or not at    *)
(* all, and a request answered with success has changed it.                *)
(***************************************************************************)
EXTENDS CartLines

CONSTANTS Requests, Customers, CustomerOf, CatalogId, MaxQuantity, MaxItems

VARIABLES
  lines,     \* lines[c]: the cart of c
  op,        \* what each request asks for
  outcome    \* "none" until the request is answered

Init ==
  /\ lines = [c \in Customers |-> <<>>]
  /\ outcome = [r \in Requests |-> "none"]

\* The carts r may leave behind when it finds the cart old.
Results(r, old) ==
  CASE op[r].kind = "clear" -> {<<>>}
    [] op[r].kind = "add" ->
         {new \in {Added(old, op[r].product, op[r].quantity, CatalogId[op[r].product])} :
            /\ Quantity(new, op[r].product) <= MaxQuantity
            /\ Len(new) <= MaxItems}
    [] OTHER ->
         IF op[r].product \in ProductsOf(old)
           THEN {Updated(old, op[r].product, op[r].quantity)} ELSE {}

Apply(r, how) ==
  /\ outcome[r] = "none"
  /\ outcome' = [outcome EXCEPT ![r] = how]
  /\ \E new \in Results(r, lines[CustomerOf[r]]) :
       lines' = [lines EXCEPT ![CustomerOf[r]] = new]
  /\ UNCHANGED op

Refuse(r, how) ==
  /\ outcome[r] = "none" /\ how # "ok"
  /\ outcome' = [outcome EXCEPT ![r] = how]
  /\ UNCHANGED <<lines, op>>

\* The cart becomes an order, or is forgotten.
Empty(c) == lines' = [lines EXCEPT ![c] = <<>>] /\ UNCHANGED <<op, outcome>>

Next ==
  \/ \E r \in Requests :
       \/ \E how \in {"ok", "error"} : Apply(r, how)
       \/ \E how \in {"missing", "invalid", "upstream", "error"} : Refuse(r, how)
  \/ \E c \in Customers : Empty(c)

Spec == Init /\ [][Next]_<<lines, op, outcome>>
=============================================================================
