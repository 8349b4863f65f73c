--------------------------- MODULE OrderPlacement ---------------------------
(***************************************************************************)
(* What the checkout service promises, whatever its transactions, retries  *)
(* and crashes look like: an order appears in one step together with the   *)
(* stock it takes, no two orders carry the same idempotency key, and the   *)
(* invoice queue is told only about orders that exist.                     *)
(***************************************************************************)
EXTENDS CartLines

CONSTANTS
  Requests,      \* checkout requests; an order is named by its request
  Products,
  Carts,         \* the contents a cart can have
  NoKey,         \* the request carries no idempotency key
  KeyOf,         \* [Requests -> keys \cup {NoKey}]
  NoOrder,
  InitialStock   \* [Products -> Nat], the seeded inventory

VARIABLES
  stock,         \* committed stock of each product
  orders,        \* lines of the order each request created, or NoOrder
  invoiced       \* orders the invoice queue has been told about

absVars == <<stock, orders, invoiced>>

Placed == {r \in Requests : orders[r] # NoOrder}

KeyIsFree(r) == KeyOf[r] = NoKey \/ \A o \in Placed : KeyOf[o] # KeyOf[r]

Init ==
  /\ stock = InitialStock
  /\ orders = [r \in Requests |-> NoOrder]
  /\ invoiced = {}

Place(r, lines) ==
  /\ orders[r] = NoOrder
  /\ KeyIsFree(r)
  /\ \A p \in Products : Total(lines, p) <= stock[p]
  /\ stock' = [p \in Products |-> stock[p] - Total(lines, p)]
  /\ orders' = [orders EXCEPT ![r] = lines]
  /\ UNCHANGED invoiced

Invoice(r) ==
  /\ r \in Placed
  /\ invoiced' = invoiced \cup {r}
  /\ UNCHANGED <<stock, orders>>

Next ==
  \E r \in Requests :
    \/ \E lines \in Carts \ {<<>>} : Place(r, lines)
    \/ Invoice(r)

Spec == Init /\ [][Next]_absVars
=============================================================================
