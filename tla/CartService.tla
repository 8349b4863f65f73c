---------------------------- MODULE CartService ----------------------------
(***************************************************************************)
(* The cart service (services/cart): one Redis key per customer holds the  *)
(* whole cart.  A request reads the key, changes the cart in memory        *)
(* (awaiting the catalog for a product that is new in it) and writes the   *)
(* key back; requests of one customer may run in different pods, and       *)
(* checkout deletes the key when an order is placed.  Names, prices and    *)
(* currencies are left out.                                                *)
(***************************************************************************)
EXTENDS CartLines

CONSTANTS
  Requests, Customers,
  Products,      \* the product ids that requests name
  CatalogId,     \* [Products -> Products]: the id of the product that the catalog
                 \* answers with when it is asked for one (the id goes into the
                 \* URL as it is, so "p?x" is answered with p)
  CustomerOf,    \* [Requests -> Customers]: the token's sub
  MaxQuantity,   \* settings.max_quantity_per_item
  MaxItems,      \* settings.max_items_per_cart
  ModelMax,      \* the le=99 of the pydantic models
  NoCart,        \* the Redis key is absent
  Overlap,       \* may a customer have two requests under way?
  OthersWrite    \* do checkout and the TTL delete keys?

ASSUME CartAssumption ==
  /\ CustomerOf \in [Requests -> Customers]
  /\ CatalogId \in [Products -> Products]
  /\ \A p \in Products : CatalogId[CatalogId[p]] = CatalogId[p]
  /\ {MaxQuantity, MaxItems, ModelMax} \subseteq Nat \ {0}
  /\ MaxQuantity <= ModelMax
  /\ {Overlap, OthersWrite} \subseteq BOOLEAN
  /\ NoCart \notin Seq([product : Products, quantity : Nat \ {0}])

VARIABLES
  cart,          \* Redis: cart:<customer>
  pc,            \* where each request is
  op,            \* what it asks for
  working,       \* the Cart object in its memory
  answer

vars == <<cart, pc, op, working, answer>>

\* AddItemRequest and UpdateQuantityRequest with their bounds; DELETE of an item
\* and of the cart.
Operations ==
  [kind : {"add"}, product : Products, quantity : 1..ModelMax]
    \cup [kind : {"update"}, product : Products, quantity : 0..ModelMax]
    \cup [kind : {"remove"}, product : Products, quantity : {0}]
    \cup [kind : {"clear"}]

\* What Cart(**data) accepts of the stored JSON.
Readable(lines) == \A i \in DOMAIN lines : lines[i].quantity \in 1..ModelMax

\* CartRepository.get: an absent key and a cart that does not validate are empty.
Load(contents) == IF contents = NoCart \/ ~Readable(contents) THEN <<>> ELSE contents

Init ==
  /\ cart = [c \in Customers |-> NoCart]
  /\ pc = [r \in Requests |-> "idle"]
  /\ op \in [Requests -> Operations]
  /\ working = [r \in Requests |-> <<>>]
  /\ answer = [r \in Requests |-> "none"]

At(r, stage) == pc[r] = stage
Goto(r, stage) == pc' = [pc EXCEPT ![r] = stage]

End(r, how) ==
  /\ Goto(r, "done")
  /\ answer' = [answer EXCEPT ![r] = how]
  /\ working' = [working EXCEPT ![r] = <<>>]
  /\ UNCHANGED op

\* The cart as the request holds it now, and what it does next.
Work(r, lines, stage) ==
  /\ working' = [working EXCEPT ![r] = lines]
  /\ Goto(r, stage)
  /\ UNCHANGED <<op, answer>>

UnderWay(c) == {r \in Requests : CustomerOf[r] = c /\ pc[r] \notin {"idle", "done"}}
-----------------------------------------------------------------------------
Arrive(r) ==
  /\ At(r, "idle")
  /\ Overlap \/ UnderWay(CustomerOf[r]) = {}
  /\ Goto(r, IF op[r].kind = "clear" THEN "delete" ELSE "get")
  /\ UNCHANGED <<cart, op, working, answer>>

\* Fault: the limit on the number of lines is compared with >.
GetForAddOneTooMany(r) ==
  LET lines == Load(cart[CustomerOf[r]])
      p == op[r].product
      known == p \in ProductsOf(lines)
      quantity == Quantity(lines, p) + op[r].quantity
  IN  /\ At(r, "get") /\ op[r].kind = "add"
      /\ \/ known /\ quantity > MaxQuantity /\ End(r, "invalid")
         \/ known /\ quantity <= MaxQuantity /\ Work(r, WithQuantity(lines, p, quantity), "save")
         \/ ~known /\ Len(lines) > MaxItems /\ End(r, "invalid")
         \/ ~known /\ Len(lines) <= MaxItems /\ Work(r, lines, "fetch")
      /\ UNCHANGED cart

\* add_item up to its next await: the quantity limit for a product that is in
\* the cart, the limit on lines for one that is not.
GetForAdd(r) ==
  LET lines == Load(cart[CustomerOf[r]])
      p == op[r].product
      known == p \in ProductsOf(lines)
      quantity == Quantity(lines, p) + op[r].quantity
  IN  /\ At(r, "get") /\ op[r].kind = "add"
      /\ \/ known /\ quantity > MaxQuantity /\ End(r, "invalid")
         \/ known /\ quantity <= MaxQuantity /\ Work(r, WithQuantity(lines, p, quantity), "save")
         \/ ~known /\ Len(lines) >= MaxItems /\ End(r, "invalid")
         \/ ~known /\ Len(lines) < MaxItems /\ Work(r, lines, "fetch")
      /\ UNCHANGED cart

\* fetch_product_for_cart: the catalog has the product, does not have it, has it
\* but not for sale, or cannot say.  The new line is of the product it answers
\* with, whatever lines the cart read before has.
Fetch(r) ==
  /\ At(r, "fetch")
  /\ \/ Work(r, Append(working[r], [product |-> CatalogId[op[r].product],
                                   quantity |-> op[r].quantity]), "save")
     \/ End(r, "missing")
     \/ End(r, "invalid")
     \/ End(r, "upstream")
  /\ UNCHANGED cart

\* update_quantity and remove_item: the product must be in the cart.  A PATCH is
\* not compared with max_quantity_per_item.
GetForChange(r) ==
  LET lines == Load(cart[CustomerOf[r]])
      p == op[r].product
  IN  /\ At(r, "get") /\ op[r].kind \in {"update", "remove"}
      /\ \/ p \notin ProductsOf(lines) /\ End(r, "missing")
         \/ p \in ProductsOf(lines) /\ Work(r, Updated(lines, p, op[r].quantity), "save")
      /\ UNCHANGED cart

\* Fault: the cart is saved under a key that all customers share.
SaveForAll(r) ==
  /\ At(r, "save")
  /\ cart' = [c \in Customers |-> working[r]]
  /\ End(r, "ok")

\* CartRepository.save: SET with the TTL, whatever the key holds by now.
Save(r) ==
  /\ At(r, "save")
  /\ cart' = [cart EXCEPT ![CustomerOf[r]] = working[r]]
  /\ End(r, "ok")

\* clear_cart.
Delete(r) ==
  /\ At(r, "delete")
  /\ cart' = [cart EXCEPT ![CustomerOf[r]] = NoCart]
  /\ End(r, "ok")

\* Fault: a Redis error is logged and swallowed, as the catalog's cache does.
FailSilently(r) ==
  /\ pc[r] \notin {"idle", "done", "fetch"}
  /\ End(r, "ok")
  /\ UNCHANGED cart

\* A Redis call raises; a write may have been applied all the same.
Fail(r) ==
  /\ pc[r] \notin {"idle", "done", "fetch"}
  /\ \/ UNCHANGED cart
     \/ At(r, "save") /\ cart' = [cart EXCEPT ![CustomerOf[r]] = working[r]]
     \/ At(r, "delete") /\ cart' = [cart EXCEPT ![CustomerOf[r]] = NoCart]
  /\ End(r, "error")

\* Checkout's CartReader.clear, or the end of the TTL.
DeletedByOthers(c) ==
  /\ OthersWrite
  /\ cart' = [cart EXCEPT ![c] = NoCart]
  /\ UNCHANGED <<pc, op, working, answer>>

Next ==
  \/ \E r \in Requests :
       \/ Arrive(r) \/ GetForAdd(r) \/ Fetch(r) \/ GetForChange(r)
       \/ Save(r) \/ Delete(r) \/ Fail(r)
  \/ \E c \in Customers : DeletedByOthers(c)

Spec == Init /\ [][Next]_vars
-----------------------------------------------------------------------------
(***************************************************************************)
(* Properties.                                                             *)
(***************************************************************************)

\* The adds of c that have begun and ask the catalog for p.
Adds(c, p) ==
  {r \in Requests : /\ CustomerOf[r] = c /\ pc[r] # "idle"
                    /\ op[r].kind = "add" /\ CatalogId[op[r].product] = p}

\* Whatever requests overlap, the stored cart has at most MaxItems lines and
\* validates when it is read: it is never taken for corrupt and shown as empty.
\* Two lines of one product are there only after an add that named the product
\* by another id: overlapping adds of one id never make them.
StoredCartsAreValid ==
  \A c \in Customers : cart[c] # NoCart =>
    /\ IsCart(cart[c], Products) /\ Len(cart[c]) <= MaxItems /\ Readable(cart[c])
    /\ \A i, j \in DOMAIN cart[c] :
         i # j /\ cart[c][i].product = cart[c][j].product
           => \E r \in Adds(c, cart[c][i].product) : op[r].product # cart[c][i].product

\* The units those adds ask for, one by one, and the quantities that PATCHes of
\* p which have begun ask for.
UnitsAdded(c, p) == UNION {{r} \X (1 .. op[r].quantity) : r \in Adds(c, p)}
UnitsSet(c, p) ==
  {0} \cup {op[r].quantity : r \in {x \in Requests :
              /\ CustomerOf[x] = c /\ pc[x] # "idle"
              /\ op[x].kind = "update" /\ op[x].product = p}}

\* No line of a cart holds more of its product than its own customer asked for:
\* lost updates lose, but nothing is counted twice and nothing leaks between
\* customers.
NothingUnasked ==
  \A c \in Customers : \A i \in DOMAIN Load(cart[c]) :
    LET line == Load(cart[c])[i]
    IN  \E n \in UnitsSet(c, line.product) :
          line.quantity <= Cardinality(UnitsAdded(c, line.product)) + n

\* One request of a customer at a time: the read-modify-write is atomic ("fine for
\* shopping carts (small, single-customer access)", repository.py).
Atomic == INSTANCE AtomicCart WITH lines <- [c \in Customers |-> Load(cart[c])],
                                   outcome <- answer

ImplementsAtomicCart == Atomic!Spec
=============================================================================
