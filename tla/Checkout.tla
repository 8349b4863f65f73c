------------------------------ MODULE Checkout ------------------------------
(***************************************************************************)
(* The checkout service (services/checkout): every POST /checkout is a     *)
(* process that looks up its idempotency key, reads the cart from Redis,   *)
(* writes the order in one Postgres transaction, publishes the invoice     *)
(* event to SQS and clears the cart.  Requests run concurrently, in any    *)
(* number of pods; each statement of the transaction is a step, or several *)
(* when it may wait for locks more than once, with the row and unique-     *)
(* index locks Postgres takes at READ COMMITTED.                           *)
(*                                                                         *)
(* Locks are not variables.  A request holds the inventory rows it has     *)
(* updated (Held), the customers row it inserted or updated (HoldsRow) and *)
(* the emails of that row (EmailsHeld), its key (HoldsKey) and a key-share *)
(* lock on its customers row (SharesRow): all derived from its stage.      *)
(***************************************************************************)
EXTENDS CartLines

CONSTANTS
  Requests, Customers, Products, Emails,
  Carts,         \* the contents the cart service can store
  NoCart,        \* the Redis key is absent (never written, cleared, expired)
  NoKey, NoEmail, NoOrder,
  EmptyKey,      \* the key "": not null, so it is stored, but not looked up
  CustomerOf,    \* [Requests -> Customers]: the token's sub
  EmailOf,       \* [Requests -> Emails \cup {NoEmail}]: the token's email
  KeyOf,         \* request.idempotency_key, NoKey when it is null
  InitialStock,
  InitialMirror, \* [Customers -> Emails \cup {NoEmail}]
  MaxAttempts    \* sends the publisher tries (max_attempts)

ASSUME CartsAssumption == \A lines \in Carts : IsCart(lines, Products)
ASSUME NoCartAssumption == NoCart \notin Carts
ASSUME NoOrderAssumption == NoOrder \notin Carts /\ NoOrder \notin Requests
ASSUME RequestsAssumption ==
  /\ CustomerOf \in [Requests -> Customers]
  /\ EmailOf \in [Requests -> Emails \cup {NoEmail}]
  /\ NoEmail \notin Emails
ASSUME StockAssumption == InitialStock \in [Products -> Nat]
ASSUME MirrorAssumption ==
  /\ InitialMirror \in [Customers -> Emails \cup {NoEmail}]
  /\ \A c, d \in Customers :
       c # d /\ InitialMirror[c] = InitialMirror[d] => InitialMirror[c] = NoEmail
ASSUME AttemptsAssumption == MaxAttempts \in Nat \ {0}

VARIABLES
  pc,            \* where each request is in CheckoutService.checkout
  answer,        \* how each request ended
  reply,         \* the order named by a 202 response
  snapshot,      \* the cart the request read
  reserved,      \* how many items of it the transaction has reserved
  upsert,        \* the transaction's write to its customers row
  attempts,      \* SQS sends tried
  cart,          \* Redis: cart:<customer>
  stock,         \* inventory.stock, committed
  mirror,        \* customers.email, committed
  orders,        \* orders + order_items + invoices rows, committed
  sent           \* messages SQS has accepted for each order

local == <<pc, answer, reply, snapshot, reserved, upsert, attempts>>
database == <<stock, mirror, orders>>
vars == <<local, database, cart, sent>>

Stages == {"idle", "lookup", "read", "customer",
           "insert", "email",                        \* INSERT customers
           "reserve",                                \* UPDATE inventory, per line
           "update",                                 \* UPDATE customers ("email" again)
           "order", "share",                         \* INSERT orders
           "commit", "publish", "clear", "done"}

\* What the transaction does to its customers row: nothing, INSERT, UPDATE with
\* a new email, or UPDATE with the email the row has by now; "dirty" as long as
\* the changed object is not flushed.
Upserts == {"none", "insert", "dirty", "update", "same"}

Answers == {"none",
  "accepted", "replayed",               \* 202
  "invalid", "empty", "conflict",       \* 400, 404 / 400, 409
  "integrity", "error", "upstream",     \* 500, 500, 502
  "lost"}                               \* the pod died: no response

TypeOK ==
  /\ pc \in [Requests -> Stages]
  /\ answer \in [Requests -> Answers]
  /\ reply \in [Requests -> Requests \cup {NoOrder}]
  /\ snapshot \in [Requests -> Carts \cup {<<>>}]
  /\ reserved \in [Requests -> Nat]
  /\ upsert \in [Requests -> Upserts]
  /\ attempts \in [Requests -> 0..MaxAttempts]
  /\ cart \in [Customers -> Carts \cup {NoCart}]
  /\ stock \in [Products -> Int]
  /\ mirror \in [Customers -> Emails \cup {NoEmail}]
  /\ orders \in [Requests -> Carts \cup {NoOrder}]
  /\ sent \in [Requests -> 0..MaxAttempts]

Init ==
  /\ pc = [r \in Requests |-> "idle"]
  /\ answer = [r \in Requests |-> "none"]
  /\ reply = [r \in Requests |-> NoOrder]
  /\ snapshot = [r \in Requests |-> <<>>]
  /\ reserved = [r \in Requests |-> 0]
  /\ upsert = [r \in Requests |-> "none"]
  /\ attempts = [r \in Requests |-> 0]
  /\ cart \in [Customers -> Carts \cup {NoCart}]
  /\ stock = InitialStock
  /\ mirror = InitialMirror
  /\ orders = [r \in Requests |-> NoOrder]
  /\ sent = [r \in Requests |-> 0]

Placed == {r \in Requests : orders[r] # NoOrder}
-----------------------------------------------------------------------------
(***************************************************************************)
(* Control: a request moves to its next stage, or ends.  Ending a request  *)
(* whose transaction is open rolls it back: its locks and pending writes   *)
(* go away with snapshot, reserved and upsert, and no row was changed.     *)
(***************************************************************************)
At(r, stage) == pc[r] = stage

Goto(r, stage) == pc' = [pc EXCEPT ![r] = stage]

\* Fault: the session is neither rolled back nor closed, its locks stay.
EndWithoutRollback(r, how, order) ==
  /\ Goto(r, "done")
  /\ answer' = [answer EXCEPT ![r] = how]
  /\ reply' = [reply EXCEPT ![r] = order]
  /\ UNCHANGED <<snapshot, reserved, upsert, attempts>>

End(r, how, order) ==
  /\ Goto(r, "done")
  /\ answer' = [answer EXCEPT ![r] = how]
  /\ reply' = [reply EXCEPT ![r] = order]
  /\ snapshot' = [snapshot EXCEPT ![r] = <<>>]
  /\ reserved' = [reserved EXCEPT ![r] = 0]
  /\ upsert' = [upsert EXCEPT ![r] = "none"]
  /\ attempts' = [attempts EXCEPT ![r] = 0]

\* An exception propagates out of checkout() and out of session_scope.
Abort(r, how) == End(r, how, NoOrder) /\ UNCHANGED <<database, cart, sent>>
-----------------------------------------------------------------------------
(* Locks. *)

\* inventory rows updated by r's open transaction.
Held(r) == {snapshot[r][i].product : i \in 1..reserved[r]}

\* x has written the customers row of c and not committed.
HoldsRow(x, c) == CustomerOf[x] = c /\ upsert[x] \in {"insert", "update", "same"}

\* x has the key-share lock of its order's foreign key on that row.
SharesRow(x, c) == CustomerOf[x] = c /\ At(x, "commit")

\* Entries of the unique index on customers.email that x has taken: the email
\* its row gets, once it is in the index, and the one its row had.
EmailsHeld(x) ==
  (IF upsert[x] \in {"insert", "update"} /\ ~At(x, "email") THEN {EmailOf[x]} ELSE {})
    \cup (IF upsert[x] = "update" THEN {mirror[CustomerOf[x]]} ELSE {})

\* x has the entry of its key in the unique index on orders.idempotency_key.
HoldsKey(x) == KeyOf[x] # NoKey /\ pc[x] \in {"share", "commit"}

\* Fault: customers.email without its unique index.
EmailNeverTaken(r) == FALSE

\* Another customer's committed row has r's email (customers.email is unique).
EmailTaken(r) == \E c \in Customers \ {CustomerOf[r]} : mirror[c] = EmailOf[r]

\* Fault: orders.idempotency_key without its unique index.
KeyNeverTaken(r) == FALSE

\* A committed order has r's key (orders.idempotency_key is unique).
KeyTaken(r) == KeyOf[r] # NoKey /\ \E o \in Placed : KeyOf[o] = KeyOf[r]

\* The customers row has another email than r's token.
EmailDiffers(r) == mirror[CustomerOf[r]] \notin {NoEmail, EmailOf[r]}

\* Fault: a SELECT of the stock and a later write instead of one UPDATE.
NoRowLock(r, x) == FALSE

\* The UPDATE of r's next line finds enough stock but the row is locked by x.
\* (A row whose committed stock is too low does not match and is not waited for.)
WaitsForStock(r, x) ==
  /\ At(r, "reserve") /\ x # r
  /\ LET line == snapshot[r][reserved[r] + 1]
     IN  line.product \in Held(x) /\ stock[line.product] >= line.quantity

\* The INSERT of r's customers row waits for x's row with the same primary key,
\* its UPDATE for x's version and, if the email is a new one, for x's share.
WaitsForRow(r, x) ==
  /\ pc[r] \in {"insert", "update"} /\ x # r
  /\ \/ HoldsRow(x, CustomerOf[r])
     \/ At(r, "update") /\ EmailDiffers(r) /\ SharesRow(x, CustomerOf[r])

\* The index entry of r's email waits for x's.
WaitsForEmail(r, x) == At(r, "email") /\ x # r /\ EmailOf[r] \in EmailsHeld(x)

\* The index entry of r's key waits for x's.
WaitsForKey(r, x) == At(r, "order") /\ x # r /\ HoldsKey(x) /\ KeyOf[x] = KeyOf[r]

\* The foreign key of r's order waits for x's UPDATE with a new email; an UPDATE
\* that leaves the key columns as they are takes a weaker lock.
WaitsForShare(r, x) ==
  At(r, "share") /\ x # r /\ HoldsRow(x, CustomerOf[r]) /\ upsert[x] = "update"

WaitsFor(r, x) ==
  \/ WaitsForStock(r, x) \/ WaitsForRow(r, x) \/ WaitsForEmail(r, x)
  \/ WaitsForKey(r, x) \/ WaitsForShare(r, x)

Blocked(r) == \E x \in Requests : WaitsFor(r, x)
-----------------------------------------------------------------------------
(* The steps of CheckoutService.checkout. *)

\* The route rejects a token without email.
Arrive(r) ==
  /\ At(r, "idle")
  /\ IF EmailOf[r] = NoEmail
       THEN Abort(r, "invalid")
       ELSE /\ Goto(r, IF KeyOf[r] \in {NoKey, EmptyKey} THEN "read" ELSE "lookup")
            /\ UNCHANGED <<answer, reply, snapshot, reserved, upsert, attempts,
                           database, cart, sent>>

\* Orders find_by_idempotency_key matches: same customer and same key.
OrdersWithKeyOf(r) ==
  {o \in Placed : CustomerOf[o] = CustomerOf[r] /\ KeyOf[o] = KeyOf[r]}

\* A hit is answered as it is: nothing is published, the cart is left alone.
Lookup(r) ==
  /\ At(r, "lookup")
  /\ \/ \E o \in OrdersWithKeyOf(r) :
          End(r, "replayed", o) /\ UNCHANGED <<database, cart, sent>>
     \/ /\ OrdersWithKeyOf(r) = {}
        /\ Goto(r, "read")
        /\ UNCHANGED <<answer, reply, snapshot, reserved, upsert, attempts,
                       database, cart, sent>>

\* read_for_checkout.  Which stored carts Cart(**data) refuses is left open.
ReadCart(r) ==
  LET contents == cart[CustomerOf[r]]
  IN  /\ At(r, "read")
      /\ \/ contents \in {NoCart, <<>>} /\ Abort(r, "empty")
         \/ contents # NoCart /\ Abort(r, "invalid")
         \/ /\ contents \notin {NoCart, <<>>}
            /\ snapshot' = [snapshot EXCEPT ![r] = contents]
            /\ Goto(r, "customer")
            /\ UNCHANGED <<answer, reply, reserved, upsert, attempts,
                           database, cart, sent>>

\* ensure_customer: session.get, and the choice it leads to.  A changed email
\* only marks the object dirty: it is written by the flush of the order.
GetCustomer(r) ==
  LET email == mirror[CustomerOf[r]]
  IN  /\ At(r, "customer")
      /\ Goto(r, IF email = NoEmail THEN "insert" ELSE "reserve")
      /\ upsert' = [upsert EXCEPT ![r] = IF EmailDiffers(r) THEN "dirty" ELSE "none"]
      /\ UNCHANGED <<answer, reply, snapshot, reserved, attempts, database, cart, sent>>

\* The transaction goes on to its next stage with this upsert.
Write(r, how, stage) ==
  /\ upsert' = [upsert EXCEPT ![r] = how]
  /\ Goto(r, stage)
  /\ UNCHANGED <<answer, reply, snapshot, reserved, attempts, database, cart, sent>>

\* ensure_customer: INSERT of the row that session.get did not find.
InsertCustomer(r) ==
  /\ At(r, "insert") /\ ~Blocked(r)
  /\ IF mirror[CustomerOf[r]] # NoEmail
       THEN Abort(r, "integrity")
       ELSE Write(r, "insert", "email")

\* Its entry in the unique index on the email, and that of an UPDATE.
IndexEmail(r) ==
  /\ At(r, "email") /\ ~Blocked(r)
  /\ IF EmailTaken(r)
       THEN Abort(r, "integrity")
       ELSE Write(r, upsert[r], IF upsert[r] = "insert" THEN "reserve" ELSE "order")

\* reserve_inventory, one UPDATE ... WHERE stock >= quantity per line, in cart
\* order; an UPDATE that matches no row is a 409.  A second line of a product
\* finds the row as the first one left it.
Reserve(r) ==
  /\ At(r, "reserve") /\ ~Blocked(r)
  /\ LET line == snapshot[r][reserved[r] + 1]
         left == stock[line.product] - UnitsUpTo(snapshot[r], reserved[r], line.product)
     IN  IF left < line.quantity
           THEN Abort(r, "conflict")
           ELSE /\ reserved' = [reserved EXCEPT ![r] = @ + 1]
                /\ Goto(r, IF reserved[r] + 1 < Len(snapshot[r]) THEN "reserve"
                           ELSE IF upsert[r] = "dirty" THEN "update" ELSE "order")
                /\ UNCHANGED <<answer, reply, snapshot, upsert, attempts,
                               database, cart, sent>>

\* Fault: every UPDATE of a customers row takes the lock of a new email.
UpdateAsNewEmail(r) ==
  /\ At(r, "update") /\ ~Blocked(r)
  /\ IF EmailDiffers(r) THEN Write(r, "update", "email") ELSE Write(r, "update", "order")

\* create_order's flush: UPDATE of the changed customer, which comes before the
\* rows that refer to it.  Another checkout may have stored the email meanwhile.
UpdateCustomer(r) ==
  /\ At(r, "update") /\ ~Blocked(r)
  /\ IF EmailDiffers(r) THEN Write(r, "update", "email") ELSE Write(r, "same", "order")

\* INSERT of the order's row, with its key.
InsertOrder(r) ==
  /\ At(r, "order") /\ ~Blocked(r)
  /\ IF KeyTaken(r) THEN Abort(r, "integrity") ELSE Write(r, upsert[r], "share")

\* The row's foreign key, and the INSERTs of its items and its invoice, which
\* wait for nobody.
ShareCustomer(r) ==
  /\ At(r, "share") /\ ~Blocked(r)
  /\ Write(r, upsert[r], "commit")

\* Fault: one unit per line is taken from the stock, whatever the quantity.
CommitOneUnitPerLine(r) ==
  /\ stock' = [p \in Products |->
                 stock[p] - (IF p \in ProductsOf(snapshot[r]) THEN 1 ELSE 0)]
  /\ orders' = [orders EXCEPT ![r] = snapshot[r]]
  /\ mirror' = IF upsert[r] \in {"insert", "update"}
                 THEN [mirror EXCEPT ![CustomerOf[r]] = EmailOf[r]] ELSE mirror

\* The rows the transaction wrote become visible, all of them together.
CommitRows(r) ==
  /\ stock' = [p \in Products |-> stock[p] - Total(snapshot[r], p)]
  /\ orders' = [orders EXCEPT ![r] = snapshot[r]]
  /\ mirror' = IF upsert[r] \in {"insert", "update"}
                 THEN [mirror EXCEPT ![CustomerOf[r]] = EmailOf[r]] ELSE mirror

\* Fault: the cart is cleared with the commit, before the invoice is queued.
CommitClearsCart(r) ==
  /\ At(r, "commit")
  /\ CommitRows(r)
  /\ Goto(r, "publish")
  /\ cart' = [cart EXCEPT ![CustomerOf[r]] = NoCart]
  /\ snapshot' = [snapshot EXCEPT ![r] = <<>>]
  /\ reserved' = [reserved EXCEPT ![r] = 0]
  /\ upsert' = [upsert EXCEPT ![r] = "none"]
  /\ UNCHANGED <<answer, reply, attempts, sent>>

Commit(r) ==
  /\ At(r, "commit")
  /\ CommitRows(r)
  /\ Goto(r, "publish")
  /\ snapshot' = [snapshot EXCEPT ![r] = <<>>]
  /\ reserved' = [reserved EXCEPT ![r] = 0]
  /\ upsert' = [upsert EXCEPT ![r] = "none"]
  /\ UNCHANGED <<answer, reply, attempts, cart, sent>>

\* Fault: stock and order are two transactions and the second one is lost.
CommitStockOnly(r) ==
  /\ At(r, "commit")
  /\ stock' = [p \in Products |-> stock[p] - Total(snapshot[r], p)]
  /\ End(r, "error", NoOrder)
  /\ UNCHANGED <<orders, mirror, cart, sent>>

\* The server commits but the connection breaks before it says so: the
\* service sees an exception and answers 500 for an order that exists.
CommitUnacknowledged(r) ==
  /\ At(r, "commit")
  /\ CommitRows(r)
  /\ End(r, "error", NoOrder)
  /\ UNCHANGED <<cart, sent>>

\* AwsSqsPublisher.publish: one send_message per step.
SendSucceeds(r) ==
  /\ At(r, "publish")
  /\ sent' = [sent EXCEPT ![r] = @ + 1]
  /\ attempts' = [attempts EXCEPT ![r] = @ + 1]
  /\ Goto(r, "clear")
  /\ UNCHANGED <<answer, reply, snapshot, reserved, upsert, database, cart>>

\* Fault: range(1, max_attempts) becomes one iteration too long.
SendOnceMore(r) ==
  /\ At(r, "publish")
  /\ \E accepted \in {0, 1} : sent' = [sent EXCEPT ![r] = @ + accepted]
  /\ IF attempts[r] = MaxAttempts
       THEN End(r, "upstream", NoOrder)
       ELSE /\ attempts' = [attempts EXCEPT ![r] = @ + 1]
            /\ UNCHANGED <<pc, answer, reply, snapshot, reserved, upsert>>
  /\ UNCHANGED <<database, cart>>

\* Fault: the last failure is logged and swallowed.
SendFailureSwallowed(r) ==
  /\ At(r, "publish")
  /\ \E accepted \in {0, 1} : sent' = [sent EXCEPT ![r] = @ + accepted]
  /\ attempts' = [attempts EXCEPT ![r] = @ + 1]
  /\ IF attempts[r] + 1 = MaxAttempts THEN Goto(r, "clear") ELSE UNCHANGED pc
  /\ UNCHANGED <<answer, reply, snapshot, reserved, upsert, database, cart>>

\* The send raises, whether or not SQS accepted the message.  The last failed
\* attempt becomes a 502; the order stays, the cart is not cleared.
SendRaises(r) ==
  /\ At(r, "publish")
  /\ \E accepted \in {0, 1} : sent' = [sent EXCEPT ![r] = @ + accepted]
  /\ IF attempts[r] + 1 = MaxAttempts
       THEN End(r, "upstream", NoOrder)
       ELSE /\ attempts' = [attempts EXCEPT ![r] = @ + 1]
            /\ UNCHANGED <<pc, answer, reply, snapshot, reserved, upsert>>
  /\ UNCHANGED <<database, cart>>

\* CartReader.clear, and the 202.
ClearCart(r) ==
  /\ At(r, "clear")
  /\ cart' = [cart EXCEPT ![CustomerOf[r]] = NoCart]
  /\ End(r, "accepted", r)
  /\ UNCHANGED <<database, sent>>

\* Redis deletes the key, but its answer is lost or the pod dies before the 202.
ClearUnacknowledged(r) ==
  /\ At(r, "clear")
  /\ cart' = [cart EXCEPT ![CustomerOf[r]] = NoCart]
  /\ \E how \in {"error", "lost"} : End(r, how, NoOrder)
  /\ UNCHANGED <<database, sent>>
-----------------------------------------------------------------------------
(* What the environment does to a request. *)

\* Requests that wait for each other in a cycle; Postgres aborts one of them.
Deadlocked(r) ==
  \E cycle \in SUBSET Requests :
    /\ r \in cycle
    /\ \A x \in cycle : /\ \E y \in cycle : WaitsFor(x, y)
                        /\ \E y \in cycle : WaitsFor(y, x)

DeadlockVictim(r) == Deadlocked(r) /\ Abort(r, "error")

\* A statement or a Redis call raises (connection lost, timeout).
Fail(r) ==
  /\ pc[r] \in Stages \ {"idle", "publish", "done"}
  /\ Abort(r, "error")

\* The pod dies; Postgres rolls back whatever transaction it had open.
Crash(r) == pc[r] \notin {"idle", "done"} /\ Abort(r, "lost")

\* The cart service saves or deletes the cart, or the key expires.
EditCart(c) ==
  /\ \E contents \in Carts \cup {NoCart} : cart' = [cart EXCEPT ![c] = contents]
  /\ UNCHANGED <<local, database, sent>>

Step(r) ==
  \/ Lookup(r) \/ ReadCart(r) \/ GetCustomer(r) \/ InsertCustomer(r) \/ IndexEmail(r)
  \/ Reserve(r) \/ UpdateCustomer(r) \/ InsertOrder(r) \/ ShareCustomer(r) \/ Commit(r)
  \/ SendSucceeds(r) \/ SendRaises(r) \/ ClearCart(r) \/ DeadlockVictim(r)

Next ==
  \/ \E r \in Requests :
       \/ Arrive(r) \/ Step(r) \/ CommitUnacknowledged(r) \/ ClearUnacknowledged(r)
       \/ Fail(r) \/ Crash(r)
  \/ \E c \in Customers : EditCart(c)

Spec == Init /\ [][Next]_vars

\* Pods run every request they have accepted; clients, customers, failures and
\* crashes are under no obligation.
FairSpec == Spec /\ \A r \in Requests : WF_vars(Step(r))
-----------------------------------------------------------------------------
(***************************************************************************)
(* Properties.                                                             *)
(***************************************************************************)
\* The units of p in committed orders, each with its order.
UnitsSold(p) == UNION {{o} \X Units(orders[o], Len(orders[o]), p) : o \in Placed}
Sold(p) == Cardinality(UnitsSold(p))

\* Every unit that left the inventory is in a committed order and the other way
\* round: no half-orders, no lost or double decrement, whatever is rolled back,
\* crashes or commits unseen (reserve_inventory, create_order, session_scope).
StockConserved == \A p \in Products : stock[p] + Sold(p) = InitialStock[p]

\* Concurrent checkouts never sell more than there is, although the commit
\* decrements rows whose stock was compared some statements earlier.
NoOversell == \A p \in Products : stock[p] >= 0

\* An idempotency key names at most one order, although the lookup of the key
\* and the insert that uses it are different transactions.
OneOrderPerKey ==
  \A o1, o2 \in Placed : KeyOf[o1] = KeyOf[o2] /\ KeyOf[o1] # NoKey => o1 = o2

\* The customers mirror never holds one email for two customers, although each
\* checkout writes the email of its own token.
MirrorEmailsUnique ==
  \A c, d \in Customers : mirror[c] = mirror[d] /\ mirror[c] # NoEmail => c = d

\* SQS is told about an order only when the order is committed.
InvoicedOrdersExist == \A r \in Requests : sent[r] > 0 => r \in Placed

\* What the response says is so: a 202 names an order of that customer (made by
\* this request and queued, or made under the same key); a 4xx means no order.
AnswersAreTrue ==
  \A r \in Requests :
    /\ answer[r] = "accepted" => reply[r] = r /\ r \in Placed /\ sent[r] > 0
    /\ answer[r] = "replayed" =>
         /\ reply[r] \in Placed
         /\ CustomerOf[reply[r]] = CustomerOf[r] /\ KeyOf[reply[r]] = KeyOf[r]
    /\ answer[r] \in {"replayed", "invalid", "empty", "conflict", "integrity"} =>
         r \notin Placed

\* Every cycle of waiting checkouts goes through an inventory row or has a member
\* whose token really brings a new email: the key, the customers row and its
\* index are taken in an order that cannot deadlock without one of the two.
DeadlocksNeedStockOrNewEmail ==
  \A cycle \in (SUBSET Requests) \ {{}} :
    (\A x \in cycle : \E y \in cycle : WaitsFor(x, y))
      => \/ \E x, y \in cycle : WaitsForStock(x, y)
         \/ \E x \in cycle : upsert[x] \in {"dirty", "update"} /\ EmailDiffers(x)

\* Checkout deletes a cart only for an order that is committed and queued for
\* invoicing, answered or not: every failure before that leaves the cart.
CartClearedOnlyWhenInvoiced ==
  [][\A r \in Requests : pc'[r] # pc[r] /\ cart' # cart
       => r \in Placed /\ sent[r] > 0]_vars

\* Every accepted request ends, whichever rows it waits for.
EveryRequestEnds == \A r \in Requests : pc[r] # "idle" ~> pc[r] = "done"

\* The service implements OrderPlacement: each order with its stock in one step.
Promise == INSTANCE OrderPlacement WITH invoiced <- {r \in Requests : sent[r] > 0}

ImplementsOrderPlacement == Promise!Spec
=============================================================================
