----------------------------- MODULE WebCheckout -----------------------------
(* The checkout page of customer-web and the order it makes in the gateway.   *)
(* A tab shows items it was given, the customer edits them, fills the form    *)
(* and pays; the page waits, posts the order, clears the cart and goes to     *)
(* the confirmation. The gateway reads the stock, compares, and commits the   *)
(* stock it computed together with the order and the deletion of the cart.    *)
(* Items are lines, of which two may be of one product: the gateway compares  *)
(* and subtracts line by line.                                                *)
(* The stock has another writer, the administrator's product pages: a table   *)
(* with buttons, and a form that writes the stock the table showed.           *)
EXTENDS Integers, FiniteSets

CONSTANTS
  Tabs,
  Customers,
  Owner,       \* the customer who uses a tab
  Products,
  InitStock,
  Lines,       \* the lines a cart or an order may have
  ProductOf,   \* the product of a line
  Slots,       \* as many payments may be under way at a time (bound)
  Carts,       \* the carts considered
  MaxUnits,    \* bound on the units of a line
  MaxVisits,   \* bound on the visits of checkout pages
  TypedStocks, \* the stocks typed into the form
  MaxFaults,   \* bound on lost answers, failed clears and reloads
  Calls,       \* as many calls of the administrator may be under way (bound)
  MaxChanges   \* bound on changes of products

ASSUME CheckoutPageAssumption ==
  /\ Owner \in [Tabs -> Customers]
  /\ InitStock \in [Products -> Nat]
  /\ IsFiniteSet(Lines) /\ ProductOf \in [Lines -> Products] /\ TypedStocks \subseteq Int
  /\ Carts \subseteq [Lines -> 0 .. MaxUnits]
  /\ MaxUnits \in Nat \ {0} /\ MaxVisits \in Nat /\ MaxFaults \in Nat
  /\ MaxChanges \in Nat

VARIABLES
  stock, active,  \* the gateway's products: stock and isActive
  cart,           \* the gateway's cart of each customer
  orders,         \* the gateway's orders
  tab,            \* what each tab shows
  pay,            \* the calls of placeOrder under way
  told,           \* history: what the customer was last told of each visit
  doubtful,       \* history: visits with a lost answer, a failed clear, a reload
  admin,          \* the administrator's page
  call,           \* the calls of its buttons under way
  changes,        \* the number of them so far
  adjusted,       \* history: the units the administrator's changes added to each stock
  touched,        \* history: how often those calls wrote a stock
  overlapped,     \* history: products whose stock was written as of an older one
  faults

vars == <<stock, active, cart, orders, tab, pay, told, doubtful,
          admin, call, changes, adjusted, touched, overlapped, faults>>

\* The units of each line.
Units == [Lines -> 0 .. MaxUnits]
NoUnits == [l \in Lines |-> 0]
OneOf(l) == [NoUnits EXCEPT ![l] = 1]
In(units) == {l \in Lines : units[l] > 0}
\* The products of the lines, and the units of one of them, each with its line.
Of(units) == {ProductOf[l] : l \in In(units)}
UnitsOf(units, p) == {u \in Lines \X (1 .. MaxUnits) : ProductOf[u[1]] = p /\ u[2] <= units[u[1]]}

Visits == 1 .. MaxVisits
\* Every visit of a checkout page has a number, in order of arrival.
Visited == Cardinality({v \in Visits : told[v] # "unvisited"})
OrdersOf(v) == {o \in orders : o.visit = v}
\* The units of p in the orders, each with its order.
OrderedUnits(p) == UNION {{o} \X UnitsOf(o.units, p) : o \in orders}
Ordered(p) == Cardinality(OrderedUnits(p))
\* Some order has two lines of p.
Twice(p) == \E o \in orders : \E l, m \in In(o.units) : l # m /\ ProductOf[l] = p /\ ProductOf[m] = p

\* What a reader of a product knows; the version counts what wrote its stock.
Version(p) == touched[p] + Cardinality({o \in orders : p \in Of(o.units)})
Row(p) == [stock |-> stock[p], active |-> active[p], version |-> Version(p)]
Rows == [p \in Products |-> Row(p)]
Unseen == [stock |-> 0, active |-> FALSE, version |-> 0]

Idle == [stage |-> "idle"]
Underway == {s \in Slots : pay[s].stage # "idle"}
Elsewhere(page) == [page |-> page, visit |-> 0, given |-> NoUnits, items |-> NoUnits,
                    filled |-> FALSE, paying |-> FALSE]

Init ==
  /\ stock = InitStock
  /\ active = [p \in Products |-> InitStock[p] > 0]
  /\ cart = [c \in Customers |-> NoUnits]
  /\ orders = {}
  /\ tab = [t \in Tabs |-> Elsewhere("shop")]
  /\ pay = [s \in Slots |-> Idle]
  /\ told = [v \in Visits |-> "unvisited"]
  /\ doubtful = {}
  /\ admin = [page |-> "away"] /\ call = [a \in Calls |-> Idle] /\ changes = 0
  /\ adjusted = [p \in Products |-> 0] /\ touched = [p \in Products |-> 0]
  /\ overlapped = {}
  /\ faults = 0

Gateway == <<stock, active, cart, orders, adjusted, touched, overlapped>>
Admin == <<admin, call, changes>>

------------------------------------------------------------------------------
(* The page                                                                   *)

\* Whatever WebCart does.
CartChanges(c) ==
  /\ \E units \in Carts : cart' = [cart EXCEPT ![c] = units]
  /\ UNCHANGED <<stock, active, orders, tab, pay, told, doubtful, Admin, adjusted, touched, overlapped, faults>>

\* "Checkout" of the cart page, "Buy Now" of a product page. An empty list of
\* items is a list: the page shows it.
Given(t) == {cart[Owner[t]]} \union {OneOf(l) : l \in Lines}

GoToCheckout(t) ==
  /\ tab[t].page # "checkout" /\ Visited < MaxVisits
  /\ LET v == Visited + 1 IN
     /\ told' = [told EXCEPT ![v] = "nothing"]
     /\ \E units \in Given(t) :
          tab' = [tab EXCEPT ![t] = [page |-> "checkout", visit |-> v, given |-> units,
                                     items |-> units, filled |-> FALSE, paying |-> FALSE]]
  /\ UNCHANGED <<Gateway, Admin, pay, doubtful, faults>>

\* A link, the page without items in its location's state, or the login because
\* GET /users/me failed, which pulls the customer away from wherever he is by then.
Leave(t) ==
  /\ tab[t].page # "shop"
  /\ tab' = [tab EXCEPT ![t] = Elsewhere("shop")]
  /\ UNCHANGED <<Gateway, Admin, pay, told, doubtful, faults>>

\* Plus, minus and the bin of a line of the page; a line cannot come back.
Edited(items, l) ==
  {[items EXCEPT ![l] = q] : q \in {items[l] + 1, items[l] - 1, 0}} \intersect Units
EditItems(t) ==
  /\ tab[t].page = "checkout"
  /\ \E l \in In(tab[t].items) : \E units \in Edited(tab[t].items, l) :
       tab' = [tab EXCEPT ![t].items = units]
  /\ UNCHANGED <<Gateway, Admin, pay, told, doubtful, faults>>

\* Name, address and phone; an order needs the last two.
FillForm(t) ==
  /\ tab[t].page = "checkout" /\ ~tab[t].filled
  /\ tab' = [tab EXCEPT ![t].filled = TRUE]
  /\ UNCHANGED <<Gateway, Admin, pay, told, doubtful, faults>>

\* Fault: the button stays enabled and placeOrder does not look at isPaying.
MayPayTwice(t) == tab[t].page = "checkout" /\ tab[t].filled
\* The form is filled and no payment of the page is under way.
MayPay(t) == tab[t].page = "checkout" /\ tab[t].filled /\ ~tab[t].paying

\* "Pay & Place Order": the items are copied, the simulated payment begins.
PlaceOrder(t) ==
  /\ MayPay(t)
  /\ \E s \in Slots \ Underway :
       pay' = [pay EXCEPT ![s] = [stage |-> "paying", tab |-> t, visit |-> tab[t].visit, alive |-> TRUE,
                                  units |-> tab[t].items, saw |-> <<>>]]
  /\ tab' = [tab EXCEPT ![t].paying = TRUE]
  /\ told' = [told EXCEPT ![tab[t].visit] = "nothing"]
  /\ UNCHANGED <<Gateway, Admin, doubtful, faults>>

\* 1.2 s later, wherever the tab is by then.
PostOrder(s) ==
  /\ pay[s].stage = "paying" /\ pay[s].alive
  /\ pay' = [pay EXCEPT ![s].stage = "sent"]
  /\ UNCHANGED <<Gateway, Admin, tab, told, doubtful, faults>>

\* The browser keeps the items the page was opened with, not the rest.
Reload(t) ==
  LET mine == {s \in Underway : pay[s].tab = t} IN
  /\ tab[t].page = "checkout" /\ faults < MaxFaults
  /\ faults' = faults + 1
  /\ tab' = [tab EXCEPT ![t].items = tab[t].given, ![t].filled = FALSE, ![t].paying = FALSE]
  /\ pay' = [s \in Slots |-> IF s \notin mine THEN pay[s]
                             ELSE IF pay[s].stage = "paying" THEN Idle ELSE [pay[s] EXCEPT !.alive = FALSE]]
  /\ doubtful' = doubtful \union {pay[s].visit : s \in mine}
  /\ UNCHANGED <<Gateway, Admin, told>>

------------------------------------------------------------------------------
(* The gateway                                                                *)

\* The gateway is done with a payment.
Done(s, stage) == [stage |-> stage, tab |-> pay[s].tab, visit |-> pay[s].visit, alive |-> pay[s].alive]

CustomerOf(s) == Owner[pay[s].tab]
\* An order without items is an order of the cart.
Resolved(s) == IF In(pay[s].units) = {} THEN cart[CustomerOf(s)] ELSE pay[s].units

\* The product of every line is active, and there is enough of it for that line.
Enough(units) == \A l \in In(units) : active[ProductOf[l]] /\ stock[ProductOf[l]] >= units[l]

\* create_order reads the products and compares.
ReadStock(s) ==
  LET units == Resolved(s) IN
  /\ pay[s].stage = "sent"
  /\ pay' = IF In(units) = {} \/ ~Enough(units) THEN [pay EXCEPT ![s] = Done(s, "refused")]
            ELSE [pay EXCEPT ![s].stage = "read", ![s].units = units, ![s].saw = Rows]
  /\ UNCHANGED <<Gateway, Admin, tab, told, doubtful, faults>>

\* A stock that is computed is not negative: one that would be is nought.
NotBelowZero(n) == IF n > 0 THEN n ELSE 0
\* The stock after the order's lines of p, as far as the reader knows.
Left(s, p) == NotBelowZero(pay[s].saw[p].stock - Cardinality(UnitsOf(pay[s].units, p)))

\* create_order commits the stock it computed from what it read, the order, and
\* the deletion of the customer's cart.
CommitOrder(s) ==
  LET units == pay[s].units IN
  /\ pay[s].stage = "read"
  /\ stock' = [p \in Products |-> IF p \in Of(units) THEN Left(s, p) ELSE stock[p]]
  /\ active' = [p \in Products |-> active[p] /\ ~(p \in Of(units) /\ Left(s, p) = 0)]
  /\ orders' = orders \union {[id |-> Cardinality(orders) + 1, visit |-> pay[s].visit,
                               units |-> units]}
  /\ cart' = [cart EXCEPT ![CustomerOf(s)] = NoUnits]
  /\ overlapped' = overlapped \union {p \in Of(units) : pay[s].saw[p].version # Version(p)}
  /\ pay' = [pay EXCEPT ![s] = Done(s, "made")]
  /\ UNCHANGED <<tab, told, doubtful, Admin, adjusted, touched, faults>>

\* An expired session, an outage: nothing is done, and the answer says so.
Refuse(s) ==
  /\ pay[s].stage = "sent"
  /\ pay' = [pay EXCEPT ![s] = Done(s, "refused")]
  /\ UNCHANGED <<Gateway, Admin, tab, told, doubtful, faults>>

\* The order is made and its answer lost, or the cart is not cleared.
AnswerLost(s) ==
  /\ pay[s].stage = "made" /\ faults < MaxFaults
  /\ pay' = [pay EXCEPT ![s].stage = "failed"]
  /\ doubtful' = doubtful \union {pay[s].visit}
  /\ faults' = faults + 1
  /\ UNCHANGED <<Gateway, Admin, tab, told>>

\* clearCart: the cart may have been filled again in the meantime; after a 401
\* it is the guest cart that goes.
ClearCart(s) ==
  /\ pay[s].stage = "made" /\ pay[s].alive
  /\ pay' = [pay EXCEPT ![s].stage = "cleared"]
  /\ \/ cart' = [cart EXCEPT ![CustomerOf(s)] = NoUnits]
     \/ UNCHANGED cart
  /\ UNCHANGED <<stock, active, orders, tab, told, doubtful, Admin, adjusted, touched, overlapped, faults>>

------------------------------------------------------------------------------
(* The end of placeOrder                                                      *)

Here(s) == tab[pay[s].tab].page = "checkout" /\ tab[pay[s].tab].visit = pay[s].visit

\* The confirmation is shown even if the customer has left the page.
Confirm(s) ==
  /\ pay[s].stage = "cleared" /\ pay[s].alive
  /\ tab' = [tab EXCEPT ![pay[s].tab] = Elsewhere("confirmation")]
  /\ told' = [told EXCEPT ![pay[s].visit] = "placed"]
  /\ pay' = [pay EXCEPT ![s] = Idle]
  /\ UNCHANGED <<Gateway, Admin, doubtful, faults>>

\* Fault: isPaying is reset on success only.
EnabledAgainNever(t) == tab
\* The button is enabled again.
EnabledAgain(t) == [tab EXCEPT ![t].paying = FALSE]

ReportFailure(s) ==
  /\ pay[s].stage \in {"refused", "failed"} /\ pay[s].alive
  /\ tab' = IF Here(s) THEN EnabledAgain(pay[s].tab) ELSE tab
  /\ told' = [told EXCEPT ![pay[s].visit] = "failed"]
  /\ pay' = [pay EXCEPT ![s] = Idle]
  /\ UNCHANGED <<Gateway, Admin, doubtful, faults>>

\* Nobody waits for the answer any more.
Forgotten(s) ==
  /\ pay[s].stage \in {"made", "cleared", "refused", "failed"} /\ ~pay[s].alive
  /\ pay' = [pay EXCEPT ![s] = Idle]
  /\ UNCHANGED <<Gateway, Admin, tab, told, doubtful, faults>>

------------------------------------------------------------------------------
(* The administrator's products                                               *)

Shop == <<cart, orders, tab, pay, told, doubtful>>
\* A page that is left does not hear of its calls any more; what is left of a
\* call that was answered is who waits for it.
Unheard == [a \in Calls |-> IF call[a].stage = "idle" THEN Idle ELSE [call[a] EXCEPT !.here = FALSE]]
AnsweredTo(a, stage) == [call EXCEPT ![a] = [stage |-> stage, kind |-> @.kind, here |-> @.here]]

\* The table is read once it is opened; the spinner of a read that fails stays.
OpenProducts ==
  /\ admin.page \notin {"loading", "table"}
  /\ admin' = [page |-> "loading"] /\ call' = Unheard
  /\ UNCHANGED <<Gateway, Shop, changes, faults>>

ListProducts ==
  /\ admin.page = "loading"
  /\ admin' = [page |-> "table", rows |-> Rows]
  /\ UNCHANGED <<Gateway, Shop, call, changes, faults>>

LeaveProducts ==
  /\ admin.page # "away"
  /\ admin' = [page |-> "away"] /\ call' = Unheard
  /\ UNCHANGED <<Gateway, Shop, changes, faults>>

\* The form shows the row of the table, not the product as it is.
EditProduct(p) ==
  /\ admin.page = "table"
  /\ admin' = [page |-> "form", product |-> p, listed |-> admin.rows[p]] /\ call' = Unheard
  /\ UNCHANGED <<Gateway, Shop, changes, faults>>

Send(kind, p, typed, listed) ==
  /\ changes < MaxChanges /\ changes' = changes + 1
  /\ \E a \in Calls :
       /\ call[a].stage = "idle"
       /\ call' = [call EXCEPT ![a] = [stage |-> "sent", kind |-> kind, product |-> p, here |-> TRUE,
                                      typed |-> typed, listed |-> listed, saw |-> Unseen]]
  /\ UNCHANGED <<Gateway, Shop, faults>>

\* "+1 Stock", "-1 Stock" and the bin of a row, which stay enabled.
ClickProduct(p) ==
  /\ admin.page = "table"
  /\ \E kind \in {"plus", "minus", "disable"} : Send(kind, p, Unseen, Unseen)
  /\ UNCHANGED admin

\* "Update Product", with the stock listed or another integer, negative or not, that
\* was typed; the button is disabled until the answer.
SubmitProduct ==
  /\ admin.page = "form"
  /\ \E n \in {admin.listed.stock} \union TypedStocks, on \in BOOLEAN :
       Send("update", admin.product, [admin.listed EXCEPT !.stock = n, !.active = on], admin.listed)
  /\ admin' = [admin EXCEPT !.page = "sending"]

\* adjust_stock, delete_product and update_product read the product...
ReadProduct(a) ==
  /\ call[a].stage = "sent"
  /\ call' = [call EXCEPT ![a].stage = "read", ![a].saw = Row(call[a].product)]
  /\ UNCHANGED <<Gateway, Shop, admin, changes, faults>>

\* ... and compute what it becomes.
Adjusted(a) ==
  LET c == call[a] IN
  CASE c.kind = "plus" -> [c.saw EXCEPT !.stock = NotBelowZero(@ + 1)]
    [] c.kind = "minus" -> [c.saw EXCEPT !.stock = NotBelowZero(@ - 1)]
    [] c.kind = "disable" -> [c.saw EXCEPT !.active = FALSE]
    [] c.kind = "update" -> c.typed
\* The units the change adds: to the stock the form showed, or to the stock that was read.
Meant(a) ==
  Adjusted(a).stock - (IF call[a].kind = "update" THEN call[a].listed ELSE call[a].saw).stock

\* Fault: the whole row is written.
WrittenAll(a) == {"stock", "active"}
\* Only the columns that differ from what was read are written.
Written(a) == {column \in {"stock", "active"} : Adjusted(a)[column] # call[a].saw[column]}

CommitProduct(a) ==
  LET p == call[a].product
      saw == call[a].saw
      row == Adjusted(a)
      counts == row.stock # saw.stock \/ Meant(a) # 0
      read == {saw} \union (IF call[a].kind = "update" THEN {call[a].listed} ELSE {})
  IN
  /\ call[a].stage = "read"
  /\ stock' = IF "stock" \in Written(a) THEN [stock EXCEPT ![p] = row.stock] ELSE stock
  /\ active' = IF "active" \in Written(a) THEN [active EXCEPT ![p] = row.active] ELSE active
  /\ adjusted' = [adjusted EXCEPT ![p] = @ + Meant(a)]
  /\ touched' = IF counts THEN [touched EXCEPT ![p] = @ + 1] ELSE touched
  /\ overlapped' = IF counts /\ \E x \in read : x.version # Version(p) THEN overlapped \union {p} ELSE overlapped
  /\ call' = AnsweredTo(a, "done")
  /\ UNCHANGED <<cart, orders, tab, pay, told, doubtful, admin, changes, faults>>

\* Nothing is done, or what was done is not answered.
ChangeFails(a) ==
  /\ call[a].stage \in {"sent", "done"}
  /\ call' = AnsweredTo(a, "failed")
  /\ UNCHANGED <<Gateway, Shop, admin, changes, faults>>

\* Fault: the form that failed is shown wherever the administrator is.
ResubmitsAnywhere(a) == call[a].stage = "failed" /\ call[a].kind = "update"
\* A form that failed and is still there can be submitted again.
Resubmits(a) == call[a].stage = "failed" /\ call[a].kind = "update" /\ call[a].here

\* The table is read again; the form gives way to the table wherever the
\* administrator is, or can be submitted again.
FinishChange(a) ==
  LET c == call[a]
      leaves == c.kind = "update" /\ admin.page \notin {"loading", "table"}
      rereads == c.kind # "update" /\ c.here
  IN
  /\ c.stage \in {"done", "failed"}
  /\ admin' = CASE c.stage = "done" /\ (leaves \/ rereads) -> [page |-> "loading"]
                [] Resubmits(a) -> [admin EXCEPT !.page = "form"]
                [] OTHER -> admin
  /\ call' = [(IF c.stage = "done" /\ leaves THEN Unheard ELSE call) EXCEPT ![a] = Idle]
  /\ UNCHANGED <<Gateway, Shop, changes, faults>>

------------------------------------------------------------------------------
Progress(s) ==
  \/ PostOrder(s) \/ ReadStock(s) \/ CommitOrder(s) \/ ClearCart(s)
  \/ Confirm(s) \/ ReportFailure(s) \/ Forgotten(s)

Next ==
  \/ \E c \in Customers : CartChanges(c)
  \/ \E t \in Tabs : \/ GoToCheckout(t) \/ Leave(t) \/ EditItems(t)
                     \/ FillForm(t) \/ PlaceOrder(t) \/ Reload(t)
  \/ \E s \in Slots : Progress(s) \/ Refuse(s) \/ AnswerLost(s)
  \/ OpenProducts \/ ListProducts \/ LeaveProducts \/ SubmitProduct
  \/ \E p \in Products : EditProduct(p) \/ ClickProduct(p)
  \/ \E a \in Calls : ReadProduct(a) \/ CommitProduct(a) \/ ChangeFails(a) \/ FinishChange(a)

Spec == Init /\ [][Next]_vars
\* The gateway answers, and the browser runs what an answer continues.
FairSpec == Spec /\ \A s \in Slots : WF_vars(Progress(s))

------------------------------------------------------------------------------
\* A row as it was read, and the administrator's page with what it shows.
ProductRows == [stock: Int, active: BOOLEAN, version: Nat]
TableRows == [Products -> ProductRows]
AdminPages ==
  [page: {"away", "loading"}] \union [page: {"table"}, rows: TableRows] \union
  [page: {"form", "sending"}, product: Products, listed: ProductRows]

\* Every variable has its type: a stock is an integer, as the form takes negative
\* ones, and a page shows what it has, whichever calls end on it (updateProductPage,
\* ProductIn, create_order).
TypeOK ==
  /\ stock \in [Products -> Int] /\ active \in [Products -> BOOLEAN]
  /\ cart \in [Customers -> Units]
  /\ \A o \in orders : o.id \in 1 .. Cardinality(orders) /\ o.visit \in Visits /\ o.units \in Units
  /\ \A t \in Tabs : tab[t] \in [page: {"shop", "checkout", "confirmation"}, visit: 0 .. MaxVisits,
                                 given: Units, items: Units, filled: BOOLEAN, paying: BOOLEAN]
  /\ \A s \in Slots : pay[s].stage \in {"idle", "paying", "sent", "read", "refused", "made", "failed", "cleared"}
  /\ told \in [Visits -> {"unvisited", "nothing", "placed", "failed"}]
  /\ doubtful \subseteq Visits /\ overlapped \subseteq Products /\ faults \in 0 .. MaxFaults
  /\ admin \in AdminPages
  /\ \A a \in Calls : call[a].stage \in {"idle", "sent", "read", "done", "failed"}
  /\ adjusted \in [Products -> Int] /\ touched \in [Products -> Nat] /\ changes \in 0 .. MaxChanges

\* What the customer is told of a checkout is so, and it makes one order at most,
\* in spite of second clicks, retries and pages left while paying, unless
\* an answer was lost, the cart was not cleared or the page was reloaded amid the
\* payment: the POST has no idempotency key (placeOrder, create_order).
PaymentsAreToldTruly ==
  \A v \in Visits \ doubtful :
    /\ Cardinality(OrdersOf(v)) <= 1
    /\ told[v] = "failed" => OrdersOf(v) = {}
    /\ told[v] = "placed" => OrdersOf(v) # {}

\* The stock is what it was at first, with what the administrator added and
\* without what was ordered, or more, if an order had two lines of the product,
\* which are compared one by one and whose excess is dropped; but for products of
\* which an order or a change was committed upon a stock that had been written
\* since it was read: by create_order, by adjust_stock, or by the table a form was
\* filled from. Orders by themselves, overlapping or not, sell units again but lose
\* none. Unless the administrator changed something, no stock is negative and
\* nothing sold out is active.
StockMatchesOrders ==
  \A p \in Products :
    LET all == stock[p] + Ordered(p) IN
    /\ p \notin overlapped =>
         /\ all >= InitStock[p] + adjusted[p]
         /\ all = InitStock[p] + adjusted[p] \/ Twice(p)
    /\ touched[p] = 0 => all >= InitStock[p]
    /\ changes = 0 => stock[p] >= 0 /\ (active[p] => stock[p] > 0)

\* A page does not stay at "Processing...": the finally of placeOrder.
EveryPaymentEnds ==
  \A t \in Tabs : tab[t].paying ~> ~tab[t].paying
==============================================================================
