---------------------------- MODULE PaymentProofs ----------------------------
(* Proofs of WebCheckout for any tabs, customers, products, carts, calls and   *)
(* bounds: the types of the state, and that a customer is told truly whether   *)
(* an order was made, of which there is one at most.                           *)
EXTENDS WebCheckout, FiniteSetTheorems, TLAPS

-----------------------------------------------------------------------------
(* The inductive invariant                                                   *)

\* The records of the orders, of the checkout pages and of the calls.
Orders == [id: 1 .. Cardinality(orders), visit: Visits, units: Units]
TabStates ==
  [page: {"shop", "checkout", "confirmation"}, visit: 0 .. MaxVisits, given: Units, items: Units,
   filled: BOOLEAN, paying: BOOLEAN]
Pending ==
  [stage: {"paying", "sent"}, tab: Tabs, visit: Visits, alive: BOOLEAN, units: Units, saw: {<<>>}]
Reading ==
  [stage: {"read"}, tab: Tabs, visit: Visits, alive: BOOLEAN, units: Units, saw: TableRows]
Answered ==
  [stage: {"refused", "made", "failed", "cleared"}, tab: Tabs, visit: Visits, alive: BOOLEAN]
Payments == {Idle} \union Pending \union Reading \union Answered
Kinds == {"plus", "minus", "disable", "update"}
Asked ==
  [stage: {"sent", "read"}, kind: Kinds, product: Products, here: BOOLEAN, typed: ProductRows,
   listed: ProductRows, saw: ProductRows]
Replied == [stage: {"done", "failed"}, kind: Kinds, here: BOOLEAN]
ProductCalls == {Idle} \union Asked \union Replied

GatewayTypes ==
  /\ stock \in [Products -> Int] /\ active \in [Products -> BOOLEAN]
  /\ cart \in [Customers -> Units]
  /\ adjusted \in [Products -> Int] /\ touched \in [Products -> Nat] /\ overlapped \subseteq Products
OrderTypes == IsFiniteSet(orders) /\ orders \subseteq Orders
TabTypes ==
  /\ tab \in [Tabs -> TabStates]
  /\ told \in [Visits -> {"unvisited", "nothing", "placed", "failed"}]
  /\ doubtful \subseteq Visits /\ faults \in 0 .. MaxFaults
\* The lines of a payment that has read the stock are each within what it read.
WithinStock(x) == \A l \in In(x.units) : x.units[l] <= x.saw[ProductOf[l]].stock
PayTypes ==
  /\ pay \in [Slots -> Payments]
  /\ \A s \in Slots : pay[s].stage = "read" => WithinStock(pay[s])
AdminTypes ==
  /\ admin \in AdminPages /\ call \in [Calls -> ProductCalls] /\ changes \in 0 .. MaxChanges

\* A form waits for the answer of one call; the table is there, or read again, as
\* long as one of its buttons is heard of.
Heard ==
  \A a \in Calls : call[a].stage # "idle" /\ call[a].here =>
    /\ call[a].kind # "update" => admin.page \in {"loading", "table"}
    /\ call[a].kind = "update" =>
         /\ admin.page = "sending"
         /\ \A b \in Calls : call[b].stage # "idle" /\ call[b].kind = "update" /\ call[b].here => a = b

\* Visits are numbered as they come.
Numbered == \E n \in 0 .. MaxVisits : \A v \in Visits : told[v] # "unvisited" <=> v <= n

IsAt(t, v) == tab[t].page = "checkout" /\ tab[t].visit = v
PaysFor(s, v) == pay[s].stage # "idle" /\ pay[s].visit = v

\* Tabs, payments and orders are of visits that were made; no two tabs of one.
Visiting ==
  /\ \A t \in Tabs : tab[t].page = "checkout" =>
       /\ tab[t].visit \in Visits /\ told[tab[t].visit] # "unvisited"
       /\ \A u \in Tabs : IsAt(u, tab[t].visit) => t = u
  /\ \A s \in Slots : pay[s].stage # "idle" => told[pay[s].visit] # "unvisited"
  /\ \A o \in orders : told[o.visit] # "unvisited"

\* Of a visit that nothing went wrong with: one payment at a time is under way,
\* its page is busy with it, and there is an order once the payment made one.
OnePayment(v) ==
  \A s \in Slots : PaysFor(s, v) =>
    /\ told[v] = "nothing" /\ pay[s].alive /\ pay[s].stage # "failed"
    /\ \A x \in Slots : PaysFor(x, v) => x = s
    /\ \A t \in Tabs : IsAt(t, v) => tab[t].paying /\ pay[s].tab = t
    /\ pay[s].stage \in {"made", "cleared"} <=> OrdersOf(v) # {}
\* An order is the only one, and the customer is about to be told, or was told.
OneOrder(v) ==
  /\ \A o, q \in OrdersOf(v) : o = q
  /\ OrdersOf(v) # {} => \A t \in Tabs : IsAt(t, v) => \E s \in Slots : PaysFor(s, v)
  /\ told[v] = "failed" => OrdersOf(v) = {}
  /\ told[v] = "placed" => OrdersOf(v) # {}
Paid == \A v \in Visits \ doubtful : OnePayment(v) /\ OneOrder(v)

Types == GatewayTypes /\ OrderTypes /\ TabTypes /\ PayTypes /\ AdminTypes
IInv == Types /\ Heard /\ Numbered /\ Visiting /\ Paid

-----------------------------------------------------------------------------
(* Lemmas                                                                    *)

\* A page that is not the checkout page.
LEMMA ElsewhereState ==
  ASSUME NEW page \in {"shop", "confirmation"}
  PROVE  Elsewhere(page) \in TabStates /\ Elsewhere(page).page = page
<1>1. NoUnits \in Units /\ 0 \in 0 .. MaxVisits
  BY CheckoutPageAssumption DEF CheckoutPageAssumption, NoUnits, Units
<1> QED
  BY <1>1 DEF Elsewhere, TabStates

\* One tab changes.
LEMMA TabSet ==
  ASSUME TabTypes, NEW t \in Tabs, NEW c \in TabStates, tab' = [tab EXCEPT ![t] = c]
  PROVE  /\ tab' \in [Tabs -> TabStates]
         /\ tab'[t] = c /\ \A x \in Tabs \ {t} : tab'[x] = tab[x]
BY DEF TabTypes

\* One payment changes.
LEMMA PaySet ==
  ASSUME PayTypes, NEW s \in Slots, NEW c \in Payments, pay' = [pay EXCEPT ![s] = c]
  PROVE  /\ pay' \in [Slots -> Payments]
         /\ pay'[s] = c /\ \A x \in Slots \ {s} : pay'[x] = pay[x]
BY DEF PayTypes

\* One call of the administrator changes.
LEMMA CallSet ==
  ASSUME AdminTypes, NEW a \in Calls, NEW c \in ProductCalls, call' = [call EXCEPT ![a] = c]
  PROVE  /\ call' \in [Calls -> ProductCalls]
         /\ call'[a] = c /\ \A x \in Calls \ {a} : call'[x] = call[x]
BY DEF AdminTypes

\* A payment is known by its stage.
LEMMA PaymentStages ==
  ASSUME NEW c \in Payments
  PROVE  /\ c.stage = "idle" => c = Idle
         /\ c.stage # "idle" => c.tab \in Tabs /\ c.visit \in Visits /\ c.alive \in BOOLEAN
         /\ c.stage \in {"paying", "sent"} => c \in Pending
         /\ c.stage = "read" => c \in Reading
         /\ c.stage \in {"refused", "made", "failed", "cleared"} => c \in Answered
         /\ c.stage \in {"idle", "paying", "sent", "read", "refused", "made", "failed", "cleared"}
BY DEF Payments, Pending, Reading, Answered, Idle

\* A call of the administrator, too.
LEMMA CallStages ==
  ASSUME NEW c \in ProductCalls
  PROVE  /\ c.stage = "idle" => c = Idle
         /\ c.stage # "idle" => c.kind \in Kinds /\ c.here \in BOOLEAN
         /\ c.stage \in {"sent", "read"} => c \in Asked
         /\ c.stage \in {"done", "failed"} => c \in Replied
         /\ c.stage \in {"idle", "sent", "read", "done", "failed"}
BY DEF ProductCalls, Asked, Replied, Idle

\* What is read of a product is a row.
LEMMA RowsAreRows ==
  ASSUME GatewayTypes, OrderTypes
  PROVE  Rows \in TableRows /\ \A p \in Products : Row(p) \in ProductRows /\ Row(p).stock = stock[p]
<1>1. ASSUME NEW p \in Products
      PROVE  Row(p) \in ProductRows /\ Row(p).stock = stock[p]
  <2>1. {o \in orders : p \in Of(o.units)} \subseteq orders
    OBVIOUS
  <2>2. Cardinality({o \in orders : p \in Of(o.units)}) \in Nat
    BY <2>1, FS_Subset, FS_CardinalityType DEF OrderTypes
  <2>3. Version(p) \in Nat
    BY <2>2 DEF Version, GatewayTypes
  <2> QED
    BY <2>3 DEF Row, ProductRows, GatewayTypes
<1> QED
  BY <1>1 DEF Rows, TableRows

\* The units of a product are finite in number; there are none of a product the
\* lines do not have, and those of one line if it is the only one.
LEMMA UnitsCount ==
  ASSUME NEW units \in Units, NEW p
  PROVE  /\ IsFiniteSet(UnitsOf(units, p)) /\ Cardinality(UnitsOf(units, p)) \in Nat
         /\ p \notin Of(units) => Cardinality(UnitsOf(units, p)) = 0
         /\ \A l \in In(units) :
              /\ ProductOf[l] = p
              /\ \A m \in In(units) : ProductOf[m] = p => m = l
              => Cardinality(UnitsOf(units, p)) = units[l]
<1>1. IsFiniteSet(Lines) /\ MaxUnits \in Nat /\ \A l \in Lines : units[l] \in 0 .. MaxUnits
  BY CheckoutPageAssumption DEF CheckoutPageAssumption, Units
<1>2. IsFiniteSet(Lines \X (1 .. MaxUnits))
  <2>1. PICK T : T = 1 .. MaxUnits
    OBVIOUS
  <2>2. IsFiniteSet(T)
    BY <1>1, <2>1, FS_Interval
  <2>3. IsFiniteSet(Lines) /\ IsFiniteSet(T) => IsFiniteSet(Lines \X T)
    BY FS_Product
  <2> QED
    BY <1>1, <2>1, <2>2, <2>3
<1>3. IsFiniteSet(UnitsOf(units, p)) /\ Cardinality(UnitsOf(units, p)) \in Nat
  <2>1. UnitsOf(units, p) \subseteq Lines \X (1 .. MaxUnits)
    BY DEF UnitsOf
  <2> QED
    BY <1>2, <2>1, FS_Subset, FS_CardinalityType
<1>4. ASSUME p \notin Of(units)
      PROVE  Cardinality(UnitsOf(units, p)) = 0
  <2>1. UnitsOf(units, p) = {}
    BY <1>1, <1>4 DEF UnitsOf, Of, In
  <2> QED
    BY <2>1, FS_EmptySet
<1>5. ASSUME NEW l \in In(units), ProductOf[l] = p, \A m \in In(units) : ProductOf[m] = p => m = l
      PROVE  Cardinality(UnitsOf(units, p)) = units[l]
  <2> DEFINE f == [i \in 1 .. units[l] |-> <<l, i>>]
  <2>1. l \in Lines /\ units[l] \in Nat /\ units[l] <= MaxUnits
    BY <1>1 DEF In
  <2>2. UnitsOf(units, p) = {l} \X (1 .. units[l])
    <3>1. ASSUME NEW u \in UnitsOf(units, p)
          PROVE  u \in {l} \X (1 .. units[l])
      <4>1. u[1] \in Lines /\ u[2] \in 1 .. MaxUnits /\ ProductOf[u[1]] = p /\ u[2] <= units[u[1]]
            /\ u = <<u[1], u[2]>>
        BY DEF UnitsOf
      <4>2. u[1] \in In(units)
        BY <1>1, <4>1 DEF In
      <4> QED
        BY <1>5, <2>1, <4>1, <4>2
    <3>2. ASSUME NEW i \in 1 .. units[l]
          PROVE  <<l, i>> \in UnitsOf(units, p)
      BY <1>1, <1>5, <2>1 DEF UnitsOf
    <3> QED
      BY <3>1, <3>2
  <2>3. f \in Bijection(1 .. units[l], {l} \X (1 .. units[l]))
    <3>1. f \in [1 .. units[l] -> {l} \X (1 .. units[l])] /\ \A i, j \in 1 .. units[l] : f[i] = f[j] => i = j
      OBVIOUS
    <3>2. \A u \in {l} \X (1 .. units[l]) : \E i \in 1 .. units[l] : f[i] = u
      OBVIOUS
    <3> QED
      BY <3>1, <3>2 DEF Bijection, Injection, Surjection, IsInjective
  <2>4. IsFiniteSet(1 .. units[l]) /\ Cardinality(1 .. units[l]) = units[l]
    BY <2>1, FS_Interval
  <2> QED
    BY <2>2, <2>3, <2>4, FS_Bijection DEF ExistsBijection
<1> QED
  BY <1>3, <1>4, <1>5

\* What is left of a stock that was read.
LEMMA LeftOver ==
  ASSUME NEW s \in Slots, NEW p \in Products, pay[s].units \in Units, pay[s].saw[p].stock \in Int
  PROVE  /\ Left(s, p) \in Nat
         /\ Left(s, p) >= pay[s].saw[p].stock - Cardinality(UnitsOf(pay[s].units, p))
         /\ pay[s].saw[p].stock >= Cardinality(UnitsOf(pay[s].units, p)) =>
              Left(s, p) = pay[s].saw[p].stock - Cardinality(UnitsOf(pay[s].units, p))
<1>1. Cardinality(UnitsOf(pay[s].units, p)) \in Nat
  BY UnitsCount
<1> QED
  BY <1>1 DEF Left, NotBelowZero

\* The visits made are the first ones.
LEMMA NextVisit ==
  ASSUME IInv, Visited < MaxVisits
  PROVE  /\ Visited \in 0 .. MaxVisits /\ Visited + 1 \in Visits
         /\ \A v \in Visits : told[v] # "unvisited" <=> v <= Visited
<1>1. PICK n \in 0 .. MaxVisits : \A v \in Visits : told[v] # "unvisited" <=> v <= n
  BY DEF IInv, Numbered
<1>2. MaxVisits \in Nat
  BY CheckoutPageAssumption DEF CheckoutPageAssumption
<1>3. {v \in Visits : told[v] # "unvisited"} = 1 .. n
  BY <1>1, <1>2 DEF Visits
<1>4. Cardinality(1 .. n) = n
  BY <1>2, FS_Interval
<1>5. Visited = n
  BY <1>3, <1>4 DEF Visited
<1> QED
  BY <1>1, <1>2, <1>5 DEF Visits

\* The customer's side depends on the orders, the tabs and the payments alone.
LEMMA CustomersKeep ==
  ASSUME IInv, UNCHANGED <<orders, tab, pay, told, doubtful, faults>>,
         GatewayTypes', AdminTypes', Heard'
  PROVE  IInv'
<1>1. OrderTypes' /\ TabTypes' /\ PayTypes'
  BY DEF IInv, Types, OrderTypes, Orders, TabTypes, PayTypes
<1>2. Numbered' /\ Visiting'
  BY DEF IInv, Numbered, Visiting, IsAt
<1>3. Paid'
  BY DEF IInv, Paid, OnePayment, OneOrder, PaysFor, IsAt, OrdersOf
<1> QED
  BY <1>1, <1>2, <1>3 DEF IInv, Types

\* The administrator's side depends on the page and its calls alone.
LEMMA AdministratorKeeps ==
  ASSUME IInv, UNCHANGED Admin
  PROVE  AdminTypes' /\ Heard'
BY DEF Admin, IInv, Types, AdminTypes, Heard

-----------------------------------------------------------------------------
(* The page                                                                  *)

\* A cart changes.
LEMMA CartChangesKeeps ==
  ASSUME IInv, NEW c \in Customers, CartChanges(c)
  PROVE  IInv'
<1>1. /\ cart' \in [Customers -> Units]
      /\ UNCHANGED <<stock, active, orders, tab, pay, told, doubtful, adjusted, touched, overlapped, faults>>
      /\ UNCHANGED Admin
  <2>1. PICK units \in Carts : cart' = [cart EXCEPT ![c] = units]
    BY DEF CartChanges
  <2>2. units \in Units
    BY CheckoutPageAssumption DEF CheckoutPageAssumption, Units
  <2>3. /\ UNCHANGED <<stock, active, orders, tab, pay, told, doubtful, adjusted, touched, overlapped, faults>>
        /\ UNCHANGED Admin
    BY DEF CartChanges, Admin
  <2> QED
    BY <2>1, <2>2, <2>3 DEF IInv, Types, GatewayTypes
<1>2. GatewayTypes'
  BY <1>1 DEF IInv, Types, GatewayTypes
<1>3. OrderTypes'
  BY <1>1 DEF IInv, Types, OrderTypes, Orders
<1>4. TabTypes'
  BY <1>1 DEF IInv, Types, TabTypes
<1>5. PayTypes'
  BY <1>1 DEF IInv, Types, PayTypes
<1>6. Numbered'
  BY <1>1 DEF IInv, Numbered
<1>7. Visiting'
  BY <1>1 DEF IInv, Visiting, IsAt
<1>8. Paid'
  BY <1>1 DEF IInv, Paid, OnePayment, OneOrder, PaysFor, IsAt, OrdersOf
<1>9. AdminTypes' /\ Heard'
  BY <1>1, AdministratorKeeps
<1> QED
  BY <1>9, <1>2, <1>3, <1>4, <1>5, <1>6, <1>7, <1>8 DEF IInv, Types

\* A checkout page opens.
LEMMA GoToCheckoutKeeps ==
  ASSUME IInv, NEW t \in Tabs, GoToCheckout(t)
  PROVE  IInv'
<1>1. /\ tab' \in [Tabs -> TabStates] /\ \A x \in Tabs \ {t} : tab'[x] = tab[x]
      /\ \E v \in Visits :
           /\ tab'[t].page = "checkout" /\ tab'[t].visit = v
           /\ told' = [told EXCEPT ![v] = "nothing"] /\ told[v] = "unvisited"
           /\ \A w \in Visits : told[w] # "unvisited" <=> w <= v - 1
      /\ UNCHANGED <<stock, active, cart, orders, pay, doubtful, adjusted, touched, overlapped, faults>>
      /\ UNCHANGED Admin
  <2>1. PICK v : v = Visited + 1
    OBVIOUS
  <2>2. v \in Visits /\ told[v] = "unvisited" /\ \A w \in Visits : told[w] # "unvisited" <=> w <= v - 1
    BY <2>1, NextVisit DEF GoToCheckout, Visits
  <2>3. PICK units \in Given(t) :
          tab' = [tab EXCEPT ![t] = [page |-> "checkout", visit |-> v, given |-> units, items |-> units,
                                     filled |-> FALSE, paying |-> FALSE]]
    BY <2>1 DEF GoToCheckout
  <2>4. units \in Units
    <3>1. cart[Owner[t]] \in Units
      BY CheckoutPageAssumption DEF CheckoutPageAssumption, IInv, Types, GatewayTypes
    <3>2. \A l \in Lines : OneOf(l) \in Units
      BY CheckoutPageAssumption DEF CheckoutPageAssumption, OneOf, NoUnits, Units
    <3> QED
      BY <3>1, <3>2 DEF Given
  <2>5. PICK c : c = [page |-> "checkout", visit |-> v, given |-> units, items |-> units,
                      filled |-> FALSE, paying |-> FALSE]
    OBVIOUS
  <2>6. c \in TabStates /\ c.page = "checkout" /\ c.visit = v
    BY <2>2, <2>4, <2>5 DEF TabStates, Visits
  <2>7. /\ tab' \in [Tabs -> TabStates] /\ tab'[t] = c
        /\ \A x \in Tabs \ {t} : tab'[x] = tab[x]
    BY <2>3, <2>5, <2>6, TabSet DEF IInv, Types
  <2>8. told' = [told EXCEPT ![v] = "nothing"]
    BY <2>1 DEF GoToCheckout
  <2>9. /\ UNCHANGED <<stock, active, cart, orders, pay, doubtful, adjusted, touched, overlapped, faults>>
        /\ UNCHANGED Admin
    BY DEF GoToCheckout, Gateway, Admin
  <2> QED
    BY <2>2, <2>6, <2>7, <2>8, <2>9
<1>2. GatewayTypes'
  BY <1>1 DEF IInv, Types, GatewayTypes
<1>3. OrderTypes'
  BY <1>1 DEF IInv, Types, OrderTypes, Orders
<1>4. TabTypes'
  BY <1>1 DEF IInv, Types, TabTypes
<1>5. PayTypes'
  BY <1>1 DEF IInv, Types, PayTypes
<1>6. Numbered'
  <2>1. PICK v \in Visits : /\ told' = [told EXCEPT ![v] = "nothing"]
                            /\ \A w \in Visits : told[w] # "unvisited" <=> w <= v - 1
    BY <1>1
  <2>2. \A w \in Visits : told'[w] # "unvisited" <=> w <= v
    BY <2>1 DEF IInv, Types, TabTypes, Visits
  <2>3. v \in 0 .. MaxVisits
    BY DEF Visits
  <2> QED
    BY <2>2, <2>3 DEF Numbered
<1>7. Visiting'
  <2>1. PICK v \in Visits : /\ tab'[t].page = "checkout" /\ tab'[t].visit = v
                            /\ told' = [told EXCEPT ![v] = "nothing"] /\ told[v] = "unvisited"
    BY <1>1
  <2>2. \A w \in Visits : told[w] # "unvisited" => told'[w] # "unvisited" /\ w # v
    BY <2>1 DEF IInv, Types, TabTypes
  <2>3. told'[v] # "unvisited"
    BY <2>1 DEF IInv, Types, TabTypes
  <2>4. \A s \in Slots : pay[s].stage # "idle" => pay[s].visit \in Visits
    BY PaymentStages DEF IInv, Types, PayTypes
  <2>5. \A x \in orders : x.visit \in Visits
    BY DEF IInv, Types, OrderTypes, Orders
  <2>6. \A u \in Tabs \ {t} : tab'[u].page = "checkout" => tab'[u].visit \in Visits /\ tab'[u].visit # v
    BY <1>1, <2>2 DEF IInv, Visiting
  <2>7. \A u \in Tabs : tab'[u].page = "checkout" =>
          /\ tab'[u].visit \in Visits /\ told'[tab'[u].visit] # "unvisited"
          /\ \A w \in Tabs : tab'[w].page = "checkout" /\ tab'[w].visit = tab'[u].visit => u = w
    BY <1>1, <2>1, <2>2, <2>3, <2>6 DEF IInv, Visiting, IsAt
  <2>8. /\ \A s \in Slots : pay[s].stage # "idle" => told'[pay[s].visit] # "unvisited"
        /\ \A x \in orders : told'[x.visit] # "unvisited"
    BY <2>2, <2>4, <2>5 DEF IInv, Visiting
  <2> QED
    BY <1>1, <2>7, <2>8 DEF Visiting, IsAt
<1>8. Paid'
  <2>1. PICK v \in Visits : /\ tab'[t].page = "checkout" /\ tab'[t].visit = v
                            /\ told' = [told EXCEPT ![v] = "nothing"] /\ told[v] = "unvisited"
    BY <1>1
  <2>2. \A w \in Visits \ {v} : told'[w] = told[w]
    BY <2>1 DEF IInv, Types, TabTypes
  <2>3. (\A s \in Slots : ~PaysFor(s, v)) /\ OrdersOf(v) = {} /\ told'[v] = "nothing"
    BY <2>1 DEF IInv, Types, TabTypes, Visiting, PaysFor, OrdersOf
  <2>4. ASSUME NEW w \in Visits \ doubtful'
        PROVE  OnePayment(w)' /\ OneOrder(w)'
    <3>1. CASE w = v
      BY <1>1, <2>3, <3>1 DEF OnePayment, OneOrder, PaysFor, OrdersOf
    <3>2. CASE w # v
      <4>1. OnePayment(w) /\ OneOrder(w)
        BY <1>1 DEF IInv, Paid
      <4>2. \A u \in Tabs : IsAt(u, w)' => IsAt(u, w) /\ tab'[u] = tab[u]
        BY <1>1, <2>1, <3>2 DEF IsAt
      <4> QED
        BY <1>1, <2>2, <3>2, <4>1, <4>2 DEF OnePayment, OneOrder, PaysFor, OrdersOf
    <3> QED
      BY <3>1, <3>2
  <2> QED
    BY <2>4 DEF Paid
<1>9. AdminTypes' /\ Heard'
  BY <1>1, AdministratorKeeps
<1> QED
  BY <1>9, <1>2, <1>3, <1>4, <1>5, <1>6, <1>7, <1>8 DEF IInv, Types

\* A page is left.
LEMMA LeaveKeeps ==
  ASSUME IInv, NEW t \in Tabs, Leave(t)
  PROVE  IInv'
<1>1. /\ tab' \in [Tabs -> TabStates] /\ \A x \in Tabs \ {t} : tab'[x] = tab[x]
      /\ tab'[t].page = "shop"
      /\ UNCHANGED <<stock, active, cart, orders, pay, told, doubtful, adjusted, touched, overlapped, faults>>
      /\ UNCHANGED Admin
  <2>1. /\ UNCHANGED <<stock, active, cart, orders, pay, told, doubtful, adjusted, touched, overlapped, faults>>
        /\ UNCHANGED Admin
    BY DEF Leave, Gateway, Admin
  <2> QED
    BY <2>1, TabSet, ElsewhereState DEF Leave, IInv, Types
<1>2. GatewayTypes'
  BY <1>1 DEF IInv, Types, GatewayTypes
<1>3. OrderTypes'
  BY <1>1 DEF IInv, Types, OrderTypes, Orders
<1>4. TabTypes'
  BY <1>1 DEF IInv, Types, TabTypes
<1>5. PayTypes'
  BY <1>1 DEF IInv, Types, PayTypes
<1>6. Numbered'
  BY <1>1 DEF IInv, Numbered
<1>7. Visiting'
  BY <1>1 DEF IInv, Visiting, IsAt
<1>8. Paid'
  BY <1>1 DEF IInv, Paid, OnePayment, OneOrder, PaysFor, IsAt, OrdersOf
<1>9. AdminTypes' /\ Heard'
  BY <1>1, AdministratorKeeps
<1> QED
  BY <1>9, <1>2, <1>3, <1>4, <1>5, <1>6, <1>7, <1>8 DEF IInv, Types

\* A line of the page changes.
LEMMA EditItemsKeeps ==
  ASSUME IInv, NEW t \in Tabs, EditItems(t)
  PROVE  IInv'
<1>1. /\ tab' \in [Tabs -> TabStates] /\ \A x \in Tabs \ {t} : tab'[x] = tab[x]
      /\ tab'[t].page = tab[t].page /\ tab'[t].visit = tab[t].visit /\ tab'[t].paying = tab[t].paying
      /\ UNCHANGED <<stock, active, cart, orders, pay, told, doubtful, adjusted, touched, overlapped, faults>>
      /\ UNCHANGED Admin
  <2>1. /\ UNCHANGED <<stock, active, cart, orders, pay, told, doubtful, adjusted, touched, overlapped, faults>>
        /\ UNCHANGED Admin
    BY DEF EditItems, Gateway, Admin
  <2>2. PICK l \in Lines : \E u \in Edited(tab[t].items, l) : tab' = [tab EXCEPT ![t].items = u]
    BY DEF EditItems, In
  <2>3. PICK units \in Edited(tab[t].items, l) : tab' = [tab EXCEPT ![t].items = units]
    BY <2>2
  <2>4. units \in Units
    BY DEF Edited
  <2>5. tab' = [tab EXCEPT ![t] = [tab[t] EXCEPT !.items = units]]
    BY <2>3 DEF IInv, Types, TabTypes
  <2>6. PICK c : c = [tab[t] EXCEPT !.items = units]
    OBVIOUS
  <2>7. tab[t] \in TabStates
    BY DEF IInv, Types, TabTypes
  <2>8. /\ c \in TabStates /\ c.page = tab[t].page /\ c.visit = tab[t].visit
        /\ c.paying = tab[t].paying
    BY <2>6, <2>7, <2>4 DEF TabStates
  <2>9. tab' = [tab EXCEPT ![t] = c]
    BY <2>5, <2>6
  <2> QED
    BY <2>1, <2>8, <2>9, TabSet DEF IInv, Types
<1>2. GatewayTypes'
  BY <1>1 DEF IInv, Types, GatewayTypes
<1>3. OrderTypes'
  BY <1>1 DEF IInv, Types, OrderTypes, Orders
<1>4. TabTypes'
  BY <1>1 DEF IInv, Types, TabTypes
<1>5. PayTypes'
  BY <1>1 DEF IInv, Types, PayTypes
<1>6. Numbered'
  BY <1>1 DEF IInv, Numbered
<1>7. Visiting'
  BY <1>1 DEF IInv, Visiting, IsAt
<1>8. Paid'
  <2>1. \A u \in Tabs : tab'[u].paying = tab[u].paying /\ \A v \in Visits : IsAt(u, v)' <=> IsAt(u, v)
    BY <1>1 DEF IsAt
  <2> QED
    BY <1>1, <2>1 DEF IInv, Paid, OnePayment, OneOrder, PaysFor, OrdersOf
<1>9. AdminTypes' /\ Heard'
  BY <1>1, AdministratorKeeps
<1> QED
  BY <1>9, <1>2, <1>3, <1>4, <1>5, <1>6, <1>7, <1>8 DEF IInv, Types

\* The form is filled.
LEMMA FillFormKeeps ==
  ASSUME IInv, NEW t \in Tabs, FillForm(t)
  PROVE  IInv'
<1>1. /\ tab' \in [Tabs -> TabStates] /\ \A x \in Tabs \ {t} : tab'[x] = tab[x]
      /\ tab'[t].page = tab[t].page /\ tab'[t].visit = tab[t].visit /\ tab'[t].paying = tab[t].paying
      /\ UNCHANGED <<stock, active, cart, orders, pay, told, doubtful, adjusted, touched, overlapped, faults>>
      /\ UNCHANGED Admin
  <2>1. /\ UNCHANGED <<stock, active, cart, orders, pay, told, doubtful, adjusted, touched, overlapped, faults>>
        /\ UNCHANGED Admin
    BY DEF FillForm, Gateway, Admin
  <2>2. tab' = [tab EXCEPT ![t] = [tab[t] EXCEPT !.filled = TRUE]]
    BY DEF FillForm, IInv, Types, TabTypes
  <2>3. PICK c : c = [tab[t] EXCEPT !.filled = TRUE]
    OBVIOUS
  <2>4. tab[t] \in TabStates
    BY DEF IInv, Types, TabTypes
  <2>5. /\ c \in TabStates /\ c.page = tab[t].page /\ c.visit = tab[t].visit
        /\ c.paying = tab[t].paying
    BY <2>3, <2>4 DEF TabStates
  <2>6. tab' = [tab EXCEPT ![t] = c]
    BY <2>2, <2>3
  <2> QED
    BY <2>1, <2>5, <2>6, TabSet DEF IInv, Types
<1>2. GatewayTypes'
  BY <1>1 DEF IInv, Types, GatewayTypes
<1>3. OrderTypes'
  BY <1>1 DEF IInv, Types, OrderTypes, Orders
<1>4. TabTypes'
  BY <1>1 DEF IInv, Types, TabTypes
<1>5. PayTypes'
  BY <1>1 DEF IInv, Types, PayTypes
<1>6. Numbered'
  BY <1>1 DEF IInv, Numbered
<1>7. Visiting'
  BY <1>1 DEF IInv, Visiting, IsAt
<1>8. Paid'
  <2>1. \A u \in Tabs : tab'[u].paying = tab[u].paying /\ \A v \in Visits : IsAt(u, v)' <=> IsAt(u, v)
    BY <1>1 DEF IsAt
  <2> QED
    BY <1>1, <2>1 DEF IInv, Paid, OnePayment, OneOrder, PaysFor, OrdersOf
<1>9. AdminTypes' /\ Heard'
  BY <1>1, AdministratorKeeps
<1> QED
  BY <1>9, <1>2, <1>3, <1>4, <1>5, <1>6, <1>7, <1>8 DEF IInv, Types

\* A payment begins.
LEMMA PlaceOrderKeeps ==
  ASSUME IInv, NEW t \in Tabs, PlaceOrder(t)
  PROVE  IInv'
<1>1. /\ tab' \in [Tabs -> TabStates] /\ \A x \in Tabs \ {t} : tab'[x] = tab[x]
      /\ tab'[t].page = tab[t].page /\ tab'[t].visit = tab[t].visit /\ tab'[t].paying
      /\ IsAt(t, tab[t].visit) /\ ~tab[t].paying /\ tab[t].visit \in Visits
      /\ told' = [told EXCEPT ![tab[t].visit] = "nothing"]
      /\ \E s \in Slots :
           /\ pay[s].stage = "idle" /\ pay' \in [Slots -> Payments]
           /\ \A x \in Slots \ {s} : pay'[x] = pay[x]
           /\ pay'[s].stage = "paying" /\ pay'[s].tab = t /\ pay'[s].visit = tab[t].visit
           /\ pay'[s].alive
      /\ UNCHANGED <<stock, active, cart, orders, doubtful, adjusted, touched, overlapped, faults>>
      /\ UNCHANGED Admin
  <2>1. /\ UNCHANGED <<stock, active, cart, orders, doubtful, adjusted, touched, overlapped, faults>>
        /\ UNCHANGED Admin
    BY DEF PlaceOrder, Gateway, Admin
  <2>2. tab[t] \in TabStates /\ tab[t].page = "checkout" /\ ~tab[t].paying /\ tab[t].visit \in Visits
    BY DEF PlaceOrder, MayPay, IInv, Types, TabTypes, Visiting
  <2>3. PICK c : c = [tab[t] EXCEPT !.paying = TRUE]
    OBVIOUS
  <2>4. c \in TabStates /\ c.page = tab[t].page /\ c.visit = tab[t].visit /\ c.paying
    BY <2>2, <2>3 DEF TabStates
  <2>5. tab' = [tab EXCEPT ![t] = c]
    BY <2>3 DEF PlaceOrder, IInv, Types, TabTypes
  <2>6. PICK d : d = [stage |-> "paying", tab |-> t, visit |-> tab[t].visit, alive |-> TRUE,
                      units |-> tab[t].items, saw |-> <<>>]
    OBVIOUS
  <2>7. d \in Payments /\ d.stage = "paying" /\ d.tab = t /\ d.visit = tab[t].visit /\ d.alive
    BY <2>2, <2>6 DEF Payments, Pending, TabStates
  <2>8. PICK s \in Slots : pay[s].stage = "idle" /\ pay' = [pay EXCEPT ![s] = d]
    BY <2>6 DEF PlaceOrder, Underway
  <2>9. /\ pay' \in [Slots -> Payments] /\ pay'[s] = d
        /\ \A x \in Slots \ {s} : pay'[x] = pay[x]
    BY <2>7, <2>8, PaySet DEF IInv, Types
  <2>10. told' = [told EXCEPT ![tab[t].visit] = "nothing"]
    BY DEF PlaceOrder
  <2>11. tab' \in [Tabs -> TabStates] /\ tab'[t] = c /\ \A x \in Tabs \ {t} : tab'[x] = tab[x]
    BY <2>4, <2>5, TabSet DEF IInv, Types
  <2>12. IsAt(t, tab[t].visit)
    BY <2>2 DEF IsAt
  <2> QED
    BY <2>1, <2>2, <2>4, <2>7, <2>8, <2>9, <2>10, <2>11, <2>12
<1>2. GatewayTypes'
  BY <1>1 DEF IInv, Types, GatewayTypes
<1>3. OrderTypes'
  BY <1>1 DEF IInv, Types, OrderTypes, Orders
<1>4. TabTypes'
  BY <1>1 DEF IInv, Types, TabTypes
<1>5. PayTypes'
  BY <1>1 DEF IInv, Types, PayTypes
<1>6. Numbered'
  <2>1. told[tab[t].visit] # "unvisited"
    BY <1>1 DEF IInv, Visiting, IsAt
  <2>2. \A v \in Visits : told'[v] # "unvisited" <=> told[v] # "unvisited"
    BY <1>1, <2>1 DEF IInv, Types, TabTypes
  <2> QED
    BY <2>2 DEF IInv, Numbered
<1>7. Visiting'
  <2>1. \A v \in Visits : told[v] # "unvisited" => told'[v] # "unvisited"
    BY <1>1 DEF IInv, Types, TabTypes
  <2>2. \A u \in Tabs : /\ tab'[u].page = tab[u].page /\ tab'[u].visit = tab[u].visit
                        /\ \A v : IsAt(u, v)' <=> IsAt(u, v)
    BY <1>1 DEF IsAt
  <2>3. \A s \in Slots : pay'[s].stage # "idle" =>
          pay'[s].visit \in Visits /\ told[pay'[s].visit] # "unvisited"
    BY <1>1, PaymentStages DEF IInv, Types, PayTypes, Visiting, IsAt
  <2>4. \A x \in orders : x.visit \in Visits
    BY DEF IInv, Types, OrderTypes, Orders
  <2> QED
    BY <1>1, <2>1, <2>2, <2>3, <2>4 DEF IInv, Visiting
<1>8. Paid'
  <2>1. PICK s \in Slots : /\ pay[s].stage = "idle" /\ \A x \in Slots \ {s} : pay'[x] = pay[x]
                           /\ pay'[s].stage = "paying" /\ pay'[s].tab = t
                           /\ pay'[s].visit = tab[t].visit /\ pay'[s].alive
    BY <1>1
  <2>2. \A u \in Tabs : /\ \A v : IsAt(u, v)' <=> IsAt(u, v)
                        /\ tab'[u].paying <=> tab[u].paying \/ u = t
    BY <1>1 DEF IsAt
  <2>3. \A u \in Tabs : IsAt(u, tab[t].visit) => u = t
    BY <1>1 DEF IInv, Visiting, IsAt
  <2>4. \A v \in Visits \ {tab[t].visit} : told'[v] = told[v]
    BY <1>1 DEF IInv, Types, TabTypes
  <2>5. told'[tab[t].visit] = "nothing"
    BY <1>1 DEF IInv, Types, TabTypes
  <2>6. ASSUME NEW w \in Visits \ doubtful'
        PROVE  OnePayment(w)' /\ OneOrder(w)'
    <3>1. OnePayment(w) /\ OneOrder(w)
      BY <1>1 DEF IInv, Paid
    <3>2. CASE w = tab[t].visit
      <4>1. \A x \in Slots : ~PaysFor(x, w)
        BY <1>1, <3>1, <3>2 DEF OnePayment
      <4>2. OrdersOf(w) = {}
        BY <1>1, <3>1, <3>2, <4>1 DEF OneOrder
      <4>3. \A x \in Slots : PaysFor(x, w)' <=> x = s
        BY <2>1, <3>2, <4>1 DEF PaysFor
      <4>4. OrdersOf(w)' = {}
        BY <1>1, <4>2 DEF OrdersOf
      <4> QED
        BY <1>1, <2>1, <2>2, <2>3, <2>5, <3>2, <4>3, <4>4 DEF OnePayment, OneOrder
    <3>3. CASE w # tab[t].visit
      <4>1. \A x \in Slots : (PaysFor(x, w)' <=> PaysFor(x, w)) /\ (PaysFor(x, w) => pay'[x] = pay[x])
        BY <2>1, <3>3 DEF PaysFor
      <4>2. \A u \in Tabs : IsAt(u, w) => u # t
        BY <3>3 DEF IsAt
      <4> QED
        BY <1>1, <2>2, <2>4, <3>1, <3>3, <4>1, <4>2 DEF OnePayment, OneOrder, OrdersOf
    <3> QED
      BY <3>2, <3>3
  <2> QED
    BY <2>6 DEF Paid
<1>9. AdminTypes' /\ Heard'
  BY <1>1, AdministratorKeeps
<1> QED
  BY <1>9, <1>2, <1>3, <1>4, <1>5, <1>6, <1>7, <1>8 DEF IInv, Types

-----------------------------------------------------------------------------
(* The gateway                                                               *)

\* An order is posted.
LEMMA PostOrderKeeps ==
  ASSUME IInv, NEW s \in Slots, PostOrder(s)
  PROVE  IInv'
<1>1. /\ pay[s].stage = "paying" /\ pay'[s].stage = "sent"
      /\ pay' \in [Slots -> Payments] /\ \A x \in Slots \ {s} : pay'[x] = pay[x]
      /\ pay'[s].tab = pay[s].tab /\ pay'[s].visit = pay[s].visit /\ pay'[s].alive = pay[s].alive
      /\ UNCHANGED <<stock, active, cart, orders, tab, told, doubtful, adjusted, touched, overlapped, faults>>
      /\ UNCHANGED Admin
  <2>1. /\ UNCHANGED <<stock, active, cart, orders, tab, told, doubtful, adjusted, touched, overlapped, faults>>
        /\ UNCHANGED Admin
    BY DEF PostOrder, Gateway, Admin
  <2>2. pay[s] \in Pending /\ pay[s].stage = "paying"
    BY PaymentStages DEF PostOrder, IInv, Types, PayTypes
  <2>3. PICK c : c = [pay[s] EXCEPT !.stage = "sent"]
    OBVIOUS
  <2>4. /\ c \in Payments /\ c.stage = "sent" /\ c.tab = pay[s].tab /\ c.visit = pay[s].visit
        /\ c.alive = pay[s].alive
    BY <2>2, <2>3 DEF Pending, Answered, Payments
  <2>5. pay' = [pay EXCEPT ![s] = c]
    BY <2>3 DEF PostOrder, IInv, Types, PayTypes
  <2> QED
    BY <2>1, <2>2, <2>4, <2>5, PaySet DEF IInv, Types
<1>2. GatewayTypes'
  BY <1>1 DEF IInv, Types, GatewayTypes
<1>3. OrderTypes'
  BY <1>1 DEF IInv, Types, OrderTypes, Orders
<1>4. TabTypes'
  BY <1>1 DEF IInv, Types, TabTypes
<1>5. PayTypes'
  BY <1>1 DEF IInv, Types, PayTypes
<1>6. Numbered'
  BY <1>1 DEF IInv, Numbered
<1>7. Visiting'
  <2>1. pay[s].visit \in Visits
    BY <1>1, PaymentStages DEF IInv, Types, PayTypes
  <2> QED
    BY <1>1, <2>1 DEF IInv, Visiting, IsAt
<1>8. Paid'
  BY <1>1 DEF IInv, Paid, OnePayment, OneOrder, PaysFor, IsAt, OrdersOf
<1>9. AdminTypes' /\ Heard'
  BY <1>1, AdministratorKeeps
<1> QED
  BY <1>9, <1>2, <1>3, <1>4, <1>5, <1>6, <1>7, <1>8 DEF IInv, Types

\* The stock is read, or the order refused.
LEMMA ReadStockKeeps ==
  ASSUME IInv, NEW s \in Slots, ReadStock(s)
  PROVE  IInv'
<1>1. /\ pay[s].stage = "sent" /\ pay'[s].stage \in {"read", "refused"}
      /\ pay' \in [Slots -> Payments] /\ \A x \in Slots \ {s} : pay'[x] = pay[x]
      /\ pay'[s].tab = pay[s].tab /\ pay'[s].visit = pay[s].visit /\ pay'[s].alive = pay[s].alive
      /\ pay'[s].stage = "read" => WithinStock(pay'[s])
      /\ UNCHANGED <<stock, active, cart, orders, tab, told, doubtful, adjusted, touched, overlapped, faults>>
      /\ UNCHANGED Admin
  <2>1. /\ UNCHANGED <<stock, active, cart, orders, tab, told, doubtful, adjusted, touched, overlapped, faults>>
        /\ UNCHANGED Admin
    BY DEF ReadStock, Gateway, Admin
  <2>2. pay[s] \in Pending /\ pay[s].stage = "sent"
    BY PaymentStages DEF ReadStock, IInv, Types, PayTypes
  <2>3. CASE pay' = [pay EXCEPT ![s] = Done(s, "refused")]
    <3>1. PICK c : c = Done(s, "refused")
      OBVIOUS
    <3>2. /\ c \in Payments /\ c.stage = "refused" /\ c.tab = pay[s].tab /\ c.visit = pay[s].visit
          /\ c.alive = pay[s].alive
      BY <2>2, <3>1 DEF Done, Pending, Answered, Payments
    <3> QED
      BY <2>1, <2>2, <2>3, <3>1, <3>2, PaySet DEF IInv, Types
  <2>4. CASE /\ Enough(Resolved(s))
             /\ pay' = [pay EXCEPT ![s].stage = "read", ![s].units = Resolved(s), ![s].saw = Rows]
    <3>1. Resolved(s) \in Units
      BY <2>2, CheckoutPageAssumption
         DEF CheckoutPageAssumption, Resolved, CustomerOf, Pending, IInv, Types, GatewayTypes
    <3>2. Rows \in TableRows /\ \A p \in Products : Rows[p].stock = stock[p]
      BY RowsAreRows DEF IInv, Types, Rows
    <3>3. \A l \in In(Resolved(s)) : Resolved(s)[l] <= Rows[ProductOf[l]].stock
      <4> SUFFICES ASSUME NEW l \in In(Resolved(s))
                   PROVE  Resolved(s)[l] <= Rows[ProductOf[l]].stock
        OBVIOUS
      <4>1. Resolved(s)[l] \in 0 .. MaxUnits /\ MaxUnits \in Nat /\ ProductOf[l] \in Products
        BY <3>1, CheckoutPageAssumption DEF CheckoutPageAssumption, Units, In
      <4>2. stock[ProductOf[l]] >= Resolved(s)[l] /\ stock[ProductOf[l]] \in Int
        BY <2>4, <4>1 DEF Enough, IInv, Types, GatewayTypes
      <4> QED
        BY <3>2, <4>1, <4>2
    <3>4. PICK c : c = [pay[s] EXCEPT !.stage = "read", !.units = Resolved(s), !.saw = Rows]
      OBVIOUS
    <3>5. /\ c \in Payments /\ c.stage = "read" /\ c.tab = pay[s].tab /\ c.visit = pay[s].visit
          /\ c.alive = pay[s].alive /\ WithinStock(c)
      BY <2>2, <3>1, <3>2, <3>3, <3>4 DEF Pending, Reading, Payments, WithinStock
    <3>6. pay' = [pay EXCEPT ![s] = c]
      BY <2>4, <3>4 DEF IInv, Types, PayTypes
    <3> QED
      BY <2>1, <2>2, <3>3, <3>5, <3>6, PaySet DEF IInv, Types
  <2> QED
    BY <2>3, <2>4 DEF ReadStock
<1>2. GatewayTypes'
  BY <1>1 DEF IInv, Types, GatewayTypes
<1>3. OrderTypes'
  BY <1>1 DEF IInv, Types, OrderTypes, Orders
<1>4. TabTypes'
  BY <1>1 DEF IInv, Types, TabTypes
<1>5. PayTypes'
  BY <1>1 DEF IInv, Types, PayTypes
<1>6. Numbered'
  BY <1>1 DEF IInv, Numbered
<1>7. Visiting'
  <2>1. pay[s].visit \in Visits
    BY <1>1, PaymentStages DEF IInv, Types, PayTypes
  <2> QED
    BY <1>1, <2>1 DEF IInv, Visiting, IsAt
<1>8. Paid'
  BY <1>1 DEF IInv, Paid, OnePayment, OneOrder, PaysFor, IsAt, OrdersOf
<1>9. AdminTypes' /\ Heard'
  BY <1>1, AdministratorKeeps
<1> QED
  BY <1>9, <1>2, <1>3, <1>4, <1>5, <1>6, <1>7, <1>8 DEF IInv, Types

\* An order is refused.
LEMMA RefuseKeeps ==
  ASSUME IInv, NEW s \in Slots, Refuse(s)
  PROVE  IInv'
<1>1. /\ pay[s].stage = "sent" /\ pay'[s].stage = "refused"
      /\ pay' \in [Slots -> Payments] /\ \A x \in Slots \ {s} : pay'[x] = pay[x]
      /\ pay'[s].tab = pay[s].tab /\ pay'[s].visit = pay[s].visit /\ pay'[s].alive = pay[s].alive
      /\ UNCHANGED <<stock, active, cart, orders, tab, told, doubtful, adjusted, touched, overlapped, faults>>
      /\ UNCHANGED Admin
  <2>1. /\ UNCHANGED <<stock, active, cart, orders, tab, told, doubtful, adjusted, touched, overlapped, faults>>
        /\ UNCHANGED Admin
    BY DEF Refuse, Gateway, Admin
  <2>2. pay[s] \in Pending /\ pay[s].stage = "sent"
    BY PaymentStages DEF Refuse, IInv, Types, PayTypes
  <2>3. PICK c : c = Done(s, "refused")
    OBVIOUS
  <2>4. /\ c \in Payments /\ c.stage = "refused" /\ c.tab = pay[s].tab /\ c.visit = pay[s].visit
        /\ c.alive = pay[s].alive
    BY <2>2, <2>3 DEF Pending, Answered, Payments, Done
  <2>5. pay' = [pay EXCEPT ![s] = c]
    BY <2>3 DEF Refuse, IInv, Types, PayTypes
  <2> QED
    BY <2>1, <2>2, <2>4, <2>5, PaySet DEF IInv, Types
<1>2. GatewayTypes'
  BY <1>1 DEF IInv, Types, GatewayTypes
<1>3. OrderTypes'
  BY <1>1 DEF IInv, Types, OrderTypes, Orders
<1>4. TabTypes'
  BY <1>1 DEF IInv, Types, TabTypes
<1>5. PayTypes'
  BY <1>1 DEF IInv, Types, PayTypes
<1>6. Numbered'
  BY <1>1 DEF IInv, Numbered
<1>7. Visiting'
  <2>1. pay[s].visit \in Visits
    BY <1>1, PaymentStages DEF IInv, Types, PayTypes
  <2> QED
    BY <1>1, <2>1 DEF IInv, Visiting, IsAt
<1>8. Paid'
  BY <1>1 DEF IInv, Paid, OnePayment, OneOrder, PaysFor, IsAt, OrdersOf
<1>9. AdminTypes' /\ Heard'
  BY <1>1, AdministratorKeeps
<1> QED
  BY <1>9, <1>2, <1>3, <1>4, <1>5, <1>6, <1>7, <1>8 DEF IInv, Types

\* An answer is lost, or the cart is not cleared.
LEMMA AnswerLostKeeps ==
  ASSUME IInv, NEW s \in Slots, AnswerLost(s)
  PROVE  IInv'
<1>1. /\ pay[s].stage = "made" /\ pay'[s].stage = "failed"
      /\ pay' \in [Slots -> Payments] /\ \A x \in Slots \ {s} : pay'[x] = pay[x]
      /\ pay'[s].tab = pay[s].tab /\ pay'[s].visit = pay[s].visit /\ pay'[s].alive = pay[s].alive
      /\ doubtful' = doubtful \union {pay[s].visit} /\ pay[s].visit \in Visits
      /\ faults' \in 0 .. MaxFaults
      /\ UNCHANGED <<stock, active, cart, orders, tab, told, adjusted, touched, overlapped>>
      /\ UNCHANGED Admin
  <2>1. /\ UNCHANGED <<stock, active, cart, orders, tab, told, adjusted, touched, overlapped>>
        /\ UNCHANGED Admin
    BY DEF AnswerLost, Gateway, Admin
  <2>2. pay[s] \in Answered /\ pay[s].stage = "made"
    BY PaymentStages DEF AnswerLost, IInv, Types, PayTypes
  <2>3. PICK c : c = [pay[s] EXCEPT !.stage = "failed"]
    OBVIOUS
  <2>4. /\ c \in Payments /\ c.stage = "failed" /\ c.tab = pay[s].tab /\ c.visit = pay[s].visit
        /\ c.alive = pay[s].alive
    BY <2>2, <2>3 DEF Answered, Payments
  <2>5. pay' = [pay EXCEPT ![s] = c]
    BY <2>3 DEF AnswerLost, IInv, Types, PayTypes
  <2>6. faults' \in 0 .. MaxFaults /\ doubtful' = doubtful \union {pay[s].visit}
    BY CheckoutPageAssumption DEF CheckoutPageAssumption, AnswerLost, IInv, Types, TabTypes
  <2>7. pay[s].visit \in Visits
    BY <2>2 DEF Answered
  <2> QED
    BY <2>1, <2>2, <2>4, <2>5, <2>6, <2>7, PaySet DEF IInv, Types
<1>2. GatewayTypes'
  BY <1>1 DEF IInv, Types, GatewayTypes
<1>3. OrderTypes'
  BY <1>1 DEF IInv, Types, OrderTypes, Orders
<1>4. TabTypes'
  BY <1>1 DEF IInv, Types, TabTypes
<1>5. PayTypes'
  BY <1>1 DEF IInv, Types, PayTypes
<1>6. Numbered'
  BY <1>1 DEF IInv, Numbered
<1>7. Visiting'
  <2>1. pay[s].visit \in Visits
    BY <1>1, PaymentStages DEF IInv, Types, PayTypes
  <2> QED
    BY <1>1, <2>1 DEF IInv, Visiting, IsAt
<1>8. Paid'
  <2>1. ASSUME NEW v \in Visits \ doubtful'
        PROVE  OnePayment(v)' /\ OneOrder(v)'
    <3>1. OnePayment(v) /\ OneOrder(v) /\ v # pay[s].visit
      BY <1>1, <2>1 DEF IInv, Paid
    <3>2. \A x \in Slots : (PaysFor(x, v)' <=> PaysFor(x, v)) /\ (PaysFor(x, v) => pay'[x] = pay[x])
      BY <1>1, <3>1 DEF PaysFor
    <3> QED
      BY <1>1, <3>1, <3>2 DEF OnePayment, OneOrder, IsAt, OrdersOf
  <2> QED
    BY <2>1 DEF Paid
<1>9. AdminTypes' /\ Heard'
  BY <1>1, AdministratorKeeps
<1> QED
  BY <1>9, <1>2, <1>3, <1>4, <1>5, <1>6, <1>7, <1>8 DEF IInv, Types

\* The cart is cleared after an order.
LEMMA ClearCartKeeps ==
  ASSUME IInv, NEW s \in Slots, ClearCart(s)
  PROVE  IInv'
<1>1. /\ pay[s].stage = "made" /\ pay'[s].stage = "cleared"
      /\ pay' \in [Slots -> Payments] /\ \A x \in Slots \ {s} : pay'[x] = pay[x]
      /\ pay'[s].tab = pay[s].tab /\ pay'[s].visit = pay[s].visit /\ pay'[s].alive = pay[s].alive
      /\ cart' \in [Customers -> Units]
      /\ UNCHANGED <<stock, active, orders, tab, told, doubtful, adjusted, touched, overlapped, faults>>
      /\ UNCHANGED Admin
  <2>1. /\ UNCHANGED <<stock, active, orders, tab, told, doubtful, adjusted, touched, overlapped, faults>>
        /\ UNCHANGED Admin
    BY DEF ClearCart, Admin
  <2>2. pay[s] \in Answered /\ pay[s].stage = "made"
    BY PaymentStages DEF ClearCart, IInv, Types, PayTypes
  <2>3. PICK c : c = [pay[s] EXCEPT !.stage = "cleared"]
    OBVIOUS
  <2>4. /\ c \in Payments /\ c.stage = "cleared" /\ c.tab = pay[s].tab /\ c.visit = pay[s].visit
        /\ c.alive = pay[s].alive
    BY <2>2, <2>3 DEF Answered, Payments
  <2>5. pay' = [pay EXCEPT ![s] = c]
    BY <2>3 DEF ClearCart, IInv, Types, PayTypes
  <2>6. NoUnits \in Units
    BY CheckoutPageAssumption DEF CheckoutPageAssumption, NoUnits, Units
  <2>7. cart' \in [Customers -> Units]
    BY <2>6 DEF ClearCart, IInv, Types, GatewayTypes
  <2> QED
    BY <2>1, <2>2, <2>4, <2>5, <2>7, PaySet DEF IInv, Types
<1>2. GatewayTypes'
  BY <1>1 DEF IInv, Types, GatewayTypes
<1>3. OrderTypes'
  BY <1>1 DEF IInv, Types, OrderTypes, Orders
<1>4. TabTypes'
  BY <1>1 DEF IInv, Types, TabTypes
<1>5. PayTypes'
  BY <1>1 DEF IInv, Types, PayTypes
<1>6. Numbered'
  BY <1>1 DEF IInv, Numbered
<1>7. Visiting'
  <2>1. pay[s].visit \in Visits
    BY <1>1, PaymentStages DEF IInv, Types, PayTypes
  <2> QED
    BY <1>1, <2>1 DEF IInv, Visiting, IsAt
<1>8. Paid'
  BY <1>1 DEF IInv, Paid, OnePayment, OneOrder, PaysFor, IsAt, OrdersOf
<1>9. AdminTypes' /\ Heard'
  BY <1>1, AdministratorKeeps
<1> QED
  BY <1>9, <1>2, <1>3, <1>4, <1>5, <1>6, <1>7, <1>8 DEF IInv, Types

\* An order is committed.
LEMMA CommitOrderKeeps ==
  ASSUME IInv, NEW s \in Slots, CommitOrder(s)
  PROVE  IInv'
<1>1. /\ pay[s].stage = "read" /\ pay'[s].stage = "made" /\ pay[s].visit \in Visits
      /\ pay' \in [Slots -> Payments] /\ \A x \in Slots \ {s} : pay'[x] = pay[x]
      /\ pay'[s].tab = pay[s].tab /\ pay'[s].visit = pay[s].visit /\ pay'[s].alive = pay[s].alive
      /\ cart' \in [Customers -> Units] /\ stock' \in [Products -> Int]
      /\ active' \in [Products -> BOOLEAN]
      /\ overlapped' \subseteq Products
      /\ orders' = orders \union {[id |-> Cardinality(orders) + 1, visit |-> pay[s].visit,
                                 units |-> pay[s].units]}
      /\ pay[s].units \in Units
      /\ UNCHANGED <<tab, told, doubtful, adjusted, touched, faults>> /\ UNCHANGED Admin
  <2>1. /\ UNCHANGED <<tab, told, doubtful, adjusted, touched, faults>> /\ UNCHANGED Admin
    BY DEF CommitOrder, Admin
  <2>2. pay[s] \in Reading /\ pay[s].stage = "read"
    BY PaymentStages DEF CommitOrder, IInv, Types, PayTypes
  <2>3. PICK c : c = Done(s, "made")
    OBVIOUS
  <2>4. /\ c \in Payments /\ c.stage = "made" /\ c.tab = pay[s].tab /\ c.visit = pay[s].visit
        /\ c.alive = pay[s].alive
    BY <2>2, <2>3 DEF Reading, Answered, Payments, Done
  <2>5. pay' = [pay EXCEPT ![s] = c]
    BY <2>3 DEF CommitOrder, IInv, Types, PayTypes
  <2>6. NoUnits \in Units
    BY CheckoutPageAssumption DEF CheckoutPageAssumption, NoUnits, Units
  <2>7. cart' \in [Customers -> Units]
    BY <2>6 DEF CommitOrder, IInv, Types, GatewayTypes
  <2>8. pay[s].visit \in Visits /\ pay[s].units \in Units
    BY <2>2 DEF Reading
  <2>9. \A p \in Products : Left(s, p) \in Int
    <3>1. \A p \in Products : pay[s].saw[p].stock \in Int
      BY <2>2 DEF Reading, TableRows, ProductRows
    <3> QED
      BY <2>8, <3>1, LeftOver
  <2>10. stock' \in [Products -> Int]
    BY <2>9 DEF CommitOrder, IInv, Types, GatewayTypes
  <2>11. active' \in [Products -> BOOLEAN]
    BY DEF CommitOrder, IInv, Types, GatewayTypes
  <2>12. overlapped' \subseteq Products
    <3>1. Of(pay[s].units) \subseteq Products
      BY <2>8, CheckoutPageAssumption DEF CheckoutPageAssumption, Of, In, Units
    <3> QED
      BY <3>1 DEF CommitOrder, IInv, Types, GatewayTypes
  <2>13. orders' = orders \union {[id |-> Cardinality(orders) + 1, visit |-> pay[s].visit,
                                   units |-> pay[s].units]}
    BY DEF CommitOrder
  <2> QED
    BY <2>1, <2>2, <2>4, <2>5, <2>7, <2>10, <2>11, <2>12, <2>13, <2>8, PaySet DEF IInv, Types
<1>2. GatewayTypes'
  BY <1>1 DEF IInv, Types, GatewayTypes
<1>3. OrderTypes'
  <2>1. IsFiniteSet(orders) /\ Cardinality(orders) \in Nat
    BY FS_CardinalityType DEF IInv, Types, OrderTypes
  <2>2. PICK q : q = [id |-> Cardinality(orders) + 1, visit |-> pay[s].visit, units |-> pay[s].units]
    OBVIOUS
  <2>3. orders' = orders \union {q}
    BY <1>1, <2>2
  <2>4. q.id = Cardinality(orders) + 1 /\ \A o \in orders : o.id \in 1 .. Cardinality(orders)
    BY <2>2 DEF IInv, Types, OrderTypes, Orders
  <2>5. q \notin orders
    BY <2>1, <2>4
  <2>6. IsFiniteSet(orders') /\ Cardinality(orders') = Cardinality(orders) + 1
    BY <2>1, <2>3, <2>5, FS_AddElement
  <2>7. q \in Orders'
    BY <1>1, <2>1, <2>2, <2>6 DEF Orders
  <2>8. \A o \in orders : o \in Orders'
    BY <2>1, <2>6 DEF IInv, Types, OrderTypes, Orders
  <2> QED
    BY <2>3, <2>6, <2>7, <2>8 DEF OrderTypes
<1>4. TabTypes'
  BY <1>1 DEF IInv, Types, TabTypes
<1>5. PayTypes'
  BY <1>1 DEF IInv, Types, PayTypes
<1>6. Numbered'
  BY <1>1 DEF IInv, Numbered
<1>7. Visiting'
  <2>1. \A x \in orders' : x \in orders \/ x.visit = pay[s].visit
    BY <1>1
  <2> QED
    BY <1>1, <2>1 DEF IInv, Visiting, IsAt
<1>8. Paid'
  <2>1. PICK q : q = [id |-> Cardinality(orders) + 1, visit |-> pay[s].visit, units |-> pay[s].units]
    OBVIOUS
  <2>2. orders' = orders \union {q} /\ q.visit = pay[s].visit
    BY <1>1, <2>1
  <2>3. ASSUME NEW v \in Visits \ doubtful'
        PROVE  OnePayment(v)' /\ OneOrder(v)'
    <3>1. OnePayment(v) /\ OneOrder(v)
      BY <1>1 DEF IInv, Paid
    <3>2. \A x \in Slots : PaysFor(x, v)' <=> PaysFor(x, v)
      BY <1>1 DEF PaysFor
    <3>3. CASE v = pay[s].visit
      <4>1. PaysFor(s, v) /\ OrdersOf(v) = {}
        BY <1>1, <3>1, <3>3 DEF PaysFor, OnePayment
      <4>2. OrdersOf(v)' = {q}
        BY <2>2, <3>3, <4>1 DEF OrdersOf
      <4> QED
        BY <1>1, <3>1, <3>2, <4>1, <4>2 DEF OnePayment, OneOrder, IsAt
    <3>4. CASE v # pay[s].visit
      <4>1. OrdersOf(v)' = OrdersOf(v) /\ ~PaysFor(s, v)
        BY <2>2, <3>4 DEF OrdersOf, PaysFor
      <4> QED
        BY <1>1, <3>1, <3>2, <4>1 DEF OnePayment, OneOrder, IsAt
    <3> QED
      BY <3>3, <3>4
  <2> QED
    BY <2>3 DEF Paid
<1>9. AdminTypes' /\ Heard'
  BY <1>1, AdministratorKeeps
<1> QED
  BY <1>9, <1>2, <1>3, <1>4, <1>5, <1>6, <1>7, <1>8 DEF IInv, Types

-----------------------------------------------------------------------------
(* The end of placeOrder                                                     *)

\* The confirmation is shown.
LEMMA ConfirmKeeps ==
  ASSUME IInv, NEW s \in Slots, Confirm(s)
  PROVE  IInv'
<1>1. /\ pay[s].stage = "cleared"
      /\ pay' \in [Slots -> Payments] /\ \A x \in Slots \ {s} : pay'[x] = pay[x]
      /\ pay[s].visit \in Visits /\ pay[s].tab \in Tabs /\ pay'[s].stage = "idle"
      /\ tab' \in [Tabs -> TabStates]
      /\ tab'[pay[s].tab].page = "confirmation"
      /\ \A x \in Tabs \ {pay[s].tab} : tab'[x] = tab[x]
      /\ told' = [told EXCEPT ![pay[s].visit] = "placed"]
      /\ UNCHANGED <<stock, active, cart, orders, doubtful, adjusted, touched, overlapped, faults>>
      /\ UNCHANGED Admin
  <2>1. /\ UNCHANGED <<stock, active, cart, orders, doubtful, adjusted, touched, overlapped, faults>>
        /\ UNCHANGED Admin
    BY DEF Confirm, Gateway, Admin
  <2>2. pay[s].stage \in {"cleared"}
    BY DEF Confirm
  <2>3. pay[s].visit \in Visits /\ pay[s].tab \in Tabs
    BY <2>2, PaymentStages DEF IInv, Types, PayTypes
  <2>4. Idle \in Payments /\ Idle.stage = "idle" /\ pay' = [pay EXCEPT ![s] = Idle]
    BY DEF Confirm, Payments, Idle
  <2>5. /\ pay' \in [Slots -> Payments] /\ pay'[s].stage = "idle"
        /\ \A x \in Slots \ {s} : pay'[x] = pay[x]
    BY <2>4, PaySet DEF IInv, Types
  <2>6. PICK c : c = Elsewhere("confirmation")
    OBVIOUS
  <2>7. c \in TabStates /\ c.page = "confirmation" /\ tab' = [tab EXCEPT ![pay[s].tab] = c]
    BY <2>6, ElsewhereState DEF Confirm
  <2>8. /\ tab' \in [Tabs -> TabStates] /\ tab'[pay[s].tab] = c
        /\ \A x \in Tabs \ {pay[s].tab} : tab'[x] = tab[x]
    BY <2>3, <2>7, TabSet DEF IInv, Types
  <2>9. told' = [told EXCEPT ![pay[s].visit] = "placed"]
    BY DEF Confirm
  <2> QED
    BY <2>1, <2>2, <2>3, <2>5, <2>7, <2>8, <2>9
<1>2. GatewayTypes'
  BY <1>1 DEF IInv, Types, GatewayTypes
<1>3. OrderTypes'
  BY <1>1 DEF IInv, Types, OrderTypes, Orders
<1>4. TabTypes'
  BY <1>1 DEF IInv, Types, TabTypes
<1>5. PayTypes'
  BY <1>1 DEF IInv, Types, PayTypes
<1>6. Numbered'
  <2>1. told[pay[s].visit] # "unvisited"
    BY <1>1 DEF IInv, Visiting
  <2>2. \A v \in Visits : told'[v] # "unvisited" <=> told[v] # "unvisited"
    BY <1>1, <2>1 DEF IInv, Types, TabTypes
  <2> QED
    BY <2>2 DEF IInv, Numbered
<1>7. Visiting'
  <2>1. \A v \in Visits : told[v] # "unvisited" => told'[v] # "unvisited"
    BY <1>1 DEF IInv, Types, TabTypes
  <2>2. \A u \in Tabs : tab'[u].page = "checkout" =>
          tab[u].page = "checkout" /\ tab'[u].visit = tab[u].visit
    BY <1>1
  <2>3. \A u \in Tabs : tab'[u].page = "checkout" =>
          /\ tab'[u].visit \in Visits /\ told'[tab'[u].visit] # "unvisited"
          /\ \A w \in Tabs : tab'[w].page = "checkout" /\ tab'[w].visit = tab'[u].visit => u = w
    BY <2>1, <2>2 DEF IInv, Visiting, IsAt
  <2>4. \A x \in Slots : pay'[x].stage # "idle" =>
          pay'[x].visit \in Visits /\ told[pay'[x].visit] # "unvisited"
    BY <1>1, PaymentStages DEF IInv, Types, PayTypes, Visiting
  <2>5. \A x \in orders : x.visit \in Visits
    BY DEF IInv, Types, OrderTypes, Orders
  <2> QED
    BY <1>1, <2>1, <2>3, <2>4, <2>5 DEF IInv, Visiting, IsAt
<1>8. Paid'
  <2>1. ASSUME NEW v \in Visits \ doubtful'
        PROVE  OnePayment(v)' /\ OneOrder(v)'
    <3>1. OnePayment(v) /\ OneOrder(v)
      BY <1>1 DEF IInv, Paid
    <3>2. \A u \in Tabs : IsAt(u, v)' => IsAt(u, v) /\ u # pay[s].tab /\ tab'[u] = tab[u]
      BY <1>1 DEF IsAt
    <3>3. CASE v = pay[s].visit
      <4>1. PaysFor(s, v)
        BY <1>1, <3>3 DEF PaysFor
      <4>2. /\ OrdersOf(v) # {} /\ \A x \in Slots : PaysFor(x, v) => x = s
            /\ \A t \in Tabs : IsAt(t, v) => pay[s].tab = t
        BY <1>1, <3>1, <4>1 DEF OnePayment
      <4>3. (\A x \in Slots : ~PaysFor(x, v)') /\ \A t \in Tabs : ~IsAt(t, v)'
        BY <1>1, <3>2, <4>2 DEF PaysFor
      <4>4. OrdersOf(v)' = OrdersOf(v) /\ told'[v] = "placed"
        BY <1>1, <3>3 DEF OrdersOf, IInv, Types, TabTypes
      <4> QED
        BY <3>1, <4>2, <4>3, <4>4 DEF OnePayment, OneOrder
    <3>4. CASE v # pay[s].visit
      <4>1. \A x \in Slots : (PaysFor(x, v)' <=> PaysFor(x, v)) /\ (PaysFor(x, v) => pay'[x] = pay[x])
        BY <1>1, <3>4 DEF PaysFor
      <4>2. told'[v] = told[v] /\ OrdersOf(v)' = OrdersOf(v)
        BY <1>1, <3>4 DEF OrdersOf, IInv, Types, TabTypes
      <4> QED
        BY <3>1, <3>2, <4>1, <4>2 DEF OnePayment, OneOrder
    <3> QED
      BY <3>3, <3>4
  <2> QED
    BY <2>1 DEF Paid
<1>9. AdminTypes' /\ Heard'
  BY <1>1, AdministratorKeeps
<1> QED
  BY <1>9, <1>2, <1>3, <1>4, <1>5, <1>6, <1>7, <1>8 DEF IInv, Types

\* A failure is reported.
LEMMA ReportFailureKeeps ==
  ASSUME IInv, NEW s \in Slots, ReportFailure(s)
  PROVE  IInv'
<1>1. /\ pay[s].stage \in {"refused", "failed"}
      /\ pay' \in [Slots -> Payments] /\ \A x \in Slots \ {s} : pay'[x] = pay[x]
      /\ pay[s].visit \in Visits /\ pay[s].tab \in Tabs /\ pay'[s].stage = "idle"
      /\ tab' \in [Tabs -> TabStates]
      /\ \A u \in Tabs :
           \/ tab'[u] = tab[u]
           \/ /\ IsAt(u, pay[s].visit)
              /\ tab'[u].page = tab[u].page /\ tab'[u].visit = tab[u].visit
      /\ told' = [told EXCEPT ![pay[s].visit] = "failed"]
      /\ UNCHANGED <<stock, active, cart, orders, doubtful, adjusted, touched, overlapped, faults>>
      /\ UNCHANGED Admin
  <2>1. /\ UNCHANGED <<stock, active, cart, orders, doubtful, adjusted, touched, overlapped, faults>>
        /\ UNCHANGED Admin
    BY DEF ReportFailure, Gateway, Admin
  <2>2. pay[s].stage \in {"refused", "failed"}
    BY DEF ReportFailure
  <2>3. pay[s].visit \in Visits /\ pay[s].tab \in Tabs
    BY <2>2, PaymentStages DEF IInv, Types, PayTypes
  <2>4. Idle \in Payments /\ Idle.stage = "idle" /\ pay' = [pay EXCEPT ![s] = Idle]
    BY DEF ReportFailure, Payments, Idle
  <2>5. /\ pay' \in [Slots -> Payments] /\ pay'[s].stage = "idle"
        /\ \A x \in Slots \ {s} : pay'[x] = pay[x]
    BY <2>4, PaySet DEF IInv, Types
  <2>6. told' = [told EXCEPT ![pay[s].visit] = "failed"]
    BY DEF ReportFailure
  <2>7. CASE ~Here(s)
    <3>1. tab' = tab
      BY <2>7 DEF ReportFailure
    <3> QED
      BY <2>1, <2>2, <2>3, <2>5, <2>6, <3>1 DEF IInv, Types, TabTypes
  <2>8. CASE Here(s)
    <3>1. PICK c : c = [tab[pay[s].tab] EXCEPT !.paying = FALSE]
      OBVIOUS
    <3>2. tab' = [tab EXCEPT ![pay[s].tab] = c]
      BY <2>8, <3>1 DEF ReportFailure, EnabledAgain, IInv, Types, TabTypes
    <3>3. /\ c \in TabStates /\ c.page = tab[pay[s].tab].page /\ c.visit = tab[pay[s].tab].visit
      BY <2>3, <3>1 DEF TabStates, IInv, Types, TabTypes
    <3>4. /\ tab' \in [Tabs -> TabStates] /\ tab'[pay[s].tab] = c
          /\ \A x \in Tabs \ {pay[s].tab} : tab'[x] = tab[x]
      BY <2>3, <3>2, <3>3, TabSet DEF IInv, Types
    <3>5. IsAt(pay[s].tab, pay[s].visit)
      BY <2>8 DEF Here, IsAt
    <3> QED
      BY <2>1, <2>2, <2>3, <2>5, <2>6, <3>3, <3>4, <3>5
  <2> QED
    BY <2>7, <2>8
<1>2. GatewayTypes'
  BY <1>1 DEF IInv, Types, GatewayTypes
<1>3. OrderTypes'
  BY <1>1 DEF IInv, Types, OrderTypes, Orders
<1>4. TabTypes'
  BY <1>1 DEF IInv, Types, TabTypes
<1>5. PayTypes'
  BY <1>1 DEF IInv, Types, PayTypes
<1>6. Numbered'
  <2>1. told[pay[s].visit] # "unvisited"
    BY <1>1 DEF IInv, Visiting
  <2>2. \A v \in Visits : told'[v] # "unvisited" <=> told[v] # "unvisited"
    BY <1>1, <2>1 DEF IInv, Types, TabTypes
  <2> QED
    BY <2>2 DEF IInv, Numbered
<1>7. Visiting'
  <2>1. \A v \in Visits : told[v] # "unvisited" => told'[v] # "unvisited"
    BY <1>1 DEF IInv, Types, TabTypes
  <2>2. \A u \in Tabs : tab'[u].page = "checkout" =>
          tab[u].page = "checkout" /\ tab'[u].visit = tab[u].visit
    BY <1>1
  <2>3. \A u \in Tabs : tab'[u].page = "checkout" =>
          /\ tab'[u].visit \in Visits /\ told'[tab'[u].visit] # "unvisited"
          /\ \A w \in Tabs : tab'[w].page = "checkout" /\ tab'[w].visit = tab'[u].visit => u = w
    BY <2>1, <2>2 DEF IInv, Visiting, IsAt
  <2>4. \A x \in Slots : pay'[x].stage # "idle" =>
          pay'[x].visit \in Visits /\ told[pay'[x].visit] # "unvisited"
    BY <1>1, PaymentStages DEF IInv, Types, PayTypes, Visiting
  <2>5. \A x \in orders : x.visit \in Visits
    BY DEF IInv, Types, OrderTypes, Orders
  <2> QED
    BY <1>1, <2>1, <2>3, <2>4, <2>5 DEF IInv, Visiting, IsAt
<1>8. Paid'
  <2>1. ASSUME NEW v \in Visits \ doubtful'
        PROVE  OnePayment(v)' /\ OneOrder(v)'
    <3>1. OnePayment(v) /\ OneOrder(v)
      BY <1>1 DEF IInv, Paid
    <3>2. \A u \in Tabs : IsAt(u, v)' <=> IsAt(u, v)
      BY <1>1 DEF IsAt
    <3>3. CASE v = pay[s].visit
      <4>1. PaysFor(s, v)
        BY <1>1, <3>3 DEF PaysFor
      <4>2. OrdersOf(v) = {} /\ \A x \in Slots : PaysFor(x, v) => x = s
        BY <1>1, <3>1, <4>1 DEF OnePayment
      <4>3. \A x \in Slots : ~PaysFor(x, v)'
        BY <1>1, <4>2 DEF PaysFor
      <4>4. OrdersOf(v)' = OrdersOf(v) /\ told'[v] = "failed"
        BY <1>1, <3>3 DEF OrdersOf, IInv, Types, TabTypes
      <4> QED
        BY <3>1, <4>2, <4>3, <4>4 DEF OnePayment, OneOrder
    <3>4. CASE v # pay[s].visit
      <4>1. \A x \in Slots : (PaysFor(x, v)' <=> PaysFor(x, v)) /\ (PaysFor(x, v) => pay'[x] = pay[x])
        BY <1>1, <3>4 DEF PaysFor
      <4>2. told'[v] = told[v] /\ OrdersOf(v)' = OrdersOf(v)
        BY <1>1, <3>4 DEF OrdersOf, IInv, Types, TabTypes
      <4>3. \A u \in Tabs : IsAt(u, v) => tab'[u] = tab[u]
        BY <1>1, <3>4 DEF IsAt
      <4> QED
        BY <3>1, <3>2, <4>1, <4>2, <4>3 DEF OnePayment, OneOrder
    <3> QED
      BY <3>3, <3>4
  <2> QED
    BY <2>1 DEF Paid
<1>9. AdminTypes' /\ Heard'
  BY <1>1, AdministratorKeeps
<1> QED
  BY <1>9, <1>2, <1>3, <1>4, <1>5, <1>6, <1>7, <1>8 DEF IInv, Types

\* Nobody waits for an answer.
LEMMA ForgottenKeeps ==
  ASSUME IInv, NEW s \in Slots, Forgotten(s)
  PROVE  IInv'
<1>1. /\ pay[s].stage # "idle" /\ ~pay[s].alive
      /\ pay' \in [Slots -> Payments] /\ \A x \in Slots \ {s} : pay'[x] = pay[x]
      /\ pay[s].visit \in Visits /\ pay[s].tab \in Tabs /\ pay'[s].stage = "idle"
      /\ UNCHANGED <<stock, active, cart, orders, tab, told, doubtful, adjusted, touched, overlapped, faults>>
      /\ UNCHANGED Admin
  <2>1. /\ UNCHANGED <<stock, active, cart, orders, tab, told, doubtful, adjusted, touched, overlapped, faults>>
        /\ UNCHANGED Admin
    BY DEF Forgotten, Gateway, Admin
  <2>2. pay[s].stage \in {"made", "cleared", "refused", "failed"}
    BY DEF Forgotten
  <2>3. pay[s].visit \in Visits /\ pay[s].tab \in Tabs
    BY <2>2, PaymentStages DEF IInv, Types, PayTypes
  <2>4. Idle \in Payments /\ Idle.stage = "idle" /\ pay' = [pay EXCEPT ![s] = Idle]
    BY DEF Forgotten, Payments, Idle
  <2>5. /\ pay' \in [Slots -> Payments] /\ pay'[s].stage = "idle"
        /\ \A x \in Slots \ {s} : pay'[x] = pay[x]
    BY <2>4, PaySet DEF IInv, Types
  <2>6. ~pay[s].alive
    BY DEF Forgotten
  <2> QED
    BY <2>1, <2>2, <2>3, <2>5, <2>6
<1>2. GatewayTypes'
  BY <1>1 DEF IInv, Types, GatewayTypes
<1>3. OrderTypes'
  BY <1>1 DEF IInv, Types, OrderTypes, Orders
<1>4. TabTypes'
  BY <1>1 DEF IInv, Types, TabTypes
<1>5. PayTypes'
  BY <1>1 DEF IInv, Types, PayTypes
<1>6. Numbered'
  BY <1>1 DEF IInv, Numbered
<1>7. Visiting'
  BY <1>1 DEF IInv, Visiting, IsAt
<1>8. Paid'
  <2>1. ASSUME NEW v \in Visits \ doubtful'
        PROVE  OnePayment(v)' /\ OneOrder(v)'
    <3>1. OnePayment(v) /\ OneOrder(v)
      BY <1>1 DEF IInv, Paid
    <3>2. ~PaysFor(s, v)
      BY <1>1, <3>1 DEF OnePayment
    <3>3. \A x \in Slots : (PaysFor(x, v)' <=> PaysFor(x, v)) /\ (PaysFor(x, v) => pay'[x] = pay[x])
      BY <1>1, <3>2 DEF PaysFor
    <3> QED
      BY <1>1, <3>1, <3>3 DEF OnePayment, OneOrder, IsAt, OrdersOf
  <2> QED
    BY <2>1 DEF Paid
<1>9. AdminTypes' /\ Heard'
  BY <1>1, AdministratorKeeps
<1> QED
  BY <1>9, <1>2, <1>3, <1>4, <1>5, <1>6, <1>7, <1>8 DEF IInv, Types

\* A checkout page is reloaded.
LEMMA ReloadKeeps ==
  ASSUME IInv, NEW t \in Tabs, Reload(t)
  PROVE  IInv'
<1>1. /\ tab' \in [Tabs -> TabStates] /\ \A x \in Tabs \ {t} : tab'[x] = tab[x]
      /\ tab'[t].page = tab[t].page /\ tab'[t].visit = tab[t].visit
      /\ pay' \in [Slots -> Payments]
      /\ \A x \in Slots :
           \/ pay[x].tab # t /\ pay'[x] = pay[x]
           \/ pay[x].stage = "idle" /\ pay'[x] = pay[x]
           \/ /\ pay[x].stage # "idle" /\ pay[x].visit \in doubtful'
              /\ pay'[x].stage \in {"idle", pay[x].stage} /\ (pay'[x].stage # "idle" => pay'[x].visit = pay[x].visit)
              /\ pay'[x].stage = "read" => pay'[x].units = pay[x].units /\ pay'[x].saw = pay[x].saw
      /\ doubtful \subseteq doubtful' /\ doubtful' \subseteq Visits
      /\ faults' \in 0 .. MaxFaults
      /\ UNCHANGED <<stock, active, cart, orders, told, adjusted, touched, overlapped>>
      /\ UNCHANGED Admin
  <2>1. /\ UNCHANGED <<stock, active, cart, orders, told, adjusted, touched, overlapped>>
        /\ UNCHANGED Admin
    BY DEF Reload, Gateway, Admin
  <2>2. faults' \in 0 .. MaxFaults
    BY CheckoutPageAssumption DEF CheckoutPageAssumption, Reload, IInv, Types, TabTypes
  <2>3. \A x \in Slots : pay[x].stage # "idle" => pay[x].visit \in Visits
    BY PaymentStages DEF IInv, Types, PayTypes
  <2>4. PICK mine \in SUBSET Slots :
          /\ \A x \in Slots : x \in mine <=> pay[x].stage # "idle" /\ pay[x].tab = t
          /\ pay' = [x \in Slots |-> IF x \notin mine THEN pay[x]
                                     ELSE IF pay[x].stage = "paying" THEN Idle
                                     ELSE [pay[x] EXCEPT !.alive = FALSE]]
          /\ doubtful' = doubtful \union {pay[x].visit : x \in mine}
    BY DEF Reload, Underway
  <2>5. doubtful \subseteq doubtful' /\ doubtful' \subseteq Visits
    BY <2>3, <2>4 DEF IInv, Types, TabTypes
  <2>6. ASSUME NEW x \in Slots
        PROVE  /\ pay'[x] \in Payments
               /\ \/ pay[x].tab # t /\ pay'[x] = pay[x]
                  \/ pay[x].stage = "idle" /\ pay'[x] = pay[x]
                  \/ /\ pay[x].stage # "idle" /\ pay[x].visit \in doubtful'
                     /\ pay'[x].stage \in {"idle", pay[x].stage} /\ (pay'[x].stage # "idle" => pay'[x].visit = pay[x].visit)
                     /\ pay'[x].stage = "read" =>
                          pay'[x].units = pay[x].units /\ pay'[x].saw = pay[x].saw
    <3>1. pay[x] \in Payments
      BY DEF IInv, Types, PayTypes
    <3>2. CASE x \notin mine
      BY <2>4, <3>1, <3>2
    <3>3. CASE x \in mine /\ pay[x].stage = "paying"
      <4>1. pay'[x] = Idle
        BY <2>4, <3>3
      <4> QED
        BY <2>4, <3>3, <4>1 DEF Idle, Payments
    <3>4. CASE x \in mine /\ pay[x].stage # "paying"
      <4>1. PICK c : c = [pay[x] EXCEPT !.alive = FALSE]
        OBVIOUS
      <4>2. pay'[x] = c
        BY <2>4, <3>4, <4>1
      <4>3. pay[x].stage # "idle" /\ pay[x].visit \in doubtful'
        BY <2>4, <3>4
      <4>4. /\ c \in Payments /\ c.stage = pay[x].stage /\ c.visit = pay[x].visit
            /\ c.stage = "read" => c.units = pay[x].units /\ c.saw = pay[x].saw
        <5>1. CASE pay[x] \in Pending
          BY <4>1, <5>1 DEF Pending, Payments
        <5>2. CASE pay[x] \in Reading
          BY <4>1, <5>2 DEF Reading, Payments
        <5>3. CASE pay[x] \in Answered
          BY <4>1, <5>3 DEF Answered, Payments
        <5> QED
          BY <3>1, <4>3, <5>1, <5>2, <5>3, PaymentStages
      <4> QED
        BY <4>2, <4>3, <4>4
    <3> QED
      BY <3>2, <3>3, <3>4
  <2>7. pay' \in [Slots -> Payments]
    BY <2>4, <2>6
  <2>8. PICK c : c = [tab[t] EXCEPT !.items = tab[t].given, !.filled = FALSE, !.paying = FALSE]
    OBVIOUS
  <2>9. c \in TabStates /\ c.page = tab[t].page /\ c.visit = tab[t].visit
    BY <2>8 DEF TabStates, IInv, Types, TabTypes
  <2>10. tab' = [tab EXCEPT ![t] = c]
    BY <2>8 DEF Reload, IInv, Types, TabTypes
  <2>11. tab' \in [Tabs -> TabStates] /\ tab'[t] = c /\ \A x \in Tabs \ {t} : tab'[x] = tab[x]
    BY <2>9, <2>10, TabSet DEF IInv, Types
  <2> QED
    BY <2>1, <2>2, <2>5, <2>6, <2>7, <2>9, <2>11
<1>2. GatewayTypes'
  BY <1>1 DEF IInv, Types, GatewayTypes
<1>3. OrderTypes'
  BY <1>1 DEF IInv, Types, OrderTypes, Orders
<1>4. TabTypes'
  BY <1>1 DEF IInv, Types, TabTypes
<1>5. PayTypes'
  <2>1. \A x \in Slots : pay'[x].stage = "read" =>
          pay[x].stage = "read" /\ pay'[x].units = pay[x].units /\ pay'[x].saw = pay[x].saw
    BY <1>1
  <2>2. \A x \in Slots : pay'[x].stage = "read" => WithinStock(pay'[x])
    BY <2>1 DEF IInv, Types, PayTypes, WithinStock
  <2> QED
    BY <1>1, <2>2 DEF PayTypes
<1>6. Numbered'
  BY <1>1 DEF IInv, Numbered
<1>7. Visiting'
  BY <1>1 DEF IInv, Visiting, IsAt
<1>8. Paid'
  <2>1. ASSUME NEW v \in Visits \ doubtful'
        PROVE  OnePayment(v)' /\ OneOrder(v)'
    <3>1. OnePayment(v) /\ OneOrder(v)
      BY <1>1 DEF IInv, Paid
    <3>2. \A u \in Tabs : IsAt(u, v)' <=> IsAt(u, v)
      BY <1>1 DEF IsAt
    <3>3. \A x \in Slots : PaysFor(x, v) \/ PaysFor(x, v)' =>
            PaysFor(x, v) /\ PaysFor(x, v)' /\ pay[x].tab # t /\ pay'[x] = pay[x]
      BY <1>1 DEF PaysFor
    <3>4. \A x \in Slots : PaysFor(x, v) => ~IsAt(t, v)
      BY <3>1, <3>3 DEF OnePayment
    <3>5. OrdersOf(v)' = OrdersOf(v)
      BY <1>1 DEF OrdersOf
    <3> QED
      BY <1>1, <3>1, <3>2, <3>3, <3>4, <3>5 DEF OnePayment, OneOrder
  <2> QED
    BY <2>1 DEF Paid
<1>9. AdminTypes' /\ Heard'
  BY <1>1, AdministratorKeeps
<1> QED
  BY <1>9, <1>2, <1>3, <1>4, <1>5, <1>6, <1>7, <1>8 DEF IInv, Types

-----------------------------------------------------------------------------
(* The administrator's products                                              *)

\* A page that is left hears of no call.
LEMMA UnheardCalls ==
  ASSUME AdminTypes
  PROVE  /\ Unheard \in [Calls -> ProductCalls]
         /\ \A a \in Calls : /\ Unheard[a].stage = call[a].stage
                             /\ call[a].stage # "idle" => ~Unheard[a].here /\ Unheard[a].kind = call[a].kind
<1> SUFFICES ASSUME NEW a \in Calls
             PROVE  /\ Unheard[a] \in ProductCalls /\ Unheard[a].stage = call[a].stage
                    /\ call[a].stage # "idle" => ~Unheard[a].here /\ Unheard[a].kind = call[a].kind
  BY DEF Unheard
<1>1. call[a] \in ProductCalls
  BY DEF AdminTypes
<1>2. CASE call[a].stage = "idle"
  BY <1>2 DEF Unheard, Idle, ProductCalls
<1>3. CASE call[a].stage # "idle"
  <2>1. PICK c : c = [call[a] EXCEPT !.here = FALSE]
    OBVIOUS
  <2>2. Unheard[a] = c
    BY <1>3, <2>1 DEF Unheard
  <2>3. CASE call[a] \in Asked
    BY <2>1, <2>2, <2>3 DEF Asked, ProductCalls
  <2>4. CASE call[a] \in Replied
    BY <2>1, <2>2, <2>4 DEF Replied, ProductCalls
  <2> QED
    BY <1>1, <1>3, <2>3, <2>4, CallStages
<1> QED
  BY <1>2, <1>3

\* A call is answered, or fails.
LEMMA CallAnswered ==
  ASSUME AdminTypes, NEW a \in Calls, call[a].stage # "idle", NEW st \in {"done", "failed"},
         call' = AnsweredTo(a, st)
  PROVE  /\ call' \in [Calls -> ProductCalls] /\ \A b \in Calls \ {a} : call'[b] = call[b]
         /\ call'[a].stage = st /\ call'[a].kind = call[a].kind /\ call'[a].here = call[a].here
<1>1. PICK c : c = [stage |-> st, kind |-> call[a].kind, here |-> call[a].here]
  OBVIOUS
<1>2. c \in ProductCalls /\ c.stage = st /\ c.kind = call[a].kind /\ c.here = call[a].here
  BY <1>1, CallStages DEF AdminTypes, Replied, ProductCalls
<1>3. call' = [call EXCEPT ![a] = c]
  BY <1>1 DEF AnsweredTo, AdminTypes
<1> QED
  BY <1>2, <1>3, CallSet

\* The computed product has its type.
LEMMA AdjustedRow ==
  ASSUME NEW a \in Calls, call[a] \in Asked
  PROVE  Adjusted(a).stock \in Int /\ Adjusted(a).active \in BOOLEAN /\ Meant(a) \in Int
<1>1. /\ call[a].saw \in ProductRows /\ call[a].typed \in ProductRows /\ call[a].listed \in ProductRows
      /\ call[a].kind \in Kinds
  BY DEF Asked
<1>2. Adjusted(a).stock \in Int /\ Adjusted(a).active \in BOOLEAN
  <2>1. CASE call[a].kind = "plus"
    BY <1>1, <2>1 DEF Adjusted, ProductRows, NotBelowZero
  <2>2. CASE call[a].kind = "minus"
    BY <1>1, <2>2 DEF Adjusted, ProductRows, NotBelowZero
  <2>3. CASE call[a].kind = "disable"
    BY <1>1, <2>3 DEF Adjusted, ProductRows
  <2>4. CASE call[a].kind = "update"
    BY <1>1, <2>4 DEF Adjusted, ProductRows
  <2> QED
    BY <1>1, <2>1, <2>2, <2>3, <2>4 DEF Kinds
<1> QED
  BY <1>1, <1>2 DEF Meant, ProductRows

\* The table opens.
LEMMA OpenProductsKeeps ==
  ASSUME IInv, OpenProducts
  PROVE  IInv'
<1>1. /\ admin' \in AdminPages /\ admin'.page = "loading"
      /\ call' \in [Calls -> ProductCalls]
      /\ \A b \in Calls : call'[b].stage # "idle" => ~call'[b].here
      /\ changes' = changes
      /\ UNCHANGED <<orders, tab, pay, told, doubtful, faults>>
      /\ UNCHANGED <<stock, active, cart, adjusted, touched, overlapped>>
  <2>1. /\ UNCHANGED <<orders, tab, pay, told, doubtful, faults>>
        /\ UNCHANGED <<stock, active, cart, adjusted, touched, overlapped>>
    BY DEF OpenProducts, Gateway, Shop
  <2>2. call' \in [Calls -> ProductCalls] /\ \A b \in Calls : call'[b].stage # "idle" => ~call'[b].here
    BY UnheardCalls DEF OpenProducts, IInv, Types
  <2> QED
    BY <2>1, <2>2 DEF OpenProducts, AdminPages
<1>2. GatewayTypes'
  BY <1>1 DEF IInv, Types, GatewayTypes
<1>3. AdminTypes'
  BY <1>1 DEF IInv, Types, AdminTypes
<1>4. Heard'
  BY <1>1 DEF IInv, Types, Heard
<1> QED
  BY <1>1, <1>2, <1>3, <1>4, CustomersKeep

\* The table is read.
LEMMA ListProductsKeeps ==
  ASSUME IInv, ListProducts
  PROVE  IInv'
<1>1. /\ admin' \in AdminPages /\ admin'.page = "table" /\ admin.page = "loading"
      /\ call' = call /\ changes' = changes
      /\ UNCHANGED <<orders, tab, pay, told, doubtful, faults>>
      /\ UNCHANGED <<stock, active, cart, adjusted, touched, overlapped>>
  <2>1. /\ UNCHANGED <<orders, tab, pay, told, doubtful, faults>>
        /\ UNCHANGED <<stock, active, cart, adjusted, touched, overlapped>>
    BY DEF ListProducts, Gateway, Shop
  <2>2. Rows \in TableRows
    BY RowsAreRows DEF IInv, Types
  <2> QED
    BY <2>1, <2>2 DEF ListProducts, AdminPages
<1>2. GatewayTypes'
  BY <1>1 DEF IInv, Types, GatewayTypes
<1>3. AdminTypes'
  BY <1>1 DEF IInv, Types, AdminTypes
<1>4. Heard'
  BY <1>1 DEF IInv, Types, Heard
<1> QED
  BY <1>1, <1>2, <1>3, <1>4, CustomersKeep

\* The administrator's pages are left.
LEMMA LeaveProductsKeeps ==
  ASSUME IInv, LeaveProducts
  PROVE  IInv'
<1>1. /\ admin' \in AdminPages
      /\ call' \in [Calls -> ProductCalls]
      /\ \A b \in Calls : call'[b].stage # "idle" => ~call'[b].here
      /\ changes' = changes
      /\ UNCHANGED <<orders, tab, pay, told, doubtful, faults>>
      /\ UNCHANGED <<stock, active, cart, adjusted, touched, overlapped>>
  <2>1. /\ UNCHANGED <<orders, tab, pay, told, doubtful, faults>>
        /\ UNCHANGED <<stock, active, cart, adjusted, touched, overlapped>>
    BY DEF LeaveProducts, Gateway, Shop
  <2>2. call' \in [Calls -> ProductCalls] /\ \A b \in Calls : call'[b].stage # "idle" => ~call'[b].here
    BY UnheardCalls DEF LeaveProducts, IInv, Types
  <2> QED
    BY <2>1, <2>2 DEF LeaveProducts, AdminPages
<1>2. GatewayTypes'
  BY <1>1 DEF IInv, Types, GatewayTypes
<1>3. AdminTypes'
  BY <1>1 DEF IInv, Types, AdminTypes
<1>4. Heard'
  BY <1>1 DEF IInv, Types, Heard
<1> QED
  BY <1>1, <1>2, <1>3, <1>4, CustomersKeep

\* The form opens.
LEMMA EditProductKeeps ==
  ASSUME IInv, NEW p \in Products, EditProduct(p)
  PROVE  IInv'
<1>1. /\ admin' \in AdminPages
      /\ call' \in [Calls -> ProductCalls]
      /\ \A b \in Calls : call'[b].stage # "idle" => ~call'[b].here
      /\ changes' = changes
      /\ UNCHANGED <<orders, tab, pay, told, doubtful, faults>>
      /\ UNCHANGED <<stock, active, cart, adjusted, touched, overlapped>>
  <2>1. /\ UNCHANGED <<orders, tab, pay, told, doubtful, faults>>
        /\ UNCHANGED <<stock, active, cart, adjusted, touched, overlapped>>
    BY DEF EditProduct, Gateway, Shop
  <2>2. call' \in [Calls -> ProductCalls] /\ \A b \in Calls : call'[b].stage # "idle" => ~call'[b].here
    BY UnheardCalls DEF EditProduct, IInv, Types
  <2>3. admin.rows[p] \in ProductRows
    BY DEF EditProduct, IInv, Types, AdminTypes, AdminPages, TableRows
  <2> QED
    BY <2>1, <2>2, <2>3 DEF EditProduct, AdminPages
<1>2. GatewayTypes'
  BY <1>1 DEF IInv, Types, GatewayTypes
<1>3. AdminTypes'
  BY <1>1 DEF IInv, Types, AdminTypes
<1>4. Heard'
  BY <1>1 DEF IInv, Types, Heard
<1> QED
  BY <1>1, <1>2, <1>3, <1>4, CustomersKeep

\* A change is sent.
LEMMA ChangeSent ==
  ASSUME AdminTypes, NEW kind \in Kinds, NEW p \in Products, NEW typed \in ProductRows,
         NEW listed \in ProductRows, Send(kind, p, typed, listed)
  PROVE  /\ changes' \in 0 .. MaxChanges /\ call' \in [Calls -> ProductCalls]
         /\ UNCHANGED <<orders, tab, pay, told, doubtful, faults>>
         /\ UNCHANGED <<stock, active, cart, adjusted, touched, overlapped>>
         /\ \E a \in Calls : /\ call[a].stage = "idle"
                             /\ call'[a].stage = "sent" /\ call'[a].kind = kind /\ call'[a].here
                             /\ \A b \in Calls \ {a} : call'[b] = call[b]
<1>1. PICK c : c = [stage |-> "sent", kind |-> kind, product |-> p, here |-> TRUE, typed |-> typed,
                    listed |-> listed, saw |-> Unseen]
  OBVIOUS
<1>2. c \in ProductCalls /\ c.stage = "sent" /\ c.kind = kind /\ c.here
  BY <1>1 DEF Unseen, ProductRows, Asked, ProductCalls
<1>3. PICK a \in Calls : call[a].stage = "idle" /\ call' = [call EXCEPT ![a] = c]
  BY <1>1 DEF Send
<1>4. changes' \in 0 .. MaxChanges
  BY CheckoutPageAssumption DEF CheckoutPageAssumption, Send, AdminTypes
<1>5. /\ UNCHANGED <<orders, tab, pay, told, doubtful, faults>>
      /\ UNCHANGED <<stock, active, cart, adjusted, touched, overlapped>>
  BY DEF Send, Gateway, Shop
<1> QED
  BY <1>2, <1>3, <1>4, <1>5, CallSet

\* A button of the table is clicked.
LEMMA ClickProductKeeps ==
  ASSUME IInv, NEW p \in Products, ClickProduct(p)
  PROVE  IInv'
<1>1. /\ admin' = admin /\ admin.page = "table"
      /\ changes' \in 0 .. MaxChanges /\ call' \in [Calls -> ProductCalls]
      /\ \E a \in Calls : /\ call[a].stage = "idle" /\ call'[a].kind # "update"
                           /\ \A b \in Calls \ {a} : call'[b] = call[b]
      /\ UNCHANGED <<orders, tab, pay, told, doubtful, faults>>
      /\ UNCHANGED <<stock, active, cart, adjusted, touched, overlapped>>
  <2>1. PICK kind \in {"plus", "minus", "disable"} : Send(kind, p, Unseen, Unseen)
    BY DEF ClickProduct
  <2>2. Unseen \in ProductRows
    BY DEF Unseen, ProductRows
  <2>3. kind \in Kinds
    BY DEF Kinds
  <2> QED
    BY <2>1, <2>2, <2>3, ChangeSent DEF ClickProduct, IInv, Types
<1>2. GatewayTypes'
  BY <1>1 DEF IInv, Types, GatewayTypes
<1>3. AdminTypes'
  BY <1>1 DEF IInv, Types, AdminTypes
<1>4. Heard'
  BY <1>1 DEF IInv, Types, Heard
<1> QED
  BY <1>1, <1>2, <1>3, <1>4, CustomersKeep

\* The form is sent.
LEMMA SubmitProductKeeps ==
  ASSUME IInv, SubmitProduct
  PROVE  IInv'
<1>1. /\ admin' \in AdminPages /\ admin.page = "form" /\ admin'.page = "sending"
      /\ changes' \in 0 .. MaxChanges /\ call' \in [Calls -> ProductCalls]
      /\ \E a \in Calls : /\ call[a].stage = "idle" /\ call'[a].kind = "update"
                           /\ \A b \in Calls \ {a} : call'[b] = call[b]
      /\ UNCHANGED <<orders, tab, pay, told, doubtful, faults>>
      /\ UNCHANGED <<stock, active, cart, adjusted, touched, overlapped>>
  <2>1. PICK n \in {admin.listed.stock} \union TypedStocks, on \in BOOLEAN :
          Send("update", admin.product, [admin.listed EXCEPT !.stock = n, !.active = on], admin.listed)
    BY DEF SubmitProduct
  <2>2. admin.page = "form" /\ admin.product \in Products /\ admin.listed \in ProductRows
    BY DEF SubmitProduct, IInv, Types, AdminTypes, AdminPages
  <2>3. PICK row : row = [admin.listed EXCEPT !.stock = n, !.active = on]
    OBVIOUS
  <2>4. admin.listed.stock \in Int
    BY <2>2 DEF ProductRows
  <2>5. n \in Int
    BY <2>4, CheckoutPageAssumption DEF CheckoutPageAssumption
  <2>6. row \in ProductRows
    BY <2>2, <2>3, <2>5 DEF ProductRows
  <2>7. admin' \in AdminPages /\ admin'.page = "sending"
    BY <2>2 DEF SubmitProduct, IInv, Types, AdminTypes, AdminPages
  <2>8. "update" \in Kinds /\ Send("update", admin.product, row, admin.listed)
    BY <2>1, <2>3 DEF Kinds
  <2> QED
    BY <2>2, <2>6, <2>7, <2>8, ChangeSent DEF IInv, Types
<1>2. GatewayTypes'
  BY <1>1 DEF IInv, Types, GatewayTypes
<1>3. AdminTypes'
  BY <1>1 DEF IInv, Types, AdminTypes
<1>4. Heard'
  BY <1>1 DEF IInv, Types, Heard
<1> QED
  BY <1>1, <1>2, <1>3, <1>4, CustomersKeep

\* A product is read.
LEMMA ReadProductKeeps ==
  ASSUME IInv, NEW a \in Calls, ReadProduct(a)
  PROVE  IInv'
<1>1. /\ UNCHANGED <<admin, changes>>
      /\ call' \in [Calls -> ProductCalls] /\ \A b \in Calls \ {a} : call'[b] = call[b]
      /\ call[a].stage # "idle" /\ call'[a].kind = call[a].kind /\ call'[a].here = call[a].here
      /\ UNCHANGED <<orders, tab, pay, told, doubtful, faults>>
      /\ UNCHANGED <<stock, active, cart, adjusted, touched, overlapped>>
  <2>1. /\ UNCHANGED <<orders, tab, pay, told, doubtful, faults>>
        /\ UNCHANGED <<stock, active, cart, adjusted, touched, overlapped>>
    BY DEF ReadProduct, Gateway, Shop
  <2>2. call[a] \in Asked /\ call[a].stage = "sent"
    BY CallStages DEF ReadProduct, IInv, Types, AdminTypes
  <2>3. Row(call[a].product) \in ProductRows
    BY <2>2, RowsAreRows DEF IInv, Types, Asked
  <2>4. PICK c : c = [call[a] EXCEPT !.stage = "read", !.saw = Row(call[a].product)]
    OBVIOUS
  <2>5. c \in ProductCalls /\ c.kind = call[a].kind /\ c.here = call[a].here
    BY <2>2, <2>3, <2>4 DEF Asked, ProductCalls
  <2>6. call' = [call EXCEPT ![a] = c]
    BY <2>4 DEF ReadProduct, IInv, Types, AdminTypes
  <2>7. UNCHANGED <<admin, changes>>
    BY DEF ReadProduct
  <2> QED
    BY <2>1, <2>2, <2>5, <2>6, <2>7, CallSet DEF IInv, Types
<1>2. GatewayTypes'
  BY <1>1 DEF IInv, Types, GatewayTypes
<1>3. AdminTypes'
  BY <1>1 DEF IInv, Types, AdminTypes
<1>4. Heard'
  BY <1>1 DEF IInv, Types, Heard
<1> QED
  BY <1>1, <1>2, <1>3, <1>4, CustomersKeep

\* A change is committed.
LEMMA CommitProductKeeps ==
  ASSUME IInv, NEW a \in Calls, CommitProduct(a)
  PROVE  IInv'
<1>1. /\ UNCHANGED <<admin, changes, cart>>
      /\ call' \in [Calls -> ProductCalls] /\ \A b \in Calls \ {a} : call'[b] = call[b]
      /\ call[a].stage # "idle" /\ call'[a].kind = call[a].kind /\ call'[a].here = call[a].here
      /\ stock' \in [Products -> Int] /\ active' \in [Products -> BOOLEAN]
      /\ adjusted' \in [Products -> Int] /\ touched' \in [Products -> Nat]
      /\ overlapped' \subseteq Products
      /\ UNCHANGED <<orders, tab, pay, told, doubtful, faults>>
  <2>1. /\ UNCHANGED <<orders, tab, pay, told, doubtful, faults>>
    BY DEF CommitProduct
  <2>2. call[a] \in Asked /\ call[a].stage = "read"
    BY CallStages DEF CommitProduct, IInv, Types, AdminTypes
  <2>3. /\ call' \in [Calls -> ProductCalls] /\ \A b \in Calls \ {a} : call'[b] = call[b]
        /\ call'[a].kind = call[a].kind /\ call'[a].here = call[a].here
    BY <2>2, CallAnswered DEF CommitProduct, IInv, Types
  <2>4. Adjusted(a).stock \in Int /\ Adjusted(a).active \in BOOLEAN /\ Meant(a) \in Int
    BY <2>2, AdjustedRow
  <2>5. call[a].product \in Products
    BY <2>2 DEF Asked
  <2>6. /\ stock \in [Products -> Int] /\ active \in [Products -> BOOLEAN]
        /\ adjusted \in [Products -> Int] /\ touched \in [Products -> Nat] /\ overlapped \subseteq Products
    BY DEF IInv, Types, GatewayTypes
  <2>7. stock' \in [Products -> Int]
    BY <2>4, <2>5, <2>6 DEF CommitProduct
  <2>8. active' \in [Products -> BOOLEAN]
    BY <2>4, <2>5, <2>6 DEF CommitProduct
  <2>9. adjusted' \in [Products -> Int]
    BY <2>4, <2>5, <2>6 DEF CommitProduct
  <2>10. touched' \in [Products -> Nat]
    <3>1. touched' \in {touched, [touched EXCEPT ![call[a].product] = @ + 1]}
      BY DEF CommitProduct
    <3> QED
      BY <2>5, <2>6, <3>1
  <2>11. overlapped' \subseteq Products
    <3>1. overlapped' \in {overlapped, overlapped \union {call[a].product}}
      BY DEF CommitProduct
    <3> QED
      BY <2>5, <2>6, <3>1
  <2>12. UNCHANGED <<admin, changes, cart>>
    BY DEF CommitProduct
  <2> QED
    BY <2>1, <2>2, <2>3, <2>7, <2>8, <2>9, <2>10, <2>11, <2>12
<1>2. GatewayTypes'
  BY <1>1 DEF IInv, Types, GatewayTypes
<1>3. AdminTypes'
  BY <1>1 DEF IInv, Types, AdminTypes
<1>4. Heard'
  BY <1>1 DEF IInv, Types, Heard
<1> QED
  BY <1>1, <1>2, <1>3, <1>4, CustomersKeep

\* A change fails.
LEMMA ChangeFailsKeeps ==
  ASSUME IInv, NEW a \in Calls, ChangeFails(a)
  PROVE  IInv'
<1>1. /\ UNCHANGED <<admin, changes>>
      /\ call' \in [Calls -> ProductCalls] /\ \A b \in Calls \ {a} : call'[b] = call[b]
      /\ call[a].stage # "idle" /\ call'[a].kind = call[a].kind /\ call'[a].here = call[a].here
      /\ UNCHANGED <<orders, tab, pay, told, doubtful, faults>>
      /\ UNCHANGED <<stock, active, cart, adjusted, touched, overlapped>>
  <2>1. /\ UNCHANGED <<orders, tab, pay, told, doubtful, faults>>
        /\ UNCHANGED <<stock, active, cart, adjusted, touched, overlapped>>
    BY DEF ChangeFails, Gateway, Shop
  <2>2. call[a].stage \in {"sent", "done"} /\ call' = AnsweredTo(a, "failed")
    BY DEF ChangeFails
  <2>3. UNCHANGED <<admin, changes>>
    BY DEF ChangeFails
  <2> QED
    BY <2>1, <2>2, <2>3, CallAnswered DEF IInv, Types
<1>2. GatewayTypes'
  BY <1>1 DEF IInv, Types, GatewayTypes
<1>3. AdminTypes'
  BY <1>1 DEF IInv, Types, AdminTypes
<1>4. Heard'
  BY <1>1 DEF IInv, Types, Heard
<1> QED
  BY <1>1, <1>2, <1>3, <1>4, CustomersKeep

\* A change is answered.
LEMMA FinishChangeKeeps ==
  ASSUME IInv, NEW a \in Calls, FinishChange(a)
  PROVE  IInv'
<1>1. /\ changes' = changes
      /\ call' \in [Calls -> ProductCalls] /\ call'[a].stage = "idle"
      /\ admin' \in AdminPages
      /\ \/ /\ admin' = admin /\ \A b \in Calls \ {a} : call'[b] = call[b]
         \/ /\ admin'.page = "loading" /\ \A b \in Calls : call'[b].stage # "idle" => ~call'[b].here
         \/ /\ admin'.page = "loading" /\ admin.page \in {"loading", "table"}
            /\ \A b \in Calls \ {a} : call'[b] = call[b]
         \/ /\ admin'.page = "form" /\ call[a].stage # "idle" /\ call[a].kind = "update" /\ call[a].here
            /\ \A b \in Calls \ {a} : call'[b] = call[b]
      /\ UNCHANGED <<orders, tab, pay, told, doubtful, faults>>
      /\ UNCHANGED <<stock, active, cart, adjusted, touched, overlapped>>
  <2>1. /\ UNCHANGED <<orders, tab, pay, told, doubtful, faults>>
        /\ UNCHANGED <<stock, active, cart, adjusted, touched, overlapped>>
    BY DEF FinishChange, Gateway, Shop
  <2>2. /\ call[a].stage \in {"done", "failed"} /\ changes' = changes
        /\ Idle \in ProductCalls /\ Idle.stage = "idle"
    BY DEF FinishChange, Idle, ProductCalls
  <2>3. CASE call[a].stage = "done" /\ call[a].kind = "update" /\ admin.page \notin {"loading", "table"}
    <3>1. admin' = [page |-> "loading"] /\ call' = [Unheard EXCEPT ![a] = Idle]
      BY <2>3 DEF FinishChange, Resubmits
    <3>2. /\ call' \in [Calls -> ProductCalls] /\ call'[a].stage = "idle"
          /\ \A b \in Calls : call'[b].stage # "idle" => ~call'[b].here
      BY <2>2, <3>1, UnheardCalls DEF IInv, Types
    <3>3. admin' \in AdminPages /\ admin'.page = "loading"
      BY <3>1 DEF AdminPages
    <3> QED
      BY <2>1, <2>2, <3>2, <3>3
  <2>4. CASE ~(call[a].stage = "done" /\ call[a].kind = "update" /\ admin.page \notin {"loading", "table"})
    <3>1. call' = [call EXCEPT ![a] = Idle]
      BY <2>4 DEF FinishChange
    <3>2. /\ call' \in [Calls -> ProductCalls] /\ call'[a].stage = "idle"
          /\ \A b \in Calls \ {a} : call'[b] = call[b]
      BY <2>2, <3>1, CallSet DEF IInv, Types
    <3>3. CASE call[a].stage = "done" /\ call[a].kind # "update" /\ call[a].here
      <4>1. admin' = [page |-> "loading"]
        BY <3>3 DEF FinishChange, Resubmits
      <4>2. admin' \in AdminPages /\ admin'.page = "loading"
        BY <4>1 DEF AdminPages
      <4>3. admin.page \in {"loading", "table"}
        BY <2>2, <3>3 DEF IInv, Heard
      <4> QED
        BY <2>1, <2>2, <3>2, <4>2, <4>3
    <3>4. CASE call[a].stage = "failed" /\ call[a].kind = "update" /\ call[a].here
      <4>1. admin' = [admin EXCEPT !.page = "form"]
        BY <3>4 DEF FinishChange, Resubmits
      <4>2. admin.page = "sending"
        BY <2>2, <3>4 DEF IInv, Heard
      <4>3. admin' \in AdminPages /\ admin'.page = "form"
        BY <4>1, <4>2 DEF AdminPages, IInv, Types, AdminTypes
      <4> QED
        BY <2>1, <2>2, <3>2, <3>4, <4>3
    <3>5. CASE /\ ~(call[a].stage = "done" /\ call[a].kind # "update" /\ call[a].here)
               /\ ~(call[a].stage = "failed" /\ call[a].kind = "update" /\ call[a].here)
      <4>1. admin' = admin
        BY <2>2, <2>4, <3>5 DEF FinishChange, Resubmits
      <4> QED
        BY <2>1, <2>2, <3>2, <4>1 DEF IInv, Types, AdminTypes
    <3> QED
      BY <3>3, <3>4, <3>5
  <2> QED
    BY <2>3, <2>4
<1>2. GatewayTypes'
  BY <1>1 DEF IInv, Types, GatewayTypes
<1>3. AdminTypes'
  BY <1>1 DEF IInv, Types, AdminTypes
<1>4. Heard'
  BY <1>1 DEF IInv, Types, Heard
<1> QED
  BY <1>1, <1>2, <1>3, <1>4, CustomersKeep

-----------------------------------------------------------------------------
(* The theorems                                                              *)

\* The invariant holds before anything is ordered.
LEMMA Starts == Init => IInv
<1> SUFFICES ASSUME Init PROVE IInv
  OBVIOUS
<1>1. NoUnits \in Units
  BY CheckoutPageAssumption DEF CheckoutPageAssumption, NoUnits, Units
<1>2. GatewayTypes
  BY <1>1, CheckoutPageAssumption DEF CheckoutPageAssumption, Init, GatewayTypes
<1>3. OrderTypes
  BY FS_EmptySet DEF Init, OrderTypes
<1>4. TabTypes /\ \A t \in Tabs : tab[t].page = "shop"
  BY ElsewhereState, CheckoutPageAssumption DEF CheckoutPageAssumption, Init, TabTypes
<1>5. PayTypes /\ \A s \in Slots : pay[s].stage = "idle"
  BY DEF Init, PayTypes, Payments, Idle
<1>6. AdminTypes /\ \A a \in Calls : call[a].stage = "idle"
  BY CheckoutPageAssumption
     DEF CheckoutPageAssumption, Init, AdminTypes, AdminPages, ProductCalls, Idle
<1>7. Numbered
  <2>1. 0 \in 0 .. MaxVisits /\ (\A v \in Visits : told[v] = "unvisited" /\ ~(v <= 0))
    BY CheckoutPageAssumption DEF CheckoutPageAssumption, Init, Visits
  <2> QED
    BY <2>1 DEF Numbered
<1>8. Heard /\ Visiting
  BY <1>4, <1>5, <1>6 DEF Init, Heard, Visiting
<1>9. Paid
  BY <1>4, <1>5 DEF Init, Paid, OnePayment, OneOrder, PaysFor, OrdersOf
<1> QED
  BY <1>2, <1>3, <1>4, <1>5, <1>6, <1>7, <1>8, <1>9 DEF IInv, Types

\* The invariant speaks of the variables alone.
LEMMA StuttersKeep == IInv /\ UNCHANGED vars => IInv'
<1> SUFFICES ASSUME IInv, UNCHANGED vars PROVE IInv'
  OBVIOUS
<1>1. /\ UNCHANGED <<stock, active, cart, orders, tab, pay, told, doubtful>>
      /\ UNCHANGED <<admin, call, changes, adjusted, touched, overlapped, faults>>
  BY DEF vars
<1>2. GatewayTypes' /\ AdminTypes' /\ Heard'
  BY <1>1 DEF IInv, Types, GatewayTypes, AdminTypes, Heard
<1> QED
  BY <1>1, <1>2, CustomersKeep

\* What the checkout page, the calls it leaves behind and the gateway keep
\* knowing of each other (checkoutPage.jsx and create_order).
THEOREM Invariance == Spec => []IInv
<1>1. IInv /\ [Next]_vars => IInv'
  <2> SUFFICES ASSUME IInv, Next PROVE IInv'
    BY StuttersKeep
  <2>1. ASSUME NEW c \in Customers, CartChanges(c)
        PROVE  IInv'
    BY <2>1, CartChangesKeeps
  <2>2. ASSUME NEW t \in Tabs,
               \/ GoToCheckout(t) \/ Leave(t) \/ EditItems(t)
               \/ FillForm(t) \/ PlaceOrder(t) \/ Reload(t)
        PROVE  IInv'
    BY <2>2, GoToCheckoutKeeps, LeaveKeeps, EditItemsKeeps, FillFormKeeps, PlaceOrderKeeps,
       ReloadKeeps
  <2>3. ASSUME NEW s \in Slots, Progress(s) \/ Refuse(s) \/ AnswerLost(s)
        PROVE  IInv'
    BY <2>3, PostOrderKeeps, ReadStockKeeps, CommitOrderKeeps, ClearCartKeeps, ConfirmKeeps,
       ReportFailureKeeps, ForgottenKeeps, RefuseKeeps, AnswerLostKeeps DEF Progress
  <2>4. ASSUME OpenProducts \/ ListProducts \/ LeaveProducts \/ SubmitProduct
        PROVE  IInv'
    BY <2>4, OpenProductsKeeps, ListProductsKeeps, LeaveProductsKeeps, SubmitProductKeeps
  <2>5. ASSUME NEW p \in Products, EditProduct(p) \/ ClickProduct(p)
        PROVE  IInv'
    BY <2>5, EditProductKeeps, ClickProductKeeps
  <2>6. ASSUME NEW a \in Calls, ReadProduct(a) \/ CommitProduct(a) \/ ChangeFails(a) \/ FinishChange(a)
        PROVE  IInv'
    BY <2>6, ReadProductKeeps, CommitProductKeeps, ChangeFailsKeeps, FinishChangeKeeps
  <2> QED
    BY <2>1, <2>2, <2>3, <2>4, <2>5, <2>6 DEF Next
<1> QED
  BY Starts, <1>1, PTL DEF Spec

\* Every variable keeps its type: a stock is an integer, as the form takes negative
\* ones, and a page shows what it has, whichever calls end on it (updateProductPage,
\* ProductIn, create_order).
THEOREM PaymentTypes == Spec => []TypeOK
<1>1. IInv => TypeOK
  <2> SUFFICES ASSUME IInv PROVE TypeOK
    OBVIOUS
  <2>1. \A s \in Slots : pay[s].stage \in {"idle", "paying", "sent", "read", "refused", "made", "failed", "cleared"}
    BY PaymentStages DEF IInv, Types, PayTypes
  <2>2. \A a \in Calls : call[a].stage \in {"idle", "sent", "read", "done", "failed"}
    BY CallStages DEF IInv, Types, AdminTypes
  <2>3. admin \in AdminPages /\ changes \in 0 .. MaxChanges
    BY DEF IInv, Types, AdminTypes
  <2>4. \A o \in orders : o.id \in 1 .. Cardinality(orders) /\ o.visit \in Visits /\ o.units \in Units
    BY DEF IInv, Types, OrderTypes, Orders
  <2>5. \A t \in Tabs : tab[t] \in TabStates
    BY DEF IInv, Types, TabTypes
  <2> QED
    BY <2>1, <2>2, <2>3, <2>4, <2>5 DEF IInv, Types, GatewayTypes, TabTypes, TabStates, TypeOK
<1> QED
  BY Invariance, <1>1, PTL

\* What the customer is told of a checkout is so, and it makes one order at most,
\* whatever pages are left, opened again or paid twice, unless an answer was lost,
\* the cart was not cleared or the page was reloaded (placeOrder, create_order).
THEOREM PaymentsStayTrue == Spec => []PaymentsAreToldTruly
<1>1. IInv => PaymentsAreToldTruly
  <2> SUFFICES ASSUME IInv, NEW v \in Visits \ doubtful
               PROVE  /\ Cardinality(OrdersOf(v)) <= 1
                      /\ told[v] = "failed" => OrdersOf(v) = {}
                      /\ told[v] = "placed" => OrdersOf(v) # {}
    BY DEF PaymentsAreToldTruly
  <2>1. OneOrder(v)
    BY DEF IInv, Paid
  <2>2. Cardinality(OrdersOf(v)) <= 1
    <3>1. CASE OrdersOf(v) = {}
      BY <3>1, FS_EmptySet
    <3>2. CASE OrdersOf(v) # {}
      <4>1. PICK o : OrdersOf(v) = {o}
        BY <2>1, <3>2 DEF OneOrder
      <4> QED
        BY <4>1, FS_Singleton
    <3> QED
      BY <3>1, <3>2
  <2> QED
    BY <2>1, <2>2 DEF OneOrder
<1> QED
  BY Invariance, <1>1, PTL

-----------------------------------------------------------------------------
(* Stock                                                                     *)

\* A row that was read tells the stock unless the product was written since.
UpToDate(row, p) ==
  row.version <= Version(p) /\ (row.version = Version(p) => row.stock = stock[p])

\* Orders alone lose no units: a stock, now or as it was read, and what has been
\* ordered are no less than there was at first.
NoLess(n, p) == touched[p] = 0 => n + Ordered(p) >= InitStock[p]

\* What a payment, the administrator's page and a call of it know of products.
PayKnows(x) ==
  x.stage = "read" => \A p \in Products : UpToDate(x.saw[p], p) /\ NoLess(x.saw[p].stock, p)
PageKnows(x) ==
  /\ x.page = "table" => \A p \in Products : UpToDate(x.rows[p], p)
  /\ x.page \in {"form", "sending"} => UpToDate(x.listed, x.product)
CallKnows(x) ==
  /\ x.stage = "read" => UpToDate(x.saw, x.product)
  /\ x.stage \in {"sent", "read"} /\ x.kind = "update" => UpToDate(x.listed, x.product)

Readers ==
  /\ \A s \in Slots : PayKnows(pay[s])
  /\ PageKnows(admin)
  /\ \A a \in Calls : CallKnows(call[a])
Counted == \A a \in Calls : call[a].stage # "idle" => changes > 0
\* The stock and the orders of a product add up, but for orders with two lines of it.
AddsUp(p) ==
  /\ stock[p] + Ordered(p) >= InitStock[p] + adjusted[p]
  /\ stock[p] + Ordered(p) = InitStock[p] + adjusted[p] \/ Twice(p)
Balanced ==
  /\ \A p \in Products : IsFiniteSet(OrderedUnits(p))
  /\ \A p \in Products \ overlapped : AddsUp(p)
  /\ \A p \in Products : NoLess(stock[p], p)
  /\ changes = 0 => \A p \in Products : stock[p] >= 0 /\ (active[p] => stock[p] > 0)

\* Whoever computes a stock from what was read either knows the stock or leaves
\* the product overlapped.
IStock == Readers /\ Counted /\ Balanced

LEMMA VersionIsNat ==
  ASSUME IInv, NEW p \in Products
  PROVE  Version(p) \in Nat
<1>1. IsFiniteSet({o \in orders : p \in Of(o.units)})
  BY FS_Subset DEF IInv, Types, OrderTypes
<1>2. touched[p] \in Nat
  BY DEF IInv, Types, GatewayTypes
<1> QED
  BY <1>1, <1>2, FS_CardinalityType DEF Version

\* A row that is read now is up to date.
LEMMA RowsUpToDate ==
  ASSUME IInv, NEW p \in Products
  PROVE  UpToDate(Row(p), p) /\ UpToDate(Rows[p], p) /\ Rows[p].stock = stock[p]
BY VersionIsNat DEF UpToDate, Row, Rows

\* A step that leaves the gateway's products alone need only show what the
\* others know after it.
LEMMA QuietKeeps ==
  ASSUME IStock, UNCHANGED <<stock, active, orders, adjusted, touched, overlapped>>,
         changes' = 0 => changes = 0,
         \A s \in Slots : PayKnows(pay'[s]), PageKnows(admin'),
         \A a \in Calls : CallKnows(call'[a]), Counted'
  PROVE  IStock'
<1>0. \A row, p : UpToDate(row, p)' <=> UpToDate(row, p)
  BY DEF UpToDate, Version
<1>1. \A n, p : NoLess(n, p)' <=> NoLess(n, p)
  BY DEF NoLess, Ordered, OrderedUnits
<1>2. (\A s \in Slots : PayKnows(pay[s])') /\ (\A a \in Calls : CallKnows(call[a])') /\ PageKnows(admin)'
  BY <1>0, <1>1 DEF PayKnows, CallKnows, PageKnows
<1>3. \A p \in Products : OrderedUnits(p)' = OrderedUnits(p)
  BY DEF OrderedUnits
<1>4. Balanced'
  BY <1>1, <1>3 DEF IStock, Balanced, AddsUp, Ordered, Twice
<1> QED
  BY <1>2, <1>4 DEF IStock, Readers

\* The steps of the customers that write no stock.
LEMMA CustomersQuiet ==
  ASSUME IInv, IStock,
         \/ \E c \in Customers : CartChanges(c)
         \/ \E t \in Tabs : \/ GoToCheckout(t) \/ Leave(t) \/ EditItems(t)
                            \/ FillForm(t) \/ PlaceOrder(t) \/ Reload(t)
         \/ \E s \in Slots : \/ PostOrder(s) \/ ReadStock(s) \/ ClearCart(s) \/ Confirm(s)
                             \/ ReportFailure(s) \/ Forgotten(s) \/ Refuse(s) \/ AnswerLost(s)
  PROVE  IStock'
<1>1. UNCHANGED <<stock, active, orders, adjusted, touched, overlapped>> /\ UNCHANGED Admin
  BY DEF CartChanges, GoToCheckout, Leave, EditItems, FillForm, PlaceOrder, Reload, PostOrder,
     ReadStock, ClearCart, Confirm, ReportFailure, Forgotten, Refuse, AnswerLost, Gateway, Admin
<1>2. \A s \in Slots : PayKnows(pay[s])
  BY DEF IStock, Readers
<1>t. pay \in [Slots -> Payments]
  BY DEF IInv, Types, PayTypes
<1>3. \A s \in Slots : PayKnows(pay'[s])
  <2>1. CASE UNCHANGED pay
    BY <1>2, <2>1
  <2>2. ASSUME NEW t \in Tabs, PlaceOrder(t)
        PROVE  \A s \in Slots : PayKnows(pay'[s])
    <3>1. PICK s \in Slots : \E x : x.stage = "paying" /\ pay' = [pay EXCEPT ![s] = x]
      BY <2>2 DEF PlaceOrder
    <3> QED
      BY <1>2, <1>t, <3>1 DEF PayKnows
  <2>3. ASSUME NEW t \in Tabs, Reload(t)
        PROVE  \A s \in Slots : PayKnows(pay'[s])
    <3>1. SUFFICES ASSUME NEW s \in Slots PROVE PayKnows(pay'[s])
      OBVIOUS
    <3>2. PICK x : x = [pay[s] EXCEPT !.alive = FALSE]
      OBVIOUS
    <3>3. pay'[s] \in {pay[s], Idle, x}
      BY <2>3, <3>2 DEF Reload
    <3>4. PayKnows(x) /\ PayKnows(Idle)
      <4>1. pay[s].stage \in {"read"} => pay[s] \in Reading
        BY <1>t DEF Payments, Idle, Pending, Reading, Answered
      <4>2. x.stage = pay[s].stage /\ (pay[s].stage = "read" => x.saw = pay[s].saw)
        BY <3>2, <4>1, <1>t DEF Payments, Idle, Pending, Reading, Answered
      <4> QED
        BY <1>2, <4>2 DEF PayKnows, Idle
    <3> QED
      BY <1>2, <3>3, <3>4
  <2>4. ASSUME NEW s \in Slots, ReadStock(s)
        PROVE  \A r \in Slots : PayKnows(pay'[r])
    <3>1. pay[s] \in Pending
      BY <2>4, <1>t, PaymentStages DEF ReadStock
    <3>2. PICK x : x = Done(s, "refused")
      OBVIOUS
    <3>3. PICK y : y = [pay[s] EXCEPT !.stage = "read", !.units = Resolved(s), !.saw = Rows]
      OBVIOUS
    <3>4. pay' = [pay EXCEPT ![s] = x] \/ pay' = [pay EXCEPT ![s] = y]
      BY <2>4, <3>2, <3>3, <1>t DEF ReadStock
    <3>5. PayKnows(x) /\ PayKnows(y)
      BY <3>1, <3>2, <3>3, RowsUpToDate DEF PayKnows, Done, Pending, IStock, Balanced
    <3> QED
      BY <1>2, <1>t, <3>4, <3>5
  <2>5. ASSUME NEW s \in Slots, \/ PostOrder(s) \/ ClearCart(s) \/ Confirm(s) \/ ReportFailure(s)
                                \/ Forgotten(s) \/ Refuse(s) \/ AnswerLost(s)
        PROVE  \A r \in Slots : PayKnows(pay'[r])
    <3>1. PICK x : x.stage # "read" /\ pay' = [pay EXCEPT ![s] = x]
      <4>1. CASE Confirm(s) \/ ReportFailure(s) \/ Forgotten(s)
        BY <4>1 DEF Confirm, ReportFailure, Forgotten, Idle
      <4>2. CASE Refuse(s)
        BY <4>2 DEF Refuse, Done
      <4>3. CASE PostOrder(s)
        <5>1. PICK x : x = [pay[s] EXCEPT !.stage = "sent"]
          OBVIOUS
        <5>2. pay[s] \in Pending
          BY <4>3, <1>t DEF PostOrder, Payments, Idle, Pending, Reading, Answered
        <5>3. x.stage = "sent"
          BY <5>1, <5>2 DEF Pending
        <5> QED
          BY <4>3, <5>1, <5>3, <1>t DEF PostOrder
      <4>4. CASE ClearCart(s) \/ AnswerLost(s)
        <5>1. PICK x : pay' = [pay EXCEPT ![s] = x]
                       /\ (x = [pay[s] EXCEPT !.stage = "cleared"] \/ x = [pay[s] EXCEPT !.stage = "failed"])
          BY <4>4, <1>t DEF ClearCart, AnswerLost
        <5>2. pay[s] \in Answered
          BY <4>4, <1>t DEF ClearCart, AnswerLost, Payments, Idle, Pending, Reading, Answered
        <5>3. x.stage # "read"
          BY <5>1, <5>2 DEF Answered
        <5> QED
          BY <5>1, <5>3
      <4> QED
        BY <2>5, <4>1, <4>2, <4>3, <4>4
    <3> QED
      BY <1>2, <1>t, <3>1 DEF PayKnows
  <2>6. \/ UNCHANGED pay
        \/ \E t \in Tabs : PlaceOrder(t) \/ Reload(t)
        \/ \E s \in Slots : ReadStock(s)
        \/ \E s \in Slots : \/ PostOrder(s) \/ ClearCart(s) \/ Confirm(s) \/ ReportFailure(s)
                            \/ Forgotten(s) \/ Refuse(s) \/ AnswerLost(s)
    BY DEF CartChanges, GoToCheckout, Leave, EditItems, FillForm
  <2> QED
    BY <2>1, <2>2, <2>3, <2>4, <2>5, <2>6
<1>4. PageKnows(admin') /\ (\A a \in Calls : CallKnows(call'[a])) /\ Counted' /\ changes' = changes
  BY <1>1 DEF Admin, IStock, Readers, Counted
<1> QED
  BY <1>1, <1>3, <1>4, QuietKeeps

\* Calls that are not heard of any more know what they knew.
LEMMA UnheardKnow ==
  ASSUME IInv, IStock, NEW a \in Calls
  PROVE  CallKnows(call[a]) /\ CallKnows(Unheard[a]) /\ Unheard[a].stage = call[a].stage
<1>1. call[a] \in ProductCalls /\ CallKnows(call[a])
  BY DEF IInv, Types, AdminTypes, IStock, Readers
<1>2. CASE call[a].stage = "idle"
  BY <1>1, <1>2 DEF Unheard, CallKnows, Idle
<1>3. CASE call[a].stage \in {"done", "failed"}
  <2>1. PICK c : c = [call[a] EXCEPT !.here = FALSE]
    OBVIOUS
  <2>2. Unheard[a] = c /\ c.stage = call[a].stage
    BY <1>1, <1>3, <2>1, CallStages DEF Unheard, Replied
  <2> QED
    BY <1>1, <1>3, <2>2 DEF CallKnows
<1>4. CASE call[a].stage \in {"sent", "read"}
  <2>1. PICK c : c = [call[a] EXCEPT !.here = FALSE]
    OBVIOUS
  <2>2. Unheard[a] = c
    BY <1>4, <2>1 DEF Unheard
  <2>3. /\ c.stage = call[a].stage /\ c.kind = call[a].kind /\ c.product = call[a].product
        /\ c.saw = call[a].saw /\ c.listed = call[a].listed
    BY <1>1, <1>4, <2>1, CallStages DEF Asked
  <2> QED
    BY <1>1, <2>2, <2>3 DEF CallKnows
<1> QED
  BY <1>1, <1>2, <1>3, <1>4, CallStages

\* The steps of the administrator that write no stock: a new call knows the row
\* its form shows.
LEMMA SendKnows ==
  ASSUME IInv, IStock, NEW kind \in Kinds, NEW p \in Products, NEW typed, NEW listed,
         Send(kind, p, typed, listed), kind = "update" => UpToDate(listed, p)
  PROVE  (\A a \in Calls : CallKnows(call'[a])) /\ Counted' /\ (changes' = 0 => changes = 0)
<1>1. PICK c : c = [stage |-> "sent", kind |-> kind, product |-> p, here |-> TRUE, typed |-> typed,
                    listed |-> listed, saw |-> Unseen]
  OBVIOUS
<1>2. CallKnows(c)
  BY <1>1 DEF CallKnows
<1>3. PICK a \in Calls : call' = [call EXCEPT ![a] = c]
  BY <1>1 DEF Send
<1>4. changes \in Nat /\ changes' = changes + 1
  BY CheckoutPageAssumption DEF CheckoutPageAssumption, Send, IInv, Types, AdminTypes
<1>5. \A b \in Calls : CallKnows(call'[b])
  BY <1>2, <1>3 DEF IInv, Types, AdminTypes, IStock, Readers
<1> QED
  BY <1>4, <1>5 DEF Counted

LEMMA AdministratorQuiet ==
  ASSUME IInv, IStock,
         \/ OpenProducts \/ ListProducts \/ LeaveProducts \/ SubmitProduct
         \/ \E p \in Products : EditProduct(p) \/ ClickProduct(p)
         \/ \E a \in Calls : ReadProduct(a) \/ ChangeFails(a) \/ FinishChange(a)
  PROVE  IStock'
<1>1. UNCHANGED <<stock, active, orders, adjusted, touched, overlapped>> /\ UNCHANGED pay
  BY DEF OpenProducts, ListProducts, LeaveProducts, SubmitProduct, EditProduct, ClickProduct, Send,
     ReadProduct, ChangeFails, FinishChange, Gateway, Shop
<1>2. \A s \in Slots : PayKnows(pay'[s])
  BY <1>1 DEF IStock, Readers
<1>3. PageKnows(admin) /\ \A a \in Calls : CallKnows(call[a])
  BY DEF IStock, Readers
<1>t. call \in [Calls -> ProductCalls] /\ admin \in AdminPages
  BY DEF IInv, Types, AdminTypes
<1> DEFINE Quiet == /\ PageKnows(admin') /\ \A a \in Calls : CallKnows(call'[a])
                    /\ Counted' /\ (changes' = 0 => changes = 0)
<1>4. ASSUME OpenProducts \/ LeaveProducts
      PROVE  Quiet
  <2>1. admin'.page \in {"loading", "away"} /\ call' = Unheard /\ UNCHANGED changes
    BY <1>4 DEF OpenProducts, LeaveProducts
  <2> QED
    BY <2>1, UnheardKnow DEF PageKnows, Counted, IStock
<1>5. ASSUME ListProducts
      PROVE  Quiet
  <2>1. admin' = [page |-> "table", rows |-> Rows] /\ UNCHANGED <<call, changes>>
    BY <1>5 DEF ListProducts
  <2>2. PageKnows(admin')
    BY <2>1, RowsUpToDate DEF PageKnows
  <2> QED
    BY <1>3, <2>1, <2>2 DEF Counted, IStock
<1>6. ASSUME NEW p \in Products, EditProduct(p)
      PROVE  Quiet
  <2>1. /\ admin.page = "table" /\ call' = Unheard /\ UNCHANGED changes
        /\ admin' = [page |-> "form", product |-> p, listed |-> admin.rows[p]]
    BY <1>6 DEF EditProduct
  <2>2. PageKnows(admin')
    BY <1>3, <2>1 DEF PageKnows
  <2> QED
    BY <2>1, <2>2, UnheardKnow DEF Counted, IStock
<1>7. ASSUME NEW p \in Products, ClickProduct(p)
      PROVE  Quiet
  <2>1. PICK kind \in {"plus", "minus", "disable"} : Send(kind, p, Unseen, Unseen)
    BY <1>7 DEF ClickProduct
  <2>2. UNCHANGED admin
    BY <1>7 DEF ClickProduct
  <2> QED
    BY <1>3, <2>1, <2>2, SendKnows DEF Kinds
<1>8. ASSUME SubmitProduct
      PROVE  Quiet
  <2>1. admin.page = "form" /\ admin' = [admin EXCEPT !.page = "sending"]
    BY <1>8 DEF SubmitProduct
  <2>2. PICK typed : Send("update", admin.product, typed, admin.listed)
    BY <1>8 DEF SubmitProduct
  <2>3. admin.product \in Products /\ UpToDate(admin.listed, admin.product)
    BY <1>3, <1>t, <2>1 DEF PageKnows, AdminPages
  <2>4. PICK x : x = [admin EXCEPT !.page = "sending"]
    OBVIOUS
  <2>5. x.page = "sending" /\ x.product = admin.product /\ x.listed = admin.listed
    BY <1>t, <2>1, <2>4 DEF AdminPages
  <2>6. PageKnows(admin')
    BY <2>1, <2>3, <2>4, <2>5 DEF PageKnows
  <2> QED
    BY <2>2, <2>3, <2>6, SendKnows DEF Kinds
<1>9. ASSUME NEW a \in Calls, ReadProduct(a)
      PROVE  Quiet
  <2>1. PICK c : c = [call[a] EXCEPT !.stage = "read", !.saw = Row(call[a].product)]
    OBVIOUS
  <2>2. call[a] \in Asked /\ call[a].stage = "sent"
    BY <1>9, <1>t, CallStages DEF ReadProduct
  <2>3. /\ c.kind = call[a].kind /\ c.product = call[a].product /\ c.product \in Products
        /\ c.saw = Row(c.product) /\ c.listed = call[a].listed
    BY <2>1, <2>2 DEF Asked
  <2>4. CallKnows(c)
    BY <1>3, <2>2, <2>3, RowsUpToDate DEF CallKnows
  <2>5. call' = [call EXCEPT ![a] = c] /\ UNCHANGED <<admin, changes>>
    BY <1>9, <2>1, <1>t DEF ReadProduct
  <2>6. Counted'
    BY <1>t, <2>2, <2>5 DEF Counted, IStock
  <2> QED
    BY <1>3, <1>t, <2>4, <2>5, <2>6
<1>10. ASSUME NEW a \in Calls, ChangeFails(a)
       PROVE  Quiet
  <2>1. PICK c : c = [stage |-> "failed", kind |-> call[a].kind, here |-> call[a].here]
    OBVIOUS
  <2>2. call' = [call EXCEPT ![a] = c] /\ call[a].stage # "idle" /\ UNCHANGED <<admin, changes>>
    BY <1>10, <2>1, <1>t DEF ChangeFails, AnsweredTo
  <2>3. CallKnows(c)
    BY <2>1 DEF CallKnows
  <2>4. Counted'
    BY <1>t, <2>2 DEF Counted, IStock
  <2> QED
    BY <1>3, <1>t, <2>2, <2>3, <2>4
<1>11. ASSUME NEW a \in Calls, FinishChange(a)
       PROVE  Quiet
  <2>1. /\ call' = [call EXCEPT ![a] = Idle] \/ call' = [Unheard EXCEPT ![a] = Idle]
        /\ UNCHANGED changes
    BY <1>11 DEF FinishChange, Resubmits
  <2>2. PICK x : x = [admin EXCEPT !.page = "form"]
    OBVIOUS
  <2>3. \/ admin' = [page |-> "loading"] \/ admin' = admin
        \/ /\ call[a].stage = "failed" /\ call[a].kind = "update" /\ call[a].here
           /\ admin' = x
    BY <1>11, <2>2 DEF FinishChange, Resubmits
  <2>4. PageKnows(admin')
    <3>1. CASE admin' = [page |-> "loading"] \/ admin' = admin
      BY <1>3, <3>1 DEF PageKnows
    <3>2. CASE call[a].stage = "failed" /\ call[a].kind = "update" /\ call[a].here /\ admin' = x
      <4>1. admin.page = "sending"
        BY <3>2 DEF IInv, Heard
      <4>2. x.page = "form" /\ x.product = admin.product /\ x.listed = admin.listed
        BY <1>t, <2>2, <4>1 DEF AdminPages
      <4> QED
        BY <1>3, <3>2, <4>1, <4>2 DEF PageKnows
    <3> QED
      BY <2>3, <3>1, <3>2
  <2>5. Unheard \in [Calls -> ProductCalls] /\ CallKnows(Idle)
    BY UnheardCalls DEF IInv, Types, CallKnows, Idle
  <2>6. \A b \in Calls : call'[b] \in {call[b], Unheard[b], Idle}
    BY <1>t, <2>1, <2>5
  <2>7. (\A b \in Calls : CallKnows(call'[b])) /\ Counted'
    BY <2>1, <2>5, <2>6, UnheardKnow DEF Counted, IStock, Idle
  <2> QED
    BY <2>1, <2>4, <2>7
<1> QED
  BY <1>1, <1>2, <1>4, <1>5, <1>6, <1>7, <1>8, <1>9, <1>10, <1>11, QuietKeeps

\* The units N of an order are as many as the pairs of it with them.
LEMMA PairsCount ==
  ASSUME NEW o, NEW N, IsFiniteSet(N)
  PROVE  IsFiniteSet({o} \X N) /\ Cardinality({o} \X N) = Cardinality(N)
<1> DEFINE f == [x \in N |-> <<o, x>>]
<1>1. f \in Bijection(N, {o} \X N)
  <2>1. f \in [N -> {o} \X N] /\ \A x, y \in N : f[x] = f[y] => x = y
    OBVIOUS
  <2>2. \A u \in {o} \X N : \E x \in N : f[x] = u
    OBVIOUS
  <2> QED
    BY <2>1, <2>2 DEF Bijection, Injection, Surjection, IsInjective
<1> QED
  BY <1>1, FS_Bijection DEF ExistsBijection

\* What an order adds to the units ordered and to the version of a product.
LEMMA OrderAdds ==
  ASSUME IInv, IStock, NEW s \in Slots, CommitOrder(s), NEW p \in Products
  PROVE  /\ Ordered(p) \in Nat /\ Version(p) \in Nat
         /\ IsFiniteSet(OrderedUnits(p))'
         /\ Ordered(p)' = Ordered(p) + Cardinality(UnitsOf(pay[s].units, p))
         /\ Version(p)' = Version(p) + IF p \in Of(pay[s].units) THEN 1 ELSE 0
<1>1. PICK q : q = [id |-> Cardinality(orders) + 1, visit |-> pay[s].visit, units |-> pay[s].units]
  OBVIOUS
<1>2. orders' = orders \union {q} /\ q.units = pay[s].units /\ UNCHANGED touched
  BY <1>1 DEF CommitOrder
<1>3. q \notin orders
  <2>1. Cardinality(orders) \in Nat
    BY FS_CardinalityType DEF IInv, Types, OrderTypes
  <2>2. q.id = Cardinality(orders) + 1 /\ \A o \in orders : o.id \in 1 .. Cardinality(orders)
    BY <1>1 DEF IInv, Types, OrderTypes, Orders
  <2> QED
    BY <2>1, <2>2
<1>4. IsFiniteSet(UnitsOf(pay[s].units, p))
  <2>1. pay[s].units \in Units
    BY PaymentStages DEF CommitOrder, IInv, Types, PayTypes, Reading
  <2> QED
    BY <2>1, UnitsCount
<1>5. PICK U : U = OrderedUnits(p)
  OBVIOUS
<1>6. OrderedUnits(p)' = U \cup ({q} \X UnitsOf(pay[s].units, p))
  BY <1>2, <1>5 DEF OrderedUnits
<1>7. IsFiniteSet(U) /\ \A u \in U : u[1] # q
  BY <1>3, <1>5 DEF OrderedUnits, IStock, Balanced
<1>8. /\ IsFiniteSet(OrderedUnits(p))'
      /\ Ordered(p)' = Ordered(p) + Cardinality(UnitsOf(pay[s].units, p))
  <2>1. PICK N : N = UnitsOf(pay[s].units, p)
    OBVIOUS
  <2>2. IsFiniteSet(N)
    BY <1>4, <2>1
  <2>3. PICK M : M = {q} \X N
    OBVIOUS
  <2>4. IsFiniteSet(M) /\ Cardinality(M) = Cardinality(N)
    BY <2>2, <2>3, PairsCount
  <2>5. U \cap M = {}
    BY <1>7, <2>3
  <2>6. /\ IsFiniteSet(U \cup M)
        /\ Cardinality(U \cup M) = Cardinality(U) + Cardinality(M) - Cardinality(U \cap M)
    BY <1>7, <2>4, FS_Union
  <2>7. Cardinality(U) \in Nat /\ Cardinality(M) \in Nat /\ Cardinality(U \cap M) = 0
    BY <1>7, <2>4, <2>5, FS_CardinalityType, FS_EmptySet
  <2> QED
    BY <1>5, <1>6, <2>1, <2>3, <2>4, <2>6, <2>7 DEF Ordered
<1>9. PICK S : S = {o \in orders : p \in Of(o.units)}
  OBVIOUS
<1>10. IsFiniteSet(S) /\ q \notin S /\ Cardinality(S) \in Nat
  BY <1>3, <1>9, FS_Subset, FS_CardinalityType DEF IInv, Types, OrderTypes
<1>11. PICK T : T = {o \in orders : p \in Of(o.units)}'
  OBVIOUS
<1>12. Cardinality(T) = Cardinality(S) + IF p \in Of(pay[s].units) THEN 1 ELSE 0
  <2>1. CASE p \in Of(pay[s].units)
    <3>1. T = S \cup {q}
      BY <1>2, <1>9, <1>11, <2>1
    <3> QED
      BY <1>10, <2>1, <3>1, FS_AddElement
  <2>2. CASE ~(p \in Of(pay[s].units))
    <3>1. T = S
      BY <1>2, <1>9, <1>11, <2>2
    <3> QED
      BY <1>10, <2>2, <3>1
  <2> QED
    BY <2>1, <2>2
<1>13. touched[p] \in Nat
  BY DEF IInv, Types, GatewayTypes
<1>14. Version(p)' = Version(p) + IF p \in Of(pay[s].units) THEN 1 ELSE 0
  BY <1>2, <1>9, <1>10, <1>11, <1>12, <1>13 DEF Version
<1>15. Ordered(p) \in Nat
  BY <1>5, <1>7, FS_CardinalityType DEF Ordered
<1> QED
  BY <1>8, <1>14, <1>15, VersionIsNat

\* A row that is out of date stays so, and what a write changes gets a version.
LEMMA WritesAge ==
  ASSUME NEW p \in Products, Version(p) \in Nat,
         touched'[p] = 0 => touched[p] = 0, Ordered(p)' >= Ordered(p),
         Ordered(p) \in Nat, Ordered(p)' \in Nat, InitStock[p] \in Nat,
         \/ stock'[p] = stock[p] /\ Version(p)' = Version(p)
         \/ Version(p)' = Version(p) + 1,
         NEW row \in ProductRows, UpToDate(row, p)
  PROVE  UpToDate(row, p)' /\ (NoLess(row.stock, p) => NoLess(row.stock, p)')
<1>1. UpToDate(row, p)'
  BY DEF UpToDate, ProductRows
<1>2. NoLess(row.stock, p) => NoLess(row.stock, p)'
  BY DEF NoLess, ProductRows
<1> QED
  BY <1>1, <1>2

\* What all the readers know after such a write of some products.
LEMMA ReadersAge ==
  ASSUME IInv, IStock,
         \A p \in Products : \/ stock'[p] = stock[p] /\ Version(p)' = Version(p)
                             \/ Version(p)' = Version(p) + 1,
         \A p \in Products : /\ touched'[p] = 0 => touched[p] = 0
                             /\ Ordered(p)' \in Nat /\ Ordered(p)' >= Ordered(p),
         \A s \in Slots : pay'[s] = pay[s] \/ pay'[s].stage # "read",
         \A a \in Calls : call'[a] = call[a] \/ call'[a].stage \notin {"sent", "read"},
         UNCHANGED admin
  PROVE  Readers'
<1>1. ASSUME NEW p \in Products, NEW row \in ProductRows, UpToDate(row, p)
      PROVE  UpToDate(row, p)' /\ (NoLess(row.stock, p) => NoLess(row.stock, p)')
  <2>1. Ordered(p) \in Nat /\ InitStock[p] \in Nat
    BY FS_CardinalityType, CheckoutPageAssumption
       DEF CheckoutPageAssumption, IStock, Balanced, Ordered
  <2> QED
    BY <1>1, <2>1, WritesAge, VersionIsNat
<1>2. ASSUME NEW s \in Slots
      PROVE  PayKnows(pay[s])'
  <2>1. PICK x : x = pay[s] /\ x \in Payments
    BY DEF IInv, Types, PayTypes
  <2>2. PayKnows(x)
    BY <2>1 DEF IStock, Readers
  <2>3. x.stage = "read" => x.saw \in TableRows
    BY <2>1, PaymentStages DEF Reading
  <2>4. PayKnows(x)'
    BY <1>1, <2>2, <2>3 DEF PayKnows, TableRows
  <2> QED
    BY <2>1, <2>4 DEF PayKnows
<1>3. ASSUME NEW a \in Calls
      PROVE  CallKnows(call[a])'
  <2>1. PICK x : x = call[a] /\ x \in ProductCalls
    BY DEF IInv, Types, AdminTypes
  <2>2. CallKnows(x)
    BY <2>1 DEF IStock, Readers
  <2>3. x.stage \in {"sent", "read"} =>
          x.saw \in ProductRows /\ x.listed \in ProductRows /\ x.product \in Products
    BY <2>1, CallStages DEF Asked
  <2>4. CallKnows(x)'
    BY <1>1, <2>2, <2>3 DEF CallKnows
  <2> QED
    BY <2>1, <2>4 DEF CallKnows
<1>4. PageKnows(admin)'
  <2>1. PICK x : x = admin /\ x \in AdminPages
    BY DEF IInv, Types, AdminTypes
  <2>2. PageKnows(x)
    BY <2>1 DEF IStock, Readers
  <2>3. /\ x.page = "table" => x.rows \in TableRows
        /\ x.page \in {"form", "sending"} => x.listed \in ProductRows /\ x.product \in Products
    BY <2>1 DEF AdminPages
  <2>4. PageKnows(x)'
    BY <1>1, <2>2, <2>3 DEF PageKnows, TableRows
  <2> QED
    BY <2>1, <2>4 DEF PageKnows
<1> QED
  BY <1>2, <1>3, <1>4 DEF Readers

\* create_order: the stock it writes is that of the product less what is ordered,
\* or no less if there are two lines of it, or the product is overlapped.
LEMMA CommitOrderBalances ==
  ASSUME IInv, IStock, NEW s \in Slots, CommitOrder(s)
  PROVE  IStock'
<1> DEFINE n(p) == Cardinality(UnitsOf(pay[s].units, p))
<1>1. pay[s] \in Reading /\ pay[s].stage = "read" /\ PayKnows(pay[s]) /\ WithinStock(pay[s])
  BY PaymentStages DEF CommitOrder, IInv, Types, PayTypes, IStock, Readers
<1>2. UNCHANGED <<admin, call, changes, adjusted, touched>>
  BY DEF CommitOrder, Admin
<1>3. pay[s].units \in Units
  BY <1>1 DEF Reading
<1>4. ASSUME NEW p \in Products
      PROVE  /\ n(p) \in Nat /\ pay[s].saw[p].stock \in Int /\ stock[p] \in Int
             /\ adjusted[p] \in Int /\ InitStock[p] \in Nat
  <2>1. n(p) \in Nat
    BY <1>3, UnitsCount
  <2> QED
    BY <1>1, <2>1, CheckoutPageAssumption
       DEF CheckoutPageAssumption, Reading, TableRows, ProductRows, IInv, Types, GatewayTypes
<1>5. ASSUME NEW p \in Products
      PROVE  /\ Left(s, p) \in Nat /\ Left(s, p) >= pay[s].saw[p].stock - n(p)
             /\ pay[s].saw[p].stock >= n(p) => Left(s, p) = pay[s].saw[p].stock - n(p)
  BY <1>3, <1>4, LeftOver
<1>6. ASSUME NEW p \in Products
      PROVE  /\ stock'[p] = IF p \in Of(pay[s].units) THEN Left(s, p) ELSE stock[p]
             /\ active'[p] => active[p] /\ ~(p \in Of(pay[s].units) /\ Left(s, p) = 0)
             /\ p \notin overlapped' =>
                  p \notin overlapped /\ (p \in Of(pay[s].units) => pay[s].saw[p].version = Version(p))
  BY DEF CommitOrder
<1>7. ASSUME NEW p \in Products, p \in Of(pay[s].units), ~Twice(p)'
      PROVE  pay[s].saw[p].stock >= n(p)
  <2>1. PICK l \in In(pay[s].units) : ProductOf[l] = p
    BY <1>7 DEF Of
  <2>2. PICK q : q.units = pay[s].units /\ orders' = orders \union {q}
    BY DEF CommitOrder
  <2>3. \A m \in In(pay[s].units) : ProductOf[m] = p => m = l
    BY <1>7, <2>1, <2>2 DEF Twice
  <2>4. n(p) = pay[s].units[l]
    BY <1>3, <2>1, <2>3, UnitsCount
  <2>5. pay[s].units[l] <= pay[s].saw[p].stock
    BY <1>1, <2>1 DEF WithinStock
  <2> QED
    BY <1>4, <2>4, <2>5
<1>8. Balanced'
  <2>1. ASSUME NEW p \in Products
        PROVE  IsFiniteSet(OrderedUnits(p))'
    BY OrderAdds
  <2>2. ASSUME NEW p \in Products \ overlapped'
        PROVE  AddsUp(p)'
    <3>1. p \notin overlapped /\ AddsUp(p)
      BY <1>6 DEF IStock, Balanced
    <3>2. p \in Of(pay[s].units) => pay[s].saw[p].stock = stock[p]
      BY <1>1, <1>6 DEF PayKnows, UpToDate
    <3>3. Ordered(p)' = Ordered(p) + n(p) /\ Ordered(p) \in Nat
      BY OrderAdds
    <3>4. p \notin Of(pay[s].units) => n(p) = 0
      BY <1>3, UnitsCount
    <3>5. stock'[p] >= stock[p] - n(p)
      BY <1>4, <1>5, <1>6, <3>2, <3>4
    <3>6. Twice(p)' \/ stock'[p] = stock[p] - n(p)
      BY <1>4, <1>5, <1>6, <1>7, <3>2, <3>4
    <3>7. Twice(p) => Twice(p)'
      BY DEF Twice, CommitOrder
    <3>8. stock'[p] \in Int
      BY <1>4, <1>5, <1>6
    <3> QED
      BY <1>2, <1>4, <3>1, <3>3, <3>5, <3>6, <3>7, <3>8 DEF AddsUp
  <2>4. ASSUME NEW p \in Products
        PROVE  NoLess(stock[p], p)'
    <3>1. Ordered(p)' = Ordered(p) + n(p) /\ Ordered(p) \in Nat
      BY OrderAdds
    <3>2. p \notin Of(pay[s].units) => n(p) = 0
      BY <1>3, UnitsCount
    <3>3. NoLess(stock[p], p) /\ NoLess(pay[s].saw[p].stock, p)
      BY <1>1 DEF IStock, Balanced, PayKnows
    <3> QED
      BY <1>2, <1>4, <1>5, <1>6, <3>1, <3>2, <3>3 DEF NoLess
  <2>3. ASSUME changes = 0, NEW p \in Products
        PROVE  stock'[p] >= 0 /\ (active'[p] => stock'[p] > 0)
    <3>1. stock[p] >= 0 /\ (active[p] => stock[p] > 0)
      BY <2>3 DEF IStock, Balanced
    <3> QED
      BY <1>4, <1>5, <1>6, <3>1
  <2> QED
    BY <1>2, <2>1, <2>2, <2>3, <2>4 DEF Balanced
<1>9. Readers'
  <2>1. \A p \in Products : \/ stock'[p] = stock[p] /\ Version(p)' = Version(p)
                            \/ Version(p)' = Version(p) + 1
    BY <1>6, OrderAdds
  <2>2. \A r \in Slots : pay'[r] = pay[r] \/ pay'[r].stage # "read"
    BY DEF CommitOrder, Done, IInv, Types, PayTypes
  <2>3. \A p \in Products : /\ touched'[p] = 0 => touched[p] = 0
                            /\ Ordered(p)' \in Nat /\ Ordered(p)' >= Ordered(p)
    BY <1>2, <1>4, OrderAdds
  <2> QED
    BY <1>2, <2>1, <2>2, <2>3, ReadersAge
<1> QED
  BY <1>2, <1>8, <1>9 DEF IStock, Counted

\* adjust_stock, delete_product and update_product: so does what they write, with
\* what the administrator meant to add.
LEMMA CommitProductBalances ==
  ASSUME IInv, IStock, NEW a \in Calls, CommitProduct(a)
  PROVE  IStock'
<1>1. call[a] \in Asked /\ call[a].stage = "read" /\ CallKnows(call[a]) /\ changes > 0
  BY CallStages DEF CommitProduct, IInv, Types, AdminTypes, IStock, Readers, Counted
<1>2. UNCHANGED <<orders, pay, admin, changes>>
  BY DEF CommitProduct
<1>3. PICK p \in Products : p = call[a].product
  BY <1>1 DEF Asked
<1>4. PICK saw \in ProductRows, listed \in ProductRows : saw = call[a].saw /\ listed = call[a].listed
  BY <1>1 DEF Asked
<1>5. PICK new \in Int : new = Adjusted(a).stock
  BY <1>1, AdjustedRow
<1>6. Meant(a) = new - (IF call[a].kind = "update" THEN listed ELSE saw).stock
  BY <1>4, <1>5 DEF Meant
<1>7. PICK b \in BOOLEAN : b = (new # saw.stock \/ Meant(a) # 0)
  OBVIOUS
<1>8. stock' = IF new # saw.stock THEN [stock EXCEPT ![p] = new] ELSE stock
  <2>1. "stock" \in Written(a) <=> new # saw.stock
    BY <1>4, <1>5 DEF Written
  <2> QED
    BY <1>3, <1>5, <2>1 DEF CommitProduct
<1>9. /\ adjusted' = [adjusted EXCEPT ![p] = adjusted[p] + Meant(a)]
      /\ touched' = IF b THEN [touched EXCEPT ![p] = touched[p] + 1] ELSE touched
  BY <1>3, <1>4, <1>5, <1>7 DEF CommitProduct, IInv, Types, GatewayTypes
<1>10. /\ overlapped \subseteq overlapped'
       /\ b /\ p \notin overlapped' =>
            saw.version = Version(p) /\ (call[a].kind = "update" => listed.version = Version(p))
  BY <1>3, <1>4, <1>5, <1>7 DEF CommitProduct
<1>11. UpToDate(saw, p) /\ (call[a].kind = "update" => UpToDate(listed, p))
  BY <1>1, <1>3, <1>4 DEF CallKnows
<1>12. /\ stock \in [Products -> Int] /\ adjusted \in [Products -> Int]
       /\ touched \in [Products -> Nat] /\ InitStock \in [Products -> Nat] /\ Meant(a) \in Int
  BY <1>1, AdjustedRow, CheckoutPageAssumption DEF CheckoutPageAssumption, IInv, Types, GatewayTypes
<1>13. \A x \in Products : OrderedUnits(x)' = OrderedUnits(x) /\ Ordered(x)' = Ordered(x) /\ (Twice(x)' <=> Twice(x))
  BY <1>2 DEF OrderedUnits, Ordered, Twice
<1>14. Balanced'
  <2>1. ASSUME NEW x \in Products \ overlapped'
        PROVE  AddsUp(x)'
    <3>1. x \notin overlapped /\ AddsUp(x)
      BY <1>10 DEF IStock, Balanced
    <3>2. Ordered(x) \in Nat
      BY FS_CardinalityType DEF IStock, Balanced, Ordered
    <3>3. stock'[x] - stock[x] = adjusted'[x] - adjusted[x]
      <4>1. CASE x # p
        BY <1>8, <1>9, <1>12, <4>1
      <4>2. CASE x = p /\ ~b
        <5>1. new = saw.stock /\ Meant(a) = 0
          BY <1>7, <4>2
        <5> QED
          BY <1>8, <1>9, <1>12, <4>2, <5>1
      <4>3. CASE x = p /\ b
        <5>1. saw.stock = stock[p] /\ (call[a].kind = "update" => listed.stock = stock[p])
          BY <1>10, <1>11, <4>3 DEF UpToDate
        <5>2. Meant(a) = new - stock[p] /\ stock'[p] = new
          BY <1>6, <1>8, <1>12, <5>1
        <5> QED
          BY <1>9, <1>12, <4>3, <5>2
      <4> QED
        BY <4>1, <4>2, <4>3
    <3>4. stock'[x] \in Int /\ adjusted'[x] \in Int
      BY <1>8, <1>9, <1>12
    <3>5. stock[x] \in Int /\ adjusted[x] \in Int /\ InitStock[x] \in Nat
      BY <1>12
    <3> QED
      BY <1>13, <3>1, <3>2, <3>3, <3>4, <3>5 DEF AddsUp
  <2> QED
    <3>1. ASSUME NEW x \in Products
          PROVE  NoLess(stock[x], x)'
      <4>1. NoLess(stock[x], x)
        BY DEF IStock, Balanced
      <4>2. touched'[x] = 0 => touched[x] = 0 /\ stock'[x] = stock[x]
        <5>1. CASE x = p /\ b
          BY <1>9, <1>12, <5>1
        <5>2. CASE x = p /\ ~b
          BY <1>7, <1>8, <1>9, <1>12, <5>2
        <5>3. CASE x # p
          BY <1>8, <1>9, <1>12, <5>3
        <5> QED
          BY <5>1, <5>2, <5>3
      <4> QED
        BY <1>13, <4>1, <4>2 DEF NoLess
    <3> QED
      BY <1>1, <1>2, <1>13, <2>1, <3>1 DEF IStock, Balanced
<1>15. Readers'
  <2>1. \A x \in Products : \/ stock'[x] = stock[x] /\ Version(x)' = Version(x)
                            \/ Version(x)' = Version(x) + 1
    <3> TAKE x \in Products
    <3>1. \/ touched'[x] = touched[x] /\ stock'[x] = stock[x]
          \/ touched'[x] = touched[x] + 1
      BY <1>7, <1>8, <1>9, <1>12
    <3>2. PICK n : n = Cardinality({o \in orders : x \in Of(o.units)})
      OBVIOUS
    <3>3. n \in Nat
      BY <3>2, FS_Subset, FS_CardinalityType DEF IInv, Types, OrderTypes
    <3>4. Version(x) = touched[x] + n /\ Version(x)' = touched'[x] + n
      BY <1>2, <3>2 DEF Version
    <3> QED
      BY <1>12, <3>1, <3>3, <3>4
  <2>2. \A c \in Calls : call'[c] = call[c] \/ call'[c].stage \notin {"sent", "read"}
    BY DEF CommitProduct, AnsweredTo, IInv, Types, AdminTypes
  <2>3. \A x \in Products : /\ touched'[x] = 0 => touched[x] = 0
                            /\ Ordered(x)' \in Nat /\ Ordered(x)' >= Ordered(x)
    <3> TAKE x \in Products
    <3>1. Ordered(x) \in Nat
      BY FS_CardinalityType DEF IStock, Balanced, Ordered
    <3> QED
      BY <1>9, <1>12, <1>13, <3>1
  <2> QED
    BY <1>2, <2>1, <2>2, <2>3, ReadersAge
<1> QED
  BY <1>1, <1>2, <1>14, <1>15 DEF IStock, Counted

\* The stock is what it was at first, with what the administrator added and without
\* what was ordered, or more if an order has two lines of the product, but for
\* products written as of an older stock; orders alone, overlapping or not, lose no
\* units; without an administrator it is never negative and nothing sold out is
\* active (create_order, adjust_stock, update_product).
THEOREM StockFollowsOrders == Spec => []StockMatchesOrders
<1>1. Init => IStock
  <2> SUFFICES ASSUME Init PROVE IStock
    OBVIOUS
  <2>1. Readers /\ Counted
    BY DEF Init, Readers, Counted, PayKnows, PageKnows, CallKnows, Idle
  <2>2. \A p \in Products : OrderedUnits(p) = {}
    BY DEF Init, OrderedUnits
  <2>3. \A p \in Products : IsFiniteSet(OrderedUnits(p)) /\ Ordered(p) = 0
    BY <2>2, FS_EmptySet DEF Ordered
  <2>4. ASSUME NEW p \in Products
        PROVE  AddsUp(p) /\ NoLess(stock[p], p) /\ stock[p] >= 0 /\ (active[p] => stock[p] > 0)
    <3>1. /\ stock[p] = InitStock[p] /\ adjusted[p] = 0 /\ InitStock[p] \in Nat
          /\ active[p] <=> InitStock[p] > 0
      BY CheckoutPageAssumption DEF CheckoutPageAssumption, Init
    <3>2. Ordered(p) = 0
      BY <2>3
    <3> QED
      BY <3>1, <3>2 DEF AddsUp, NoLess
  <2> QED
    BY <2>1, <2>3, <2>4 DEF IStock, Balanced
<1>2. IInv /\ IStock /\ [Next]_vars => IStock'
  <2>1. IStock /\ UNCHANGED vars => IStock'
    <3> SUFFICES ASSUME IStock, UNCHANGED vars PROVE IStock'
      OBVIOUS
    <3>1. UNCHANGED <<stock, active, orders, pay, admin, call, changes, adjusted, touched, overlapped>>
      BY DEF vars
    <3>2. /\ \A s \in Slots : PayKnows(pay'[s])
          /\ PageKnows(admin') /\ (\A a \in Calls : CallKnows(call'[a])) /\ Counted'
      BY <3>1 DEF IStock, Readers, Counted
    <3> QED
      BY <3>1, <3>2, QuietKeeps
  <2> QED
    BY <2>1, CustomersQuiet, AdministratorQuiet, CommitOrderBalances, CommitProductBalances DEF Next, Progress
<1>3. IStock => StockMatchesOrders
  BY DEF IStock, Balanced, AddsUp, NoLess, StockMatchesOrders
<1>4. Init => IInv
  BY Starts
<1> QED
  BY Invariance, <1>1, <1>2, <1>3, PTL DEF Spec
=============================================================================
