---------------------------- MODULE MCWebCheckout ----------------------------
(* A small instance of WebCheckout for TLC. *)
EXTENDS WebCheckout, TLC

OneCustomer == [t \in Tabs |-> CHOOSE c \in Customers : TRUE]
\* Enough of either product for two orders of one unit.
Stocks == [p \in Products |-> 2]
OneProduct == [l \in Lines |-> CHOOSE p \in Products : TRUE]
\* One less than nothing, and more than there is.
Typed == {-1, 3}
\* An empty cart, a cart of one unit, and one of two lines.
SmallCarts == {NoUnits, OneOf(CHOOSE l \in Lines : TRUE), [l \in Lines |-> 1]}
\* The administrator's work is followed along with customers who buy one unit now, one
\* after the other, without faults; the rest of what customers do, two payments at a
\* time included, without an administrator. Product
\* pages that can change nothing any more are not opened. One line is bought now, a page
\* has two units at most, and nothing is edited after a fault.
Separately ==
  /\ \A t \in Tabs : /\ tab'[t].given \in Carts
                     /\ \A p \in Products : Cardinality(UnitsOf(tab'[t].items, p)) <= 2
                     /\ faults > 0 => tab'[t].items \in {tab[t].items, tab'[t].given, NoUnits}
  /\ changes = MaxChanges => \/ admin' = admin
                             \/ admin'.page # "table" /\ ~(admin.page = "table" /\ admin'.page = "form")
  /\ changes' > 0 \/ admin'.page # "away" =>
       /\ Cardinality({s \in Slots : pay'[s].stage # "idle"}) <= 1
       /\ faults' = 0 /\ \A c \in Customers : cart'[c] = NoUnits
       /\ \A o \in orders' : o.units \in {OneOf(l) : l \in Lines}
       /\ \A s \in Slots : pay'[s].stage \in {"paying", "sent", "read"} =>
                           pay'[s].units \in {OneOf(l) : l \in Lines}
       /\ \A t \in Tabs : /\ tab'[t].items = tab'[t].given
                          /\ tab'[t].page = "checkout" => tab'[t].given # NoUnits
                          /\ tab'[t].page = "shop" => tab[t].page = "shop"
==============================================================================
