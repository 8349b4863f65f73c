----------------------------- MODULE MCCheckout -----------------------------
(* Small instances of Checkout for TLC. *)
EXTENDS Checkout, TLC

Line(p, q) == [product |-> p, quantity |-> q]

TwoProducts == {"p1", "p2"}

\* Both orders of the two products (so that two carts can deadlock), two lines of
\* one product, and the cart emptied item by item.
MCCarts == {<<Line("p1", 1), Line("p2", 1)>>, <<Line("p2", 1), Line("p1", 1)>>,
            <<Line("p1", 1), Line("p1", 1)>>, <<>>}

\* Without the empty cart, which checkout treats as an absent one.
FullCarts == MCCarts \ {<<>>}

\* Enough for one cart of each kind, not for two of the same kind.
MCStock == ("p1" :> 3) @@ ("p2" :> 1)

\* One-line carts of different products: checkouts that share no inventory row
\* meet only on the key and on the customers row.
SmallCarts == {<<Line("p1", 1)>>, <<Line("p2", 1)>>}

\* Retries: r1 and r2 are the first tries of a new customer, with one key and, as the
\* email was changed in between, two emails; r3 is another new customer, who owns
\* one of them by now and has the empty string as the key.
RetryCustomer == ("r1" :> "c1") @@ ("r2" :> "c1") @@ ("r3" :> "c2")
RetryEmail == ("r1" :> "e1") @@ ("r2" :> "e2") @@ ("r3" :> "e2")
RetryKey == ("r1" :> "k") @@ ("r2" :> "k") @@ ("r3" :> EmptyKey)
NoRows == [c \in Customers |-> NoEmail]

\* Three tabs of the customer c1, two of them with the new email e1, two of them
\* with one key, and one without an email.
OneCustomer == [r \in Requests |-> "c1"]
TabEmail == ("r1" :> "e1") @@ ("r2" :> "e1") @@ ("r3" :> "e2") @@ ("r4" :> NoEmail)
TabKey == ("r1" :> NoKey) @@ ("r2" :> "k") @@ ("r3" :> "k") @@ ("r4" :> "k")
OldRow == "c1" :> "e2"

\* Two customers, known here, with carts that can deadlock.
PairCustomer == ("r1" :> "c1") @@ ("r2" :> "c2")
PairEmail == ("r1" :> "e1") @@ ("r2" :> "e2")
SameKey == [r \in Requests |-> "k"]
OwnRows == ("c1" :> "e1") @@ ("c2" :> "e2")
=============================================================================
