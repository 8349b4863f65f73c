----------------------------- MODULE CartProofs -----------------------------
(***************************************************************************)
(* Theorems about CartService, for every number of customers, requests and *)
(* products, every naming of products by the catalog and all limits: what  *)
(* is stored stays a valid cart and holds no more than its customer asked  *)
(* for, and one request at a time implements AtomicCart.                   *)
(***************************************************************************)
EXTENDS CartService, SequenceTheorems, FiniteSetTheorems, WellFoundedInduction, TLAPS

\* The ids that the catalog answers with, and lines of them.
CatalogIds == {p \in Products : CatalogId[p] = p}
Line == [product : CatalogIds, quantity : Nat \ {0}]

\* The carts that the service stores.
Carts == {l \in Seq(Line) : Len(l) <= MaxItems /\ Readable(l)}

-----------------------------------------------------------------------------
(* The operators of CartLines, on such carts. *)

LEMMA CartLinesOf ==
  ASSUME NEW l \in Carts
  PROVE  /\ l \in Seq(Line) /\ Len(l) \in 0 .. MaxItems /\ Len(l) \in Nat /\ DOMAIN l = 1 .. Len(l)
         /\ \A i \in 1 .. Len(l) : l[i] \in [product : CatalogIds, quantity : 1 .. ModelMax]
<1>1. l \in Seq(Line) /\ Len(l) \in Nat /\ DOMAIN l = 1 .. Len(l) /\ Len(l) <= MaxItems
  BY DEF Carts
<1>2. \A i \in 1 .. Len(l) : l[i] \in Line /\ l[i].quantity \in 1 .. ModelMax
  BY <1>1 DEF Carts, Readable
<1> QED
  BY <1>1, <1>2, CartAssumption DEF Line

\* What makes a sequence such a cart.
LEMMA IsOfCarts ==
  ASSUME NEW n \in 0 .. MaxItems, NEW l, l = [i \in 1 .. n |-> l[i]],
         \A i \in 1 .. n : l[i] \in [product : CatalogIds, quantity : 1 .. ModelMax]
  PROVE  l \in Carts /\ Len(l) = n
<1>1. n \in Nat
  BY CartAssumption
<1>2. \A i \in 1 .. n : l[i] \in Line /\ l[i].quantity \in 1 .. ModelMax
  BY CartAssumption DEF Line
<1>3. l \in Seq(Line) /\ Len(l) = n /\ DOMAIN l = 1 .. n
  BY <1>1, <1>2
<1> QED
  BY <1>1, <1>2, <1>3 DEF Carts, Readable

\* No cart is the absent key; an empty one is a cart.
LEMMA NoCartIsNone == NoCart \notin Carts /\ <<>> \in Carts /\ ProductsOf(<<>>) = {}
<1>1. Line \subseteq [product : Products, quantity : Nat \ {0}]
  BY DEF Line, CatalogIds
<1>2. NoCart \notin Seq(Line)
  <2>1. ASSUME NEW S, NEW T, S \subseteq T, NEW s \in Seq(S) PROVE s \in Seq(T)
    BY <2>1
  <2>2. \A s \in Seq(Line) : s \in Seq([product : Products, quantity : Nat \ {0}])
    BY <1>1, <2>1, Zenon
  <2>3. NoCart \notin Seq([product : Products, quantity : Nat \ {0}])
    BY CartAssumption
  <2> QED
    BY <2>2, <2>3, Zenon
<1>3. <<>> \in Carts
  BY CartAssumption DEF Carts, Readable
<1> QED
  BY <1>2, <1>3 DEF Carts, ProductsOf

\* A set of positions has a first one.
LEMMA FirstOf ==
  ASSUME NEW T \in SUBSET Nat, T # {}
  PROVE  \E i \in T : \A j \in T : i <= j
<1>1. PICK i \in T : \A j \in T : ~(<<j, i>> \in OpToRel(<, Nat))
  BY WFMin, NatLessThanWellFounded
<1>2. \A j \in T : ~(j < i)
  BY <1>1 DEF OpToRel
<1> QED
  BY <1>2

\* A product in the cart has a first line, and its quantity is that line's.
LEMMA FirstLine ==
  ASSUME NEW l \in Carts, NEW p \in ProductsOf(l)
  PROVE  /\ LineOf(l, p) \in 1 .. Len(l) /\ l[LineOf(l, p)].product = p
         /\ \A j \in 1 .. Len(l) : l[j].product = p => LineOf(l, p) <= j
         /\ Quantity(l, p) = l[LineOf(l, p)].quantity
<1> DEFINE T == {i \in DOMAIN l : l[i].product = p}
<1>1. T \in SUBSET Nat /\ T # {}
  BY CartLinesOf DEF ProductsOf
<1>2. PICK i \in T : \A j \in T : i <= j
  BY <1>1, FirstOf
<1>3. i \in DOMAIN l /\ l[i].product = p /\ \A j \in DOMAIN l : l[j].product = p => i <= j
  BY <1>2
<1>4. /\ LineOf(l, p) \in DOMAIN l /\ l[LineOf(l, p)].product = p
      /\ \A j \in DOMAIN l : l[j].product = p => LineOf(l, p) <= j
  BY <1>3 DEF LineOf
<1> QED
  BY <1>4, CartLinesOf DEF Quantity

LEMMA QuantityNat ==
  ASSUME NEW l \in Carts, NEW p
  PROVE  Quantity(l, p) \in Nat /\ (p \notin ProductsOf(l) => Quantity(l, p) = 0)
<1>1. CASE p \in ProductsOf(l)
  BY <1>1, FirstLine, CartLinesOf, CartAssumption
<1>2. CASE p \notin ProductsOf(l)
  BY <1>2 DEF Quantity
<1> QED
  BY <1>1, <1>2

\* A set of positions can be listed in their order.
LEMMA Listed ==
  ASSUME NEW n \in Nat, NEW K \in SUBSET (1 .. n)
  PROVE  \E f \in [1 .. Cardinality(K) -> K] :
           \A i, j \in 1 .. Cardinality(K) : i < j => f[i] < f[j]
<1> DEFINE Lists(S) == \E f \in [1 .. Cardinality(S) -> S] :
                         \A i, j \in 1 .. Cardinality(S) : i < j => f[i] < f[j]
           Bad == {m \in Nat : \E S \in SUBSET (1 .. m) : ~Lists(S)}
<1> SUFFICES ASSUME Bad # {} PROVE FALSE
  OBVIOUS
<1>1. PICK m \in Bad : \A k \in Bad : m <= k
  BY FirstOf
<1>2. PICK S \in SUBSET (1 .. m) : m \in Nat /\ ~Lists(S)
  BY <1>1
<1>3. ~Lists(S)
  BY <1>2
<1> HIDE DEF Bad
<1>4. S # {}
  <2>1. ASSUME S = {} PROVE Lists(S)
    <3>1. Cardinality(S) = 0
      BY <2>1, FS_EmptySet
    <3>2. [i \in 1 .. 0 |-> i] \in [1 .. 0 -> S]
      OBVIOUS
    <3> QED
      BY <3>1, <3>2
  <2> QED
    BY <1>3, <2>1
<1>5. m - 1 \in Nat /\ m \in Nat
  <2>1. PICK i \in 1 .. m : i \in S
    BY <1>4
  <2> QED
    BY <1>2, <2>1
<1>6. \A R \in SUBSET (1 .. m - 1) : Lists(R)
  <2>1. m - 1 \notin Bad
    BY <1>1, <1>5
  <2> QED
    BY <1>5, <2>1 DEF Bad
<1>7. m \in S
  <2>1. m \notin S => S \in SUBSET (1 .. m - 1)
    BY <1>5
  <2> QED
    BY <1>3, <1>6, <2>1
<1> DEFINE R == S \ {m}
<1>8. R \in SUBSET (1 .. m - 1)
  BY <1>5
<1>9. IsFiniteSet(S)
  <2>1. IsFiniteSet(1 .. m)
    BY <1>5, FS_Interval
  <2> QED
    BY <2>1, FS_Subset
<1>10. PICK c \in Nat : c = Cardinality(R) /\ Cardinality(S) = c + 1
  <2>1. /\ IsFiniteSet(R) /\ Cardinality(R) = Cardinality(S) - 1
        /\ Cardinality(S) \in Nat
    BY <1>7, <1>9, FS_RemoveElement, FS_CardinalityType
  <2>2. Cardinality(R) \in Nat
    BY <2>1, FS_CardinalityType
  <2> QED
    BY <2>1, <2>2
<1>11. PICK f \in [1 .. c -> R] : \A i, j \in 1 .. c : i < j => f[i] < f[j]
  <2>1. Lists(R)
    BY <1>6, <1>8
  <2> QED
    BY <1>10, <2>1
<1> DEFINE g == [i \in 1 .. c + 1 |-> IF i = c + 1 THEN m ELSE f[i]]
<1>12. \A i \in 1 .. c + 1 : i = c + 1 \/ i \in 1 .. c
  OBVIOUS
<1>13. g \in [1 .. c + 1 -> S]
  <2>1. \A i \in 1 .. c : f[i] \in S
    BY <1>11
  <2> QED
    BY <1>7, <1>12, <2>1
<1>14. \A i, j \in 1 .. c + 1 : i < j => g[i] < g[j]
  <2> TAKE i, j \in 1 .. c + 1
  <2> HAVE i < j
  <2>1. i \in 1 .. c /\ g[i] = f[i] /\ f[i] \in R
    BY <1>11
  <2>2. CASE j \in 1 .. c
    BY <1>11, <2>1, <2>2
  <2>3. CASE j = c + 1
    <3>1. g[j] = m
      BY <2>3
    <3>2. f[i] < m
      <4>1. f[i] \in 1 .. m - 1
        BY <1>8, <2>1
      <4> QED
        BY <1>5, <4>1
    <3> QED
      BY <2>1, <3>1, <3>2
  <2> QED
    BY <1>12, <2>2, <2>3
<1>15. Lists(S)
  <2> HIDE DEF g
  <2> QED
    BY <1>10, <1>13, <1>14
<1> QED
  BY <1>3, <1>15

\* The lines of k are lines of l, each once, but those of p may be of n units.
Reshapes(k, l, p, n) ==
  \E g \in [1 .. Len(k) -> 1 .. Len(l)] :
    /\ \A i, j \in 1 .. Len(k) : g[i] = g[j] => i = j
    /\ \A i \in 1 .. Len(k) :
         /\ k[i].product = l[g[i]].product
         /\ k[i].quantity = l[g[i]].quantity \/ (l[g[i]].product = p /\ k[i].quantity = n)

\* A new quantity for a product that is there.
LEMMA OtherQuantity ==
  ASSUME NEW l \in Carts, NEW p \in ProductsOf(l), NEW q \in 1 .. ModelMax,
         NEW k, k = WithQuantity(l, p, q)
  PROVE  k \in Carts /\ Len(k) = Len(l) /\ Quantity(k, p) = q /\ Reshapes(k, l, p, q)
<1>1. PICK h \in 1 .. Len(l) :
        /\ h = LineOf(l, p) /\ l[h].product = p
        /\ \A j \in 1 .. Len(l) : l[j].product = p => h <= j
  BY FirstLine
<1>2. /\ k = [i \in 1 .. Len(l) |-> k[i]]
      /\ k[h] = [l[h] EXCEPT !.quantity = q]
      /\ \A i \in 1 .. Len(l) \ {h} : k[i] = l[i]
  BY <1>1, CartLinesOf DEF WithQuantity
<1>3. k[h] \in [product : CatalogIds, quantity : 1 .. ModelMax]
      /\ k[h].product = p /\ k[h].quantity = q
  BY <1>1, <1>2, CartLinesOf
<1>4. \A i \in 1 .. Len(l) : /\ k[i] \in [product : CatalogIds, quantity : 1 .. ModelMax]
                             /\ k[i].product = l[i].product
                             /\ k[i].quantity = l[i].quantity \/ (l[i].product = p /\ k[i].quantity = q)
  BY <1>1, <1>2, <1>3, CartLinesOf
<1>5. k \in Carts /\ Len(k) = Len(l)
  <2>1. Len(l) \in 0 .. MaxItems /\ k = [i \in 1 .. Len(l) |-> k[i]]
    BY <1>2, CartLinesOf
  <2>2. \A i \in 1 .. Len(l) : k[i] \in [product : CatalogIds, quantity : 1 .. ModelMax]
    BY <1>4
  <2> QED
    BY <2>1, <2>2, IsOfCarts
<1>6. Quantity(k, p) = q
  <2>1. p \in ProductsOf(k)
    BY <1>1, <1>3, <1>5, CartLinesOf DEF ProductsOf
  <2>2. /\ LineOf(k, p) \in 1 .. Len(l) /\ k[LineOf(k, p)].product = p
        /\ \A j \in 1 .. Len(l) : k[j].product = p => LineOf(k, p) <= j
        /\ Quantity(k, p) = k[LineOf(k, p)].quantity
    BY <1>5, <2>1, FirstLine
  <2>3. LineOf(k, p) <= h /\ h <= LineOf(k, p)
    BY <1>1, <1>3, <1>4, <2>2
  <2>4. LineOf(k, p) = h
    BY <2>2, <2>3
  <2> QED
    BY <1>3, <2>2, <2>4
<1>7. Reshapes(k, l, p, q)
  <2> DEFINE g == [i \in 1 .. Len(l) |-> i]
  <2>1. g \in [1 .. Len(k) -> 1 .. Len(l)] /\ \A i \in 1 .. Len(k) : g[i] = i
    BY <1>5
  <2> HIDE DEF g
  <2> QED
    BY <1>4, <1>5, <2>1 DEF Reshapes
<1> QED
  BY <1>5, <1>6, <1>7

\* The end of a product's lines.
LEMMA WithoutLines ==
  ASSUME NEW l \in Carts, NEW p, NEW k, k = Without(l, p), NEW q
  PROVE  k \in Carts /\ Reshapes(k, l, p, q)
<1> DEFINE K == {i \in DOMAIN l : l[i].product # p}
           f == Kept(l, p)
<1>1. PICK n \in Nat : n = Len(l) /\ DOMAIN l = 1 .. n
  BY CartLinesOf
<1>2. K \in SUBSET (1 .. n)
  BY <1>1
<1>3. f \in [1 .. Cardinality(K) -> K] /\ \A i, j \in DOMAIN f : i < j => f[i] < f[j]
  <2>1. \E h \in [1 .. Cardinality(K) -> K] : \A i, j \in 1 .. Cardinality(K) : i < j => h[i] < h[j]
    BY <1>2, Listed
  <2>2. \E h \in [1 .. Cardinality(K) -> K] : \A i, j \in DOMAIN h : i < j => h[i] < h[j]
    BY <2>1
  <2> QED
    BY <2>2 DEF Kept
<1>4. PICK c \in 0 .. n : c = Cardinality(K)
  <2>1. IsFiniteSet(1 .. n) /\ Cardinality(1 .. n) = n
    BY FS_Interval
  <2>2. IsFiniteSet(K) /\ Cardinality(K) <= n
    BY <1>2, <2>1, FS_Subset
  <2>3. Cardinality(K) \in Nat
    BY <2>2, FS_CardinalityType
  <2> HIDE DEF K, f
  <2> QED
    BY <2>2, <2>3
<1>5. k = [i \in 1 .. c |-> l[f[i]]]
  BY <1>3, <1>4 DEF Without
<1>6. \A i \in 1 .. c : f[i] \in 1 .. n
  BY <1>2, <1>3, <1>4
<1>7. \A i, j \in 1 .. c : f[i] = f[j] => i = j
  <2>1. \A i, j \in 1 .. c : i < j => f[i] < f[j]
    BY <1>3, <1>4
  <2> HIDE DEF f, K
  <2> TAKE i, j \in 1 .. c
  <2> HAVE f[i] = f[j]
  <2>2. ~(i < j) /\ ~(j < i)
    BY <1>6, <2>1
  <2> QED
    BY <2>2
<1> HIDE DEF f, K
<1>8. k \in Carts /\ Len(k) = c
  <2>1. k = [i \in 1 .. c |-> k[i]]
    BY <1>5
  <2>2. c \in 0 .. MaxItems
    BY <1>1, <1>4, CartLinesOf, CartAssumption
  <2>3. \A i \in 1 .. c : k[i] \in [product : CatalogIds, quantity : 1 .. ModelMax]
    BY <1>1, <1>5, <1>6, CartLinesOf
  <2> QED
    BY <2>1, <2>2, <2>3, IsOfCarts
<1>9. Reshapes(k, l, p, q)
  <2> DEFINE g == [i \in 1 .. c |-> f[i]]
  <2>1. g \in [1 .. Len(k) -> 1 .. Len(l)] /\ \A i \in 1 .. c : g[i] = f[i]
    BY <1>1, <1>6, <1>8
  <2>2. \A i \in 1 .. c : k[i] = l[g[i]]
    BY <1>5, <2>1
  <2> HIDE DEF g
  <2> QED
    BY <1>7, <1>8, <2>1, <2>2 DEF Reshapes
<1> QED
  BY <1>8, <1>9

\* What PATCH and DELETE of a product leave.
LEMMA UpdatedIsCart ==
  ASSUME NEW l \in Carts, NEW p \in ProductsOf(l), NEW q \in 0 .. ModelMax
  PROVE  Updated(l, p, q) \in Carts /\ Reshapes(Updated(l, p, q), l, p, q)
<1>1. CASE q = 0
  BY <1>1, WithoutLines DEF Updated
<1>2. CASE q # 0
  BY <1>2, OtherQuantity, CartAssumption DEF Updated
<1> QED
  BY <1>1, <1>2

\* A product that is not there gets the last line, under the catalog's id of it.
LEMMA OneMoreLine ==
  ASSUME NEW l \in Carts, NEW p, p \notin ProductsOf(l), Len(l) < MaxItems,
         NEW w \in [product : CatalogIds, quantity : 1 .. ModelMax], NEW k, k = Append(l, w)
  PROVE  /\ k \in Carts /\ Len(k) = Len(l) + 1 /\ Quantity(k, p) <= w.quantity
         /\ k[Len(l) + 1] = w /\ \A i \in 1 .. Len(l) : k[i] = l[i]
<1>1. l \in Seq(Line) /\ w \in Line /\ Len(l) \in Nat
  <2>1. w \in Line
    BY CartAssumption DEF Line
  <2> QED
    BY <2>1, CartLinesOf
<1>2. /\ k \in Seq(Line) /\ Len(k) = Len(l) + 1 /\ k[Len(l) + 1] = w
      /\ \A i \in 1 .. Len(l) : k[i] = l[i]
  BY <1>1, AppendProperties
<1>3. Len(k) <= MaxItems
  BY <1>1, <1>2, CartAssumption
<1>4. k \in Carts
  <2>1. DOMAIN k = 1 .. Len(k) /\ \A i \in 1 .. Len(k) : i = Len(l) + 1 \/ i \in 1 .. Len(l)
    BY <1>1, <1>2
  <2>2. \A i \in DOMAIN k : k[i].quantity \in 1 .. ModelMax
    BY <1>2, <2>1, CartLinesOf
  <2> QED
    BY <1>2, <1>3, <2>2 DEF Carts, Readable
<1>5. Quantity(k, p) <= w.quantity
  <2>1. CASE p \in ProductsOf(k)
    <3>1. /\ LineOf(k, p) \in 1 .. Len(l) + 1 /\ k[LineOf(k, p)].product = p
          /\ Quantity(k, p) = k[LineOf(k, p)].quantity
      BY <1>2, <1>4, <2>1, FirstLine
    <3>2. \A i \in 1 .. Len(l) : l[i].product # p
      BY CartLinesOf DEF ProductsOf
    <3>3. LineOf(k, p) = Len(l) + 1
      <4>1. LineOf(k, p) \notin 1 .. Len(l)
        BY <1>2, <3>1, <3>2
      <4> QED
        BY <1>1, <3>1, <4>1
    <3>4. Quantity(k, p) = w.quantity
      BY <1>2, <3>1, <3>3
    <3> QED
      BY <3>4, CartAssumption
  <2>2. CASE p \notin ProductsOf(k)
    BY <1>4, <2>2, QuantityNat, CartAssumption
  <2> QED
    BY <2>1, <2>2
<1> QED
  BY <1>2, <1>4, <1>5
-----------------------------------------------------------------------------
(* What is stored. *)

Stages == {"idle", "get", "fetch", "save", "delete", "done"}
Answers == {"none", "ok", "error", "missing", "invalid", "upstream"}

\* A request that waits for the catalog has a cart with room for a new line, in
\* which it did not find its product.
Waits(r) ==
  pc[r] = "fetch" => /\ op[r].kind = "add" /\ Len(working[r]) < MaxItems
                     /\ op[r].product \notin ProductsOf(working[r])

\* What is stored, and what a request is about to save, is a valid cart.
IInv ==
  /\ cart \in [Customers -> Carts \cup {NoCart}]
  /\ pc \in [Requests -> Stages]
  /\ op \in [Requests -> Operations]
  /\ working \in [Requests -> Carts]
  /\ answer \in [Requests -> Answers]
  /\ \A r \in Requests : Waits(r) /\ (pc[r] = "delete" => op[r].kind = "clear")

LEMMA OperationKinds ==
  ASSUME NEW o \in Operations
  PROVE  /\ o.kind \in {"add", "update", "remove", "clear"}
         /\ o.kind # "clear" => o.product \in Products /\ o.quantity \in 0 .. ModelMax
         /\ o.kind = "add" => o.quantity \in 1 .. ModelMax /\ CatalogId[o.product] \in CatalogIds
         /\ o.kind = "remove" => o.quantity = 0
BY CartAssumption DEF Operations, CatalogIds

\* What is loaded is a cart, the stored one if there is one.
LEMMA Loaded ==
  ASSUME NEW contents \in Carts \cup {NoCart}
  PROVE  /\ Load(contents) \in Carts
         /\ contents \in Carts => Load(contents) = contents
         /\ contents = NoCart => Load(contents) = <<>>
BY NoCartIsNone DEF Load, Carts

\* What the steps of one request do to its own state.
LEMMA Ends ==
  ASSUME IInv, NEW r \in Requests, NEW how \in Answers, End(r, how),
         cart' \in [Customers -> Carts \cup {NoCart}]
  PROVE  IInv'
BY NoCartIsNone DEF IInv, Waits, End, Goto, Stages

LEMMA Works ==
  ASSUME IInv, NEW r \in Requests, NEW l \in Carts, NEW stage \in {"save", "fetch"},
         Work(r, l, stage), UNCHANGED cart,
         stage = "fetch" => /\ op[r].kind = "add" /\ Len(l) < MaxItems
                            /\ op[r].product \notin ProductsOf(l)
  PROVE  IInv'
<1>1. /\ pc' = [pc EXCEPT ![r] = stage] /\ working' = [working EXCEPT ![r] = l]
      /\ UNCHANGED <<cart, op, answer>>
  BY DEF Work, Goto
<1>2. /\ cart' \in [Customers -> Carts \cup {NoCart}] /\ pc' \in [Requests -> Stages]
      /\ op' \in [Requests -> Operations] /\ working' \in [Requests -> Carts]
      /\ answer' \in [Requests -> Answers]
  BY <1>1 DEF IInv, Stages
<1>3. \A x \in Requests : Waits(x)' /\ (pc'[x] = "delete" => op'[x].kind = "clear")
  <2> TAKE x \in Requests
  <2>1. CASE x = r
    BY <1>1, <2>1 DEF IInv, Waits
  <2>2. CASE x # r
    BY <1>1, <2>2 DEF IInv, Waits
  <2> QED
    BY <2>1, <2>2
<1> QED
  BY <1>2, <1>3 DEF IInv

\* The cart a request is about to save, from the one it loaded.
LEMMA GetForAddWorks ==
  ASSUME IInv, NEW r \in Requests, GetForAdd(r), NEW l, l = Load(cart[CustomerOf[r]]),
         NEW p, p = op[r].product, NEW q, q = op[r].quantity
  PROVE  /\ l \in Carts /\ op[r].kind = "add" /\ pc[r] = "get" /\ UNCHANGED cart
         /\ q \in 1 .. ModelMax
         /\ \/ End(r, "invalid")
            \/ /\ p \in ProductsOf(l)
               /\ Quantity(l, p) + q \in 1 .. MaxQuantity
               /\ Work(r, WithQuantity(l, p, Quantity(l, p) + q), "save")
            \/ /\ p \notin ProductsOf(l) /\ Len(l) < MaxItems
               /\ Work(r, l, "fetch")
<1>1. l \in Carts
  BY Loaded, CartAssumption DEF IInv
<1>2. op[r].kind = "add" /\ pc[r] = "get" /\ UNCHANGED cart
  BY DEF GetForAdd, At
<1>3. q \in 1 .. ModelMax
  BY <1>2, OperationKinds DEF IInv
<1>4. q \in Nat \ {0} /\ Quantity(l, p) \in Nat /\ Len(l) \in Nat
  BY <1>1, <1>3, QuantityNat, CartLinesOf, CartAssumption
<1>5. \/ End(r, "invalid")
      \/ /\ p \in ProductsOf(l)
         /\ Quantity(l, p) + q <= MaxQuantity
         /\ Work(r, WithQuantity(l, p, Quantity(l, p) + q), "save")
      \/ /\ p \notin ProductsOf(l) /\ Len(l) < MaxItems
         /\ Work(r, l, "fetch")
  BY DEF GetForAdd
<1> QED
  BY <1>1, <1>2, <1>3, <1>4, <1>5, CartAssumption

LEMMA GetForChangeWorks ==
  ASSUME IInv, NEW r \in Requests, GetForChange(r), NEW l, l = Load(cart[CustomerOf[r]]),
         NEW p, p = op[r].product, NEW q, q = op[r].quantity
  PROVE  /\ l \in Carts /\ op[r].kind \in {"update", "remove"} /\ pc[r] = "get" /\ UNCHANGED cart
         /\ q \in 0 .. ModelMax
         /\ \/ End(r, "missing")
            \/ p \in ProductsOf(l) /\ Work(r, Updated(l, p, q), "save")
<1>1. l \in Carts
  BY Loaded, CartAssumption DEF IInv
<1>2. op[r].kind \in {"update", "remove"} /\ pc[r] = "get" /\ UNCHANGED cart
  BY DEF GetForChange, At
<1>3. q \in 0 .. ModelMax
  BY <1>2, OperationKinds DEF IInv
<1>4. \/ End(r, "missing")
      \/ p \in ProductsOf(l) /\ Work(r, Updated(l, p, q), "save")
  BY DEF GetForChange
<1> QED
  BY <1>1, <1>2, <1>3, <1>4

\* The line that an add appends.
NewLine(r) == [product |-> CatalogId[op[r].product], quantity |-> op[r].quantity]

LEMMA FetchWorks ==
  ASSUME IInv, NEW r \in Requests, Fetch(r), NEW w, w = NewLine(r)
  PROVE  /\ working[r] \in Carts /\ pc[r] = "fetch" /\ op[r].kind = "add" /\ UNCHANGED cart
         /\ Len(working[r]) < MaxItems /\ op[r].product \notin ProductsOf(working[r])
         /\ w \in [product : CatalogIds, quantity : 1 .. ModelMax]
         /\ w.product = CatalogId[op[r].product] /\ w.quantity = op[r].quantity
         /\ \/ End(r, "missing") \/ End(r, "invalid") \/ End(r, "upstream")
            \/ Work(r, Append(working[r], w), "save")
<1>1. /\ pc[r] = "fetch" /\ op[r].kind = "add" /\ Len(working[r]) < MaxItems
      /\ op[r].product \notin ProductsOf(working[r]) /\ working[r] \in Carts
      /\ UNCHANGED cart
  BY DEF IInv, Waits, Fetch, At
<1>2. CatalogId[op[r].product] \in CatalogIds /\ op[r].quantity \in 1 .. ModelMax
  BY <1>1, OperationKinds DEF IInv
<1>3. /\ w \in [product : CatalogIds, quantity : 1 .. ModelMax]
      /\ w.product = CatalogId[op[r].product] /\ w.quantity = op[r].quantity
  BY <1>2 DEF NewLine
<1>4. \/ End(r, "missing") \/ End(r, "invalid") \/ End(r, "upstream")
      \/ Work(r, Append(working[r], w), "save")
  BY DEF Fetch, NewLine
<1> QED
  BY <1>1, <1>3, <1>4

\* Every step keeps what is stored, and what is about to be, valid.
LEMMA NextIInv == IInv /\ [Next]_vars => IInv'
<1> SUFFICES ASSUME IInv, [Next]_vars PROVE IInv'
  OBVIOUS
<1>e. ASSUME NEW r \in Requests, UNCHANGED cart,
             \E how \in {"missing", "invalid", "upstream"} : End(r, how)
      PROVE  IInv'
  <2>1. PICK how \in {"missing", "invalid", "upstream"} : End(r, how)
    BY <1>e
  <2>2. cart' \in [Customers -> Carts \cup {NoCart}] /\ how \in Answers
    BY <1>e DEF IInv, Answers
  <2> QED
    BY <2>1, <2>2, Ends
<1>1. ASSUME NEW r \in Requests, Arrive(r) PROVE IInv'
  BY <1>1 DEF IInv, Waits, Arrive, At, Goto, Stages
<1>2. ASSUME NEW r \in Requests, GetForAdd(r) PROVE IInv'
  <2>1. PICK l, p, q :
          /\ l = Load(cart[CustomerOf[r]]) /\ p = op[r].product /\ q = op[r].quantity
          /\ l \in Carts /\ op[r].kind = "add" /\ UNCHANGED cart /\ q \in 1 .. ModelMax
          /\ \/ End(r, "invalid")
             \/ /\ p \in ProductsOf(l) /\ Quantity(l, p) + q \in 1 .. MaxQuantity
                /\ Work(r, WithQuantity(l, p, Quantity(l, p) + q), "save")
             \/ /\ p \notin ProductsOf(l) /\ Len(l) < MaxItems
                /\ Work(r, l, "fetch")
    BY <1>2, GetForAddWorks
  <2>2. CASE End(r, "invalid")
    BY <1>e, <2>1, <2>2
  <2>3. CASE /\ p \in ProductsOf(l) /\ Quantity(l, p) + q \in 1 .. MaxQuantity
             /\ Work(r, WithQuantity(l, p, Quantity(l, p) + q), "save")
    <3>1. PICK n \in 1 .. ModelMax : n = Quantity(l, p) + q
      BY <2>3, CartAssumption
    <3>2. WithQuantity(l, p, n) \in Carts
      BY <2>1, <2>3, <3>1, OtherQuantity
    <3> QED
      BY <2>1, <2>3, <3>1, <3>2, Works
  <2>4. CASE p \notin ProductsOf(l) /\ Len(l) < MaxItems /\ Work(r, l, "fetch")
    BY <2>1, <2>4, Works
  <2> QED
    BY <2>1, <2>2, <2>3, <2>4
<1>3. ASSUME NEW r \in Requests, GetForChange(r) PROVE IInv'
  <2>1. PICK l, p, q :
          /\ l = Load(cart[CustomerOf[r]]) /\ p = op[r].product /\ q = op[r].quantity
          /\ l \in Carts /\ UNCHANGED cart /\ q \in 0 .. ModelMax
          /\ End(r, "missing") \/ (p \in ProductsOf(l) /\ Work(r, Updated(l, p, q), "save"))
    BY <1>3, GetForChangeWorks
  <2>2. CASE End(r, "missing")
    BY <1>e, <2>1, <2>2
  <2>3. CASE p \in ProductsOf(l) /\ Work(r, Updated(l, p, q), "save")
    <3>1. Updated(l, p, q) \in Carts
      BY <2>1, <2>3, UpdatedIsCart
    <3> QED
      BY <2>1, <2>3, <3>1, Works
  <2> QED
    BY <2>1, <2>2, <2>3
<1>4. ASSUME NEW r \in Requests, Fetch(r) PROVE IInv'
  <2>1. PICK w :
          /\ w \in [product : CatalogIds, quantity : 1 .. ModelMax]
          /\ working[r] \in Carts /\ Len(working[r]) < MaxItems
          /\ op[r].product \notin ProductsOf(working[r]) /\ UNCHANGED cart
          /\ \/ End(r, "missing") \/ End(r, "invalid") \/ End(r, "upstream")
             \/ Work(r, Append(working[r], w), "save")
    BY <1>4, FetchWorks
  <2>2. CASE End(r, "missing") \/ End(r, "invalid") \/ End(r, "upstream")
    BY <1>e, <2>1, <2>2
  <2>3. CASE Work(r, Append(working[r], w), "save")
    <3>1. Append(working[r], w) \in Carts
      BY <2>1, OneMoreLine
    <3> QED
      BY <2>1, <2>3, <3>1, Works
  <2> QED
    BY <2>1, <2>2, <2>3
<1>5. ASSUME NEW r \in Requests, Save(r) \/ Delete(r) \/ Fail(r) PROVE IInv'
  <2>1. cart' \in [Customers -> Carts \cup {NoCart}]
    BY <1>5 DEF IInv, Save, Delete, Fail
  <2>2. End(r, "ok") \/ End(r, "error")
    BY <1>5 DEF Save, Delete, Fail
  <2> QED
    BY <2>1, <2>2, Ends DEF Answers
<1>6. ASSUME NEW c \in Customers, DeletedByOthers(c) PROVE IInv'
  BY <1>6 DEF IInv, Waits, DeletedByOthers
<1>7. CASE UNCHANGED vars
  BY <1>7 DEF vars, IInv, Waits
<1> QED
  BY <1>1, <1>2, <1>3, <1>4, <1>5, <1>6, <1>7 DEF Next

LEMMA InitIInv == Init => IInv
BY NoCartIsNone DEF Init, IInv, Waits, Stages, Answers

\* The inductive invariant holds in every reachable state.
THEOREM Invariance == Spec => []IInv
BY InitIInv, NextIInv, PTL DEF Spec
-----------------------------------------------------------------------------
(* What customers asked for. *)

\* The adds of p that have read the cart, and their units.
Begun(c, p) == {r \in Adds(c, p) : pc[r] # "get"}
UnitsBegun(c, p) == UNION {{r} \X (1 .. op[r].quantity) : r \in Begun(c, p)}

\* So many units of p are accounted for.
Accounted(n, c, p) == \E m \in UnitsSet(c, p) : n <= Cardinality(UnitsBegun(c, p)) + m

\* An add has named p by another id.
Aliased(c, p) == \E r \in Adds(c, p) : op[r].product # p

\* Every line is accounted for, and a second line of a product comes of an alias.
Explained(l, c) ==
  /\ \A i \in 1 .. Len(l) : Accounted(l[i].quantity, c, l[i].product)
  /\ \A i, j \in 1 .. Len(l) : i # j /\ l[i].product = l[j].product => Aliased(c, l[i].product)

\* An add counts from when it has read the cart, so that what it is about to save
\* is explained as what is stored is.
UInv ==
  /\ \A c \in Customers, p \in Products : IsFiniteSet(UnitsAdded(c, p))
  /\ \A c \in Customers : Explained(Load(cart[c]), c)
  /\ \A r \in Requests : Explained(working[r], CustomerOf[r])

\* The units of a request are finitely many.
LEMMA RequestUnits ==
  ASSUME NEW r, NEW n \in Nat
  PROVE  IsFiniteSet({r} \X (1 .. n)) /\ Cardinality({r} \X (1 .. n)) = n
<1> DEFINE N == {r} \X (1 .. n)
           f == [i \in 1 .. n |-> <<r, i>>]
<1>1. IsFiniteSet(1 .. n) /\ Cardinality(1 .. n) = n
  BY FS_Interval
<1>2. f \in Bijection(1 .. n, N)
  <2>1. f \in [1 .. n -> N] /\ \A i, j \in 1 .. n : f[i] = f[j] => i = j
    OBVIOUS
  <2>2. \A u \in N : \E i \in 1 .. n : f[i] = u
    OBVIOUS
  <2> QED
    BY <2>1, <2>2 DEF Bijection, Injection, Surjection, IsInjective
<1> QED
  BY <1>1, <1>2, FS_Bijection DEF ExistsBijection

\* An empty cart needs no explanation.
LEMMA EmptyExplained == ASSUME NEW c PROVE Explained(<<>>, c)
BY DEF Explained

\* The units of a product that are accounted for, as requests go on.
LEMMA Accounts ==
  ASSUME IInv, UInv, NEW r \in Requests, NEW st \in Stages \ {"idle"}, pc' = [pc EXCEPT ![r] = st],
         op' = op, st = "get" => pc[r] = "idle",
         NEW c \in Customers, NEW p \in Products
  PROVE  /\ IsFiniteSet(UnitsAdded(c, p)')
         /\ IsFiniteSet(UnitsBegun(c, p)') /\ Cardinality(UnitsBegun(c, p)') \in Nat
         /\ IsFiniteSet(UnitsBegun(c, p)) /\ Cardinality(UnitsBegun(c, p)) \in Nat
         /\ UnitsBegun(c, p) \in SUBSET (UnitsBegun(c, p)')
         /\ Cardinality(UnitsBegun(c, p)) <= Cardinality(UnitsBegun(c, p)')
         /\ UnitsSet(c, p) \subseteq UnitsSet(c, p)' /\ UnitsSet(c, p)' \subseteq Nat
         /\ 0 \in UnitsSet(c, p)'
         /\ Aliased(c, p) => Aliased(c, p)'
<1>1. pc'[r] = st /\ \A x \in Requests \ {r} : pc'[x] = pc[x]
  BY DEF IInv
<1>2. op[r].kind = "add" => op[r].quantity \in Nat
  BY OperationKinds, CartAssumption DEF IInv
<1> DEFINE U == {r} \X (1 .. op[r].quantity)
<1>3. op[r].kind = "add" => IsFiniteSet(U)
  BY <1>2, RequestUnits
<1>4. Adds(c, p) \subseteq Adds(c, p)' /\ Adds(c, p)' \subseteq Adds(c, p) \cup {r}
  BY <1>1 DEF Adds
<1>5. IsFiniteSet(UnitsAdded(c, p)')
  <2>1. IsFiniteSet(UnitsAdded(c, p))
    BY DEF UInv
  <2>2. CASE r \in Adds(c, p)'
    <3>1. UnitsAdded(c, p)' \in SUBSET (UnitsAdded(c, p) \cup U)
      BY <1>4 DEF UnitsAdded
    <3>2. op[r].kind = "add"
      BY <2>2 DEF Adds
    <3> HIDE DEF U
    <3>3. IsFiniteSet(UnitsAdded(c, p) \cup U)
      BY <1>3, <2>1, <3>2, FS_Union
    <3> QED
      BY <3>1, <3>3, FS_Subset
  <2>3. CASE r \notin Adds(c, p)'
    <3>1. UnitsAdded(c, p)' \in SUBSET UnitsAdded(c, p)
      BY <1>4, <2>3 DEF UnitsAdded
    <3> QED
      BY <2>1, <3>1, FS_Subset
  <2> QED
    BY <2>2, <2>3
<1>6. /\ UnitsBegun(c, p)' \in SUBSET (UnitsAdded(c, p)')
      /\ UnitsBegun(c, p) \in SUBSET (UnitsBegun(c, p)')
  <2>1. Begun(c, p) \subseteq Begun(c, p)' /\ Begun(c, p)' \subseteq Adds(c, p)'
    BY <1>1, <1>4 DEF Begun, Adds
  <2> QED
    BY <2>1 DEF UnitsBegun, UnitsAdded
<1>7. /\ IsFiniteSet(UnitsBegun(c, p)') /\ Cardinality(UnitsBegun(c, p)') \in Nat
      /\ IsFiniteSet(UnitsBegun(c, p)) /\ Cardinality(UnitsBegun(c, p)) \in Nat
      /\ Cardinality(UnitsBegun(c, p)) <= Cardinality(UnitsBegun(c, p)')
  <2>1. IsFiniteSet(UnitsBegun(c, p)')
    BY <1>5, <1>6, FS_Subset
  <2>2. /\ IsFiniteSet(UnitsBegun(c, p))
        /\ Cardinality(UnitsBegun(c, p)) <= Cardinality(UnitsBegun(c, p)')
    BY <1>6, <2>1, FS_Subset
  <2> QED
    BY <2>1, <2>2, FS_CardinalityType
<1>8. /\ UnitsSet(c, p) \subseteq UnitsSet(c, p)' /\ UnitsSet(c, p)' \subseteq Nat
      /\ 0 \in UnitsSet(c, p)'
  <2>1. \A x \in Requests : op[x].kind = "update" => op[x].quantity \in Nat
    BY OperationKinds, CartAssumption DEF IInv
  <2> QED
    BY <1>1, <2>1 DEF UnitsSet
<1>9. Aliased(c, p) => Aliased(c, p)'
  BY <1>4 DEF Aliased
<1> QED
  BY <1>5, <1>6, <1>7, <1>8, <1>9

\* What is accounted for stays so.
LEMMA StaysAccounted ==
  ASSUME IInv, UInv, NEW r \in Requests, NEW st \in Stages \ {"idle"}, pc' = [pc EXCEPT ![r] = st],
         op' = op, st = "get" => pc[r] = "idle",
         NEW c \in Customers, NEW p \in Products, NEW n \in Nat, Accounted(n, c, p)
  PROVE  Accounted(n, c, p)'
<1>1. PICK m \in UnitsSet(c, p) : n <= Cardinality(UnitsBegun(c, p)) + m
  BY DEF Accounted
<1>2. /\ m \in UnitsSet(c, p)' /\ m \in Nat
      /\ Cardinality(UnitsBegun(c, p)) \in Nat /\ Cardinality(UnitsBegun(c, p)') \in Nat
      /\ Cardinality(UnitsBegun(c, p)) <= Cardinality(UnitsBegun(c, p)')
  BY Accounts
<1>3. n <= Cardinality(UnitsBegun(c, p)') + m
  BY <1>1, <1>2
<1> QED
  BY <1>2, <1>3 DEF Accounted

\* So does what is explained.
LEMMA StaysExplained ==
  ASSUME IInv, UInv, NEW r \in Requests, NEW st \in Stages \ {"idle"}, pc' = [pc EXCEPT ![r] = st],
         op' = op, st = "get" => pc[r] = "idle",
         NEW c \in Customers, NEW l \in Carts, Explained(l, c), NEW k, k = l
  PROVE  /\ \A i \in 1 .. Len(k) : Accounted(k[i].quantity, c, k[i].product)'
         /\ \A i, j \in 1 .. Len(k) : i # j /\ k[i].product = k[j].product
                                        => Aliased(c, k[i].product)'
<1>1. \A i \in 1 .. Len(l) : l[i].product \in Products /\ l[i].quantity \in Nat
  BY CartLinesOf, CartAssumption DEF CatalogIds
<1>2. ASSUME NEW i \in 1 .. Len(l) PROVE Accounted(l[i].quantity, c, l[i].product)'
  <2>1. PICK n \in Nat, p \in Products : n = l[i].quantity /\ p = l[i].product
    BY <1>1
  <2>2. Accounted(n, c, p)
    BY <2>1 DEF Explained
  <2>3. Accounted(n, c, p)'
    BY <2>2, StaysAccounted
  <2> QED
    BY <2>1, <2>3
<1>3. ASSUME NEW i \in 1 .. Len(l), NEW j \in 1 .. Len(l), i # j, l[i].product = l[j].product
      PROVE  Aliased(c, l[i].product)'
  <2>1. PICK p \in Products : p = l[i].product
    BY <1>1
  <2>2. Aliased(c, p)
    BY <1>3, <2>1 DEF Explained
  <2>3. Aliased(c, p)'
    BY <2>2, Accounts
  <2> QED
    BY <2>1, <2>3
<1> QED
  BY <1>2, <1>3

\* A request that has read the cart accounts for what it asks for, and from its
\* read on for that much more.
LEMMA AsksFor ==
  ASSUME IInv, UInv, NEW r \in Requests, NEW st \in Stages \ {"idle", "get"},
         pc' = [pc EXCEPT ![r] = st], op' = op,
         NEW c \in Customers, c = CustomerOf[r], NEW p \in Products, NEW q \in Nat, q = op[r].quantity
  PROVE  /\ op[r].kind = "add" /\ p = CatalogId[op[r].product] =>
              /\ Accounted(q, c, p)'
              /\ pc[r] = "get" => \A n \in Nat : Accounted(n, c, p) => Accounted(n + q, c, p)'
         /\ op[r].kind = "update" /\ p = op[r].product => Accounted(q, c, p)'
<1>1. pc'[r] = st /\ st # "get" /\ st # "idle"
  BY DEF IInv
<1>2. /\ IsFiniteSet(UnitsBegun(c, p)') /\ Cardinality(UnitsBegun(c, p)') \in Nat
      /\ IsFiniteSet(UnitsBegun(c, p)) /\ Cardinality(UnitsBegun(c, p)) \in Nat
      /\ UnitsBegun(c, p) \in SUBSET (UnitsBegun(c, p)')
      /\ UnitsSet(c, p) \subseteq UnitsSet(c, p)' /\ UnitsSet(c, p)' \subseteq Nat
      /\ 0 \in UnitsSet(c, p)'
  BY Accounts
<1> DEFINE U == {r} \X (1 .. q)
<1>3. IsFiniteSet(U) /\ Cardinality(U) = q
  BY RequestUnits
<1>4. ASSUME op[r].kind = "add", p = CatalogId[op[r].product]
      PROVE  /\ Accounted(q, c, p)'
             /\ pc[r] = "get" => \A n \in Nat : Accounted(n, c, p) => Accounted(n + q, c, p)'
  <2>1. r \in Begun(c, p)'
    BY <1>1, <1>4 DEF Begun, Adds
  <2>2. U \in SUBSET (UnitsBegun(c, p)')
    BY <2>1 DEF UnitsBegun
  <2>3. pc[r] = "get" => UnitsBegun(c, p) \cap U = {}
    BY DEF UnitsBegun, Begun
  <2> HIDE DEF U
  <2>4. q <= Cardinality(UnitsBegun(c, p)')
    BY <1>2, <1>3, <2>2, FS_Subset
  <2>5. Accounted(q, c, p)'
    BY <1>2, <2>4 DEF Accounted
  <2>6. ASSUME pc[r] = "get", NEW n \in Nat, Accounted(n, c, p)
        PROVE  Accounted(n + q, c, p)'
    <3>1. PICK m \in UnitsSet(c, p) : n <= Cardinality(UnitsBegun(c, p)) + m
      BY <2>6 DEF Accounted
    <3>2. m \in Nat /\ m \in UnitsSet(c, p)'
      BY <1>2
    <3>3. /\ IsFiniteSet(UnitsBegun(c, p) \cup U)
          /\ Cardinality(UnitsBegun(c, p) \cup U) = Cardinality(UnitsBegun(c, p)) + q
      <4>1. Cardinality(UnitsBegun(c, p) \cap U) = 0
        BY <2>3, <2>6, FS_EmptySet
      <4>2. /\ IsFiniteSet(UnitsBegun(c, p) \cup U)
            /\ Cardinality(UnitsBegun(c, p) \cup U)
                 = Cardinality(UnitsBegun(c, p)) + q - Cardinality(UnitsBegun(c, p) \cap U)
        BY <1>2, <1>3, FS_Union
      <4> QED
        BY <1>2, <4>1, <4>2
    <3>4. UnitsBegun(c, p) \cup U \in SUBSET (UnitsBegun(c, p)')
      BY <1>2, <2>2
    <3>5. Cardinality(UnitsBegun(c, p)) + q <= Cardinality(UnitsBegun(c, p)')
      BY <1>2, <3>3, <3>4, FS_Subset
    <3>6. n + q <= Cardinality(UnitsBegun(c, p)') + m
      BY <1>2, <3>1, <3>2, <3>5
    <3> QED
      BY <3>2, <3>6 DEF Accounted
  <2> QED
    BY <2>5, <2>6
<1>5. ASSUME op[r].kind = "update", p = op[r].product PROVE Accounted(q, c, p)'
  <2>1. q \in UnitsSet(c, p)'
    BY <1>1, <1>5 DEF UnitsSet
  <2> QED
    BY <1>2, <2>1 DEF Accounted
<1> QED
  BY <1>4, <1>5

\* A step of a request keeps everything explained when its own copy is.
LEMMA StepExplained ==
  ASSUME IInv, UInv, NEW r \in Requests, NEW st \in Stages \ {"idle"}, pc' = [pc EXCEPT ![r] = st],
         op' = op, st = "get" => pc[r] = "idle",
         \A c \in Customers :
           \/ cart'[c] = cart[c] \/ cart'[c] = NoCart
           \/ c = CustomerOf[r] /\ cart'[c] = working[r],
         \A x \in Requests :
           \/ working'[x] = working[x] \/ working'[x] = <<>>
           \/ x = r /\ Explained(working[r], CustomerOf[r])'
  PROVE  UInv'
<1>1. \A c \in Customers, p \in Products : IsFiniteSet(UnitsAdded(c, p)')
  BY Accounts
<1>2. ASSUME NEW c \in Customers PROVE Explained(Load(cart[c]), c)'
  <2>1. cart[c] \in Carts \cup {NoCart} /\ working[r] \in Carts
    BY DEF IInv
  <2>2. PICK k : k = Load(cart'[c])
    OBVIOUS
  <2>3. /\ \A i \in 1 .. Len(k) : Accounted(k[i].quantity, c, k[i].product)'
        /\ \A i, j \in 1 .. Len(k) : i # j /\ k[i].product = k[j].product
                                       => Aliased(c, k[i].product)'
    <3>1. CASE cart'[c] = cart[c]
      <4>1. k = Load(cart[c]) /\ k \in Carts /\ Explained(k, c)
        BY <2>1, <2>2, <3>1, Loaded DEF UInv
      <4> QED
        BY <4>1, StaysExplained
    <3>2. CASE cart'[c] = NoCart
      BY <2>2, <3>2, Loaded
    <3>3. CASE c = CustomerOf[r] /\ cart'[c] = working[r]
      <4>1. k = working[r] /\ k \in Carts /\ Explained(k, c)
        BY <2>1, <2>2, <3>3, Loaded DEF UInv
      <4> QED
        BY <4>1, StaysExplained
    <3> QED
      BY <3>1, <3>2, <3>3
  <2> QED
    BY <2>2, <2>3 DEF Explained, Load, Readable
<1>3. ASSUME NEW x \in Requests PROVE Explained(working[x], CustomerOf[x])'
  <2>1. CASE working'[x] = working[x]
    <3>1. PICK k \in Carts, c \in Customers : k = working[x] /\ c = CustomerOf[x]
      BY CartAssumption DEF IInv
    <3>2. Explained(k, c)
      BY <3>1 DEF UInv
    <3>3. /\ \A i \in 1 .. Len(k) : Accounted(k[i].quantity, c, k[i].product)'
          /\ \A i, j \in 1 .. Len(k) : i # j /\ k[i].product = k[j].product
                                         => Aliased(c, k[i].product)'
      BY <3>2, StaysExplained
    <3> QED
      BY <2>1, <3>1, <3>3 DEF Explained
  <2>2. CASE working'[x] = <<>>
    BY <2>2 DEF Explained
  <2> QED
    BY <2>1, <2>2
<1> QED
  BY <1>1, <1>2, <1>3 DEF UInv

\* Lines reshaped to what a request accounts for stay explained.
LEMMA ReshapedExplained ==
  ASSUME IInv, UInv, NEW r \in Requests, NEW st \in {"fetch", "save"}, pc' = [pc EXCEPT ![r] = st],
         op' = op, NEW c \in Customers, NEW l \in Carts, NEW k \in Carts, Explained(l, c),
         NEW p, NEW n \in Nat, Reshapes(k, l, p, n),
         n # 0 => Accounted(n, c, p)'
  PROVE  Explained(k, c)'
<1>1. PICK g \in [1 .. Len(k) -> 1 .. Len(l)] :
        /\ \A i, j \in 1 .. Len(k) : g[i] = g[j] => i = j
        /\ \A i \in 1 .. Len(k) :
             /\ k[i].product = l[g[i]].product
             /\ k[i].quantity = l[g[i]].quantity \/ (l[g[i]].product = p /\ k[i].quantity = n)
  BY DEF Reshapes
<1>2. st \in Stages \ {"idle"} /\ st # "get"
  BY DEF Stages
<1>3. /\ \A i \in 1 .. Len(l) : Accounted(l[i].quantity, c, l[i].product)'
      /\ \A i, j \in 1 .. Len(l) : i # j /\ l[i].product = l[j].product
                                     => Aliased(c, l[i].product)'
  BY <1>2, StaysExplained
<1>4. ASSUME NEW i \in 1 .. Len(k) PROVE Accounted(k[i].quantity, c, k[i].product)'
  <2>1. CASE k[i].quantity = l[g[i]].quantity
    <3>1. PICK j \in 1 .. Len(l) : j = g[i]
      BY <1>1
    <3>2. PICK m, y : m = l[j].quantity /\ y = l[j].product
      OBVIOUS
    <3>3. Accounted(m, c, y)'
      BY <1>3, <3>2
    <3>4. k[i].quantity = m /\ k[i].product = y
      BY <1>1, <2>1, <3>1, <3>2
    <3> QED
      BY <3>3, <3>4
  <2>2. CASE l[g[i]].product = p /\ k[i].quantity = n
    <3>1. k[i].product = p /\ n # 0
      BY <1>1, <2>2, CartLinesOf, CartAssumption
    <3> QED
      BY <2>2, <3>1
  <2> QED
    BY <1>1, <2>1, <2>2
<1>5. ASSUME NEW i \in 1 .. Len(k), NEW j \in 1 .. Len(k), i # j, k[i].product = k[j].product
      PROVE  Aliased(c, k[i].product)'
  <2>1. PICK a \in 1 .. Len(l), b \in 1 .. Len(l) : a = g[i] /\ b = g[j]
    BY <1>1
  <2>2. a # b /\ l[a].product = k[i].product /\ l[b].product = k[i].product
    BY <1>1, <1>5, <2>1
  <2>3. PICK y : y = l[a].product
    OBVIOUS
  <2>4. Aliased(c, y)'
    BY <1>3, <2>2, <2>3
  <2> QED
    BY <2>2, <2>3, <2>4
<1> QED
  BY <1>4, <1>5 DEF Explained

\* A new line is what its add asks for; a second one of its product is there when
\* the add did not find the product under the id it named.
LEMMA NewLineExplained ==
  ASSUME IInv, UInv, NEW r \in Requests, Fetch(r), pc' = [pc EXCEPT ![r] = "save"], op' = op,
         NEW w, w = NewLine(r), NEW k, k = Append(working[r], w),
         NEW c \in Customers, c = CustomerOf[r]
  PROVE  Explained(k, c)'
<1>1. PICK l \in Carts : l = working[r]
  BY DEF IInv
<1>2. /\ op[r].kind = "add" /\ Len(l) < MaxItems /\ op[r].product \notin ProductsOf(l)
      /\ w \in [product : CatalogIds, quantity : 1 .. ModelMax]
      /\ w.product = CatalogId[op[r].product] /\ w.quantity = op[r].quantity
  BY <1>1, FetchWorks
<1>3. PICK x \in Products, q \in Nat : x = w.product /\ q = w.quantity
  BY <1>2, CartAssumption DEF CatalogIds
<1>4. /\ k \in Carts /\ Len(k) = Len(l) + 1 /\ k[Len(l) + 1] = w
      /\ \A i \in 1 .. Len(l) : k[i] = l[i]
  <2>1. k = Append(l, w)
    BY <1>1
  <2>2. PICK p : p \notin ProductsOf(l)
    BY <1>2
  <2>3. l \in Carts /\ Len(l) < MaxItems /\ w \in [product : CatalogIds, quantity : 1 .. ModelMax]
    BY <1>1, <1>2
  <2>4. k \in Carts /\ Len(k) = Len(l) + 1 /\ k[Len(l) + 1] = w
    BY <2>1, <2>2, <2>3, OneMoreLine
  <2>5. ASSUME NEW i \in 1 .. Len(l) PROVE k[i] = l[i]
    BY <2>1, <2>2, <2>3, OneMoreLine
  <2> QED
    BY <2>4, <2>5
<1>5. Len(l) \in Nat /\ \A i \in 1 .. Len(k) : i = Len(l) + 1 \/ i \in 1 .. Len(l)
  BY <1>4, CartLinesOf
<1>6. "save" \in Stages \ {"idle", "get"}
  BY DEF Stages
<1>7. Accounted(q, c, x)'
  BY <1>2, <1>3, <1>6, AsksFor
<1>8. (\E i \in 1 .. Len(l) : l[i].product = x) => Aliased(c, x)'
  <2>1. r \in Adds(c, x)'
    BY <1>2, <1>3 DEF Adds, IInv
  <2>2. (\E i \in 1 .. Len(l) : l[i].product = x) => op[r].product # x
    BY <1>2, CartLinesOf DEF ProductsOf
  <2> QED
    BY <2>1, <2>2 DEF Aliased
<1>9. /\ \A i \in 1 .. Len(l) : Accounted(l[i].quantity, c, l[i].product)'
      /\ \A i, j \in 1 .. Len(l) : i # j /\ l[i].product = l[j].product
                                     => Aliased(c, l[i].product)'
  <2>1. Explained(l, c)
    BY <1>1 DEF UInv
  <2> QED
    BY <1>6, <2>1, StaysExplained
<1>10. ASSUME NEW i \in 1 .. Len(k) PROVE Accounted(k[i].quantity, c, k[i].product)'
  <2>1. CASE i = Len(l) + 1
    BY <1>3, <1>4, <1>7, <2>1
  <2>2. CASE i \in 1 .. Len(l)
    BY <1>4, <1>9, <2>2
  <2> QED
    BY <1>5, <2>1, <2>2
<1>11. ASSUME NEW i \in 1 .. Len(k), NEW j \in 1 .. Len(k), i # j, k[i].product = k[j].product
       PROVE  Aliased(c, k[i].product)'
  <2>1. CASE i \in 1 .. Len(l) /\ j \in 1 .. Len(l)
    BY <1>4, <1>9, <1>11, <2>1
  <2>2. CASE i \notin 1 .. Len(l) \/ j \notin 1 .. Len(l)
    <3>1. k[i].product = x /\ \E y \in 1 .. Len(l) : l[y].product = x
      BY <1>3, <1>4, <1>5, <1>11, <2>2
    <3> QED
      BY <1>8, <3>1
  <2> QED
    BY <2>1, <2>2
<1> QED
  BY <1>10, <1>11 DEF Explained

\* The steps that end a request, and those that work on its own copy.
LEMMA EndExplained ==
  ASSUME IInv, UInv, NEW r \in Requests, NEW how, End(r, how),
         \A c \in Customers :
           \/ cart'[c] = cart[c] \/ cart'[c] = NoCart
           \/ c = CustomerOf[r] /\ cart'[c] = working[r]
  PROVE  UInv'
<1>1. /\ pc' = [pc EXCEPT ![r] = "done"] /\ op' = op /\ "done" \in Stages \ {"idle"}
      /\ \A x \in Requests : working'[x] = working[x] \/ working'[x] = <<>>
  BY DEF End, Goto, Stages, IInv
<1> QED
  BY <1>1, StepExplained

LEMMA WorkExplained ==
  ASSUME IInv, UInv, NEW r \in Requests, NEW k, NEW st \in {"fetch", "save"}, Work(r, k, st),
         UNCHANGED cart, Explained(k, CustomerOf[r])'
  PROVE  UInv'
<1>1. /\ pc' = [pc EXCEPT ![r] = st] /\ op' = op /\ st \in Stages \ {"idle"} /\ st # "get"
      /\ working'[r] = k /\ \A x \in Requests : x # r => working'[x] = working[x]
  BY DEF Work, Goto, Stages, IInv
<1>2. Explained(working[r], CustomerOf[r])'
  BY <1>1 DEF Explained
<1> QED
  BY <1>1, <1>2, StepExplained

\* Every step keeps what is stored, and what is about to be, explained.
LEMMA NextUInv == IInv /\ UInv /\ [Next]_vars => UInv'
<1> SUFFICES ASSUME IInv, UInv, [Next]_vars PROVE UInv'
  OBVIOUS
<1>1. ASSUME NEW r \in Requests, Arrive(r) PROVE UInv'
  <2>1. PICK st \in {"get", "delete"} : pc' = [pc EXCEPT ![r] = st]
    BY <1>1 DEF Arrive, Goto
  <2>2. pc[r] = "idle" /\ UNCHANGED <<cart, op, working>> /\ st \in Stages \ {"idle"}
    BY <1>1 DEF Arrive, At, Stages
  <2> QED
    BY <2>1, <2>2, StepExplained
<1>2. ASSUME NEW r \in Requests, GetForAdd(r) PROVE UInv'
  <2>1. PICK l, p, q :
          /\ l = Load(cart[CustomerOf[r]]) /\ p = op[r].product /\ q = op[r].quantity
          /\ l \in Carts /\ op[r].kind = "add" /\ pc[r] = "get" /\ UNCHANGED cart
          /\ q \in 1 .. ModelMax
          /\ \/ End(r, "invalid")
             \/ /\ p \in ProductsOf(l) /\ Quantity(l, p) + q \in 1 .. MaxQuantity
                /\ Work(r, WithQuantity(l, p, Quantity(l, p) + q), "save")
             \/ /\ p \notin ProductsOf(l) /\ Len(l) < MaxItems
                /\ Work(r, l, "fetch")
    BY <1>2, GetForAddWorks
  <2>2. PICK c \in Customers : c = CustomerOf[r]
    BY CartAssumption
  <2>3. Explained(l, c)
    BY <2>1, <2>2 DEF UInv
  <2>4. CASE End(r, "invalid")
    BY <2>1, <2>4, EndExplained
  <2>5. CASE /\ p \in ProductsOf(l) /\ Quantity(l, p) + q \in 1 .. MaxQuantity
             /\ Work(r, WithQuantity(l, p, Quantity(l, p) + q), "save")
    <3>1. PICK o \in Nat, n \in 1 .. ModelMax : o = Quantity(l, p) /\ n = o + q
      BY <2>1, <2>5, QuantityNat, CartAssumption
    <3>2. PICK k \in Carts : k = WithQuantity(l, p, n) /\ Reshapes(k, l, p, n)
      BY <2>1, <2>5, <3>1, OtherQuantity
    <3>3. pc' = [pc EXCEPT ![r] = "save"] /\ op' = op /\ "save" \in Stages \ {"idle", "get"}
      BY <2>5 DEF Work, Goto, Stages
    <3>4. p \in Products /\ p = CatalogId[p] /\ Accounted(o, c, p)
      <4>1. LineOf(l, p) \in 1 .. Len(l) /\ l[LineOf(l, p)].product = p
            /\ o = l[LineOf(l, p)].quantity
        BY <2>1, <2>5, <3>1, FirstLine
      <4>2. PICK i \in 1 .. Len(l) : i = LineOf(l, p)
        BY <4>1
      <4>3. Accounted(l[i].quantity, c, l[i].product)
        BY <2>3 DEF Explained
      <4> QED
        BY <2>1, <4>1, <4>2, <4>3, CartLinesOf DEF CatalogIds
    <3>5. Accounted(n, c, p)'
      <4>1. q \in Nat
        BY <2>1, CartAssumption
      <4> QED
        BY <2>1, <2>2, <3>1, <3>3, <3>4, <4>1, AsksFor
    <3>6. n \in Nat
      BY CartAssumption
    <3>7. Explained(k, c)'
      BY <2>1, <2>3, <3>2, <3>3, <3>5, <3>6, ReshapedExplained
    <3> QED
      BY <2>1, <2>2, <2>5, <3>1, <3>2, <3>7, WorkExplained
  <2>6. CASE Work(r, l, "fetch")
    <3>1. pc' = [pc EXCEPT ![r] = "fetch"] /\ op' = op /\ "fetch" \in Stages \ {"idle"}
      BY <2>6 DEF Work, Goto, Stages
    <3>2. Explained(l, c)'
      BY <2>1, <2>3, <3>1, StaysExplained DEF Explained
    <3> QED
      BY <2>1, <2>2, <2>6, <3>2, WorkExplained
  <2> QED
    BY <2>1, <2>4, <2>5, <2>6
<1>3. ASSUME NEW r \in Requests, GetForChange(r) PROVE UInv'
  <2>1. PICK l, p, q :
          /\ l = Load(cart[CustomerOf[r]]) /\ p = op[r].product /\ q = op[r].quantity
          /\ l \in Carts /\ op[r].kind \in {"update", "remove"} /\ UNCHANGED cart
          /\ q \in 0 .. ModelMax
          /\ End(r, "missing") \/ (p \in ProductsOf(l) /\ Work(r, Updated(l, p, q), "save"))
    BY <1>3, GetForChangeWorks
  <2>2. PICK c \in Customers : c = CustomerOf[r]
    BY CartAssumption
  <2>3. Explained(l, c)
    BY <2>1, <2>2 DEF UInv
  <2>4. CASE End(r, "missing")
    BY <2>1, <2>4, EndExplained
  <2>5. CASE p \in ProductsOf(l) /\ Work(r, Updated(l, p, q), "save")
    <3>1. PICK k \in Carts : k = Updated(l, p, q) /\ Reshapes(k, l, p, q)
      BY <2>1, <2>5, UpdatedIsCart
    <3>2. pc' = [pc EXCEPT ![r] = "save"] /\ op' = op /\ "save" \in Stages \ {"idle", "get"}
      BY <2>5 DEF Work, Goto, Stages
    <3>3. q \in Nat /\ p \in Products
      BY <2>1, OperationKinds, CartAssumption DEF IInv
    <3>4. q # 0 => Accounted(q, c, p)'
      <4>1. q # 0 => op[r].kind = "update"
        BY <2>1, OperationKinds DEF IInv
      <4> QED
        BY <2>1, <2>2, <3>2, <3>3, <4>1, AsksFor
    <3>5. Explained(k, c)'
      BY <2>1, <2>3, <3>1, <3>2, <3>3, <3>4, ReshapedExplained
    <3> QED
      BY <2>1, <2>2, <2>5, <3>1, <3>5, WorkExplained
  <2> QED
    BY <2>1, <2>4, <2>5
<1>4. ASSUME NEW r \in Requests, Fetch(r) PROVE UInv'
  <2>1. PICK w :
          /\ w = NewLine(r) /\ UNCHANGED cart
          /\ \/ End(r, "missing") \/ End(r, "invalid") \/ End(r, "upstream")
             \/ Work(r, Append(working[r], w), "save")
    BY <1>4, FetchWorks
  <2>2. CASE End(r, "missing") \/ End(r, "invalid") \/ End(r, "upstream")
    BY <2>1, <2>2, EndExplained
  <2>3. CASE Work(r, Append(working[r], w), "save")
    <3>1. pc' = [pc EXCEPT ![r] = "save"] /\ op' = op
      BY <2>3 DEF Work, Goto
    <3>2. PICK k, c : k = Append(working[r], w) /\ c = CustomerOf[r] /\ c \in Customers
      BY CartAssumption
    <3>3. Explained(k, c)'
      BY <1>4, <2>1, <3>1, <3>2, NewLineExplained
    <3> QED
      BY <2>1, <2>3, <3>2, <3>3, WorkExplained
  <2> QED
    BY <2>1, <2>2, <2>3
<1>5. ASSUME NEW r \in Requests, Save(r) \/ Delete(r) \/ Fail(r) PROVE UInv'
  <2>1. \A c \in Customers :
          \/ cart'[c] = cart[c] \/ cart'[c] = NoCart
          \/ c = CustomerOf[r] /\ cart'[c] = working[r]
    BY <1>5 DEF IInv, Save, Delete, Fail
  <2>2. End(r, "ok") \/ End(r, "error")
    BY <1>5 DEF Save, Delete, Fail
  <2> QED
    BY <2>1, <2>2, EndExplained
<1>6. ASSUME UNCHANGED <<pc, op, working>>,
             \A c \in Customers : cart'[c] = cart[c] \/ cart'[c] = NoCart
      PROVE  UInv'
  <2>1. \A c, p : /\ UnitsAdded(c, p)' = UnitsAdded(c, p) /\ UnitsBegun(c, p)' = UnitsBegun(c, p)
                  /\ UnitsSet(c, p)' = UnitsSet(c, p) /\ Aliased(c, p)' = Aliased(c, p)
    BY <1>6 DEF UnitsAdded, UnitsBegun, Begun, UnitsSet, Adds, Aliased
  <2>2. \A l, c : Explained(l, c) =>
          /\ \A i \in 1 .. Len(l) : Accounted(l[i].quantity, c, l[i].product)'
          /\ \A i, j \in 1 .. Len(l) : i # j /\ l[i].product = l[j].product
                                         => Aliased(c, l[i].product)'
    BY <2>1 DEF Explained, Accounted
  <2>3. ASSUME NEW c \in Customers PROVE Explained(Load(cart[c]), c)'
    <3>1. PICK k : k = Load(cart'[c])
      OBVIOUS
    <3>2. k = <<>> \/ k = Load(cart[c])
      BY <1>6, <3>1, Loaded
    <3>3. /\ \A i \in 1 .. Len(k) : Accounted(k[i].quantity, c, k[i].product)'
          /\ \A i, j \in 1 .. Len(k) : i # j /\ k[i].product = k[j].product
                                         => Aliased(c, k[i].product)'
      <4>1. Explained(k, c)
        BY <3>2, EmptyExplained DEF UInv
      <4> QED
        BY <2>2, <4>1
    <3> QED
      BY <3>1, <3>3 DEF Explained, Load, Readable
  <2>4. ASSUME NEW x \in Requests PROVE Explained(working[x], CustomerOf[x])'
    <3>1. PICK k, c : k = working[x] /\ c = CustomerOf[x]
      OBVIOUS
    <3>2. Explained(k, c)
      BY <3>1 DEF UInv
    <3> QED
      BY <1>6, <2>2, <3>1, <3>2 DEF Explained
  <2> QED
    BY <2>1, <2>3, <2>4 DEF UInv
<1>7. ASSUME NEW d \in Customers, DeletedByOthers(d) PROVE UInv'
  BY <1>6, <1>7 DEF DeletedByOthers, IInv
<1>8. CASE UNCHANGED vars
  BY <1>6, <1>8 DEF vars
<1> QED
  BY <1>1, <1>2, <1>3, <1>4, <1>5, <1>7, <1>8 DEF Next

LEMMA InitUInv == Init => UInv
<1> SUFFICES ASSUME Init PROVE UInv
  OBVIOUS
<1>1. \A c, p : UnitsAdded(c, p) = {}
  BY DEF Init, UnitsAdded, Adds
<1>2. \A c \in Customers : Load(cart[c]) = <<>>
  BY Loaded DEF Init
<1>3. \A r \in Requests : working[r] = <<>>
  BY DEF Init
<1> QED
  BY <1>1, <1>2, <1>3, FS_EmptySet, EmptyExplained DEF UInv

\* Whatever requests of a customer overlap, in whatever pods, and whoever deletes
\* the key, what is stored has no more lines than allowed and no quantity that
\* would make it unreadable, and a second line of a product only after an add that
\* named the product by another id.
THEOREM StoredCartsStayValid == Spec => []StoredCartsAreValid
<1>1. IInv /\ UInv => StoredCartsAreValid
  <2> SUFFICES ASSUME IInv, UInv, NEW c \in Customers, cart[c] # NoCart
               PROVE  /\ IsCart(cart[c], Products) /\ Len(cart[c]) <= MaxItems
                      /\ Readable(cart[c])
                      /\ \A i, j \in DOMAIN cart[c] :
                           i # j /\ cart[c][i].product = cart[c][j].product
                             => \E r \in Adds(c, cart[c][i].product) :
                                  op[r].product # cart[c][i].product
    BY DEF StoredCartsAreValid
  <2>1. PICK l \in Carts : l = cart[c] /\ l = Load(cart[c])
    BY Loaded DEF IInv
  <2>2. l \in Seq([product : Products, quantity : Nat \ {0}])
    <3>1. \A S, T : S \subseteq T => \A s \in Seq(S) : s \in Seq(T)
      OBVIOUS
    <3>2. Line \subseteq [product : Products, quantity : Nat \ {0}]
      BY DEF Line, CatalogIds
    <3>3. l \in Seq(Line)
      BY CartLinesOf
    <3> QED
      BY <3>1, <3>2, <3>3, Zenon
  <2>3. \A i, j \in 1 .. Len(l) : i # j /\ l[i].product = l[j].product => Aliased(c, l[i].product)
    BY <2>1 DEF UInv, Explained
  <2> QED
    BY <2>1, <2>2, <2>3, CartLinesOf DEF Carts, IsCart, Aliased
<1> QED
  BY <1>1, InitIInv, InitUInv, NextIInv, NextUInv, PTL DEF Spec

\* Whatever requests overlap or fail, in whatever pods: no line of a customer's
\* cart holds more of its product than the units the customer's own requests added
\* and the largest quantity they set.
THEOREM NothingIsUnasked == Spec => []NothingUnasked
<1>1. IInv /\ UInv => NothingUnasked
  <2> SUFFICES ASSUME IInv, UInv, NEW c \in Customers, NEW i \in DOMAIN Load(cart[c])
               PROVE  \E n \in UnitsSet(c, Load(cart[c])[i].product) :
                        Load(cart[c])[i].quantity
                          <= Cardinality(UnitsAdded(c, Load(cart[c])[i].product)) + n
    BY DEF NothingUnasked
  <2>1. PICK l \in Carts : l = Load(cart[c])
    BY Loaded DEF IInv
  <2>2. PICK p \in Products, q \in Nat : p = l[i].product /\ q = l[i].quantity
    <3>1. l[i] \in [product : CatalogIds, quantity : 1 .. ModelMax]
      BY <2>1, CartLinesOf
    <3> QED
      BY <3>1, CartAssumption DEF CatalogIds
  <2>3. Accounted(q, c, p)
    BY <2>1, <2>2, CartLinesOf DEF UInv, Explained
  <2>4. PICK n \in UnitsSet(c, p) : q <= Cardinality(UnitsBegun(c, p)) + n
    BY <2>3 DEF Accounted
  <2>5. n \in Nat
    BY OperationKinds, CartAssumption DEF IInv, UnitsSet
  <2>6. UnitsBegun(c, p) \in SUBSET UnitsAdded(c, p) /\ IsFiniteSet(UnitsAdded(c, p))
    BY DEF UnitsBegun, UnitsAdded, Begun, UInv
  <2>7. /\ Cardinality(UnitsBegun(c, p)) <= Cardinality(UnitsAdded(c, p))
        /\ Cardinality(UnitsBegun(c, p)) \in Nat /\ Cardinality(UnitsAdded(c, p)) \in Nat
    BY <2>6, FS_Subset, FS_CardinalityType
  <2>8. q <= Cardinality(UnitsAdded(c, p)) + n
    BY <2>4, <2>5, <2>7
  <2> QED
    BY <2>1, <2>2, <2>8
<1> QED
  BY <1>1, InitIInv, InitUInv, NextIInv, NextUInv, PTL DEF Spec
-----------------------------------------------------------------------------
(* One request of a customer at a time, nobody else deleting the key, and the *)
(* configured maximum that of the request model (99, as shipped): a product    *)
(* that is new in the cart is compared with the model's bound only.            *)

OneAtATime == ~Overlap /\ ~OthersWrite /\ MaxQuantity = ModelMax

Rests(r) == pc[r] \in {"idle", "done"}

\* A customer's requests take turns; what one has read is still there, and what it
\* is about to save is what the promise allows.
AInv ==
  /\ \A r, x \in Requests : r # x /\ CustomerOf[r] = CustomerOf[x] => Rests(r) \/ Rests(x)
  /\ \A r \in Requests :
       /\ pc[r] # "done" => answer[r] = "none"
       /\ pc[r] = "fetch" => working[r] = Load(cart[CustomerOf[r]])
       /\ pc[r] = "save" => working[r] \in Atomic!Results(r, Load(cart[CustomerOf[r]]))

\* The promise counts and changes lines as the service does.
LEMMA SameLines ==
  ASSUME NEW l, NEW p, NEW q, NEW x
  PROVE  /\ Atomic!Added(l, p, q, x) = Added(l, p, q, x)
         /\ Atomic!Updated(l, p, q) = Updated(l, p, q)
         /\ Atomic!Quantity(l, p) = Quantity(l, p)
         /\ Atomic!ProductsOf(l) = ProductsOf(l)
<1>1. Atomic!ProductsOf(l) = ProductsOf(l) /\ Atomic!LineOf(l, p) = LineOf(l, p)
  BY DEF Atomic!ProductsOf, ProductsOf, Atomic!LineOf, LineOf
<1>2. Atomic!Quantity(l, p) = Quantity(l, p)
  BY <1>1 DEF Atomic!Quantity, Quantity
<1>3. \A n : Atomic!WithQuantity(l, p, n) = WithQuantity(l, p, n)
  BY <1>1 DEF Atomic!WithQuantity, WithQuantity
<1>4. Atomic!Without(l, p) = Without(l, p)
  BY DEF Atomic!Without, Without, Atomic!Kept, Kept, Atomic!Cardinality, Cardinality
<1> QED
  BY <1>1, <1>2, <1>3, <1>4 DEF Atomic!Added, Added, Atomic!Updated, Updated

LEMMA ResultsOf ==
  ASSUME NEW r, NEW old, NEW p, p = op[r].product, NEW q, q = op[r].quantity
  PROVE  /\ op[r].kind = "clear" => Atomic!Results(r, old) = {<<>>}
         /\ op[r].kind = "add" =>
              \A new : /\ new = Added(old, p, q, CatalogId[p])
                       /\ Quantity(new, p) <= MaxQuantity /\ Len(new) <= MaxItems
                       => new \in Atomic!Results(r, old)
         /\ op[r].kind \in {"update", "remove"} /\ p \in ProductsOf(old) =>
              Updated(old, p, q) \in Atomic!Results(r, old)
<1>1. CASE op[r].kind = "clear"
  BY <1>1 DEF Atomic!Results
<1>2. CASE op[r].kind = "add"
  BY <1>2, SameLines DEF Atomic!Results
<1>3. CASE op[r].kind \in {"update", "remove"}
  BY <1>3, SameLines DEF Atomic!Results
<1> QED
  BY <1>1, <1>2, <1>3

\* A request that ends leaves the others theirs.
LEMMA EndsAlone ==
  ASSUME IInv, AInv, NEW r \in Requests, NEW how, End(r, how), ~Rests(r),
         \A c \in Customers : c # CustomerOf[r] => cart'[c] = cart[c]
  PROVE  AInv'
<1>1. /\ pc' = [pc EXCEPT ![r] = "done"] /\ answer' = [answer EXCEPT ![r] = how]
      /\ working' = [working EXCEPT ![r] = <<>>] /\ op' = op
  BY DEF End, Goto
<1>2. /\ pc'[r] = "done"
      /\ \A x \in Requests \ {r} :
           pc'[x] = pc[x] /\ answer'[x] = answer[x] /\ working'[x] = working[x]
  BY <1>1 DEF IInv
<1>3. \A x \in Requests \ {r} : ~Rests(x) => cart'[CustomerOf[x]] = cart[CustomerOf[x]]
  BY CartAssumption DEF AInv
<1>4. \A x \in Requests : \A old : Atomic!Results(x, old)' = Atomic!Results(x, old)
  BY <1>1 DEF Atomic!Results
<1>5. ASSUME NEW x \in Requests \ {r}
      PROVE  /\ pc'[x] = "fetch" => working'[x] = Load(cart'[CustomerOf[x]])
             /\ pc'[x] = "save" =>
                  working'[x] \in Atomic!Results(x, Load(cart[CustomerOf[x]]))'
  BY <1>2, <1>3, <1>4 DEF AInv, Rests, Load, Readable
<1> QED
  BY <1>1, <1>2, <1>5 DEF AInv, Rests

\* A request that goes on leaves the stored carts and the others theirs.
LEMMA WorksAlone ==
  ASSUME IInv, AInv, NEW r \in Requests, NEW l, NEW stage \in {"save", "fetch"},
         Work(r, l, stage), ~Rests(r), UNCHANGED cart,
         stage = "fetch" => l = Load(cart[CustomerOf[r]]),
         stage = "save" => l \in Atomic!Results(r, Load(cart[CustomerOf[r]]))
  PROVE  AInv' /\ UNCHANGED <<cart, op, answer>>
<1>1. /\ pc' = [pc EXCEPT ![r] = stage] /\ working' = [working EXCEPT ![r] = l]
      /\ UNCHANGED <<cart, op, answer>>
  BY DEF Work, Goto
<1>2. /\ pc'[r] = stage /\ working'[r] = l
      /\ \A x \in Requests \ {r} : pc'[x] = pc[x] /\ working'[x] = working[x]
  BY <1>1 DEF IInv
<1>3. \A x \in Requests : Atomic!Results(x, Load(cart[CustomerOf[x]]))' =
                            Atomic!Results(x, Load(cart[CustomerOf[x]]))
  BY <1>1 DEF Atomic!Results, Load, Readable
<1>4. \A x \in Requests : Load(cart[CustomerOf[x]])' = Load(cart[CustomerOf[x]])
  BY <1>1 DEF Load, Readable
<1>5. ASSUME NEW x \in Requests
      PROVE  /\ pc'[x] # "done" => answer'[x] = "none"
             /\ pc'[x] = "fetch" => working'[x] = Load(cart[CustomerOf[x]])
             /\ pc'[x] = "save" => working'[x] \in Atomic!Results(x, Load(cart[CustomerOf[x]]))
  BY <1>1, <1>2 DEF AInv, Rests
<1>6. \A x, y \in Requests : x # y /\ CustomerOf[x] = CustomerOf[y] => Rests(x)' \/ Rests(y)'
  BY <1>2 DEF AInv, Rests
<1> QED
  BY <1>1, <1>3, <1>4, <1>5, <1>6 DEF AInv

\* The mapped steps: a request is refused, or has its effect.
LEMMA Refused ==
  ASSUME IInv, AInv, NEW r \in Requests, ~Rests(r), UNCHANGED cart,
         NEW how \in {"missing", "invalid", "upstream", "error"}, End(r, how)
  PROVE  AInv' /\ Atomic!Next
<1>1. AInv'
  BY EndsAlone
<1>2. answer[r] = "none" /\ answer' = [answer EXCEPT ![r] = how] /\ op' = op
  BY DEF AInv, Rests, End
<1>3. Atomic!Refuse(r, how)
  BY <1>2 DEF Atomic!Refuse, Load, Readable
<1> QED
  BY <1>1, <1>3 DEF Atomic!Next

LEMMA Applied ==
  ASSUME IInv, AInv, NEW r \in Requests, ~Rests(r), NEW new \in Carts \cup {NoCart},
         cart' = [cart EXCEPT ![CustomerOf[r]] = new],
         Load(new) \in Atomic!Results(r, Load(cart[CustomerOf[r]])),
         NEW how \in {"ok", "error"}, End(r, how)
  PROVE  AInv' /\ Atomic!Next
<1> DEFINE old == [c \in Customers |-> Load(cart[c])]
           later == [c \in Customers |-> Load(cart'[c])]
<1>1. CustomerOf[r] \in Customers /\ cart \in [Customers -> Carts \cup {NoCart}]
  BY CartAssumption DEF IInv
<1>2. AInv'
  BY <1>1, EndsAlone
<1>3. answer[r] = "none" /\ answer' = [answer EXCEPT ![r] = how] /\ op' = op
  BY DEF AInv, Rests, End
<1>4. later = [old EXCEPT ![CustomerOf[r]] = Load(new)]
  <2>1. \A c \in Customers : cart'[c] = IF c = CustomerOf[r] THEN new ELSE cart[c]
    BY <1>1
  <2>2. \A c \in Customers :
          Load(cart'[c]) = IF c = CustomerOf[r] THEN Load(new) ELSE Load(cart[c])
    BY <2>1
  <2> QED
    BY <2>2, Zenon
<1>5. old[CustomerOf[r]] = Load(cart[CustomerOf[r]])
  BY <1>1
<1>6. [c \in Customers |-> Load(cart[c])]' = later
  BY DEF Load, Readable
<1>7. Atomic!Apply(r, how)
  BY <1>3, <1>4, <1>5, <1>6 DEF Atomic!Apply
<1> QED
  BY <1>2, <1>7 DEF Atomic!Next

LEMMA AtomicSteps ==
  ASSUME OneAtATime, IInv, AInv, [Next]_vars
  PROVE  /\ AInv'
         /\ [Atomic!Next]_<<[c \in Customers |-> Load(cart[c])], op, answer>>
<1> DEFINE Same == UNCHANGED <<cart, op, answer>>
<1>1. Same => UNCHANGED <<[c \in Customers |-> Load(cart[c])], op, answer>>
  BY DEF Load, Readable
<1> SUFFICES AInv' /\ (Same \/ Atomic!Next)
  BY <1>1
<1>2. ASSUME NEW r \in Requests, Arrive(r) PROVE AInv' /\ Same
  <2>1. /\ pc[r] = "idle" /\ UnderWay(CustomerOf[r]) = {}
        /\ pc' = [pc EXCEPT ![r] = IF op[r].kind = "clear" THEN "delete" ELSE "get"]
        /\ UNCHANGED <<cart, op, working, answer>>
    BY <1>2 DEF Arrive, At, Goto, OneAtATime
  <2>2. /\ pc'[r] \in {"delete", "get"} /\ \A x \in Requests \ {r} : pc'[x] = pc[x]
        /\ \A x \in Requests : CustomerOf[x] = CustomerOf[r] => Rests(x)
    BY <2>1 DEF IInv, UnderWay, Rests
  <2>3. \A x \in Requests : /\ Load(cart[CustomerOf[x]])' = Load(cart[CustomerOf[x]])
                            /\ Atomic!Results(x, Load(cart[CustomerOf[x]]))' =
                                 Atomic!Results(x, Load(cart[CustomerOf[x]]))
    BY <2>1 DEF Atomic!Results, Load, Readable
  <2>4. \A x, y \in Requests : x # y /\ CustomerOf[x] = CustomerOf[y] => Rests(x)' \/ Rests(y)'
    BY <2>2 DEF AInv, Rests
  <2>5. ASSUME NEW x \in Requests
        PROVE  /\ pc'[x] # "done" => answer[x] = "none"
               /\ pc'[x] = "fetch" => working[x] = Load(cart[CustomerOf[x]])
               /\ pc'[x] = "save" => working[x] \in Atomic!Results(x, Load(cart[CustomerOf[x]]))
    BY <2>1, <2>2 DEF AInv
  <2> QED
    BY <2>1, <2>3, <2>4, <2>5 DEF AInv
<1>3. ASSUME NEW r \in Requests, GetForAdd(r) PROVE AInv' /\ (Same \/ Atomic!Next)
  <2>1. PICK l, p, q :
          /\ l = Load(cart[CustomerOf[r]]) /\ p = op[r].product /\ q = op[r].quantity
          /\ l \in Carts /\ op[r].kind = "add" /\ pc[r] = "get" /\ UNCHANGED cart
          /\ \/ End(r, "invalid")
             \/ /\ p \in ProductsOf(l) /\ Quantity(l, p) + q \in 1 .. MaxQuantity
                /\ Work(r, WithQuantity(l, p, Quantity(l, p) + q), "save")
             \/ /\ p \notin ProductsOf(l) /\ Len(l) < MaxItems
                /\ Work(r, l, "fetch")
    BY <1>3, GetForAddWorks
  <2>2. ~Rests(r)
    BY <2>1 DEF Rests
  <2>3. CASE End(r, "invalid")
    BY <2>1, <2>2, <2>3, Refused
  <2>4. CASE /\ p \in ProductsOf(l) /\ Quantity(l, p) + q \in 1 .. MaxQuantity
             /\ Work(r, WithQuantity(l, p, Quantity(l, p) + q), "save")
    <3>1. PICK n \in 1 .. MaxQuantity : n = Quantity(l, p) + q
      BY <2>4
    <3>2. PICK k : k = WithQuantity(l, p, n)
      OBVIOUS
    <3>3. n \in 1 .. ModelMax /\ n <= MaxQuantity
      BY CartAssumption
    <3>4. Quantity(k, p) <= MaxQuantity /\ Len(k) <= MaxItems
      BY <2>1, <2>4, <3>2, <3>3, OtherQuantity, CartLinesOf
    <3>5. k = Added(l, p, q, CatalogId[p])
      BY <2>4, <3>1, <3>2 DEF Added
    <3>6. k \in Atomic!Results(r, l)
      BY <2>1, <3>4, <3>5, ResultsOf
    <3> QED
      BY <2>1, <2>2, <2>4, <3>1, <3>2, <3>6, WorksAlone
  <2>5. CASE Work(r, l, "fetch")
    BY <2>1, <2>2, <2>5, WorksAlone
  <2> QED
    BY <2>1, <2>3, <2>4, <2>5
<1>4. ASSUME NEW r \in Requests, GetForChange(r) PROVE AInv' /\ (Same \/ Atomic!Next)
  <2>1. PICK l, p, q :
          /\ l = Load(cart[CustomerOf[r]]) /\ p = op[r].product /\ q = op[r].quantity
          /\ op[r].kind \in {"update", "remove"} /\ pc[r] = "get" /\ UNCHANGED cart
          /\ End(r, "missing") \/ (p \in ProductsOf(l) /\ Work(r, Updated(l, p, q), "save"))
    BY <1>4, GetForChangeWorks
  <2>2. ~Rests(r)
    BY <2>1 DEF Rests
  <2>3. CASE End(r, "missing")
    BY <2>1, <2>2, <2>3, Refused
  <2>4. CASE p \in ProductsOf(l) /\ Work(r, Updated(l, p, q), "save")
    <3>1. Updated(l, p, q) \in Atomic!Results(r, l)
      BY <2>1, <2>4, ResultsOf
    <3> QED
      BY <2>1, <2>2, <2>4, <3>1, WorksAlone
  <2> QED
    BY <2>1, <2>3, <2>4
<1>5. ASSUME NEW r \in Requests, Fetch(r) PROVE AInv' /\ (Same \/ Atomic!Next)
  <2>1. PICK w, l, p :
          /\ w = NewLine(r) /\ l = working[r] /\ p = op[r].product
          /\ l \in Carts /\ pc[r] = "fetch" /\ op[r].kind = "add" /\ UNCHANGED cart
          /\ Len(l) < MaxItems /\ p \notin ProductsOf(l)
          /\ w \in [product : CatalogIds, quantity : 1 .. ModelMax]
          /\ \/ End(r, "missing") \/ End(r, "invalid") \/ End(r, "upstream")
             \/ Work(r, Append(l, w), "save")
    BY <1>5, FetchWorks
  <2>2. ~Rests(r)
    BY <2>1 DEF Rests
  <2>3. CASE End(r, "missing") \/ End(r, "invalid") \/ End(r, "upstream")
    BY <2>1, <2>2, <2>3, Refused
  <2>4. CASE Work(r, Append(l, w), "save")
    <3>1. PICK k : k = Append(l, w)
      OBVIOUS
    <3>2. k \in Carts /\ Quantity(k, p) <= w.quantity
      BY <2>1, <3>1, OneMoreLine
    <3>3. Quantity(k, p) <= MaxQuantity /\ Len(k) <= MaxItems
      BY <2>1, <3>2, QuantityNat, CartLinesOf, CartAssumption DEF OneAtATime
    <3>4. k = Added(l, p, op[r].quantity, CatalogId[p])
      BY <2>1, <3>1 DEF Added, NewLine
    <3>5. l = Load(cart[CustomerOf[r]])
      BY <2>1 DEF AInv
    <3>6. k \in Atomic!Results(r, l)
      BY <2>1, <3>3, <3>4, ResultsOf
    <3> QED
      BY <2>1, <2>2, <2>4, <3>1, <3>5, <3>6, WorksAlone
  <2> QED
    BY <2>1, <2>3, <2>4
<1>6. ASSUME NEW r \in Requests, NEW how \in {"ok", "error"}, End(r, how), At(r, "save"),
             cart' = [cart EXCEPT ![CustomerOf[r]] = working[r]]
      PROVE  AInv' /\ Atomic!Next
  <2>1. working[r] \in Carts /\ ~Rests(r)
    BY <1>6 DEF IInv, At, Rests
  <2>2. Load(working[r]) \in Atomic!Results(r, Load(cart[CustomerOf[r]]))
    BY <1>6, <2>1, Loaded DEF AInv, At
  <2> QED
    BY <1>6, <2>1, <2>2, Applied
<1>7. ASSUME NEW r \in Requests, NEW how \in {"ok", "error"}, End(r, how), At(r, "delete"),
             cart' = [cart EXCEPT ![CustomerOf[r]] = NoCart]
      PROVE  AInv' /\ Atomic!Next
  <2>1. op[r].kind = "clear" /\ ~Rests(r)
    BY <1>7 DEF IInv, At, Rests
  <2>2. Load(NoCart) \in Atomic!Results(r, Load(cart[CustomerOf[r]]))
    BY <2>1, Loaded, ResultsOf
  <2> QED
    BY <1>7, <2>1, <2>2, Applied
<1>8. ASSUME NEW r \in Requests, Fail(r) PROVE AInv' /\ (Same \/ Atomic!Next)
  <2>1. ~Rests(r) /\ End(r, "error")
    BY <1>8 DEF Fail, Rests
  <2>2. CASE UNCHANGED cart
    BY <2>1, <2>2, Refused
  <2>3. CASE cart' # cart
    BY <1>6, <1>7, <1>8, <2>1, <2>3 DEF Fail
  <2> QED
    BY <2>2, <2>3
<1>9. ASSUME NEW r \in Requests, Save(r) \/ Delete(r) PROVE AInv' /\ Atomic!Next
  BY <1>6, <1>7, <1>9 DEF Save, Delete
<1>10. CASE UNCHANGED vars
  <2>1. UNCHANGED <<cart, pc, op, working, answer>>
    BY <1>10 DEF vars
  <2>2. AInv'
    BY <2>1 DEF AInv, Rests, Atomic!Results, Load, Readable
  <2> QED
    BY <2>1, <2>2
<1>11. \A c \in Customers : ~DeletedByOthers(c)
  BY DEF DeletedByOthers, OneAtATime
<1> QED
  BY <1>2, <1>3, <1>4, <1>5, <1>8, <1>9, <1>10, <1>11 DEF Next

\* A customer who does one thing at a time while nobody else deletes the key gets
\* the promise: each request changes the stored cart in one step as it asks, or not
\* at all.
THEOREM AtomicWhenAlone ==
  ASSUME OneAtATime
  PROVE  Spec => ImplementsAtomicCart
<1>1. Init => AInv /\ Atomic!Init
  BY Loaded DEF Init, AInv, Rests, Atomic!Init
<1>2. IInv /\ AInv /\ [Next]_vars =>
        AInv' /\ [Atomic!Next]_<<[c \in Customers |-> Load(cart[c])], op, answer>>
  BY AtomicSteps
<1> QED
  BY <1>1, <1>2, Invariance, PTL DEF Spec, ImplementsAtomicCart, Atomic!Spec
=============================================================================
