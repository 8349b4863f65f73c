----------------------------- MODULE CartLines -----------------------------
(***************************************************************************)
(* The lines of a cart, and of the order made from it: a sequence of       *)
(* [product, quantity] records.  Names and prices are left out: no         *)
(* property modelled with these carts depends on them.                     *)
(***************************************************************************)
EXTENDS Integers, Sequences, FiniteSets

\* The product ids a cart mentions.
ProductsOf(lines) == {lines[i].product : i \in DOMAIN lines}

\* The line that next(...) finds for p, which is in the cart: the first one.
LineOf(lines, p) ==
  CHOOSE i \in DOMAIN lines :
    /\ lines[i].product = p
    /\ \A j \in DOMAIN lines : lines[j].product = p => i <= j

\* How many units of p that line asks for (0 when p is not in the cart).
Quantity(lines, p) ==
  IF p \in ProductsOf(lines) THEN lines[LineOf(lines, p)].quantity ELSE 0

\* The line of p asks for q units.
WithQuantity(lines, p, q) == [lines EXCEPT ![LineOf(lines, p)].quantity = q]

\* An index for every line but those of p, in the order of the cart.
Kept(lines, p) ==
  LET others == {i \in DOMAIN lines : lines[i].product # p}
  IN  CHOOSE f \in [1 .. Cardinality(others) -> others] :
        \A i, j \in DOMAIN f : i < j => f[i] < f[j]

\* The lines but those of p.
Without(lines, p) ==
  LET kept == Kept(lines, p) IN [i \in DOMAIN kept |-> lines[kept[i]]]

\* The line of p gets the quantity q; 0 removes the lines of p.
Updated(lines, p, q) == IF q = 0 THEN Without(lines, p) ELSE WithQuantity(lines, p, q)

\* q more units: those of the line of p or, if there is none, a new line of the
\* product that the catalog gives for p.
Added(lines, p, q, product) ==
  IF p \in ProductsOf(lines)
    THEN WithQuantity(lines, p, Quantity(lines, p) + q)
    ELSE Append(lines, [product |-> product, quantity |-> q])

\* The units of p that the first n lines ask for, each with its line.
Units(lines, n, p) ==
  UNION {{i} \X (1 .. lines[i].quantity) : i \in {j \in 1 .. n : lines[j].product = p}}

\* How many they are, and how many all lines ask for.
UnitsUpTo(lines, n, p) == Cardinality(Units(lines, n, p))
Total(lines, p) == UnitsUpTo(lines, Len(lines), p)

\* Well-formed lines: of products, every quantity at least 1.  One product may
\* have several.
IsCart(lines, Products) == lines \in Seq([product : Products, quantity : Nat \ {0}])
=============================================================================
