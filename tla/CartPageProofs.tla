--------------------------- MODULE CartPageProofs ---------------------------
(***************************************************************************)
(* Theorems about WebCart, for every number of tabs, products, functions   *)
(* under way, clicks and faults: units are lost, doubled or split over two *)
(* rows only where changes overlapped or an answer was lost, and a cart    *)
(* page at rest is current.                                                *)
(***************************************************************************)
EXTENDS WebCart, FiniteSetTheorems, TLAPS

-----------------------------------------------------------------------------
(* The inductive invariant                                                   *)

StoredRow == {w \in Row : w.quantity > 0}
View ==
  [page : {"shop", "cart"}, loading : BOOLEAN, shown : Units, total : Units, foreign : BOOLEAN]
Stages == {"sent", "begun", "ok", "denied", "error"}

Adds ==
  [kind : {"add"}, tab : Tabs, product : Products, quantity : Int, from : {"shop", "cart"},
   auth : BOOLEAN, stage : Stages, saw : SUBSET StoredRow, mounted : BOOLEAN, alive : BOOLEAN]
Loads ==
  [kind : {"load"}, tab : Tabs, part : {"cart", "total"}, auth : BOOLEAN, stage : Stages,
   saw : Units]
Merges ==
  [kind : {"merge"}, tab : Tabs, payload : Units, auth : BOOLEAN, stage : Stages,
   todo : SUBSET Products, saw : SUBSET StoredRow, alive : BOOLEAN]
Calls == {Idle} \union Adds \union Loads \union Merges

\* The types, with those of the functions under way.
Types ==
  /\ token \in {"none", "valid"}
  /\ guest \in Units
  /\ rows \subseteq StoredRow
  /\ view \in [Tabs -> View]
  /\ call \in [Slots -> Calls]
  /\ wanted \in [guest : Units, account : Units]
  /\ disturbed \subseteq Products
  /\ clicks \in 0 .. MaxClicks /\ faults \in 0 .. MaxFaults

\* What is counted is finite.
Finite ==
  /\ IsFiniteSet(UsedIds)
  /\ \A p \in Products : IsFiniteSet(RowsOf(p)) /\ IsFiniteSet(UnitsOf(p))

Writer(c) == c.kind \in {"add", "merge"}
Settled == Products \ disturbed

\* The gateway serves functions that came with a token, and those only; one that
\* was cut off has disturbed what it writes; nobody reads two rows of a product,
\* and a merge looks for what there is to merge.
CallOK(c) ==
  /\ c.kind # "idle" => IF c.auth THEN c.stage # "denied" ELSE c.stage \in {"denied", "error"}
  /\ Writer(c) /\ ~c.alive => Writes(c) \subseteq disturbed
  /\ c.kind = "add" => \A w, x \in c.saw : w.product = c.product /\ w = x
  /\ c.kind = "merge" => /\ \A w, x \in c.saw : w.product = x.product => w = x
                         /\ \A w \in c.saw : w.product \notin c.todo
                         /\ \A p \in c.todo : c.payload[p] > 0

\* Of two functions that write a product nobody disturbed, neither reaches the
\* gateway's rows.
Alone ==
  \A p \in Settled : \A s, x \in Writing(p) : s # x => ~call[s].auth /\ ~call[x].auth

\* What a merge has read of a product.
Seen(c, p) == {w \in c.saw : w.product = p}

\* What holds of a function that writes p on its way to the commit, and from
\* there to the tab.
AddKnows(c, p) ==
  /\ c.stage = "begun" => c.saw = RowsOf(p)
  /\ c.stage = "ok" => Account[p] = AtLeast0(wanted.account[p] + c.quantity)
MergeKnows(c, p) ==
  /\ c.stage \in {"sent", "ok"} => c.payload[p] = guest[p]
  /\ c.stage = "sent" => Seen(c, p) = IF c.payload[p] > 0 /\ p \notin c.todo THEN RowsOf(p) ELSE {}
  /\ c.stage = "ok" => Account[p] = wanted.account[p] + c.payload[p]
Knows(c, p) == /\ c.kind = "add" => AddKnows(c, p)
               /\ c.kind = "merge" => MergeKnows(c, p)

\* No function has committed a change of p that its tab has not heard of.
Told(p) == \A s \in Writing(p) : call[s].stage # "ok"

\* A product nobody disturbed.
SettledOK(p) ==
  /\ guest[p] = wanted.guest[p]
  /\ \A w, x \in RowsOf(p) : w = x
  /\ Told(p) => Account[p] = wanted.account[p]
  /\ \A s \in Writing(p) : Knows(call[s], p)

CartsOK ==
  /\ \A s \in Slots : CallOK(call[s])
  /\ Alone
  /\ \A p \in Settled : SettledOK(p)

\* What a cart page should show.
Current == IF token = "valid" THEN Account ELSE guest

\* The page of t is the cart, and nobody else has changed it since it was read.
Quiet(t) == view[t].page = "cart" /\ ~view[t].foreign

\* A read under way for a quiet page.
LoadKnows(c) ==
  /\ c.stage = "sent" => token = "valid"
  /\ c.stage = "denied" => token = "none"
  /\ c.stage = "ok" => token = "valid" /\ c.saw = Account

LoadsOf(t) == {s \in Slots : call[s].kind = "load" /\ call[s].tab = t}

\* A change that the page of t has asked for and will hear of.
OwnAdd(c, t) == c.kind = "add" /\ c.tab = t /\ c.from = "cart" /\ c.mounted /\ c.alive

\* A quiet page is read twice while nothing changes, or waits for its own change,
\* or rests.
PageOK(t) ==
  /\ \A s \in Busy : \/ call[s].kind = "load"
                     \/ OwnAdd(call[s], t) /\ ~view[t].loading
  /\ \A s, x \in Busy : call[s].kind = "add" /\ call[x].kind = "add" => s = x
  /\ view[t].loading =>
       \E s \in Slots : /\ LoadsOf(t) = {s}
                        /\ LoadKnows(call[s])
                        /\ call[s].part = "total" => view[t].shown = Current
  /\ ~view[t].loading =>
       /\ LoadsOf(t) = {}
       /\ view[t].total = view[t].shown
       /\ \A p \in Settled : Told(p) => view[t].shown[p] = Current[p]
PagesOK == \A t \in Tabs : Quiet(t) => PageOK(t)

IInv == Types /\ Finite /\ CartsOK /\ PagesOK

-----------------------------------------------------------------------------
(* Lemmas about rows                                                         *)

\* The units of a row are finitely many, and as many as its quantity.
LEMMA RowUnits ==
  ASSUME NEW w, NEW n \in Nat
  PROVE  IsFiniteSet({w} \X (1 .. n)) /\ Cardinality({w} \X (1 .. n)) = n
<1> DEFINE N == {w} \X (1 .. n)
           f == [i \in 1 .. n |-> <<w, i>>]
<1>1. IsFiniteSet(1 .. n) /\ Cardinality(1 .. n) = n
  BY FS_Interval
<1>2. f \in Bijection(1 .. n, N)
  <2>1. f \in [1 .. n -> N] /\ \A i, j \in 1 .. n : f[i] = f[j] => i = j
    OBVIOUS
  <2>2. \A u \in N : \E i \in 1 .. n : f[i] = u
    OBVIOUS
  <2> QED
    BY <2>1, <2>2 DEF Bijection, Injection, Surjection, IsInjective
<1> QED
  BY <1>1, <1>2, FS_Bijection DEF ExistsBijection

\* What a product has in the account is a number: that of its row, if it has one.
LEMMA AccountIs ==
  ASSUME Finite, NEW p \in Products
  PROVE  /\ Account[p] \in Nat
         /\ RowsOf(p) = {} => Account[p] = 0
         /\ \A w \in StoredRow : RowsOf(p) = {w} => Account[p] = w.quantity
<1>1. Account[p] = Cardinality(UnitsOf(p))
  BY DEF Account
<1>2. IsFiniteSet(UnitsOf(p))
  BY DEF Finite
<1>3. ASSUME RowsOf(p) = {} PROVE UnitsOf(p) = {}
  BY <1>3 DEF UnitsOf
<1>4. ASSUME NEW w \in StoredRow, RowsOf(p) = {w}
      PROVE  UnitsOf(p) = {w} \X (1 .. w.quantity) /\ w.quantity \in Nat
  BY <1>4 DEF UnitsOf, StoredRow, Row
<1>5. ASSUME NEW w \in StoredRow, RowsOf(p) = {w} PROVE Cardinality(UnitsOf(p)) = w.quantity
  BY <1>4, <1>5, RowUnits
<1> QED
  BY <1>1, <1>2, <1>3, <1>5, FS_CardinalityType, FS_EmptySet

\* The same of the row a step leaves.
LEMMA OneRowAfter ==
  ASSUME NEW p \in Products, NEW x \in StoredRow, RowsOf(p)' = {x}
  PROVE  Account'[p] = x.quantity
<1>1. UnitsOf(p)' = {x} \X (1 .. x.quantity) /\ x.quantity \in Nat
  BY DEF UnitsOf, StoredRow, Row
<1> QED
  BY <1>1, RowUnits DEF Account

\* The account as a whole.
LEMMA AccountType == Finite => Account \in Units
<1> SUFFICES ASSUME Finite PROVE Account \in Units
  OBVIOUS
<1>1. \A p \in Products : Account[p] \in Nat
  BY AccountIs
<1> QED
  BY <1>1 DEF Account, Units

\* A step changes at most one row of a product.
LEMMA StillFinite ==
  ASSUME Finite, NEW p \in Products, NEW x \in StoredRow, RowsOf(p)' \subseteq RowsOf(p) \union {x}
  PROVE  IsFiniteSet(RowsOf(p)') /\ IsFiniteSet(UnitsOf(p)')
<1>1. x.quantity \in Nat
  BY DEF StoredRow, Row
<1> DEFINE U == UnitsOf(p) \union ({x} \X (1 .. x.quantity))
           R == RowsOf(p) \union {x}
<1>2. IsFiniteSet(U)
  BY <1>1, RowUnits, FS_Union DEF Finite
<1>3. IsFiniteSet(R)
  BY FS_AddElement DEF Finite
<1>4. UnitsOf(p)' \in SUBSET U /\ RowsOf(p)' \in SUBSET R
  BY DEF UnitsOf
<1> HIDE DEF U, R
<1> QED
  BY <1>2, <1>3, <1>4, FS_Subset

\* There is always an id that no row has, nor had when it was read.
LEMMA FreshIsNew == Finite => FreshId \in Nat /\ FreshId \notin UsedIds
<1> SUFFICES ASSUME Finite PROVE FreshId \in Nat /\ FreshId \notin UsedIds
  OBVIOUS
<1> DEFINE n == Cardinality(UsedIds) + 1
<1>1. IsFiniteSet(UsedIds) /\ Cardinality(UsedIds) \in Nat
  BY FS_CardinalityType DEF Finite
<1>2. \E id \in 1 .. n : id \notin UsedIds
  <2> SUFFICES ASSUME 1 .. n \in SUBSET UsedIds PROVE FALSE
    OBVIOUS
  <2>1. Cardinality(1 .. n) = n
    BY <1>1, FS_Interval
  <2>2. Cardinality(1 .. n) <= Cardinality(UsedIds)
    BY <1>1, FS_Subset
  <2> QED
    BY <1>1, <2>1, <2>2
<1>3. FreshId \in 1 .. n /\ FreshId \notin UsedIds
  BY <1>2 DEF FreshId
<1> QED
  BY <1>1, <1>3

\* The ids in use stay finitely many: a step adds one at most.
LEMMA UsedStaysFinite ==
  ASSUME Finite, NEW n, UsedIds' \subseteq UsedIds \union {n}
  PROVE  IsFiniteSet(UsedIds')
<1>1. IsFiniteSet(UsedIds \union {n})
  BY FS_AddElement DEF Finite
<1> QED
  BY <1>1, FS_Subset

-----------------------------------------------------------------------------
(* Lemmas about functions under way                                          *)

\* A function is known by its kind.
LEMMA CallKinds ==
  ASSUME NEW c \in Calls
  PROVE  /\ c.kind \in {"idle", "add", "load", "merge"}
         /\ c.kind = "idle" => c = Idle
         /\ c.kind = "add" => c \in Adds
         /\ c.kind = "load" => c \in Loads
         /\ c.kind = "merge" => c \in Merges
BY DEF Calls, Idle, Adds, Loads, Merges

\* What a function writes.
LEMMA WritesOf ==
  ASSUME NEW c \in Calls
  PROVE  /\ Writes(c) \subseteq Products
         /\ c.kind = "add" => Writes(c) = {c.product}
         /\ c.kind = "merge" => Writes(c) = Products
         /\ ~Writer(c) => Writes(c) = {}
BY CallKinds DEF Writes, Writer, Adds

\* One slot changes.
LEMMA SlotSet ==
  ASSUME call \in [Slots -> Calls], NEW s \in Slots, NEW c \in Calls, call' = [call EXCEPT ![s] = c]
  PROVE  /\ call' \in [Slots -> Calls]
         /\ call'[s] = c /\ \A x \in Slots \ {s} : call'[x] = call[x]
OBVIOUS

\* Two functions that do the same work, told of it or not.
SameWork(c, d) ==
  /\ Writer(c) /\ d.kind = c.kind /\ d.stage = c.stage /\ d.auth = c.auth /\ d.saw = c.saw
  /\ c.kind = "add" => d.product = c.product /\ d.quantity = c.quantity
  /\ c.kind = "merge" => d.payload = c.payload /\ d.todo = c.todo

\* What a step that leaves the rows and the guest cart alone does to a slot: the
\* same work goes on, nothing is written any more, or the step says what it knows.
Goes(s) ==
  \/ /\ SameWork(call[s], call'[s])
     /\ call'[s].alive = call[s].alive \/ Writes(call[s]) \subseteq disturbed'
  \/ /\ ~Writer(call'[s]) /\ CallOK(call[s])'
     /\ Writer(call[s]) => call[s].stage # "ok" \/ Writes(call[s]) \subseteq disturbed'
  \/ /\ Writer(call'[s]) /\ CallOK(call[s])'
     /\ \A p \in Settled' : p \in Writes(call'[s]) =>
          /\ Knows(call[s], p)'
          /\ \/ /\ p \in Writes(call[s]) /\ call'[s].auth = call[s].auth
                /\ call[s].stage = "ok" => call'[s].stage = "ok"
             \/ /\ ~Writer(call[s])
                /\ \A x \in Slots \ {s} :
                     p \in Writes(call'[x]) => ~call'[s].auth /\ ~call'[x].auth
     /\ Writer(call[s]) => Writes(call'[s]) = Writes(call[s])

\* Such a step keeps what is known of the carts.
LEMMA CartsKept ==
  ASSUME Types, CartsOK, call' \in [Slots -> Calls], UNCHANGED <<guest, rows>>,
         disturbed \subseteq disturbed',
         \A p \in Settled' : /\ wanted'.guest[p] = wanted.guest[p]
                             /\ wanted'.account[p] = wanted.account[p],
         \A s \in Slots : Goes(s)
  PROVE  CartsOK'
<1>1. Account' = Account /\ \A p : RowsOf(p)' = RowsOf(p)
  BY DEF Account, UnitsOf, RowsOf
<1>2. \A s \in Slots : call[s] \in Calls /\ call'[s] \in Calls
  BY DEF Types
<1>3. Settled' \subseteq Settled
  BY DEF Settled
<1>4. \A s \in Slots : SameWork(call[s], call'[s]) => Writes(call'[s]) = Writes(call[s])
  BY DEF SameWork, Writes, Writer
<1>5. ASSUME NEW s \in Slots PROVE CallOK(call[s])'
  <2>1. CASE SameWork(call[s], call'[s])
             /\ (call'[s].alive = call[s].alive \/ Writes(call[s]) \subseteq disturbed')
    <3>1. CallOK(call[s])
      BY DEF CartsOK
    <3>2. Writer(call'[s]) /\ ~call'[s].alive => Writes(call'[s]) \subseteq disturbed'
      BY <1>4, <2>1, <3>1 DEF CallOK, SameWork
    <3> QED
      BY <2>1, <3>1, <3>2 DEF CallOK, SameWork, Writer
  <2> QED
    BY <2>1 DEF Goes
<1>6. ASSUME NEW s \in Slots, NEW p \in Settled', p \in Writes(call'[s]), SameWork(call[s], call'[s])
      PROVE  Knows(call[s], p)'
  <2>1. p \in Settled /\ Knows(call[s], p)
    BY <1>3, <1>4, <1>6 DEF CartsOK, SettledOK, Writing
  <2>2. p \in Products /\ guest' = guest
    BY DEF Settled
  <2>3. CASE call[s].kind = "add"
    BY <1>1, <1>6, <2>1, <2>3 DEF Knows, AddKnows, SameWork
  <2>4. CASE call[s].kind = "merge"
    <3>1. Seen(call'[s], p) = Seen(call[s], p)
      BY <1>6 DEF Seen, SameWork
    <3>2. MergeKnows(call[s], p)
      BY <2>1, <2>4 DEF Knows
    <3>3. MergeKnows(call[s], p)'
      BY <1>1, <1>6, <2>2, <2>4, <3>1, <3>2 DEF MergeKnows, SameWork, Seen
    <3> QED
      BY <1>6, <2>4, <3>3 DEF Knows, SameWork
  <2> QED
    BY <1>6, <2>3, <2>4 DEF SameWork, Writer
<1>7. ASSUME NEW s \in Slots, NEW p \in Settled', p \in Writes(call'[s]) PROVE Knows(call[s], p)'
  <2>1. Writer(call'[s])
    BY <1>2, <1>7, WritesOf
  <2> QED
    BY <1>6, <1>7, <2>1 DEF Goes
<1>8. ASSUME NEW s \in Slots, NEW p \in Settled', p \in Writes(call[s]), call[s].stage = "ok"
      PROVE  p \in Writes(call'[s]) /\ call'[s].stage = "ok"
  <2>1. Writer(call[s]) /\ ~(Writes(call[s]) \subseteq disturbed')
    BY <1>2, <1>8, WritesOf DEF Settled
  <2>2. CASE SameWork(call[s], call'[s])
    BY <1>4, <1>8, <2>2 DEF SameWork
  <2> QED
    BY <1>8, <2>1, <2>2 DEF Goes
<1>9. ASSUME NEW s \in Slots, NEW p \in Settled', p \in Writes(call'[s])
      PROVE  \/ p \in Writes(call[s]) /\ call'[s].auth = call[s].auth
             \/ \A x \in Slots \ {s} : p \in Writes(call'[x]) => ~call'[s].auth /\ ~call'[x].auth
  <2>1. Writer(call'[s])
    BY <1>2, <1>9, WritesOf
  <2>2. CASE SameWork(call[s], call'[s])
    BY <1>4, <1>9, <2>2 DEF SameWork
  <2> QED
    BY <1>9, <2>1, <2>2 DEF Goes
<1>10. Alone'
  <2> SUFFICES ASSUME NEW p \in Settled', NEW s \in Slots, NEW x \in Slots, s # x,
                      p \in Writes(call'[s]), p \in Writes(call'[x])
               PROVE  ~call'[s].auth /\ ~call'[x].auth
    BY DEF Alone, Writing
  <2>1. p \in Settled
    BY <1>3
  <2>2. CASE p \in Writes(call[s]) /\ p \in Writes(call[x])
             /\ call'[s].auth = call[s].auth /\ call'[x].auth = call[x].auth
    BY <2>1, <2>2 DEF CartsOK, Alone, Writing
  <2> QED
    BY <1>9, <2>2
<1>11. ASSUME NEW p \in Settled' PROVE SettledOK(p)'
  <2>1. p \in Settled /\ SettledOK(p)
    BY <1>3 DEF CartsOK
  <2>2. guest'[p] = wanted'.guest[p]
    BY <2>1 DEF SettledOK
  <2>3. \A w, x \in RowsOf(p)' : w = x
    BY <1>1, <2>1 DEF SettledOK
  <2>4. Told(p)' => Told(p)
    BY <1>8 DEF Told, Writing
  <2>5. Told(p)' => Account'[p] = wanted'.account[p]
    BY <1>1, <2>1, <2>4 DEF SettledOK
  <2>6. \A s \in Writing(p)' : Knows(call[s], p)'
    BY <1>7 DEF Writing
  <2> QED
    BY <2>2, <2>3, <2>5, <2>6 DEF SettledOK
<1> QED
  BY <1>5, <1>10, <1>11 DEF CartsOK

\* What a step that changes neither cart may do to a slot under the eyes of a
\* quiet page of t.
Passes(s, t) ==
  \/ call'[s] = call[s]
  \/ /\ call[s].kind \in {"idle", "load"} /\ s \notin LoadsOf(t)
     /\ call'[s].kind \in {"idle", "load"} /\ (call'[s].kind = "load" => call'[s].tab # t)
  \/ /\ s \in LoadsOf(t) /\ call'[s].kind = "load" /\ call'[s].tab = t
     /\ call'[s].part = call[s].part /\ LoadKnows(call[s])'
  \/ /\ call[s].kind = "add" /\ call'[s].kind = "add" /\ (OwnAdd(call[s], t) => OwnAdd(call'[s], t))
     /\ call'[s].product = call[s].product
     /\ call[s].stage = "ok" => call'[s].stage = "ok" \/ call[s].product \in disturbed'
  \/ call[s].kind = "add" /\ call'[s].kind = "idle" /\ call[s].stage # "ok"

\* Such a step keeps what is known of the page.
LEMMA PageKept ==
  ASSUME Types, NEW t \in Tabs, PageOK(t), call' \in [Slots -> Calls], view'[t] = view[t],
         UNCHANGED <<token, guest, rows>>, disturbed \subseteq disturbed',
         \A s \in Slots : Passes(s, t)
  PROVE  PageOK(t)'
<1>1. /\ Account' = Account /\ Current' = Current
      /\ \A c : LoadKnows(c)' <=> (/\ c'.stage = "sent" => token = "valid"
                                   /\ c'.stage = "denied" => token = "none"
                                   /\ c'.stage = "ok" => token = "valid" /\ c'.saw = Account)
  BY DEF Account, UnitsOf, RowsOf, Current, LoadKnows
<1>2. \A s \in Slots : call[s] \in Calls /\ call'[s] \in Calls
  BY DEF Types
<1>3. \A s \in Slots : s \in LoadsOf(t)' <=> s \in LoadsOf(t)
  BY DEF Passes, LoadsOf
<1>4. ASSUME NEW s \in Busy'
      PROVE  call'[s].kind = "load" \/ (OwnAdd(call'[s], t) /\ ~view'[t].loading)
  <2>1. s \in Slots /\ call'[s].kind # "idle"
    BY <1>4 DEF Busy, Free
  <2>2. call[s].kind # "idle" => call[s].kind = "load" \/ (OwnAdd(call[s], t) /\ ~view[t].loading)
    BY <2>1 DEF PageOK, Busy, Free
  <2>3. Passes(s, t)
    BY <2>1
  <2> QED
    BY <2>1, <2>2, <2>3 DEF Passes
<1>5. \A s \in Slots : call'[s].kind = "add" => call[s].kind = "add"
  BY DEF Passes
<1>6. \A s, x \in Busy' : call'[s].kind = "add" /\ call'[x].kind = "add" => s = x
  BY <1>5 DEF PageOK, Busy, Free
<1>7. CASE view[t].loading
  <2>1. PICK s \in Slots : /\ LoadsOf(t) = {s} /\ LoadKnows(call[s])
                           /\ call[s].part = "total" => view[t].shown = Current
    BY <1>7 DEF PageOK
  <2>2. LoadsOf(t)' = {s}
    BY <1>3, <2>1 DEF LoadsOf
  <2>3. call'[s].part = call[s].part /\ LoadKnows(call[s])'
    <3>1. Passes(s, t) /\ s \in LoadsOf(t)
      BY <2>1
    <3>2. CASE call'[s] = call[s]
      BY <1>1, <2>1, <3>2 DEF LoadKnows
    <3> QED
      BY <3>1, <3>2 DEF Passes, LoadsOf
  <2> QED
    BY <1>1, <1>4, <1>6, <1>7, <2>1, <2>2, <2>3 DEF PageOK
<1>8. CASE ~view[t].loading
  <2>1. /\ LoadsOf(t) = {} /\ view[t].total = view[t].shown
        /\ \A p \in Settled : Told(p) => view[t].shown[p] = Current[p]
    BY <1>8 DEF PageOK
  <2>2. LoadsOf(t)' = {}
    BY <1>3, <2>1 DEF LoadsOf
  <2>3. ASSUME NEW p \in Settled', Told(p)' PROVE Told(p)
    <3> SUFFICES ASSUME NEW s \in Slots, p \in Writes(call[s]), call[s].stage = "ok" PROVE FALSE
      BY DEF Told, Writing
    <3>1. call[s].kind = "add" /\ p = call[s].product
      <4>1. Writer(call[s])
        BY <1>2, WritesOf
      <4>2. call[s].kind = "add"
        BY <4>1 DEF PageOK, Busy, Free, Writer, OwnAdd
      <4> QED
        BY <1>2, <4>2, WritesOf
    <3>2. call'[s].kind = "add" /\ call'[s].product = p /\ call'[s].stage = "ok"
      BY <3>1 DEF Passes, LoadsOf, Settled
    <3>3. p \in Writes(call'[s])
      BY <1>2, <3>2, WritesOf
    <3> QED
      BY <2>3, <3>2, <3>3 DEF Told, Writing
  <2>4. \A p \in Settled' : Told(p)' => view'[t].shown[p] = Current'[p]
    BY <1>1, <2>1, <2>3 DEF Settled
  <2> QED
    BY <1>4, <1>6, <1>8, <2>1, <2>2, <2>4 DEF PageOK
<1> QED
  BY <1>7, <1>8

-----------------------------------------------------------------------------
(* Lemmas about what starts                                                  *)

\* Rows as they were, of which functions have read no more than there was.
LEMMA FiniteKept ==
  ASSUME Types, Finite, rows' = rows, call' \in [Slots -> Calls],
         \A s \in Slots : Writer(call'[s]) =>
           \A w \in call'[s].saw : w \in rows \/ (Writer(call[s]) /\ w \in call[s].saw)
  PROVE  Finite'
<1>1. \A p : RowsOf(p)' = RowsOf(p) /\ UnitsOf(p)' = UnitsOf(p)
  BY DEF RowsOf, UnitsOf
<1>2. \A s \in Slots : call[s] \in Calls /\ call'[s] \in Calls
  BY DEF Types
<1>3. UsedIds' \subseteq UsedIds
  <2> SUFFICES ASSUME NEW id \in UsedIds' PROVE id \in UsedIds
    OBVIOUS
  <2>1. CASE \E w \in rows' : id = w.id
    BY <2>1 DEF UsedIds
  <2>2. CASE \E s \in Slots : /\ call'[s].kind # "idle" /\ call'[s].kind # "load"
                              /\ \E w \in call'[s].saw : id = w.id
    <3>1. PICK s \in Slots : /\ call'[s].kind # "idle" /\ call'[s].kind # "load"
                             /\ \E w \in call'[s].saw : id = w.id
      BY <2>2
    <3>2. Writer(call'[s])
      BY <1>2, <3>1, CallKinds DEF Writer
    <3>3. PICK w \in call'[s].saw : id = w.id
      BY <3>1
    <3>4. CASE w \in rows
      BY <3>3, <3>4 DEF UsedIds
    <3>5. CASE Writer(call[s]) /\ w \in call[s].saw
      BY <3>3, <3>5 DEF UsedIds, Busy, Free, Writer
    <3> QED
      BY <3>2, <3>3, <3>4, <3>5
  <2>3. \/ \E w \in rows' : id = w.id
        \/ \E s \in Slots : /\ call'[s].kind # "idle" /\ call'[s].kind # "load"
                            /\ \E w \in call'[s].saw : id = w.id
    BY DEF UsedIds, Busy, Free
  <2> QED
    BY <2>1, <2>2, <2>3
<1> QED
  BY <1>1, <1>3, UsedStaysFinite DEF Finite

\* A page that somebody else may have changed is not quiet.
LEMMA ForeignViews ==
  ASSUME Types, NEW ts \in SUBSET Tabs, view' = Foreign(ts)
  PROVE  /\ view' \in [Tabs -> View]
         /\ \A t \in ts : ~Quiet(t)'
         /\ \A t \in Tabs \ ts : view'[t] = view[t]
<1>1. ASSUME NEW t \in Tabs
      PROVE  /\ view'[t] \in View /\ (t \in ts => ~Quiet(t)')
             /\ t \notin ts => view'[t] = view[t]
  <2>1. PICK v : v = [view[t] EXCEPT !.foreign = TRUE]
    OBVIOUS
  <2>2. view[t] \in View /\ v \in View /\ v.foreign
    BY <2>1 DEF Types, View
  <2>3. view'[t] = IF t \in ts /\ view[t].page = "cart" THEN v ELSE view[t]
    BY <2>1 DEF Foreign
  <2> QED
    BY <2>2, <2>3 DEF Quiet
<1>2. view' = [t \in Tabs |-> view'[t]]
  BY DEF Foreign
<1> QED
  BY <1>1, <1>2

\* The history forgets the products that are disturbed, and nothing else.
LEMMA Disturbing ==
  ASSUME Types, NEW ps \in SUBSET Products, Disturb(ps)
  PROVE  /\ disturbed' = disturbed \union ps /\ disturbed' \subseteq Products
         /\ wanted' \in [guest : Units, account : Units]
         /\ \A p \in Settled' : /\ wanted'.guest[p] = wanted.guest[p]
                                /\ wanted'.account[p] = wanted.account[p]
<1>1. disturbed' = disturbed \union ps /\ wanted' = Known(wanted, disturbed')
  BY DEF Disturb
<1>2. wanted.guest \in Units /\ wanted.account \in Units
  BY DEF Types
<1>3. \A u \in Units : /\ Without(disturbed', u) \in Units
                       /\ \A p \in Products \ disturbed' : Without(disturbed', u)[p] = u[p]
  BY DEF Without, Units
<1>4. wanted' = [guest |-> Without(disturbed', wanted.guest),
                 account |-> Without(disturbed', wanted.account)]
  BY <1>1 DEF Known
<1> HIDE DEF Disturb, Units
<1>5. /\ wanted' \in [guest : Units, account : Units]
      /\ wanted'.guest = Without(disturbed', wanted.guest)
      /\ wanted'.account = Without(disturbed', wanted.account)
  BY <1>2, <1>3, <1>4
<1>6. disturbed \subseteq Products
  BY DEF Types
<1>7. disturbed' = disturbed \union ps /\ disturbed' \subseteq Products
  BY <1>1, <1>6
<1>8. ASSUME NEW p \in Settled'
      PROVE  wanted'.guest[p] = wanted.guest[p] /\ wanted'.account[p] = wanted.account[p]
  <2>1. p \in Products \ disturbed'
    BY DEF Settled
  <2> QED
    BY <1>2, <1>3, <1>5, <2>1
<1> QED
  BY <1>5, <1>7, <1>8

\* A function that has just been called.
Fresh(c) ==
  /\ c \in Adds \union Merges /\ c.alive /\ c.saw = {}
  /\ c.auth => c.stage = "sent"
  /\ ~c.auth => c.stage = "denied"
  /\ c.kind = "merge" => c.payload = guest /\ c.todo = {p \in Products : guest[p] > 0}

LEMMA NewAddIs ==
  ASSUME Types, NEW t \in Tabs, NEW p \in Products, NEW q \in Int, NEW from \in {"shop", "cart"},
         NEW c, c = NewAdd(t, p, q, from)
  PROVE  /\ c \in Adds /\ Fresh(c) /\ c.kind = "add" /\ c.tab = t /\ c.from = from
         /\ c.mounted /\ c.alive
<1>1. (token = "valid") \in BOOLEAN /\ Sent(token) = (IF token = "valid" THEN "sent" ELSE "denied")
  BY DEF Sent
<1>2. PICK b \in BOOLEAN : b = (token = "valid")
  BY <1>1
<1>3. PICK st : st = Sent(token)
  OBVIOUS
<1>4. c = [kind |-> "add", tab |-> t, product |-> p, quantity |-> q, from |-> from, auth |-> b,
           stage |-> st, saw |-> {}, mounted |-> TRUE, alive |-> TRUE]
  BY <1>2, <1>3 DEF NewAdd
<1>5. st \in Stages
  BY <1>1, <1>3 DEF Stages
<1>6. c \in Adds /\ c.auth = b /\ c.stage = st /\ c.kind = "add"
  BY <1>4, <1>5 DEF Adds
<1>7. c.saw = {} /\ c.tab = t /\ c.from = from /\ c.mounted /\ c.alive
  BY <1>4
<1>8. (b => st = "sent") /\ (~b => st = "denied")
  BY <1>1, <1>2, <1>3
<1> QED
  BY <1>6, <1>7, <1>8 DEF Fresh

LEMMA NewLoadIs ==
  ASSUME Types, NEW t \in Tabs, NEW part \in {"cart", "total"}, NEW c, c = NewLoad(t, part)
  PROVE  /\ c \in Loads /\ c \in Calls /\ c.kind = "load" /\ c.tab = t /\ c.part = part
         /\ c.auth = (token = "valid") /\ c.stage = Sent(token)
<1>1. NoUnits \in Units /\ Sent(token) \in Stages
  BY DEF NoUnits, Units, Sent, Stages
<1> QED
  BY <1>1 DEF NewLoad, Loads, Calls

LEMMA NewMergeIs ==
  ASSUME Types, NEW t \in Tabs, NEW c,
         \/ c = NewMerge(t)
         \/ c = [NewMerge(t) EXCEPT !.auth = TRUE, !.stage = "sent"]
  PROVE  /\ c \in Merges /\ Fresh(c) /\ c.kind = "merge" /\ c.tab = t
         /\ c.auth => token = "valid" \/ c = [NewMerge(t) EXCEPT !.auth = TRUE, !.stage = "sent"]
<1>1. PICK b \in BOOLEAN : b = (token = "valid")
  OBVIOUS
<1>2. PICK st : st = Sent(token)
  OBVIOUS
<1>3. PICK todo : todo = {p \in Products : guest[p] > 0}
  OBVIOUS
<1>4. NewMerge(t) = [kind |-> "merge", tab |-> t, payload |-> guest, auth |-> b, stage |-> st,
                     todo |-> todo, saw |-> {}, alive |-> TRUE]
  BY <1>1, <1>2, <1>3 DEF NewMerge
<1>5. guest \in Units /\ todo \subseteq Products
  BY <1>3 DEF Types
<1>6. ASSUME NEW a \in BOOLEAN, NEW r, a => r = "sent", ~a => r = "denied",
             c = [kind |-> "merge", tab |-> t, payload |-> guest, auth |-> a, stage |-> r,
                  todo |-> todo, saw |-> {}, alive |-> TRUE]
      PROVE  /\ c \in Merges /\ Fresh(c) /\ c.kind = "merge" /\ c.tab = t /\ c.auth = a
  <2>1. /\ c.kind = "merge" /\ c.tab = t /\ c.auth = a /\ c.stage = r /\ c.saw = {} /\ c.alive
        /\ c.payload = guest /\ c.todo = todo
    BY <1>6
  <2>2. r \in Stages
    BY <1>6 DEF Stages
  <2>3. c \in Merges
    BY <1>5, <1>6, <2>2 DEF Merges
  <2> QED
    BY <1>3, <1>6, <2>1, <2>3 DEF Fresh
<1>7. CASE c = NewMerge(t)
  <2>1. (b => st = "sent") /\ (~b => st = "denied")
    BY <1>1, <1>2 DEF Sent
  <2> QED
    BY <1>1, <1>4, <1>6, <1>7, <2>1
<1>8. CASE c = [NewMerge(t) EXCEPT !.auth = TRUE, !.stage = "sent"]
  <2>1. c = [kind |-> "merge", tab |-> t, payload |-> guest, auth |-> TRUE, stage |-> "sent",
             todo |-> todo, saw |-> {}, alive |-> TRUE]
    <3>1. PICK m : m = [kind |-> "merge", tab |-> t, payload |-> guest, auth |-> b, stage |-> st,
                        todo |-> todo, saw |-> {}, alive |-> TRUE]
      OBVIOUS
    <3>2. NewMerge(t) = m
      BY <1>4, <3>1
    <3>3. c = [m EXCEPT !.auth = TRUE, !.stage = "sent"]
      BY <1>8, <3>2
    <3> QED
      BY <3>1, <3>3
  <2>2. c \in Merges /\ Fresh(c) /\ c.kind = "merge" /\ c.tab = t
    BY <1>6, <2>1
  <2> QED
    BY <1>8, <2>2
<1> QED
  BY <1>7, <1>8

\* What goes on as it is.
LEMMA Stays ==
  ASSUME CartsOK, NEW s \in Slots, call'[s] = call[s], disturbed \subseteq disturbed'
  PROVE  Goes(s)
<1>1. CallOK(call[s])
  BY DEF CartsOK
<1>2. CASE Writer(call[s])
  BY <1>2 DEF Goes, SameWork
<1>3. CASE ~Writer(call[s])
  BY <1>1, <1>3 DEF Goes, CallOK, Writer
<1> QED
  BY <1>2, <1>3

\* What has just been called knows the carts, if it meets nobody at the gateway.
LEMMA FreshGoes ==
  ASSUME Types, guest' = guest, NEW s \in Slots, ~Writer(call[s]), NEW c, Fresh(c), call'[s] = c,
         \A p \in Settled' : p \in Writes(c) =>
           \A x \in Slots \ {s} : p \in Writes(call'[x]) => ~c.auth /\ ~call'[x].auth
  PROVE  Goes(s)
<1>1. c \in Calls /\ Writer(c)
  BY DEF Fresh, Calls, Adds, Merges, Writer
<1>2. CallOK(call[s])'
  BY <1>1 DEF CallOK, Fresh, Writer
<1>3. ASSUME NEW p \in Settled', p \in Writes(c) PROVE Knows(call[s], p)'
  <2>1. CASE c.kind = "add"
    BY <2>1 DEF Knows, AddKnows, Fresh
  <2>2. CASE c.kind = "merge"
    <3>1. p \in Products /\ guest' = guest /\ guest[p] \in Nat
      BY DEF Settled, Types, Units
    <3>2. c.payload = guest /\ (p \in c.todo <=> guest[p] > 0) /\ c.saw = {} /\ c.stage # "ok"
      BY <2>2, <3>1 DEF Fresh
    <3>3. MergeKnows(call[s], p)'
      BY <3>1, <3>2 DEF MergeKnows, Seen
    <3> QED
      BY <2>2, <3>3 DEF Knows
  <2> QED
    BY <1>1, <2>1, <2>2 DEF Writer
<1> QED
  BY <1>1, <1>2, <1>3 DEF Goes, Writer

\* A function that starts knows the carts, and is alone, or disturbs.
LEMMA Starts ==
  ASSUME Types, Finite, CartsOK, UNCHANGED <<guest, rows>>, NEW s \in Free, NEW c, Fresh(c),
         Started(s, c)
  PROVE  /\ call' = [call EXCEPT ![s] = c] /\ call' \in [Slots -> Calls]
         /\ call'[s] = c /\ \A x \in Slots \ {s} : call'[x] = call[x]
         /\ disturbed \subseteq disturbed' /\ disturbed' \subseteq Products
         /\ wanted' \in [guest : Units, account : Units]
         /\ CartsOK' /\ Finite'
<1>1. s \in Slots /\ call[s].kind = "idle" /\ c \in Calls /\ Writer(c)
  BY DEF Free, Fresh, Calls, Adds, Merges, Writer
<1>2. call' = [call EXCEPT ![s] = c]
  BY DEF Started
<1>3. /\ call' \in [Slots -> Calls]
      /\ call'[s] = c /\ \A x \in Slots \ {s} : call'[x] = call[x]
  BY <1>1, <1>2, SlotSet DEF Types
<1>4. PICK ps : ps = {p \in Writes(c) : \E x \in Writing(p) \ {s} : c.auth \/ call[x].auth}
  OBVIOUS
<1>5. ps \in SUBSET Products /\ Disturb(ps)
  BY <1>1, <1>4, WritesOf DEF Started
<1>6. /\ disturbed' = disturbed \union ps /\ disturbed' \subseteq Products
      /\ wanted' \in [guest : Units, account : Units]
      /\ \A p \in Settled' : /\ wanted'.guest[p] = wanted.guest[p]
                             /\ wanted'.account[p] = wanted.account[p]
  BY <1>5, Disturbing
<1>7. \A x \in Slots \ {s} : Goes(x)
  BY <1>3, <1>6, Stays
<1>8. Goes(s)
  <2>1. ASSUME NEW p \in Settled', p \in Writes(c), NEW x \in Slots \ {s}, p \in Writes(call'[x])
        PROVE  ~c.auth /\ ~call'[x].auth
    BY <1>3, <1>4, <1>6, <2>1 DEF Settled, Writing
  <2> QED
    BY <1>1, <1>3, <2>1, FreshGoes DEF Writer
<1>9. CartsOK'
  BY <1>3, <1>6, <1>7, <1>8, CartsKept
<1>10. Finite'
  BY <1>1, <1>3, FiniteKept DEF Fresh
<1> QED
  BY <1>2, <1>3, <1>6, <1>9, <1>10

\* Functions whose page is left are not heard of; those of other pages go on.
LEMMA LeavingIs ==
  ASSUME Types, NEW t \in Tabs
  PROVE  /\ Leaving(t) \in [Slots -> Calls]
         /\ \A s \in Slots :
              \/ Leaving(t)[s] = call[s]
              \/ call[s].kind = "load" /\ call[s].tab = t /\ Leaving(t)[s] = Idle
              \/ /\ call[s].kind = "add" /\ call[s].tab = t
                 /\ SameWork(call[s], Leaving(t)[s]) /\ Leaving(t)[s].alive = call[s].alive
<1> SUFFICES ASSUME NEW s \in Slots
             PROVE  /\ Leaving(t)[s] \in Calls
                    /\ \/ Leaving(t)[s] = call[s]
                       \/ call[s].kind = "load" /\ call[s].tab = t /\ Leaving(t)[s] = Idle
                       \/ /\ call[s].kind = "add" /\ call[s].tab = t
                          /\ SameWork(call[s], Leaving(t)[s])
                          /\ Leaving(t)[s].alive = call[s].alive
  BY DEF Leaving
<1>1. call[s] \in Calls
  BY DEF Types
<1>2. CASE call[s].kind = "load" /\ call[s].tab = t
  BY <1>2 DEF Leaving, Calls
<1>3. CASE call[s].kind = "add" /\ call[s].tab = t
  <2>1. PICK c : c = [call[s] EXCEPT !.mounted = FALSE]
    OBVIOUS
  <2>2. call[s] \in Adds
    BY <1>1, <1>3, CallKinds
  <2>3. c \in Adds /\ SameWork(call[s], c) /\ c.alive = call[s].alive
    BY <1>3, <2>1, <2>2 DEF Adds, SameWork, Writer
  <2>4. Leaving(t)[s] = c
    BY <1>3, <2>1 DEF Leaving
  <2> QED
    BY <1>3, <2>3, <2>4 DEF Calls
<1>4. CASE ~(call[s].kind = "load" /\ call[s].tab = t) /\ ~(call[s].kind = "add" /\ call[s].tab = t)
  BY <1>1, <1>4 DEF Leaving
<1> QED
  BY <1>2, <1>3, <1>4

\* The same of functions that are cut off.
LEMMA CutOffIs ==
  ASSUME Types, NEW t \in Tabs
  PROVE  /\ CutOff(t) \in [Slots -> Calls]
         /\ \A s \in Slots :
              \/ CutOff(t)[s] = call[s] /\ (call[s].kind = "idle" \/ call[s].tab # t)
              \/ call[s].kind = "load" /\ call[s].tab = t /\ CutOff(t)[s] = Idle
              \/ Writer(call[s]) /\ call[s].tab = t /\ SameWork(call[s], CutOff(t)[s])
<1> SUFFICES ASSUME NEW s \in Slots
             PROVE  /\ CutOff(t)[s] \in Calls
                    /\ \/ CutOff(t)[s] = call[s] /\ (call[s].kind = "idle" \/ call[s].tab # t)
                       \/ call[s].kind = "load" /\ call[s].tab = t /\ CutOff(t)[s] = Idle
                       \/ Writer(call[s]) /\ call[s].tab = t /\ SameWork(call[s], CutOff(t)[s])
  BY DEF CutOff
<1>1. call[s] \in Calls
  BY DEF Types
<1>2. CASE call[s].kind = "idle" \/ call[s].tab # t
  BY <1>1, <1>2 DEF CutOff
<1>3. CASE call[s].kind = "load" /\ call[s].tab = t
  BY <1>3 DEF CutOff, Calls
<1>4. CASE Writer(call[s]) /\ call[s].tab = t
  <2>1. PICK c : c = [call[s] EXCEPT !.alive = FALSE]
    OBVIOUS
  <2>2. CutOff(t)[s] = c
    BY <1>4, <2>1 DEF CutOff, Writer
  <2>3. CASE call[s].kind = "add"
    <3>1. call[s] \in Adds
      BY <1>1, <2>3, CallKinds
    <3>2. c \in Adds /\ SameWork(call[s], c)
      BY <1>4, <2>1, <2>3, <3>1 DEF Adds, SameWork
    <3> QED
      BY <1>4, <2>2, <3>2 DEF Calls
  <2>4. CASE call[s].kind = "merge"
    <3>1. call[s] \in Merges
      BY <1>1, <2>4, CallKinds
    <3>2. c \in Merges /\ SameWork(call[s], c)
      BY <1>4, <2>1, <2>4, <3>1 DEF Merges, SameWork
    <3> QED
      BY <1>4, <2>2, <3>2 DEF Calls
  <2> QED
    BY <1>4, <2>3, <2>4 DEF Writer
<1> QED
  BY <1>1, <1>2, <1>3, <1>4, CallKinds DEF Writer

-----------------------------------------------------------------------------
(* What the customer does                                                    *)

\* A tab leaves its cart page.
LEMMA GoToShopKeeps ==
  ASSUME IInv, NEW t \in Tabs, GoToShop(t)
  PROVE  IInv'
<1>1. /\ view' = [view EXCEPT ![t] = Shop] /\ call' = Leaving(t)
      /\ UNCHANGED <<token, guest, rows, wanted, disturbed, clicks, faults>>
  BY DEF GoToShop
<1>2. Types /\ Finite /\ CartsOK /\ PagesOK
  BY DEF IInv
<1>3. /\ call' \in [Slots -> Calls]
      /\ \A s \in Slots :
           \/ call'[s] = call[s]
           \/ call[s].kind = "load" /\ call[s].tab = t /\ call'[s] = Idle
           \/ /\ call[s].kind = "add" /\ call[s].tab = t
              /\ SameWork(call[s], call'[s]) /\ call'[s].alive = call[s].alive
  BY <1>1, <1>2, LeavingIs
<1>4. Shop \in View /\ view'[t] = Shop /\ \A x \in Tabs \ {t} : view'[x] = view[x]
  BY <1>1, <1>2 DEF Shop, View, NoUnits, Units, Types
<1>5. Types'
  BY <1>1, <1>2, <1>3, <1>4 DEF Types
<1>6. \A s \in Slots : Writer(call'[s]) => Writer(call[s]) /\ call'[s].saw = call[s].saw
  BY <1>3 DEF Writer, Idle, SameWork
<1>7. Finite'
  BY <1>1, <1>2, <1>3, <1>6, FiniteKept
<1>8. ASSUME NEW s \in Slots PROVE Goes(s)
  <2>1. CASE call'[s] = call[s]
    BY <1>1, <1>2, <2>1, Stays
  <2>2. CASE call[s].kind = "load" /\ call'[s] = Idle
    BY <2>2 DEF Goes, Writer, Idle, CallOK
  <2>3. CASE SameWork(call[s], call'[s]) /\ call'[s].alive = call[s].alive
    BY <2>3 DEF Goes
  <2> QED
    BY <1>3, <2>1, <2>2, <2>3
<1>9. CartsOK'
  BY <1>1, <1>2, <1>3, <1>8, CartsKept
<1>10. ASSUME NEW x \in Tabs, Quiet(x)' PROVE PageOK(x)'
  <2>1. x # t
    BY <1>4, <1>10 DEF Quiet, Shop
  <2>2. view'[x] = view[x] /\ PageOK(x)
    BY <1>2, <1>4, <1>10, <2>1 DEF Quiet, PagesOK
  <2>3. \A s \in Slots : Passes(s, x)
    <3> TAKE s \in Slots
    <3>1. CASE call[s].kind = "load" /\ call[s].tab = t /\ call'[s] = Idle
      BY <2>1, <3>1 DEF Passes, LoadsOf, Idle
    <3>2. CASE /\ call[s].kind = "add" /\ call[s].tab = t
               /\ SameWork(call[s], call'[s])
      BY <2>1, <3>2 DEF Passes, SameWork, OwnAdd
    <3> QED
      BY <1>3, <3>1, <3>2 DEF Passes
  <2> QED
    BY <1>1, <1>2, <1>3, <2>2, <2>3, PageKept
<1> QED
  BY <1>5, <1>7, <1>9, <1>10 DEF IInv, PagesOK

\* A read that starts knows what it should.
LEMMA LoadStarts ==
  ASSUME Types, NEW t \in Tabs, NEW part \in {"cart", "total"}, NEW s \in Slots,
         call'[s] = NewLoad(t, part), token' = token
  PROVE  /\ call'[s].kind = "load" /\ call'[s].tab = t /\ call'[s].part = part
         /\ call'[s] \in Calls /\ ~Writer(call'[s]) /\ CallOK(call[s])' /\ LoadKnows(call[s])'
<1>1. PICK c : c = NewLoad(t, part)
  OBVIOUS
<1>2. /\ c \in Calls /\ c.kind = "load" /\ c.tab = t /\ c.part = part
      /\ c.auth = (token = "valid") /\ c.stage = Sent(token)
  BY <1>1, NewLoadIs
<1>3. /\ c.auth => token = "valid" /\ c.stage = "sent"
      /\ ~c.auth => token = "none" /\ c.stage = "denied"
      /\ c.stage = "sent" => token = "valid"
      /\ c.stage = "denied" => token = "none"
      /\ c.stage # "ok"
  BY <1>2 DEF Sent, Types
<1>4. call'[s] = c
  BY <1>1
<1>5. CallOK(call[s])'
  BY <1>2, <1>3, <1>4 DEF CallOK, Writer
<1>6. LoadKnows(call[s])'
  BY <1>3, <1>4 DEF LoadKnows
<1> QED
  BY <1>2, <1>4, <1>5, <1>6 DEF Writer

\* A tab opens its cart page, which reads.
LEMMA GoToCartKeeps ==
  ASSUME IInv, NEW t \in Tabs, GoToCart(t)
  PROVE  IInv'
<1>1. PICK s \in Free : call' = [call EXCEPT ![s] = NewLoad(t, "cart")]
  BY DEF GoToCart
<1>2. /\ view[t].page = "shop"
      /\ view' = [view EXCEPT ![t] = LoadingView([@ EXCEPT !.page = "cart"], Busy # {})]
      /\ UNCHANGED <<token, guest, rows, wanted, disturbed, clicks, faults>>
  BY DEF GoToCart
<1>3. Types /\ Finite /\ CartsOK /\ PagesOK
  BY DEF IInv
<1>4. s \in Slots /\ call[s].kind = "idle" /\ NewLoad(t, "cart") \in Calls
  BY <1>3, NewLoadIs DEF Free
<1>5. /\ call' \in [Slots -> Calls] /\ call'[s] = NewLoad(t, "cart")
      /\ \A x \in Slots \ {s} : call'[x] = call[x]
  BY <1>1, <1>3, <1>4, SlotSet DEF Types
<1>6. /\ call'[s].kind = "load" /\ call'[s].tab = t /\ call'[s].part = "cart"
      /\ ~Writer(call'[s]) /\ CallOK(call[s])' /\ LoadKnows(call[s])'
  BY <1>2, <1>3, <1>4, <1>5, LoadStarts
<1>7. PICK b \in BOOLEAN : b = (Busy # {})
  OBVIOUS
<1>8. PICK v : v = [[view[t] EXCEPT !.page = "cart"] EXCEPT !.loading = TRUE, !.foreign = b]
  OBVIOUS
<1>9. v \in View /\ v.page = "cart" /\ v.loading /\ v.foreign = b
  BY <1>3, <1>8 DEF View, Types
<1>10. view'[t] = v /\ (\A x \in Tabs \ {t} : view'[x] = view[x]) /\ view' \in [Tabs -> View]
  BY <1>2, <1>3, <1>7, <1>8, <1>9 DEF LoadingView, Types
<1>11. Types'
  BY <1>2, <1>3, <1>5, <1>10 DEF Types
<1>12. Finite'
  BY <1>2, <1>3, <1>5, <1>6, FiniteKept
<1>13. \A x \in Slots : Goes(x)
  <2>1. Goes(s)
    BY <1>4, <1>6 DEF Goes, Writer
  <2> QED
    BY <1>2, <1>3, <1>5, <2>1, Stays
<1>14. CartsOK'
  BY <1>2, <1>3, <1>5, <1>13, CartsKept
<1>15. ASSUME NEW x \in Tabs, Quiet(x)' PROVE PageOK(x)'
  <2>1. CASE x = t
    <3>1. Busy = {}
      BY <1>7, <1>9, <1>10, <1>15, <2>1 DEF Quiet
    <3>2. \A y \in Slots : y # s => call'[y].kind = "idle"
      BY <1>5, <3>1 DEF Busy, Free
    <3>3. LoadsOf(t)' = {s}
      BY <1>4, <1>6, <3>2 DEF LoadsOf
    <3>4. \A y \in Busy' : y = s
      BY <3>2 DEF Busy, Free
    <3> QED
      BY <1>4, <1>6, <1>9, <1>10, <2>1, <3>3, <3>4 DEF PageOK
  <2>2. CASE x # t
    <3>1. view'[x] = view[x] /\ PageOK(x)
      BY <1>3, <1>10, <1>15, <2>2 DEF Quiet, PagesOK
    <3>2. \A y \in Slots : Passes(y, x)
      BY <1>4, <1>5, <1>6, <2>2 DEF Passes, LoadsOf
    <3> QED
      BY <1>2, <1>3, <1>5, <3>1, <3>2, PageKept
  <2> QED
    BY <2>1, <2>2
<1> QED
  BY <1>11, <1>12, <1>14, <1>15 DEF IInv, PagesOK

\* A click that changes the cart.
LEMMA ClickKeeps ==
  ASSUME IInv, NEW t \in Tabs, NEW p \in Products, NEW q \in Int, NEW from \in {"shop", "cart"},
         Click(t, p, q, from), from = "shop" => view[t].page = "shop",
         from = "cart" => ~view[t].loading
  PROVE  IInv'
<1>1. PICK s \in Free : Started(s, NewAdd(t, p, q, from))
  BY DEF Click
<1>2. /\ clicks < MaxClicks /\ clicks' = clicks + 1
      /\ view' = Foreign((Tabs \ {t}) \union (IF Busy # {} THEN {t} ELSE {}))
      /\ UNCHANGED <<token, guest, rows, faults>>
  BY DEF Click
<1>3. Types /\ Finite /\ CartsOK /\ PagesOK
  BY DEF IInv
<1>4. PICK c : c = NewAdd(t, p, q, from)
  OBVIOUS
<1>5. c \in Adds /\ Fresh(c) /\ c.kind = "add" /\ c.tab = t /\ c.from = from /\ c.mounted /\ c.alive
  BY <1>3, <1>4, NewAddIs
<1>6. /\ call' \in [Slots -> Calls]
      /\ call'[s] = c /\ \A x \in Slots \ {s} : call'[x] = call[x]
      /\ disturbed \subseteq disturbed' /\ disturbed' \subseteq Products
      /\ wanted' \in [guest : Units, account : Units]
      /\ CartsOK' /\ Finite'
  BY <1>1, <1>2, <1>3, <1>4, <1>5, Starts
<1>7. PICK ts \in SUBSET Tabs : ts = (Tabs \ {t}) \union (IF Busy # {} THEN {t} ELSE {})
  OBVIOUS
<1>8. /\ view' \in [Tabs -> View]
      /\ \A x \in ts : ~Quiet(x)'
      /\ \A x \in Tabs \ ts : view'[x] = view[x]
  BY <1>2, <1>3, <1>7, ForeignViews
<1>9. clicks' \in 0 .. MaxClicks
  BY <1>2, <1>3, CartAssumption DEF Types
<1>10. Types'
  BY <1>2, <1>3, <1>6, <1>8, <1>9 DEF Types
<1>11. ASSUME NEW x \in Tabs, Quiet(x)' PROVE PageOK(x)'
  <2>1. x = t /\ Busy = {} /\ view'[t] = view[t]
    BY <1>7, <1>8, <1>11
  <2>2. PageOK(t) /\ view[t].page = "cart"
    BY <1>3, <1>11, <2>1 DEF Quiet, PagesOK
  <2>3. from = "cart" /\ ~view[t].loading
    BY <2>2
  <2>4. /\ view[t].total = view[t].shown
        /\ \A y \in Settled : Told(y) => view[t].shown[y] = Current[y]
    BY <2>2, <2>3 DEF PageOK
  <2>5. \A y : Told(y)
    BY <1>3, <2>1, WritesOf DEF Told, Writing, Busy, Free, Types, Writer
  <2>6. \A y \in Slots : y # s => call'[y].kind = "idle"
    BY <1>6, <2>1 DEF Busy, Free
  <2>7. LoadsOf(t)' = {} /\ \A y \in Busy' : y = s
    BY <1>5, <1>6, <2>6 DEF LoadsOf, Busy, Free
  <2>8. OwnAdd(call'[s], t)
    BY <1>5, <1>6, <2>3 DEF OwnAdd
  <2>9. Current' = Current /\ Settled' \subseteq Settled
    BY <1>2, <1>6 DEF Current, Account, UnitsOf, RowsOf, Settled
  <2> QED
    BY <2>1, <2>3, <2>4, <2>5, <2>7, <2>8, <2>9 DEF PageOK
<1> QED
  BY <1>6, <1>10, <1>11 DEF IInv, PagesOK

\* The three ways to click.
LEMMA ChangesKeep ==
  ASSUME IInv, NEW t \in Tabs, NEW p \in Products,
         AddToCart(t, p) \/ UpdateLine(t, p) \/ RemoveLine(t, p)
  PROVE  IInv'
<1>1. CASE AddToCart(t, p)
  BY <1>1, ClickKeeps DEF AddToCart
<1>2. CASE UpdateLine(t, p)
  <2>1. PICK q \in {1, -1} : Click(t, p, q, "cart")
    BY <1>2 DEF UpdateLine
  <2>2. q \in Int /\ ~view[t].loading
    BY <1>2 DEF UpdateLine, OnLine
  <2> QED
    BY <2>1, <2>2, ClickKeeps
<1>3. CASE RemoveLine(t, p)
  <2>1. view[t] \in View /\ ~view[t].loading
    BY <1>3 DEF RemoveLine, OnLine, IInv, Types
  <2>2. view[t].shown \in Units
    BY <2>1 DEF View
  <2>3. view[t].shown[p] \in Nat
    BY <2>2 DEF Units
  <2>4. PICK q \in Int : q = -view[t].shown[p]
    BY <2>3
  <2>5. Click(t, p, q, "cart")
    BY <1>3, <2>4 DEF RemoveLine
  <2> QED
    BY <2>1, <2>5, ClickKeeps
<1> QED
  BY <1>1, <1>2, <1>3

\* The token is stored, and the guest cart offered.
LEMMA LogInKeeps ==
  ASSUME IInv, NEW t \in Tabs, LogIn(t)
  PROVE  IInv'
<1>1. Types /\ Finite /\ CartsOK
  BY DEF IInv
<1>2. /\ token' = "valid" /\ view' = Foreign(Tabs) /\ UNCHANGED <<guest, rows, clicks, faults>>
  BY DEF LogIn
<1>3. view' \in [Tabs -> View] /\ \A x \in Tabs : ~Quiet(x)'
  BY <1>1, <1>2, ForeignViews
<1>4. /\ call' \in [Slots -> Calls] /\ disturbed' \subseteq Products
      /\ wanted' \in [guest : Units, account : Units]
      /\ CartsOK' /\ Finite'
  <2>1. CASE guest = NoUnits
    <3>1. UNCHANGED <<call, wanted, disturbed>>
      BY <2>1 DEF LogIn
    <3>2. \A s \in Slots : Goes(s)
      BY <1>1, <3>1, Stays
    <3>3. CartsOK'
      BY <1>1, <1>2, <3>1, <3>2, CartsKept DEF Types
    <3>4. Finite'
      BY <1>1, <1>2, <3>1, FiniteKept DEF Types
    <3> QED
      BY <1>1, <3>1, <3>3, <3>4 DEF Types
  <2>2. CASE guest # NoUnits
    <3>1. PICK c : c = [NewMerge(t) EXCEPT !.auth = TRUE, !.stage = "sent"]
      OBVIOUS
    <3>2. PICK s \in Free : Started(s, c)
      BY <2>2, <3>1 DEF LogIn
    <3>3. Fresh(c)
      BY <1>1, <3>1, NewMergeIs
    <3> QED
      BY <1>1, <1>2, <3>2, <3>3, Starts
  <2> QED
    BY <2>1, <2>2
<1> QED
  BY <1>1, <1>2, <1>3, <1>4 DEF IInv, Types, PagesOK

\* The token goes.
LEMMA SessionEndsKeeps ==
  ASSUME IInv, SessionEnds
  PROVE  IInv'
<1>1. Types /\ Finite /\ CartsOK
  BY DEF IInv
<1>2. /\ token' = "none" /\ view' = Foreign(Tabs)
      /\ UNCHANGED <<guest, rows, call, wanted, disturbed, clicks, faults>>
  BY DEF SessionEnds
<1>3. view' \in [Tabs -> View] /\ \A x \in Tabs : ~Quiet(x)'
  BY <1>1, <1>2, ForeignViews
<1>4. \A s \in Slots : Goes(s)
  BY <1>1, <1>2, Stays
<1>5. CartsOK'
  BY <1>1, <1>2, <1>4, CartsKept DEF Types
<1>6. Finite'
  BY <1>1, <1>2, FiniteKept DEF Types
<1> QED
  BY <1>1, <1>2, <1>3, <1>5, <1>6 DEF IInv, Types, PagesOK

\* The application is opened anew.
LEMMA ReloadKeeps ==
  ASSUME IInv, NEW t \in Tabs, Reload(t)
  PROVE  IInv'
<1> DEFINE mine == {s \in Busy : call[s].tab = t /\ call[s].kind # "load"}
           free == Free \union {s \in Busy : call[s].tab = t /\ call[s].kind = "load"}
           meets == {p \in Products : /\ guest # NoUnits
                                      /\ \E s \in Writing(p) : call[s].auth \/ token = "valid"}
           lost == UNION {Writes(call[s]) : s \in mine}
<1>1. Types /\ Finite /\ CartsOK
  BY DEF IInv
<1>2. /\ mine = {} \/ faults < MaxFaults
      /\ faults' = IF mine = {} THEN faults ELSE faults + 1
      /\ view' = [Foreign(Tabs) EXCEPT ![t] = Shop]
      /\ \/ guest = NoUnits /\ call' = CutOff(t)
         \/ guest # NoUnits /\ \E s \in free : call' = [CutOff(t) EXCEPT ![s] = NewMerge(t)]
      /\ Disturb(meets \union lost)
      /\ UNCHANGED <<token, guest, rows, clicks>>
  BY DEF Reload
<1>3. meets \union lost \in SUBSET Products
  BY <1>1, WritesOf DEF Types, Busy
<1> HIDE DEF meets, lost
<1>4. /\ disturbed' = disturbed \union meets \union lost /\ disturbed' \subseteq Products
      /\ wanted' \in [guest : Units, account : Units]
      /\ \A p \in Settled' : /\ wanted'.guest[p] = wanted.guest[p]
                             /\ wanted'.account[p] = wanted.account[p]
  BY <1>1, <1>2, <1>3, Disturbing
<1>5. /\ view' \in [Tabs -> View] /\ \A x \in Tabs : ~Quiet(x)'
  <2>1. PICK vs : vs = Foreign(Tabs)
    OBVIOUS
  <2>2. \A x \in Tabs : vs[x] \in View /\ ~(vs[x].page = "cart" /\ ~vs[x].foreign)
    <3> TAKE x \in Tabs
    <3>1. PICK v : v = [view[x] EXCEPT !.foreign = TRUE]
      OBVIOUS
    <3>2. view[x] \in View /\ v \in View /\ v.foreign
      BY <1>1, <3>1 DEF Types, View
    <3> QED
      BY <2>1, <3>1, <3>2 DEF Foreign
  <2>3. vs = [x \in Tabs |-> vs[x]]
    BY <2>1 DEF Foreign
  <2>4. Shop \in View /\ Shop.page = "shop"
    BY DEF Shop, View, NoUnits, Units
  <2>5. view' = [vs EXCEPT ![t] = Shop]
    BY <1>2, <2>1
  <2> QED
    BY <2>2, <2>3, <2>4, <2>5 DEF Quiet
<1>6. /\ CutOff(t) \in [Slots -> Calls]
      /\ \A s \in Slots :
           \/ CutOff(t)[s] = call[s] /\ (call[s].kind = "idle" \/ call[s].tab # t)
           \/ call[s].kind = "load" /\ call[s].tab = t /\ CutOff(t)[s] = Idle
           \/ Writer(call[s]) /\ call[s].tab = t /\ SameWork(call[s], CutOff(t)[s])
  BY <1>1, CutOffIs
<1>7. PICK cut \in [Slots -> Calls] : cut = CutOff(t)
  BY <1>6
<1>8. ASSUME NEW s \in Slots, call'[s] = cut[s] PROVE Goes(s)
  <2>1. CASE call'[s] = call[s]
    BY <1>1, <1>4, <2>1, Stays
  <2>2. CASE call[s].kind = "load" /\ call'[s] = Idle
    BY <2>2 DEF Goes, Writer, Idle, CallOK
  <2>3. CASE Writer(call[s]) /\ call[s].tab = t /\ SameWork(call[s], call'[s])
    <3>1. s \in mine
      BY <2>3 DEF Writer, Busy, Free
    <3>2. Writes(call[s]) \subseteq disturbed'
      BY <1>4, <3>1 DEF lost
    <3> QED
      BY <2>3, <3>2 DEF Goes
  <2> QED
    BY <1>6, <1>7, <1>8, <2>1, <2>2, <2>3
<1>9. \A s \in Slots : Writer(cut[s]) =>
        /\ Writer(call[s]) /\ cut[s].saw = call[s].saw /\ cut[s].auth = call[s].auth
        /\ Writes(cut[s]) = Writes(call[s])
  <2> SUFFICES ASSUME NEW s \in Slots, Writer(cut[s])
               PROVE  /\ Writer(call[s]) /\ cut[s].saw = call[s].saw /\ cut[s].auth = call[s].auth
                      /\ Writes(cut[s]) = Writes(call[s])
    OBVIOUS
  <2>1. cut[s] = call[s] \/ cut[s] = Idle \/ SameWork(call[s], cut[s])
    BY <1>6, <1>7
  <2>2. CASE cut[s] = call[s]
    BY <2>2
  <2>3. CASE cut[s] = Idle
    BY <2>3 DEF Writer, Idle
  <2>4. CASE SameWork(call[s], cut[s])
    BY <2>4 DEF SameWork, Writes, Writer
  <2> QED
    BY <2>1, <2>2, <2>3, <2>4
<1>10. call' \in [Slots -> Calls] /\ CartsOK' /\ Finite'
  <2>1. CASE call' = cut
    <3>1. CartsOK'
      BY <1>1, <1>2, <1>4, <1>8, <2>1, CartsKept
    <3>2. Finite'
      BY <1>1, <1>2, <1>9, <2>1, FiniteKept
    <3> QED
      BY <2>1, <3>1, <3>2
  <2>2. CASE guest # NoUnits /\ \E s \in free : call' = [cut EXCEPT ![s] = NewMerge(t)]
    <3>1. PICK s \in free : call' = [cut EXCEPT ![s] = NewMerge(t)]
      BY <2>2
    <3>2. PICK c : c = NewMerge(t)
      OBVIOUS
    <3>3. /\ c \in Merges /\ Fresh(c) /\ c.kind = "merge" /\ (c.auth => token = "valid")
          /\ c \in Calls /\ c.saw = {}
      <4>1. c.auth = (token = "valid")
        BY <3>2 DEF NewMerge
      <4>2. c \in Merges /\ Fresh(c) /\ c.kind = "merge"
        BY <1>1, <3>2, NewMergeIs
      <4> QED
        BY <4>1, <4>2 DEF Fresh, Calls
    <3>4. s \in Slots /\ ~Writer(call[s])
      BY <3>1 DEF Free, Busy, Writer
    <3>5. /\ call' \in [Slots -> Calls] /\ call'[s] = c
          /\ \A x \in Slots \ {s} : call'[x] = cut[x]
      BY <3>1, <3>2, <3>3, <3>4
    <3>6. ASSUME NEW p \in Settled', NEW x \in Slots \ {s}, p \in Writes(call'[x])
          PROVE  ~c.auth /\ ~call'[x].auth
      <4>1. p \in Products /\ p \notin meets
        BY <1>4 DEF Settled
      <4>2. Writer(cut[x]) /\ p \in Writes(call[x]) /\ call'[x].auth = call[x].auth
        BY <1>9, <3>5, <3>6, WritesOf
      <4> QED
        BY <2>2, <3>3, <4>1, <4>2 DEF meets, Writing
    <3>7. Goes(s)
      <4>1. guest' = guest
        BY <1>2
      <4> QED
        BY <1>1, <3>3, <3>4, <3>5, <3>6, <4>1, FreshGoes
    <3>8. CartsOK'
      BY <1>1, <1>2, <1>4, <1>8, <3>5, <3>7, CartsKept
    <3>9. Finite'
      BY <1>1, <1>2, <1>9, <3>3, <3>5, FiniteKept
    <3> QED
      BY <3>5, <3>8, <3>9
  <2> QED
    BY <1>2, <1>7, <2>1, <2>2
<1>11. faults' \in 0 .. MaxFaults
  BY <1>1, <1>2, CartAssumption DEF Types
<1> QED
  BY <1>1, <1>2, <1>4, <1>5, <1>10, <1>11 DEF IInv, Types, PagesOK

-----------------------------------------------------------------------------
(* What the gateway does                                                     *)

\* One function goes on, and neither cart changes.
LEMMA OneMoves ==
  ASSUME IInv, NEW s \in Slots, NEW c \in Calls, call' = [call EXCEPT ![s] = c],
         UNCHANGED <<token, guest, rows, view>>,
         disturbed \subseteq disturbed', disturbed' \subseteq Products,
         wanted' \in [guest : Units, account : Units],
         \A p \in Settled' : /\ wanted'.guest[p] = wanted.guest[p]
                             /\ wanted'.account[p] = wanted.account[p],
         clicks' \in 0 .. MaxClicks, faults' \in 0 .. MaxFaults,
         call'[s] = c => Goes(s),
         Writer(c) => \A w \in c.saw : w \in rows \/ (Writer(call[s]) /\ w \in call[s].saw),
         \A t \in Tabs : PageOK(t) /\ call'[s] = c => Passes(s, t)
  PROVE  IInv'
<1>1. Types /\ Finite /\ CartsOK /\ PagesOK
  BY DEF IInv
<1>2. /\ call' \in [Slots -> Calls] /\ call'[s] = c
      /\ \A x \in Slots \ {s} : call'[x] = call[x]
  BY <1>1, SlotSet DEF Types
<1>3. Types'
  BY <1>1, <1>2 DEF Types
<1>4. Finite'
  BY <1>1, <1>2, FiniteKept
<1>5. \A x \in Slots : Goes(x)
  BY <1>1, <1>2, Stays
<1>6. CartsOK'
  BY <1>1, <1>2, <1>5, CartsKept
<1>7. ASSUME NEW t \in Tabs, Quiet(t)' PROVE PageOK(t)'
  <2>1. PageOK(t) /\ view'[t] = view[t]
    BY <1>1, <1>7 DEF Quiet, PagesOK
  <2>2. \A x \in Slots : Passes(x, t)
    BY <1>2, <2>1 DEF Passes
  <2> QED
    BY <1>1, <1>2, <2>1, <2>2, PageKept
<1> QED
  BY <1>3, <1>4, <1>6, <1>7 DEF IInv, PagesOK

\* The read of a quiet page.
LEMMA QuietLoad ==
  ASSUME NEW t \in Tabs, PageOK(t), NEW s \in LoadsOf(t)
  PROVE  /\ view[t].loading /\ LoadsOf(t) = {s} /\ LoadKnows(call[s])
         /\ call[s].part = "total" => view[t].shown = Current
BY DEF PageOK

\* The gateway answers, or goes on.
LEMMA Answered ==
  ASSUME Types, NEW s \in Slots, call[s].kind # "idle", NEW st \in Stages
  PROVE  \E c \in Calls :
           /\ Answer(s, st) = [call EXCEPT ![s] = c]
           /\ c.stage = st /\ c.kind = call[s].kind /\ c.tab = call[s].tab /\ c.auth = call[s].auth
           /\ c.saw = call[s].saw /\ Writes(c) = Writes(call[s])
           /\ c.kind = "load" => c.part = call[s].part
           /\ c.kind # "load" => c.alive = call[s].alive
           /\ c.kind = "add" => /\ c.product = call[s].product /\ c.quantity = call[s].quantity
                                /\ c.from = call[s].from /\ c.mounted = call[s].mounted
           /\ c.kind = "merge" => c.payload = call[s].payload /\ c.todo = call[s].todo
<1>1. PICK c : c = [call[s] EXCEPT !.stage = st]
  OBVIOUS
<1>2. Answer(s, st) = [call EXCEPT ![s] = c]
  BY <1>1 DEF Answer, Types
<1>3. call[s] \in Calls
  BY DEF Types
<1>4. CASE call[s].kind = "add"
  <2>1. call[s] \in Adds
    BY <1>3, <1>4, CallKinds
  <2>2. /\ c \in Adds /\ c.stage = st /\ c.kind = "add" /\ c.tab = call[s].tab
        /\ c.auth = call[s].auth /\ c.saw = call[s].saw /\ c.alive = call[s].alive
        /\ c.product = call[s].product /\ c.quantity = call[s].quantity
        /\ c.from = call[s].from /\ c.mounted = call[s].mounted
    BY <1>1, <1>4, <2>1 DEF Adds
  <2>3. Writes(c) = Writes(call[s])
    BY <1>4, <2>2 DEF Writes
  <2> QED
    BY <1>2, <1>4, <2>2, <2>3 DEF Calls
<1>5. CASE call[s].kind = "load"
  <2>1. call[s] \in Loads
    BY <1>3, <1>5, CallKinds
  <2>2. /\ c \in Loads /\ c.stage = st /\ c.kind = "load" /\ c.tab = call[s].tab
        /\ c.auth = call[s].auth /\ c.saw = call[s].saw /\ c.part = call[s].part
    BY <1>1, <1>5, <2>1 DEF Loads
  <2>3. Writes(c) = Writes(call[s])
    BY <1>5, <2>2 DEF Writes
  <2> QED
    BY <1>2, <1>5, <2>2, <2>3 DEF Calls
<1>6. CASE call[s].kind = "merge"
  <2>1. call[s] \in Merges
    BY <1>3, <1>6, CallKinds
  <2>2. /\ c \in Merges /\ c.stage = st /\ c.kind = "merge" /\ c.tab = call[s].tab
        /\ c.auth = call[s].auth /\ c.saw = call[s].saw /\ c.alive = call[s].alive
        /\ c.payload = call[s].payload /\ c.todo = call[s].todo
    BY <1>1, <1>6, <2>1 DEF Merges
  <2>3. Writes(c) = Writes(call[s])
    BY <1>6, <2>2 DEF Writes
  <2> QED
    BY <1>2, <1>6, <2>2, <2>3 DEF Calls
<1> QED
  BY <1>3, <1>4, <1>5, <1>6, CallKinds

\* A set without two elements.
LEMMA AtMostOne ==
  ASSUME NEW S, IsFiniteSet(S)
  PROVE  (\A x, y \in S : x = y) <=> Cardinality(S) <= 1
<1>1. Cardinality(S) \in Nat
  BY FS_CardinalityType
<1>2. ASSUME \A x, y \in S : x = y PROVE Cardinality(S) <= 1
  <2>1. CASE S = {}
    BY <2>1, FS_EmptySet
  <2>2. CASE S # {}
    <3>1. PICK x : S = {x}
      BY <1>2, <2>2
    <3> QED
      BY <3>1, FS_Singleton
  <2> QED
    BY <2>1, <2>2
<1>3. ASSUME Cardinality(S) <= 1 PROVE \A x, y \in S : x = y
  <2>1. CASE Cardinality(S) = 0
    BY <2>1, FS_EmptySet
  <2>2. CASE Cardinality(S) = 1
    <3>1. PICK x : S = {x}
      BY <2>2, FS_Singleton
    <3> QED
      BY <3>1
  <2> QED
    BY <1>1, <1>3, <2>1, <2>2
<1> QED
  BY <1>2, <1>3

\* The gateway reads the account.
LEMMA ReadCartKeeps ==
  ASSUME IInv, NEW s \in Slots, ReadCart(s)
  PROVE  IInv'
<1>1. /\ call[s].kind = "load" /\ call[s].stage = "sent"
      /\ call' = [call EXCEPT ![s].stage = "ok", ![s].saw = Account]
      /\ UNCHANGED <<token, guest, rows, view, wanted, disturbed, clicks, faults>>
  BY DEF ReadCart, Served
<1>2. Types /\ Finite /\ CartsOK
  BY DEF IInv
<1>3. PICK c : c = [[call[s] EXCEPT !.stage = "ok"] EXCEPT !.saw = Account]
  OBVIOUS
<1>4. call' = [call EXCEPT ![s] = c]
  BY <1>1, <1>2, <1>3 DEF Types
<1>5. call[s] \in Loads /\ Account \in Units
  BY <1>1, <1>2, CallKinds, AccountType DEF Types
<1>6. /\ c \in Loads /\ c.kind = "load" /\ c.tab = call[s].tab /\ c.part = call[s].part
      /\ c.auth = call[s].auth /\ c.stage = "ok" /\ c.saw = Account
  BY <1>3, <1>5 DEF Loads, Stages
<1>7. c.auth
  BY <1>1, <1>2, <1>6 DEF CartsOK, CallOK
<1>8. ASSUME call'[s] = c PROVE Goes(s)
  <2>1. CallOK(call[s])'
    BY <1>6, <1>7, <1>8 DEF CallOK, Writer
  <2> QED
    BY <1>1, <1>6, <1>8, <2>1 DEF Goes, Writer
<1>9. ASSUME NEW t \in Tabs, PageOK(t), call'[s] = c PROVE Passes(s, t)
  <2>1. CASE s \in LoadsOf(t)
    <3>1. token = "valid"
      BY <1>1, <1>9, <2>1, QuietLoad DEF LoadKnows
    <3>2. Account' = Account
      BY <1>1 DEF Account, UnitsOf, RowsOf
    <3>3. LoadKnows(call[s])'
      BY <1>1, <1>6, <1>9, <3>1, <3>2 DEF LoadKnows
    <3> QED
      BY <1>6, <1>9, <2>1, <3>3 DEF Passes, LoadsOf
  <2>2. CASE s \notin LoadsOf(t)
    BY <1>1, <1>6, <1>9, <2>2 DEF Passes, LoadsOf
  <2> QED
    BY <2>1, <2>2
<1>10. c \in Calls /\ ~Writer(c)
  BY <1>6 DEF Calls, Writer
<1> QED
  BY <1>1, <1>2, <1>4, <1>8, <1>9, <1>10, OneMoves DEF Types

\* A function that hears of an error, and has not committed a change, or disturbs.
LEMMA ErrorKeeps ==
  ASSUME IInv, NEW s \in Slots, call[s].kind # "idle", call' = Answer(s, "error"),
         UNCHANGED <<token, guest, rows, view>>,
         disturbed \subseteq disturbed', disturbed' \subseteq Products,
         wanted' \in [guest : Units, account : Units],
         \A p \in Settled' : /\ wanted'.guest[p] = wanted.guest[p]
                             /\ wanted'.account[p] = wanted.account[p],
         clicks' \in 0 .. MaxClicks, faults' \in 0 .. MaxFaults,
         call[s].stage # "ok" \/ Writes(call[s]) \subseteq disturbed'
  PROVE  IInv'
<1>1. Types /\ CallOK(call[s])
  BY DEF IInv, CartsOK
<1>2. PICK c \in Calls :
        /\ call' = [call EXCEPT ![s] = c]
        /\ c.stage = "error" /\ c.kind = call[s].kind /\ c.tab = call[s].tab
        /\ c.auth = call[s].auth /\ c.saw = call[s].saw /\ Writes(c) = Writes(call[s])
        /\ c.kind = "load" => c.part = call[s].part
        /\ c.kind # "load" => c.alive = call[s].alive
        /\ c.kind = "add" => /\ c.product = call[s].product
                             /\ c.from = call[s].from /\ c.mounted = call[s].mounted
        /\ c.kind = "merge" => c.payload = call[s].payload /\ c.todo = call[s].todo
  BY <1>1, Answered DEF Stages
<1>3. ASSUME call'[s] = c PROVE Goes(s)
  <2>1. CallOK(call[s])'
    BY <1>1, <1>2, <1>3 DEF CallOK, Writer
  <2>2. \A p : Knows(call[s], p)'
    BY <1>2, <1>3 DEF Knows, AddKnows, MergeKnows
  <2>3. Settled' \cap disturbed' = {}
    BY DEF Settled
  <2>4. ASSUME NEW p \in Settled', p \in Writes(c), call[s].stage = "ok" PROVE FALSE
    BY <1>2, <2>3, <2>4
  <2> QED
    BY <1>2, <1>3, <2>1, <2>2, <2>4 DEF Goes, Writer
<1>4. ASSUME NEW t \in Tabs, PageOK(t), call'[s] = c PROVE Passes(s, t)
  <2>1. s \in Busy /\ (call[s].kind = "load" \/ call[s].kind = "add")
    BY <1>4 DEF PageOK, Busy, Free, OwnAdd
  <2>2. CASE call[s].kind = "load" /\ call[s].tab = t
    <3>1. LoadKnows(call[s])'
      BY <1>2, <1>4 DEF LoadKnows
    <3> QED
      BY <1>2, <1>4, <2>2, <3>1 DEF Passes, LoadsOf
  <2>3. CASE call[s].kind = "load" /\ call[s].tab # t
    BY <1>2, <1>4, <2>3 DEF Passes, LoadsOf
  <2>4. CASE call[s].kind = "add"
    <3>1. Writes(call[s]) = {call[s].product}
      BY <1>1, <2>4, WritesOf DEF Types
    <3> QED
      BY <1>2, <1>4, <2>4, <3>1 DEF Passes, OwnAdd
  <2> QED
    BY <2>1, <2>2, <2>3, <2>4
<1> QED
  BY <1>2, <1>3, <1>4, OneMoves DEF Writer

\* A request fails, or its answer does not arrive.
LEMMA RequestFailsKeeps ==
  ASSUME IInv, NEW s \in Slots, RequestFails(s)
  PROVE  IInv'
<1>1. Types
  BY DEF IInv
<1>2. /\ faults < MaxFaults /\ faults' = faults + 1 /\ call[s].kind # "idle"
      /\ call' = Answer(s, "error")
      /\ UNCHANGED <<token, guest, rows, view, clicks>>
  BY DEF RequestFails
<1>3. PICK ps : ps = (IF call[s].stage = "ok" THEN Writes(call[s]) ELSE {})
  OBVIOUS
<1>4. ps \in SUBSET Products /\ Disturb(ps)
  BY <1>1, <1>3, WritesOf DEF RequestFails, Types
<1>5. /\ disturbed' = disturbed \union ps /\ disturbed' \subseteq Products
      /\ wanted' \in [guest : Units, account : Units]
      /\ \A p \in Settled' : /\ wanted'.guest[p] = wanted.guest[p]
                             /\ wanted'.account[p] = wanted.account[p]
  BY <1>1, <1>4, Disturbing
<1>6. faults' \in 0 .. MaxFaults /\ clicks' \in 0 .. MaxClicks
  BY <1>1, <1>2, CartAssumption DEF Types
<1>7. call[s].stage # "ok" \/ Writes(call[s]) \subseteq disturbed'
  BY <1>3, <1>5
<1> QED
  BY <1>2, <1>5, <1>6, <1>7, ErrorKeeps

\* The gateway looks for the row of the product.
LEMMA FindRowKeeps ==
  ASSUME IInv, NEW s \in Slots, FindRow(s)
  PROVE  IInv'
<1>1. /\ call[s].kind = "add" /\ call[s].stage = "sent"
      /\ UNCHANGED <<token, guest, rows, view, wanted, disturbed, clicks, faults>>
  BY DEF FindRow, Served
<1>2. Types /\ Finite /\ CartsOK
  BY DEF IInv
<1>3. call[s] \in Adds /\ CallOK(call[s]) /\ Writes(call[s]) = {call[s].product}
  BY <1>1, <1>2, CallKinds, WritesOf DEF Types, CartsOK
<1>4. PICK p \in Products : p = call[s].product
  BY <1>3 DEF Adds
<1>5. CASE call' = Answer(s, "error")
  BY <1>1, <1>2, <1>5, ErrorKeeps DEF Types
<1>6. CASE /\ ~(Cardinality(RowsOf(p)) > 1)
           /\ call' = [call EXCEPT ![s].stage = "begun", ![s].saw = RowsOf(p)]
  <2>1. PICK found : found = RowsOf(p)
    OBVIOUS
  <2>2. PICK c : c = [[call[s] EXCEPT !.stage = "begun"] EXCEPT !.saw = found]
    OBVIOUS
  <2>3. call' = [call EXCEPT ![s] = c]
    BY <1>2, <1>6, <2>1, <2>2 DEF Types
  <2>4. found \subseteq StoredRow /\ found \subseteq rows /\ \A w \in found : w.product = p
    BY <1>2, <2>1 DEF RowsOf, Types
  <2>5. /\ c \in Adds /\ c.stage = "begun" /\ c.kind = "add" /\ c.tab = call[s].tab
        /\ c.auth = call[s].auth /\ c.saw = found /\ c.alive = call[s].alive
        /\ c.product = p /\ c.from = call[s].from /\ c.mounted = call[s].mounted
    BY <1>3, <1>4, <2>2, <2>4 DEF Adds, Stages
  <2>6. \A w, x \in found : w = x
    <3>1. IsFiniteSet(found) /\ Cardinality(found) \in Nat
      BY <1>2, <2>1, FS_CardinalityType DEF Finite
    <3>2. Cardinality(found) <= 1
      BY <1>6, <2>1, <3>1
    <3> QED
      BY <3>1, <3>2, AtMostOne
  <2>7. Writes(c) = {p}
    BY <2>5 DEF Writes
  <2>8. ASSUME call'[s] = c PROVE Goes(s)
    <3>1. CallOK(call[s])'
      BY <1>1, <1>3, <1>4, <2>4, <2>5, <2>6, <2>7, <2>8 DEF CallOK, Writer
    <3>2. RowsOf(p)' = found
      BY <1>1, <2>1 DEF RowsOf
    <3>3. Knows(call[s], p)'
      BY <2>5, <2>8, <3>2 DEF Knows, AddKnows
    <3> QED
      BY <1>1, <1>3, <1>4, <2>5, <2>7, <2>8, <3>1, <3>3 DEF Goes, Writer
  <2>9. \A t \in Tabs : call'[s] = c => Passes(s, t)
    BY <1>1, <1>4, <2>5 DEF Passes, OwnAdd
  <2>10. c \in Calls /\ \A w \in c.saw : w \in rows
    BY <2>4, <2>5 DEF Calls
  <2> QED
    BY <1>1, <1>2, <2>3, <2>8, <2>9, <2>10, OneMoves DEF Types
<1> QED
  BY <1>4, <1>5, <1>6 DEF FindRow

\* The gateway looks for the row of one product to merge.
LEMMA FindRowToMergeKeeps ==
  ASSUME IInv, NEW s \in Slots, NEW p \in Products, FindRowToMerge(s, p)
  PROVE  IInv'
<1>1. /\ call[s].kind = "merge" /\ call[s].stage = "sent" /\ p \in call[s].todo
      /\ UNCHANGED <<token, guest, rows, view, wanted, disturbed, clicks, faults>>
  BY DEF FindRowToMerge, Served
<1>2. Types /\ Finite /\ CartsOK
  BY DEF IInv
<1>3. call[s] \in Merges /\ CallOK(call[s]) /\ Writes(call[s]) = Products
  BY <1>1, <1>2, CallKinds, WritesOf DEF Types, CartsOK
<1>4. CASE call' = Answer(s, "error")
  BY <1>1, <1>2, <1>4, ErrorKeeps DEF Types
<1>5. CASE /\ ~(Cardinality(RowsOf(p)) > 1)
           /\ call' = [call EXCEPT ![s].todo = @ \ {p}, ![s].saw = @ \union RowsOf(p)]
  <2>1. PICK found : found = RowsOf(p)
    OBVIOUS
  <2>2. PICK c : c = [[call[s] EXCEPT !.todo = @ \ {p}] EXCEPT !.saw = @ \union found]
    OBVIOUS
  <2>3. call' = [call EXCEPT ![s] = c]
    BY <1>2, <1>5, <2>1, <2>2 DEF Types
  <2>4. found \subseteq StoredRow /\ found \subseteq rows /\ \A w \in found : w.product = p
    BY <1>2, <2>1 DEF RowsOf, Types
  <2>5. /\ c \in Merges /\ c.stage = "sent" /\ c.kind = "merge" /\ c.auth = call[s].auth
        /\ c.saw = call[s].saw \union found /\ c.alive = call[s].alive
        /\ c.payload = call[s].payload /\ c.todo = call[s].todo \ {p}
    BY <1>1, <1>3, <2>2, <2>4 DEF Merges
  <2>6. \A w, x \in found : w = x
    <3>1. IsFiniteSet(found) /\ Cardinality(found) \in Nat
      BY <1>2, <2>1, FS_CardinalityType DEF Finite
    <3>2. Cardinality(found) <= 1
      BY <1>5, <2>1, <3>1
    <3> QED
      BY <3>1, <3>2, AtMostOne
  <2>7. Writes(c) = Products
    BY <2>5 DEF Writes
  <2>8. /\ \A w, x \in call[s].saw : w.product = x.product => w = x
        /\ \A w \in call[s].saw : w.product \notin call[s].todo
        /\ \A y \in call[s].todo : call[s].payload[y] > 0
        /\ call[s].auth
    BY <1>1, <1>3 DEF CallOK
  <2>9. ASSUME call'[s] = c PROVE Goes(s)
    <3>1. \A w, x \in c.saw : w.product = x.product => w = x
      BY <1>1, <2>4, <2>5, <2>6, <2>8
    <3>2. /\ \A w \in c.saw : w.product \notin c.todo
          /\ \A y \in c.todo : c.payload[y] > 0
      BY <2>4, <2>5, <2>8
    <3>3. ~c.alive => Writes(c) \subseteq disturbed'
      BY <1>1, <1>3, <2>5, <2>7 DEF CallOK, Writer
    <3>4. CallOK(call[s])'
      BY <2>5, <2>8, <2>9, <3>1, <3>2, <3>3 DEF CallOK, Writer
    <3>5. ASSUME NEW y \in Settled' PROVE Knows(call[s], y)'
      <4>1. y \in Settled /\ y \in Products
        BY <1>1 DEF Settled
      <4>2. MergeKnows(call[s], y)
        BY <1>1, <1>2, <1>3, <4>1 DEF CartsOK, SettledOK, Writing, Knows
      <4>3. RowsOf(y)' = RowsOf(y) /\ guest' = guest
        BY <1>1 DEF RowsOf
      <4>4. Seen(c, y) = IF c.payload[y] > 0 /\ y \notin c.todo THEN RowsOf(y) ELSE {}
        <5>1. CASE y = p
          <6>1. Seen(c, y) = found
            BY <1>1, <2>4, <2>5, <2>8, <5>1 DEF Seen
          <6>2. c.payload[y] > 0 /\ y \notin c.todo
            BY <1>1, <2>5, <2>8, <5>1
          <6> QED
            BY <2>1, <5>1, <6>1, <6>2
        <5>2. CASE y # p
          <6>1. Seen(c, y) = Seen(call[s], y)
            BY <2>4, <2>5, <5>2 DEF Seen
          <6> QED
            BY <1>1, <2>5, <4>2, <5>2, <6>1 DEF MergeKnows
        <5> QED
          BY <5>1, <5>2
      <4>5. MergeKnows(call[s], y)'
        BY <1>1, <2>5, <2>9, <4>2, <4>3, <4>4 DEF MergeKnows, Seen
      <4> QED
        BY <2>5, <2>9, <4>5 DEF Knows
    <3> QED
      BY <1>1, <1>3, <2>5, <2>7, <2>9, <3>4, <3>5 DEF Goes, Writer, Settled
  <2>10. \A t \in Tabs : ~PageOK(t)
    BY <1>1 DEF PageOK, Busy, Free, OwnAdd
  <2>11. c \in Calls /\ \A w \in c.saw : w \in rows \/ (Writer(call[s]) /\ w \in call[s].saw)
    BY <1>1, <2>4, <2>5 DEF Calls, Writer
  <2> QED
    BY <1>1, <1>2, <2>3, <2>9, <2>10, <2>11, OneMoves DEF Types
<1> QED
  BY <1>4, <1>5 DEF FindRowToMerge

\* What the commit of a change does to the rows: those of its product become one
\* with the new quantity, or none, if there was one at most.
LEMMA RowsAfter ==
  ASSUME Types, Finite, NEW p \in Products, NEW q \in Int, NEW saw \in SUBSET StoredRow,
         \A w, x \in saw : w.product = p /\ w = x,
         \A w \in saw : w.id \in UsedIds,
         rows' = RowsAfterAdd(saw, p, q)
  PROVE  /\ rows' \subseteq StoredRow
         /\ \A y \in Products \ {p} : RowsOf(y)' = RowsOf(y)
         /\ \E x \in StoredRow : RowsOf(p)' \subseteq RowsOf(p) \union {x}
         /\ \E n : \A w \in rows' : w \in rows \/ w.id = n \/ w.id \in UsedIds
         /\ saw = RowsOf(p) =>
              \/ RowsOf(p)' = {} /\ AtLeast0(Account[p] + q) = 0
              \/ \E x \in StoredRow : RowsOf(p)' = {x} /\ x.quantity = AtLeast0(Account[p] + q)
<1>1. rows \subseteq StoredRow
  BY DEF Types
<1>2. FreshId \in Nat
  BY FreshIsNew
<1>3. PICK new : new = [product |-> p, id |-> FreshId, quantity |-> q]
  OBVIOUS
<1>4. new.product = p /\ new.id = FreshId /\ new.quantity = q /\ (q > 0 => new \in StoredRow)
  BY <1>2, <1>3 DEF StoredRow, Row
<1>5. PICK one : one = [product |-> p, id |-> 0, quantity |-> 1]
  OBVIOUS
<1>6. one \in StoredRow
  BY <1>5 DEF StoredRow, Row
<1>7. CASE saw = {} /\ q > 0
  <2>1. rows' = rows \union {new}
    BY <1>3, <1>7 DEF RowsAfterAdd
  <2>2. RowsOf(p)' = RowsOf(p) \union {new} /\ \A y \in Products \ {p} : RowsOf(y)' = RowsOf(y)
    BY <1>4, <2>1 DEF RowsOf
  <2>3. saw = RowsOf(p) => RowsOf(p)' = {new} /\ new.quantity = AtLeast0(Account[p] + q)
    BY <1>4, <1>7, <2>2, AccountIs DEF AtLeast0
  <2> QED
    BY <1>1, <1>4, <1>7, <2>1, <2>2, <2>3
<1>8. CASE saw = {} /\ ~(q > 0)
  <2>1. rows' = rows
    BY <1>8 DEF RowsAfterAdd
  <2>2. \A y \in Products : RowsOf(y)' = RowsOf(y)
    BY <2>1 DEF RowsOf
  <2>3. saw = RowsOf(p) => RowsOf(p)' = {} /\ AtLeast0(Account[p] + q) = 0
    BY <1>8, <2>2, AccountIs DEF AtLeast0
  <2> QED
    BY <1>1, <1>6, <2>1, <2>2, <2>3
<1>9. CASE saw # {}
  <2>1. PICK w \in saw : w = CHOOSE x \in saw : TRUE
    BY <1>9
  <2>2. saw = {w} /\ w \in StoredRow /\ w.product = p /\ w.quantity \in Nat /\ w.id \in Nat
    BY <2>1 DEF StoredRow, Row
  <2>3. PICK u : u = [w EXCEPT !.quantity = @ + q]
    OBVIOUS
  <2>4. /\ u.product = p /\ u.id = w.id /\ u.quantity = w.quantity + q
        /\ w.quantity + q > 0 => u \in StoredRow
    BY <2>2, <2>3 DEF StoredRow, Row
  <2>5. rows' = (rows \ SameRow(w)) \union (IF w.quantity + q > 0 THEN {u} ELSE {})
    BY <1>9, <2>1, <2>3 DEF RowsAfterAdd
  <2>6. \A x \in SameRow(w) : x.product = p
    BY <2>2 DEF SameRow
  <2>7. RowsOf(p) = {w} => RowsOf(p) \subseteq SameRow(w) /\ Account[p] = w.quantity
    BY <2>2, AccountIs DEF RowsOf, SameRow
  <2>8. w.id \in UsedIds
    BY <2>1
  <2>9. CASE w.quantity + q > 0
    <3>1. rows' = (rows \ SameRow(w)) \union {u} /\ u \in StoredRow
      BY <2>4, <2>5, <2>9
    <3>2. /\ RowsOf(p)' = (RowsOf(p) \ SameRow(w)) \union {u}
          /\ \A y \in Products \ {p} : RowsOf(y)' = RowsOf(y)
      BY <2>4, <2>6, <3>1 DEF RowsOf
    <3>3. saw = RowsOf(p) => RowsOf(p)' = {u} /\ u.quantity = AtLeast0(Account[p] + q)
      BY <2>2, <2>4, <2>7, <2>9, <3>2 DEF AtLeast0
    <3> QED
      BY <1>1, <2>4, <2>8, <3>1, <3>2, <3>3
  <2>10. CASE ~(w.quantity + q > 0)
    <3>1. rows' = rows \ SameRow(w)
      BY <2>5, <2>10
    <3>2. /\ RowsOf(p)' = RowsOf(p) \ SameRow(w)
          /\ \A y \in Products \ {p} : RowsOf(y)' = RowsOf(y)
      BY <2>6, <3>1 DEF RowsOf
    <3>3. saw = RowsOf(p) => RowsOf(p)' = {} /\ AtLeast0(Account[p] + q) = 0
      BY <2>2, <2>7, <2>10, <3>2 DEF AtLeast0
    <3> QED
      BY <1>1, <1>6, <3>1, <3>2, <3>3
  <2> QED
    BY <2>9, <2>10
<1> QED
  BY <1>7, <1>8, <1>9

\* What nothing happens to stays known.
LEMMA SettledKept ==
  ASSUME NEW y \in Products, SettledOK(y), guest'[y] = guest[y],
         wanted'.guest[y] = wanted.guest[y], wanted'.account[y] = wanted.account[y],
         Account'[y] = Account[y], RowsOf(y)' = RowsOf(y),
         \A x \in Writing(y)' : x \in Writing(y) /\ call'[x] = call[x], Told(y)' => Told(y)
  PROVE  SettledOK(y)'
<1>1. \A x \in Writing(y)' : Knows(call[x], y)'
  <2> TAKE x \in Writing(y)'
  <2>1. Knows(call[x], y) /\ call'[x] = call[x]
    BY DEF SettledOK
  <2>2. call[x].kind = "merge" => Seen(call[x], y)' = Seen(call[x], y)
    BY <2>1 DEF Seen
  <2>3. call[x].kind = "add" => AddKnows(call[x], y)'
    BY <2>1 DEF Knows, AddKnows
  <2>4. call[x].kind = "merge" => MergeKnows(call[x], y)'
    BY <2>1, <2>2 DEF Knows, MergeKnows
  <2> QED
    BY <2>1, <2>3, <2>4 DEF Knows
<1> QED
  BY <1>1 DEF SettledOK

\* Of a product nobody disturbed, a function that was served is the only writer.
LEMMA ServedIsAlone ==
  ASSUME CartsOK, NEW s \in Slots, call[s].auth, NEW p \in Settled, p \in Writes(call[s])
  PROVE  \A x \in Slots \ {s} : p \notin Writes(call[x])
BY DEF CartsOK, Alone, Writing

\* Finitely many rows after a commit.
LEMMA FiniteAfter ==
  ASSUME Types, Finite, call' \in [Slots -> Calls],
         \A s \in Slots : Writer(call'[s]) => Writer(call[s]) /\ call'[s].saw = call[s].saw,
         \A p \in Products : \E x \in StoredRow : RowsOf(p)' \subseteq RowsOf(p) \union {x},
         NEW n, \A w \in rows' : w \in rows \/ w.id = n \/ w.id \in UsedIds
  PROVE  Finite'
<1>1. UsedIds' \subseteq UsedIds \union {n}
  <2> SUFFICES ASSUME NEW id \in UsedIds' PROVE id \in UsedIds \union {n}
    OBVIOUS
  <2>1. \A s \in Slots : call'[s].kind # "idle" /\ call'[s].kind # "load" => Writer(call'[s])
    BY CallKinds DEF Writer
  <2>2. CASE \E w \in rows' : id = w.id
    BY <2>2 DEF UsedIds
  <2>3. CASE \E s \in Slots : Writer(call'[s]) /\ \E w \in call'[s].saw : id = w.id
    BY <2>3 DEF UsedIds, Busy, Free, Writer
  <2>4. \/ \E w \in rows' : id = w.id
        \/ \E s \in Slots : Writer(call'[s]) /\ \E w \in call'[s].saw : id = w.id
    BY <2>1 DEF UsedIds, Busy, Free
  <2> QED
    BY <2>2, <2>3, <2>4
<1>2. \A p \in Products : IsFiniteSet(RowsOf(p)') /\ IsFiniteSet(UnitsOf(p)')
  BY StillFinite
<1> QED
  BY <1>1, <1>2, UsedStaysFinite DEF Finite

\* The gateway commits a change.
LEMMA CommitAddKeeps ==
  ASSUME IInv, NEW s \in Slots, CommitAdd(s)
  PROVE  IInv'
<1>1. /\ call[s].kind = "add" /\ call[s].stage = "begun"
      /\ UNCHANGED <<token, guest, view, wanted, disturbed, clicks, faults>>
  BY DEF CommitAdd, Served
<1>2. Types /\ Finite /\ CartsOK /\ PagesOK
  BY DEF IInv
<1>3. call[s] \in Adds /\ CallOK(call[s]) /\ Writes(call[s]) = {call[s].product}
  BY <1>1, <1>2, CallKinds, WritesOf DEF Types, CartsOK
<1>4. CASE call' = Answer(s, "error") /\ UNCHANGED rows
  BY <1>1, <1>2, <1>4, ErrorKeeps DEF Types
<1>5. CASE call' = Answer(s, "ok") /\ rows' = RowsAfterAdd(call[s].saw, call[s].product, call[s].quantity)
  <2>1. PICK p \in Products : p = call[s].product
    BY <1>3 DEF Adds
  <2>2. PICK q \in Int : q = call[s].quantity
    BY <1>3 DEF Adds
  <2>3. PICK saw \in SUBSET StoredRow : saw = call[s].saw
    BY <1>3 DEF Adds
  <2>4. call[s].auth /\ \A w, x \in saw : w.product = p /\ w = x
    BY <1>1, <1>3, <2>1, <2>3 DEF CallOK
  <2>5. \A w \in saw : w.id \in UsedIds
    BY <1>1, <2>3 DEF UsedIds, Busy, Free
  <2>6. /\ rows' \subseteq StoredRow
        /\ \A y \in Products \ {p} : RowsOf(y)' = RowsOf(y)
        /\ \E x \in StoredRow : RowsOf(p)' \subseteq RowsOf(p) \union {x}
        /\ \E n : \A w \in rows' : w \in rows \/ w.id = n \/ w.id \in UsedIds
        /\ saw = RowsOf(p) =>
             \/ RowsOf(p)' = {} /\ AtLeast0(Account[p] + q) = 0
             \/ \E x \in StoredRow : RowsOf(p)' = {x} /\ x.quantity = AtLeast0(Account[p] + q)
    BY <1>2, <1>5, <2>1, <2>2, <2>3, <2>4, <2>5, RowsAfter
  <2>7. PICK c \in Calls :
          /\ Answer(s, "ok") = [call EXCEPT ![s] = c]
          /\ c.stage = "ok" /\ c.kind = "add" /\ c.tab = call[s].tab /\ c.auth = call[s].auth
          /\ c.saw = saw /\ Writes(c) = Writes(call[s]) /\ c.alive = call[s].alive
          /\ c.product = p /\ c.quantity = q
          /\ c.from = call[s].from /\ c.mounted = call[s].mounted
    BY <1>1, <1>2, <2>1, <2>2, <2>3, Answered DEF Stages
  <2>8. /\ call' \in [Slots -> Calls]
        /\ call'[s] = c /\ \A x \in Slots \ {s} : call'[x] = call[x]
    BY <1>2, <1>5, <2>7, SlotSet DEF Types
  <2>9. Types'
    BY <1>1, <1>2, <2>6, <2>8 DEF Types
  <2>10. Finite'
    <3>1. PICK n : \A w \in rows' : w \in rows \/ w.id = n \/ w.id \in UsedIds
      BY <2>6
    <3>2. \A y \in Products : \E x \in StoredRow : RowsOf(y)' \subseteq RowsOf(y) \union {x}
      BY <2>6
    <3>3. \A x \in Slots : Writer(call'[x]) => Writer(call[x]) /\ call'[x].saw = call[x].saw
      BY <1>1, <2>3, <2>7, <2>8 DEF Writer
    <3> QED
      BY <1>2, <2>8, <3>1, <3>2, <3>3, FiniteAfter
  <2>11. \A y \in Products \ {p} : UnitsOf(y)' = UnitsOf(y)
    BY <2>6 DEF UnitsOf
  <2>12. /\ \A y \in Products \ {p} : Account'[y] = Account[y]
         /\ saw = RowsOf(p) => Account'[p] = AtLeast0(Account[p] + q)
    <3>1. \A y \in Products \ {p} : Account'[y] = Account[y]
      BY <2>11 DEF Account
    <3>2. ASSUME RowsOf(p)' = {} PROVE Account'[p] = 0
      <4>1. UnitsOf(p)' = {}
        BY <3>2 DEF UnitsOf
      <4> QED
        BY <4>1, FS_EmptySet DEF Account
    <3> QED
      BY <2>6, <3>1, <3>2, OneRowAfter
  <2>13. \A x \in Slots : CallOK(call[x])'
    <3> TAKE x \in Slots
    <3>1. CASE x = s
      <4>1. c.kind = "add" /\ c.auth /\ c.stage = "ok" /\ Writer(call[s])
        BY <1>1, <1>3, <2>4, <2>7 DEF Writer
      <4>2. ~c.alive => Writes(c) \subseteq disturbed
        BY <1>3, <2>7, <4>1 DEF CallOK
      <4>3. \A w, y \in c.saw : w.product = c.product /\ w = y
        BY <2>4, <2>7
      <4>4. CallOK(c)'
        BY <1>1, <4>1, <4>2, <4>3 DEF CallOK
      <4> QED
        BY <2>8, <3>1, <4>4
    <3>2. CASE x # s
      BY <1>1, <1>2, <2>8, <3>2 DEF CartsOK, CallOK
    <3> QED
      BY <3>1, <3>2
  <2>14. \A x \in Slots : /\ Writes(call'[x]) = Writes(call[x])
                          /\ p \in Writes(call'[x]) => call'[x].auth = call[x].auth
                          /\ call'[x].auth = call[x].auth \/ x # s
    BY <2>7, <2>8
  <2>15. Settled' = Settled
    BY <1>1 DEF Settled
  <2>16. Alone'
    BY <1>2, <2>7, <2>8, <2>14, <2>15 DEF CartsOK, Alone, Writing
  <2>17. ASSUME NEW y \in Settled PROVE SettledOK(y)'
    <3>1. SettledOK(y) /\ y \in Products
      BY <1>2 DEF CartsOK, Settled
    <3>2. guest'[y] = wanted'.guest[y]
      BY <1>1, <3>1 DEF SettledOK
    <3>3. CASE y = p
      <4>1. p \in Writes(call[s]) /\ \A x \in Slots \ {s} : p \notin Writes(call[x])
        BY <1>2, <1>3, <2>1, <2>4, <3>3, ServedIsAlone
      <4>2. Told(p)
        BY <1>1, <4>1 DEF Told, Writing
      <4>3. saw = RowsOf(p) /\ Account[p] = wanted.account[p]
        BY <1>1, <2>1, <2>3, <3>1, <3>3, <4>1, <4>2 DEF SettledOK, Writing, Knows, AddKnows
      <4>4. \A w, x \in RowsOf(p)' : w = x
        BY <2>6, <4>3
      <4>5. ~Told(p)'
        BY <2>7, <2>8, <2>14, <4>1 DEF Told, Writing
      <4>6. Knows(call[s], p)'
        BY <1>1, <2>7, <2>8, <2>12, <4>3 DEF Knows, AddKnows
      <4>7. \A x \in Writing(p)' : x = s
        BY <2>14, <4>1 DEF Writing
      <4> QED
        BY <3>2, <3>3, <4>4, <4>5, <4>6, <4>7 DEF SettledOK
    <3>4. CASE y # p
      <4>1. RowsOf(y)' = RowsOf(y) /\ Account'[y] = Account[y]
        BY <2>6, <2>12, <3>1, <3>4
      <4>2. \A x \in Writing(y)' : x \in Writing(y) /\ call'[x] = call[x]
        BY <1>3, <2>1, <2>8, <2>14, <3>4 DEF Writing
      <4>3. \A x \in Writing(y) : x \in Writing(y)' /\ call'[x] = call[x]
        BY <1>3, <2>1, <2>8, <2>14, <3>4 DEF Writing
      <4>4. Told(y)' => Told(y)
        BY <4>3 DEF Told
      <4> QED
        BY <1>1, <3>1, <4>1, <4>2, <4>4, SettledKept
    <3> QED
      BY <3>3, <3>4
  <2>18. ASSUME NEW t \in Tabs, Quiet(t)' PROVE PageOK(t)'
    <3>1. PageOK(t) /\ view'[t] = view[t]
      BY <1>1, <1>2, <2>18 DEF Quiet, PagesOK
    <3>2. s \in Busy /\ OwnAdd(call[s], t) /\ ~view[t].loading
      BY <1>1, <3>1 DEF PageOK, Busy, Free
    <3>3. OwnAdd(call'[s], t)
      BY <2>7, <2>8, <3>2 DEF OwnAdd
    <3>4. \A x \in Slots : call'[x].kind = call[x].kind
      BY <1>1, <2>7, <2>8
    <3>5. Busy' = Busy /\ LoadsOf(t)' = LoadsOf(t)
      BY <1>1, <2>7, <2>8, <3>4 DEF Busy, Free, LoadsOf
    <3>6. ASSUME NEW y \in Settled', Told(y)' PROVE view'[t].shown[y] = Current'[y]
      <4>1. y # p
        BY <1>3, <2>1, <2>7, <2>8, <2>14, <3>6 DEF Told, Writing
      <4>2. y \in Settled /\ y \in Products
        BY <2>15 DEF Settled
      <4>3. Told(y)
        BY <1>3, <2>1, <2>8, <2>14, <3>6, <4>1 DEF Told, Writing
      <4>4. Current'[y] = Current[y]
        BY <1>1, <2>12, <4>1, <4>2 DEF Current
      <4> QED
        BY <3>1, <3>2, <4>2, <4>3, <4>4 DEF PageOK
    <3>7. \A x \in Busy' : call'[x].kind = "load" \/ (OwnAdd(call'[x], t) /\ ~view'[t].loading)
      BY <2>8, <3>1, <3>2, <3>3, <3>5 DEF PageOK, OwnAdd, Busy
    <3>8. \A x, y \in Busy' : call'[x].kind = "add" /\ call'[y].kind = "add" => x = y
      BY <3>1, <3>4, <3>5 DEF PageOK, Busy
    <3> QED
      BY <3>1, <3>2, <3>5, <3>6, <3>7, <3>8 DEF PageOK
  <2> QED
    BY <2>9, <2>10, <2>13, <2>15, <2>16, <2>17, <2>18 DEF IInv, CartsOK, PagesOK
<1> QED
  BY <1>4, <1>5 DEF CommitAdd

\* What the commit of a merge does to the rows of a product: the row that was
\* read gets the guest's units, or they become a row.
LEMMA RowsMerged ==
  ASSUME Types, Finite, NEW c \in Merges, rows' = Merged(c),
         \A w, x \in c.saw : w.product = x.product => w = x,
         \A w \in c.saw : w.id \in UsedIds
  PROVE  /\ rows' \subseteq StoredRow
         /\ \A w \in rows' : w \in rows \/ w.id = FreshId \/ w.id \in UsedIds
         /\ \A p \in Products :
              IF Seen(c, p) = {}
              THEN IF c.payload[p] > 0
                   THEN \E x \in StoredRow : /\ RowsOf(p)' = RowsOf(p) \union {x}
                                             /\ x.quantity = c.payload[p]
                   ELSE RowsOf(p)' = RowsOf(p)
              ELSE \E w \in Seen(c, p), x \in StoredRow :
                     /\ RowsOf(p)' = (RowsOf(p) \ SameRow(w)) \union {x}
                     /\ x.quantity = w.quantity + c.payload[p]
<1>1. rows \subseteq StoredRow /\ c.saw \subseteq StoredRow /\ c.payload \in Units
  BY DEF Types, Merges
<1>2. FreshId \in Nat
  BY FreshIsNew
<1> DEFINE old == {w.product : w \in c.saw}
           new == {p \in Products \ old : c.payload[p] > 0}
           More(w) == [w EXCEPT !.quantity = @ + c.payload[w.product]]
           New(p) == [product |-> p, id |-> FreshId, quantity |-> c.payload[p]]
           gone == UNION {SameRow(w) : w \in c.saw}
<1>3. rows' = (rows \ gone) \union {More(w) : w \in c.saw} \union {New(p) : p \in new}
  BY DEF Merged
<1>4. \A w \in c.saw : /\ More(w) \in StoredRow /\ More(w).product = w.product /\ More(w).id = w.id
                       /\ More(w).quantity = w.quantity + c.payload[w.product]
  <2> TAKE w \in c.saw
  <2>1. w \in [product: Products, id: Nat, quantity: Nat] /\ w.quantity > 0
    BY <1>1 DEF StoredRow, Row
  <2>2. c.payload[w.product] \in Nat
    BY <1>1, <2>1 DEF Units
  <2>3. PICK n \in Nat : n = w.quantity + c.payload[w.product]
    BY <2>1, <2>2
  <2>4. More(w) = [w EXCEPT !.quantity = n]
    BY <2>3
  <2>5. n > 0
    BY <2>1, <2>2, <2>3
  <2> HIDE DEF More
  <2> QED
    BY <2>1, <2>3, <2>4, <2>5 DEF StoredRow, Row
<1>5. \A p \in new : /\ New(p) \in StoredRow /\ New(p).product = p /\ New(p).id = FreshId
                     /\ New(p).quantity = c.payload[p]
  BY <1>1, <1>2 DEF StoredRow, Row, Units
<1>6. \A w \in c.saw : SameRow(w) \subseteq {x \in rows : x.product = w.product}
  BY DEF SameRow
<1> HIDE DEF More, New
<1>7. rows' \subseteq StoredRow
  BY <1>1, <1>3, <1>4, <1>5
<1>8. \A w \in rows' : w \in rows \/ w.id = FreshId \/ w.id \in UsedIds
  BY <1>3, <1>4, <1>5
<1>9. ASSUME NEW p \in Products
      PROVE  IF Seen(c, p) = {}
             THEN IF c.payload[p] > 0
                  THEN \E x \in StoredRow : /\ RowsOf(p)' = RowsOf(p) \union {x}
                                            /\ x.quantity = c.payload[p]
                  ELSE RowsOf(p)' = RowsOf(p)
             ELSE \E w \in Seen(c, p), x \in StoredRow :
                    /\ RowsOf(p)' = (RowsOf(p) \ SameRow(w)) \union {x}
                    /\ x.quantity = w.quantity + c.payload[p]
  <2>1. CASE Seen(c, p) = {}
    <3>1. \A w \in c.saw : w.product # p
      BY <2>1 DEF Seen
    <3>2. RowsOf(p) \cap gone = {}
      BY <1>6, <3>1 DEF RowsOf
    <3>3. CASE c.payload[p] > 0
      <4>1. p \in new
        BY <3>1, <3>3
      <4>2. RowsOf(p)' = RowsOf(p) \union {New(p)}
        BY <1>3, <1>4, <1>5, <3>1, <3>2, <4>1 DEF RowsOf
      <4> QED
        BY <1>5, <2>1, <3>3, <4>1, <4>2
    <3>4. CASE ~(c.payload[p] > 0)
      <4>1. p \notin new
        BY <3>4
      <4>2. RowsOf(p)' = RowsOf(p)
        BY <1>3, <1>4, <1>5, <3>1, <3>2, <4>1 DEF RowsOf
      <4> QED
        BY <2>1, <3>4, <4>2
    <3> QED
      BY <3>3, <3>4
  <2>2. CASE Seen(c, p) # {}
    <3>1. PICK w \in c.saw : w.product = p
      BY <2>2 DEF Seen
    <3>2. \A x \in c.saw : x.product = p => x = w
      BY <3>1
    <3>3. p \notin new
      BY <3>1
    <3>4. RowsOf(p) \cap gone = RowsOf(p) \cap SameRow(w)
      BY <1>6, <3>1, <3>2 DEF RowsOf
    <3>5. RowsOf(p)' = (RowsOf(p) \ SameRow(w)) \union {More(w)}
      BY <1>3, <1>4, <1>5, <3>1, <3>2, <3>3, <3>4 DEF RowsOf
    <3>6. w \in Seen(c, p)
      BY <3>1 DEF Seen
    <3> QED
      BY <1>4, <2>2, <3>1, <3>5, <3>6
  <2> QED
    BY <2>1, <2>2
<1> QED
  BY <1>7, <1>8, <1>9

\* The gateway commits a merge.
LEMMA CommitMergeKeeps ==
  ASSUME IInv, NEW s \in Slots, CommitMerge(s)
  PROVE  IInv'
<1>1. /\ call[s].kind = "merge" /\ call[s].stage = "sent" /\ call[s].todo = {}
      /\ UNCHANGED <<token, guest, view, wanted, disturbed, clicks, faults>>
  BY DEF CommitMerge, Served
<1>2. Types /\ Finite /\ CartsOK /\ PagesOK
  BY DEF IInv
<1>3. call[s] \in Merges /\ CallOK(call[s]) /\ Writes(call[s]) = Products
  BY <1>1, <1>2, CallKinds, WritesOf DEF Types, CartsOK
<1>4. CASE call' = Answer(s, "error") /\ UNCHANGED rows
  BY <1>1, <1>2, <1>4, ErrorKeeps DEF Types
<1>5. CASE call' = Answer(s, "ok") /\ rows' = Merged(call[s])
  <2>1. PICK c \in Merges : c = call[s]
    BY <1>3
  <2>2. /\ c.auth /\ \A w, x \in c.saw : w.product = x.product => w = x
    BY <1>1, <1>3, <2>1 DEF CallOK
  <2>3. \A w \in c.saw : w.id \in UsedIds
    BY <1>1, <2>1 DEF UsedIds, Busy, Free
  <2>4. /\ rows' \subseteq StoredRow
        /\ \A w \in rows' : w \in rows \/ w.id = FreshId \/ w.id \in UsedIds
        /\ \A p \in Products :
             IF Seen(c, p) = {}
             THEN IF c.payload[p] > 0
                  THEN \E x \in StoredRow : /\ RowsOf(p)' = RowsOf(p) \union {x}
                                            /\ x.quantity = c.payload[p]
                  ELSE RowsOf(p)' = RowsOf(p)
             ELSE \E w \in Seen(c, p), x \in StoredRow :
                    /\ RowsOf(p)' = (RowsOf(p) \ SameRow(w)) \union {x}
                    /\ x.quantity = w.quantity + c.payload[p]
    BY <1>2, <1>5, <2>1, <2>2, <2>3, RowsMerged
  <2>5. PICK d \in Calls :
          /\ Answer(s, "ok") = [call EXCEPT ![s] = d]
          /\ d.stage = "ok" /\ d.kind = "merge" /\ d.auth = c.auth
          /\ d.saw = c.saw /\ Writes(d) = Products /\ d.alive = c.alive
          /\ d.payload = c.payload /\ d.todo = c.todo
    BY <1>1, <1>2, <1>3, <2>1, Answered DEF Stages
  <2>6. /\ call' \in [Slots -> Calls]
        /\ call'[s] = d /\ \A x \in Slots \ {s} : call'[x] = call[x]
    BY <1>2, <1>5, <2>5, SlotSet DEF Types
  <2>7. Types'
    BY <1>1, <1>2, <2>4, <2>6 DEF Types
  <2>8. Finite'
    <3>1. \A p \in Products : \E x \in StoredRow : RowsOf(p)' \subseteq RowsOf(p) \union {x}
      <4> TAKE p \in Products
      <4>1. PICK one : one = [product |-> p, id |-> 0, quantity |-> 1]
        OBVIOUS
      <4>2. one \in StoredRow
        BY <4>1 DEF StoredRow, Row
      <4> QED
        BY <2>4, <4>2
    <3>2. \A x \in Slots : Writer(call'[x]) => Writer(call[x]) /\ call'[x].saw = call[x].saw
      BY <1>1, <2>1, <2>5, <2>6 DEF Writer
    <3> QED
      BY <1>2, <2>4, <2>6, <3>1, <3>2, FiniteAfter
  <2>9. \A x \in Slots : CallOK(call[x])'
    <3> TAKE x \in Slots
    <3>1. CASE x = s
      BY <1>1, <1>3, <2>1, <2>2, <2>5, <2>6, <3>1 DEF CallOK, Writer
    <3>2. CASE x # s
      BY <1>1, <1>2, <2>6, <3>2 DEF CartsOK, CallOK
    <3> QED
      BY <3>1, <3>2
  <2>11. Settled' = Settled
    BY <1>1 DEF Settled
  <2>12. Alone'
    BY <1>2, <1>3, <2>1, <2>5, <2>6, <2>11 DEF CartsOK, Alone, Writing
  <2>13. ASSUME NEW p \in Settled PROVE SettledOK(p)'
    <3>1. SettledOK(p) /\ p \in Products
      BY <1>2 DEF CartsOK, Settled
    <3>2. p \in Writes(call[s]) /\ \A x \in Slots \ {s} : p \notin Writes(call[x])
      BY <1>2, <1>3, <2>1, <2>2, <3>1, ServedIsAlone
    <3>3. Told(p)
      BY <1>1, <3>2 DEF Told, Writing
    <3>4. /\ Account[p] = wanted.account[p] /\ MergeKnows(c, p)
          /\ \A w, x \in RowsOf(p) : w = x
      BY <1>1, <2>1, <3>1, <3>2, <3>3 DEF SettledOK, Writing, Knows
    <3>5. /\ c.payload[p] = guest[p]
          /\ Seen(c, p) = IF c.payload[p] > 0 THEN RowsOf(p) ELSE {}
      BY <1>1, <2>1, <3>4 DEF MergeKnows
    <3>6. c.payload[p] \in Nat
      BY <3>1 DEF Merges, Units
    <3>7. /\ \A w, x \in RowsOf(p)' : w = x
          /\ Account'[p] = Account[p] + c.payload[p]
      <4>1. CASE ~(c.payload[p] > 0)
        <5>1. RowsOf(p)' = RowsOf(p) /\ c.payload[p] = 0
          BY <2>4, <3>1, <3>5, <3>6, <4>1
        <5>2. UnitsOf(p)' = UnitsOf(p)
          BY <5>1 DEF UnitsOf
        <5>3. Account'[p] = Account[p] /\ Account[p] \in Nat
          BY <1>2, <3>1, <5>2, AccountIs DEF Account
        <5> QED
          BY <3>4, <5>1, <5>3
      <4>2. CASE c.payload[p] > 0 /\ RowsOf(p) = {}
        <5>1. PICK x \in StoredRow : RowsOf(p)' = {x} /\ x.quantity = c.payload[p]
          BY <2>4, <3>1, <3>5, <4>2
        <5>2. Account'[p] = x.quantity
          BY <3>1, <5>1, OneRowAfter
        <5>3. Account[p] = 0
          BY <1>2, <3>1, <4>2, AccountIs
        <5> QED
          BY <3>6, <5>1, <5>2, <5>3
      <4>3. CASE c.payload[p] > 0 /\ RowsOf(p) # {}
        <5>1. PICK w \in Seen(c, p), x \in StoredRow :
                /\ RowsOf(p)' = (RowsOf(p) \ SameRow(w)) \union {x}
                /\ x.quantity = w.quantity + c.payload[p]
          BY <2>4, <3>1, <3>5, <4>3
        <5>2. RowsOf(p) = {w} /\ w \in StoredRow
          BY <1>2, <3>4, <3>5, <4>3, <5>1 DEF RowsOf, Types
        <5>3. RowsOf(p)' = {x}
          BY <5>1, <5>2 DEF RowsOf, SameRow
        <5>4. Account'[p] = x.quantity
          BY <3>1, <5>3, OneRowAfter
        <5>5. Account[p] = w.quantity
          BY <1>2, <3>1, <5>2, AccountIs
        <5> QED
          BY <5>1, <5>3, <5>4, <5>5
      <4> QED
        BY <4>1, <4>2, <4>3
    <3>8. guest'[p] = wanted'.guest[p]
      BY <1>1, <3>1 DEF SettledOK
    <3>9. ~Told(p)'
      BY <2>5, <2>6, <3>1 DEF Told, Writing
    <3>10. \A x \in Writing(p)' : x = s
      BY <2>6, <3>2 DEF Writing
    <3>11. Knows(call[s], p)'
      BY <1>1, <2>5, <2>6, <3>4, <3>5, <3>7 DEF Knows, MergeKnows
    <3> QED
      BY <3>7, <3>8, <3>9, <3>10, <3>11 DEF SettledOK
  <2>14. ASSUME NEW t \in Tabs, Quiet(t)' PROVE FALSE
    <3>1. PageOK(t)
      BY <1>1, <1>2, <2>14 DEF Quiet, PagesOK
    <3> QED
      BY <1>1, <3>1 DEF PageOK, Busy, Free, OwnAdd
  <2> QED
    BY <2>7, <2>8, <2>9, <2>11, <2>12, <2>13, <2>14 DEF IInv, CartsOK, PagesOK
<1> QED
  BY <1>4, <1>5 DEF CommitMerge

-----------------------------------------------------------------------------
(* What the functions do with the answers                                    *)

\* A merge that ends, which removes the guest cart if it succeeded.
LEMMA FinishMergeKeeps ==
  ASSUME IInv, NEW s \in Slots, FinishMerge(s)
  PROVE  IInv'
<1>1. /\ call[s].kind = "merge" /\ call' = [call EXCEPT ![s] = Idle]
      /\ UNCHANGED <<token, rows, disturbed, clicks, faults>>
  BY DEF FinishMerge
<1>2. Types /\ Finite /\ CartsOK /\ PagesOK
  BY DEF IInv
<1>3. call[s] \in Merges /\ CallOK(call[s]) /\ Writes(call[s]) = Products
  BY <1>1, <1>2, CallKinds, WritesOf DEF Types, CartsOK
<1>4. Idle \in Calls /\ Idle.kind = "idle"
  BY DEF Calls, Idle
<1>5. /\ call' \in [Slots -> Calls] /\ call'[s] = Idle
      /\ \A x \in Slots \ {s} : call'[x] = call[x]
  BY <1>1, <1>2, <1>4, SlotSet DEF Types
<1>6. CASE ~RemovesGuestCart(call[s])
  <2>1. UNCHANGED <<guest, wanted, view>>
    BY <1>6 DEF FinishMerge
  <2>2. call'[s] = Idle => Goes(s)
    <3>1. call[s].stage = "ok" => Writes(call[s]) \subseteq disturbed'
      BY <1>1, <1>3, <1>6 DEF RemovesGuestCart, CallOK, Writer
    <3> QED
      BY <1>4, <3>1 DEF Goes, Writer, CallOK
  <2>3. \A t \in Tabs : ~PageOK(t)
    BY <1>1 DEF PageOK, Busy, Free, OwnAdd
  <2> QED
    BY <1>1, <1>2, <1>4, <2>1, <2>2, <2>3, OneMoves DEF Types, Writer
<1>7. CASE RemovesGuestCart(call[s])
  <2>1. /\ guest' = NoUnits /\ view' = Foreign(Tabs)
        /\ wanted' = [guest |-> NoUnits,
                      account |-> [p \in Products |-> wanted.account[p] + wanted.guest[p]]]
    BY <1>7 DEF FinishMerge
  <2>2. call[s].stage = "ok" /\ call[s].auth
    BY <1>1, <1>3, <1>7 DEF RemovesGuestCart, CallOK
  <2>3. view' \in [Tabs -> View] /\ \A t \in Tabs : ~Quiet(t)'
    BY <1>2, <2>1, ForeignViews
  <2>4. NoUnits \in Units /\ \A p \in Products : NoUnits[p] = 0
    BY DEF NoUnits, Units
  <2>5. PICK sum \in Units : sum = [p \in Products |-> wanted.account[p] + wanted.guest[p]]
    <3>1. wanted.account \in Units /\ wanted.guest \in Units
      BY <1>2 DEF Types
    <3>2. \A p \in Products : wanted.account[p] + wanted.guest[p] \in Nat
      BY <3>1 DEF Units
    <3> QED
      BY <3>2, Zenon DEF Units
  <2>6. /\ wanted' \in [guest : Units, account : Units]
        /\ wanted'.guest = NoUnits /\ wanted'.account = sum
    BY <2>1, <2>4, <2>5
  <2>7. Types'
    BY <1>1, <1>2, <1>5, <2>1, <2>3, <2>4, <2>6 DEF Types
  <2>8. Finite'
    BY <1>1, <1>2, <1>4, <1>5, FiniteKept DEF Writer
  <2>9. \A x \in Slots : CallOK(call[x])'
    <3> TAKE x \in Slots
    <3>1. CASE x = s
      BY <1>4, <1>5, <3>1 DEF CallOK, Writer
    <3>2. CASE x # s
      BY <1>1, <1>2, <1>5, <3>2 DEF CartsOK, CallOK
    <3> QED
      BY <3>1, <3>2
  <2>10. Settled' = Settled
    BY <1>1 DEF Settled
  <2>11. ASSUME NEW p \in Settled PROVE Writing(p)' = {}
    <3>1. p \in Writes(call[s])
      BY <1>3 DEF Settled
    <3>2. \A x \in Slots \ {s} : p \notin Writes(call[x])
      BY <1>2, <2>2, <3>1, ServedIsAlone
    <3>3. Writes(Idle) = {}
      BY <1>4, WritesOf DEF Writer
    <3> QED
      BY <1>5, <3>2, <3>3 DEF Writing
  <2>12. Alone'
    BY <2>10, <2>11 DEF Alone
  <2>13. ASSUME NEW p \in Settled PROVE SettledOK(p)'
    <3>1. SettledOK(p) /\ p \in Products
      BY <1>2 DEF CartsOK, Settled
    <3>2. MergeKnows(call[s], p) /\ guest[p] = wanted.guest[p]
      BY <1>1, <1>3, <3>1 DEF SettledOK, Writing, Knows
    <3>3. Account[p] = wanted.account[p] + wanted.guest[p]
      BY <2>2, <3>2 DEF MergeKnows
    <3>4. Account'[p] = Account[p] /\ RowsOf(p)' = RowsOf(p)
      BY <1>1 DEF Account, UnitsOf, RowsOf
    <3>5. Account'[p] = wanted'.account[p]
      BY <2>5, <2>6, <3>1, <3>3, <3>4
    <3>6. guest'[p] = wanted'.guest[p]
      BY <2>1, <2>6
    <3>7. \A w, x \in RowsOf(p)' : w = x
      BY <3>1, <3>4 DEF SettledOK
    <3> QED
      BY <2>11, <3>5, <3>6, <3>7 DEF SettledOK
  <2> QED
    BY <2>3, <2>7, <2>8, <2>9, <2>10, <2>12, <2>13 DEF IInv, CartsOK, PagesOK
<1> QED
  BY <1>6, <1>7

\* A cart page reads the answer of one of its reads.
LEMMA FinishReadKeeps ==
  ASSUME IInv, NEW s \in Slots, FinishRead(s)
  PROVE  IInv'
<1>1. /\ call[s].kind = "load" /\ call[s].stage \in {"ok", "denied", "error"}
      /\ UNCHANGED <<token, guest, rows, wanted, disturbed, clicks, faults>>
  BY DEF FinishRead
<1>2. Types /\ Finite /\ CartsOK /\ PagesOK
  BY DEF IInv
<1>3. PICK c \in Loads : c = call[s]
  BY <1>1, <1>2, CallKinds DEF Types
<1>4. PICK t \in Tabs : t = c.tab
  BY <1>3 DEF Loads
<1>5. c.part \in {"cart", "total"} /\ c.saw \in Units /\ guest \in Units /\ view[t] \in View
  BY <1>2, <1>3 DEF Loads, Types
<1>6. PICK items \in Units : items = IF c.stage = "ok" THEN c.saw ELSE guest
  BY <1>5
<1>7. PICK b \in BOOLEAN : b = (view[t].foreign \/ c.stage = "error")
  OBVIOUS
<1>8. PICK u : u = [[view[t] EXCEPT !.foreign = b] EXCEPT !.shown = items]
  OBVIOUS
<1>9. PICK v : v = [[view[t] EXCEPT !.foreign = b] EXCEPT !.total = items, !.loading = FALSE]
  OBVIOUS
<1>10. /\ c.part = "cart" => /\ view' = [view EXCEPT ![t] = u]
                             /\ call' = [call EXCEPT ![s] = NewLoad(t, "total")]
       /\ c.part = "total" => /\ view' = [view EXCEPT ![t] = v]
                              /\ call' = [call EXCEPT ![s] = Idle]
  BY <1>3, <1>4, <1>6, <1>7, <1>8, <1>9 DEF FinishRead
<1>11. /\ u \in View /\ u.page = view[t].page /\ u.foreign = b /\ u.shown = items
       /\ u.loading = view[t].loading
       /\ v \in View /\ v.page = view[t].page /\ v.foreign = b /\ v.shown = view[t].shown
       /\ v.total = items /\ ~v.loading
  BY <1>5, <1>8, <1>9 DEF View
<1>12. Idle \in Calls /\ Idle.kind = "idle" /\ NewLoad(t, "total") \in Calls
  BY <1>2, NewLoadIs DEF Calls, Idle
<1>13. /\ call' \in [Slots -> Calls] /\ \A x \in Slots \ {s} : call'[x] = call[x]
       /\ c.part = "cart" => call'[s] = NewLoad(t, "total")
       /\ c.part = "total" => call'[s] = Idle
  BY <1>2, <1>5, <1>10, <1>12, SlotSet DEF Types
<1>14. /\ view' \in [Tabs -> View] /\ \A x \in Tabs \ {t} : view'[x] = view[x]
       /\ c.part = "cart" => view'[t] = u
       /\ c.part = "total" => view'[t] = v
  BY <1>2, <1>5, <1>10, <1>11 DEF Types
<1>15. c.part = "cart" =>
         /\ call'[s].kind = "load" /\ call'[s].tab = t /\ call'[s].part = "total"
         /\ ~Writer(call'[s]) /\ CallOK(call[s])' /\ LoadKnows(call[s])'
  BY <1>1, <1>2, <1>13, LoadStarts
<1>16. ~Writer(call'[s]) /\ CallOK(call[s])' /\ call'[s].kind \in {"load", "idle"}
  BY <1>5, <1>12, <1>13, <1>15 DEF Writer, CallOK
<1>17. Types'
  BY <1>1, <1>2, <1>13, <1>14 DEF Types
<1>18. Finite'
  BY <1>1, <1>2, <1>13, <1>16, FiniteKept
<1>19. \A x \in Slots : Goes(x)
  <2>1. Goes(s)
    BY <1>1, <1>16 DEF Goes, Writer
  <2> QED
    BY <1>1, <1>2, <1>13, <2>1, Stays
<1>20. CartsOK'
  BY <1>1, <1>2, <1>13, <1>19, CartsKept
<1>21. ASSUME NEW x \in Tabs, x # t, Quiet(x)' PROVE PageOK(x)'
  <2>1. view'[x] = view[x] /\ PageOK(x)
    BY <1>2, <1>14, <1>21 DEF Quiet, PagesOK
  <2>2. Passes(s, x)
    BY <1>1, <1>3, <1>4, <1>5, <1>12, <1>13, <1>15, <1>16, <1>21 DEF Passes, LoadsOf
  <2>3. \A y \in Slots : Passes(y, x)
    BY <1>13, <2>2 DEF Passes
  <2> QED
    BY <1>1, <1>2, <1>13, <2>1, <2>3, PageKept
<1>22. ASSUME Quiet(t)' PROVE PageOK(t)'
  <2>1. view[t].page = "cart" /\ ~view[t].foreign /\ c.stage # "error"
    BY <1>5, <1>7, <1>11, <1>14, <1>22 DEF Quiet
  <2>2. PageOK(t) /\ s \in LoadsOf(t)
    BY <1>1, <1>2, <1>3, <1>4, <2>1 DEF Quiet, PagesOK, LoadsOf
  <2>3. /\ view[t].loading /\ LoadsOf(t) = {s} /\ LoadKnows(c)
        /\ c.part = "total" => view[t].shown = Current
    BY <1>3, <2>2, QuietLoad
  <2>4. items = Current /\ Current' = Current
    BY <1>1, <1>3, <1>6, <2>1, <2>3 DEF LoadKnows, Current, Account, UnitsOf, RowsOf
  <2>5. \A y \in Slots \ {s} : call[y].kind = "idle" \/ (call[y].kind = "load" /\ call[y].tab # t)
    BY <2>2, <2>3 DEF PageOK, Busy, Free, LoadsOf
  <2>6. \A y \in Busy' : call'[y].kind = "load"
    BY <1>13, <1>16, <2>5 DEF Busy, Free
  <2>7. CASE c.part = "cart"
    <3>1. LoadsOf(t)' = {s}
      BY <1>13, <1>15, <2>5, <2>7 DEF LoadsOf
    <3>2. view'[t].loading /\ view'[t].shown = Current'
      BY <1>11, <1>14, <2>3, <2>4, <2>7
    <3> QED
      BY <1>15, <2>6, <2>7, <3>1, <3>2 DEF PageOK
  <2>8. CASE c.part = "total"
    <3>1. LoadsOf(t)' = {}
      BY <1>12, <1>13, <2>5, <2>8 DEF LoadsOf
    <3>2. ~view'[t].loading /\ view'[t].shown = Current' /\ view'[t].total = view'[t].shown
      BY <1>11, <1>14, <2>3, <2>4, <2>8
    <3> QED
      BY <2>6, <3>1, <3>2 DEF PageOK
  <2> QED
    BY <1>5, <2>7, <2>8
<1> QED
  BY <1>17, <1>18, <1>20, <1>21, <1>22 DEF IInv, PagesOK

\* A change that ends: the tab is told of it, or changes the guest cart itself,
\* or hears of an error.
LEMMA FinishAddKeeps ==
  ASSUME IInv, NEW s \in Slots, FinishAdd(s)
  PROVE  IInv'
<1>1. /\ call[s].kind = "add" /\ call[s].stage \in {"ok", "denied", "error"}
      /\ UNCHANGED <<token, rows, disturbed, clicks, faults>>
  BY DEF FinishAdd
<1>2. Types /\ Finite /\ CartsOK /\ PagesOK
  BY DEF IInv
<1>3. call[s] \in Adds /\ CallOK(call[s]) /\ Writes(call[s]) = {call[s].product}
  BY <1>1, <1>2, CallKinds, WritesOf DEF Types, CartsOK
<1>4. PICK c \in Adds : c = call[s]
  BY <1>3
<1>5. c.product \in Products /\ c.quantity \in Int /\ c.tab \in Tabs /\ c.kind = "add"
  BY <1>4 DEF Adds
<1>6. Idle \in Calls /\ Idle.kind = "idle"
  BY DEF Calls, Idle
<1>7. CASE \/ c.stage = "error" \/ (c.stage = "denied" /\ ~CanPushGuest(c))
           \/ ~c.alive
  <2>1. call' = [call EXCEPT ![s] = Idle] /\ UNCHANGED <<guest, wanted, view>>
    BY <1>4, <1>7 DEF FinishAdd
  <2>2. call'[s] = Idle => Goes(s)
    <3>1. call[s].stage = "ok" => Writes(call[s]) \subseteq disturbed'
      BY <1>1, <1>3, <1>4, <1>7 DEF CallOK, Writer
    <3> QED
      BY <1>6, <3>1 DEF Goes, Writer, CallOK
  <2>3. ASSUME NEW t \in Tabs, PageOK(t), call'[s] = Idle PROVE Passes(s, t)
    <3>1. call[s].alive
      BY <1>1, <2>3 DEF PageOK, Busy, Free, OwnAdd
    <3> QED
      BY <1>1, <1>4, <1>6, <1>7, <2>3, <3>1 DEF Passes
  <2> QED
    BY <1>1, <1>2, <1>6, <2>1, <2>2, <2>3, OneMoves DEF Types, Writer
<1>8. CASE c.alive /\ (c.stage = "ok" \/ (c.stage = "denied" /\ CanPushGuest(c)))
  <2> DEFINE p == c.product
             q == c.quantity
             more == c.from = "cart" /\ c.mounted
  <2>1. /\ AfterAdd(s, c)
        /\ c.stage = "ok" =>
             /\ wanted' = Known([wanted EXCEPT !.account = Changed(@, p, q)], disturbed)
             /\ guest' = guest
        /\ c.stage = "denied" =>
             /\ wanted' = Known([wanted EXCEPT !.guest = Changed(@, p, q)], disturbed)
             /\ guest' = Changed(guest, p, q)
    BY <1>4, <1>8 DEF FinishAdd
  <2>2. ASSUME NEW u \in Units
        PROVE  /\ Changed(u, p, q) \in Units /\ Changed(u, p, q)[p] = AtLeast0(u[p] + q)
               /\ \A y \in Products \ {p} : Changed(u, p, q)[y] = u[y]
    <3>1. u[p] + q \in Int
      BY <1>5 DEF Units
    <3>2. PICK n \in Nat : n = AtLeast0(u[p] + q)
      BY <3>1 DEF AtLeast0
    <3>3. Changed(u, p, q) = [u EXCEPT ![p] = n]
      BY <3>2 DEF Changed
    <3> QED
      BY <1>5, <3>2, <3>3 DEF Units
  <2>3. guest \in Units /\ wanted.guest \in Units /\ wanted.account \in Units
    BY <1>2 DEF Types
  <2>4. ASSUME NEW g \in Units, NEW a \in Units, wanted' = Known([guest |-> g, account |-> a], disturbed)
        PROVE  /\ wanted' \in [guest : Units, account : Units]
               /\ \A y \in Settled : wanted'.guest[y] = g[y] /\ wanted'.account[y] = a[y]
    <3>1. \A x \in Units : /\ Without(disturbed, x) \in Units
                           /\ \A y \in Settled : Without(disturbed, x)[y] = x[y]
      BY DEF Without, Units, Settled
    <3>2. wanted' = [guest |-> Without(disturbed, g), account |-> Without(disturbed, a)]
      BY <2>4 DEF Known
    <3> QED
      BY <3>1, <3>2
  <2>5. PICK g \in Units, a \in Units :
          /\ wanted' = Known([guest |-> g, account |-> a], disturbed)
          /\ c.stage = "ok" => g = wanted.guest /\ a = Changed(wanted.account, p, q)
          /\ c.stage = "denied" => g = Changed(wanted.guest, p, q) /\ a = wanted.account
    <3>1. \A x : [wanted EXCEPT !.account = x] = [guest |-> wanted.guest, account |-> x]
      BY <1>2 DEF Types
    <3>2. \A x : [wanted EXCEPT !.guest = x] = [guest |-> x, account |-> wanted.account]
      BY <1>2 DEF Types
    <3>3. CASE c.stage = "ok"
      BY <2>1, <2>2, <2>3, <3>1, <3>3
    <3>4. CASE c.stage = "denied"
      BY <2>1, <2>2, <2>3, <3>2, <3>4
    <3> QED
      BY <1>8, <3>3, <3>4
  <2>6. /\ wanted' \in [guest : Units, account : Units]
        /\ \A y \in Settled : wanted'.guest[y] = g[y] /\ wanted'.account[y] = a[y]
    BY <2>4, <2>5
  <2>7. guest' \in Units /\ \A y \in Products \ {p} : guest'[y] = guest[y]
    BY <1>8, <2>1, <2>2, <2>3
  <2>8. PICK e : e = IF more THEN NewLoad(c.tab, "cart") ELSE Idle
    OBVIOUS
  <2>9. call' = [call EXCEPT ![s] = e]
    BY <2>1, <2>8 DEF AfterAdd
  <2>10. e \in Calls
    BY <1>2, <1>5, <1>6, <2>8, NewLoadIs
  <2>11. /\ call' \in [Slots -> Calls] /\ call'[s] = e
         /\ \A x \in Slots \ {s} : call'[x] = call[x]
    BY <1>2, <2>9, <2>10, SlotSet DEF Types
  <2>12. more => /\ e.kind = "load" /\ e.tab = c.tab /\ e.part = "cart"
                 /\ CallOK(call[s])' /\ LoadKnows(call[s])'
    BY <1>1, <1>2, <1>5, <2>8, <2>11, LoadStarts
  <2>13. e.kind \in {"load", "idle"} /\ ~Writer(e) /\ CallOK(call[s])' /\ Writes(e) = {}
    <3>1. CASE more
      BY <2>10, <2>12, <3>1, WritesOf DEF Writer
    <3>2. CASE ~more
      BY <1>6, <2>8, <2>10, <2>11, <3>2, WritesOf DEF Writer, CallOK
    <3> QED
      BY <3>1, <3>2
  <2>14. PICK b \in BOOLEAN : b = (Busy # {s})
    OBVIOUS
  <2>15. PICK v : v = [view[c.tab] EXCEPT !.loading = TRUE, !.foreign = b]
    OBVIOUS
  <2>16. v \in View /\ v.page = view[c.tab].page /\ v.loading /\ v.foreign = b
    BY <1>2, <1>5, <2>15 DEF View, Types
  <2>17. /\ more => view' = [view EXCEPT ![c.tab] = v]
         /\ ~more => view' = view
    BY <2>1, <2>14, <2>15 DEF AfterAdd, LoadingView
  <2>18. /\ view' \in [Tabs -> View] /\ \A x \in Tabs \ {c.tab} : view'[x] = view[x]
         /\ more => view'[c.tab] = v
    BY <1>2, <1>5, <2>16, <2>17 DEF Types
  <2>19. Types'
    BY <1>1, <1>2, <2>6, <2>7, <2>11, <2>18 DEF Types
  <2>20. Finite'
    BY <1>1, <1>2, <2>11, <2>13, FiniteKept
  <2>21. \A x \in Slots : CallOK(call[x])'
    <3> TAKE x \in Slots
    <3>1. CASE x # s
      BY <1>1, <1>2, <2>11, <3>1 DEF CartsOK, CallOK
    <3> QED
      BY <2>13, <3>1
  <2>22. /\ Settled' = Settled /\ Account' = Account /\ \A y : RowsOf(y)' = RowsOf(y)
    BY <1>1 DEF Settled, Account, UnitsOf, RowsOf
  <2>23. \A y : \A x \in Writing(y)' : x \in Writing(y) /\ x # s /\ call'[x] = call[x]
    BY <2>11, <2>13 DEF Writing
  <2>24. Alone'
    <3> SUFFICES ASSUME NEW y \in Settled, NEW x \in Writing(y)', NEW z \in Writing(y)', x # z
                 PROVE  ~call'[x].auth /\ ~call'[z].auth
      BY <2>22 DEF Alone
    <3> QED
      BY <1>2, <2>23 DEF CartsOK, Alone
  <2>25. ASSUME NEW y \in Settled PROVE SettledOK(y)'
    <3>1. SettledOK(y) /\ y \in Products
      BY <1>2 DEF CartsOK, Settled
    <3>2. CASE y # p
      <4>1. wanted'.guest[y] = wanted.guest[y] /\ wanted'.account[y] = wanted.account[y]
        BY <1>8, <2>2, <2>3, <2>5, <2>6, <3>1, <3>2
      <4>2. Told(y)' => Told(y)
        BY <1>3, <1>4, <2>11, <3>2 DEF Told, Writing
      <4> QED
        BY <2>7, <2>22, <2>23, <3>1, <3>2, <4>1, <4>2, SettledKept
    <3>3. CASE y = p /\ c.stage = "ok"
      <4>1. Writing(y)' = {}
        <5>1. c.auth /\ p \in Writes(call[s])
          BY <1>3, <1>4, <1>5, <3>3 DEF CallOK
        <5>2. \A x \in Slots \ {s} : p \notin Writes(call[x])
          BY <1>2, <1>4, <3>3, <5>1, ServedIsAlone
        <5> QED
          BY <2>11, <2>13, <3>3, <5>2 DEF Writing
      <4>2. Account[p] = AtLeast0(wanted.account[p] + q)
        BY <1>1, <1>3, <1>4, <3>1, <3>3 DEF SettledOK, Writing, Knows, AddKnows
      <4>3. Account'[y] = wanted'.account[y]
        BY <2>2, <2>3, <2>5, <2>6, <2>22, <3>3, <4>2
      <4>4. guest'[y] = wanted'.guest[y]
        BY <2>1, <2>5, <2>6, <3>1, <3>3 DEF SettledOK
      <4>5. \A w, x \in RowsOf(y)' : w = x
        BY <2>22, <3>1 DEF SettledOK
      <4> QED
        BY <4>1, <4>3, <4>4, <4>5 DEF SettledOK
    <3>4. CASE y = p /\ c.stage = "denied"
      <4>1. guest'[y] = wanted'.guest[y] /\ wanted'.account[y] = wanted.account[y]
        <5>1. guest[p] = wanted.guest[p]
          BY <3>1, <3>4 DEF SettledOK
        <5>2. guest'[p] = AtLeast0(guest[p] + q) /\ g[p] = AtLeast0(wanted.guest[p] + q)
          BY <2>1, <2>2, <2>3, <2>5, <3>4
        <5> QED
          BY <2>5, <2>6, <3>4, <5>1, <5>2
      <4>2. ASSUME NEW x \in Writing(y)' PROVE call'[x].stage \in {"denied", "error"}
        <5>1. x \in Writing(y) /\ x # s /\ call'[x] = call[x] /\ s \in Writing(y)
          BY <1>3, <1>4, <2>23, <3>4 DEF Writing
        <5>2. ~call[x].auth
          BY <1>2, <5>1 DEF CartsOK, Alone
        <5>3. call[x] \in Calls /\ CallOK(call[x]) /\ call[x].kind # "idle"
          BY <1>2, <1>6, <5>1, WritesOf DEF Types, CartsOK, Writing, Writer
        <5> QED
          BY <5>1, <5>2, <5>3 DEF CallOK
      <4>3. Told(y)' => Told(y)
        <5>1. \A x \in Slots \ {s} : x \in Writing(y) => x \in Writing(y)' /\ call'[x] = call[x]
          BY <2>11 DEF Writing
        <5> QED
          BY <1>4, <3>4, <5>1 DEF Told, Writing
      <4>4. \A x \in Writing(y)' : Knows(call[x], y)'
        BY <4>2 DEF Knows, AddKnows, MergeKnows
      <4>5. Told(y)' => Account'[y] = wanted'.account[y]
        BY <2>22, <3>1, <4>1, <4>3 DEF SettledOK
      <4>6. \A w, x \in RowsOf(y)' : w = x
        BY <2>22, <3>1 DEF SettledOK
      <4> QED
        BY <4>1, <4>4, <4>5, <4>6 DEF SettledOK
    <3> QED
      BY <1>8, <3>2, <3>3, <3>4
  <2>26. ASSUME NEW t \in Tabs, PageOK(t) PROVE t = c.tab /\ more
    BY <1>1, <1>4, <2>26 DEF PageOK, Busy, Free, OwnAdd
  <2>27. ASSUME NEW t \in Tabs, Quiet(t)' PROVE PageOK(t)'
    <3>1. t = c.tab /\ more
      BY <1>2, <2>17, <2>18, <2>26, <2>27 DEF Quiet, PagesOK
    <3>2. view'[t].loading /\ Busy = {s}
      BY <2>14, <2>16, <2>18, <2>27, <3>1 DEF Quiet
    <3>3. \A x \in Slots \ {s} : call'[x].kind = "idle"
      BY <2>11, <3>2 DEF Busy, Free
    <3>4. LoadsOf(t)' = {s} /\ \A x \in Busy' : x = s
      BY <2>11, <2>12, <3>1, <3>3 DEF LoadsOf, Busy, Free
    <3> QED
      BY <2>11, <2>12, <3>1, <3>2, <3>4 DEF PageOK
  <2> QED
    BY <2>19, <2>20, <2>21, <2>22, <2>24, <2>25, <2>27 DEF IInv, CartsOK, PagesOK
<1> QED
  BY <1>1, <1>4, <1>7, <1>8

-----------------------------------------------------------------------------
(* The theorems                                                              *)

\* The inductive invariant holds before the first click.
LEMMA InitHolds == Init => IInv
<1> SUFFICES ASSUME Init PROVE IInv
  OBVIOUS
<1>1. /\ token = "none" /\ guest = NoUnits /\ rows = {} /\ view = [t \in Tabs |-> Shop]
      /\ call = [s \in Slots |-> Idle] /\ wanted = [guest |-> NoUnits, account |-> NoUnits]
      /\ disturbed = {} /\ clicks = 0 /\ faults = 0
  BY DEF Init
<1>2. NoUnits \in Units /\ \A p \in Products : NoUnits[p] = 0
  BY DEF NoUnits, Units
<1>3. Shop \in View /\ Shop.page = "shop" /\ Idle \in Calls /\ Idle.kind = "idle"
  BY <1>2 DEF Shop, View, Idle, Calls
<1>4. Types
  BY <1>1, <1>2, <1>3, CartAssumption DEF Types
<1>5. \A p : RowsOf(p) = {} /\ UnitsOf(p) = {} /\ Writing(p) = {}
  BY <1>1, <1>3, WritesOf DEF RowsOf, UnitsOf, Writing, Writer
<1>6. UsedIds = {}
  BY <1>1, <1>3 DEF UsedIds, Busy, Free
<1>7. Finite
  BY <1>5, <1>6, FS_EmptySet DEF Finite
<1>8. \A p \in Products : Account[p] = 0
  BY <1>5, <1>7, AccountIs
<1>9. CartsOK
  BY <1>1, <1>2, <1>3, <1>5, <1>8 DEF CartsOK, CallOK, Writer, Alone, SettledOK, Settled
<1>10. PagesOK
  BY <1>1, <1>3 DEF PagesOK, Quiet
<1> QED
  BY <1>4, <1>7, <1>9, <1>10 DEF IInv

\* Nothing happens to it when nothing happens.
LEMMA StutterKeeps == IInv /\ UNCHANGED vars => IInv'
<1> SUFFICES ASSUME IInv, UNCHANGED vars PROVE IInv'
  OBVIOUS
<1>1. UNCHANGED <<token, guest, rows, view, call, wanted, disturbed, clicks, faults>>
  BY DEF vars
<1>2. Types /\ Finite /\ CartsOK /\ PagesOK
  BY DEF IInv
<1>3. Types'
  BY <1>1, <1>2 DEF Types
<1>4. Finite'
  BY <1>1, <1>2, FiniteKept DEF Types
<1>5. \A s \in Slots : Goes(s)
  BY <1>1, <1>2, Stays
<1>6. CartsOK'
  BY <1>1, <1>2, <1>5, CartsKept DEF Types
<1>7. ASSUME NEW t \in Tabs, Quiet(t)' PROVE PageOK(t)'
  <2>1. PageOK(t) /\ \A s \in Slots : Passes(s, t)
    BY <1>1, <1>2, <1>7 DEF Quiet, PagesOK, Passes
  <2> QED
    BY <1>1, <1>2, <2>1, PageKept DEF Types
<1> QED
  BY <1>3, <1>4, <1>6, <1>7 DEF IInv, PagesOK

\* Every step keeps it.
LEMMA StepKeeps == IInv /\ [Next]_vars => IInv'
<1> SUFFICES ASSUME IInv, [Next]_vars PROVE IInv'
  OBVIOUS
<1>1. ASSUME NEW t \in Tabs, GoToShop(t) \/ GoToCart(t) \/ LogIn(t) \/ Reload(t) PROVE IInv'
  BY <1>1, GoToShopKeeps, GoToCartKeeps, LogInKeeps, ReloadKeeps
<1>2. ASSUME NEW t \in Tabs, NEW p \in Products, AddToCart(t, p) \/ UpdateLine(t, p) \/ RemoveLine(t, p)
      PROVE  IInv'
  BY <1>2, ChangesKeep
<1>3. CASE SessionEnds
  BY <1>3, SessionEndsKeeps
<1>4. ASSUME NEW s \in Slots, ReadCart(s) \/ FindRow(s) \/ CommitAdd(s) \/ CommitMerge(s)
      PROVE  IInv'
  BY <1>4, ReadCartKeeps, FindRowKeeps, CommitAddKeeps, CommitMergeKeeps
<1>5. ASSUME NEW s \in Slots, RequestFails(s) \/ FinishAdd(s) \/ FinishRead(s) \/ FinishMerge(s)
      PROVE  IInv'
  BY <1>5, RequestFailsKeeps, FinishAddKeeps, FinishReadKeeps, FinishMergeKeeps
<1>6. ASSUME NEW s \in Slots, NEW p \in Products, FindRowToMerge(s, p) PROVE IInv'
  BY <1>6, FindRowToMergeKeeps
<1>7. CASE UNCHANGED vars
  BY <1>7, StutterKeeps
<1> QED
  BY <1>1, <1>2, <1>3, <1>4, <1>5, <1>6, <1>7 DEF Next

\* The inductive invariant holds in every reachable state.
LEMMA Invariance == Spec => []IInv
BY InitHolds, StepKeeps, PTL DEF Spec

\* Of any number of tabs, products and functions under way: rows stay positive,
\* the guest cart never goes below zero, and every tab shows a cart.
THEOREM CartPageTypes == Spec => []TypeOK
<1>1. ASSUME IInv PROVE TypeOK
  <2>1. Types
    BY <1>1 DEF IInv
  <2>2. \A s \in Slots : call[s].kind \in {"idle", "add", "load", "merge"}
    BY <2>1, CallKinds DEF Types
  <2> QED
    BY <2>1, <2>2 DEF Types, TypeOK, StoredRow, View
<1> QED
  BY <1>1, Invariance, PTL

\* Of any number of tabs, clicks and faults: units are lost, doubled or split over
\* two rows only where two changes of a product met at the gateway or an answer
\* was lost (addToCart, mergeCartOnLogin, add_to_cart, merge_cart).
THEOREM UnitsStayUnlessDisturbed == Spec => []UnitsChangeOnlyIfDisturbed
<1>1. ASSUME IInv PROVE UnitsChangeOnlyIfDisturbed
  <2> SUFFICES ASSUME NEW p \in Settled, Writing(p) = {}
               PROVE  /\ guest[p] = wanted.guest[p] /\ Account[p] = wanted.account[p]
                      /\ Cardinality(RowsOf(p)) <= 1
    BY DEF UnitsChangeOnlyIfDisturbed, Settled
  <2>1. SettledOK(p) /\ IsFiniteSet(RowsOf(p))
    BY <1>1 DEF IInv, CartsOK, Finite, Settled
  <2>2. Told(p)
    BY DEF Told
  <2>3. Cardinality(RowsOf(p)) <= 1
    BY <2>1, AtMostOne DEF SettledOK
  <2> QED
    BY <2>1, <2>2, <2>3 DEF SettledOK
<1> QED
  BY <1>1, Invariance, PTL

\* Of any number of tabs: a cart page at rest shows the cart it would act on, and
\* the total of it, unless since it was read somebody else changed it, clicks of the
\* tab overlapped or a read failed, and but for disturbed products (loadCart).
THEOREM CartPageStaysCurrent == Spec => []CartPageIsCurrent
<1>1. ASSUME IInv PROVE CartPageIsCurrent
  <2> SUFFICES ASSUME NEW t \in Tabs, view[t].page = "cart", ~view[t].loading, ~view[t].foreign,
                      Busy = {}
               PROVE  /\ \A p \in Settled : view[t].shown[p] = Current[p]
                      /\ view[t].total = view[t].shown
    BY DEF CartPageIsCurrent, Settled, Current
  <2>1. PageOK(t) /\ Types
    BY <1>1 DEF IInv, PagesOK, Quiet
  <2>2. \A p : Told(p)
    BY <2>1, WritesOf DEF Told, Writing, Busy, Free, Types, Writer
  <2> QED
    BY <2>1, <2>2 DEF PageOK
<1> QED
  BY <1>1, Invariance, PTL
=============================================================================
