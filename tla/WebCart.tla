------------------------------- MODULE WebCart -------------------------------
(* The cart of one customer as customer-web and the gateway keep it: a guest  *)
(* cart in the browser's local storage, used whenever the gateway answers     *)
(* 401, rows in the gateway's table otherwise, and a merge of the first into  *)
(* the second at login and whenever the application is opened. The tabs of    *)
(* the browser share the token and the guest cart.                            *)
EXTENDS Integers, FiniteSets

CONSTANTS
  Tabs,        \* tabs of the browser
  Products,
  Slots,       \* as many as async functions may be under way at a time (bound)
  MaxClicks,   \* bound on clicks that change the cart
  MaxFaults    \* bound on failed requests, lost answers and reloads amid them

ASSUME CartAssumption == MaxClicks \in Nat /\ MaxFaults \in Nat

VARIABLES
  token,      \* local storage "token": "valid", or "none": absent or expired
  guest,      \* local storage "cart": the units of each product
  rows,       \* the gateway's cart_items of this customer
  view,       \* what each tab shows: the lines, and the units of which the total is made
  call,       \* the async functions under way
  wanted,     \* history: the two carts the tabs were told they have
  disturbed,  \* history: products whose writes overlapped or lost an answer
  clicks, faults

vars == <<token, guest, rows, view, call, wanted, disturbed, clicks, faults>>

NoUnits == [p \in Products |-> 0]
Units == [Products -> Nat]
Row == [product: Products, id: Nat, quantity: Nat]
RowsOf(p) == {w \in rows : w.product = p}
UnitsOf(p) == UNION {{w} \X (1 .. w.quantity) : w \in RowsOf(p)}
Account == [p \in Products |-> Cardinality(UnitsOf(p))]

Free == {s \in Slots : call[s].kind = "idle"}
Busy == Slots \ Free
Idle == [kind |-> "idle"]
Shop == [page |-> "shop", loading |-> FALSE, shown |-> NoUnits, total |-> NoUnits, foreign |-> FALSE]

\* Products that a function under way may change.
Writes(c) == CASE c.kind = "add" -> {c.product}
               [] c.kind = "merge" -> Products    \* the guest cart goes as a whole
               [] OTHER -> {}
Writing(p) == {s \in Slots : p \in Writes(call[s])}

Init ==
  /\ token = "none"
  /\ guest = NoUnits
  /\ rows = {}
  /\ view = [t \in Tabs |-> Shop]
  /\ call = [s \in Slots |-> Idle]
  /\ wanted = [guest |-> NoUnits, account |-> NoUnits]
  /\ disturbed = {}
  /\ clicks = 0
  /\ faults = 0

------------------------------------------------------------------------------
(* Starting a function. Whatever the tab sees afterwards may be due to others *)
(* ("foreign") when other functions are under way; and a product is disturbed *)
(* when two functions that write it meet at the gateway.                      *)

\* The history says nothing of a disturbed product.
Without(ps, units) == [p \in Products |-> IF p \in ps THEN 0 ELSE units[p]]
Known(carts, ps) == [guest |-> Without(ps, carts.guest), account |-> Without(ps, carts.account)]
Disturb(ps) ==
  /\ disturbed' = disturbed \union ps
  /\ wanted' = Known(wanted, disturbed')

Started(s, c) ==
  /\ call' = [call EXCEPT ![s] = c]
  /\ Disturb({p \in Writes(c) : \E x \in Writing(p) \ {s} : c.auth \/ call[x].auth})

Foreign(ts) ==
  [t \in Tabs |-> IF t \in ts /\ view[t].page = "cart" THEN [view[t] EXCEPT !.foreign = TRUE]
                  ELSE view[t]]

\* The gateway answers 401 to a request without a valid token, at any time.
Sent(tok) == IF tok = "valid" THEN "sent" ELSE "denied"

NewAdd(t, p, q, from) ==
  [kind |-> "add", tab |-> t, product |-> p, quantity |-> q, from |-> from,
   auth |-> token = "valid", stage |-> Sent(token), saw |-> {}, mounted |-> TRUE, alive |-> TRUE]

NewLoad(t, part) ==
  [kind |-> "load", tab |-> t, part |-> part, auth |-> token = "valid",
   stage |-> Sent(token), saw |-> NoUnits]

NewMerge(t) ==
  [kind |-> "merge", tab |-> t, payload |-> guest, auth |-> token = "valid",
   stage |-> Sent(token), todo |-> {p \in Products : guest[p] > 0}, saw |-> {}, alive |-> TRUE]

\* loadCart: the page is replaced by a message until both reads are done.
LoadingView(v, others) == [v EXCEPT !.loading = TRUE, !.foreign = others]

------------------------------------------------------------------------------
(* What the customer does                                                     *)

\* The continuation of a page that is left runs on, without any effect on what
\* is shown; its reads are therefore forgotten and its writes are not.
Leaving(t) ==
  [s \in Slots |-> CASE call[s].kind = "load" /\ call[s].tab = t -> Idle
                     [] call[s].kind = "add" /\ call[s].tab = t -> [call[s] EXCEPT !.mounted = FALSE]
                     [] OTHER -> call[s]]

GoToShop(t) ==
  /\ view[t].page = "cart"
  /\ view' = [view EXCEPT ![t] = Shop]
  /\ call' = Leaving(t)
  /\ UNCHANGED <<token, guest, rows, wanted, disturbed, clicks, faults>>

\* The cart page is mounted: loadCart.
GoToCart(t) ==
  /\ view[t].page = "shop"
  /\ view' = [view EXCEPT ![t] = LoadingView([@ EXCEPT !.page = "cart"], Busy # {})]
  /\ \E s \in Free : call' = [call EXCEPT ![s] = NewLoad(t, "cart")]
  /\ UNCHANGED <<token, guest, rows, wanted, disturbed, clicks, faults>>

\* A click that changes the cart: "Add to Cart" of a product page, plus, minus
\* and the bin of a line of the cart page.
Click(t, p, q, from) ==
  /\ clicks < MaxClicks
  /\ \E s \in Free : Started(s, NewAdd(t, p, q, from))
  /\ view' = Foreign((Tabs \ {t}) \union (IF Busy # {} THEN {t} ELSE {}))
  /\ clicks' = clicks + 1
  /\ UNCHANGED <<token, guest, rows, faults>>

AddToCart(t, p) == view[t].page = "shop" /\ Click(t, p, 1, "shop")

OnLine(t, p) == view[t].page = "cart" /\ ~view[t].loading /\ view[t].shown[p] > 0

UpdateLine(t, p) == OnLine(t, p) /\ \E q \in {1, -1} : Click(t, p, q, "cart")
RemoveLine(t, p) == OnLine(t, p) /\ Click(t, p, -view[t].shown[p], "cart")

\* The token is stored and the guest cart, if there is one, merged.
LogIn(t) ==
  /\ token = "none" /\ view[t].page = "shop"
  /\ token' = "valid"
  /\ IF guest = NoUnits THEN UNCHANGED <<call, wanted, disturbed>>
     ELSE \E s \in Free : Started(s, [NewMerge(t) EXCEPT !.auth = TRUE, !.stage = "sent"])
  /\ view' = Foreign(Tabs)
  /\ UNCHANGED <<guest, rows, clicks, faults>>

\* Logout, or the expiry of the token.
SessionEnds ==
  /\ token = "valid"
  /\ token' = "none"
  /\ view' = Foreign(Tabs)
  /\ UNCHANGED <<guest, rows, call, wanted, disturbed, clicks, faults>>

\* The application is opened anew, which also offers the guest cart to the
\* gateway. Functions under way are cut off; the gateway may still serve them.
CutOff(t) ==
  [s \in Slots |-> IF call[s].kind = "idle" \/ call[s].tab # t THEN call[s]
                   ELSE IF call[s].kind = "load" THEN Idle
                   ELSE [call[s] EXCEPT !.alive = FALSE]]

Reload(t) ==
  LET mine == {s \in Busy : call[s].tab = t /\ call[s].kind # "load"}
      free == Free \union {s \in Busy : call[s].tab = t /\ call[s].kind = "load"}
      meets == {p \in Products : guest # NoUnits /\ \E s \in Writing(p) : call[s].auth \/ token = "valid"}
  IN
  /\ mine = {} \/ faults < MaxFaults
  /\ faults' = IF mine = {} THEN faults ELSE faults + 1
  /\ view' = [Foreign(Tabs) EXCEPT ![t] = Shop]
  /\ \/ guest = NoUnits /\ call' = CutOff(t)
     \/ guest # NoUnits /\ \E s \in free : call' = [CutOff(t) EXCEPT ![s] = NewMerge(t)]
  /\ Disturb(meets \union UNION {Writes(call[s]) : s \in mine})
  /\ UNCHANGED <<token, guest, rows, clicks>>

------------------------------------------------------------------------------
(* What the gateway does                                                      *)

Answer(s, result) == [call EXCEPT ![s].stage = result]

Served(s, kind, stage) ==
  call[s].kind = kind /\ call[s].stage = stage

\* get_cart
ReadCart(s) ==
  /\ Served(s, "load", "sent")
  /\ call' = [call EXCEPT ![s].stage = "ok", ![s].saw = Account]
  /\ UNCHANGED <<token, guest, rows, view, wanted, disturbed, clicks, faults>>

\* add_to_cart reads the row of the product: two of them raise.
FindRow(s) ==
  /\ Served(s, "add", "sent")
  /\ LET found == RowsOf(call[s].product) IN
     call' = IF Cardinality(found) > 1 THEN Answer(s, "error")
             ELSE [call EXCEPT ![s].stage = "begun", ![s].saw = found]
  /\ UNCHANGED <<token, guest, rows, view, wanted, disturbed, clicks, faults>>

AtLeast0(n) == IF n > 0 THEN n ELSE 0
SameRow(w) == {x \in rows : x.product = w.product /\ x.id = w.id}
UsedIds ==
  {w.id : w \in rows} \union
  UNION {{w.id : w \in call[s].saw} : s \in {x \in Busy : call[x].kind # "load"}}
FreshId == CHOOSE id \in 1 .. Cardinality(UsedIds) + 1 : id \notin UsedIds

\* Fault: a line that reaches zero stays.
RowsAfterAddKeepsZero(found, p, q) ==
  IF found = {} THEN IF q > 0 THEN rows \union {[product |-> p, id |-> FreshId, quantity |-> q]} ELSE rows
  ELSE {IF w \in found THEN [w EXCEPT !.quantity = AtLeast0(@ + q)] ELSE w : w \in rows}
\* The row that was read gets its quantity plus q, or goes; without one a
\* positive q becomes a new row.
RowsAfterAdd(found, p, q) ==
  IF found = {} THEN IF q > 0 THEN rows \union {[product |-> p, id |-> FreshId, quantity |-> q]} ELSE rows
  ELSE LET w == CHOOSE x \in found : TRUE IN
       (rows \ SameRow(w)) \union
       (IF w.quantity + q > 0 THEN {[w EXCEPT !.quantity = @ + q]} ELSE {})

\* An UPDATE whose row is gone raises, a DELETE does not.
CommitAdd(s) ==
  /\ Served(s, "add", "begun")
  /\ LET c == call[s]
         lost == \E w \in c.saw : w.quantity + c.quantity > 0 /\ SameRow(w) = {}
     IN IF lost THEN call' = Answer(s, "error") /\ UNCHANGED rows
        ELSE call' = Answer(s, "ok") /\ rows' = RowsAfterAdd(c.saw, c.product, c.quantity)
  /\ UNCHANGED <<token, guest, view, wanted, disturbed, clicks, faults>>

\* merge_cart: one SELECT per guest item, then the commit.
FindRowToMerge(s, p) ==
  /\ Served(s, "merge", "sent") /\ p \in call[s].todo
  /\ call' = IF Cardinality(RowsOf(p)) > 1 THEN Answer(s, "error")
             ELSE [call EXCEPT ![s].todo = @ \ {p}, ![s].saw = @ \union RowsOf(p)]
  /\ UNCHANGED <<token, guest, rows, view, wanted, disturbed, clicks, faults>>

Merged(c) ==
  LET old == {w.product : w \in c.saw}
      new == {p \in Products \ old : c.payload[p] > 0}
  IN (rows \ UNION {SameRow(w) : w \in c.saw}) \union {[w EXCEPT !.quantity = @ + c.payload[w.product]] : w \in c.saw}
     \union {[product |-> p, id |-> FreshId, quantity |-> c.payload[p]] : p \in new}

CommitMerge(s) ==
  /\ Served(s, "merge", "sent") /\ call[s].todo = {}
  /\ IF \E w \in call[s].saw : SameRow(w) = {}
     THEN call' = Answer(s, "error") /\ UNCHANGED rows
     ELSE call' = Answer(s, "ok") /\ rows' = Merged(call[s])
  /\ UNCHANGED <<token, guest, view, wanted, disturbed, clicks, faults>>

\* A 500, an outage, or an answer that does not arrive although the work is done.
RequestFails(s) ==
  /\ faults < MaxFaults
  /\ call[s].kind # "idle" /\ call[s].stage \in {"sent", "begun", "ok", "denied"}
  /\ call' = Answer(s, "error")
  /\ Disturb(IF call[s].stage = "ok" THEN Writes(call[s]) ELSE {})
  /\ faults' = faults + 1
  /\ UNCHANGED <<token, guest, rows, view, clicks>>

------------------------------------------------------------------------------
(* What the functions do with the answers                                     *)

Changed(units, p, q) == [units EXCEPT ![p] = AtLeast0(@ + q)]

\* A line of the cart page has no `images`: it cannot become a new guest line.
CanPushGuest(c) == guest[c.product] > 0 \/ c.from = "shop"

\* Fault: the cart page does not read the cart again.
AfterAddWithoutReload(s, c) == call' = [call EXCEPT ![s] = Idle] /\ UNCHANGED view
\* The cart page reads the cart again after a change that succeeded.
AfterAdd(s, c) ==
  IF c.from = "cart" /\ c.mounted
  THEN /\ call' = [call EXCEPT ![s] = NewLoad(c.tab, "cart")]
       /\ view' = [view EXCEPT ![c.tab] = LoadingView(@, Busy # {s})]
  ELSE call' = [call EXCEPT ![s] = Idle] /\ UNCHANGED view

FinishAdd(s) ==
  LET c == call[s]
      fails == c.stage = "error" \/ (c.stage = "denied" /\ ~CanPushGuest(c))
  IN
  /\ c.kind = "add" /\ c.stage \in {"ok", "denied", "error"}
  /\ IF fails \/ ~c.alive
     THEN call' = [call EXCEPT ![s] = Idle] /\ UNCHANGED <<guest, wanted, view>>
     ELSE /\ AfterAdd(s, c)
          /\ IF c.stage = "ok"
             THEN /\ wanted' = Known([wanted EXCEPT !.account = Changed(@, c.product, c.quantity)], disturbed)
                  /\ UNCHANGED guest
             ELSE /\ guest' = Changed(guest, c.product, c.quantity)
                  /\ wanted' = Known([wanted EXCEPT !.guest = Changed(@, c.product, c.quantity)], disturbed)
  /\ UNCHANGED <<token, rows, disturbed, clicks, faults>>

\* getCart, which falls back to the guest cart on any error, then getTotal,
\* which reads the cart a second time.
FinishRead(s) ==
  LET c == call[s]
      items == IF c.stage = "ok" THEN c.saw ELSE guest
      v == [view[c.tab] EXCEPT !.foreign = @ \/ c.stage = "error"]
  IN
  /\ c.kind = "load" /\ c.stage \in {"ok", "denied", "error"}
  /\ IF c.part = "cart"
     THEN /\ view' = [view EXCEPT ![c.tab] = [v EXCEPT !.shown = items]]
          /\ call' = [call EXCEPT ![s] = NewLoad(c.tab, "total")]
     ELSE /\ view' = [view EXCEPT ![c.tab] = [v EXCEPT !.total = items, !.loading = FALSE]]
          /\ call' = [call EXCEPT ![s] = Idle]
  /\ UNCHANGED <<token, guest, rows, wanted, disturbed, clicks, faults>>

\* Fault: the guest cart is removed whatever the answer.
RemovesGuestCartAlways(c) == c.alive
\* The guest cart is removed when the gateway has merged it; errors are swallowed.
RemovesGuestCart(c) == c.alive /\ c.stage = "ok"

FinishMerge(s) ==
  LET c == call[s] IN
  /\ c.kind = "merge" /\ c.stage \in {"ok", "denied", "error"}
  /\ call' = [call EXCEPT ![s] = Idle]
  /\ IF RemovesGuestCart(c)
     THEN /\ guest' = NoUnits
          /\ wanted' = [guest |-> NoUnits,
                        account |-> [p \in Products |-> wanted.account[p] + wanted.guest[p]]]
          /\ view' = Foreign(Tabs)
     ELSE UNCHANGED <<guest, wanted, view>>
  /\ UNCHANGED <<token, rows, disturbed, clicks, faults>>

Next ==
  \/ \E t \in Tabs : GoToShop(t) \/ GoToCart(t) \/ LogIn(t) \/ Reload(t)
  \/ \E t \in Tabs, p \in Products : AddToCart(t, p) \/ UpdateLine(t, p) \/ RemoveLine(t, p)
  \/ SessionEnds
  \/ \E s \in Slots : ReadCart(s) \/ FindRow(s) \/ CommitAdd(s) \/ CommitMerge(s)
                      \/ RequestFails(s) \/ FinishAdd(s) \/ FinishRead(s) \/ FinishMerge(s)
  \/ \E s \in Slots, p \in Products : FindRowToMerge(s, p)

Spec == Init /\ [][Next]_vars

------------------------------------------------------------------------------
\* Every variable has its type, and a guest line has a positive quantity by the
\* choice of a function; rows of the gateway do too (`_user_items`).
TypeOK ==
  /\ token \in {"none", "valid"}
  /\ guest \in Units
  /\ rows \subseteq Row /\ \A w \in rows : w.quantity > 0
  /\ \A t \in Tabs : view[t] \in [page: {"shop", "cart"}, loading: BOOLEAN, shown: Units,
                                  total: Units, foreign: BOOLEAN]
  /\ \A s \in Slots : call[s].kind \in {"idle", "add", "load", "merge"}
  /\ wanted \in [guest: Units, account: Units]
  /\ disturbed \subseteq Products
  /\ clicks \in 0 .. MaxClicks /\ faults \in 0 .. MaxFaults

\* Between two changes of a product, the guest cart and the account hold exactly
\* the units the tabs were told of, through 401s, logins, merges and logouts, the
\* account in one row, which every later add needs (scalar_one_or_none raises on
\* two): units are lost or doubled, and rows added, only if two changes overlapped
\* at the gateway or an answer was lost (addToCart, mergeCartOnLogin, add_to_cart,
\* merge_cart).
UnitsChangeOnlyIfDisturbed ==
  \A p \in Products \ disturbed : Writing(p) = {} =>
     /\ guest[p] = wanted.guest[p] /\ Account[p] = wanted.account[p]
     /\ Cardinality(RowsOf(p)) <= 1

\* A cart page at rest shows the cart it would act on, and the total of it,
\* unless since it was read somebody else changed the cart, clicks of the tab itself
\* overlapped or a read failed, or the product is disturbed: loadCart's two reads and
\* the reload after each successful click are enough for this.
CartPageIsCurrent ==
  \A t \in Tabs :
    view[t].page = "cart" /\ ~view[t].loading /\ ~view[t].foreign /\ Busy = {} =>
      /\ \A p \in Products \ disturbed :
           view[t].shown[p] = IF token = "valid" THEN Account[p] ELSE guest[p]
      /\ view[t].total = view[t].shown
==============================================================================
