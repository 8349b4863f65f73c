# ShopCloud in TLA+

A verification project for ShopCloud (`src/shopcloud`), an online shop made of
Python services (FastAPI, SQLAlchemy, Redis, SQS) and a Lambda. TLA+ modules
model its stateful parts, TLC checks them on small instances, and TLAPS proves
the most important properties for every instance. Paths below are relative to
`src/shopcloud/`; `PROJECT.json` maps every definition to the lines it models.

1. [The system](#1-the-system)
2. [The modules](#2-the-modules)
3. [The runs](#3-the-runs)
4. [Fairness](#4-fairness)
5. [What is proved](#5-what-is-proved)
6. [Where the code and its comments disagree](#6-where-the-code-and-its-comments-disagree)
7. [Not modelled](#7-not-modelled)
8. [Plan](#8-plan)

## 1. The system

A customer's request passes through these parts (arrows are calls or messages):

    customer-web -> api-gateway -> checkout -> Redis (cart:<sub>)
                        |             |-----> Postgres (orders, inventory, ...)
                        |             '-----> SQS -> invoice-worker -> S3, SES
                        |-> cart -> Redis, catalog
                        '-> its own Postgres schema ("gateway")
    admin -> Postgres        catalog -> Postgres, Redis (cache)
    auth  -> Cognito         every service -> Cognito's JWKS (libs/auth)

| Component | State | Operations | Hard behaviours | What makes it correct |
|---|---|---|---|---|
| checkout service (`services/checkout`) | the stage of each request, its open transaction | `POST /checkout`: look up the key, read the cart, write the order, publish, clear the cart | concurrent checkouts on the same stock, key, customer; deadlocks; failures and crashes between commit, publish and clear; retries | no overselling, no half orders, one order per key, answers that are true, a cart kept until its order is queued, deadlocks only over stock or a new email, every request ends |
| order database (`libs/db`, `migrations`) | inventory, customers, orders, items, invoices | transactions at READ COMMITTED, unique indexes | row and index locks; a commit whose acknowledgement is lost | as above |
| SQS publisher (`libs/aws/sqs.py`) | attempts | `publish`, up to 3 sends | a send that raises although SQS took the message | only committed orders are published |
| cart service (`services/cart`) | one Redis key per customer | get, add, update, remove, clear | read-modify-write over awaits, a second writer (checkout), the TTL, limits checked on a stale read | stored carts are well formed; nothing appears that was not asked for; alone, a request is atomic |
| invoice queue and worker (`services/invoice-worker`, `infra/modules/sqs-invoice`) | queue, dead-letter queue, batches, bucket | receive, render, upload, mail, report failures; redrive; replay | at-least-once delivery, partial batch failure, cut-off invocations, poison messages | no invoice is lost, mail implies archive, duplicates only from platform faults, every message settles |
| catalog (`services/catalog`) | product cache (TTL 60 s) | list, get | a reader stores a stale product; nothing invalidates | staleness is bounded by the TTL |
| admin (`services/admin`) | order status, products, inventory | status changes, product and stock edits | no check of status transitions, commit and re-read | statuses follow the documented life cycle |
| token verification (`libs/auth`) | JWKS cache | `verify_token`, `_refresh_keys` | key rotation, outage, the 60 s refresh interval | valid tokens are accepted, unknown keys refused |
| auth (`services/auth`) | signed state, cookies | login, callback, refresh, logout | replayed or expired state, callback after logout | a session only from a state this service signed |
| api-gateway orders, products; customer-web checkout, history, orders and product pages | stock, orders, returns (own schema); what each page last read | pay, cancel, return; status, decide, adjust, edit, delete | stock written from an earlier read, or from a form filled from one; check-then-act on statuses and returns; payments left, repeated and lost; pages read while others write | stock matches orders, one order per payment, true messages, one active return per order, current pages, each unless writes overlapped or an answer was lost; orders alone lose no units; a payment ends |
| api-gateway cart; customer-web cart | rows per (user, product); guest cart in local storage | add, load, merge at login, logout | no unique constraint; a merge whose answer is lost is repeated; expiring tokens switch carts | nothing lost or counted twice, one row per product, a current cart page, each unless changes overlapped or an answer was lost |
| api-gateway users, recovery; customer-web sign-in, user table | users, one-time codes; the browser's token | register, login, verify, forget, reset, block, details, logout | calls that outlive their page; codes compared and removed in two steps; a table that flips its own flag | a code works once and the newest one works, the token is of whoever verified last, the table is true |
| api-gateway profiles; customer-web profile and settings pages | profiles; the query cache and two forms | load, edit, save, cancel, refetch | a cache that outlives an expired session, saves before loads, refetches amid edits | a profile is shown to its owner and saved as his, a form at rest is what is stored or would be stored as that |
| categories, reviews, dashboard, images, mail | rows | single-row CRUD, reports | few | - |
| plumbing: errors, health, logging, settings | none | - | - | - |
| infrastructure | none at run time | Terraform, manifests, policies, workflows | - | - |

How they interact, as far as the models need it:

* The cart service and checkout share the Redis key `cart:<sub>`. The cart
  service writes whole carts; checkout reads the key at the beginning of a
  request and deletes it at the end. Nothing locks it in between.
* Checkout and Postgres: one transaction per order. The stock is compared and
  decremented by one UPDATE per line, which takes the row lock; the customers
  row is inserted at once or changed by the flush that inserts the order; the
  unique indexes on `orders.idempotency_key` and `customers.email` are checked
  (and waited for) by these statements, and so is the foreign key of the order on
  the customers row.
* Checkout and the worker meet only in the queue. The event carries everything
  the worker needs: the worker opens no database connection, so the invoice row
  stays `queued` (step 5 of the worker's docstring is not implemented).
* customer-web calls the gateway only, and keeps state of its own: the token and the
  guest cart in local storage (shared by the tabs), the query cache (emptied at a
  logout), and what each page last read. A call goes on when its page is left, and
  what follows its answer still happens.
* The gateway's handlers read rows, check them, and commit later, at READ COMMITTED
  and without locks: between the read and the commit of one handler anything of
  another can be committed.
* The gateway writes its own order first and then calls checkout without a
  bearer token. The call is answered 401 and ignored: gateway orders
  and checkout orders are separate (`routes/orders.py:211-223`).

## 2. The modules

| Module | Models | Lines up with |
|---|---|---|
| `CartLines` | the lines of a cart and of an order; `Added`, `Updated`, `Quantity` | `add_item`, `update_quantity`, `reserve_inventory` |
| `Checkout` | the checkout service with Redis, Postgres and SQS as it uses them | `CheckoutService.checkout`, `OrderRepository`, `CartReader`, `session_scope`, `AwsSqsPublisher.publish` |
| `OrderPlacement` | abstract specification of `Checkout`: an order and its stock in one step | - |
| `InvoicePipeline` | the queue, its DLQ and the Lambda | `lambda_handler`, `process_record`, `main.tf`, `docs/rollback.md` |
| `CartService` | the cart service over Redis | `routes.py`, `CartRepository`, `CatalogClient` |
| `AtomicCart` | abstract specification of `CartService`: a request changes the cart in one step or not at all | - |
| `WebCart` | the two carts of a customer, in the browser and in the gateway, and their merge | `utils/cart.js`, `cartPage.jsx`, `authService.js`, `routes/cart.py` |
| `WebCheckout` | the checkout page, the order it makes, and the administrator's product pages | `checkoutPage.jsx`, `productsAdminPage.jsx`, `updateProductPage.jsx`, `create_order`, `adjust_stock`, `update_product`, `delete_product` |
| `WebOrders` | the customer's history and the administrator's orders page | `ordersHistoryPage.jsx`, `ordersAdminPage.jsx`, `routes/orders.py` |
| `WebSignIn` | registering, signing in and out, resetting, the table of users | `loginPage.jsx`, `authService.js`, `userManagementPage.jsx`, `routes/users.py`, `auth_recovery.py` |
| `WebProfile` | the two profile forms over the query cache | `clientProfilePage.jsx`, `settingAdminPage.jsx`, `useUserQueries.js`, `/users/me` |
| `CheckoutProofs` | theorems of `Checkout`, and that it implements `OrderPlacement` | - |
| `InvoiceProofs` | theorems of `InvoicePipeline` | - |
| `CartProofs` | theorems of `CartService`, and that it implements `AtomicCart` | - |
| `CartPageProofs`, `PaymentProofs`, `OrdersProofs`, `SignInProofs`, `ProfileProofs` | theorems of `WebCart`, `WebCheckout`, `WebOrders`, `WebSignIn`, `WebProfile` | - |
| `MCCheckout`, `MCInvoicePipeline`, `MCCartService`, `MCWebCart`, `MCWebCheckout`, `MCWebOrders`, `MCWebSignIn`, `MCWebProfile` | small instances | - |

The five `Web...` modules each compose a part of customer-web with the handlers of the
gateway it calls. They have one form: the pages are records (what is shown, what is
being waited for); an async function or a request under way is a record in `call` (or
`pay`) with its `stage`; sending, the gateway's read, the gateway's commit, and the
page's hearing of the answer are steps of their own. History variables say which
disturbance of a property has happened (two writes overlapped, an answer was
lost, ...): a property is promised where none has. This has a price that should be
known: where the code has no lock, the race itself is exempted, not caught. The hazards of
`PROJECT.json` say for each such case what is exempted, under which flag, and what the
property shows in the rest of the behaviours.

Operators whose comment begins with "Fault:" are not part of a model. Each is a
plausible bug in the definition that follows it; with it in that definition's
place TLC violates the property `PROJECT.json` names under "mutants".

### Checkout

Each request is a process; `pc[r]` is its place in `CheckoutService.checkout`:
`lookup` (the idempotency key) -> `read` (the cart) -> `customer`, `insert`, `email`
(`ensure_customer`) -> `reserve` (one UPDATE per line) -> `update`, `email`, `order`,
`share` (the flush of `create_order`) -> `commit` -> `publish` -> `clear` -> `done`.
Every statement that waits for another transaction, and every wait within one, is a
step: the INSERT and the UPDATE of the customers row wait for the row, then for the
entry of the email in its index; the INSERT of the order waits for the entry of the
key, then, for its foreign key, for the customers row. The items and the invoice wait
for nobody and are part of the last of these. `answer[r]` is the response.

* **Locks** are derived from `pc`, `reserved` and `upsert`: the inventory rows
  updated so far (`Held`), the customers row from its write on (`HoldsRow`) or from the
  order's foreign key on (`SharesRow`), the emails in the index (`EmailsHeld`), the key
  (`HoldsKey`). `WaitsFor(r, x)` says when the next step of `r` waits for the
  transaction of `x`, which holds what it has taken meanwhile. An UPDATE waits only for a row whose
  committed stock would do; a row with too little does not match and gives a 409
  at once. An UPDATE that does not change the email takes the weaker lock that a foreign key
  does not wait for. A cycle of waits is broken by Postgres (`DeadlockVictim`).
* **Autoflush is off** (`libs/db/session.py`), so a changed email is not written
  by `ensure_customer` but by the flush of the order (`upsert` is `dirty` until then).
* **Failure.** `Fail` is an exception of any statement or Redis call and rolls
  back; `CommitUnacknowledged` is a commit that succeeds on the server only;
  `SendRaises` leaves open whether SQS took the message; `ClearUnacknowledged` is a DEL
  that Redis executed although the customer gets a 500 or nothing; `Crash` is the death of
  the pod. A request that ends without a commit leaves every row as it was.
* **The empty key.** `""` is stored (it is not null) but not looked up (it is
  falsy), hence `EmptyKey` beside `NoKey`.
* **The cart** is written by `EditCart` in any way the cart service, its TTL or
  another pod may.
* **Corrupt carts.** Which stored carts the model of a cart refuses is left open:
  `ReadCart` may answer any cart there is with a 400.
* Prices, names, totals, metadata and the SELECT of product names are left out.

### OrderPlacement

Three variables: stock, orders, orders the queue knows of. `Place` makes an
order and takes its stock in one step, if the stock suffices and the key is
free; `Invoice` tells the queue of an order that exists. `Checkout` implements
it with `invoiced <- {r : sent[r] > 0}`.

### InvoicePipeline

`place[m]` follows a message through `unsent`, `queue`, `inflight`, `dlq`,
`deleted`, `expired`. An invocation holds a batch: the records taken, those not
yet tried, those that failed, and whether the record at hand is uploaded.
`Upload`, `Email`, `RecordFails` and `EmailUnacknowledged` are the steps of
`process_record`; `Return` reports `batchItemFailures` and SQS deletes the rest;
`Die` is the 120 s timeout, a crash, or a lost result. The visibility timeout
(14400 s) is far longer than an invocation, so `VisibilityTimeout` requires that
no invocation holds the message; `DeliverCopy` is the at-least-once delivery
that can break this. `Replay` is step 4 of `docs/rollback.md`; its script
sends and then deletes, which the model does in one step. Two messages may
belong to one order, because a send that raised may have succeeded.

### CartService and AtomicCart

A request goes `get` -> (`fetch`, for a product new to the cart) -> `save`, or
`delete`; each is one Redis or HTTP call and thus one step. `working[r]` is the
Cart object of the request, which `Save` writes whatever the key holds by then.
`DeletedByOthers` is checkout's `CartReader.clear` or the TTL. `Load` reads a
cart that does not validate as empty, as the code does. `Overlap` says whether a
customer may have two requests under way, `OthersWrite` whether anyone else
deletes keys: the two assumptions behind the docstring of `repository.py`.
`CatalogId` is what the catalog makes of the id in its URL: the look-up of an existing line
compares the id of the request, the line that is appended has the id of the answer.

The quantity limit is compared only when `add_item` finds the product: a new
line and a PATCH are limited by the pydantic bound 99 alone. `AtomicCart` states
the limit of `add_item` for both cases, which is the same as long as the
setting equals the bound, as it does in the deployed settings
(`MaxQuantity = ModelMax` in the instances).

### WebCart

`addToCart`, `loadCart` and `mergeCartOnLogin` are the functions under way. Each call
is answered by the gateway with the rows as they are, or by 401 when the token is absent
or has expired, upon which the function goes on with the guest cart in local storage.
`cartPage.jsx` reads lines and total one after the other, and again after
every successful click. `add_to_cart` reads the row of the product and then inserts or
changes it; without a unique constraint two adds may both insert, after which
`scalar_one_or_none` raises for that product. `disturbed` has the products for
which two functions overlapped or an answer was lost.
`FreshId` is the identity the database gives a new row; `view.total` stands for the
prices by the units they are the total of.

### WebCheckout

A visit of the checkout page shows the items it was given; `PlaceOrder` copies them, waits 1.2
seconds, posts, clears the cart and leaves for the confirmation; the tab may be left,
reloaded or opened with other items at any point of this. Items are lines, of which two may
be of one product (`ProductOf`). The gateway's `ReadStock` and
`CommitOrder` are two steps: each line is compared with the stock read, and the stock
written is computed from that, never below zero. The administrator's table has +1, -1 and the bin; the form
is filled from the table (`EditProduct`), takes any integer as the stock, and writes all its columns, of
which the gateway changes those that differ. Each is a read and a commit too. Every stock has a `Version`; a
product is `overlapped` once a stock was committed upon an older version than the one
it was computed from. `StockMatchesOrders` has three parts: the stock of a product that is not
`overlapped` is what it was, plus what was adjusted, minus what was ordered (or more, by the
excess of an order with two lines of it); orders alone lose no units, `overlapped` or not; and
without an administrator no stock is negative and no active product is sold out.

### WebOrders

`status` and `returns` are the gateway's; `history` is the customer's page (its
number, the orders listed, the dialogue), `admin` the administrator's (two tables that
every click reads again). The orders listed need not be those of the number: a read that fails
leaves the former ones, and their buttons work. Every handler (`CheckCancel`, `CheckReturn`, `ReadForStatus`,
`ReadDecision` and their commits) reads and checks in one step and commits in another. The reload
that follows a cancellation is a flag of the page, which does nothing while a read is under
way (`Reloads`). A page at rest is `behind` if since its last read began somebody else wrote,
a call failed, or, for the history, a cancellation was committed after the read under way had been served.

### WebSignIn

One browser with the pages of signing in, and another with the table of users. Calls
outlive their pages, so a verification that is answered late stores its token wherever
the browser is (`late`). Verification codes are removed when they have been used; reset codes are
compared, then the password is committed, then the code of that address is removed, in
three steps (`raced` has the users where another reset or a new code came in between). The flags of the
table are flipped by the page itself and by the gateway's handler, each on what it has.

### WebProfile

The query `["user"]` has data, staleness and a fetch, which pauses without a network; the
profile page fills its form from the data whenever they change; the settings page reads for
itself and keeps what it read as `original`. A profile is a phone and an image, as those of a
user or of nobody, and a name. `Stored` is `update_me`: a name that was sent beside the two
name fields wins, empty fields leave the old name, fields that are not sent are kept. How a
form divides a name into first and last name is left out, but not that both can be empty. A save
invalidates the query, a logout empties the cache, an expired session does neither. A refetch
with equal data changes nothing (structural sharing), so a form may show empty names for ever.
A save of the settings that failed makes `original` empty (`None`), upon which `Cancel` makes
the form null and the page throws (`crashed`). `trust` says how much can still be promised: "all",
only whose profile it is ("own"), or "nothing".

## 3. The runs

| Run | Instance | Shows |
|---|---|---|
| `CheckoutRetry` | two tries of a new customer with one key and two emails, another new customer with one of the emails and the key `""`; 0.94M states | stock is conserved and never negative, a key names one order, emails in the mirror stay unique, responses are true, a cart is deleted only for an order that is committed and queued |
| `CheckoutLocks` | four requests of one customer: two with a new email, two with one key, one without email; disjoint carts; 0.25M states | every deadlock goes through an inventory row or a really new email |
| `CheckoutPromise` | two customers with one key and carts that can deadlock; 0.06M states | `Checkout` implements `OrderPlacement`; every request ends |
| `InvoiceDelivery` | three messages (two of one order, one malformed), two invocations, batches of two; 0.75M states | no processed message lacks its mail, no mailed order lacks its PDF, a message is mailed again only by faults |
| `InvoiceLiveness` | the same with one invocation; 0.06M states | every queued message is processed, dead-lettered or expired |
| `CartConcurrent` | three overlapping requests of one customer with every operation, two products and another id for one of them; checkout's delete and the TTL; 1.97M states | stored carts are valid, within the limit on lines, with two lines of a product only after an aliased add, and hold nothing unasked |
| `CartAlone` | the same, one request at a time and no other writer; 1.22M states | `CartService` implements `AtomicCart` |
| `WebCart` | one tab, two products, two functions under way, three clicks, one fault; 0.98M states | the two carts hold what the tab was told, in one row per product, through expiring tokens and merges; a cart page at rest is current; each unless functions overlapped or an answer was lost |
| `WebCheckout` | one tab, one product with two units and two lines of it, two payments, two visits, one fault; one change of the administrator, to a negative stock among others; 0.59M states | one order per payment and true messages unless an answer was lost; the stock is what was ordered and adjusted, up to the cases section 2 names; orders alone lose no units; no payment stays at "Processing..." |
| `WebOrders` | two orders on two pages, two requests under way, two returns, three clicks, one fault; 1.84M states | a cancellation takes effect on pending orders only, and stays; one active return per order; both pages at rest are current; each up to overlaps and repeated decisions |
| `WebSignIn` | two users, one of them to register, two calls, three clicks, one fault; 2.35M states | codes work once, the newest reset code works, the table shows who is blocked and the details asked for last, the token is of whoever verified last; each up to the overlaps named |
| `WebProfile` | two users, two calls, two saves, one fault; 2.77M states | a profile is shown to and saved by its user only; a form at rest would be stored as what is stored, up to the exceptions named |

Deadlock checking is off where the system stops when its requests have been answered,
its messages settled or its bounds used up. It is on in `WebSignIn` and `WebProfile`,
in which somebody can always sign in or go elsewhere.

`StoredCartsAreValid` is also the type of the carts of `CartService`, and
`InvoicedOrdersExist` is not among the properties of `CheckoutRetry`: `OrderPlacement`,
which `CheckoutPromise` checks, queues existing orders only, and section 5 proves both.

### Bounds

* **Requests and customers.** Two requests contend for any lock and three make
  a cycle with a bystander; a retry needs two of one customer, and a rival needs
  another customer. The email swap needs two tokens of one customer and one of another. The deadlock of key
  and customers row needs two requests of one customer with one key, one of them with a new email;
  the third of `CheckoutLocks` has the new email too and no key, the fourth no email and is refused.
* **Carts.** Two products in both orders (deadlock), two lines of one product (the
  second UPDATE finds what the first left), an absent key, and in `CheckoutPromise` an empty stored
  cart, which checkout treats as an absent one. The stock
  (p1: 3, p2: 1) covers one cart of each kind but not two with p2 or two of two
  units of p1. `CheckoutLocks` has one-line carts, so that requests can
  meet on the customers row, the email and the key alone.
* **`MaxAttempts`** is 1 in two runs and 2 in `CheckoutPromise` (3 are
  deployed): the retry of a send touches nothing the other requests see. The
  proofs hold for any number.
* **`MaxReceive` = 2, `BatchSize` = 2** (5 and 10 deployed): a batch with one
  good and one bad record, a second delivery, and one that would be too many.
  `MaxFaults` is 2 (1 for liveness) and `MaxReplays` 1: enough for a fault in a
  first delivery, in its redelivery, and after a replay. Neither bound is in the code.
* **`MaxItems` = 2, `MaxQuantity` = `ModelMax` = 2** (50 and 99 deployed):
  a cart at its limit, one below, one product too many, one unit too many; two overlapping
  adds both see room for one more line.
* **`Carts`, `TypedStocks`** of `WebCheckout`: no lines, one unit, one unit in each of two
  lines of the product; a negative stock and one above what there is.
* **`Slots`, `Calls`.** Two functions or requests under way are enough for every
  overlap a property excepts, and for a late answer that meets a later click. A page
  reads with the same slots, so that a read can overlap one write.
* **`MaxClicks`, `MaxSaves`, `MaxVisits`, `MaxReturns`, `MaxChanges`** bound what
  people do, of which the code has no bound: three clicks are one to set up, and two that
  overlap; two visits are a payment left and one more; two returns are an active one and a second.
* **`MaxFaults`** = 1 lost answer, failed request or reload in the web modules.
* **`Limit`** = 1 order on a page of the history (5 in the code), so that two orders
  are two pages. **`Buttons`** leaves out "processing" and "cancelled" of the administrator's buttons: the
  first is another state in which nothing may be cancelled or returned, the second
  writes what the customer's cancellation does.
* **`Separately`** (an action constraint of `WebCheckout`'s run) follows the administrator's
  work along with customers who buy one unit, one after the other, without faults, stored carts or edits of
  the page, and everything else without an administrator: the parts it does not combine meet in the stock
  only, which they change by an order either way.
  A page of this run has two units of the product at most, edits nothing after a fault, and opens no form
  once nothing can be changed any more.
* **`Promised`** (a constraint of `WebProfile`'s run) ends a behaviour where nothing is
  promised any more: `ProfilesAreOwn` and `FormsAreCurrent` are then true whatever follows; `TypeOK` is
  proved without it. **`SignedInForTwoSaves`** (an action constraint) has a second save only of one who is
  signed in and stays so: what a save and a change of the session do to each other is seen with one save, what
  two saves do to each other with one session.

## 4. Fairness

* `Checkout!FairSpec`: weak fairness of `Step(r)` for each request. A pod runs
  the coroutine of a request it has accepted; Postgres serves a lock queue
  and breaks deadlocks; the publisher's loop is bounded. Arrivals, edits of
  carts, failures and crashes have no fairness: the request must end without
  their help.
* `InvoicePipeline!FairSpec`: weak fairness of `Handler(w)` (the Lambda runs),
  of the visibility timeout and the redrive of each message, and of receiving
  each visible message (SQS polls as long as the event source mapping is
  enabled). Publishing, replays, expiry and faults have none.
* `WebCheckout!FairSpec`: weak fairness of `Progress(s)`, what a payment under way does
  next: the timer ends, the gateway answers or the request fails, the page runs what follows. Customers and
  the administrator have none: nobody has to click for a payment to end.
* The other web modules have safety properties only.
* The cart has safety properties only: each of its requests is a finite
  sequence of calls.

## 5. What is proved

Every property of section 3 that is not about liveness is a theorem of the
specification, for all values of the constants, and so are the two refinements.
`PROJECT.json` lists the theorems with the properties they state. The assumptions
are the named ASSUMEs of the modules, which TLC evaluates: carts are
well formed, stock and bounds are natural numbers, functions have their types, emails in
the initial mirror are unique, and the values that stand for "none" are distinct from the rest. No
set need be finite: what is counted is finite because only finitely many steps made it.

Hardly any property is inductive as it stands: each holds because
of what a request that has read, and not yet written, still knows. The
invariants (`IInv...` in each module) say what that is, stage by stage; where the
code has no lock the knowledge may be lost, and then the history variable of the
property has the loss on record. The proofs have one shape: one lemma per action,
saying what the step does to that part of the state (or that the step leaves it alone), and a
lemma that what others know is not disturbed by it.

Sums (units sold, ordered, added, mails owed) are cardinalities of sets, of pairs of
an owner and a unit: a step adds or removes finitely many pairs, and no
recursion over a set has to be unfolded.

| Module | Theorem | What makes it inductive |
|---|---|---|
| `CheckoutProofs` | `TypeCorrect`, `InvoicedOrdersExistAlways` | the stage of a request determines what it has read, reserved and sent (`StageOK`) |
| | `NeverOversold` | row locks are exclusive, and every held row has, as long as it is held, the stock its line asks for: the commit decrements without comparing again |
| | `StockIsConserved` | stock and `UnitsSold` change by the same units, in the commit only |
| | `KeysAreUnique` | the key of a flushed order belongs to no other order, flushed or committed, because a flush with that key waits |
| | `MirrorStaysUnique` | the same for the customers row and its email, from the statement that writes it to the commit |
| | `DeadlocksAreExplained` | the stage of a request tells what it holds and can wait for (`StageOK`). Without a wait for stock and without a new email for an existing row: a foreign key waits for nobody, so a key waits for nobody who waits; an INSERT of a customers row whose email is in the index waits for a key only; so nobody in a cycle waits for a row or an email either |
| | `AnswersStayTrue` | who has an answer has ended, and no order or message is ever taken back |
| | `CartsOutliveFailures` (action property) | a cart is deleted in the stage `clear` only, acknowledged or not, which is reached with a message sent |
| | `Refinement` (`ImplementsOrderPlacement`) | a commit is a `Place`, a send is an `Invoice` or a stutter, all else stutters |
| `InvoiceProofs` | `PipelineTypes`, `NoInvoiceIsLost`, `MailIsArchived` | a record of a batch is yet to be tried, listed as failed, or mailed (`BatchOK`); only the last kind is deleted |
| | `DuplicatesAreBudgeted` | mails sent plus mails owed (`Owed`: one per invocation that has yet to try the record, or one for the next delivery) exceed 1 by no more than the faults |
| `CartProofs` | `StoredCartsStayValid` | the cart of a request at the catalog has room for a new line, the cart of a request about to save is valid, whatever the key holds by then; a second line of a product has its aliased add on record (`Aliased`) |
| | `NothingIsUnasked` | an add counts from when it has read the cart, so that every line of what is about to be saved is accounted for like those of what is stored (`Explained`, `Accounted`, line by line) |
| | `AtomicWhenAlone` (`ImplementsAtomicCart`) | assumes `OneAtATime`; what a request has read is what is stored, and what it will save is a result `AtomicCart` allows (`AInv`) |
| `CartPageProofs` | `CartPageTypes`, `UnitsStayUnlessDisturbed` | for a product nobody disturbed: one row at most; a request past its read has that row, and the rows are what the tab was told, or one answer is on its way (`SettledOK`) |
| | `CartPageStaysCurrent` | a page nobody else has changed is being read while nothing changes, or waits for its own change, or rests with what it read (`PageOK`) |
| `PaymentProofs` | `PaymentTypes`, `PaymentsStayTrue` | of a visit that nothing went wrong with, one payment is under way, its page is busy with it, and there is an order from its commit on (`OnePayment`, `OneOrder`) |
| | `StockFollowsOrders` | a row as read tells the stock unless its version has passed (`UpToDate`): who computes a stock knows it or leaves the product `overlapped`; of a product no administrator touched, stock as read and orders known then add up to what there was at least (`AddsUp`, `NoLess`), which later orders only add to |
| `OrdersProofs` | `OrdersTypes`, `CancelledStaysCancelled`, `CommitsFindPending` (action property) | two writes of one order are on record as overlapping; otherwise the status a cancellation read still holds at its commit |
| | `OneReturnIsActive` | what the look-up of active returns found still holds at the insertion, unless the order is overlapped or was decided anew |
| | `HistoryPageIsCurrent`, `AdminPageIsCurrent` | a page that is not behind differs from the gateway by answers on their way only, after which it reads again, and its read under way is served with what is true or has yet to be (`AnswerIsTrue`, `AboutToHear`) |
| `SignInProofs` | `SignInTypes`, `CodesAreUsedOnce`, `NewestCodeStaysValid` | every login has a number of its own; the valid reset code is the last sent, has set no password, and is the one a reset past its check holds, or the user is `raced` |
| | `BlockShownIsCurrent` | a row differs from the account exactly when the one click on it has been committed and not answered |
| | `DetailsFollowClicks`, `TokenIsMeant` | one request for details and one verification at a time, or `mixed` and `late` say so |
| `ProfileProofs` | `ProfileTypes`, `ProfilesStayOwn` | while `trust` lasts, all that the browser holds or waits for is of the user whose session began last, or empty |
| | `FormsStayCurrent` | one save at a time; the cache has the profile, or a save whose answer is on its way, or is known to be stale and will be read again; a form differs from it only as `Stored` forgives (`StoredIs`) |

`AtomicWhenAlone` is the only theorem with a hypothesis of its own:

    OneAtATime == ~Overlap /\ ~OthersWrite /\ MaxQuantity = ModelMax

The first two (one request of a customer at a time; no checkout that deletes the key, and no expiry) are the docstring's "single-customer access", which the code does not
enforce; the run `CartConcurrent` has neither. The third is how the service is
shipped: `add_item` compares a product that is new in the cart with the pydantic bound 99
only, so with a smaller setting the stored cart could exceed what `AtomicCart` promises.

**Only model-checked:** `EveryRequestEnds`, `EveryMessageSettles` and `EveryPaymentEnds`.
Liveness under fairness needs ENABLED, which the installed provers do not support.
The proofs are of the models: that the models are the code is argued
by section 2 and by the line numbers of `PROJECT.json`.

## 6. Where the code and its comments disagree

Met while modelling. Each is in the models as the code does it; no run is made of it.

| The code | The comment or message |
|---|---|
| an order whose publish failed is never published: nothing else sends (`Checkout`) | "invoice will be retried" (`checkout/app/service.py:134`), "Background worker can re-trigger" (`service.py:22`) |
| the same request is answered 502 although its order is committed | "We don't fail the customer's request" (`service.py:131-132`) |
| two concurrent tries with one key, one of them with a changed email, can deadlock although they share no stock: one of them gets a 500 (`CheckoutLocks`) | - |
| a DEL that Redis executed but did not acknowledge leaves the customer with an error and an empty cart; the order is made | - |
| of two concurrent tries with one key the second gets a 500 from the unique index | "Same key from the same customer = same order returned" (`checkout/app/models.py:12`) |
| a key another customer has used makes a checkout fail: the lookup is by customer and key, the index by key alone | the same sentence |
| a save that overlaps checkout's delete brings the ordered cart back (`CartService`) | "This is fine for shopping carts (small, single-customer access)" (`cart/app/repository.py:4-5`) |
| the handler ends at step 4, the invoice row stays `queued` | "Update the invoice row in RDS" (`invoice-worker/src/handler.py:8`) |
| an id that the catalog's URL reads as another makes a second line of a product (`catalog_client.py:34`, `routes.py:70-73`) | - |
| two lines of one product are compared with the stock one by one, and `max(0, ...)` drops the excess: the gateway sells what it has not | "Inventory validation and deduction" (`routes/orders.py:167`) |
| neither the form nor `ProductIn` refuses a negative stock (`updateProductPage.jsx`, `routes/products.py:32`) | - |
| a cancellation answered during a read that was served before its commit is not followed by a read: the page says Pending | "Order cancelled successfully" (`ordersHistoryPage.jsx`) |
| a page turn whose read fails shows the former orders under the new number (`ordersHistoryPage.jsx:73-79`) | - |
| cleared names are not stored and not filled in again; on the settings an old name sent along wins (`routes/users.py:279-285`, `useUserQueries.js:49`) | - |
| without a network the profile page shows a blank form, which can be saved when the network is back (`useUserQueries.js:26`) | - |
| the gateway's call to checkout carries no bearer token and is always refused (`routes/orders.py:211-223`) | - |
| `Cancel` of the profile page names `handleCancel` without calling it: what was typed stays (`clientProfilePage.jsx:164`, `WebProfile`) | `handleCancel` (lines 83-86) resets the form |
| the profile page sends `currentPassword` and `newPassword`, neither of which the gateway's `UpdateMeIn` has: nothing is stored | "Password Updated Sucessfully" (`useUserQueries.js:74`) |
| a save of the settings before they are loaded stores an empty phone and image; one that fails leaves no original data, and the next `Cancel` throws (`settingAdminPage.jsx:78-94`, `WebProfile`) | - |
| `cacheTime` is an option of version 4; version 5 of the query library, which is installed, keeps its default | `App.jsx:21` |
| the table of products has no `catch`: a read that fails shows the spinner for ever (`productsAdminPage.jsx:39`) | - |

## 7. Not modelled

* Prices, totals, currencies, names, PDF layout, mail text, logs, dashboards: data
  that no property distinguishes.
* Health checks, settings, middleware, error bodies: stateless.
* Terraform, manifests, policies, workflows: configuration. The queue's settings
  are constants of `InvoicePipeline`.
* Order status (written by the admin service) and invoice status (written by nobody) in
  checkout's database.
* The catalog: a cache with a time to live over reads. What can go wrong is a stale
  entry, bounded by a clock; the cart model takes any answer of it.
* The admin service: single-row edits without a condition. The pages of
  customer-web call the gateway's handlers instead, which are modelled.
* Token verification and the auth service: a key cache refreshed by the clock, and
  redirects to Cognito, whose behaviour is not in the repository. The models start from a
  verified caller, or from a token that is valid or is not.
* Of the gateway: categories, reviews, the dashboard's reports, images and mails (no
  behaviour spans two requests), creating products, deleting users, rows made from the claims of
  a Cognito token, the seed.
* Of customer-web: pages that only show (home, products, overview of a dashboard, my orders), the
  review and category pages, adding a product, uploads; the change of a password, which
  the gateway does not store.

## 8. Plan

Done: (1) `CartLines`, `Checkout`, `OrderPlacement`, `CheckoutProofs`;
(2) `InvoicePipeline`, `InvoiceProofs`; (3) `CartService`, `AtomicCart`, `CartProofs`;
(4) `WebCart`, `WebCheckout`, `WebOrders`, `WebSignIn`, `WebProfile` and their proofs.
Every safety property and both refinements are proved.

To come:

* stronger statements about what is there: the units of a product in the cart when requests
  take turns, as a corollary of `AtomicWhenAlone`; that no two checkouts of disjoint
  carts, customers and keys ever wait for each other;
* shorter proofs: the lemmas about one slot, one call or one page that several modules state
  for themselves (`CallKinds`, `SlotSet`) differ by the records only.

Larger modelling steps, should the code grow: `CatalogCache` (bounded staleness of a
cache entry), a composition of `CartService`, `Checkout` and `InvoicePipeline` over
the shared key and queue.
