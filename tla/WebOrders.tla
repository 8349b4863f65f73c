------------------------------ MODULE WebOrders ------------------------------
(* Orders after they are made: the history page of their customer (with its   *)
(* cancel dialogue and return form), the administrator's orders page, and the *)
(* gateway's handlers. Each page shows what it last read; each handler reads  *)
(* a row, checks it, and commits later.                                       *)
EXTENDS Integers, FiniteSets, Sequences

CONSTANTS
  MaxOrders,    \* the orders are 1 .. MaxOrders, the newest first
  Limit,        \* orders on a page of the history (5)
  Buttons,      \* the status buttons considered
  Slots,        \* as many requests may be under way at a time (bound)
  MaxReturns,   \* bound on return requests
  MaxClicks,    \* bound on clicks that write
  MaxFaults     \* bound on requests or answers that fail

AllButtons == {"pending", "processing", "shipped", "delivered", "cancelled"}
Decisions == {"approved", "rejected", "received"}

ASSUME OrdersAssumption ==
  /\ MaxOrders \in Nat \ {0} /\ Limit \in Nat \ {0}
  /\ Buttons \subseteq AllButtons
  /\ MaxReturns \in Nat /\ MaxClicks \in Nat /\ MaxFaults \in Nat

VARIABLES
  status,      \* the gateway's orders
  returns,     \* the gateway's return requests, in order of creation
  history,     \* the customer's page
  admin,       \* the administrator's page
  call,        \* the requests under way
  cancelTold,  \* history: orders the customer was told are cancelled, and no
               \* administrator has written since
  overlapped,  \* history: orders two writes of which overlapped
  reopened,    \* history: orders with a return request decided more than once
  clicks, faults

vars == <<status, returns, history, admin, call, cancelTold, overlapped, reopened, clicks, faults>>
Gateway == <<status, returns>>
Histories == <<cancelTold, overlapped, reopened>>

Orders == 1 .. MaxOrders
Pages == 1 .. (MaxOrders + Limit - 1) \div Limit
PageOf(n) == {o \in Orders : (n - 1) * Limit < o /\ o <= n * Limit}

\* normalizeStatus of the history page; the switch of my-orders page says the same.
Badge(s) == CASE s \in {"completed", "delivered"} -> "Delivered"
              [] s \in {"cancelled", "returned"} -> "Closed"
              [] s \in {"shipped", "processing", "confirmed"} -> "Underway"
              [] OTHER -> "Pending"

Idle == [kind |-> "idle"]
Busy == {s \in Slots : call[s].kind # "idle"}
Free == Slots \ Busy
Writers == {s \in Busy : call[s].kind \in {"cancel", "return", "status", "decide"}}

HistoryLoad(n) == [kind |-> "history", page |-> n, stage |-> "sent", saw |-> <<>>]
AdminLoad == [kind |-> "admin", stage |-> "sent", todo |-> {"orders", "returns"}, saw |-> <<>>, sawReturns |-> <<>>]

Init ==
  /\ status = [o \in Orders |-> "pending"]
  /\ returns = <<>>
  /\ history = [page |-> 1, loading |-> TRUE, shown |-> <<>>, modal |-> 0, behind |-> FALSE]
  /\ admin = [loading |-> TRUE, shown |-> <<>>, returns |-> <<>>, behind |-> FALSE]
  /\ \E s, x \in Slots : s # x /\ call = [y \in Slots |-> IF y = s THEN HistoryLoad(1)
                                                    ELSE IF y = x THEN AdminLoad ELSE Idle]
  /\ cancelTold = {} /\ overlapped = {} /\ reopened = {}
  /\ clicks = 0 /\ faults = 0

------------------------------------------------------------------------------
(* Clicks. A page is "behind" when what it shows may be out of date for a     *)
(* reason it cannot know: the history page until its next read once the       *)
(* administrator has written, a read or the answer to a commit has failed, or *)
(* a cancellation was committed after the read under way; the administrator's *)
(* page once a customer has written, two reads overlap, or a call has failed. *)

\* A request that writes order o is sent.
Write(s, c) ==
  /\ clicks < MaxClicks /\ clicks' = clicks + 1
  /\ call' = [call EXCEPT ![s] = c]
  /\ overlapped' = IF \E x \in Writers : call[x].order = c.order THEN overlapped \union {c.order} ELSE overlapped
  /\ UNCHANGED <<status, returns, faults>>

\* The orders listed are those last read, which after a failed read are not of the page shown.
Shows(o) == o \in DOMAIN history.shown /\ ~history.loading

\* "Cancel Order" of a pending order opens the dialogue.
OpenModal(o) ==
  /\ Shows(o) /\ history.shown[o] = "pending" /\ history.modal = 0
  /\ history' = [history EXCEPT !.modal = o]
  /\ UNCHANGED <<Gateway, admin, call, Histories, clicks, faults>>

\* "Back" and the cross; the reason is forgotten with the dialogue.
CloseModal ==
  /\ history.modal # 0 /\ ~history.loading
  /\ history' = [history EXCEPT !.modal = 0]
  /\ UNCHANGED <<Gateway, admin, call, Histories, clicks, faults>>

\* "Confirm Cancel", enabled once a reason is chosen or written.
ConfirmCancel ==
  /\ history.modal # 0 /\ ~history.loading
  /\ \E s \in Free : Write(s, [kind |-> "cancel", order |-> history.modal, stage |-> "sent"])
  /\ admin' = [admin EXCEPT !.behind = TRUE]
  /\ UNCHANGED <<history, cancelTold, reopened>>

\* The form under a delivered order, once a reason is written.
RequestReturn(o) ==
  /\ Shows(o) /\ Badge(history.shown[o]) = "Delivered" /\ history.modal = 0
  /\ \E s \in Free : Write(s, [kind |-> "return", order |-> o, stage |-> "sent"])
  /\ admin' = [admin EXCEPT !.behind = TRUE]
  /\ UNCHANGED <<history, cancelTold, reopened>>

\* Fault: the paginator can be reached while the dialogue is open.
MayTurnAnyhow == ~history.loading /\ history.shown # <<>>
\* Until a first read has told how many there are, there is one page.
MayTurn == ~history.loading /\ history.shown # <<>> /\ history.modal = 0

\* Previous and Next; the whole page gives way to a loader.
TurnPage(n) ==
  /\ MayTurn /\ n \in Pages /\ n \in {history.page - 1, history.page + 1}
  /\ \E s \in Free : call' = [call EXCEPT ![s] = HistoryLoad(n)]
  /\ history' = [history EXCEPT !.page = n, !.loading = TRUE]
  /\ UNCHANGED <<Gateway, admin, Histories, clicks, faults>>

\* A status button of the administrator.
UpdateStatus(o, to) ==
  /\ ~admin.loading /\ admin.shown # <<>>
  /\ \E s \in Free : Write(s, [kind |-> "status", order |-> o, to |-> to, stage |-> "sent"])
  /\ UNCHANGED <<history, admin, cancelTold, reopened>>

\* Approve, Reject and Received of the administrator.
UpdateReturn(i, to) ==
  /\ ~admin.loading /\ i \in DOMAIN admin.returns
  /\ \E s \in Free :
       Write(s, [kind |-> "decide", order |-> admin.returns[i].order, return |-> i, to |-> to, stage |-> "sent"])
  /\ UNCHANGED <<history, admin, cancelTold, reopened>>

------------------------------------------------------------------------------
(* The gateway                                                                *)

Answer(s, stage) == [call EXCEPT ![s].stage = stage]
At(s, kind, stage) == call[s].kind = kind /\ call[s].stage = stage

ReadHistory(s) ==
  /\ At(s, "history", "sent")
  /\ call' = [call EXCEPT ![s].stage = "ok", ![s].saw = [o \in PageOf(call[s].page) |-> status[o]]]
  /\ history' = [history EXCEPT !.behind = FALSE]
  /\ UNCHANGED <<Gateway, admin, Histories, clicks, faults>>

\* The two reads of loadData, in any order.
ReadForAdmin(s) ==
  /\ At(s, "admin", "sent")
  /\ \E part \in call[s].todo :
       call' = [call EXCEPT ![s].todo = @ \ {part}, ![s].stage = IF call[s].todo = {part} THEN "ok" ELSE "sent",
                            ![s].saw = IF part = "orders" THEN status ELSE @,
                            ![s].sawReturns = IF part = "returns" THEN returns ELSE @]
  /\ UNCHANGED <<Gateway, history, admin, Histories, clicks, faults>>

\* Fault: the gateway cancels whatever the page asks it to.
CancellableAny(o) == TRUE
\* Customers can only cancel their own pending orders.
Cancellable(o) == status[o] = "pending"

\* update_order_status for the customer: read and check ...
CheckCancel(s) ==
  /\ At(s, "cancel", "sent")
  /\ call' = Answer(s, IF Cancellable(call[s].order) THEN "read" ELSE "refused")
  /\ UNCHANGED <<Gateway, history, admin, Histories, clicks, faults>>

\* ... and commit.
CommitCancel(s) ==
  /\ At(s, "cancel", "read")
  /\ status' = [status EXCEPT ![call[s].order] = "cancelled"]
  /\ call' = Answer(s, "ok")
  /\ history' = IF \E x \in Slots : At(x, "history", "ok") THEN [history EXCEPT !.behind = TRUE] ELSE history
  /\ UNCHANGED <<returns, admin, Histories, clicks, faults>>

\* update_order_status for the administrator, who may set any status; a status
\* that was read already is not written again.
ReadForStatus(s) ==
  /\ At(s, "status", "sent")
  /\ call' = Answer(s, IF status[call[s].order] = call[s].to THEN "unchanged" ELSE "read")
  /\ UNCHANGED <<Gateway, history, admin, Histories, clicks, faults>>

CommitStatus(s) ==
  /\ call[s].kind = "status" /\ call[s].stage \in {"read", "unchanged"}
  /\ IF call[s].stage = "read"
     THEN /\ status' = [status EXCEPT ![call[s].order] = call[s].to]
          /\ cancelTold' = cancelTold \ {call[s].order}
          /\ history' = [history EXCEPT !.behind = TRUE]
     ELSE UNCHANGED <<status, cancelTold, history>>
  /\ call' = Answer(s, "ok")
  /\ UNCHANGED <<returns, admin, overlapped, reopened, clicks, faults>>

ActiveReturns(o) == {i \in DOMAIN returns : returns[i].order = o /\ returns[i].status \in {"requested", "approved"}}

\* Fault: only an approved return request counts.
MayReturnAgain(o) == \A i \in ActiveReturns(o) : returns[i].status # "approved"
\* There is no active request.
MayReturn(o) == ActiveReturns(o) = {}

\* create_return_request looks for an active request; two of them raise.
CheckReturn(s) ==
  LET o == call[s].order IN
  /\ At(s, "return", "sent")
  /\ call' = Answer(s, IF Badge(status[o]) = "Delivered" /\ MayReturn(o) THEN "read" ELSE "refused")
  /\ UNCHANGED <<Gateway, history, admin, Histories, clicks, faults>>

InsertReturn(s) ==
  /\ At(s, "return", "read") /\ Len(returns) < MaxReturns
  /\ returns' = Append(returns, [order |-> call[s].order, status |-> "requested"])
  /\ call' = Answer(s, "ok")
  /\ UNCHANGED <<status, history, admin, Histories, clicks, faults>>

\* update_return_request_status does not ask which status there is; one that
\* was read already is not written again.
ReadDecision(s) ==
  /\ At(s, "decide", "sent")
  /\ call' = Answer(s, IF returns[call[s].return].status = call[s].to THEN "unchanged" ELSE "read")
  /\ UNCHANGED <<Gateway, history, admin, Histories, clicks, faults>>

CommitDecision(s) ==
  LET i == call[s].return IN
  /\ call[s].kind = "decide" /\ call[s].stage \in {"read", "unchanged"}
  /\ IF call[s].stage = "read"
     THEN /\ returns' = [returns EXCEPT ![i].status = call[s].to]
          /\ reopened' = IF returns[i].status = "requested" THEN reopened ELSE reopened \union {call[s].order}
     ELSE UNCHANGED <<returns, reopened>>
  /\ call' = Answer(s, "ok")
  /\ UNCHANGED <<status, history, admin, cancelTold, overlapped, clicks, faults>>

\* A request that is not served, or an answer that is lost. The administrator's
\* pages and the customer's learn of a failure, not of what was done.
Fail(s) ==
  /\ faults < MaxFaults /\ s \in Busy /\ call[s].stage # "failed"
  /\ call' = Answer(s, "failed")
  /\ faults' = faults + 1
  /\ history' = IF call[s].kind = "history" \/ At(s, "cancel", "ok") THEN [history EXCEPT !.behind = TRUE]
                ELSE history
  /\ admin' = IF call[s].kind \in {"admin", "status", "decide"} THEN [admin EXCEPT !.behind = TRUE] ELSE admin
  /\ UNCHANGED <<Gateway, Histories, clicks>>

------------------------------------------------------------------------------
(* What the pages do with the answers                                         *)

Done(s, kind) == call[s].kind = kind /\ call[s].stage \in {"ok", "refused", "failed"}
Over(s) == [call EXCEPT ![s] = Idle]

\* An error leaves the orders listed before, under the number of the new page.
FinishHistory(s) ==
  /\ Done(s, "history")
  /\ history' = [history EXCEPT !.loading = FALSE, !.shown = IF call[s].stage = "ok" THEN call[s].saw ELSE @]
  /\ call' = Over(s)
  /\ UNCHANGED <<Gateway, admin, Histories, clicks, faults>>

\* Fault: the page is not read again.
ReloadsNever == FALSE
\* setIsLoading(true) starts a read; while one is under way it changes nothing.
Reloads == ~history.loading

\* Fault: a refusal is taken for a success.
SucceededAlways(s) == call[s].stage # "failed"
Succeeded(s) == call[s].stage = "ok"

\* The dialogue is closed and the page read again; a failure leaves both.
FinishCancel(s) ==
  /\ Done(s, "cancel")
  /\ IF Succeeded(s)
     THEN /\ call' = IF Reloads THEN [call EXCEPT ![s] = HistoryLoad(history.page)] ELSE Over(s)
          /\ history' = [history EXCEPT !.modal = 0, !.loading = @ \/ Reloads]
          /\ cancelTold' = cancelTold \union {call[s].order}
     ELSE /\ call' = Over(s)
          /\ UNCHANGED <<history, cancelTold>>
  /\ UNCHANGED <<Gateway, admin, overlapped, reopened, clicks, faults>>

\* Only messages.
FinishReturn(s) ==
  /\ Done(s, "return")
  /\ call' = Over(s)
  /\ UNCHANGED <<Gateway, history, admin, Histories, clicks, faults>>

\* loadData after a success; it does not cancel one under way.
FinishWrite(s) ==
  /\ Done(s, "status") \/ Done(s, "decide")
  /\ IF call[s].stage = "ok"
     THEN /\ call' = [call EXCEPT ![s] = AdminLoad]
          /\ admin' = [admin EXCEPT !.loading = TRUE, !.behind = \E x \in Busy \ {s} : call[x].kind # "history"]
     ELSE call' = Over(s) /\ UNCHANGED admin
  /\ UNCHANGED <<Gateway, history, Histories, clicks, faults>>

\* Fault: the return requests are not stored.
TablesWithoutReturns(c) == [admin EXCEPT !.loading = FALSE, !.shown = c.saw]
\* Both tables, once both answers are there.
Tables(c) == [admin EXCEPT !.loading = FALSE, !.shown = c.saw, !.returns = c.sawReturns]

FinishAdmin(s) ==
  /\ Done(s, "admin")
  /\ admin' = IF call[s].stage = "ok" THEN Tables(call[s]) ELSE [admin EXCEPT !.loading = FALSE]
  /\ call' = Over(s)
  /\ UNCHANGED <<Gateway, history, Histories, clicks, faults>>

Next ==
  \/ \E o \in Orders : OpenModal(o) \/ RequestReturn(o) \/ \E to \in Buttons : UpdateStatus(o, to)
  \/ CloseModal \/ ConfirmCancel
  \/ \E n \in Pages : TurnPage(n)
  \/ \E i \in 1 .. MaxReturns, to \in Decisions : UpdateReturn(i, to)
  \/ \E s \in Slots :
       \/ ReadHistory(s) \/ ReadForAdmin(s) \/ CheckCancel(s) \/ CommitCancel(s) \/ ReadForStatus(s)
       \/ CommitStatus(s) \/ CheckReturn(s) \/ InsertReturn(s) \/ ReadDecision(s) \/ CommitDecision(s)
       \/ Fail(s) \/ FinishHistory(s) \/ FinishCancel(s) \/ FinishReturn(s) \/ FinishWrite(s) \/ FinishAdmin(s)

Spec == Init /\ [][Next]_vars

------------------------------------------------------------------------------
Statuses == AllButtons
ReturnRecord == [order: Orders, status: {"requested"} \union Decisions]

\* Every variable has its type; the orders listed are those of one page, and a
\* dialogue is open for one of them.
TypeOK ==
  /\ status \in [Orders -> Statuses]
  /\ returns \in Seq(ReturnRecord) /\ Len(returns) <= MaxReturns
  /\ history.page \in Pages /\ history.loading \in BOOLEAN /\ history.behind \in BOOLEAN
  /\ history.shown = <<>> \/ \E n \in Pages : history.shown \in [PageOf(n) -> Statuses]
  /\ history.modal # 0 => Shows(history.modal)
  /\ admin.loading \in BOOLEAN /\ admin.returns \in Seq(ReturnRecord)
  /\ cancelTold \subseteq Orders /\ overlapped \subseteq Orders /\ reopened \subseteq Orders
  /\ clicks \in 0 .. MaxClicks /\ faults \in 0 .. MaxFaults

\* "Order cancelled successfully" stays so until an administrator writes the
\* order, unless the two wrote it at the same time (handleCancelOrder,
\* update_order_status).
CancelledIsCancelled ==
  \A o \in cancelTold \ overlapped : status[o] = "cancelled"

\* A cancellation of the customer takes effect on a pending order only; nothing
\* is said of an order once two writes of it were under way at a time, the
\* later cancellations of it included (update_order_status).
CancelsOnlyPending ==
  [][\A s \in Slots : CommitCancel(s) =>
       status[call[s].order] = "pending" \/ call[s].order \in overlapped]_vars

\* An order has one active return request, without which every later look-up
\* raises, unless two requests overlapped or a decided one was decided again
\* (create_return_request, update_return_request_status).
OneActiveReturn ==
  \A o \in Orders \ (overlapped \union reopened) : Cardinality(ActiveReturns(o)) <= 1

\* With no cancellation under way, a history page at rest lists the orders of
\* its page with their badges, unless since its last read began the
\* administrator wrote an order, a read or the answer to a cancellation failed,
\* or a cancellation was committed after the gateway had served the read still
\* under way: a page that is being read is not read again (handleCancelOrder
\* and the effect of OrdersHistoryPage).
HistoryIsCurrent ==
  (\A s \in Slots : call[s].kind # "cancel") /\ ~history.loading /\ ~history.behind =>
    /\ DOMAIN history.shown = PageOf(history.page)
    /\ \A o \in PageOf(history.page) : Badge(history.shown[o]) = Badge(status[o])

\* An administrator's page at rest shows both tables as they are, unless a
\* customer, an overlap of two reads or a failure came in between (loadData).
AdminTablesAreCurrent ==
  Busy = {} /\ ~admin.loading /\ ~admin.behind => admin.shown = status /\ admin.returns = returns
==============================================================================
