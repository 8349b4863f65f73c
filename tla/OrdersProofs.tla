---------------------------- MODULE OrdersProofs ----------------------------
(***************************************************************************)
(* Theorems about WebOrders, for every number of orders, requests under    *)
(* way, clicks and failures.                                               *)
(***************************************************************************)
EXTENDS WebOrders, FiniteSetTheorems, SequenceTheorems, TLAPS

\* What the administrator's page has of the orders: nothing yet, or the status of each.
Shown == {<<>>} \union [Orders -> Statuses]
\* What the history page has of them: nothing yet, or the statuses of one of its pages.
Listed == {<<>>} \union UNION {[PageOf(n) -> Statuses] : n \in Pages}
\* The gateway's answer to the history page.
List(n) == [o \in PageOf(n) |-> status[o]]

HistoryPage ==
  [page: Pages, loading: BOOLEAN, shown: Listed, modal: {0} \union Orders, behind: BOOLEAN]
AdminPage == [loading: BOOLEAN, shown: Shown, returns: Seq(ReturnRecord), behind: BOOLEAN]

\* The requests under way, by kind.
HistoryCalls == [kind: {"history"}, page: Pages, stage: {"sent", "ok", "failed"}, saw: Listed]
AdminCalls ==
  [kind: {"admin"}, stage: {"sent", "ok", "failed"}, todo: SUBSET {"orders", "returns"},
   saw: Shown, sawReturns: Seq(ReturnRecord)]
CheckedStages == {"sent", "read", "ok", "refused", "failed"}
CancelCalls == [kind: {"cancel"}, order: Orders, stage: CheckedStages]
ReturnCalls == [kind: {"return"}, order: Orders, stage: CheckedStages]
StatusCalls ==
  [kind: {"status"}, order: Orders, to: Buttons,
   stage: {"sent", "read", "unchanged", "ok", "failed"}]
DecideCalls ==
  [kind: {"decide"}, order: Orders, return: 1 .. MaxReturns, to: Decisions,
   stage: {"sent", "read", "unchanged", "ok", "failed"}]
Calls ==
  {Idle} \union HistoryCalls \union AdminCalls \union CancelCalls \union ReturnCalls
    \union StatusCalls \union DecideCalls

WriteKinds == {"cancel", "return", "status", "decide"}

Typed ==
  /\ status \in [Orders -> Statuses]
  /\ returns \in Seq(ReturnRecord) /\ Len(returns) <= MaxReturns
  /\ history \in HistoryPage /\ (history.modal # 0 => Shows(history.modal))
  /\ admin \in AdminPage
  /\ call \in [Slots -> Calls]
  /\ cancelTold \subseteq Orders /\ overlapped \subseteq Orders /\ reopened \subseteq Orders
  /\ clicks \in 0 .. MaxClicks /\ faults \in 0 .. MaxFaults

\* Two writes of one order are under way only if they are on record as overlapping.
WritersApart ==
  \A s, x \in Slots :
    call[s].kind \in WriteKinds /\ call[x].kind \in WriteKinds /\ s # x
      /\ call[s].order = call[x].order => call[s].order \in overlapped

\* What a cancellation read still holds at its commit, and what it committed at its answer.
CancelsKnow ==
  \A s \in Slots : call[s].kind = "cancel" /\ call[s].order \notin overlapped =>
    /\ call[s].stage = "read" => status[call[s].order] = "pending"
    /\ call[s].stage = "ok" => status[call[s].order] = "cancelled"

\* Return requests are only ever added: what a page knows of one names its order.
Known(rs) == Len(rs) <= Len(returns) /\ \A i \in 1 .. Len(rs) : rs[i].order = returns[i].order
ReturnsKept ==
  /\ Known(admin.returns)
  /\ \A s \in Slots :
       /\ call[s].kind = "admin" => Known(call[s].sawReturns)
       /\ call[s].kind = "decide" =>
            call[s].return \in 1 .. Len(returns) /\ returns[call[s].return].order = call[s].order

\* What the look-up of active return requests found still holds at the insertion.
Active(i, o) == returns[i].order = o /\ returns[i].status \in {"requested", "approved"}
ReturnsKnow ==
  /\ \A o \in Orders \ (overlapped \union reopened) :
       \A i, j \in 1 .. Len(returns) : Active(i, o) /\ Active(j, o) => i = j
  /\ \A s \in Slots :
       call[s].kind = "return" /\ call[s].stage = "read" /\ call[s].order \notin overlapped =>
         \A i \in 1 .. Len(returns) : ~Active(i, call[s].order)

\* The history page reads one page at a time, its own, and only while it shows a loader.
HistoryReads ==
  /\ \A s, x \in Slots : call[s].kind = "history" /\ call[x].kind = "history" => s = x
  /\ history.loading <=> \E s \in Slots : call[s].kind = "history"
  /\ \A s \in Slots : call[s].kind = "history" => call[s].page = history.page

\* Unless it is behind, what the history page is about to show is what the
\* gateway has, and what it shows differs from that only by cancellations that
\* are about to be answered.
AnswerIsTrue(s) ==
  call[s].kind = "history" =>
    /\ call[s].stage # "failed"
    /\ call[s].stage = "ok" => call[s].saw = List(history.page)
AboutToHear(o) == \E s \in Slots : call[s].kind = "cancel" /\ call[s].order = o /\ call[s].stage = "ok"
HistoryTrue ==
  ~history.behind =>
    /\ \A s \in Slots : AnswerIsTrue(s)
    /\ ~history.loading =>
         /\ DOMAIN history.shown = PageOf(history.page)
         /\ \A o \in PageOf(history.page) : history.shown[o] = status[o] \/ AboutToHear(o)

\* Unless they are behind, the administrator's tables are what the gateway has,
\* are being read, or are about to be read again; nothing is written meanwhile.
AdminTrue ==
  ~admin.behind =>
    /\ \A s \in Slots :
         /\ call[s].kind \notin {"cancel", "return"}
         /\ call[s].kind \in {"admin", "status", "decide"} => call[s].stage # "failed"
    /\ \A s, x \in Slots : call[s].kind = "admin" /\ call[x].kind = "admin" => s = x
    /\ admin.loading <=> \E s \in Slots : call[s].kind = "admin"
    /\ admin.loading =>
         \A s \in Slots :
           /\ call[s].kind \notin WriteKinds
           /\ call[s].kind = "admin" =>
                /\ "orders" \notin call[s].todo => call[s].saw = status
                /\ "returns" \notin call[s].todo => call[s].sawReturns = returns
                /\ call[s].stage = "ok" => call[s].todo = {}
    /\ ~admin.loading =>
         \/ admin.shown = status /\ admin.returns = returns
         \/ \E s \in Slots : call[s].kind \in {"status", "decide"} /\ call[s].stage = "ok"

IInv ==
  /\ Typed
  /\ WritersApart /\ CancelsKnow /\ CancelledIsCancelled
  /\ ReturnsKept /\ ReturnsKnow
  /\ HistoryReads /\ HistoryTrue /\ AdminTrue

-----------------------------------------------------------------------------
(* Requests and their stages.                                                *)

\* The kind of a request tells its fields.
LEMMA CallKinds ==
  ASSUME NEW c \in Calls
  PROVE  /\ c.kind \in {"idle", "history", "admin"} \union WriteKinds
         /\ c.kind = "idle" => c = Idle
         /\ c.kind = "history" => c \in HistoryCalls
         /\ c.kind = "admin" => c \in AdminCalls
         /\ c.kind = "cancel" => c \in CancelCalls
         /\ c.kind = "return" => c \in ReturnCalls
         /\ c.kind = "status" => c \in StatusCalls
         /\ c.kind = "decide" => c \in DecideCalls
BY DEF Calls, Idle, HistoryCalls, AdminCalls, CancelCalls, ReturnCalls, StatusCalls,
       DecideCalls, WriteKinds

\* Every request on an order that is written names an order.
LEMMA WritesHaveOrders ==
  ASSUME NEW c \in Calls, c.kind \in WriteKinds
  PROVE  c.order \in Orders
BY CallKinds DEF WriteKinds, CancelCalls, ReturnCalls, StatusCalls, DecideCalls

\* What an answer or a failure leaves of a request.
LEMMA Answered ==
  ASSUME NEW c \in Calls, NEW st,
         \/ c.kind \in {"cancel", "return"} /\ st \in CheckedStages
         \/ c.kind = "status" /\ st \in {"read", "unchanged", "ok"}
         \/ c.kind = "decide" /\ st \in {"read", "unchanged", "ok"}
         \/ c.kind # "idle" /\ st = "failed"
  PROVE  LET d == [c EXCEPT !.stage = st]
         IN  /\ d \in Calls /\ d.kind = c.kind /\ d.stage = st
             /\ d.kind \in WriteKinds => d.order = c.order
             /\ d.kind = "admin" =>
                  d.todo = c.todo /\ d.saw = c.saw /\ d.sawReturns = c.sawReturns
             /\ d.kind = "decide" => d.return = c.return
             /\ d.kind = "history" => d.page = c.page /\ d.saw = c.saw
<1> DEFINE d == [c EXCEPT !.stage = st]
<1>1. CASE c \in HistoryCalls
  BY <1>1 DEF Calls, HistoryCalls, WriteKinds
<1>2. CASE c \in AdminCalls
  BY <1>2 DEF Calls, AdminCalls, WriteKinds
<1>3. CASE c \in CancelCalls
  BY <1>3 DEF Calls, CancelCalls, WriteKinds, CheckedStages
<1>4. CASE c \in ReturnCalls
  BY <1>4 DEF Calls, ReturnCalls, WriteKinds, CheckedStages
<1>5. CASE c \in StatusCalls
  BY <1>5 DEF Calls, StatusCalls, WriteKinds
<1>6. CASE c \in DecideCalls
  BY <1>6 DEF Calls, DecideCalls, WriteKinds
<1>7. CASE c = Idle
  BY <1>7 DEF Idle
<1> QED
  BY <1>1, <1>2, <1>3, <1>4, <1>5, <1>6, <1>7 DEF Calls

\* The same, of the request of a slot.
LEMMA SlotAnswered ==
  ASSUME Typed, NEW s \in Slots, NEW st, call' = Answer(s, st),
         \/ call[s].kind \in {"cancel", "return"} /\ st \in CheckedStages
         \/ call[s].kind = "status" /\ st \in {"read", "unchanged", "ok"}
         \/ call[s].kind = "decide" /\ st \in {"read", "unchanged", "ok"}
         \/ call[s].kind # "idle" /\ st = "failed"
  PROVE  /\ call' \in [Slots -> Calls]
         /\ \A x \in Slots \ {s} : call'[x] = call[x]
         /\ call'[s].kind = call[s].kind /\ call'[s].stage = st
         /\ call'[s].kind \in WriteKinds => call'[s].order = call[s].order
         /\ call'[s].kind = "admin" =>
              /\ call'[s].todo = call[s].todo /\ call'[s].saw = call[s].saw
              /\ call'[s].sawReturns = call[s].sawReturns
         /\ call'[s].kind = "decide" => call'[s].return = call[s].return
         /\ call'[s].kind = "history" =>
              call'[s].page = call[s].page /\ call'[s].saw = call[s].saw
<1>1. call \in [Slots -> Calls] /\ call[s] \in Calls
  BY DEF Typed
<1>2. /\ call'[s] = [call[s] EXCEPT !.stage = st]
      /\ call' = [call EXCEPT ![s] = [call[s] EXCEPT !.stage = st]]
  BY <1>1 DEF Answer
<1>3. LET d == [call[s] EXCEPT !.stage = st]
      IN  /\ d \in Calls /\ d.kind = call[s].kind /\ d.stage = st
          /\ d.kind \in WriteKinds => d.order = call[s].order
          /\ d.kind = "admin" =>
               d.todo = call[s].todo /\ d.saw = call[s].saw /\ d.sawReturns = call[s].sawReturns
          /\ d.kind = "decide" => d.return = call[s].return
          /\ d.kind = "history" => d.page = call[s].page /\ d.saw = call[s].saw
  BY <1>1, Answered
<1> QED
  BY <1>1, <1>2, <1>3

\* A slot given another request.
LEMMA SlotSet ==
  ASSUME Typed, NEW s \in Slots, NEW c \in Calls, call' = [call EXCEPT ![s] = c]
  PROVE  /\ call' \in [Slots -> Calls]
         /\ call'[s] = c /\ \A x \in Slots \ {s} : call'[x] = call[x]
BY DEF Typed

-----------------------------------------------------------------------------
(* One lemma per action: first what the action does, then each part of the   *)
(* invariant.                                                                *)

\* The check of a cancellation.
LEMMA CheckCancelKeeps ==
  ASSUME IInv, NEW s \in Slots, CheckCancel(s)
  PROVE  IInv'
<1>1. /\ call[s].kind = "cancel" /\ call[s].stage \in {"sent"}
      /\ call' \in [Slots -> Calls] /\ \A x \in Slots \ {s} : call'[x] = call[x]
      /\ call'[s].kind = call[s].kind /\ call'[s].order = call[s].order
      /\ call'[s].stage \in {"read", "refused"}
      /\ call'[s].stage = "read" => status[call[s].order] = "pending"
      /\ UNCHANGED <<status, returns, history, admin, cancelTold, overlapped, reopened, clicks,
                     faults>>
  <2>1. PICK st \in {"read", "refused"} : call' = Answer(s, st) /\ (st = "read" => Cancellable(call[s].order))
    BY DEF CheckCancel
  <2> QED
    BY <2>1, SlotAnswered DEF IInv, CheckCancel, At, Gateway, Histories, WriteKinds,
                          CheckedStages, Cancellable
<1>2. Typed'
  BY <1>1 DEF IInv, Typed, Shows
<1>3. (WritersApart /\ CancelsKnow /\ CancelledIsCancelled)'
  BY <1>1 DEF IInv, WritersApart, CancelsKnow, CancelledIsCancelled, WriteKinds
<1>4. (ReturnsKept /\ ReturnsKnow)'
  BY <1>1 DEF IInv, ReturnsKept, ReturnsKnow, Known, Active, WriteKinds
<1>5. (HistoryReads /\ HistoryTrue)'
  BY <1>1 DEF IInv, HistoryReads, HistoryTrue, AnswerIsTrue, AboutToHear, List, WriteKinds
<1>6. AdminTrue'
  BY <1>1 DEF IInv, AdminTrue, WriteKinds
<1> QED
  BY <1>2, <1>3, <1>4, <1>5, <1>6 DEF IInv

\* The commit of a cancellation.
LEMMA CommitCancelKeeps ==
  ASSUME IInv, NEW s \in Slots, CommitCancel(s)
  PROVE  IInv'
<1>1. /\ call[s].kind = "cancel" /\ call[s].stage \in {"read"}
      /\ call' \in [Slots -> Calls] /\ \A x \in Slots \ {s} : call'[x] = call[x]
      /\ call'[s].kind = call[s].kind /\ call'[s].order = call[s].order
      /\ call'[s].stage = "ok" /\ call[s].order \in Orders
      /\ status' = [status EXCEPT ![call[s].order] = "cancelled"]
      /\ history' \in HistoryPage
      /\ \/ history' = history /\ \A x \in Slots : call[x].kind = "history" => call[x].stage # "ok"
         \/ history'.behind
      /\ history'.loading = history.loading /\ history'.shown = history.shown
      /\ history'.modal = history.modal /\ history'.page = history.page
      /\ UNCHANGED <<returns, admin, cancelTold, overlapped, reopened, clicks, faults>>
  <2>1. PICK st \in {"ok"} : call' = Answer(s, st)
    BY DEF CommitCancel
  <2>2. /\ history' \in HistoryPage
        /\ \/ history' = history /\ \A x \in Slots : call[x].kind = "history" => call[x].stage # "ok"
           \/ history'.behind
        /\ history'.loading = history.loading /\ history'.shown = history.shown
        /\ history'.modal = history.modal /\ history'.page = history.page
    BY DEF IInv, Typed, CommitCancel, At, HistoryPage
  <2> QED
    BY <2>1, <2>2, SlotAnswered, CallKinds DEF IInv, CommitCancel, At, Gateway, Histories, WriteKinds,
                          CheckedStages, CancelCalls, Typed
<1>2. Typed'
  BY <1>1 DEF IInv, Typed, Shows, Statuses, AllButtons
<1>3. (WritersApart /\ CancelsKnow /\ CancelledIsCancelled)'
  <2>1. WritersApart'
    BY <1>1 DEF IInv, WritersApart, WriteKinds
  <2>2. ASSUME NEW x \in Slots, x # s, call[x].kind = "cancel", call[x].order \notin overlapped
        PROVE  call[x].order # call[s].order
    BY <1>1, <2>2 DEF IInv, WritersApart, WriteKinds
  <2>3. ASSUME NEW x \in Slots, call'[x].kind = "cancel", call'[x].order \notin overlapped
        PROVE  /\ call'[x].stage = "read" => status'[call'[x].order] = "pending"
               /\ call'[x].stage = "ok" => status'[call'[x].order] = "cancelled"
    <3>1. CASE x = s
      BY <1>1, <2>3, <3>1 DEF IInv, Typed
    <3>2. CASE x # s
      <4>1. call'[x] = call[x] /\ status'[call[x].order] = status[call[x].order]
        <5>1. call[x].order \in Orders
          BY <1>1, <2>3, <3>2, WritesHaveOrders DEF IInv, Typed, WriteKinds
        <5> QED
          BY <1>1, <2>2, <2>3, <3>2, <5>1 DEF IInv, Typed
      <4> QED
        BY <1>1, <2>3, <4>1 DEF IInv, CancelsKnow
    <3> QED
      BY <3>1, <3>2
  <2>4. CancelledIsCancelled'
    BY <1>1 DEF IInv, Typed, CancelledIsCancelled
  <2> QED
    BY <1>1, <2>1, <2>3, <2>4 DEF CancelsKnow
<1>4. (ReturnsKept /\ ReturnsKnow)'
  BY <1>1 DEF IInv, ReturnsKept, ReturnsKnow, Known, Active, WriteKinds
<1>5. HistoryReads'
  BY <1>1 DEF IInv, HistoryReads
<1>6. HistoryTrue'
  <2> SUFFICES ASSUME ~history'.behind PROVE HistoryTrue'
    BY DEF HistoryTrue
  <2>1. /\ history' = history /\ HistoryTrue
        /\ \A x \in Slots : call[x].kind = "history" => call[x].stage # "ok"
    BY <1>1 DEF IInv
  <2>2. \A x \in Slots : AnswerIsTrue(x)'
    BY <1>1, <2>1 DEF HistoryTrue, AnswerIsTrue
  <2>3. ASSUME ~history.loading, NEW o \in PageOf(history.page)
        PROVE  history.shown[o] = status'[o] \/ AboutToHear(o)'
    <3>1. CASE o = call[s].order
      BY <1>1, <3>1 DEF AboutToHear
    <3>2. CASE o # call[s].order
      <4>1. history.shown[o] = status[o] \/ AboutToHear(o)
        BY <2>1, <2>3 DEF HistoryTrue
      <4>2. status'[o] = status[o]
        BY <1>1, <2>3, <3>2 DEF IInv, Typed, PageOf
      <4>3. AboutToHear(o) => AboutToHear(o)'
        BY <1>1 DEF AboutToHear
      <4> QED
        BY <4>1, <4>2, <4>3
    <3> QED
      BY <3>1, <3>2
  <2> QED
    BY <2>1, <2>2, <2>3 DEF HistoryTrue
<1>7. AdminTrue'
  BY <1>1 DEF IInv, AdminTrue, WriteKinds
<1> QED
  BY <1>2, <1>3, <1>4, <1>5, <1>6, <1>7 DEF IInv

\* The administrator's read.
LEMMA ReadForStatusKeeps ==
  ASSUME IInv, NEW s \in Slots, ReadForStatus(s)
  PROVE  IInv'
<1>1. /\ call[s].kind = "status" /\ call[s].stage \in {"sent"}
      /\ call' \in [Slots -> Calls] /\ \A x \in Slots \ {s} : call'[x] = call[x]
      /\ call'[s].kind = call[s].kind /\ call'[s].order = call[s].order
      /\ call'[s].stage \in {"read", "unchanged"}
      /\ UNCHANGED <<status, returns, history, admin, cancelTold, overlapped, reopened, clicks,
                     faults>>
  <2>1. PICK st \in {"read", "unchanged"} : call' = Answer(s, st)
    BY DEF ReadForStatus
  <2> QED
    BY <2>1, SlotAnswered DEF IInv, ReadForStatus, At, Gateway, Histories, WriteKinds,
                          CheckedStages
<1>2. Typed'
  BY <1>1 DEF IInv, Typed, Shows
<1>3. (WritersApart /\ CancelsKnow /\ CancelledIsCancelled)'
  BY <1>1 DEF IInv, WritersApart, CancelsKnow, CancelledIsCancelled, WriteKinds
<1>4. (ReturnsKept /\ ReturnsKnow)'
  BY <1>1 DEF IInv, ReturnsKept, ReturnsKnow, Known, Active, WriteKinds
<1>5. (HistoryReads /\ HistoryTrue)'
  BY <1>1 DEF IInv, HistoryReads, HistoryTrue, AnswerIsTrue, AboutToHear, List, WriteKinds
<1>6. AdminTrue'
  BY <1>1 DEF IInv, AdminTrue, WriteKinds
<1> QED
  BY <1>2, <1>3, <1>4, <1>5, <1>6 DEF IInv

\* The administrator's commit.
LEMMA CommitStatusKeeps ==
  ASSUME IInv, NEW s \in Slots, CommitStatus(s)
  PROVE  IInv'
<1>1. /\ call[s].kind = "status" /\ call[s].stage \in {"read", "unchanged"}
      /\ call' \in [Slots -> Calls] /\ \A x \in Slots \ {s} : call'[x] = call[x]
      /\ call'[s].kind = call[s].kind /\ call'[s].order = call[s].order
      /\ call'[s].stage = "ok" /\ call[s].order \in Orders /\ call[s].to \in Statuses
      /\ \/ status' = status /\ cancelTold' = cancelTold /\ history' = history
         \/ /\ status' = [status EXCEPT ![call[s].order] = call[s].to]
            /\ cancelTold' = cancelTold \ {call[s].order}
            /\ history'.behind
      /\ history' \in HistoryPage
      /\ history'.loading = history.loading /\ history'.shown = history.shown
      /\ history'.modal = history.modal /\ history'.page = history.page
      /\ UNCHANGED <<returns, admin, overlapped, reopened, clicks, faults>>
  <2>1. PICK st \in {"ok"} : call' = Answer(s, st)
    BY DEF CommitStatus
  <2>2. /\ \/ status' = status /\ cancelTold' = cancelTold /\ history' = history
           \/ /\ status' = [status EXCEPT ![call[s].order] = call[s].to]
              /\ cancelTold' = cancelTold \ {call[s].order}
              /\ history'.behind
        /\ history' \in HistoryPage
        /\ history'.loading = history.loading /\ history'.shown = history.shown
        /\ history'.modal = history.modal /\ history'.page = history.page
    BY DEF IInv, Typed, CommitStatus, HistoryPage
  <2> QED
    BY <2>1, <2>2, SlotAnswered, CallKinds, OrdersAssumption DEF IInv, CommitStatus, At, Gateway,
       Histories, WriteKinds,
                          CheckedStages, StatusCalls, Typed, Statuses
<1>2. Typed'
  BY <1>1 DEF IInv, Typed, Shows
<1>3. (WritersApart /\ CancelsKnow /\ CancelledIsCancelled)'
  <2>1. WritersApart'
    BY <1>1 DEF IInv, WritersApart, WriteKinds
  <2>2. ASSUME NEW x \in Slots, x # s, call[x].kind = "cancel", call[x].order \notin overlapped
        PROVE  call[x].order # call[s].order
    BY <1>1, <2>2 DEF IInv, WritersApart, WriteKinds
  <2>3. ASSUME NEW x \in Slots, call'[x].kind = "cancel", call'[x].order \notin overlapped
        PROVE  /\ call'[x].stage = "read" => status'[call'[x].order] = "pending"
               /\ call'[x].stage = "ok" => status'[call'[x].order] = "cancelled"
    <3>1. CASE x = s
      BY <1>1, <2>3, <3>1 DEF IInv, Typed
    <3>2. CASE x # s
      <4>1. call'[x] = call[x] /\ status'[call[x].order] = status[call[x].order]
        <5>1. call[x].order \in Orders
          BY <1>1, <2>3, <3>2, WritesHaveOrders DEF IInv, Typed, WriteKinds
        <5> QED
          BY <1>1, <2>2, <2>3, <3>2, <5>1 DEF IInv, Typed
      <4> QED
        BY <1>1, <2>3, <4>1 DEF IInv, CancelsKnow
    <3> QED
      BY <3>1, <3>2
  <2>4. CancelledIsCancelled'
    BY <1>1 DEF IInv, Typed, CancelledIsCancelled
  <2> QED
    BY <1>1, <2>1, <2>3, <2>4 DEF CancelsKnow
<1>4. (ReturnsKept /\ ReturnsKnow)'
  BY <1>1 DEF IInv, ReturnsKept, ReturnsKnow, Known, Active, WriteKinds
<1>5. (HistoryReads /\ HistoryTrue)'
  BY <1>1 DEF IInv, HistoryReads, HistoryTrue, AnswerIsTrue, AboutToHear, List, WriteKinds
<1>6. AdminTrue'
  BY <1>1 DEF IInv, AdminTrue, WriteKinds
<1> QED
  BY <1>2, <1>3, <1>4, <1>5, <1>6 DEF IInv

\* The look-up of active return requests.
LEMMA CheckReturnKeeps ==
  ASSUME IInv, NEW s \in Slots, CheckReturn(s)
  PROVE  IInv'
<1>1. /\ call[s].kind = "return" /\ call[s].stage \in {"sent"}
      /\ call' \in [Slots -> Calls] /\ \A x \in Slots \ {s} : call'[x] = call[x]
      /\ call'[s].kind = call[s].kind /\ call'[s].order = call[s].order
      /\ call'[s].stage \in {"read", "refused"}
      /\ call'[s].stage = "read" =>
           \A i \in 1 .. Len(returns) : ~Active(i, call[s].order)
      /\ UNCHANGED <<status, returns, history, admin, cancelTold, overlapped, reopened, clicks,
                     faults>>
  <2>1. PICK st \in {"read", "refused"} : call' = Answer(s, st) /\ (st = "read" => ActiveReturns(call[s].order) = {})
    BY DEF CheckReturn, MayReturn
  <2> QED
    BY <2>1, SlotAnswered DEF IInv, CheckReturn, At, Gateway, Histories, WriteKinds,
                          CheckedStages,
                          ActiveReturns, Active, Typed
<1>2. Typed'
  BY <1>1 DEF IInv, Typed, Shows
<1>3. (WritersApart /\ CancelsKnow /\ CancelledIsCancelled)'
  BY <1>1 DEF IInv, WritersApart, CancelsKnow, CancelledIsCancelled, WriteKinds
<1>4. (ReturnsKept /\ ReturnsKnow)'
  BY <1>1 DEF IInv, ReturnsKept, ReturnsKnow, Known, Active, WriteKinds
<1>5. (HistoryReads /\ HistoryTrue)'
  BY <1>1 DEF IInv, HistoryReads, HistoryTrue, AnswerIsTrue, AboutToHear, List, WriteKinds
<1>6. AdminTrue'
  BY <1>1 DEF IInv, AdminTrue, WriteKinds
<1> QED
  BY <1>2, <1>3, <1>4, <1>5, <1>6 DEF IInv

\* What the pages know of return requests are sequences of them.
LEMMA PagesKnowSequences ==
  ASSUME IInv
  PROVE  /\ Len(admin.returns) \in Nat /\ Len(returns) \in Nat
         /\ \A s \in Slots : call[s].kind = "admin" => Len(call[s].sawReturns) \in Nat
<1>1. admin.returns \in Seq(ReturnRecord) /\ returns \in Seq(ReturnRecord)
  BY DEF IInv, Typed, AdminPage
<1>2. \A s \in Slots : call[s].kind = "admin" => call[s].sawReturns \in Seq(ReturnRecord)
  BY CallKinds DEF IInv, Typed, AdminCalls
<1> QED
  BY <1>1, <1>2

\* The insertion of a return request.
LEMMA InsertReturnKeeps ==
  ASSUME IInv, NEW s \in Slots, InsertReturn(s)
  PROVE  IInv'
<1>1. /\ call[s].kind = "return" /\ call[s].stage \in {"read"}
      /\ call' \in [Slots -> Calls] /\ \A x \in Slots \ {s} : call'[x] = call[x]
      /\ call'[s].kind = call[s].kind /\ call'[s].order = call[s].order
      /\ call'[s].stage = "ok" /\ call[s].order \in Orders
      /\ returns' \in Seq(ReturnRecord) /\ Len(returns') = Len(returns) + 1
      /\ Len(returns') <= MaxReturns /\ Len(returns) \in Nat
      /\ \A i \in 1 .. Len(returns) : returns'[i] = returns[i]
      /\ returns'[Len(returns) + 1].order = call[s].order
      /\ UNCHANGED <<status, history, admin, cancelTold, overlapped, reopened, clicks, faults>>
  <2>1. PICK st \in {"ok"} : call' = Answer(s, st)
    BY DEF InsertReturn
  <2> QED
    BY <2>1, SlotAnswered, CallKinds, OrdersAssumption DEF IInv, InsertReturn, At, Gateway,
       Histories, WriteKinds,
                          CheckedStages, ReturnCalls, Typed, ReturnRecord
<1>2. Typed'
  BY <1>1 DEF IInv, Typed, Shows
<1>3. (WritersApart /\ CancelsKnow /\ CancelledIsCancelled)'
  BY <1>1 DEF IInv, WritersApart, CancelsKnow, CancelledIsCancelled, WriteKinds
<1>4. (ReturnsKept /\ ReturnsKnow)'
  <2>1. ReturnsKept'
    <3>1. ASSUME NEW rs, Len(rs) \in Nat, Known(rs) PROVE Known(rs)'
      BY <1>1, <3>1 DEF Known
    <3> QED
      BY <1>1, <3>1, PagesKnowSequences DEF IInv, ReturnsKept
  <2>2. ASSUME NEW o \in Orders \ (overlapped \union reopened)
        PROVE  \A i, j \in 1 .. Len(returns') : Active(i, o)' /\ Active(j, o)' => i = j
    <3>1. \A i \in 1 .. Len(returns) : Active(i, o)' <=> Active(i, o)
      BY <1>1 DEF Active
    <3>2. ASSUME returns'[Len(returns) + 1].order = o
          PROVE  \A i \in 1 .. Len(returns) : ~Active(i, o)
      BY <1>1, <3>2 DEF IInv, ReturnsKnow
    <3> QED
      <4> TAKE i, j \in 1 .. Len(returns')
      <4> HAVE Active(i, o)' /\ Active(j, o)'
      <4>1. CASE i \in 1 .. Len(returns) /\ j \in 1 .. Len(returns)
        BY <3>1, <4>1 DEF IInv, ReturnsKnow
      <4>2. CASE i = Len(returns) + 1 \/ j = Len(returns) + 1
        <5>1. returns'[Len(returns) + 1].order = o
          BY <4>2 DEF Active
        <5> QED
          BY <1>1, <3>1, <3>2, <5>1
      <4> QED
        BY <1>1, <4>1, <4>2
  <2>3. ASSUME NEW x \in Slots, call'[x].kind = "return", call'[x].stage = "read",
               call'[x].order \notin overlapped
        PROVE  \A i \in 1 .. Len(returns') : ~Active(i, call[x].order)'
    <3>1. x # s /\ call'[x] = call[x] /\ call[x].order # call[s].order
      BY <1>1, <2>3 DEF IInv, WritersApart, WriteKinds
    <3> QED
      BY <1>1, <2>3, <3>1 DEF IInv, ReturnsKnow, Active
  <2> QED
    BY <1>1, <2>1, <2>2, <2>3 DEF ReturnsKnow
<1>5. (HistoryReads /\ HistoryTrue)'
  BY <1>1 DEF IInv, HistoryReads, HistoryTrue, AnswerIsTrue, AboutToHear, List, WriteKinds
<1>6. AdminTrue'
  BY <1>1 DEF IInv, AdminTrue, WriteKinds
<1> QED
  BY <1>2, <1>3, <1>4, <1>5, <1>6 DEF IInv

\* The read of a request that is decided, and the commit of a decision it has already.
LEMMA DecisionReads ==
  ASSUME IInv, NEW s \in Slots, NEW st \in {"read", "unchanged", "ok"},
         call[s].kind = "decide", call[s].stage # "ok", call' = Answer(s, st),
         UNCHANGED <<status, returns, history, admin, cancelTold, overlapped, reopened, clicks,
                     faults>>
  PROVE  IInv'
<1>1. /\ call' \in [Slots -> Calls] /\ \A x \in Slots \ {s} : call'[x] = call[x]
      /\ call'[s].kind = call[s].kind /\ call'[s].order = call[s].order
      /\ call'[s].stage = st /\ call'[s].return = call[s].return
  BY SlotAnswered DEF IInv, WriteKinds
<1>2. Typed'
  BY <1>1 DEF IInv, Typed, Shows
<1>3. (WritersApart /\ CancelsKnow /\ CancelledIsCancelled)'
  BY <1>1 DEF IInv, WritersApart, CancelsKnow, CancelledIsCancelled, WriteKinds
<1>4. (ReturnsKept /\ ReturnsKnow)'
  BY <1>1 DEF IInv, ReturnsKept, ReturnsKnow, Known, Active, WriteKinds
<1>5. (HistoryReads /\ HistoryTrue)'
  BY <1>1 DEF IInv, HistoryReads, HistoryTrue, AnswerIsTrue, AboutToHear, List, WriteKinds
<1>6. AdminTrue'
  BY <1>1 DEF IInv, AdminTrue, WriteKinds
<1> QED
  BY <1>2, <1>3, <1>4, <1>5, <1>6 DEF IInv

LEMMA ReadDecisionKeeps ==
  ASSUME IInv, NEW s \in Slots, ReadDecision(s)
  PROVE  IInv'
BY DecisionReads DEF ReadDecision, At, Gateway, Histories

\* The commit of a decision that changes its request.
LEMMA DecisionChanges ==
  ASSUME IInv, NEW s \in Slots, CommitDecision(s), call[s].stage = "read"
  PROVE  IInv'
<1>1. /\ call[s].kind = "decide" /\ call[s].order \in Orders
      /\ call' \in [Slots -> Calls] /\ \A x \in Slots \ {s} : call'[x] = call[x]
      /\ call'[s].kind = call[s].kind /\ call'[s].order = call[s].order
      /\ call'[s].stage = "ok" /\ call'[s].return = call[s].return
      /\ call[s].return \in 1 .. Len(returns)
      /\ returns[call[s].return].order = call[s].order
      /\ returns' \in Seq(ReturnRecord) /\ Len(returns') = Len(returns)
      /\ \A i \in 1 .. Len(returns) :
           /\ returns'[i].order = returns[i].order
           /\ i # call[s].return => returns'[i] = returns[i]
      /\ \/ reopened' = reopened /\ returns[call[s].return].status = "requested"
         \/ reopened' = reopened \union {call[s].order}
      /\ UNCHANGED <<status, history, admin, cancelTold, overlapped, clicks, faults>>
  <2>1. /\ call[s] \in DecideCalls /\ call' = Answer(s, "ok") /\ call[s].kind = "decide"
        /\ returns' = [returns EXCEPT ![call[s].return] = [@ EXCEPT !.status = call[s].to]]
        /\ UNCHANGED <<status, history, admin, cancelTold, overlapped, clicks, faults>>
        /\ \/ reopened' = reopened /\ returns[call[s].return].status = "requested"
           \/ reopened' = reopened \union {call[s].order}
    BY CallKinds DEF IInv, Typed, CommitDecision
  <2>2. /\ call[s].order \in Orders /\ call[s].to \in Decisions
        /\ call[s].return \in 1 .. Len(returns)
        /\ returns[call[s].return].order = call[s].order
        /\ returns \in Seq(ReturnRecord)
    BY <2>1 DEF IInv, Typed, DecideCalls, ReturnsKept
  <2>3. [returns[call[s].return] EXCEPT !.status = call[s].to] \in ReturnRecord
    <3>1. returns[call[s].return] \in ReturnRecord
      BY <2>2
    <3> QED
      BY <2>2, <3>1 DEF ReturnRecord
  <2>4. /\ returns' \in Seq(ReturnRecord) /\ Len(returns') = Len(returns)
        /\ \A i \in 1 .. Len(returns) :
             /\ returns'[i].order = returns[i].order
             /\ i # call[s].return => returns'[i] = returns[i]
    <3> DEFINE r == [returns[call[s].return] EXCEPT !.status = call[s].to]
    <3>1. r.order = returns[call[s].return].order
      BY <2>2 DEF ReturnRecord
    <3>2. returns' = [returns EXCEPT ![call[s].return] = r]
      BY <2>1
    <3> HIDE DEF r
    <3> QED
      BY <2>2, <2>3, <3>1, <3>2 DEF r
  <2> QED
    BY <2>1, <2>2, <2>4, SlotAnswered DEF IInv, WriteKinds
<1>2. Typed'
  BY <1>1 DEF IInv, Typed, Shows
<1>3. (WritersApart /\ CancelsKnow /\ CancelledIsCancelled)'
  BY <1>1 DEF IInv, WritersApart, CancelsKnow, CancelledIsCancelled, WriteKinds
<1>4. (ReturnsKept /\ ReturnsKnow)'
  <2>1. ReturnsKept'
    <3>1. ASSUME NEW rs, Len(rs) \in Nat, Known(rs) PROVE Known(rs)'
      BY <1>1, <3>1 DEF Known
    <3> QED
      BY <1>1, <3>1, PagesKnowSequences DEF IInv, ReturnsKept
  <2>2. ASSUME NEW o \in Orders \ (overlapped \union reopened'), NEW i \in 1 .. Len(returns),
               Active(i, o)'
        PROVE  Active(i, o)
    BY <1>1, <2>2 DEF Active
  <2>3. ASSUME NEW x \in Slots, call'[x].kind = "return", call'[x].stage = "read",
               call'[x].order \notin overlapped
        PROVE  \A i \in 1 .. Len(returns) : ~Active(i, call[x].order)'
    <3>1. x # s /\ call'[x] = call[x] /\ call[x].order # call[s].order
      BY <1>1, <2>3 DEF IInv, WritersApart, WriteKinds
    <3> QED
      BY <1>1, <2>3, <3>1 DEF IInv, ReturnsKnow, Active
  <2>4. reopened \subseteq reopened'
    BY <1>1
  <2> QED
    BY <1>1, <2>1, <2>2, <2>3, <2>4 DEF IInv, ReturnsKnow
<1>5. (HistoryReads /\ HistoryTrue)'
  BY <1>1 DEF IInv, HistoryReads, HistoryTrue, AnswerIsTrue, AboutToHear, List, WriteKinds
<1>6. AdminTrue'
  BY <1>1 DEF IInv, AdminTrue, WriteKinds
<1> QED
  BY <1>2, <1>3, <1>4, <1>5, <1>6 DEF IInv

LEMMA CommitDecisionKeeps ==
  ASSUME IInv, NEW s \in Slots, CommitDecision(s)
  PROVE  IInv'
<1>1. CASE call[s].stage = "read"
  BY <1>1, DecisionChanges
<1>2. CASE call[s].stage = "unchanged"
  BY <1>2, DecisionReads DEF CommitDecision
<1> QED
  BY <1>1, <1>2 DEF CommitDecision

\* The gateway's read of the orders for the history page.
LEMMA ReadHistoryKeeps ==
  ASSUME IInv, NEW s \in Slots, ReadHistory(s)
  PROVE  IInv'
<1>1. /\ call[s].kind = "history" /\ call[s].stage = "sent"
      /\ call' \in [Slots -> Calls] /\ \A x \in Slots \ {s} : call'[x] = call[x]
      /\ call'[s].kind = "history" /\ call'[s].stage = "ok"
      /\ call'[s].page = call[s].page /\ call'[s].saw = List(call[s].page)
      /\ history' \in HistoryPage /\ history.loading
      /\ history'.loading = history.loading /\ history'.shown = history.shown
      /\ history'.modal = history.modal /\ history'.page = history.page
      /\ UNCHANGED <<status, returns, admin, cancelTold, overlapped, reopened, clicks, faults>>
  <2> DEFINE c == [call[s] EXCEPT !.stage = "ok", !.saw = List(call[s].page)]
  <2>1. call[s].kind = "history" /\ call[s].stage = "sent" /\ call[s] \in HistoryCalls
    BY CallKinds DEF IInv, Typed, ReadHistory, At
  <2>2. List(call[s].page) \in Listed
    BY <2>1 DEF IInv, Typed, List, Listed, PageOf, HistoryCalls
  <2>3. /\ c \in Calls /\ c.kind = "history" /\ c.stage = "ok"
        /\ c.page = call[s].page /\ c.saw = List(call[s].page)
    BY <2>1, <2>2 DEF HistoryCalls, Calls
  <2>4. call' = [call EXCEPT ![s] = c]
    BY <2>1 DEF IInv, Typed, ReadHistory, List
  <2>5. /\ history' \in HistoryPage /\ history.loading
        /\ history'.loading = history.loading /\ history'.shown = history.shown
        /\ history'.modal = history.modal /\ history'.page = history.page
    BY <2>1 DEF IInv, Typed, HistoryReads, ReadHistory, HistoryPage
  <2> HIDE DEF c
  <2> QED
    BY <2>1, <2>3, <2>4, <2>5, SlotSet DEF IInv, ReadHistory, Gateway, Histories
<1>2. Typed'
  BY <1>1 DEF IInv, Typed, Shows
<1>3. (WritersApart /\ CancelsKnow /\ CancelledIsCancelled)'
  BY <1>1 DEF IInv, WritersApart, CancelsKnow, CancelledIsCancelled, WriteKinds
<1>4. (ReturnsKept /\ ReturnsKnow)'
  BY <1>1 DEF IInv, ReturnsKept, ReturnsKnow, Known, Active, WriteKinds
<1>5. (HistoryReads /\ HistoryTrue)'
  BY <1>1 DEF IInv, HistoryReads, HistoryTrue, AnswerIsTrue, AboutToHear, List, WriteKinds
<1>6. AdminTrue'
  BY <1>1 DEF IInv, AdminTrue, WriteKinds
<1> QED
  BY <1>2, <1>3, <1>4, <1>5, <1>6 DEF IInv

\* One of the two reads for the administrator.
LEMMA ReadForAdminKeeps ==
  ASSUME IInv, NEW s \in Slots, ReadForAdmin(s)
  PROVE  IInv'
<1>1. /\ call[s].kind = "admin"
      /\ call' \in [Slots -> Calls] /\ \A x \in Slots \ {s} : call'[x] = call[x]
      /\ call'[s].kind = "admin" /\ call'[s].stage \in {"sent", "ok"}
      /\ call'[s].stage = "ok" => call'[s].todo = {}
      /\ "orders" \notin call'[s].todo =>
           \/ call'[s].saw = status
           \/ "orders" \notin call[s].todo /\ call'[s].saw = call[s].saw
      /\ "returns" \notin call'[s].todo =>
           \/ call'[s].sawReturns = returns
           \/ "returns" \notin call[s].todo /\ call'[s].sawReturns = call[s].sawReturns
      /\ call'[s].sawReturns \in {returns, call[s].sawReturns}
      /\ UNCHANGED <<status, returns, history, admin, cancelTold, overlapped, reopened, clicks,
                     faults>>
  <2>1. call[s].kind = "admin" /\ call[s].stage = "sent" /\ call[s] \in AdminCalls
    BY CallKinds DEF IInv, Typed, ReadForAdmin, At
  <2>2. PICK part \in call[s].todo :
          call' = [call EXCEPT ![s].todo = @ \ {part},
                               ![s].stage = IF call[s].todo = {part} THEN "ok" ELSE "sent",
                               ![s].saw = IF part = "orders" THEN status ELSE @,
                               ![s].sawReturns = IF part = "returns" THEN returns ELSE @]
    BY DEF ReadForAdmin
  <2> DEFINE c == [call[s] EXCEPT !.todo = @ \ {part},
                                  !.stage = IF call[s].todo = {part} THEN "ok" ELSE "sent",
                                  !.saw = IF part = "orders" THEN status ELSE @,
                                  !.sawReturns = IF part = "returns" THEN returns ELSE @]
  <2>3. call' = [call EXCEPT ![s] = c]
    BY <2>2 DEF IInv, Typed
  <2>4. c \in AdminCalls /\ part \in {"orders", "returns"}
    BY <2>1, <2>2 DEF IInv, Typed, AdminCalls, Shown
  <2>5. /\ c.todo = call[s].todo \ {part}
        /\ c.stage = IF call[s].todo = {part} THEN "ok" ELSE "sent"
        /\ c.saw = IF part = "orders" THEN status ELSE call[s].saw
        /\ c.sawReturns = IF part = "returns" THEN returns ELSE call[s].sawReturns
    BY <2>1 DEF AdminCalls
  <2> HIDE DEF c
  <2>6. c \in Calls /\ c.kind = "admin"
    BY <2>4 DEF Calls, AdminCalls
  <2>7. /\ call' \in [Slots -> Calls] /\ call'[s] = c
        /\ \A x \in Slots \ {s} : call'[x] = call[x]
        /\ UNCHANGED <<status, returns, history, admin, cancelTold, overlapped, reopened,
                       clicks, faults>>
    BY <2>3, <2>6, SlotSet DEF IInv, ReadForAdmin, Gateway, Histories
  <2>8. c.stage = "ok" => c.todo = {}
    BY <2>5
  <2>9. c.stage \in {"sent", "ok"} /\ call[s].todo \subseteq {"orders", "returns"}
    BY <2>1, <2>5 DEF AdminCalls
  <2>10. /\ "orders" \notin c.todo =>
              \/ c.saw = status
              \/ "orders" \notin call[s].todo /\ c.saw = call[s].saw
         /\ "returns" \notin c.todo =>
              \/ c.sawReturns = returns
              \/ "returns" \notin call[s].todo /\ c.sawReturns = call[s].sawReturns
         /\ c.sawReturns \in {returns, call[s].sawReturns}
    BY <2>5
  <2> QED
    BY <2>1, <2>6, <2>7, <2>8, <2>9, <2>10
<1>2. Typed'
  BY <1>1 DEF IInv, Typed, Shows
<1>3. (WritersApart /\ CancelsKnow /\ CancelledIsCancelled)'
  BY <1>1 DEF IInv, WritersApart, CancelsKnow, CancelledIsCancelled, WriteKinds
<1>4. (ReturnsKept /\ ReturnsKnow)'
  <2>1. Known(returns)
    BY PagesKnowSequences DEF Known
  <2>2. ReturnsKept'
    BY <1>1, <2>1 DEF IInv, ReturnsKept, Known
  <2>3. ReturnsKnow'
    BY <1>1 DEF IInv, ReturnsKnow, Active
  <2> QED
    BY <2>2, <2>3
<1>5. (HistoryReads /\ HistoryTrue)'
  BY <1>1 DEF IInv, HistoryReads, HistoryTrue, AnswerIsTrue, AboutToHear, List, WriteKinds
<1>6. AdminTrue'
  BY <1>1 DEF IInv, AdminTrue, WriteKinds
<1> QED
  BY <1>2, <1>3, <1>4, <1>5, <1>6 DEF IInv

\* A request that is not served, or an answer that is lost.
LEMMA FailKeeps ==
  ASSUME IInv, NEW s \in Slots, Fail(s)
  PROVE  IInv'
<1>1. /\ call[s].kind # "idle"
      /\ call' \in [Slots -> Calls] /\ \A x \in Slots \ {s} : call'[x] = call[x]
      /\ call'[s].kind = call[s].kind /\ call'[s].stage = "failed"
      /\ call'[s].kind \in WriteKinds => call'[s].order = call[s].order
      /\ call'[s].kind = "admin" => call'[s].sawReturns = call[s].sawReturns
      /\ call'[s].kind = "decide" => call'[s].return = call[s].return
      /\ call'[s].kind = "history" => call'[s].page = call[s].page
      /\ UNCHANGED <<status, returns, cancelTold, overlapped, reopened, clicks>>
      /\ faults' \in 0 .. MaxFaults
  <2>1. call[s].kind # "idle" /\ call' = Answer(s, "failed")
    BY DEF Fail, Busy
  <2>2. faults' \in 0 .. MaxFaults
    BY OrdersAssumption DEF IInv, Typed, Fail
  <2> QED
    BY <2>1, <2>2, SlotAnswered DEF IInv, Fail, Gateway, Histories
<1>2. /\ history' \in HistoryPage /\ admin' \in AdminPage
      /\ history'.loading = history.loading /\ history'.shown = history.shown
      /\ history'.modal = history.modal /\ history'.page = history.page
      /\ admin'.loading = admin.loading /\ admin'.shown = admin.shown
      /\ admin'.returns = admin.returns
      /\ IF call[s].kind = "history" \/ At(s, "cancel", "ok") THEN history'.behind
         ELSE history' = history
      /\ IF call[s].kind \in {"admin", "status", "decide"} THEN admin'.behind ELSE admin' = admin
  BY DEF IInv, Typed, Fail, HistoryPage, AdminPage
<1>3. Typed'
  BY <1>1, <1>2 DEF IInv, Typed, Shows
<1>4. (WritersApart /\ CancelsKnow /\ CancelledIsCancelled)'
  BY <1>1 DEF IInv, WritersApart, CancelsKnow, CancelledIsCancelled, WriteKinds
<1>5. (ReturnsKept /\ ReturnsKnow)'
  BY <1>1, <1>2 DEF IInv, ReturnsKept, ReturnsKnow, Known, Active, WriteKinds
<1>6. (HistoryReads /\ HistoryTrue)'
  <2>1. HistoryReads'
    BY <1>1, <1>2 DEF IInv, HistoryReads
  <2> SUFFICES ASSUME ~history'.behind PROVE HistoryTrue'
    BY <2>1 DEF HistoryTrue
  <2>2. call[s].kind # "history" /\ ~At(s, "cancel", "ok") /\ history' = history /\ HistoryTrue
    BY <1>2 DEF IInv
  <2>3. \A x \in Slots : AnswerIsTrue(x)'
    BY <1>1, <2>2 DEF HistoryTrue, AnswerIsTrue, List
  <2>4. \A o \in Orders : AboutToHear(o) => AboutToHear(o)'
    BY <1>1, <2>2 DEF AboutToHear, At
  <2> QED
    BY <1>1, <2>2, <2>3, <2>4 DEF HistoryTrue, PageOf
<1>7. AdminTrue'
  BY <1>1, <1>2 DEF IInv, AdminTrue, WriteKinds
<1> QED
  BY <1>3, <1>4, <1>5, <1>6, <1>7 DEF IInv

\* A slot is free again.
LEMMA SlotOver ==
  ASSUME Typed, NEW s \in Slots, call' = Over(s)
  PROVE  /\ call' \in [Slots -> Calls] /\ call'[s] = Idle
         /\ \A x \in Slots \ {s} : call'[x] = call[x]
BY SlotSet DEF Over, Calls

\* The history page shows what was read.
LEMMA FinishHistoryKeeps ==
  ASSUME IInv, NEW s \in Slots, FinishHistory(s)
  PROVE  IInv'
<1>1. /\ call[s].kind = "history" /\ call[s].stage \in {"ok", "failed"}
      /\ call' \in [Slots -> Calls] /\ call'[s] = Idle
      /\ \A x \in Slots \ {s} : call'[x] = call[x]
      /\ history' \in HistoryPage /\ ~history'.loading /\ history'.behind = history.behind
      /\ history'.modal = 0 /\ history'.page = history.page
      /\ call[s].stage = "ok" => history'.shown = call[s].saw
      /\ UNCHANGED <<status, returns, admin, cancelTold, overlapped, reopened, clicks, faults>>
  <2>1. call[s].kind = "history" /\ call[s] \in HistoryCalls /\ call' = Over(s)
    BY CallKinds DEF IInv, Typed, FinishHistory, Done
  <2>2. /\ history' \in HistoryPage /\ ~history'.loading /\ history'.behind = history.behind
        /\ history'.modal = 0 /\ history'.page = history.page
        /\ call[s].stage = "ok" => history'.shown = call[s].saw
    BY <2>1 DEF IInv, Typed, HistoryReads, Shows, FinishHistory, HistoryPage, HistoryCalls
  <2>3. call[s].stage \in {"ok", "failed"}
    BY <2>1 DEF FinishHistory, Done, HistoryCalls
  <2> QED
    BY <2>1, <2>2, <2>3, SlotOver DEF IInv, FinishHistory, Gateway, Histories
<1>2. Idle.kind = "idle"
  BY DEF Idle
<1>3. Typed'
  BY <1>1 DEF IInv, Typed, Shows
<1>4. (WritersApart /\ CancelsKnow /\ CancelledIsCancelled)'
  BY <1>1, <1>2 DEF IInv, WritersApart, CancelsKnow, CancelledIsCancelled, WriteKinds
<1>5. (ReturnsKept /\ ReturnsKnow)'
  <2>1. ReturnsKept'
    BY <1>1, <1>2 DEF IInv, ReturnsKept, Known
  <2>2. ReturnsKnow'
    BY <1>1, <1>2 DEF IInv, ReturnsKnow, Active
  <2> QED
    BY <2>1, <2>2
<1>6. (HistoryReads /\ HistoryTrue)'
  <2>1. \A x \in Slots : call'[x].kind # "history"
    BY <1>1, <1>2 DEF IInv, HistoryReads
  <2>2. HistoryReads'
    BY <1>1, <2>1 DEF HistoryReads
  <2> SUFFICES ASSUME ~history'.behind PROVE HistoryTrue'
    BY <2>2 DEF HistoryTrue
  <2>3. AnswerIsTrue(s)
    BY <1>1 DEF IInv, HistoryTrue
  <2>4. history'.shown = List(history.page)
    BY <1>1, <2>3 DEF AnswerIsTrue
  <2> QED
    BY <1>1, <2>1, <2>4 DEF HistoryTrue, AnswerIsTrue, List
<1>7. AdminTrue'
  BY <1>1, <1>2 DEF IInv, AdminTrue, WriteKinds
<1> QED
  BY <1>3, <1>4, <1>5, <1>6, <1>7 DEF IInv

\* A request ends without consequences: its answer is a message only, or an error.
LEMMA EndKeeps ==
  ASSUME IInv, NEW s \in Slots,
         \/ call[s].kind = "return"
         \/ call[s].kind \in WriteKinds /\ call[s].stage \in {"refused", "failed"},
         call' = Over(s), UNCHANGED <<status, returns, history, admin, cancelTold, overlapped, reopened, clicks, faults>>
  PROVE  IInv'
<1>1. /\ call[s].kind \in WriteKinds
      /\ call' \in [Slots -> Calls] /\ call'[s].kind = "idle"
      /\ \A x \in Slots \ {s} : call'[x] = call[x]
      /\ UNCHANGED <<status, returns, history, admin, cancelTold, overlapped, reopened, clicks,
                     faults>>
  BY SlotOver DEF IInv, WriteKinds, Idle
<1>2. Typed'
  BY <1>1 DEF IInv, Typed, Shows
<1>3. (WritersApart /\ CancelsKnow /\ CancelledIsCancelled)'
  BY <1>1 DEF IInv, WritersApart, CancelsKnow, CancelledIsCancelled, WriteKinds
<1>4. (ReturnsKept /\ ReturnsKnow)'
  BY <1>1 DEF IInv, ReturnsKept, ReturnsKnow, Known, Active, WriteKinds
<1>5. (HistoryReads /\ HistoryTrue)'
  BY <1>1 DEF IInv, HistoryReads, HistoryTrue, AnswerIsTrue, AboutToHear, List, WriteKinds
<1>6. AdminTrue'
  BY <1>1 DEF IInv, AdminTrue, WriteKinds
<1> QED
  BY <1>2, <1>3, <1>4, <1>5, <1>6 DEF IInv

\* The customer is told of the cancellation: the page is read again, unless it is already.
LEMMA FinishCancelKeeps ==
  ASSUME IInv, NEW s \in Slots, FinishCancel(s)
  PROVE  IInv'
<1>1. CASE ~Succeeded(s)
  BY <1>1, EndKeeps DEF FinishCancel, Done, Succeeded, WriteKinds, Gateway
<1>2. CASE Succeeded(s) /\ ~Reloads
  <2>1. /\ call[s].kind = "cancel" /\ call[s].stage = "ok"
        /\ call' \in [Slots -> Calls] /\ call'[s].kind = "idle"
        /\ \A x \in Slots \ {s} : call'[x] = call[x]
        /\ history' \in HistoryPage /\ history.loading /\ history'.loading
        /\ history'.behind = history.behind /\ history'.modal = 0
        /\ history'.page = history.page
        /\ cancelTold' = cancelTold \union {call[s].order} /\ call[s].order \in Orders
        /\ UNCHANGED <<status, returns, admin, overlapped, reopened, clicks, faults>>
    <3>1. call' = Over(s) /\ history.loading /\ call[s] \in CancelCalls
      BY <1>2, CallKinds DEF IInv, Typed, FinishCancel, Done, Succeeded, Reloads
    <3>2. /\ history' \in HistoryPage /\ history'.loading
          /\ history'.behind = history.behind /\ history'.modal = 0
          /\ history'.page = history.page
      BY <1>2, <3>1 DEF IInv, Typed, FinishCancel, Reloads, HistoryPage
    <3> QED
      BY <1>2, <3>1, <3>2, SlotOver DEF IInv, FinishCancel, Done, Succeeded, Gateway,
         Idle, CancelCalls
  <2>2. Typed'
    BY <2>1 DEF IInv, Typed, Shows
  <2>3. (WritersApart /\ CancelsKnow /\ CancelledIsCancelled)'
    BY <2>1 DEF IInv, WritersApart, CancelsKnow, CancelledIsCancelled, WriteKinds
  <2>4. (ReturnsKept /\ ReturnsKnow)'
    BY <2>1 DEF IInv, ReturnsKept, ReturnsKnow, Known, Active, WriteKinds
  <2>5. (HistoryReads /\ HistoryTrue)'
    BY <2>1 DEF IInv, HistoryReads, HistoryTrue, AnswerIsTrue, AboutToHear, List, WriteKinds
  <2>6. AdminTrue'
    BY <2>1 DEF IInv, AdminTrue, WriteKinds
  <2> QED
    BY <2>2, <2>3, <2>4, <2>5, <2>6 DEF IInv
<1>3. CASE Succeeded(s) /\ Reloads
  <2> DEFINE c == HistoryLoad(history.page)
  <2>1. /\ call[s].kind = "cancel" /\ call[s].stage = "ok"
        /\ call' \in [Slots -> Calls] /\ call'[s].kind = "history" /\ call'[s].stage = "sent"
        /\ call'[s].page = history.page
        /\ \A x \in Slots \ {s} : call'[x] = call[x]
        /\ history' \in HistoryPage /\ ~history.loading /\ history'.loading
        /\ history'.modal = 0 /\ history'.page = history.page
        /\ cancelTold' = cancelTold \union {call[s].order} /\ call[s].order \in Orders
        /\ UNCHANGED <<status, returns, admin, overlapped, reopened, clicks, faults>>
    <3>1. call' = [call EXCEPT ![s] = c] /\ ~history.loading /\ call[s] \in CancelCalls
      BY <1>3, CallKinds DEF IInv, Typed, FinishCancel, Done, Succeeded, Reloads
    <3>2. c \in Calls /\ c.kind = "history" /\ c.stage = "sent" /\ c.page = history.page
      BY DEF IInv, Typed, HistoryPage, HistoryLoad, Calls, HistoryCalls, Listed
    <3>3. /\ history' \in HistoryPage /\ history'.loading
          /\ history'.modal = 0 /\ history'.page = history.page
      BY <1>3, <3>1 DEF IInv, Typed, FinishCancel, Reloads, HistoryPage
    <3> HIDE DEF c
    <3> QED
      BY <1>3, <3>1, <3>2, <3>3, SlotSet
         DEF IInv, FinishCancel, Done, Succeeded, Gateway, CancelCalls
  <2>2. Typed'
    BY <2>1 DEF IInv, Typed, Shows
  <2>3. (WritersApart /\ CancelsKnow /\ CancelledIsCancelled)'
    BY <2>1 DEF IInv, WritersApart, CancelsKnow, CancelledIsCancelled, WriteKinds
  <2>4. (ReturnsKept /\ ReturnsKnow)'
    BY <2>1 DEF IInv, ReturnsKept, ReturnsKnow, Known, Active, WriteKinds
  <2>5. (HistoryReads /\ HistoryTrue)'
    BY <2>1 DEF IInv, HistoryReads, HistoryTrue, AnswerIsTrue, AboutToHear, List, WriteKinds
  <2>6. AdminTrue'
    BY <2>1 DEF IInv, AdminTrue, WriteKinds
  <2> QED
    BY <2>2, <2>3, <2>4, <2>5, <2>6 DEF IInv
<1> QED
  BY <1>1, <1>2, <1>3

\* An administrator's write succeeded: both tables are read again.
LEMMA AdminReloads ==
  ASSUME IInv, NEW s \in Slots, FinishWrite(s), call[s].stage = "ok"
  PROVE  IInv'
<1>1. /\ call[s].kind \in {"status", "decide"}
      /\ call' \in [Slots -> Calls] /\ call'[s] = AdminLoad
      /\ \A x \in Slots \ {s} : call'[x] = call[x]
      /\ admin' \in AdminPage /\ admin'.loading
      /\ admin'.shown = admin.shown /\ admin'.returns = admin.returns
      /\ ~admin'.behind =>
           \A x \in Slots \ {s} : call[x].kind \notin WriteKinds /\ call[x].kind # "admin"
      /\ UNCHANGED <<status, returns, history, cancelTold, overlapped, reopened, clicks, faults>>
  <2>1. AdminLoad \in Calls
    BY DEF AdminLoad, Calls, AdminCalls, Shown
  <2>2. /\ admin' \in AdminPage /\ admin'.loading
        /\ admin'.shown = admin.shown /\ admin'.returns = admin.returns
        /\ admin'.behind = \E x \in Busy \ {s} : call[x].kind # "history"
    BY DEF IInv, Typed, FinishWrite, AdminPage
  <2>3. ~(\E x \in Busy \ {s} : call[x].kind # "history") =>
          \A x \in Slots \ {s} : call[x].kind \notin WriteKinds /\ call[x].kind # "admin"
    BY DEF Busy, WriteKinds
  <2> QED
    BY <2>1, <2>2, <2>3, SlotSet DEF IInv, FinishWrite, Done, Gateway, Histories
<1>2. /\ AdminLoad.kind = "admin" /\ AdminLoad.stage = "sent" /\ Len(AdminLoad.sawReturns) = 0
      /\ AdminLoad.todo = {"orders", "returns"} /\ Len(returns) \in Nat
  BY PagesKnowSequences DEF AdminLoad
<1>3. Typed'
  BY <1>1, <1>2 DEF IInv, Typed, Shows
<1>4. (WritersApart /\ CancelsKnow /\ CancelledIsCancelled)'
  BY <1>1, <1>2
     DEF IInv, WritersApart, CancelsKnow, CancelledIsCancelled, WriteKinds
<1>5. (ReturnsKept /\ ReturnsKnow)'
  BY <1>1, <1>2 DEF IInv, ReturnsKept, ReturnsKnow, Known, Active, WriteKinds
<1>6. (HistoryReads /\ HistoryTrue)'
  BY <1>1, <1>2 DEF IInv, HistoryReads, HistoryTrue, AnswerIsTrue, AboutToHear, List, WriteKinds
<1>7. AdminTrue'
  BY <1>1, <1>2 DEF IInv, AdminTrue, WriteKinds
<1> QED
  BY <1>3, <1>4, <1>5, <1>6, <1>7 DEF IInv

LEMMA FinishWriteKeeps ==
  ASSUME IInv, NEW s \in Slots, FinishWrite(s)
  PROVE  IInv'
<1>1. CASE call[s].stage = "ok"
  BY <1>1, AdminReloads
<1>2. CASE call[s].stage # "ok"
  BY <1>2, EndKeeps DEF FinishWrite, Done, WriteKinds, Gateway, Histories
<1> QED
  BY <1>1, <1>2

\* Both tables are shown, unless a read failed.
LEMMA FinishAdminKeeps ==
  ASSUME IInv, NEW s \in Slots, FinishAdmin(s)
  PROVE  IInv'
<1>1. /\ call[s].kind = "admin" /\ call[s].stage \in {"ok", "failed"}
      /\ call' \in [Slots -> Calls] /\ call'[s].kind = "idle"
      /\ \A x \in Slots \ {s} : call'[x] = call[x]
      /\ admin' \in AdminPage /\ ~admin'.loading /\ admin'.behind = admin.behind
      /\ admin'.returns \in {admin.returns, call[s].sawReturns}
      /\ call[s].stage = "ok" =>
           admin'.shown = call[s].saw /\ admin'.returns = call[s].sawReturns
      /\ UNCHANGED <<status, returns, history, cancelTold, overlapped, reopened, clicks, faults>>
  <2>1. call[s].kind = "admin" /\ call[s] \in AdminCalls /\ call' = Over(s)
    BY CallKinds DEF IInv, Typed, FinishAdmin, Done
  <2>2. /\ admin' \in AdminPage /\ ~admin'.loading /\ admin'.behind = admin.behind
        /\ admin'.returns \in {admin.returns, call[s].sawReturns}
        /\ call[s].stage = "ok" =>
             admin'.shown = call[s].saw /\ admin'.returns = call[s].sawReturns
    BY <2>1 DEF IInv, Typed, FinishAdmin, Tables, AdminPage, AdminCalls
  <2>3. call[s].stage \in {"ok", "failed"}
    BY <2>1 DEF FinishAdmin, Done, AdminCalls
  <2> QED
    BY <2>1, <2>2, <2>3, SlotOver DEF IInv, FinishAdmin, Gateway, Histories, Idle
<1>2. Typed'
  BY <1>1 DEF IInv, Typed, Shows
<1>3. (WritersApart /\ CancelsKnow /\ CancelledIsCancelled)'
  BY <1>1 DEF IInv, WritersApart, CancelsKnow, CancelledIsCancelled, WriteKinds
<1>4. (ReturnsKept /\ ReturnsKnow)'
  <2>1. Known(admin'.returns)
    BY <1>1 DEF IInv, ReturnsKept
  <2>2. \A x \in Slots \ {s} : call[x].kind = "admin" => Known(call[x].sawReturns)
    BY DEF IInv, ReturnsKept
  <2>3. ReturnsKept'
    BY <1>1, <2>1, <2>2 DEF IInv, ReturnsKept, Known
  <2>4. ReturnsKnow'
    BY <1>1 DEF IInv, ReturnsKnow, Active
  <2> QED
    BY <2>3, <2>4
<1>5. (HistoryReads /\ HistoryTrue)'
  BY <1>1 DEF IInv, HistoryReads, HistoryTrue, AnswerIsTrue, AboutToHear, List, WriteKinds
<1>6. AdminTrue'
  BY <1>1 DEF IInv, AdminTrue, WriteKinds
<1> QED
  BY <1>2, <1>3, <1>4, <1>5, <1>6 DEF IInv

-----------------------------------------------------------------------------
(* Clicks. *)

\* "Cancel Order", and leaving its dialogue.
LEMMA ModalKeeps ==
  ASSUME IInv, NEW o \in {0} \union Orders, o # 0 => Shows(o),
         history' = [history EXCEPT !.modal = o],
         UNCHANGED <<status, returns, admin, cancelTold, overlapped, reopened, clicks,
                     faults>>, UNCHANGED call
  PROVE  IInv'
<1>1. /\ history' \in HistoryPage /\ history'.modal = o /\ history'.page = history.page
      /\ history'.loading = history.loading /\ history'.behind = history.behind
      /\ history'.shown = history.shown
      /\ UNCHANGED <<status, returns, admin, cancelTold, overlapped, reopened, clicks,
                     faults>> /\ UNCHANGED call
  BY DEF IInv, Typed, HistoryPage, PageOf
<1>2. Typed'
  BY <1>1 DEF IInv, Typed, Shows
<1>3. (WritersApart /\ CancelsKnow /\ CancelledIsCancelled)'
  BY <1>1 DEF IInv, WritersApart, CancelsKnow, CancelledIsCancelled, WriteKinds
<1>4. (ReturnsKept /\ ReturnsKnow)'
  BY <1>1 DEF IInv, ReturnsKept, ReturnsKnow, Known, Active, WriteKinds
<1>5. (HistoryReads /\ HistoryTrue)'
  BY <1>1 DEF IInv, HistoryReads, HistoryTrue, AnswerIsTrue, AboutToHear, List, WriteKinds
<1>6. AdminTrue'
  BY <1>1 DEF IInv, AdminTrue, WriteKinds
<1> QED
  BY <1>2, <1>3, <1>4, <1>5, <1>6 DEF IInv

\* A request that writes is sent on a free slot.
LEMMA WriteSent ==
  ASSUME IInv, NEW s \in Free, NEW c \in Calls, c.kind \in WriteKinds, Write(s, c)
  PROVE  /\ s \in Slots /\ call[s].kind = "idle"
         /\ call' \in [Slots -> Calls] /\ call'[s] = c
         /\ \A x \in Slots \ {s} : call'[x] = call[x]
         /\ overlapped \subseteq overlapped' /\ overlapped' \subseteq Orders
         /\ \A x \in Slots :
              call[x].kind \in WriteKinds /\ call[x].order = c.order => c.order \in overlapped'
         /\ clicks' \in 0 .. MaxClicks /\ UNCHANGED <<status, returns, faults>>
<1>1. s \in Slots /\ call[s].kind = "idle"
  BY DEF Free, Busy
<1>2. call' = [call EXCEPT ![s] = c] /\ UNCHANGED <<status, returns, faults>>
  BY DEF Write
<1>3. overlapped \subseteq overlapped' /\ overlapped' \subseteq Orders
  BY WritesHaveOrders DEF IInv, Typed, Write
<1>4. \A x \in Slots :
        call[x].kind \in WriteKinds /\ call[x].order = c.order => c.order \in overlapped'
  BY DEF Write, Writers, Busy, WriteKinds
<1>5. clicks' \in 0 .. MaxClicks
  BY OrdersAssumption DEF IInv, Typed, Write
<1> QED
  BY <1>1, <1>2, <1>3, <1>4, <1>5, SlotSet DEF IInv

\* "Confirm Cancel".
LEMMA ConfirmCancelKeeps ==
  ASSUME IInv, ConfirmCancel
  PROVE  IInv'
<1>1. PICK s \in Free :
        Write(s, [kind |-> "cancel", order |-> history.modal, stage |-> "sent"])
  BY DEF ConfirmCancel
<1> DEFINE c == [kind |-> "cancel", order |-> history.modal, stage |-> "sent"]
<1>a. c \in Calls /\ c.kind = "cancel" /\ c.stage = "sent"
  BY DEF IInv, Typed, HistoryPage, ConfirmCancel, Calls, CancelCalls, CheckedStages
<1> HIDE DEF c
<1>2. /\ s \in Slots /\ call[s].kind = "idle"
      /\ call' \in [Slots -> Calls] /\ \A x \in Slots \ {s} : call'[x] = call[x]
      /\ call'[s] = c /\ c.kind = "cancel" /\ c.stage = "sent"
      /\ overlapped \subseteq overlapped' /\ overlapped' \subseteq Orders
      /\ \A x \in Slots :
           call[x].kind \in WriteKinds /\ call[x].order = c.order => c.order \in overlapped'
      /\ clicks' \in 0 .. MaxClicks
      /\ UNCHANGED <<status, returns, history, cancelTold, reopened, faults>>
      /\ ~history.loading
      /\ admin' \in AdminPage /\ admin'.behind
      /\ admin'.returns = admin.returns
  <2>1. Write(s, c) /\ c.kind \in WriteKinds
    BY <1>1, <1>a DEF c, WriteKinds
  <2> QED
    BY <1>a, <2>1, WriteSent DEF IInv, Typed, ConfirmCancel, AdminPage
<1>3. Typed'
  BY <1>2 DEF IInv, Typed, Shows
<1>4. (WritersApart /\ CancelsKnow /\ CancelledIsCancelled)'
  BY <1>2 DEF IInv, WritersApart, CancelsKnow, CancelledIsCancelled, WriteKinds
<1>5. (ReturnsKept /\ ReturnsKnow)'
  <2>1. ReturnsKept'
    BY <1>2 DEF IInv, ReturnsKept, Known
  <2>2. ReturnsKnow'
    BY <1>2 DEF IInv, ReturnsKnow, Active
  <2> QED
    BY <2>1, <2>2
<1>6. (HistoryReads /\ HistoryTrue)'
  BY <1>2 DEF IInv, HistoryReads, HistoryTrue, AnswerIsTrue, AboutToHear, List, WriteKinds
<1>7. AdminTrue'
  BY <1>2 DEF IInv, AdminTrue, WriteKinds
<1> QED
  BY <1>3, <1>4, <1>5, <1>6, <1>7 DEF IInv

\* The return form.
LEMMA RequestReturnKeeps ==
  ASSUME IInv, NEW o \in Orders, RequestReturn(o)
  PROVE  IInv'
<1>1. PICK s \in Free :
        Write(s, [kind |-> "return", order |-> o, stage |-> "sent"])
  BY DEF RequestReturn
<1> DEFINE c == [kind |-> "return", order |-> o, stage |-> "sent"]
<1>a. c \in Calls /\ c.kind = "return" /\ c.stage = "sent"
  BY DEF Calls, ReturnCalls, CheckedStages
<1> HIDE DEF c
<1>2. /\ s \in Slots /\ call[s].kind = "idle"
      /\ call' \in [Slots -> Calls] /\ \A x \in Slots \ {s} : call'[x] = call[x]
      /\ call'[s] = c /\ c.kind = "return" /\ c.stage = "sent"
      /\ overlapped \subseteq overlapped' /\ overlapped' \subseteq Orders
      /\ \A x \in Slots :
           call[x].kind \in WriteKinds /\ call[x].order = c.order => c.order \in overlapped'
      /\ clicks' \in 0 .. MaxClicks
      /\ UNCHANGED <<status, returns, history, cancelTold, reopened, faults>>
      /\ admin' \in AdminPage /\ admin'.behind
      /\ admin'.returns = admin.returns
  <2>1. Write(s, c) /\ c.kind \in WriteKinds
    BY <1>1, <1>a DEF c, WriteKinds
  <2> QED
    BY <1>a, <2>1, WriteSent DEF IInv, Typed, RequestReturn, AdminPage
<1>3. Typed'
  BY <1>2 DEF IInv, Typed, Shows
<1>4. (WritersApart /\ CancelsKnow /\ CancelledIsCancelled)'
  BY <1>2 DEF IInv, WritersApart, CancelsKnow, CancelledIsCancelled, WriteKinds
<1>5. (ReturnsKept /\ ReturnsKnow)'
  <2>1. ReturnsKept'
    BY <1>2 DEF IInv, ReturnsKept, Known
  <2>2. ReturnsKnow'
    BY <1>2 DEF IInv, ReturnsKnow, Active
  <2> QED
    BY <2>1, <2>2
<1>6. (HistoryReads /\ HistoryTrue)'
  BY <1>2 DEF IInv, HistoryReads, HistoryTrue, AnswerIsTrue, AboutToHear, List, WriteKinds
<1>7. AdminTrue'
  BY <1>2 DEF IInv, AdminTrue, WriteKinds
<1> QED
  BY <1>3, <1>4, <1>5, <1>6, <1>7 DEF IInv

\* A status button.
LEMMA UpdateStatusKeeps ==
  ASSUME IInv, NEW o \in Orders, NEW to \in Buttons, UpdateStatus(o, to)
  PROVE  IInv'
<1>1. PICK s \in Free :
        Write(s, [kind |-> "status", order |-> o, to |-> to, stage |-> "sent"])
  BY DEF UpdateStatus
<1> DEFINE c == [kind |-> "status", order |-> o, to |-> to, stage |-> "sent"]
<1>a. c \in Calls /\ c.kind = "status" /\ c.stage = "sent"
  BY DEF Calls, StatusCalls
<1> HIDE DEF c
<1>2. /\ s \in Slots /\ call[s].kind = "idle"
      /\ call' \in [Slots -> Calls] /\ \A x \in Slots \ {s} : call'[x] = call[x]
      /\ call'[s] = c /\ c.kind = "status" /\ c.stage = "sent"
      /\ overlapped \subseteq overlapped' /\ overlapped' \subseteq Orders
      /\ \A x \in Slots :
           call[x].kind \in WriteKinds /\ call[x].order = c.order => c.order \in overlapped'
      /\ clicks' \in 0 .. MaxClicks
      /\ UNCHANGED <<status, returns, history, admin, cancelTold, reopened, faults>>
      /\ ~admin.loading
  <2>1. Write(s, c) /\ c.kind \in WriteKinds
    BY <1>1, <1>a DEF c, WriteKinds
  <2> QED
    BY <1>a, <2>1, WriteSent DEF IInv, Typed, UpdateStatus
<1>3. Typed'
  BY <1>2 DEF IInv, Typed, Shows
<1>4. (WritersApart /\ CancelsKnow /\ CancelledIsCancelled)'
  BY <1>2 DEF IInv, WritersApart, CancelsKnow, CancelledIsCancelled, WriteKinds
<1>5. (ReturnsKept /\ ReturnsKnow)'
  <2>1. ReturnsKept'
    BY <1>2 DEF IInv, ReturnsKept, Known
  <2>2. ReturnsKnow'
    BY <1>2 DEF IInv, ReturnsKnow, Active
  <2> QED
    BY <2>1, <2>2
<1>6. (HistoryReads /\ HistoryTrue)'
  BY <1>2 DEF IInv, HistoryReads, HistoryTrue, AnswerIsTrue, AboutToHear, List, WriteKinds
<1>7. AdminTrue'
  BY <1>2 DEF IInv, AdminTrue, WriteKinds
<1> QED
  BY <1>3, <1>4, <1>5, <1>6, <1>7 DEF IInv

\* Approve, Reject and Received.
LEMMA UpdateReturnKeeps ==
  ASSUME IInv, NEW i \in 1 .. MaxReturns, NEW to \in Decisions, UpdateReturn(i, to)
  PROVE  IInv'
<1>1. PICK s \in Free :
        Write(s, [kind |-> "decide", order |-> admin.returns[i].order, return |-> i,
                  to |-> to, stage |-> "sent"])
  BY DEF UpdateReturn
<1> DEFINE c == [kind |-> "decide", order |-> admin.returns[i].order, return |-> i,
                  to |-> to, stage |-> "sent"]
<1>a. c \in Calls /\ c.kind = "decide" /\ c.stage = "sent"
      /\ c.return \in 1 .. Len(returns) /\ returns[c.return].order = c.order
  <2>1. /\ i \in 1 .. Len(admin.returns) /\ admin.returns \in Seq(ReturnRecord)
        /\ Len(admin.returns) <= Len(returns) /\ Len(returns) \in Nat
        /\ returns[i].order = admin.returns[i].order
    BY PagesKnowSequences DEF IInv, Typed, AdminPage, ReturnsKept, Known, UpdateReturn
  <2>2. admin.returns[i].order \in Orders
    <3>1. admin.returns[i] \in ReturnRecord
      BY <2>1
    <3> QED
      BY <3>1 DEF ReturnRecord
  <2> QED
    BY <2>1, <2>2 DEF Calls, DecideCalls
<1> HIDE DEF c
<1>2. /\ s \in Slots /\ call[s].kind = "idle"
      /\ call' \in [Slots -> Calls] /\ \A x \in Slots \ {s} : call'[x] = call[x]
      /\ call'[s] = c /\ c.kind = "decide" /\ c.stage = "sent"
      /\ c.return \in 1 .. Len(returns) /\ returns[c.return].order = c.order
      /\ overlapped \subseteq overlapped' /\ overlapped' \subseteq Orders
      /\ \A x \in Slots :
           call[x].kind \in WriteKinds /\ call[x].order = c.order => c.order \in overlapped'
      /\ clicks' \in 0 .. MaxClicks
      /\ UNCHANGED <<status, returns, history, admin, cancelTold, reopened, faults>>
      /\ ~admin.loading
  <2>1. Write(s, c) /\ c.kind \in WriteKinds
    BY <1>1, <1>a DEF c, WriteKinds
  <2> QED
    BY <1>a, <2>1, WriteSent DEF UpdateReturn
<1>3. Typed'
  BY <1>2 DEF IInv, Typed, Shows
<1>4. (WritersApart /\ CancelsKnow /\ CancelledIsCancelled)'
  BY <1>2 DEF IInv, WritersApart, CancelsKnow, CancelledIsCancelled, WriteKinds
<1>5. (ReturnsKept /\ ReturnsKnow)'
  <2>1. ReturnsKept'
    BY <1>2 DEF IInv, ReturnsKept, Known
  <2>2. ReturnsKnow'
    BY <1>2 DEF IInv, ReturnsKnow, Active
  <2> QED
    BY <2>1, <2>2
<1>6. (HistoryReads /\ HistoryTrue)'
  BY <1>2 DEF IInv, HistoryReads, HistoryTrue, AnswerIsTrue, AboutToHear, List, WriteKinds
<1>7. AdminTrue'
  BY <1>2 DEF IInv, AdminTrue, WriteKinds
<1> QED
  BY <1>3, <1>4, <1>5, <1>6, <1>7 DEF IInv

\* Previous and Next.
LEMMA TurnPageKeeps ==
  ASSUME IInv, NEW n \in Pages, TurnPage(n)
  PROVE  IInv'
<1>1. PICK s \in Free : call' = [call EXCEPT ![s] = HistoryLoad(n)]
  BY DEF TurnPage
<1>2. /\ s \in Slots /\ call[s].kind = "idle"
      /\ call' \in [Slots -> Calls] /\ \A x \in Slots \ {s} : call'[x] = call[x]
      /\ call'[s].kind = "history" /\ call'[s].stage = "sent" /\ call'[s].page = n
      /\ history' \in HistoryPage /\ ~history.loading /\ history'.loading
      /\ history'.modal = 0 /\ history'.page = n
      /\ UNCHANGED <<status, returns, admin, cancelTold, overlapped, reopened, clicks, faults>>
  <2>1. s \in Slots /\ call[s].kind = "idle"
    BY DEF Free, Busy
  <2>2. /\ HistoryLoad(n) \in Calls /\ HistoryLoad(n).kind = "history"
        /\ HistoryLoad(n).stage = "sent" /\ HistoryLoad(n).page = n
    BY DEF HistoryLoad, Calls, HistoryCalls, Listed
  <2>3. /\ history' \in HistoryPage /\ ~history.loading /\ history'.loading
        /\ history'.modal = 0 /\ history'.page = n
    BY DEF IInv, Typed, TurnPage, MayTurn, HistoryPage
  <2> QED
    BY <1>1, <2>1, <2>2, <2>3, SlotSet DEF IInv, TurnPage, Gateway, Histories
<1>3. Typed'
  BY <1>2 DEF IInv, Typed, Shows
<1>4. (WritersApart /\ CancelsKnow /\ CancelledIsCancelled)'
  BY <1>2 DEF IInv, WritersApart, CancelsKnow, CancelledIsCancelled, WriteKinds
<1>5. (ReturnsKept /\ ReturnsKnow)'
  BY <1>2 DEF IInv, ReturnsKept, ReturnsKnow, Known, Active, WriteKinds
<1>6. (HistoryReads /\ HistoryTrue)'
  BY <1>2 DEF IInv, HistoryReads, HistoryTrue, AnswerIsTrue, AboutToHear, List, WriteKinds
<1>7. AdminTrue'
  BY <1>2 DEF IInv, AdminTrue, WriteKinds
<1> QED
  BY <1>3, <1>4, <1>5, <1>6, <1>7 DEF IInv

-----------------------------------------------------------------------------
(* The invariant holds. *)

LEMMA InitIInv == Init => IInv
<1> SUFFICES ASSUME Init PROVE IInv
  OBVIOUS
<1>1. PICK s, x \in Slots :
        s # x /\ call = [y \in Slots |-> IF y = s THEN HistoryLoad(1)
                                         ELSE IF y = x THEN AdminLoad ELSE Idle]
  BY DEF Init
<1>2. /\ HistoryLoad(1).kind = "history" /\ HistoryLoad(1).stage = "sent" /\ HistoryLoad(1).page = 1
      /\ AdminLoad.kind = "admin" /\ AdminLoad.stage = "sent"
      /\ AdminLoad.todo = {"orders", "returns"} /\ AdminLoad.sawReturns = <<>>
      /\ Idle.kind = "idle"
  BY DEF HistoryLoad, AdminLoad, Idle
<1>3. /\ call[s] = HistoryLoad(1) /\ call[x] = AdminLoad
      /\ \A y \in Slots \ {s, x} : call[y] = Idle
  BY <1>1
<1>4. Typed
  <2>1. 1 \in Pages
    BY OrdersAssumption DEF Pages
  <2>2. call \in [Slots -> Calls]
    <3>1. HistoryLoad(1) \in Calls /\ AdminLoad \in Calls /\ Idle \in Calls
      BY <2>1 DEF HistoryLoad, AdminLoad, Calls, HistoryCalls, AdminCalls, Shown, Listed
    <3> QED
      BY <1>1, <3>1
  <2> QED
    BY <2>1, <2>2, OrdersAssumption
       DEF Init, Typed, HistoryPage, AdminPage, Shown, Listed, Statuses, AllButtons
<1>5. WritersApart /\ CancelsKnow /\ CancelledIsCancelled
  BY <1>2, <1>3 DEF Init, WritersApart, CancelsKnow, CancelledIsCancelled, WriteKinds
<1>6. ReturnsKept /\ ReturnsKnow
  BY <1>2, <1>3 DEF Init, ReturnsKept, ReturnsKnow, Known
<1>7. HistoryReads /\ HistoryTrue
  BY <1>2, <1>3 DEF Init, HistoryReads, HistoryTrue, AnswerIsTrue
<1>8. AdminTrue
  BY <1>2, <1>3 DEF Init, AdminTrue, WriteKinds
<1> QED
  BY <1>4, <1>5, <1>6, <1>7, <1>8 DEF IInv

LEMMA NextIInv == IInv /\ [Next]_vars => IInv'
<1> SUFFICES ASSUME IInv, [Next]_vars PROVE IInv'
  OBVIOUS
<1>1. ASSUME NEW o \in Orders, OpenModal(o) PROVE IInv'
  BY <1>1, ModalKeeps DEF OpenModal, Shows, Gateway, Histories
<1>2. CASE CloseModal
  BY <1>2, ModalKeeps DEF CloseModal, Gateway, Histories
<1>3. ASSUME NEW s \in Slots, FinishReturn(s) PROVE IInv'
  BY <1>3, EndKeeps DEF FinishReturn, Done, Gateway, Histories
<1>4. CASE UNCHANGED vars
  BY <1>4 DEF vars, IInv, Typed, WritersApart, CancelsKnow, CancelledIsCancelled, ReturnsKept,
              ReturnsKnow, Known, Active, HistoryReads, HistoryTrue, AnswerIsTrue, AboutToHear,
              List, AdminTrue, PageOf, Shows
<1>5. ASSUME NEW s \in Slots,
             \/ ReadHistory(s) \/ ReadForAdmin(s) \/ CheckCancel(s) \/ CommitCancel(s)
             \/ ReadForStatus(s) \/ CommitStatus(s) \/ CheckReturn(s) \/ InsertReturn(s)
             \/ ReadDecision(s) \/ CommitDecision(s) \/ Fail(s) \/ FinishHistory(s) \/ FinishCancel(s)
             \/ FinishReturn(s) \/ FinishWrite(s) \/ FinishAdmin(s)
      PROVE  IInv'
  BY <1>3, <1>5, ReadHistoryKeeps, ReadForAdminKeeps, CheckCancelKeeps, CommitCancelKeeps,
     ReadForStatusKeeps, CommitStatusKeeps, CheckReturnKeeps, InsertReturnKeeps,
     ReadDecisionKeeps, CommitDecisionKeeps, FailKeeps, FinishHistoryKeeps, FinishCancelKeeps, FinishWriteKeeps,
     FinishAdminKeeps
<1> QED
  BY <1>1, <1>2, <1>4, <1>5, ConfirmCancelKeeps, RequestReturnKeeps, UpdateStatusKeeps,
     UpdateReturnKeeps, TurnPageKeeps DEF Next

\* The inductive invariant holds in every reachable state.
THEOREM Invariance == Spec => []IInv
BY InitIInv, NextIInv, PTL DEF Spec

\* Every variable keeps its type; the orders listed are those of one page, and a
\* dialogue is open for one of them.
THEOREM OrdersTypes == Spec => []TypeOK
<1>1. IInv => TypeOK
  BY DEF IInv, Typed, TypeOK, HistoryPage, AdminPage, Shown, Listed
<1> QED
  BY <1>1, Invariance, PTL

\* What a customer was told is cancelled is, unless an administrator wrote the
\* order since or at the same time.
THEOREM CancelledStaysCancelled == Spec => []CancelledIsCancelled
<1>1. IInv => CancelledIsCancelled
  BY DEF IInv
<1> QED
  BY <1>1, Invariance, PTL

\* A cancellation commits on a pending order, unless another write overlapped it.
THEOREM CommitsFindPending == Spec => CancelsOnlyPending
<1>1. IInv => \A s \in Slots : CommitCancel(s) =>
                status[call[s].order] = "pending" \/ call[s].order \in overlapped
  BY DEF IInv, CancelsKnow, CommitCancel, At
<1>2. IInv => [\A s \in Slots : CommitCancel(s) =>
                 status[call[s].order] = "pending" \/ call[s].order \in overlapped]_vars
  BY <1>1
<1> QED
  BY <1>2, Invariance, PTL DEF CancelsOnlyPending

\* An order has one active return request, unless two requests overlapped or a
\* decision was taken again.
THEOREM OneReturnIsActive == Spec => []OneActiveReturn
<1>1. IInv => OneActiveReturn
  <2> SUFFICES ASSUME IInv, NEW o \in Orders \ (overlapped \union reopened)
               PROVE  Cardinality(ActiveReturns(o)) <= 1
    BY DEF OneActiveReturn
  <2>1. \A i, j \in ActiveReturns(o) : i = j
    BY DEF IInv, Typed, ReturnsKnow, Active, ActiveReturns
  <2>2. CASE ActiveReturns(o) = {}
    BY <2>2, FS_EmptySet
  <2>3. CASE ActiveReturns(o) # {}
    <3>1. PICK i : ActiveReturns(o) = {i}
      BY <2>1, <2>3
    <3> QED
      BY <3>1, FS_Singleton
  <2> QED
    BY <2>2, <2>3
<1> QED
  BY <1>1, Invariance, PTL

\* With no cancellation under way, a history page at rest lists the orders of its
\* page as they are, unless it is behind.
THEOREM HistoryPageIsCurrent == Spec => []HistoryIsCurrent
<1>1. IInv => HistoryIsCurrent
  <2> SUFFICES ASSUME IInv, \A s \in Slots : call[s].kind # "cancel", ~history.loading,
                      ~history.behind
               PROVE  /\ DOMAIN history.shown = PageOf(history.page)
                      /\ \A o \in PageOf(history.page) : history.shown[o] = status[o]
    BY DEF HistoryIsCurrent
  <2> QED
    BY DEF IInv, HistoryTrue, AboutToHear
<1> QED
  BY <1>1, Invariance, PTL

\* The administrator's tables at rest are the gateway's, unless they are behind.
THEOREM AdminPageIsCurrent == Spec => []AdminTablesAreCurrent
<1>1. IInv => AdminTablesAreCurrent
  BY DEF IInv, AdminTrue, AdminTablesAreCurrent, Busy
<1> QED
  BY <1>1, Invariance, PTL
=============================================================================
