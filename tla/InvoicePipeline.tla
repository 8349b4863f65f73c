-------------------------- MODULE InvoicePipeline --------------------------
(***************************************************************************)
(* The asynchronous half of a checkout: the invoice queue (SQS, standard,  *)
(* with a dead-letter queue), and the invoice-worker Lambda that takes     *)
(* batches from it, renders and uploads a PDF for each record, mails it    *)
(* and reports the records that failed.  Invocations run concurrently and  *)
(* may be cut off anywhere; what one did not delete becomes visible again  *)
(* when its visibility timeout ends.                                       *)
(***************************************************************************)
EXTENDS Naturals, Sequences

CONSTANTS
  Messages,    \* messages checkout's publisher can put on the queue
  Orders,
  OrderOf,     \* [Messages -> Orders]; a send that raised may leave two for one order
  Malformed,   \* messages that lack a required field
  Workers,     \* concurrent Lambda invocations
  BatchSize,   \* event source mapping: batch_size
  MaxReceive,  \* redrive_policy: maxReceiveCount
  MaxFaults,   \* bound: invocations cut off, ambiguous sends, duplicate deliveries
  MaxReplays   \* bound: messages an operator moves back from the DLQ

ASSUME PipelineAssumption ==
  /\ OrderOf \in [Messages -> Orders]
  /\ Malformed \subseteq Messages
  /\ {BatchSize, MaxReceive} \subseteq Nat \ {0}
  /\ {MaxFaults, MaxReplays} \subseteq Nat

VARIABLES
  place,       \* where each message is
  receives,    \* its ApproximateReceiveCount since it last entered the queue
  batch,       \* what each invocation is doing
  pdfs,        \* orders whose PDF is in the invoices bucket
  emails,      \* emails SES accepted for each message
  faults, replays

vars == <<place, receives, batch, pdfs, emails, faults, replays>>

Places == {"unsent", "queue", "inflight", "dlq", "deleted", "expired"}

\* The records of an invocation, those not yet tried, the failures so far, and
\* whether the record at hand has been uploaded.
Batches ==
  [taken : SUBSET Messages, todo : Seq(Messages), failed : SUBSET Messages,
   uploaded : BOOLEAN]

NoBatch == [taken |-> {}, todo |-> <<>>, failed |-> {}, uploaded |-> FALSE]

\* The sequences of records SQS may hand to one invocation.
Records ==
  {s \in UNION {[1..n -> Messages] : n \in 1..BatchSize} :
     \A i, j \in DOMAIN s : s[i] = s[j] => i = j}

TypeOK ==
  /\ place \in [Messages -> Places]
  /\ receives \in [Messages -> 0..MaxReceive]
  /\ batch \in [Workers -> Batches]
  /\ pdfs \subseteq Orders
  /\ emails \in [Messages -> Nat]
  /\ faults \in 0..MaxFaults
  /\ replays \in 0..MaxReplays

Init ==
  /\ place = [m \in Messages |-> "unsent"]
  /\ receives = [m \in Messages |-> 0]
  /\ batch = [w \in Workers |-> NoBatch]
  /\ pdfs = {}
  /\ emails = [m \in Messages |-> 0]
  /\ faults = 0
  /\ replays = 0
-----------------------------------------------------------------------------
(* The queue. *)

Holds(w, m) == m \in batch[w].taken

\* Every path that can duplicate an email draws on this budget.
Fault == faults < MaxFaults /\ faults' = faults + 1

\* Checkout's publisher: SQS accepts a message.
Publish(m) ==
  /\ place[m] = "unsent"
  /\ place' = [place EXCEPT ![m] = "queue"]
  /\ UNCHANGED <<receives, batch, pdfs, emails, faults, replays>>

\* Fault: maxReceiveCount is not enforced.
ReceiveWithoutLimit(w, s) ==
  LET got == {s[i] : i \in DOMAIN s}
  IN  /\ batch[w] = NoBatch
      /\ \A m \in got : place[m] = "queue"
      /\ place' = [m \in Messages |-> IF m \in got THEN "inflight" ELSE place[m]]
      /\ receives' = [m \in Messages |->
                        IF m \in got THEN receives[m] + 1 ELSE receives[m]]
      /\ batch' = [batch EXCEPT ![w] = [taken |-> got, todo |-> s,
                                        failed |-> {}, uploaded |-> FALSE]]
      /\ UNCHANGED <<pdfs, emails, faults, replays>>

\* The event source mapping starts an invocation on visible messages.
Receive(w, s) ==
  LET got == {s[i] : i \in DOMAIN s}
  IN  /\ batch[w] = NoBatch
      /\ \A m \in got : place[m] = "queue" /\ receives[m] < MaxReceive
      /\ place' = [m \in Messages |-> IF m \in got THEN "inflight" ELSE place[m]]
      /\ receives' = [m \in Messages |->
                        IF m \in got THEN receives[m] + 1 ELSE receives[m]]
      /\ batch' = [batch EXCEPT ![w] = [taken |-> got, todo |-> s,
                                        failed |-> {}, uploaded |-> FALSE]]
      /\ UNCHANGED <<pdfs, emails, faults, replays>>

\* A standard queue delivers at least once: a message in flight may be handed
\* to a second invocation.
DeliverCopy(w, m) ==
  /\ batch[w] = NoBatch
  /\ place[m] = "inflight"
  /\ Fault
  /\ batch' = [batch EXCEPT ![w] = [taken |-> {m}, todo |-> <<m>>,
                                    failed |-> {}, uploaded |-> FALSE]]
  /\ UNCHANGED <<place, receives, pdfs, emails, replays>>

\* Fault: a failed record is sent again as a new message.
RetryAsNewMessage(m) ==
  /\ place[m] = "inflight"
  /\ \A w \in Workers : ~Holds(w, m)
  /\ place' = [place EXCEPT ![m] = "queue"]
  /\ receives' = [receives EXCEPT ![m] = 0]
  /\ UNCHANGED <<batch, pdfs, emails, faults, replays>>

\* 14400 s pass: longer than any invocation that took the message (120 s).
VisibilityTimeout(m) ==
  /\ place[m] = "inflight"
  /\ \A w \in Workers : ~Holds(w, m)
  /\ place' = [place EXCEPT ![m] = "queue"]
  /\ UNCHANGED <<receives, batch, pdfs, emails, faults, replays>>

\* The next receive would exceed maxReceiveCount: the message moves to the DLQ.
Redrive(m) ==
  /\ place[m] = "queue"
  /\ receives[m] = MaxReceive
  /\ place' = [place EXCEPT ![m] = "dlq"]
  /\ UNCHANGED <<receives, batch, pdfs, emails, faults, replays>>

\* An operator replays a message of the DLQ (docs/rollback.md, step 4).
Replay(m) ==
  /\ place[m] = "dlq"
  /\ replays < MaxReplays
  /\ replays' = replays + 1
  /\ place' = [place EXCEPT ![m] = "queue"]
  /\ receives' = [receives EXCEPT ![m] = 0]
  /\ UNCHANGED <<batch, pdfs, emails, faults>>

\* message_retention_seconds: 4 days in the queue, 14 in the DLQ.
Expire(m) ==
  /\ place[m] \in {"queue", "dlq"}
  /\ place' = [place EXCEPT ![m] = "expired"]
  /\ UNCHANGED <<receives, batch, pdfs, emails, faults, replays>>
-----------------------------------------------------------------------------
(* The worker: lambda_handler runs process_record on one record at a time. *)

Busy(w) == batch[w].todo # <<>>
Record(w) == Head(batch[w].todo)

\* The record at hand is done with; a failed one is listed.
NextRecord(w, failures) ==
  batch' = [batch EXCEPT ![w] = [taken |-> @.taken, todo |-> Tail(@.todo),
                                 failed |-> @.failed \cup failures,
                                 uploaded |-> FALSE]]

\* Fault: the upload is attempted without waiting for its outcome.
UploadForgotten(w) ==
  /\ Busy(w) /\ ~batch[w].uploaded /\ Record(w) \notin Malformed
  /\ batch' = [batch EXCEPT ![w].uploaded = TRUE]
  /\ UNCHANGED <<place, receives, pdfs, emails, faults, replays>>

\* Shape check, render_invoice_pdf and _upload_pdf.  The key names the order:
\* a second upload replaces the first.
Upload(w) ==
  /\ Busy(w) /\ ~batch[w].uploaded /\ Record(w) \notin Malformed
  /\ pdfs' = pdfs \cup {OrderOf[Record(w)]}
  /\ batch' = [batch EXCEPT ![w].uploaded = TRUE]
  /\ UNCHANGED <<place, receives, emails, faults, replays>>

\* _send_email: SES accepts the mail and says so.
Email(w) ==
  /\ Busy(w) /\ batch[w].uploaded
  /\ emails' = [emails EXCEPT ![Record(w)] = @ + 1]
  /\ NextRecord(w, {})
  /\ UNCHANGED <<place, receives, pdfs, faults, replays>>

\* Fault: the except clause logs the record and forgets it.
RecordFailsSilently(w) ==
  /\ Busy(w)
  /\ NextRecord(w, {})
  /\ UNCHANGED <<place, receives, pdfs, emails, faults, replays>>

\* process_record raises before the mail is out: malformed body, rendering, S3
\* (which may have stored the object) or SES refusing.
RecordFails(w) ==
  /\ Busy(w)
  /\ \/ UNCHANGED pdfs
     \/ ~batch[w].uploaded /\ Record(w) \notin Malformed
        /\ pdfs' = pdfs \cup {OrderOf[Record(w)]}
  /\ NextRecord(w, {Record(w)})
  /\ UNCHANGED <<place, receives, emails, faults, replays>>

\* SES accepts the mail but the call raises (its answer is lost).
EmailUnacknowledged(w) ==
  /\ Busy(w) /\ batch[w].uploaded
  /\ Fault
  /\ emails' = [emails EXCEPT ![Record(w)] = @ + 1]
  /\ NextRecord(w, {Record(w)})
  /\ UNCHANGED <<place, receives, pdfs, replays>>

\* Fault: without ReportBatchItemFailures one failure fails the whole batch.
ReturnAllOrNothing(w) ==
  /\ ~Busy(w) /\ batch[w] # NoBatch
  /\ place' = [m \in Messages |->
                 IF Holds(w, m) /\ batch[w].failed = {} THEN "deleted" ELSE place[m]]
  /\ batch' = [batch EXCEPT ![w] = NoBatch]
  /\ UNCHANGED <<receives, pdfs, emails, faults, replays>>

\* batchItemFailures is returned; SQS deletes the records it does not list.
Return(w) ==
  /\ ~Busy(w) /\ batch[w] # NoBatch
  /\ place' = [m \in Messages |->
                 IF Holds(w, m) /\ m \notin batch[w].failed THEN "deleted" ELSE place[m]]
  /\ batch' = [batch EXCEPT ![w] = NoBatch]
  /\ UNCHANGED <<receives, pdfs, emails, faults, replays>>

\* The invocation times out or dies, or what it returned is lost: nothing is deleted.
Die(w) ==
  /\ batch[w] # NoBatch
  /\ Fault
  /\ batch' = [batch EXCEPT ![w] = NoBatch]
  /\ UNCHANGED <<place, receives, pdfs, emails, replays>>

Handler(w) == Upload(w) \/ Email(w) \/ RecordFails(w) \/ Return(w)

Next ==
  \/ \E m \in Messages :
       Publish(m) \/ VisibilityTimeout(m) \/ Redrive(m) \/ Replay(m) \/ Expire(m)
  \/ \E w \in Workers :
       \/ Handler(w) \/ EmailUnacknowledged(w) \/ Die(w)
       \/ \E s \in Records : Receive(w, s)
       \/ \E m \in Messages : DeliverCopy(w, m)

Spec == Init /\ [][Next]_vars

\* The Lambda runs to its end, SQS keeps delivering and redriving; operators,
\* publishers and expiry are under no obligation.
FairSpec ==
  /\ Spec
  /\ \A w \in Workers : WF_vars(Handler(w))
  /\ \A m \in Messages :
       /\ WF_vars(VisibilityTimeout(m)) /\ WF_vars(Redrive(m))
       /\ WF_vars(\E w \in Workers, s \in Records :
                    m \in {s[i] : i \in DOMAIN s} /\ Receive(w, s))
-----------------------------------------------------------------------------
(***************************************************************************)
(* Properties.                                                             *)
(***************************************************************************)

\* A message leaves the queue as processed only if its email went out, however
\* its batch failed, was cut off or was delivered twice (lambda_handler).
NoInvoiceLost == \A m \in Messages : place[m] = "deleted" => emails[m] > 0

\* Whoever got an email has the PDF of that order in the bucket (process_record).
MailedIsArchived ==
  \A m \in Messages : emails[m] > 0 => OrderOf[m] \in pdfs

\* Partial batch failures: a record that fails, even one that always fails, never
\* makes the mail of another record of its batch go out again.  Only faults of
\* the platform do: a fault repeats the mail of a message once, though it may cut
\* off a whole batch ("Otherwise ... customers receive duplicates").
DuplicatesNeedFaults == \A m \in Messages : emails[m] <= 1 + faults

\* Every queued message is processed, parked in the DLQ or (after days) expired:
\* a poison message does not go round for ever.
EveryMessageSettles ==
  \A m \in Messages :
    place[m] = "queue" ~> place[m] \in {"deleted", "dlq", "expired"}
=============================================================================
