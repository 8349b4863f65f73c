--------------------------- MODULE InvoiceProofs ---------------------------
(***************************************************************************)
(* Theorems about InvoicePipeline, for every number of messages,           *)
(* invocations, batch sizes and bounds.                                    *)
(***************************************************************************)
EXTENDS InvoicePipeline, FiniteSets, SequenceTheorems, FiniteSetTheorems, TLAPS

\* What is on the way in an invocation: the records not yet tried are among
\* those taken; a record taken is yet to be tried, listed as failed or mailed;
\* the record at hand is uploaded when the flag says so.
BatchOK(w) ==
  /\ \A i \in 1..Len(batch[w].todo) : batch[w].todo[i] \in batch[w].taken
  /\ \A m \in batch[w].taken :
       \/ m \in batch[w].failed
       \/ emails[m] > 0
       \/ \E i \in 1..Len(batch[w].todo) : batch[w].todo[i] = m
  /\ batch[w].uploaded => Busy(w) /\ OrderOf[Record(w)] \in pdfs

IInv ==
  /\ TypeOK
  /\ \A w \in Workers : BatchOK(w)
  /\ NoInvoiceLost
  /\ MailedIsArchived

\* Batches handed to an invocation are sequences of messages.
LEMMA RecordsAreSequences ==
  ASSUME NEW s \in Records
  PROVE  s \in Seq(Messages) /\ DOMAIN s = 1..Len(s)
<1>1. PICK n \in 1..BatchSize : s \in [1..n -> Messages]
  BY DEF Records
<1>2. n \in Nat
  BY PipelineAssumption
<1> QED
  BY <1>1, <1>2

\* A batch that is not empty has a record at hand, and its tail is shorter by it.
LEMMA RecordAtHand ==
  ASSUME TypeOK, NEW w \in Workers, Busy(w)
  PROVE  /\ Record(w) \in Messages
         /\ Record(w) = batch[w].todo[1]
         /\ Len(batch[w].todo) \in Nat \ {0}
         /\ Tail(batch[w].todo) \in Seq(Messages)
         /\ Len(Tail(batch[w].todo)) = Len(batch[w].todo) - 1
         /\ \A i \in 1..Len(batch[w].todo) - 1 :
              Tail(batch[w].todo)[i] = batch[w].todo[i + 1]
<1>1. batch[w].todo \in Seq(Messages) /\ batch[w].todo # <<>>
  BY DEF TypeOK, Batches, Busy
<1> QED
  BY <1>1 DEF Record

\* The initial states.
LEMMA InitIInv == Init => IInv
<1> SUFFICES ASSUME Init PROVE IInv
  OBVIOUS
<1>1. NoBatch \in Batches
  BY DEF NoBatch, Batches
<1>2. TypeOK
  BY <1>1, PipelineAssumption DEF Init, TypeOK, Places
<1>3. ASSUME NEW w \in Workers PROVE BatchOK(w)
  BY DEF Init, BatchOK, NoBatch
<1>4. NoInvoiceLost /\ MailedIsArchived
  BY DEF Init, NoInvoiceLost, MailedIsArchived
<1> QED
  BY <1>2, <1>3, <1>4 DEF IInv

\* What the worker's steps on the record at hand have in common: it leaves todo,
\* mailed or listed, and every other invocation keeps its batch.
LEMMA RecordDone ==
  ASSUME IInv, NEW w \in Workers, Busy(w),
         NEW failures \in SUBSET {Record(w)},
         NextRecord(w, failures),
         \A m \in Messages : emails[m] > 0 => emails'[m] > 0,
         pdfs \subseteq pdfs',
         emails'[Record(w)] > 0 \/ failures = {Record(w)}
  PROVE  /\ batch' \in [Workers -> Batches]
         /\ \A x \in Workers : BatchOK(x)'
<1> DEFINE b == batch[w]
<1>1. /\ batch \in [Workers -> Batches] /\ b \in Batches
      /\ \A x \in Workers : BatchOK(x)
      /\ \A x \in Workers : batch[x].taken \in SUBSET Messages
  BY DEF IInv, TypeOK, Batches
<1>2. /\ Record(w) \in Messages /\ Record(w) = b.todo[1]
      /\ Len(b.todo) \in Nat \ {0}
      /\ Tail(b.todo) \in Seq(Messages)
      /\ Len(Tail(b.todo)) = Len(b.todo) - 1
      /\ \A i \in 1..Len(b.todo) - 1 : Tail(b.todo)[i] = b.todo[i + 1]
  BY RecordAtHand DEF IInv
<1>3. batch' = [batch EXCEPT ![w] = [taken |-> b.taken, todo |-> Tail(b.todo),
                  failed |-> b.failed \cup failures, uploaded |-> FALSE]]
  BY DEF NextRecord
<1>4. [taken |-> b.taken, todo |-> Tail(b.todo),
       failed |-> b.failed \cup failures, uploaded |-> FALSE] \in Batches
  BY <1>1, <1>2 DEF Batches
<1>5. BatchOK(w)'
  <2>1. /\ batch'[w].taken = b.taken /\ batch'[w].todo = Tail(b.todo)
        /\ batch'[w].failed = b.failed \cup failures
        /\ batch'[w].uploaded = FALSE
    BY <1>1, <1>3
  <2>2. \A i \in 1..Len(batch'[w].todo) : batch'[w].todo[i] \in batch'[w].taken
    BY <2>1, <1>1, <1>2 DEF BatchOK
  <2>3. ASSUME NEW m \in b.taken
        PROVE  \/ m \in batch'[w].failed
               \/ emails'[m] > 0
               \/ \E i \in 1..Len(batch'[w].todo) : batch'[w].todo[i] = m
    <3>1. CASE m \in b.failed
      BY <3>1, <2>1
    <3>2. CASE emails[m] > 0
      BY <3>2, <1>1
    <3>3. CASE \E i \in 1..Len(b.todo) : b.todo[i] = m
      <4>1. PICK i \in 1..Len(b.todo) : b.todo[i] = m
        BY <3>3
      <4>2. CASE i = 1
        BY <4>1, <4>2, <1>2, <2>1
      <4>3. CASE i # 1
        <5>1. i - 1 \in 1..Len(Tail(b.todo)) /\ Tail(b.todo)[i - 1] = m
          BY <4>1, <4>3, <1>2
        <5> QED
          BY <5>1, <2>1
      <4> QED
        BY <4>2, <4>3
    <3> QED
      BY <3>1, <3>2, <3>3, <1>1 DEF BatchOK
  <2> QED
    BY <2>1, <2>2, <2>3 DEF BatchOK
<1>6. ASSUME NEW x \in Workers, x # w PROVE BatchOK(x)'
  <2>1. batch'[x] = batch[x] /\ BatchOK(x) /\ batch[x].taken \in SUBSET Messages
    BY <1>1, <1>3, <1>6
  <2> QED
    BY <2>1 DEF BatchOK, Busy, Record
<1> QED
  BY <1>1, <1>3, <1>4, <1>5, <1>6

\* Steps that leave the mail, the archive and the batches alone.
LEMMA BatchesUntouched ==
  ASSUME \A w \in Workers : BatchOK(w), MailedIsArchived,
         UNCHANGED <<batch, emails, pdfs>>
  PROVE  (\A w \in Workers : BatchOK(w)') /\ MailedIsArchived'
BY DEF BatchOK, MailedIsArchived, Busy, Record

\* Steps that give an invocation an empty batch or one it has not started.
LEMMA BatchAssigned ==
  ASSUME TypeOK, \A x \in Workers : BatchOK(x), MailedIsArchived,
         UNCHANGED <<emails, pdfs>>, NEW w \in Workers, NEW b \in Batches,
         batch' = [batch EXCEPT ![w] = b], b.uploaded = FALSE,
         \A i \in 1..Len(b.todo) : b.todo[i] \in b.taken,
         \A m \in b.taken : \E i \in 1..Len(b.todo) : b.todo[i] = m
  PROVE  /\ batch' \in [Workers -> Batches]
         /\ \A x \in Workers : BatchOK(x)'
         /\ MailedIsArchived'
<1>1. batch \in [Workers -> Batches]
  BY DEF TypeOK
<1>2. batch'[w] = b /\ \A x \in Workers \ {w} : batch'[x] = batch[x]
  BY <1>1
<1>3. BatchOK(w)'
  BY <1>2 DEF BatchOK
<1>4. ASSUME NEW x \in Workers \ {w} PROVE BatchOK(x)'
  BY <1>2 DEF BatchOK, Busy, Record
<1> QED
  BY <1>1, <1>3, <1>4 DEF MailedIsArchived

\* Every step keeps the invariant.
LEMMA NextIInv == IInv /\ [Next]_vars => IInv'
<1> SUFFICES ASSUME IInv, [Next]_vars PROVE IInv'
  OBVIOUS
<1> USE DEF Places
<1>0. /\ TypeOK /\ NoInvoiceLost /\ MailedIsArchived
      /\ \A w \in Workers : BatchOK(w)
      /\ NoBatch \in Batches
  BY DEF IInv, NoBatch, Batches
<1>1. ASSUME NEW m \in Messages,
             Publish(m) \/ VisibilityTimeout(m) \/ Redrive(m) \/ Replay(m) \/ Expire(m)
      PROVE  IInv'
  <2>1. UNCHANGED <<batch, emails, pdfs>>
    BY <1>1 DEF Publish, VisibilityTimeout, Redrive, Replay, Expire
  <2>2. TypeOK'
    BY <1>0, <1>1, PipelineAssumption
       DEF TypeOK, Publish, VisibilityTimeout, Redrive, Replay, Expire
  <2>3. NoInvoiceLost'
    BY <1>0, <1>1 DEF TypeOK, NoInvoiceLost, Publish, VisibilityTimeout, Redrive,
                      Replay, Expire
  <2> QED
    BY <1>0, <2>1, <2>2, <2>3, BatchesUntouched DEF IInv
<1>2. ASSUME NEW w \in Workers, NEW s \in Records, Receive(w, s)
      PROVE  IInv'
  <2> DEFINE got == {s[i] : i \in DOMAIN s}
             b == [taken |-> got, todo |-> s, failed |-> {}, uploaded |-> FALSE]
  <2>1. s \in Seq(Messages) /\ DOMAIN s = 1..Len(s)
    BY RecordsAreSequences
  <2>2. got \subseteq Messages /\ b \in Batches
    BY <2>1 DEF Batches
  <2>3. batch' = [batch EXCEPT ![w] = b] /\ UNCHANGED <<emails, pdfs, faults, replays>>
    BY <1>2 DEF Receive
  <2>4. /\ batch' \in [Workers -> Batches]
        /\ \A x \in Workers : BatchOK(x)'
        /\ MailedIsArchived'
    <3>1. /\ b.uploaded = FALSE
          /\ \A i \in 1..Len(b.todo) : b.todo[i] \in b.taken
          /\ \A m \in b.taken : \E i \in 1..Len(b.todo) : b.todo[i] = m
      BY <2>1
    <3> HIDE DEF b
    <3> QED
      BY <1>0, <2>2, <2>3, <3>1, BatchAssigned
  <2>5. place' \in [Messages -> Places] /\ receives' \in [Messages -> 0..MaxReceive]
    <3>1. /\ place' = [m \in Messages |-> IF m \in got THEN "inflight" ELSE place[m]]
          /\ receives' = [m \in Messages |->
                            IF m \in got THEN receives[m] + 1 ELSE receives[m]]
          /\ \A m \in got : receives[m] < MaxReceive
      BY <1>2 DEF Receive
    <3>2. place \in [Messages -> Places] /\ receives \in [Messages -> 0..MaxReceive]
      BY <1>0 DEF TypeOK
    <3> HIDE DEF got
    <3> QED
      BY <3>1, <3>2, PipelineAssumption
  <2>6. NoInvoiceLost'
    BY <1>0, <1>2, <2>3 DEF NoInvoiceLost, Receive, TypeOK
  <2> QED
    BY <1>0, <2>3, <2>4, <2>5, <2>6 DEF IInv, TypeOK
<1>3. ASSUME NEW w \in Workers, NEW m \in Messages, DeliverCopy(w, m)
      PROVE  IInv'
  <2> DEFINE b == [taken |-> {m}, todo |-> <<m>>, failed |-> {}, uploaded |-> FALSE]
  <2>1. b \in Batches
    BY DEF Batches
  <2>2. /\ batch' = [batch EXCEPT ![w] = b] /\ faults' \in 0..MaxFaults
        /\ UNCHANGED <<place, receives, pdfs, emails, replays>>
    BY <1>0, <1>3, PipelineAssumption DEF DeliverCopy, Fault, TypeOK
  <2>3. /\ b.uploaded = FALSE
        /\ \A i \in 1..Len(b.todo) : b.todo[i] \in b.taken
        /\ \A x \in b.taken : \E i \in 1..Len(b.todo) : b.todo[i] = x
    OBVIOUS
  <2> HIDE DEF b
  <2>4. /\ batch' \in [Workers -> Batches]
        /\ \A x \in Workers : BatchOK(x)'
        /\ MailedIsArchived'
    BY <1>0, <2>1, <2>2, <2>3, BatchAssigned
  <2> QED
    BY <1>0, <2>2, <2>4 DEF IInv, TypeOK, NoInvoiceLost
<1>4. ASSUME NEW w \in Workers, Upload(w) PROVE IInv'
  <2>1. /\ Busy(w) /\ Record(w) \in Messages
        /\ pdfs' = pdfs \cup {OrderOf[Record(w)]}
        /\ batch' = [batch EXCEPT ![w].uploaded = TRUE]
        /\ UNCHANGED <<place, receives, emails, faults, replays>>
    BY <1>0, <1>4, RecordAtHand DEF Upload
  <2>2. batch \in [Workers -> Batches] /\ batch[w] \in Batches
    BY <1>0 DEF TypeOK
  <2>3. batch' \in [Workers -> Batches]
    BY <2>1, <2>2 DEF Batches
  <2>4. TypeOK'
    BY <1>0, <2>1, <2>3, PipelineAssumption DEF TypeOK
  <2>5. /\ batch'[w].todo = batch[w].todo /\ batch'[w].taken = batch[w].taken
        /\ batch'[w].failed = batch[w].failed
        /\ \A x \in Workers \ {w} : batch'[x] = batch[x]
    BY <2>1, <2>2 DEF Batches
  <2>6. BatchOK(w)'
    BY <1>0, <2>1, <2>5 DEF BatchOK, Busy, Record
  <2>7. ASSUME NEW x \in Workers \ {w} PROVE BatchOK(x)'
    BY <1>0, <2>1, <2>5 DEF BatchOK, Busy, Record
  <2> QED
    BY <1>0, <2>1, <2>4, <2>6, <2>7 DEF IInv, NoInvoiceLost, MailedIsArchived
<1>5. ASSUME NEW w \in Workers, NEW failures \in SUBSET {Record(w)},
             Busy(w), batch[w].uploaded, NextRecord(w, failures),
             emails' = [emails EXCEPT ![Record(w)] = @ + 1],
             faults' \in 0..MaxFaults, UNCHANGED <<place, receives, pdfs, replays>>
      PROVE  IInv'
  <2>1. Record(w) \in Messages /\ OrderOf[Record(w)] \in pdfs
    BY <1>0, <1>5, RecordAtHand DEF BatchOK
  <2>2. /\ emails' \in [Messages -> Nat] /\ emails'[Record(w)] > 0
        /\ \A m \in Messages : emails[m] > 0 => emails'[m] > 0
        /\ \A m \in Messages : emails'[m] > 0 => emails[m] > 0 \/ m = Record(w)
    BY <1>0, <1>5, <2>1 DEF TypeOK
  <2>3. batch' \in [Workers -> Batches] /\ \A x \in Workers : BatchOK(x)'
    BY <1>5, <2>2, RecordDone
  <2> QED
    BY <1>0, <1>5, <2>1, <2>2, <2>3 DEF IInv, TypeOK, NoInvoiceLost, MailedIsArchived
<1>6. ASSUME NEW w \in Workers, RecordFails(w) PROVE IInv'
  <2>1. /\ Busy(w) /\ Record(w) \in Messages /\ NextRecord(w, {Record(w)})
        /\ pdfs \subseteq pdfs' /\ pdfs' \subseteq pdfs \cup {OrderOf[Record(w)]}
        /\ UNCHANGED <<place, receives, emails, faults, replays>>
    BY <1>0, <1>6, RecordAtHand DEF RecordFails
  <2>2. batch' \in [Workers -> Batches] /\ \A x \in Workers : BatchOK(x)'
    BY <2>1, RecordDone
  <2>3. pdfs' \subseteq Orders
    BY <1>0, <2>1, PipelineAssumption DEF TypeOK
  <2> QED
    BY <1>0, <2>1, <2>2, <2>3 DEF IInv, TypeOK, NoInvoiceLost, MailedIsArchived
<1>7. ASSUME NEW w \in Workers, Return(w) PROVE IInv'
  <2>1. /\ ~Busy(w) /\ batch' = [batch EXCEPT ![w] = NoBatch]
        /\ place' = [m \in Messages |-> IF Holds(w, m) /\ m \notin batch[w].failed
                                          THEN "deleted" ELSE place[m]]
        /\ UNCHANGED <<receives, pdfs, emails, faults, replays>>
    BY <1>7 DEF Return
  <2>2. /\ batch' \in [Workers -> Batches]
        /\ \A x \in Workers : BatchOK(x)'
        /\ MailedIsArchived'
    <3>1. /\ NoBatch.uploaded = FALSE
          /\ \A i \in 1..Len(NoBatch.todo) : NoBatch.todo[i] \in NoBatch.taken
          /\ NoBatch.taken = {}
      BY DEF NoBatch
    <3> QED
      BY <1>0, <2>1, <3>1, BatchAssigned
  <2>3. \A m \in batch[w].taken \ batch[w].failed : emails[m] > 0
    BY <1>0, <2>1 DEF BatchOK, Busy
  <2>4. place' \in [Messages -> Places]
    BY <1>0, <2>1 DEF TypeOK
  <2>5. NoInvoiceLost'
    BY <1>0, <2>1, <2>3 DEF NoInvoiceLost, Holds
  <2> QED
    BY <1>0, <2>1, <2>2, <2>4, <2>5 DEF IInv, TypeOK
<1>8. ASSUME NEW w \in Workers, Die(w) PROVE IInv'
  <2>1. /\ batch' = [batch EXCEPT ![w] = NoBatch] /\ faults' \in 0..MaxFaults
        /\ UNCHANGED <<place, receives, pdfs, emails, replays>>
    BY <1>0, <1>8, PipelineAssumption DEF Die, Fault, TypeOK
  <2>2. /\ NoBatch.uploaded = FALSE
        /\ \A i \in 1..Len(NoBatch.todo) : NoBatch.todo[i] \in NoBatch.taken
        /\ NoBatch.taken = {}
    BY DEF NoBatch
  <2>3. /\ batch' \in [Workers -> Batches]
        /\ \A x \in Workers : BatchOK(x)'
        /\ MailedIsArchived'
    BY <1>0, <2>1, <2>2, BatchAssigned
  <2> QED
    BY <1>0, <2>1, <2>3 DEF IInv, TypeOK, NoInvoiceLost
<1>9. ASSUME NEW w \in Workers, Email(w) PROVE IInv'
  BY <1>0, <1>5, <1>9 DEF Email, TypeOK
<1>10. ASSUME NEW w \in Workers, EmailUnacknowledged(w) PROVE IInv'
  <2>1. faults' \in 0..MaxFaults
    BY <1>0, <1>10, PipelineAssumption DEF EmailUnacknowledged, Fault, TypeOK
  <2> QED
    BY <2>1, <1>5, <1>10 DEF EmailUnacknowledged
<1>11. CASE UNCHANGED vars
  <2>1. UNCHANGED <<place, receives, batch, pdfs, emails, faults, replays>>
    BY <1>11 DEF vars
  <2> QED
    BY <1>0, <2>1, BatchesUntouched DEF IInv, TypeOK, NoInvoiceLost
<1> QED
  BY <1>1, <1>2, <1>3, <1>4, <1>6, <1>7, <1>8, <1>9, <1>10, <1>11 DEF Next, Handler

\* The inductive invariant holds in every reachable state.
THEOREM Invariance == Spec => []IInv
BY InitIInv, NextIInv, PTL DEF Spec

\* Every variable keeps its type; no message is received more often than the
\* redrive policy allows.
THEOREM PipelineTypes == Spec => []TypeOK
<1>1. IInv => TypeOK
  BY DEF IInv
<1> QED
  BY <1>1, Invariance, PTL

\* A message is deleted as processed only if its mail went out.
THEOREM NoInvoiceIsLost == Spec => []NoInvoiceLost
<1>1. IInv => NoInvoiceLost
  BY DEF IInv
<1> QED
  BY <1>1, Invariance, PTL

\* Whoever got a mail has a PDF in the bucket.
THEOREM MailIsArchived == Spec => []MailedIsArchived
<1>1. IInv => MailedIsArchived
  BY DEF IInv
<1> QED
  BY <1>1, Invariance, PTL

-----------------------------------------------------------------------------
(***************************************************************************)
(* Duplicates.  Every mail a message may still cause without a fault is    *)
(* owed: one for each invocation that has yet to try it, or, when there is *)
(* none, one for the next delivery, unless there will be none.  Mails that *)
(* went out and mails owed grow together only with the faults.             *)
(***************************************************************************)

Awaits(w, m) == \E i \in 1..Len(batch[w].todo) : batch[w].todo[i] = m
Pending(m) == {w \in Workers : Awaits(w, m)}

\* The invocation has mailed m and will have it deleted, if it returns.
Processed(w, m) == Holds(w, m) /\ ~Awaits(w, m) /\ m \notin batch[w].failed

\* No delivery of m will start without a fault.
Settled(m) ==
  place[m] \in {"deleted", "expired"} \/ \E w \in Workers : Processed(w, m)

Owed(m) ==
  IF Pending(m) # {} THEN Cardinality(Pending(m))
  ELSE IF Settled(m) THEN 0 ELSE 1

\* An invocation tries a record once: it is in todo once, and not after it failed.
\* What an invocation holds is in flight or has been deleted by another one.
OnceEach(w) ==
  /\ \A i, j \in 1..Len(batch[w].todo) : batch[w].todo[i] = batch[w].todo[j] => i = j
  /\ \A m \in batch[w].failed : ~Awaits(w, m)
  /\ \A m \in batch[w].taken : place[m] \in {"inflight", "deleted"}

InBudget(m) == IsFiniteSet(Pending(m)) /\ emails[m] + Owed(m) <= 1 + faults

IInvMails ==
  /\ \A w \in Workers : OnceEach(w)
  /\ \A m \in Messages : InBudget(m)

\* One element more or less.
LEMMA Adding ==
  ASSUME NEW P, IsFiniteSet(P), NEW x
  PROVE  /\ IsFiniteSet(P \cup {x})
         /\ Cardinality(P) \in Nat /\ Cardinality(P \cup {x}) \in Nat
         /\ Cardinality(P \cup {x}) <= Cardinality(P) + 1
<1>1. Cardinality(P) \in Nat
  BY FS_CardinalityType
<1>2. /\ IsFiniteSet(P \cup {x})
      /\ Cardinality(P \cup {x}) = IF x \in P THEN Cardinality(P) ELSE Cardinality(P) + 1
  BY FS_AddElement
<1> QED
  BY <1>1, <1>2

LEMMA Removing ==
  ASSUME NEW P, IsFiniteSet(P), NEW x \in P
  PROVE  /\ IsFiniteSet(P \ {x})
         /\ Cardinality(P) \in Nat /\ Cardinality(P \ {x}) \in Nat
         /\ Cardinality(P \ {x}) = Cardinality(P) - 1
<1>1. Cardinality(P) \in Nat
  BY FS_CardinalityType
<1>2. /\ IsFiniteSet(P \ {x})
      /\ Cardinality(P \ {x}) = IF x \in P THEN Cardinality(P) - 1 ELSE Cardinality(P)
  BY FS_RemoveElement
<1>3. Cardinality(P \ {x}) \in Nat
  BY <1>2, FS_CardinalityType
<1> QED
  BY <1>1, <1>2, <1>3

\* What is owed is a number, at most one when no invocation has m to try.
LEMMA OwedNumber ==
  ASSUME NEW m, IsFiniteSet(Pending(m))
  PROVE  /\ Owed(m) \in Nat
         /\ Pending(m) = {} => Owed(m) \in {0, 1}
         /\ Pending(m) # {} => Owed(m) = Cardinality(Pending(m)) /\ Owed(m) >= 1
<1>1. Cardinality(Pending(m)) \in Nat
  BY FS_CardinalityType
<1>2. Pending(m) # {} => Cardinality(Pending(m)) # 0
  BY FS_EmptySet
<1> QED
  BY <1>1, <1>2 DEF Owed

\* As long as nobody new has m to try and what was settled stays so, no more is owed.
LEMMA OwedSame ==
  ASSUME NEW m, IsFiniteSet(Pending(m)), Pending(m)' = Pending(m), Settled(m) => Settled(m)'
  PROVE  IsFiniteSet(Pending(m)') /\ Owed(m)' \in Nat /\ Owed(m)' <= Owed(m)
<1>1. Cardinality(Pending(m)) \in Nat
  BY FS_CardinalityType
<1> QED
  BY <1>1 DEF Owed

\* One invocation more has m to try: one mail more is owed, or as many as for a
\* delivery that was due.
LEMMA OwedMore ==
  ASSUME NEW m, IsFiniteSet(Pending(m)), NEW w, Pending(m)' = Pending(m) \cup {w}
  PROVE  /\ IsFiniteSet(Pending(m)') /\ Owed(m)' \in Nat /\ Owed(m)' <= Owed(m) + 1
         /\ Pending(m) = {} /\ ~Settled(m) => Owed(m)' <= Owed(m)
<1>1. /\ IsFiniteSet(Pending(m) \cup {w})
      /\ Cardinality(Pending(m) \cup {w}) \in Nat /\ Cardinality(Pending(m)) \in Nat
      /\ Cardinality(Pending(m) \cup {w}) <= Cardinality(Pending(m)) + 1
  BY Adding
<1>2. Pending(m)' # {}
  OBVIOUS
<1>3. Owed(m)' = Cardinality(Pending(m)')
  BY <1>2 DEF Owed
<1>4. CASE Pending(m) = {}
  <2>1. Cardinality(Pending(m)) = 0
    BY <1>4, FS_EmptySet
  <2>2. Owed(m) \in {0, 1} /\ (~Settled(m) => Owed(m) = 1)
    BY <1>4 DEF Owed
  <2> QED
    BY <1>1, <1>3, <2>1, <2>2
<1>5. CASE Pending(m) # {}
  <2>1. Owed(m) = Cardinality(Pending(m)) /\ Cardinality(Pending(m)) \in Nat
    BY <1>5, FS_CardinalityType DEF Owed
  <2> QED
    BY <1>1, <1>3, <1>5, <2>1
<1> QED
  BY <1>4, <1>5

\* One invocation less has m to try: no more is owed, and one mail less if that
\* invocation will have it deleted.
LEMMA OwedLess ==
  ASSUME NEW m, IsFiniteSet(Pending(m)), NEW w \in Pending(m), Pending(m)' = Pending(m) \ {w}
  PROVE  /\ IsFiniteSet(Pending(m)') /\ Owed(m)' \in Nat /\ Owed(m)' <= Owed(m)
         /\ Settled(m)' => Owed(m)' + 1 <= Owed(m)
<1>1. /\ IsFiniteSet(Pending(m) \ {w})
      /\ Cardinality(Pending(m) \ {w}) \in Nat /\ Cardinality(Pending(m)) \in Nat
      /\ Cardinality(Pending(m) \ {w}) = Cardinality(Pending(m)) - 1
  BY Removing
<1>2. Owed(m) = Cardinality(Pending(m))
  BY DEF Owed
<1>3. CASE Pending(m)' = {}
  <2>1. Cardinality(Pending(m)') = 0
    BY <1>3, FS_EmptySet
  <2> QED
    BY <1>1, <1>2, <1>3, <2>1 DEF Owed
<1>4. CASE Pending(m)' # {}
  <2>1. Owed(m)' = Cardinality(Pending(m)')
    BY <1>4 DEF Owed
  <2> QED
    BY <1>1, <1>2, <2>1
<1> QED
  BY <1>3, <1>4

LEMMA InitMails == Init => IInvMails
<1> SUFFICES ASSUME Init PROVE IInvMails
  OBVIOUS
<1>1. ASSUME NEW w \in Workers
      PROVE  batch[w].todo = <<>> /\ batch[w].failed = {} /\ batch[w].taken = {}
  BY DEF Init, NoBatch
<1>2. \A w \in Workers : OnceEach(w)
  BY <1>1 DEF OnceEach
<1>3. ASSUME NEW m \in Messages PROVE InBudget(m)
  <2>1. Pending(m) = {}
    BY <1>1 DEF Pending, Awaits
  <2>2. IsFiniteSet(Pending(m)) /\ Owed(m) \in {0, 1}
    BY <2>1, FS_EmptySet, OwedNumber
  <2> QED
    BY <2>2 DEF Init, InBudget
<1> QED
  BY <1>2, <1>3 DEF IInvMails

\* Steps that keep every invocation's records and move only what none holds.
LEMMA RecordsKept ==
  ASSUME IInv, IInvMails,
         \A w \in Workers : /\ batch'[w].todo = batch[w].todo
                            /\ batch'[w].taken = batch[w].taken
                            /\ batch'[w].failed = batch[w].failed,
         \A m \in Messages : place'[m] = place[m] \/ \A w \in Workers : ~Holds(w, m),
         \A m \in Messages : place'[m] = place[m] \/ place[m] \notin {"deleted", "expired"},
         UNCHANGED <<emails, faults>>
  PROVE  IInvMails'
<1>0. /\ \A w \in Workers : OnceEach(w) /\ batch[w].taken \subseteq Messages
      /\ \A m \in Messages : InBudget(m)
      /\ emails \in [Messages -> Nat] /\ faults \in Nat
  BY PipelineAssumption DEF IInvMails, IInv, TypeOK, Batches
<1>1. ASSUME NEW w \in Workers PROVE OnceEach(w)'
  BY <1>0 DEF OnceEach, Awaits, Holds
<1>2. ASSUME NEW m \in Messages PROVE InBudget(m)'
  <2>1. Pending(m)' = Pending(m)
    BY DEF Pending, Awaits
  <2>2. \A w \in Workers : Processed(w, m)' <=> Processed(w, m)
    BY DEF Processed, Awaits, Holds
  <2>3. Settled(m) => Settled(m)'
    BY <2>2 DEF Settled, Processed
  <2>4. IsFiniteSet(Pending(m)) /\ Owed(m) \in Nat
    BY <1>0, OwedNumber DEF InBudget
  <2>5. IsFiniteSet(Pending(m)') /\ Owed(m)' \in Nat /\ Owed(m)' <= Owed(m)
    BY <2>1, <2>3, <2>4, OwedSame
  <2> QED
    BY <1>0, <2>4, <2>5 DEF InBudget
<1> QED
  BY <1>1, <1>2 DEF IInvMails

\* An invocation is done with the record at hand.
LEMMA RecordTried ==
  ASSUME IInv, IInvMails, NEW w \in Workers, Busy(w),
         NEW failures \in SUBSET {Record(w)}, NextRecord(w, failures), UNCHANGED place,
         NEW r, r = Record(w)
  PROVE  /\ r \in Messages
         /\ \A x \in Workers : OnceEach(x)'
         /\ w \in Pending(r) /\ Pending(r)' = Pending(r) \ {w}
         /\ failures = {} => Settled(r)'
         /\ \A m \in Messages \ {r} :
              Pending(m)' = Pending(m) /\ (Settled(m) => Settled(m)')
<1> DEFINE b == batch[w]
<1>1. /\ r \in Messages /\ r = b.todo[1]
      /\ Len(b.todo) \in Nat \ {0}
      /\ Len(Tail(b.todo)) = Len(b.todo) - 1
      /\ \A i \in 1..Len(b.todo) - 1 : Tail(b.todo)[i] = b.todo[i + 1]
  BY RecordAtHand DEF IInv
<1>2. /\ batch'[w].todo = Tail(b.todo) /\ batch'[w].taken = b.taken
      /\ batch'[w].failed = b.failed \cup failures
      /\ \A x \in Workers \ {w} : batch'[x] = batch[x]
  BY DEF NextRecord, IInv, TypeOK
<1>3. /\ \A x \in Workers : OnceEach(x) /\ BatchOK(x)
      /\ r \in b.taken
  BY <1>1 DEF IInvMails, IInv, BatchOK
<1>4. ASSUME NEW m PROVE Awaits(w, m)' <=> Awaits(w, m) /\ m # r
  <2>1. ASSUME Awaits(w, m)' PROVE Awaits(w, m) /\ m # r
    <3>1. PICK i \in 1..Len(b.todo) - 1 : b.todo[i + 1] = m
      BY <1>1, <1>2, <2>1 DEF Awaits
    <3>2. i + 1 \in 1..Len(b.todo) /\ i + 1 # 1 /\ 1 \in 1..Len(b.todo)
      BY <1>1
    <3> QED
      BY <1>1, <1>3, <3>1, <3>2 DEF Awaits, OnceEach
  <2>2. ASSUME Awaits(w, m), m # r PROVE Awaits(w, m)'
    <3>1. PICK i \in 1..Len(b.todo) : b.todo[i] = m
      BY <2>2 DEF Awaits
    <3>2. i - 1 \in 1..Len(b.todo) - 1 /\ Tail(b.todo)[i - 1] = m
      BY <1>1, <2>2, <3>1
    <3> QED
      BY <1>1, <1>2, <3>2 DEF Awaits
  <2> QED
    BY <2>1, <2>2
<1>5. \A x \in Workers \ {w}, m \in Messages :
        (Awaits(x, m)' <=> Awaits(x, m)) /\ (Processed(x, m)' <=> Processed(x, m))
  BY <1>2 DEF Awaits, Processed, Holds
<1>6. Awaits(w, r)
  BY <1>1 DEF Awaits
<1>7. OnceEach(w)'
  <2>1. \A i, j \in 1..Len(batch'[w].todo) : batch'[w].todo[i] = batch'[w].todo[j] => i = j
    <3> TAKE i, j \in 1..Len(batch'[w].todo)
    <3>1. i \in 1..Len(b.todo) - 1 /\ j \in 1..Len(b.todo) - 1
      BY <1>1, <1>2
    <3>2. i + 1 \in 1..Len(b.todo) /\ j + 1 \in 1..Len(b.todo)
      BY <1>1, <3>1
    <3> HAVE batch'[w].todo[i] = batch'[w].todo[j]
    <3>3. b.todo[i + 1] = b.todo[j + 1]
      BY <1>1, <1>2, <3>1
    <3>4. i + 1 = j + 1
      BY <1>3, <3>2, <3>3 DEF OnceEach
    <3> QED
      BY <3>1, <3>4
  <2>2. \A m \in batch'[w].failed : ~Awaits(w, m)'
    BY <1>2, <1>3, <1>4 DEF OnceEach
  <2>3. \A m \in batch'[w].taken : place'[m] \in {"inflight", "deleted"}
    BY <1>2, <1>3 DEF OnceEach
  <2> QED
    BY <2>1, <2>2, <2>3 DEF OnceEach, Awaits
<1>8. ASSUME NEW x \in Workers \ {w} PROVE OnceEach(x)'
  BY <1>2, <1>3 DEF OnceEach, Awaits
<1>9. Pending(r)' = Pending(r) \ {w} /\ w \in Pending(r)
  BY <1>1, <1>4, <1>5, <1>6 DEF Pending
<1>10. failures = {} => Processed(w, r)'
  BY <1>2, <1>3, <1>4, <1>6 DEF Processed, Holds, OnceEach
<1>11. ASSUME NEW m \in Messages \ {r}
       PROVE  Pending(m)' = Pending(m) /\ (Settled(m) => Settled(m)')
  <2>1. Pending(m)' = Pending(m)
    BY <1>4, <1>5 DEF Pending
  <2>2. Processed(w, m) => Processed(w, m)'
    BY <1>2, <1>4 DEF Processed, Holds
  <2> QED
    BY <1>5, <2>1, <2>2 DEF Settled
<1> QED
  BY <1>1, <1>7, <1>8, <1>9, <1>10, <1>11 DEF Settled

\* Nobody holds, or has yet to try, a message that is not in flight or deleted.
LEMMA HeldIsAway ==
  ASSUME IInv, IInvMails, NEW m \in Messages, place[m] \notin {"inflight", "deleted"}
  PROVE  /\ \A w \in Workers : ~Holds(w, m) /\ ~Processed(w, m)
         /\ Pending(m) = {}
<1>1. \A w \in Workers : ~Holds(w, m)
  BY DEF IInvMails, OnceEach, Holds
<1>2. \A w \in Workers : ~Awaits(w, m)
  BY <1>1 DEF IInv, BatchOK, Awaits, Holds
<1> QED
  BY <1>1, <1>2 DEF Processed, Pending

\* An invocation starts or ends; the others keep their records.
LEMMA OthersKeepTheirs ==
  ASSUME TypeOK, NEW w \in Workers, NEW b, batch' = [batch EXCEPT ![w] = b]
  PROVE  /\ batch'[w] = b
         /\ \A x \in Workers \ {w} :
              /\ batch'[x] = batch[x]
              /\ \A m : /\ Awaits(x, m)' <=> Awaits(x, m)
                        /\ Processed(x, m)' <=> Processed(x, m)
<1>1. batch'[w] = b /\ \A x \in Workers \ {w} : batch'[x] = batch[x]
  BY DEF TypeOK
<1> QED
  BY <1>1 DEF Awaits, Processed, Holds

\* A record fails: one invocation fewer has it to try, and no mail went out.
LEMMA MailsAfterFailure ==
  ASSUME IInv, IInvMails, NEW w \in Workers, Busy(w), NextRecord(w, {Record(w)}),
         UNCHANGED <<place, emails, faults>>
  PROVE  IInvMails'
<1>0. PICK r : r = Record(w)
  OBVIOUS
<1>1. /\ r \in Messages
      /\ \A x \in Workers : OnceEach(x)'
      /\ w \in Pending(r) /\ Pending(r)' = Pending(r) \ {w}
      /\ \A m \in Messages \ {r} : Pending(m)' = Pending(m) /\ (Settled(m) => Settled(m)')
  BY <1>0, RecordTried
<1>2. \A m \in Messages : InBudget(m) /\ emails[m] \in Nat /\ faults \in Nat
  BY PipelineAssumption DEF IInvMails, IInv, TypeOK
<1>3. ASSUME NEW m \in Messages PROVE InBudget(m)'
  <2>1. IsFiniteSet(Pending(m)) /\ Owed(m) \in Nat
    BY <1>2, OwedNumber DEF InBudget
  <2>2. IsFiniteSet(Pending(m)') /\ Owed(m)' \in Nat /\ Owed(m)' <= Owed(m)
    <3>1. CASE m = r
      BY <1>1, <2>1, <3>1, OwedLess
    <3>2. CASE m # r
      BY <1>1, <2>1, <3>2, OwedSame
    <3> QED
      BY <3>1, <3>2
  <2> QED
    BY <1>2, <2>1, <2>2 DEF InBudget
<1> QED
  BY <1>1, <1>3 DEF IInvMails

\* A mail goes out: either its message will be deleted, or a fault is spent on it.
LEMMA MailsAfterMail ==
  ASSUME IInv, IInvMails, NEW w \in Workers, Busy(w),
         NEW failures \in SUBSET {Record(w)}, NextRecord(w, failures),
         emails' = [emails EXCEPT ![Record(w)] = @ + 1], UNCHANGED place,
         \/ failures = {} /\ faults' = faults
         \/ faults' = faults + 1
  PROVE  IInvMails'
<1>0. PICK r : r = Record(w)
  OBVIOUS
<1>1. /\ r \in Messages
      /\ \A x \in Workers : OnceEach(x)'
      /\ w \in Pending(r) /\ Pending(r)' = Pending(r) \ {w}
      /\ failures = {} => Settled(r)'
      /\ \A m \in Messages \ {r} : Pending(m)' = Pending(m) /\ (Settled(m) => Settled(m)')
  BY <1>0, RecordTried
<1>2. \A m \in Messages : InBudget(m) /\ emails[m] \in Nat /\ faults \in Nat
  BY PipelineAssumption DEF IInvMails, IInv, TypeOK
<1>3. emails'[r] = emails[r] + 1 /\ \A m \in Messages \ {r} : emails'[m] = emails[m]
  BY <1>0, <1>1 DEF IInv, TypeOK
<1>4. InBudget(r)'
  <2>1. IsFiniteSet(Pending(r)) /\ Owed(r) \in Nat
    BY <1>1, <1>2, OwedNumber DEF InBudget
  <2>2. /\ IsFiniteSet(Pending(r)') /\ Owed(r)' \in Nat /\ Owed(r)' <= Owed(r)
        /\ Settled(r)' => Owed(r)' + 1 <= Owed(r)
    BY <1>1, <2>1, OwedLess
  <2>3. emails[r] + Owed(r) <= 1 + faults
    BY <1>1, <1>2 DEF InBudget
  <2>4. emails'[r] + Owed(r)' <= 1 + faults'
    <3>1. CASE failures = {} /\ faults' = faults
      <4>1. Owed(r)' + 1 <= Owed(r)
        BY <1>1, <2>2, <3>1
      <4> QED
        BY <1>1, <1>2, <1>3, <2>1, <2>2, <2>3, <3>1, <4>1
    <3>2. CASE faults' = faults + 1
      BY <1>1, <1>2, <1>3, <2>1, <2>2, <2>3, <3>2
    <3> QED
      BY <3>1, <3>2
  <2> QED
    BY <2>2, <2>4 DEF InBudget
<1>5. ASSUME NEW m \in Messages \ {r} PROVE InBudget(m)'
  <2>1. IsFiniteSet(Pending(m)) /\ Owed(m) \in Nat
    BY <1>2, OwedNumber DEF InBudget
  <2>2. IsFiniteSet(Pending(m)') /\ Owed(m)' \in Nat /\ Owed(m)' <= Owed(m)
    BY <1>1, <2>1, OwedSame
  <2> QED
    BY <1>2, <1>3, <2>1, <2>2 DEF InBudget
<1> QED
  BY <1>1, <1>4, <1>5 DEF IInvMails

\* Every step keeps it.
LEMMA NextMails == IInv /\ IInvMails /\ [Next]_vars => IInvMails'
<1> SUFFICES ASSUME IInv, IInvMails, [Next]_vars PROVE IInvMails'
  OBVIOUS
<1>0. /\ TypeOK /\ \A w \in Workers : OnceEach(w) /\ BatchOK(w)
      /\ \A m \in Messages : InBudget(m) /\ emails[m] \in Nat /\ faults \in Nat
      /\ \A m \in Messages : IsFiniteSet(Pending(m)) /\ Owed(m) \in Nat
  <2>1. \A m \in Messages : InBudget(m) /\ emails[m] \in Nat /\ faults \in Nat
    BY PipelineAssumption DEF IInvMails, IInv, TypeOK
  <2> QED
    BY <2>1, OwedNumber DEF IInvMails, IInv, InBudget
<1>1. ASSUME NEW m \in Messages,
             Publish(m) \/ VisibilityTimeout(m) \/ Redrive(m) \/ Replay(m) \/ Expire(m)
      PROVE  IInvMails'
  <2>1. /\ UNCHANGED <<batch, emails, faults>>
        /\ \A x \in Messages \ {m} : place'[x] = place[x]
        /\ place[m] \notin {"deleted", "expired"}
        /\ place[m] = "inflight" => \A w \in Workers : ~Holds(w, m)
    BY <1>0, <1>1 DEF TypeOK, Publish, VisibilityTimeout, Redrive, Replay, Expire
  <2>2. \A w \in Workers : ~Holds(w, m)
    BY <2>1, HeldIsAway
  <2> QED
    BY <2>1, <2>2, RecordsKept
<1>2. ASSUME NEW w \in Workers, NEW s \in Records, Receive(w, s)
      PROVE  IInvMails'
  <2> DEFINE got == {s[i] : i \in DOMAIN s}
             b == [taken |-> got, todo |-> s, failed |-> {}, uploaded |-> FALSE]
  <2>1. /\ s \in Seq(Messages) /\ DOMAIN s = 1..Len(s) /\ got \subseteq Messages
        /\ \A i, j \in 1..Len(s) : s[i] = s[j] => i = j
    BY RecordsAreSequences DEF Records
  <2>2. /\ batch[w] = NoBatch /\ batch' = [batch EXCEPT ![w] = b]
        /\ \A m \in got : place[m] = "queue" /\ place'[m] = "inflight"
        /\ \A m \in Messages \ got : place'[m] = place[m]
        /\ UNCHANGED <<emails, faults>>
    BY <1>2, <2>1 DEF Receive
  <2>3. \A m : Awaits(w, m)' <=> m \in got
    BY <1>0, <2>1, <2>2 DEF TypeOK, Awaits
  <2>4. \A m : ~Awaits(w, m) /\ ~Processed(w, m)
    BY <2>2 DEF NoBatch, Awaits, Processed, Holds
  <2>5. /\ batch'[w] = b
        /\ \A x \in Workers \ {w} :
             /\ batch'[x] = batch[x]
             /\ \A m : (Awaits(x, m)' <=> Awaits(x, m)) /\ (Processed(x, m)' <=> Processed(x, m))
    <3> HIDE DEF b
    <3> QED
      BY <1>0, <2>2, OthersKeepTheirs
  <2>6. \A x \in Workers, m \in got : ~Holds(x, m) /\ Pending(m) = {} /\ ~Processed(x, m)
    BY <2>1, <2>2, HeldIsAway
  <2>7. OnceEach(w)'
    BY <2>1, <2>2, <2>3, <2>5 DEF OnceEach
  <2>8. ASSUME NEW x \in Workers \ {w} PROVE OnceEach(x)'
    <3>1. \A m \in batch[x].taken : place'[m] = place[m]
      <4>1. batch[x].taken \subseteq Messages
        BY <1>0 DEF TypeOK, Batches
      <4> QED
        BY <2>2, <2>6, <4>1 DEF Holds
    <3> QED
      BY <1>0, <2>5, <3>1 DEF OnceEach
  <2>9. ASSUME NEW m \in got PROVE InBudget(m)'
    <3>1. Pending(m)' = Pending(m) \cup {w}
      BY <2>3, <2>5 DEF Pending
    <3>2. ~Settled(m)
      BY <2>2, <2>6 DEF Settled
    <3>3. IsFiniteSet(Pending(m)') /\ Owed(m)' \in Nat /\ Owed(m)' <= Owed(m)
      BY <1>0, <2>1, <2>6, <3>1, <3>2, OwedMore
    <3> QED
      BY <1>0, <2>1, <2>2, <3>3 DEF InBudget
  <2>10. ASSUME NEW m \in Messages \ got PROVE InBudget(m)'
    <3>1. Pending(m)' = Pending(m)
      BY <2>3, <2>4, <2>5 DEF Pending
    <3>2. Settled(m) => Settled(m)'
      BY <2>2, <2>4, <2>5 DEF Settled
    <3>3. IsFiniteSet(Pending(m)') /\ Owed(m)' \in Nat /\ Owed(m)' <= Owed(m)
      BY <1>0, <3>1, <3>2, OwedSame
    <3> QED
      BY <1>0, <2>2, <3>3 DEF InBudget
  <2> QED
    BY <2>7, <2>8, <2>9, <2>10 DEF IInvMails
<1>3. ASSUME NEW w \in Workers, NEW c \in Messages, DeliverCopy(w, c)
      PROVE  IInvMails'
  <2> DEFINE b == [taken |-> {c}, todo |-> <<c>>, failed |-> {}, uploaded |-> FALSE]
  <2>1. /\ batch[w] = NoBatch /\ batch' = [batch EXCEPT ![w] = b]
        /\ place[c] = "inflight" /\ faults' = faults + 1
        /\ UNCHANGED <<place, emails>>
    BY <1>3 DEF DeliverCopy, Fault
  <2>2. /\ batch'[w] = b
        /\ \A x \in Workers \ {w} :
             /\ batch'[x] = batch[x]
             /\ \A m : (Awaits(x, m)' <=> Awaits(x, m)) /\ (Processed(x, m)' <=> Processed(x, m))
    <3> HIDE DEF b
    <3> QED
      BY <1>0, <2>1, OthersKeepTheirs
  <2>3. \A m : ~Awaits(w, m) /\ ~Processed(w, m)
    BY <2>1 DEF NoBatch, Awaits, Processed, Holds
  <2>4. \A m : Awaits(w, m)' <=> m = c
    BY <2>2 DEF Awaits
  <2>5. OnceEach(w)'
    BY <2>1, <2>2, <2>4 DEF OnceEach
  <2>6. ASSUME NEW x \in Workers \ {w} PROVE OnceEach(x)'
    BY <1>0, <2>1, <2>2 DEF OnceEach
  <2>7. ASSUME NEW m \in Messages PROVE InBudget(m)'
    <3>1. Settled(m) => Settled(m)'
      BY <2>1, <2>2, <2>3 DEF Settled
    <3>2. IsFiniteSet(Pending(m)') /\ Owed(m)' \in Nat /\ Owed(m)' <= Owed(m) + 1
      <4>1. CASE m = c
        <5>1. Pending(m)' = Pending(m) \cup {w}
          BY <2>2, <2>4, <4>1 DEF Pending
        <5> QED
          BY <1>0, <5>1, OwedMore
      <4>2. CASE m # c
        <5>1. Pending(m)' = Pending(m)
          BY <2>2, <2>3, <2>4, <4>2 DEF Pending
        <5>2. IsFiniteSet(Pending(m)') /\ Owed(m)' \in Nat /\ Owed(m)' <= Owed(m)
          BY <1>0, <3>1, <5>1, OwedSame
        <5> QED
          BY <1>0, <5>2
      <4> QED
        BY <4>1, <4>2
    <3> QED
      BY <1>0, <2>1, <3>2 DEF InBudget
  <2> QED
    BY <2>5, <2>6, <2>7 DEF IInvMails
<1>4. ASSUME NEW w \in Workers, Upload(w) PROVE IInvMails'
  <2>1. batch' = [batch EXCEPT ![w].uploaded = TRUE] /\ UNCHANGED <<place, emails, faults>>
    BY <1>4 DEF Upload
  <2>2. \A x \in Workers : /\ batch'[x].todo = batch[x].todo
                           /\ batch'[x].taken = batch[x].taken
                           /\ batch'[x].failed = batch[x].failed
    BY <1>0, <2>1 DEF TypeOK, Batches
  <2> QED
    BY <2>1, <2>2, RecordsKept
<1>5. ASSUME NEW w \in Workers, Email(w) PROVE IInvMails'
  BY <1>5, MailsAfterMail DEF Email
<1>6. ASSUME NEW w \in Workers, EmailUnacknowledged(w) PROVE IInvMails'
  BY <1>6, MailsAfterMail DEF EmailUnacknowledged, Fault
<1>7. ASSUME NEW w \in Workers, RecordFails(w) PROVE IInvMails'
  BY <1>7, MailsAfterFailure DEF RecordFails
<1>8. ASSUME NEW w \in Workers, Return(w) PROVE IInvMails'
  <2>1. /\ batch[w].todo = <<>> /\ batch' = [batch EXCEPT ![w] = NoBatch]
        /\ \A m \in Messages :
             place'[m] = IF Holds(w, m) /\ m \notin batch[w].failed
                           THEN "deleted" ELSE place[m]
        /\ UNCHANGED <<emails, faults>>
    BY <1>8 DEF Return, Busy
  <2>2. /\ batch'[w] = NoBatch
        /\ \A x \in Workers \ {w} :
             /\ batch'[x] = batch[x]
             /\ \A m : (Awaits(x, m)' <=> Awaits(x, m)) /\ (Processed(x, m)' <=> Processed(x, m))
    BY <1>0, <2>1, OthersKeepTheirs
  <2>3. \A m : ~Awaits(w, m) /\ ~Awaits(w, m)'
    BY <2>1, <2>2 DEF NoBatch, Awaits
  <2>4. OnceEach(w)'
    BY <2>2 DEF NoBatch, OnceEach
  <2>5. ASSUME NEW x \in Workers \ {w} PROVE OnceEach(x)'
    <3>1. batch[x].taken \subseteq Messages
      BY <1>0 DEF TypeOK, Batches
    <3> QED
      BY <1>0, <2>1, <2>2, <3>1 DEF OnceEach
  <2>6. ASSUME NEW m \in Messages PROVE InBudget(m)'
    <3>1. Pending(m)' = Pending(m)
      BY <2>2, <2>3 DEF Pending
    <3>2. Processed(w, m) => place'[m] = "deleted"
      BY <2>1 DEF Processed
    <3>3. Settled(m) => Settled(m)'
      BY <2>1, <2>2, <3>2 DEF Settled
    <3>4. IsFiniteSet(Pending(m)') /\ Owed(m)' \in Nat /\ Owed(m)' <= Owed(m)
      BY <1>0, <3>1, <3>3, OwedSame
    <3> QED
      BY <1>0, <2>1, <3>4 DEF InBudget
  <2> QED
    BY <2>4, <2>5, <2>6 DEF IInvMails
<1>9. ASSUME NEW w \in Workers, Die(w) PROVE IInvMails'
  <2>1. /\ batch' = [batch EXCEPT ![w] = NoBatch] /\ faults' = faults + 1
        /\ UNCHANGED <<place, emails>>
    BY <1>9 DEF Die, Fault
  <2>2. /\ batch'[w] = NoBatch
        /\ \A x \in Workers \ {w} :
             /\ batch'[x] = batch[x]
             /\ \A m : (Awaits(x, m)' <=> Awaits(x, m)) /\ (Processed(x, m)' <=> Processed(x, m))
    BY <1>0, <2>1, OthersKeepTheirs
  <2>3. \A m : ~Awaits(w, m)'
    BY <2>2 DEF NoBatch, Awaits
  <2>4. OnceEach(w)'
    BY <2>2 DEF NoBatch, OnceEach
  <2>5. ASSUME NEW x \in Workers \ {w} PROVE OnceEach(x)'
    BY <1>0, <2>1, <2>2 DEF OnceEach
  <2>6. ASSUME NEW m \in Messages PROVE InBudget(m)'
    <3>1. IsFiniteSet(Pending(m)') /\ Owed(m)' \in Nat /\ Owed(m)' <= Owed(m) + 1
      <4>1. CASE w \in Pending(m)
        <5>1. Pending(m)' = Pending(m) \ {w}
          BY <2>2, <2>3 DEF Pending
        <5>2. IsFiniteSet(Pending(m)') /\ Owed(m)' \in Nat /\ Owed(m)' <= Owed(m)
          BY <1>0, <4>1, <5>1, OwedLess
        <5> QED
          BY <1>0, <5>2
      <4>2. CASE w \notin Pending(m)
        <5>1. Pending(m)' = Pending(m)
          BY <2>2, <2>3, <4>2 DEF Pending
        <5>2. Cardinality(Pending(m)) \in Nat
          BY <1>0, FS_CardinalityType
        <5>3. IsFiniteSet(Pending(m)')
          BY <1>0, <5>1
        <5> QED
          BY <1>0, <5>1, <5>2, <5>3 DEF Owed
      <4> QED
        BY <4>1, <4>2
    <3> QED
      BY <1>0, <2>1, <3>1 DEF InBudget
  <2> QED
    BY <2>4, <2>5, <2>6 DEF IInvMails
<1>10. CASE UNCHANGED vars
  <2>1. UNCHANGED <<place, batch, emails, faults>>
    BY <1>10 DEF vars
  <2> QED
    BY <2>1, RecordsKept
<1> QED
  BY <1>1, <1>2, <1>3, <1>4, <1>5, <1>6, <1>7, <1>8, <1>9, <1>10 DEF Next, Handler

\* A message is mailed once, and once more for each fault of the platform at most,
\* whatever its batches, the other records in them and the redrives do.
THEOREM DuplicatesAreBudgeted == Spec => []DuplicatesNeedFaults
<1>1. IInv /\ IInvMails => DuplicatesNeedFaults
  <2> SUFFICES ASSUME IInv, IInvMails, NEW m \in Messages PROVE emails[m] <= 1 + faults
    BY DEF DuplicatesNeedFaults
  <2>1. /\ emails[m] \in Nat /\ faults \in Nat
        /\ IsFiniteSet(Pending(m)) /\ emails[m] + Owed(m) <= 1 + faults
    BY PipelineAssumption DEF IInv, IInvMails, TypeOK, InBudget
  <2>2. Owed(m) \in Nat
    BY <2>1, OwedNumber
  <2> QED
    BY <2>1, <2>2
<1>2. Spec => []IInvMails
  <2>1. Init => IInvMails
    BY InitMails
  <2>2. IInv /\ IInvMails /\ [Next]_vars => IInvMails'
    BY NextMails
  <2> QED
    BY <2>1, <2>2, Invariance, PTL DEF Spec
<1> QED
  BY <1>1, <1>2, Invariance, PTL
=============================================================================
