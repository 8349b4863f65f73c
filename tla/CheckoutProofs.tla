--------------------------- MODULE CheckoutProofs ---------------------------
(***************************************************************************)
(* Theorems about Checkout for every set of requests, customers, products, *)
(* carts, keys and every seeded inventory.                                 *)
(***************************************************************************)
EXTENDS Checkout, SequenceTheorems, FiniteSetTheorems, TLAPS

-----------------------------------------------------------------------------
(* Lines of a cart, and the units they ask for. *)

\* The lines of a well-formed cart.
LEMMA CartLine ==
  ASSUME NEW S, NEW lines, IsCart(lines, S)
  PROVE  /\ Len(lines) \in Nat /\ DOMAIN lines = 1 .. Len(lines)
         /\ \A i \in 1 .. Len(lines) : lines[i].product \in S /\ lines[i].quantity \in Nat \ {0}
  <1>1. lines \in Seq([product : S, quantity : Nat \ {0}])
    BY DEF IsCart
  <1>2. \A i \in 1 .. Len(lines) : lines[i] \in [product : S, quantity : Nat \ {0}]
    BY <1>1, ElementOfSeq
  <1> QED
    BY <1>1, <1>2, LenProperties

\* A set tagged with something new adds its size.
LEMMA MoreUnits ==
  ASSUME NEW U, IsFiniteSet(U), NEW T, IsFiniteSet(T), NEW r, \A u \in U : u[1] # r
  PROVE  /\ IsFiniteSet(U \cup ({r} \X T))
         /\ Cardinality(U \cup ({r} \X T)) = Cardinality(U) + Cardinality(T)
  <1> DEFINE N == {r} \X T
             f == [t \in T |-> <<r, t>>]
  <1>1. f \in Bijection(T, N)
    <2>1. f \in [T -> N] /\ \A s, t \in T : f[s] = f[t] => s = t
      OBVIOUS
    <2>2. \A u \in N : \E t \in T : f[t] = u
      OBVIOUS
    <2> QED
      BY <2>1, <2>2 DEF Bijection, Injection, Surjection, IsInjective
  <1>2. IsFiniteSet(N) /\ Cardinality(N) = Cardinality(T)
    BY <1>1, FS_Bijection DEF ExistsBijection
  <1>3. U \cap N = {}
    OBVIOUS
  <1> HIDE DEF N
  <1>4. /\ IsFiniteSet(U \cup N)
        /\ Cardinality(U \cup N) = Cardinality(U) + Cardinality(N) - Cardinality(U \cap N)
    BY <1>2, FS_Union
  <1>5. Cardinality(U) \in Nat /\ Cardinality(N) \in Nat /\ Cardinality(U \cap N) = 0
    BY <1>2, <1>3, FS_CardinalityType, FS_EmptySet
  <1> QED
    BY <1>2, <1>4, <1>5 DEF N

\* The units of one line.
LEMMA LineUnits ==
  ASSUME NEW n \in Nat
  PROVE  IsFiniteSet(1 .. n) /\ Cardinality(1 .. n) = n
  BY FS_Interval

\* The units of a product are finitely many, and none if no line asks for it.
LEMMA UnitsFinite ==
  ASSUME NEW S, NEW lines, IsCart(lines, S), NEW n \in 0 .. Len(lines), NEW p
  PROVE  /\ IsFiniteSet(Units(lines, n, p)) /\ UnitsUpTo(lines, n, p) \in Nat
         /\ (\A i \in 1 .. n : lines[i].product # p) => UnitsUpTo(lines, n, p) = 0
  <1> DEFINE D == {j \in 1 .. n : lines[j].product = p}
             f == [i \in D |-> {i} \X (1 .. lines[i].quantity)]
             F == {{i} \X (1 .. lines[i].quantity) : i \in D}
  <1>1. n \in Int /\ n <= Len(lines) /\ Len(lines) \in Nat
    BY CartLine
  <1>2. IsFiniteSet(D)
    <2>1. IsFiniteSet(1 .. n) /\ D \in SUBSET (1 .. n)
      BY <1>1, FS_Interval
    <2> QED
      BY <2>1, FS_Subset
  <1>3. \A T \in F : IsFiniteSet(T)
    <2> SUFFICES ASSUME NEW i \in D PROVE IsFiniteSet({i} \X (1 .. lines[i].quantity))
      OBVIOUS
    <2>1. PICK q \in Nat : q = lines[i].quantity
      BY <1>1, CartLine
    <2>2. IsFiniteSet(1 .. q) /\ IsFiniteSet({})
      BY LineUnits, FS_EmptySet
    <2>3. IsFiniteSet({} \cup ({i} \X (1 .. q)))
      BY <2>2, MoreUnits
    <2> QED
      BY <2>1, <2>3
  <1>4. IsFiniteSet(F)
    <2>1. f \in Surjection(D, F)
      BY DEF Surjection
    <2> QED
      BY <1>2, <2>1, FS_Surjection
  <1>5. IsFiniteSet(Units(lines, n, p))
    BY <1>3, <1>4, FS_UNION DEF Units
  <1>6. ASSUME \A i \in 1 .. n : lines[i].product # p
        PROVE  UnitsUpTo(lines, n, p) = 0
    <2>1. Units(lines, n, p) = {}
      BY <1>6 DEF Units
    <2> QED
      BY <2>1, FS_EmptySet DEF UnitsUpTo
  <1> QED
    BY <1>5, <1>6, FS_CardinalityType DEF UnitsUpTo

\* One more line adds the units it asks for.
LEMMA NextLine ==
  ASSUME NEW S, NEW lines, IsCart(lines, S), NEW n \in Nat, n < Len(lines), NEW p
  PROVE  UnitsUpTo(lines, n + 1, p)
           = UnitsUpTo(lines, n, p)
               + (IF lines[n + 1].product = p THEN lines[n + 1].quantity ELSE 0)
  <1> DEFINE k == n + 1
             q == lines[k].quantity
             U == Units(lines, n, p)
  <1>1. /\ Len(lines) \in Nat /\ k \in 1 .. Len(lines) /\ n \in 0 .. Len(lines)
        /\ q \in Nat /\ 1 .. k = (1 .. n) \cup {k} /\ k \notin 1 .. n
    BY CartLine
  <1>2. IsFiniteSet(U) /\ Cardinality(U) \in Nat
    BY <1>1, UnitsFinite DEF UnitsUpTo
  <1>3. CASE lines[k].product = p
    <2>1. Units(lines, k, p) = U \cup ({k} \X (1 .. q))
      BY <1>1, <1>3 DEF Units
    <2>2. \A u \in U : u[1] # k
      BY <1>1 DEF Units
    <2>3. PICK m \in Nat : m = q
      BY <1>1
    <2>4. PICK V, T : V = U /\ T = 1 .. m
      OBVIOUS
    <2>5. Cardinality(V \cup ({k} \X T)) = Cardinality(V) + Cardinality(T)
      <3>1. IsFiniteSet(V) /\ IsFiniteSet(T) /\ \A u \in V : u[1] # k
        BY <1>2, <2>2, <2>4, LineUnits
      <3> QED
        BY <3>1, MoreUnits
    <2>6. Cardinality(U \cup ({k} \X (1 .. q))) = Cardinality(U) + q
      BY <2>3, <2>4, <2>5, LineUnits
    <2> QED
      BY <1>3, <2>1, <2>6 DEF UnitsUpTo
  <1>4. CASE lines[k].product # p
    <2>1. Units(lines, k, p) = U
      BY <1>1, <1>4 DEF Units
    <2> QED
      BY <1>2, <1>4, <2>1 DEF UnitsUpTo
  <1> QED
    BY <1>3, <1>4

\* What a whole cart asks for.
LEMMA TotalNat ==
  ASSUME NEW S, NEW lines, IsCart(lines, S), NEW p
  PROVE  /\ IsFiniteSet(Units(lines, Len(lines), p)) /\ Total(lines, p) \in Nat
         /\ p \notin ProductsOf(lines) => Total(lines, p) = 0
  <1>1. Len(lines) \in 0 .. Len(lines) /\ DOMAIN lines = 1 .. Len(lines)
    BY CartLine
  <1> QED
    BY <1>1, UnitsFinite DEF Total, ProductsOf
-----------------------------------------------------------------------------
(* Type correctness. *)

\* How far a request is determines what it has read, reserved, written and sent.
StageOK(r) ==
  /\ pc[r] \in {"customer", "insert", "email", "reserve", "update", "order", "share", "commit"}
       => snapshot[r] \in Carts \ {<<>>}
  /\ At(r, "reserve") => reserved[r] < Len(snapshot[r])
  /\ pc[r] \in {"update", "order", "share", "commit"} => reserved[r] = Len(snapshot[r])
  /\ At(r, "email") => reserved[r] = IF upsert[r] = "insert" THEN 0 ELSE Len(snapshot[r])
  /\ pc[r] \notin {"email", "reserve", "update", "order", "share", "commit"} => reserved[r] = 0
  /\ upsert[r] \in CASE pc[r] = "email" -> {"insert", "update"}
                     [] pc[r] = "reserve" -> {"none", "insert", "dirty"}
                     [] pc[r] = "update" -> {"dirty"}
                     [] pc[r] \in {"order", "share", "commit"} -> Upserts \ {"dirty"}
                     [] OTHER -> {"none"}
  /\ pc[r] \notin {"publish", "clear", "done"} => sent[r] = 0 /\ r \notin Placed
  /\ pc[r] \notin {"publish", "clear"} => attempts[r] = 0
  /\ At(r, "publish") =>
       r \in Placed /\ attempts[r] < MaxAttempts /\ sent[r] <= attempts[r]
  /\ At(r, "clear") => r \in Placed /\ sent[r] > 0
  /\ sent[r] > 0 => r \in Placed

IInvStages == TypeOK /\ \A r \in Requests : StageOK(r)

LEMMA InitStages == Init => IInvStages
  BY StockAssumption, MirrorAssumption, AttemptsAssumption
  DEF Init, IInvStages, TypeOK, StageOK, Placed, At, Stages, Answers, Upserts

\* A request that reserves has read a cart with a next line.
LEMMA NextLineOf ==
  ASSUME IInvStages, NEW r \in Requests, At(r, "reserve")
  PROVE  /\ snapshot[r] \in Carts \ {<<>>} /\ IsCart(snapshot[r], Products)
         /\ reserved[r] \in Nat /\ Len(snapshot[r]) \in Nat
         /\ reserved[r] + 1 \in 1 .. Len(snapshot[r])
         /\ snapshot[r][reserved[r] + 1].product \in Products
         /\ snapshot[r][reserved[r] + 1].quantity \in Nat \ {0}
         /\ UnitsUpTo(snapshot[r], reserved[r], snapshot[r][reserved[r] + 1].product) \in Nat
  <1>1. /\ snapshot[r] \in Carts \ {<<>>} /\ reserved[r] \in Nat
        /\ reserved[r] < Len(snapshot[r])
    BY DEF IInvStages, TypeOK, StageOK, At
  <1>2. IsCart(snapshot[r], Products)
    BY <1>1, CartsAssumption
  <1>3. Len(snapshot[r]) \in Nat
    BY <1>2, CartLine
  <1>4. reserved[r] + 1 \in 1 .. Len(snapshot[r]) /\ reserved[r] \in 0 .. Len(snapshot[r])
    BY <1>1, <1>3
  <1>5. /\ snapshot[r][reserved[r] + 1].product \in Products
        /\ snapshot[r][reserved[r] + 1].quantity \in Nat \ {0}
    BY <1>2, <1>4, CartLine
  <1>6. \A p : UnitsUpTo(snapshot[r], reserved[r], p) \in Nat
    BY <1>2, <1>4, UnitsFinite
  <1> QED
    BY <1>1, <1>2, <1>3, <1>4, <1>5, <1>6

\* What ending a request does to its own state.
LEMMA EndEffect ==
  ASSUME TypeOK, NEW r \in Requests, NEW how \in Answers,
         NEW order \in Requests \cup {NoOrder}, End(r, how, order)
  PROVE  /\ pc' = [pc EXCEPT ![r] = "done"]
         /\ answer' = [answer EXCEPT ![r] = how]
         /\ reply' = [reply EXCEPT ![r] = order]
         /\ snapshot' = [snapshot EXCEPT ![r] = <<>>]
         /\ reserved' = [reserved EXCEPT ![r] = 0]
         /\ upsert' = [upsert EXCEPT ![r] = "none"]
         /\ attempts' = [attempts EXCEPT ![r] = 0]
         /\ pc' \in [Requests -> Stages]
         /\ answer' \in [Requests -> Answers]
         /\ reply' \in [Requests -> Requests \cup {NoOrder}]
         /\ snapshot' \in [Requests -> Carts \cup {<<>>}]
         /\ reserved' \in [Requests -> Nat]
         /\ upsert' \in [Requests -> Upserts]
         /\ attempts' \in [Requests -> 0..MaxAttempts]
  BY AttemptsAssumption DEF End, Goto, TypeOK, Stages, Upserts

\* A request that is aborted keeps the types and changes nothing else.
LEMMA AbortEffect ==
  ASSUME TypeOK, NEW r \in Requests, NEW how \in Answers, Abort(r, how)
  PROVE  TypeOK' /\ End(r, how, NoOrder) /\ UNCHANGED <<stock, mirror, orders, cart, sent>>
  BY EndEffect DEF Abort, database, TypeOK

\* A statement that writes the customers row, or no row, changes only its request.
LEMMA WriteEffect ==
  ASSUME TypeOK, NEW r \in Requests, NEW how \in Upserts, NEW stage \in Stages,
         Write(r, how, stage)
  PROVE  /\ TypeOK'
         /\ pc' = [pc EXCEPT ![r] = stage] /\ upsert' = [upsert EXCEPT ![r] = how]
         /\ UNCHANGED <<answer, reply, snapshot, reserved, attempts>>
         /\ UNCHANGED <<stock, mirror, orders, cart, sent>>
  BY DEF Write, Goto, database, TypeOK

\* What a commit does to the database.
LEMMA CommitEffect ==
  ASSUME TypeOK, NEW r \in Requests, StageOK(r), At(r, "commit"), CommitRows(r)
  PROVE  /\ snapshot[r] \in Carts \ {<<>>}
         /\ \A p \in Products : Total(snapshot[r], p) \in Nat
         /\ orders' = [orders EXCEPT ![r] = snapshot[r]]
         /\ stock' \in [Products -> Int]
         /\ mirror' \in [Customers -> Emails \cup {NoEmail}]
         /\ orders' \in [Requests -> Carts \cup {NoOrder}]
  <1>1. snapshot[r] \in Carts \ {<<>>}
    BY DEF StageOK, At
  <1>2. \A p \in Products : Total(snapshot[r], p) \in Nat
    BY <1>1, CartsAssumption, TotalNat
  <1>3. stock' \in [Products -> Int]
    BY <1>2 DEF CommitRows, TypeOK
  <1>4. mirror' \in [Customers -> Emails \cup {NoEmail}]
    BY RequestsAssumption DEF CommitRows, TypeOK
  <1> QED
    BY <1>1, <1>2, <1>3, <1>4 DEF CommitRows, TypeOK

\* Every step keeps the types.
LEMMA NextTypes == IInvStages /\ [Next]_vars => TypeOK'
  <1> SUFFICES ASSUME IInvStages, [Next]_vars
               PROVE  TypeOK'
    OBVIOUS
  <1>t. TypeOK /\ \A r \in Requests : StageOK(r)
    BY DEF IInvStages
  <1>1. ASSUME NEW r \in Requests, Arrive(r)
        PROVE  TypeOK'
    BY <1>1, <1>t, AbortEffect, AttemptsAssumption, RequestsAssumption
    DEF Arrive, TypeOK, Goto, database, Stages, Answers
  <1>2. ASSUME NEW r \in Requests, Lookup(r)
        PROVE  TypeOK'
    BY <1>2, <1>t, EndEffect, AttemptsAssumption, RequestsAssumption
    DEF Lookup, TypeOK, Goto, database, Stages, OrdersWithKeyOf, Answers, Placed
  <1>3. ASSUME NEW r \in Requests, ReadCart(r)
        PROVE  TypeOK'
    BY <1>3, <1>t, AbortEffect, AttemptsAssumption, RequestsAssumption
    DEF ReadCart, TypeOK, Goto, database, Stages, Answers, At
  <1>4. ASSUME NEW r \in Requests, GetCustomer(r)
        PROVE  TypeOK'
    BY <1>4, <1>t, AbortEffect, AttemptsAssumption, RequestsAssumption
    DEF GetCustomer, TypeOK, Goto, database, Stages, Answers, Upserts
  <1>5. ASSUME NEW r \in Requests, InsertCustomer(r)
        PROVE  TypeOK'
    <2>1. CASE Abort(r, "integrity")
      BY <2>1, <1>t, AbortEffect DEF Answers
    <2>2. CASE ~Abort(r, "integrity")
      <3>1. PICK how \in Upserts, stage \in Stages : Write(r, how, stage)
        BY <1>5, <2>2, <1>t DEF InsertCustomer, TypeOK, Stages, Upserts
      <3> QED
        BY <3>1, <1>t, WriteEffect
    <2> QED
      BY <2>1, <2>2
  <1>6. ASSUME NEW r \in Requests, Reserve(r)
        PROVE  TypeOK'
    <2>1. CASE Abort(r, "conflict")
      BY <2>1, <1>t, AbortEffect DEF Answers
    <2>2. CASE ~Abort(r, "conflict")
      <3>1. /\ reserved' = [reserved EXCEPT ![r] = @ + 1]
            /\ \E stage \in Stages : pc' = [pc EXCEPT ![r] = stage]
            /\ UNCHANGED <<answer, reply, snapshot, upsert, attempts, cart, sent>>
            /\ UNCHANGED <<stock, mirror, orders>>
        BY <1>6, <2>2 DEF Reserve, Goto, database, Stages
      <3> QED
        BY <3>1, <1>t DEF TypeOK
    <2> QED
      BY <2>1, <2>2
  <1>7. ASSUME NEW r \in Requests, IndexEmail(r)
        PROVE  TypeOK'
    <2>1. CASE Abort(r, "integrity")
      BY <2>1, <1>t, AbortEffect DEF Answers
    <2>2. CASE ~Abort(r, "integrity")
      <3>1. PICK how \in Upserts, stage \in Stages : Write(r, how, stage)
        BY <1>7, <2>2, <1>t DEF IndexEmail, TypeOK, Stages, Upserts
      <3> QED
        BY <3>1, <1>t, WriteEffect
    <2> QED
      BY <2>1, <2>2
  <1>8. ASSUME NEW r \in Requests, UpdateCustomer(r)
        PROVE  TypeOK'
    <2>1. CASE Abort(r, "integrity")
      BY <2>1, <1>t, AbortEffect DEF Answers
    <2>2. CASE ~Abort(r, "integrity")
      <3>1. PICK how \in Upserts, stage \in Stages : Write(r, how, stage)
        BY <1>8, <2>2, <1>t DEF UpdateCustomer, TypeOK, Stages, Upserts
      <3> QED
        BY <3>1, <1>t, WriteEffect
    <2> QED
      BY <2>1, <2>2
  <1>9. ASSUME NEW r \in Requests, InsertOrder(r)
        PROVE  TypeOK'
    <2>1. CASE Abort(r, "integrity")
      BY <2>1, <1>t, AbortEffect DEF Answers
    <2>2. CASE ~Abort(r, "integrity")
      <3>1. PICK how \in Upserts, stage \in Stages : Write(r, how, stage)
        BY <1>9, <2>2, <1>t DEF InsertOrder, TypeOK, Stages, Upserts
      <3> QED
        BY <3>1, <1>t, WriteEffect
    <2> QED
      BY <2>1, <2>2
  <1>10. ASSUME NEW r \in Requests, ShareCustomer(r)
        PROVE  TypeOK'
    <2>1. CASE Abort(r, "integrity")
      BY <2>1, <1>t, AbortEffect DEF Answers
    <2>2. CASE ~Abort(r, "integrity")
      <3>1. PICK how \in Upserts, stage \in Stages : Write(r, how, stage)
        BY <1>10, <2>2, <1>t DEF ShareCustomer, TypeOK, Stages, Upserts
      <3> QED
        BY <3>1, <1>t, WriteEffect
    <2> QED
      BY <2>1, <2>2
  <1>11. ASSUME NEW r \in Requests, Commit(r)
        PROVE  TypeOK'
    <2>1. StageOK(r) /\ At(r, "commit") /\ CommitRows(r)
      BY <1>11, <1>t DEF Commit
    <2> QED
      BY <1>11, <2>1, <1>t, CommitEffect DEF Commit, TypeOK, Goto, Stages, Upserts
  <1>12. ASSUME NEW r \in Requests, CommitUnacknowledged(r)
        PROVE  TypeOK'
    <2>1. StageOK(r) /\ At(r, "commit") /\ CommitRows(r)
      BY <1>12, <1>t DEF CommitUnacknowledged
    <2> QED
      BY <1>12, <2>1, <1>t, CommitEffect, EndEffect
      DEF CommitUnacknowledged, TypeOK, Answers
  <1>13. ASSUME NEW r \in Requests, SendSucceeds(r)
        PROVE  TypeOK'
    BY <1>13, <1>t, AbortEffect, AttemptsAssumption, RequestsAssumption
    DEF SendSucceeds, TypeOK, Goto, database, Stages, Answers, StageOK, At
  <1>14. ASSUME NEW r \in Requests, SendRaises(r)
        PROVE  TypeOK'
    <2>1. sent[r] + 0 \in 0..MaxAttempts /\ sent[r] + 1 \in 0..MaxAttempts
      BY <1>14, <1>t, AttemptsAssumption DEF SendRaises, StageOK, TypeOK, At
    <2>2. sent' \in [Requests -> 0..MaxAttempts]
      BY <1>14, <2>1, <1>t DEF SendRaises, TypeOK
    <2>3. CASE attempts[r] + 1 = MaxAttempts
      BY <1>14, <2>2, <2>3, <1>t, EndEffect DEF SendRaises, TypeOK, database, Answers
    <2>4. CASE attempts[r] + 1 # MaxAttempts
      <3>1. attempts[r] + 1 \in 0..MaxAttempts
        BY <1>14, <1>t, AttemptsAssumption DEF SendRaises, StageOK, TypeOK, At
      <3> QED
        BY <1>14, <2>2, <2>4, <3>1, <1>t DEF SendRaises, TypeOK, database
    <2> QED
      BY <2>3, <2>4
  <1>15. ASSUME NEW r \in Requests, ClearCart(r)
        PROVE  TypeOK'
    BY <1>15, <1>t, EndEffect, AttemptsAssumption, RequestsAssumption
    DEF ClearCart, TypeOK, Goto, database, Stages, Answers
  <1>16. ASSUME NEW r \in Requests, ClearUnacknowledged(r)
        PROVE  TypeOK'
    BY <1>16, <1>t, EndEffect DEF ClearUnacknowledged, TypeOK, database, Answers
  <1>17. ASSUME NEW r \in Requests, DeadlockVictim(r)
        PROVE  TypeOK'
    BY <1>17, <1>t, AbortEffect, AttemptsAssumption, RequestsAssumption
    DEF DeadlockVictim, TypeOK, Goto, database, Stages, Answers
  <1>18. ASSUME NEW r \in Requests, Fail(r)
        PROVE  TypeOK'
    BY <1>18, <1>t, AbortEffect, AttemptsAssumption, RequestsAssumption
    DEF Fail, TypeOK, Goto, database, Stages, Answers
  <1>19. ASSUME NEW r \in Requests, Crash(r)
        PROVE  TypeOK'
    BY <1>19, <1>t, AbortEffect, AttemptsAssumption, RequestsAssumption
    DEF Crash, TypeOK, Goto, database, Stages, Answers
  <1>20. ASSUME NEW c \in Customers, EditCart(c)
         PROVE  TypeOK'
    BY <1>20, <1>t DEF EditCart, TypeOK, local, database
  <1>21. CASE UNCHANGED vars
    BY <1>21, <1>t DEF vars, local, database, TypeOK
  <1> QED
    BY <1>1, <1>2, <1>3, <1>4, <1>5, <1>6, <1>7, <1>8, <1>9, <1>10, <1>16, <1>11, <1>12,
       <1>13, <1>14, <1>15, <1>17,
       <1>18, <1>19, <1>20, <1>21 DEF Next, Step
-----------------------------------------------------------------------------
(* The bookkeeping of the stages. *)

\* Every step of request r.
Advance(r) ==
  \/ Arrive(r) \/ Step(r) \/ CommitUnacknowledged(r) \/ ClearUnacknowledged(r)
  \/ Fail(r) \/ Crash(r)

\* Nothing of request x changes, nor its order or its messages.
Untouched(x) ==
  /\ pc'[x] = pc[x] /\ snapshot'[x] = snapshot[x] /\ reserved'[x] = reserved[x]
  /\ upsert'[x] = upsert[x] /\ attempts'[x] = attempts[x]
  /\ sent'[x] = sent[x] /\ orders'[x] = orders[x]

\* A step of one request leaves the others alone.
LEMMA OthersUntouched ==
  ASSUME IInvStages, NEW r \in Requests, Advance(r), NEW x \in Requests \ {r}
  PROVE  Untouched(x)
  <1>1. CASE Arrive(r)
    BY <1>1 DEF Arrive, Untouched, IInvStages, TypeOK, Abort, End, Goto, database
  <1>2. CASE Lookup(r)
    BY <1>2 DEF Lookup, Untouched, IInvStages, TypeOK, Abort, End, Goto, database
  <1>3. CASE ReadCart(r)
    BY <1>3 DEF ReadCart, Untouched, IInvStages, TypeOK, Abort, End, Goto, database
  <1>4. CASE GetCustomer(r)
    BY <1>4 DEF GetCustomer, Untouched, IInvStages, TypeOK, Abort, End, Goto, database
  <1>5. CASE InsertCustomer(r)
    BY <1>5 DEF InsertCustomer, Write, Untouched, IInvStages, TypeOK, Abort, End, Goto, database
  <1>6. CASE Reserve(r)
    BY <1>6 DEF Reserve, Untouched, IInvStages, TypeOK, Abort, End, Goto, database
  <1>7. CASE IndexEmail(r)
    BY <1>7 DEF IndexEmail, Write, Untouched, IInvStages, TypeOK, Abort, End, Goto, database
  <1>8. CASE UpdateCustomer(r)
    BY <1>8 DEF UpdateCustomer, Write, Untouched, IInvStages, TypeOK, Abort, End, Goto, database
  <1>9. CASE InsertOrder(r)
    BY <1>9 DEF InsertOrder, Write, Untouched, IInvStages, TypeOK, Abort, End, Goto, database
  <1>10. CASE ShareCustomer(r)
    BY <1>10 DEF ShareCustomer, Write, Untouched, IInvStages, TypeOK, Abort, End, Goto, database
  <1>11. CASE Commit(r)
    BY <1>11 DEF Commit, Untouched, IInvStages, TypeOK, Abort, End, Goto, database, CommitRows
  <1>12. CASE CommitUnacknowledged(r)
    BY <1>12 DEF CommitUnacknowledged, Untouched, IInvStages, TypeOK, Abort, End, Goto,
       database, CommitRows
  <1>13. CASE SendSucceeds(r)
    BY <1>13 DEF SendSucceeds, Untouched, IInvStages, TypeOK, Abort, End, Goto, database
  <1>14. CASE SendRaises(r)
    BY <1>14 DEF SendRaises, Untouched, IInvStages, TypeOK, Abort, End, Goto, database
  <1>15. CASE ClearCart(r)
    BY <1>15 DEF ClearCart, Untouched, IInvStages, TypeOK, Abort, End, Goto, database
  <1>16. CASE ClearUnacknowledged(r)
    BY <1>16 DEF ClearUnacknowledged, Untouched, IInvStages, TypeOK, Abort, End, Goto, database
  <1>17. CASE DeadlockVictim(r)
    BY <1>17 DEF DeadlockVictim, Untouched, IInvStages, TypeOK, Abort, End, Goto, database
  <1>18. CASE Fail(r)
    BY <1>18 DEF Fail, Untouched, IInvStages, TypeOK, Abort, End, Goto, database
  <1>19. CASE Crash(r)
    BY <1>19 DEF Crash, Untouched, IInvStages, TypeOK, Abort, End, Goto, database
  <1> QED
    BY <1>1, <1>2, <1>3, <1>4, <1>5, <1>6, <1>7, <1>8, <1>9, <1>10, <1>16, <1>11, <1>12,
       <1>13, <1>14, <1>15, <1>17,
       <1>18, <1>19 DEF Advance, Step

\* An ended request needs only its messages to belong to a placed order.
LEMMA EndKeepsStage ==
  ASSUME IInvStages, NEW r \in Requests, NEW how \in Answers,
         NEW order \in Requests \cup {NoOrder}, End(r, how, order),
         sent'[r] > 0 => r \in Placed'
  PROVE  StageOK(r)'
  <1>1. pc'[r] = "done" /\ reserved'[r] = 0 /\ attempts'[r] = 0 /\ upsert'[r] = "none"
    BY EndEffect DEF IInvStages, TypeOK
  <1> QED
    BY <1>1 DEF StageOK, At

LEMMA AbortKeepsStage ==
  ASSUME IInvStages, NEW r \in Requests, NEW how \in Answers, Abort(r, how)
  PROVE  StageOK(r)'
  <1>1. End(r, how, NoOrder) /\ UNCHANGED <<orders, sent>>
    BY DEF Abort, database
  <1>2. sent'[r] > 0 => r \in Placed'
    BY <1>1 DEF IInvStages, StageOK, Placed
  <1> QED
    BY <1>1, <1>2, EndKeepsStage

\* A cart that was read has a line.
LEMMA NonemptyCart ==
  ASSUME NEW lines \in Carts \ {<<>>}
  PROVE  Len(lines) \in Nat /\ 0 < Len(lines)
  <1>1. lines \in Seq([product : Products, quantity : Nat \ {0}])
    BY CartsAssumption DEF IsCart
  <1> QED
    BY <1>1, EmptySeq, LenProperties

\* A step leaves its own request in a stage whose bookkeeping is right.
LEMMA OwnStage ==
  ASSUME IInvStages, NEW r \in Requests, Advance(r)
  PROVE  StageOK(r)'
  <1>t. TypeOK /\ StageOK(r)
    BY DEF IInvStages
  <1>1. CASE Arrive(r)
    BY <1>1, <1>t, AbortKeepsStage, EndKeepsStage
    DEF Arrive, TypeOK, StageOK, Placed, At, Goto, Answers, database
  <1>2. CASE Lookup(r)
    <2>1. CASE \E o \in OrdersWithKeyOf(r) :
                 End(r, "replayed", o) /\ UNCHANGED <<database, cart, sent>>
      <3>1. PICK o \in OrdersWithKeyOf(r) :
              End(r, "replayed", o) /\ UNCHANGED <<database, cart, sent>>
        BY <2>1
      <3>2. o \in Requests
        BY DEF OrdersWithKeyOf, Placed
      <3>3. sent'[r] > 0 => r \in Placed'
        BY <3>1, <1>t DEF StageOK, Placed, database
      <3> QED
        BY <3>1, <3>2, <3>3, EndKeepsStage DEF Answers
    <2>2. CASE Goto(r, "read") /\ UNCHANGED <<snapshot, reserved, upsert, attempts, orders, sent>>
      BY <1>2, <2>2, <1>t DEF Lookup, TypeOK, StageOK, Placed, At, Goto
    <2> QED
      BY <1>2, <2>1, <2>2 DEF Lookup, database
  <1>3. CASE ReadCart(r)
    <2>1. CASE \E how \in {"empty", "invalid"} : Abort(r, how)
      BY <2>1, AbortKeepsStage DEF Answers
    <2>2. CASE ~ \E how \in {"empty", "invalid"} : Abort(r, how)
      <3>1. /\ cart[CustomerOf[r]] \in Carts \ {<<>>}
            /\ snapshot' = [snapshot EXCEPT ![r] = cart[CustomerOf[r]]]
            /\ pc[r] = "read" /\ pc' = [pc EXCEPT ![r] = "customer"]
            /\ UNCHANGED <<reserved, upsert, attempts, orders, sent>>
        BY <1>3, <2>2, <1>t, RequestsAssumption DEF ReadCart, TypeOK, At, Goto, database
      <3> QED
        BY <3>1, <1>t DEF TypeOK, StageOK, Placed, At
    <2> QED
      BY <2>1, <2>2
  <1>4. CASE GetCustomer(r)
    <2>1. /\ pc[r] = "customer"
          /\ \/ pc'[r] = "insert" /\ upsert'[r] = "none"
             \/ pc'[r] = "reserve" /\ upsert'[r] \in {"none", "dirty"}
          /\ UNCHANGED <<snapshot, reserved, attempts, orders, sent>>
      BY <1>4, <1>t DEF GetCustomer, EmailDiffers, At, Goto, TypeOK, database
    <2>2. reserved[r] = 0 /\ snapshot[r] \in Carts \ {<<>>} /\ 0 < Len(snapshot[r])
      BY <2>1, <1>t, NonemptyCart DEF StageOK
    <2> QED
      BY <2>1, <2>2, <1>t DEF StageOK, Placed, At
  <1>5. CASE InsertCustomer(r)
    <2>1. CASE Abort(r, "integrity")
      BY <2>1, AbortKeepsStage DEF Answers
    <2>2. CASE ~Abort(r, "integrity")
      <3>1. /\ pc[r] = "insert" /\ pc'[r] = "email" /\ upsert'[r] = "insert"
            /\ UNCHANGED <<snapshot, reserved, attempts, orders, sent>>
        BY <1>5, <2>2, <1>t DEF InsertCustomer, Write, Goto, At, TypeOK, StageOK, database
      <3> QED
        BY <3>1, <1>t, NonemptyCart DEF StageOK, Placed, At, Upserts
    <2> QED
      BY <2>1, <2>2
  <1>6. CASE Reserve(r)
    <2>1. CASE Abort(r, "conflict")
      BY <2>1, AbortKeepsStage DEF Answers
    <2>2. CASE ~Abort(r, "conflict")
      <3>1. /\ At(r, "reserve") /\ reserved'[r] = reserved[r] + 1
            /\ pc'[r] = IF reserved[r] + 1 < Len(snapshot[r]) THEN "reserve"
                        ELSE IF upsert[r] = "dirty" THEN "update" ELSE "order"
            /\ UNCHANGED <<snapshot, upsert, attempts, orders, sent>>
        BY <1>6, <2>2, <1>t DEF Reserve, Goto, TypeOK, database
      <3>2. /\ snapshot[r] \in Carts \ {<<>>}
            /\ \/ reserved'[r] < Len(snapshot[r]) /\ pc'[r] = "reserve"
               \/ reserved'[r] = Len(snapshot[r]) /\ pc'[r] = "update" /\ upsert[r] = "dirty"
               \/ reserved'[r] = Len(snapshot[r]) /\ pc'[r] = "order" /\ upsert[r] # "dirty"
        BY <3>1, NextLineOf
      <3>3. /\ snapshot'[r] = snapshot[r] /\ upsert'[r] = upsert[r]
            /\ attempts'[r] = 0 /\ sent'[r] = 0 /\ r \notin Placed'
            /\ upsert[r] \in {"none", "insert", "dirty"}
        BY <3>1, <1>t DEF StageOK, Placed, At
      <3>4. CASE pc'[r] = "reserve"
        BY <3>2, <3>3, <3>4 DEF StageOK, At
      <3>5. CASE pc'[r] = "update"
        BY <3>2, <3>3, <3>5 DEF StageOK, At
      <3>6. CASE pc'[r] = "order"
        BY <3>2, <3>3, <3>6 DEF StageOK, At, Upserts
      <3> QED
        BY <3>2, <3>4, <3>5, <3>6
    <2> QED
      BY <2>1, <2>2
  <1>7. CASE IndexEmail(r)
    <2>1. CASE Abort(r, "integrity")
      BY <2>1, AbortKeepsStage DEF Answers
    <2>2. CASE ~Abort(r, "integrity")
      <3>1. /\ pc[r] = "email" /\ upsert'[r] = upsert[r]
            /\ \/ upsert[r] = "insert" /\ pc'[r] = "reserve"
               \/ upsert[r] = "update" /\ pc'[r] = "order"
            /\ UNCHANGED <<snapshot, reserved, attempts, orders, sent>>
        BY <1>7, <2>2, <1>t DEF IndexEmail, Write, Goto, At, TypeOK, StageOK, database
      <3> QED
        BY <3>1, <1>t, NonemptyCart DEF StageOK, Placed, At, Upserts
    <2> QED
      BY <2>1, <2>2
  <1>8. CASE UpdateCustomer(r)
    <2>1. CASE Abort(r, "integrity")
      BY <2>1, AbortKeepsStage DEF Answers
    <2>2. CASE ~Abort(r, "integrity")
      <3>1. /\ pc[r] = "update"
            /\ \/ upsert'[r] = "update" /\ pc'[r] = "email"
               \/ upsert'[r] = "same" /\ pc'[r] = "order"
            /\ UNCHANGED <<snapshot, reserved, attempts, orders, sent>>
        BY <1>8, <2>2, <1>t DEF UpdateCustomer, Write, Goto, At, TypeOK, StageOK, database
      <3> QED
        BY <3>1, <1>t, NonemptyCart DEF StageOK, Placed, At, Upserts
    <2> QED
      BY <2>1, <2>2
  <1>9. CASE InsertOrder(r)
    <2>1. CASE Abort(r, "integrity")
      BY <2>1, AbortKeepsStage DEF Answers
    <2>2. CASE ~Abort(r, "integrity")
      <3>1. /\ pc[r] = "order" /\ upsert'[r] = upsert[r] /\ pc'[r] = "share"
            /\ UNCHANGED <<snapshot, reserved, attempts, orders, sent>>
        BY <1>9, <2>2, <1>t DEF InsertOrder, Write, Goto, At, TypeOK, StageOK, database
      <3> QED
        BY <3>1, <1>t, NonemptyCart DEF StageOK, Placed, At, Upserts
    <2> QED
      BY <2>1, <2>2
  <1>10. CASE ShareCustomer(r)
    <2>1. CASE Abort(r, "integrity")
      BY <2>1, AbortKeepsStage DEF Answers
    <2>2. CASE ~Abort(r, "integrity")
      <3>1. /\ pc[r] = "share" /\ upsert'[r] = upsert[r] /\ pc'[r] = "commit"
            /\ UNCHANGED <<snapshot, reserved, attempts, orders, sent>>
        BY <1>10, <2>2, <1>t DEF ShareCustomer, Write, Goto, At, TypeOK, StageOK, database
      <3> QED
        BY <3>1, <1>t, NonemptyCart DEF StageOK, Placed, At, Upserts
    <2> QED
      BY <2>1, <2>2
  <1>11. CASE Commit(r)
    <2>1. snapshot[r] # NoOrder /\ orders'[r] = snapshot[r] /\ pc[r] = "commit"
      BY <1>11, <1>t, CommitEffect, NoOrderAssumption DEF Commit, TypeOK, At
    <2>2. /\ pc'[r] = "publish" /\ reserved'[r] = 0 /\ upsert'[r] = "none"
          /\ attempts'[r] = attempts[r] /\ sent'[r] = sent[r]
      BY <1>11, <1>t DEF Commit, Goto, TypeOK
    <2>3. attempts[r] = 0 /\ sent[r] = 0
      BY <2>1, <1>t DEF StageOK
    <2>4. r \in Placed'
      BY <2>1 DEF Placed
    <2> QED
      BY <2>2, <2>3, <2>4, AttemptsAssumption DEF StageOK, At
  <1>12. CASE CommitUnacknowledged(r)
    BY <1>12, <1>t, AbortKeepsStage, EndKeepsStage
    DEF CommitUnacknowledged, TypeOK, StageOK, Placed, At, Goto, Answers, database
  <1>13. CASE SendSucceeds(r)
    BY <1>13, <1>t, AbortKeepsStage, EndKeepsStage
    DEF SendSucceeds, TypeOK, StageOK, Placed, At, Goto, Answers, database
  <1>14. CASE SendRaises(r)
    <2>1. orders' = orders /\ r \in Placed'
      BY <1>14, <1>t DEF SendRaises, StageOK, Placed, database
    <2>2. CASE attempts[r] + 1 = MaxAttempts
      BY <1>14, <2>1, <2>2, EndKeepsStage DEF SendRaises, Answers
    <2>3. CASE attempts[r] + 1 # MaxAttempts
      <3>1. /\ pc'[r] = "publish" /\ reserved'[r] = reserved[r] /\ upsert'[r] = upsert[r]
            /\ attempts'[r] = attempts[r] + 1
            /\ sent'[r] \in {sent[r] + 0, sent[r] + 1}
        BY <1>14, <2>3, <1>t DEF SendRaises, TypeOK, At
      <3>2. reserved[r] = 0 /\ upsert[r] = "none" /\ attempts[r] + 1 < MaxAttempts /\ sent[r] <= attempts[r]
        BY <1>14, <2>3, <1>t, AttemptsAssumption DEF SendRaises, StageOK, At, TypeOK
      <3>3. sent[r] \in Nat /\ attempts[r] \in Nat
        BY <1>t DEF TypeOK
      <3> QED
        BY <2>1, <3>1, <3>2, <3>3, AttemptsAssumption DEF StageOK, At
    <2> QED
      BY <2>2, <2>3
  <1>15. CASE ClearCart(r)
    BY <1>15, <1>t, AbortKeepsStage, EndKeepsStage
    DEF ClearCart, TypeOK, StageOK, Placed, At, Goto, Answers, database
  <1>16. CASE ClearUnacknowledged(r)
    <2>1. orders' = orders /\ r \in Placed'
      BY <1>16, <1>t DEF ClearUnacknowledged, StageOK, Placed, database
    <2> QED
      BY <1>16, <2>1, EndKeepsStage DEF ClearUnacknowledged, Answers
  <1>17. CASE DeadlockVictim(r)
    BY <1>17, <1>t, AbortKeepsStage, EndKeepsStage
    DEF DeadlockVictim, TypeOK, StageOK, Placed, At, Goto, Answers, database
  <1>18. CASE Fail(r)
    BY <1>18, <1>t, AbortKeepsStage, EndKeepsStage
    DEF Fail, TypeOK, StageOK, Placed, At, Goto, Answers, database
  <1>19. CASE Crash(r)
    BY <1>19, <1>t, AbortKeepsStage, EndKeepsStage
    DEF Crash, TypeOK, StageOK, Placed, At, Goto, Answers, database
  <1> QED
    BY <1>1, <1>2, <1>3, <1>4, <1>5, <1>6, <1>7, <1>8, <1>9, <1>10, <1>16, <1>11, <1>12,
       <1>13, <1>14, <1>15, <1>17,
       <1>18, <1>19 DEF Advance, Step

\* Types and bookkeeping are inductive.
LEMMA NextStages == IInvStages /\ [Next]_vars => IInvStages'
  <1> SUFFICES ASSUME IInvStages, [Next]_vars
               PROVE  IInvStages'
    OBVIOUS
  <1>1. TypeOK'
    BY NextTypes
  <1>2. ASSUME NEW r \in Requests, Advance(r), NEW x \in Requests
        PROVE  StageOK(x)'
    <2>1. CASE x = r
      BY <1>2, <2>1, OwnStage
    <2>2. CASE x # r
      <3>1. Untouched(x)
        BY <1>2, <2>2, OthersUntouched
      <3> QED
        BY <3>1 DEF IInvStages, Untouched, StageOK, Placed, At
    <2> QED
      BY <2>1, <2>2
  <1>3. CASE \E r \in Requests : Advance(r)
    BY <1>1, <1>2, <1>3 DEF IInvStages
  <1>4. CASE (\E c \in Customers : EditCart(c)) \/ UNCHANGED vars
    <2>1. UNCHANGED <<pc, snapshot, reserved, upsert, attempts, sent, orders>>
      BY <1>4 DEF EditCart, vars, local, database
    <2> QED
      BY <1>1, <2>1 DEF IInvStages, StageOK, Placed, At
  <1> QED
    BY <1>3, <1>4 DEF Next, Advance

\* Type correctness of the checkout service (TypeOK of Checkout), with it the
\* bound on the messages sent for one order.
THEOREM TypeCorrect == Spec => []TypeOK
  <1>1. IInvStages => TypeOK
    BY DEF IInvStages
  <1> QED
    BY <1>1, InitStages, NextStages, PTL DEF Spec

\* The invoice queue is told only about committed orders (AwsSqsPublisher is
\* called after session_scope has committed).
THEOREM InvoicedOrdersExistAlways == Spec => []InvoicedOrdersExist
  <1>1. IInvStages => InvoicedOrdersExist
    BY DEF IInvStages, StageOK, InvoicedOrdersExist
  <1> QED
    BY <1>1, InitStages, NextStages, PTL DEF Spec
-----------------------------------------------------------------------------
(* Stock. *)

\* A request's transaction keeps the inventory row locked.
Keeps(r) ==
  /\ UNCHANGED stock
  /\ \/ Held(r)' = Held(r) /\ snapshot'[r] = snapshot[r] /\ reserved'[r] = reserved[r]
     \/ Held(r)' = {}

\* What r has taken from the row of p.
TakenBy(r, p) == UnitsUpTo(snapshot[r], reserved[r], p)

\* It writes the row of one more line, whose stock covers what r takes of it.
Takes(r) ==
  /\ UNCHANGED stock
  /\ \E p \in Products :
       /\ Held(r)' = Held(r) \cup {p}
       /\ \A x \in Requests \ {r} : p \notin Held(x)
       /\ TakenBy(r, p)' <= stock[p]
       /\ \A q \in Products \ {p} : TakenBy(r, q)' = TakenBy(r, q)

\* It commits, and releases its rows.
Sells(r) == At(r, "commit") /\ CommitRows(r) /\ Held(r)' = {}

\* A request with nothing reserved holds no row.
LEMMA NothingHeld == ASSUME NEW r, reserved[r] = 0 PROVE Held(r) = {}
  <1>1. 1..0 = {}
    OBVIOUS
  <1> QED
    BY <1>1 DEF Held

\* Ending a request releases its rows.
LEMMA EndReleases ==
  ASSUME IInvStages, NEW r \in Requests, NEW how \in Answers,
         NEW order \in Requests \cup {NoOrder}, End(r, how, order)
  PROVE  Held(r)' = {}
  <1>1. reserved'[r] = 0
    BY EndEffect DEF IInvStages, TypeOK
  <1> QED
    BY <1>1 DEF Held

LEMMA AbortReleases ==
  ASSUME IInvStages, NEW r \in Requests, NEW how \in Answers, Abort(r, how)
  PROVE  Keeps(r)
  <1>1. End(r, how, NoOrder) /\ UNCHANGED stock
    BY DEF Abort, database
  <1> QED
    BY <1>1, EndReleases DEF Keeps

\* Taking the next line: the step of reserve_inventory that finds enough stock.
LEMMA ReserveTakes ==
  ASSUME IInvStages, NEW r \in Requests, Reserve(r)
  PROVE  Keeps(r) \/ Takes(r)
  <1> DEFINE n == reserved[r] + 1
             item == snapshot[r][n]
  <1>1. CASE Abort(r, "conflict")
    BY <1>1, AbortReleases DEF Answers
  <1>2. CASE ~Abort(r, "conflict")
    <2>1. PICK p, k : p = item.product /\ k = item.quantity
      OBVIOUS
    <2>2. /\ At(r, "reserve") /\ ~Blocked(r)
          /\ ~(stock[p] - TakenBy(r, p) < k)
          /\ reserved' = [reserved EXCEPT ![r] = n]
          /\ UNCHANGED <<snapshot, stock>>
      BY <1>2, <2>1 DEF Reserve, database, TakenBy
    <2>3. /\ IsCart(snapshot[r], Products) /\ reserved[r] \in Nat /\ reserved[r] < Len(snapshot[r])
          /\ p \in Products /\ k \in Nat \ {0} /\ TakenBy(r, p) \in Nat
      BY <2>1, <2>2, NextLineOf DEF TakenBy
    <2>4. reserved'[r] = n /\ stock[p] \in Int
      BY <2>2, <2>3 DEF IInvStages, TypeOK
    <2>5. TakenBy(r, p) + k <= stock[p] /\ k <= stock[p]
      BY <2>2, <2>3, <2>4
    <2>6. Held(r)' = Held(r) \cup {p}
      <3>1. 1..reserved'[r] = (1..reserved[r]) \cup {n}
        BY <2>3, <2>4
      <3> QED
        BY <2>1, <2>2, <3>1 DEF Held
    <2>7. \A q : TakenBy(r, q)' = TakenBy(r, q) + (IF p = q THEN k ELSE 0)
      BY <2>1, <2>2, <2>3, <2>4, NextLine DEF TakenBy
    <2>8. \A q \in Products : TakenBy(r, q) \in Nat
      <3>1. reserved[r] \in 0 .. Len(snapshot[r])
        BY <2>3, CartLine
      <3> QED
        BY <2>3, <3>1, UnitsFinite DEF TakenBy
    <2>9. \A x \in Requests \ {r} : p \notin Held(x)
      BY <2>1, <2>2, <2>3, <2>4, <2>5 DEF Blocked, WaitsFor, WaitsForStock
    <2>10. TakenBy(r, p)' <= stock[p] /\ \A q \in Products \ {p} : TakenBy(r, q)' = TakenBy(r, q)
      BY <2>3, <2>5, <2>7, <2>8
    <2> QED
      BY <2>2, <2>3, <2>6, <2>9, <2>10 DEF Takes
  <1> QED
    BY <1>1, <1>2

\* What a step of r does to stock and to the rows r holds.
LEMMA StockEffect ==
  ASSUME IInvStages, NEW r \in Requests, Advance(r)
  PROVE  Keeps(r) \/ Takes(r) \/ Sells(r)
  <1>1. CASE Arrive(r)
    BY <1>1, AbortReleases, EndReleases
    DEF Arrive, Keeps, Held, Answers, OrdersWithKeyOf, Placed, database
  <1>2. CASE Lookup(r)
    BY <1>2, AbortReleases, EndReleases
    DEF Lookup, Keeps, Held, Answers, OrdersWithKeyOf, Placed, database
  <1>3. CASE ReadCart(r)
    <2>1. CASE \E how \in {"empty", "invalid"} : Abort(r, how)
      BY <2>1, AbortReleases DEF Answers
    <2>2. CASE ~ \E how \in {"empty", "invalid"} : Abort(r, how)
      <3>1. reserved'[r] = 0 /\ UNCHANGED stock
        BY <1>3, <2>2 DEF ReadCart, IInvStages, StageOK, At, database
      <3> QED
        BY <3>1, NothingHeld DEF Keeps, Held
    <2> QED
      BY <2>1, <2>2
  <1>4. CASE GetCustomer(r)
    BY <1>4, AbortReleases, EndReleases
    DEF GetCustomer, Keeps, Held, Answers, OrdersWithKeyOf, Placed, database
  <1>5. CASE InsertCustomer(r)
    <2>1. CASE Abort(r, "integrity")
      BY <2>1, AbortReleases DEF Answers
    <2>2. CASE ~Abort(r, "integrity")
      <3>1. UNCHANGED <<reserved, snapshot, stock>>
        BY <1>5, <2>2 DEF InsertCustomer, Write, database
      <3> QED
        BY <3>1 DEF Keeps, Held
    <2> QED
      BY <2>1, <2>2
  <1>6. CASE IndexEmail(r)
    <2>1. CASE Abort(r, "integrity")
      BY <2>1, AbortReleases DEF Answers
    <2>2. CASE ~Abort(r, "integrity")
      <3>1. UNCHANGED <<reserved, snapshot, stock>>
        BY <1>6, <2>2 DEF IndexEmail, Write, database
      <3> QED
        BY <3>1 DEF Keeps, Held
    <2> QED
      BY <2>1, <2>2
  <1>7. CASE UpdateCustomer(r)
    <2>1. CASE Abort(r, "integrity")
      BY <2>1, AbortReleases DEF Answers
    <2>2. CASE ~Abort(r, "integrity")
      <3>1. UNCHANGED <<reserved, snapshot, stock>>
        BY <1>7, <2>2 DEF UpdateCustomer, Write, database
      <3> QED
        BY <3>1 DEF Keeps, Held
    <2> QED
      BY <2>1, <2>2
  <1>8. CASE InsertOrder(r)
    <2>1. CASE Abort(r, "integrity")
      BY <2>1, AbortReleases DEF Answers
    <2>2. CASE ~Abort(r, "integrity")
      <3>1. UNCHANGED <<reserved, snapshot, stock>>
        BY <1>8, <2>2 DEF InsertOrder, Write, database
      <3> QED
        BY <3>1 DEF Keeps, Held
    <2> QED
      BY <2>1, <2>2
  <1>9. CASE ShareCustomer(r)
    <2>1. CASE Abort(r, "integrity")
      BY <2>1, AbortReleases DEF Answers
    <2>2. CASE ~Abort(r, "integrity")
      <3>1. UNCHANGED <<reserved, snapshot, stock>>
        BY <1>9, <2>2 DEF ShareCustomer, Write, database
      <3> QED
        BY <3>1 DEF Keeps, Held
    <2> QED
      BY <2>1, <2>2
  <1>10. CASE SendSucceeds(r)
    BY <1>10, AbortReleases, EndReleases
    DEF SendSucceeds, Keeps, Held, Answers, OrdersWithKeyOf, Placed, database
  <1>11. CASE SendRaises(r)
    <2>1. CASE End(r, "upstream", NoOrder)
      BY <1>11, <2>1, EndReleases DEF SendRaises, Keeps, Answers, database
    <2>2. CASE ~End(r, "upstream", NoOrder)
      BY <1>11, <2>2 DEF SendRaises, Keeps, Held, database
    <2> QED
      BY <2>1, <2>2
  <1>12. CASE ClearCart(r)
    BY <1>12, AbortReleases, EndReleases
    DEF ClearCart, Keeps, Held, Answers, OrdersWithKeyOf, Placed, database
  <1>13. CASE ClearUnacknowledged(r)
    BY <1>13, EndReleases DEF ClearUnacknowledged, Keeps, Answers, database
  <1>14. CASE DeadlockVictim(r)
    BY <1>14, AbortReleases, EndReleases
    DEF DeadlockVictim, Keeps, Held, Answers, OrdersWithKeyOf, Placed, database
  <1>15. CASE Fail(r)
    BY <1>15, AbortReleases, EndReleases
    DEF Fail, Keeps, Held, Answers, OrdersWithKeyOf, Placed, database
  <1>16. CASE Crash(r)
    BY <1>16, AbortReleases, EndReleases
    DEF Crash, Keeps, Held, Answers, OrdersWithKeyOf, Placed, database
  <1>17. CASE Reserve(r)
    BY <1>17, ReserveTakes
  <1>18. CASE Commit(r)
    <2>1. reserved'[r] = 0
      BY <1>18 DEF Commit, IInvStages, TypeOK
    <2> QED
      BY <1>18, <2>1, NothingHeld DEF Sells, Commit, Held
  <1>19. CASE CommitUnacknowledged(r)
    BY <1>19, EndReleases DEF CommitUnacknowledged, Sells, Answers
  <1> QED
    BY <1>1, <1>2, <1>3, <1>4, <1>5, <1>6, <1>7, <1>8, <1>9, <1>13, <1>10, <1>11, <1>12,
       <1>14, <1>15, <1>16, <1>17,
       <1>18, <1>19 DEF Advance, Step

\* Row locks are exclusive, and every row held has the stock its lines took:
\* what makes the decrement at commit safe although it compares nothing.
IInvStock ==
  /\ \A r, x \in Requests : r # x => Held(r) \cap Held(x) = {}
  /\ \A r \in Requests : \A p \in Held(r) : TakenBy(r, p) <= stock[p]
  /\ NoOversell

\* A request holds rows of products that exist; at the commit those of all its
\* lines, of which it has taken what they ask for.
LEMMA HeldRows ==
  ASSUME IInvStages, NEW r \in Requests
  PROVE  /\ Held(r) \subseteq Products
         /\ At(r, "commit") => /\ snapshot[r] \in Carts /\ Held(r) = ProductsOf(snapshot[r])
                               /\ \A p : TakenBy(r, p) = Total(snapshot[r], p)
         /\ \A p \in Products \ Held(r) : TakenBy(r, p) = 0
  <1>1. CASE snapshot[r] \in Carts \ {<<>>}
    <2>1. IsCart(snapshot[r], Products)
      BY <1>1, CartsAssumption
    <2>2. DOMAIN snapshot[r] = 1..Len(snapshot[r]) /\ Len(snapshot[r]) \in Nat
      BY <2>1, CartLine
    <2>3. reserved[r] \in 0 .. Len(snapshot[r])
      <3>1. /\ reserved[r] \in Nat /\ StageOK(r)
            /\ \/ reserved[r] = 0 \/ At(r, "email") \/ At(r, "reserve")
               \/ pc[r] \in {"update", "order", "share", "commit"}
        BY DEF IInvStages, TypeOK, StageOK, At
      <3>2. reserved[r] = 0 \/ reserved[r] <= Len(snapshot[r])
        BY <2>2, <3>1 DEF StageOK
      <3> QED
        BY <2>2, <3>1, <3>2
    <2>4. \A i \in 1..reserved[r] : snapshot[r][i].product \in Products
      BY <2>1, <2>2, <2>3, CartLine
    <2>5. At(r, "commit") => reserved[r] = Len(snapshot[r])
      BY DEF IInvStages, StageOK, At
    <2>6. \A p \in Products \ Held(r) : TakenBy(r, p) = 0
      BY <2>1, <2>3, UnitsFinite DEF TakenBy, Held
    <2> QED
      BY <1>1, <2>2, <2>4, <2>5, <2>6 DEF Held, ProductsOf, TakenBy, Total
  <1>2. CASE snapshot[r] \notin Carts \ {<<>>}
    <2>1. reserved[r] = 0 /\ ~At(r, "commit")
      BY <1>2 DEF IInvStages, StageOK, At
    <2>2. \A p : Units(snapshot[r], 0, p) = {}
      BY DEF Units
    <2> QED
      BY <2>1, <2>2, NothingHeld, FS_EmptySet DEF TakenBy, UnitsUpTo
  <1> QED
    BY <1>1, <1>2

LEMMA InitStock == Init => IInvStock
  <1> SUFFICES ASSUME Init PROVE IInvStock
    OBVIOUS
  <1>1. \A r \in Requests : Held(r) = {}
    BY NothingHeld DEF Init
  <1> QED
    BY <1>1, StockAssumption DEF Init, IInvStock, NoOversell

LEMMA NextStock == IInvStages /\ IInvStock /\ [Next]_vars => IInvStock'
  <1> SUFFICES ASSUME IInvStages, IInvStock, [Next]_vars
               PROVE  IInvStock'
    OBVIOUS
  <1>1. ASSUME NEW r \in Requests, Advance(r)
        PROVE  IInvStock'
    <2>1. \A x \in Requests \ {r} : Held(x)' = Held(x) /\ \A p : TakenBy(x, p)' = TakenBy(x, p)
      BY <1>1, OthersUntouched DEF Untouched, Held, TakenBy
    <2>2. CASE Keeps(r)
      BY <2>1, <2>2 DEF Keeps, IInvStock, NoOversell, TakenBy
    <2>3. CASE Takes(r)
      BY <2>1, <2>3, HeldRows DEF Takes, IInvStock, NoOversell
    <2>4. CASE Sells(r)
      <3>1. /\ snapshot[r] \in Carts /\ Held(r) = ProductsOf(snapshot[r])
            /\ \A p : TakenBy(r, p) = Total(snapshot[r], p)
        BY <2>4, HeldRows DEF Sells
      <3>2. \A p \in Products : /\ stock[p] \in Int /\ Total(snapshot[r], p) \in Nat
                               /\ stock'[p] = stock[p] - Total(snapshot[r], p)
        BY <2>4, <3>1, CartsAssumption, TotalNat DEF Sells, CommitRows, IInvStages, TypeOK
      <3>3. \A p \in Products \ Held(r) : stock'[p] = stock[p]
        BY <3>1, <3>2, CartsAssumption, TotalNat
      <3>4. \A p \in Held(r) : p \in Products /\ stock'[p] >= 0
        <4>1. \A p \in Held(r) : p \in Products /\ Total(snapshot[r], p) <= stock[p]
          BY <3>1, HeldRows DEF IInvStock
        <4> QED
          BY <3>2, <4>1
      <3>5. NoOversell'
        BY <3>3, <3>4 DEF IInvStock, NoOversell
      <3>6. \A x \in Requests : \A p \in Held(x)' : TakenBy(x, p)' <= stock'[p]
        <4>1. \A x \in Requests \ {r} : \A p \in Held(x) : p \in Products \ Held(r)
          BY HeldRows DEF IInvStock
        <4> QED
          BY <2>1, <2>4, <3>3, <4>1 DEF Sells, IInvStock
      <3> QED
        BY <2>1, <2>4, <3>5, <3>6 DEF Sells, IInvStock
    <2> QED
      BY <1>1, <2>2, <2>3, <2>4, StockEffect
  <1>2. CASE (\E c \in Customers : EditCart(c)) \/ UNCHANGED vars
    <2>1. UNCHANGED <<snapshot, reserved, stock>>
      BY <1>2 DEF EditCart, vars, local, database
    <2>2. \A r \in Requests : Held(r)' = Held(r) /\ \A p : TakenBy(r, p)' = TakenBy(r, p)
      BY <2>1 DEF Held, TakenBy
    <2> QED
      BY <2>1, <2>2 DEF IInvStock, NoOversell
  <1> QED
    BY <1>1, <1>2 DEF Next, Advance

\* No interleaving of checkouts, aborts and crashes sells more than the
\* inventory holds (NoOversell): the comparison of reserve_inventory still
\* holds at commit because the row stays locked in between.
THEOREM NeverOversold == Spec => []NoOversell
  <1>1. IInvStock => NoOversell
    BY DEF IInvStock
  <1> QED
    BY <1>1, InitStages, NextStages, InitStock, NextStock, PTL DEF Spec
-----------------------------------------------------------------------------
(* Orders and their keys. *)

\* r has inserted its order, and its key, and not committed.
Inserted(r) == pc[r] \in {"share", "commit"}

\* The step places no order and inserts none.
PlacesNothing(r) == UNCHANGED <<orders, stock>> /\ (Inserted(r)' => Inserted(r))

\* The step inserts an order the unique index accepts.
Inserts(r) ==
  UNCHANGED <<orders, stock>> /\ At(r, "order") /\ ~Blocked(r) /\ ~KeyTaken(r)

\* The step commits the inserted order.
Places(r) == At(r, "commit") /\ CommitRows(r) /\ ~Inserted(r)'

\* What a step of r does to the orders table.
LEMMA OrderEffect ==
  ASSUME IInvStages, NEW r \in Requests, Advance(r)
  PROVE  PlacesNothing(r) \/ Inserts(r) \/ Places(r)
  <1> USE DEF PlacesNothing, Inserted
  <1>e. \A how, order : End(r, how, order) => ~Inserted(r)'
    BY DEF End, Goto, IInvStages, TypeOK
  <1>a. \A how : Abort(r, how) => PlacesNothing(r)
    BY <1>e DEF Abort, database
  <1>1. CASE Arrive(r)
    BY <1>1, <1>e, <1>a DEF Arrive, Goto, At, database, IInvStages, TypeOK
  <1>2. CASE Lookup(r)
    BY <1>2, <1>e, <1>a DEF Lookup, Goto, At, database, IInvStages, TypeOK
  <1>3. CASE ReadCart(r)
    BY <1>3, <1>e, <1>a DEF ReadCart, Goto, At, database, IInvStages, TypeOK
  <1>4. CASE GetCustomer(r)
    BY <1>4, <1>e, <1>a DEF GetCustomer, Goto, At, database, IInvStages, TypeOK
  <1>5. CASE InsertCustomer(r)
    BY <1>5, <1>e, <1>a DEF InsertCustomer, Write, Goto, At, database, IInvStages, TypeOK
  <1>6. CASE Reserve(r)
    BY <1>6, <1>e, <1>a DEF Reserve, Goto, At, database, IInvStages, TypeOK
  <1>7. CASE SendSucceeds(r)
    BY <1>7, <1>e, <1>a DEF SendSucceeds, Goto, At, database, IInvStages, TypeOK
  <1>8. CASE SendRaises(r)
    BY <1>8, <1>e, <1>a DEF SendRaises, Goto, At, database, IInvStages, TypeOK
  <1>9. CASE ClearCart(r)
    BY <1>9, <1>e, <1>a DEF ClearCart, Goto, At, database, IInvStages, TypeOK
  <1>10. CASE DeadlockVictim(r)
    BY <1>10, <1>e, <1>a DEF DeadlockVictim, Goto, At, database, IInvStages, TypeOK
  <1>11. CASE Fail(r)
    BY <1>11, <1>e, <1>a DEF Fail, Goto, At, database, IInvStages, TypeOK
  <1>12. CASE Crash(r)
    BY <1>12, <1>e, <1>a DEF Crash, Goto, At, database, IInvStages, TypeOK
  <1>13. CASE IndexEmail(r)
    BY <1>13, <1>a DEF IndexEmail, Write, Goto, At, database, IInvStages, TypeOK
  <1>14. CASE UpdateCustomer(r)
    BY <1>14, <1>a DEF UpdateCustomer, Write, Goto, At, database, IInvStages, TypeOK
  <1>15. CASE ShareCustomer(r)
    BY <1>15, <1>a DEF ShareCustomer, Write, Goto, At, database, IInvStages, TypeOK
  <1>16. CASE InsertOrder(r)
    BY <1>16, <1>a DEF InsertOrder, Write, Inserts, database
  <1>17. CASE ClearUnacknowledged(r)
    BY <1>17, <1>e DEF ClearUnacknowledged, database
  <1>18. CASE Commit(r)
    BY <1>18 DEF Commit, Places, Goto, IInvStages, TypeOK
  <1>19. CASE CommitUnacknowledged(r)
    BY <1>19, <1>e DEF CommitUnacknowledged, Places
  <1> QED
    BY <1>1, <1>2, <1>3, <1>4, <1>5, <1>6, <1>7, <1>8, <1>9, <1>10, <1>11, <1>12, <1>13,
       <1>14, <1>16, <1>15, <1>17,
       <1>18, <1>19 DEF Advance, Step

\* An inserted order's key is nobody else's, placed or about to be: the lock on
\* the unique index carries the check of the INSERT to the commit.
IInvKeys ==
  /\ OneOrderPerKey
  /\ \A r \in Requests : Inserted(r) /\ KeyOf[r] # NoKey =>
       /\ \A o \in Placed : KeyOf[o] # KeyOf[r]
       /\ \A x \in Requests : Inserted(x) /\ KeyOf[x] = KeyOf[r] => x = r

LEMMA InitKeys == Init => IInvKeys
  BY DEF Init, IInvKeys, OneOrderPerKey, Placed, Inserted

LEMMA NextKeys == IInvStages /\ IInvKeys /\ [Next]_vars => IInvKeys'
  <1> SUFFICES ASSUME IInvStages, IInvKeys, [Next]_vars
               PROVE  IInvKeys'
    OBVIOUS
  <1>1. ASSUME NEW r \in Requests, Advance(r)
        PROVE  IInvKeys'
    <2>1. \A x \in Requests \ {r} : pc'[x] = pc[x] /\ orders'[x] = orders[x]
      BY <1>1, OthersUntouched DEF Untouched
    <2>2. CASE PlacesNothing(r)
      BY <2>1, <2>2 DEF PlacesNothing, IInvKeys, OneOrderPerKey, Placed, Inserted
    <2>3. CASE Inserts(r)
      <3>1. Placed' = Placed
        BY <2>3 DEF Inserts, Placed
      <3>2. \A x \in Requests \ {r} :
              Inserted(x) /\ KeyOf[r] # NoKey => KeyOf[x] # KeyOf[r]
        BY <2>3 DEF Inserts, Blocked, WaitsFor, WaitsForKey, HoldsKey, Inserted
      <3>3. KeyOf[r] # NoKey => \A o \in Placed : KeyOf[o] # KeyOf[r]
        BY <2>3 DEF Inserts, KeyTaken
      <3> QED
        BY <2>1, <3>1, <3>2, <3>3 DEF IInvKeys, OneOrderPerKey, Inserted
    <2>4. CASE Places(r)
      <3>1. Placed' \subseteq Placed \cup {r}
        BY <2>1 DEF Placed
      <3> QED
        BY <2>1, <2>4, <3>1 DEF Places, IInvKeys, OneOrderPerKey, At, Inserted
    <2> QED
      BY <1>1, <2>2, <2>3, <2>4, OrderEffect
  <1>2. CASE (\E c \in Customers : EditCart(c)) \/ UNCHANGED vars
    <2>1. UNCHANGED <<pc, orders>>
      BY <1>2 DEF EditCart, vars, local, database
    <2> QED
      BY <2>1 DEF IInvKeys, OneOrderPerKey, Placed, Inserted
  <1> QED
    BY <1>1, <1>2 DEF Next, Advance

\* Retrying with the same key never makes a second order (OneOrderPerKey),
\* however the tries overlap.
THEOREM KeysAreUnique == Spec => []OneOrderPerKey
  <1>1. IInvKeys => OneOrderPerKey
    BY DEF IInvKeys
  <1> QED
    BY <1>1, InitStages, NextStages, InitKeys, NextKeys, PTL DEF Spec
-----------------------------------------------------------------------------
(* Implementation of OrderPlacement. *)

\* SQS accepts a message only for a placed order, and nothing else moves then.
LEMMA SendEffect ==
  ASSUME IInvStages, NEW r \in Requests, Advance(r)
  PROVE  \/ UNCHANGED sent
         \/ /\ UNCHANGED <<stock, orders>> /\ r \in Placed
            /\ sent' = [sent EXCEPT ![r] = @ + 1]
  <1>1. CASE Arrive(r)
    BY <1>1 DEF Arrive, Abort
  <1>2. CASE Lookup(r)
    BY <1>2 DEF Lookup, Abort
  <1>3. CASE ReadCart(r)
    BY <1>3 DEF ReadCart, Abort
  <1>4. CASE GetCustomer(r)
    BY <1>4 DEF GetCustomer, Abort
  <1>5. CASE InsertCustomer(r)
    BY <1>5 DEF InsertCustomer, Write, Abort
  <1>6. CASE Reserve(r)
    BY <1>6 DEF Reserve, Abort
  <1>7. CASE IndexEmail(r)
    BY <1>7 DEF IndexEmail, Write, Abort
  <1>8. CASE UpdateCustomer(r)
    BY <1>8 DEF UpdateCustomer, Write, Abort
  <1>9. CASE InsertOrder(r)
    BY <1>9 DEF InsertOrder, Write, Abort
  <1>10. CASE ShareCustomer(r)
    BY <1>10 DEF ShareCustomer, Write, Abort
  <1>11. CASE Commit(r)
    BY <1>11 DEF Commit, Abort
  <1>12. CASE CommitUnacknowledged(r)
    BY <1>12 DEF CommitUnacknowledged, Abort
  <1>13. CASE ClearCart(r)
    BY <1>13 DEF ClearCart, Abort
  <1>14. CASE ClearUnacknowledged(r)
    BY <1>14 DEF ClearUnacknowledged
  <1>15. CASE DeadlockVictim(r)
    BY <1>15 DEF DeadlockVictim, Abort
  <1>16. CASE Fail(r)
    BY <1>16 DEF Fail, Abort
  <1>17. CASE Crash(r)
    BY <1>17 DEF Crash, Abort
  <1>18. CASE SendSucceeds(r)
    BY <1>18 DEF SendSucceeds, IInvStages, StageOK, database
  <1>19. CASE SendRaises(r)
    <2>1. UNCHANGED <<stock, orders>> /\ r \in Placed
      BY <1>19 DEF SendRaises, IInvStages, StageOK, database
    <2>2. PICK accepted \in {0, 1} : sent' = [sent EXCEPT ![r] = @ + accepted]
      BY <1>19 DEF SendRaises
    <2>3. CASE accepted = 0
      BY <2>2, <2>3 DEF IInvStages, TypeOK
    <2>4. CASE accepted = 1
      BY <2>1, <2>2, <2>4
    <2> QED
      BY <2>3, <2>4
  <1> QED
    BY <1>1, <1>2, <1>3, <1>4, <1>5, <1>6, <1>7, <1>8, <1>9, <1>10, <1>14, <1>11, <1>12,
       <1>13, <1>15, <1>16, <1>17,
       <1>18, <1>19 DEF Advance, Step

\* A step that commits an order is a Place step of the promise.
LEMMA PlacesIsPlace ==
  ASSUME IInvStages, IInvStock, IInvKeys, NEW r \in Requests, Advance(r), Places(r)
  PROVE  \E lines \in Carts \ {<<>>} : Promise!Place(r, lines)
  <1> DEFINE lines == snapshot[r]
  <1>1. lines \in Carts \ {<<>>} /\ orders' = [orders EXCEPT ![r] = lines]
    BY CommitEffect DEF Places, IInvStages
  <1>2. r \notin Placed /\ orders[r] = NoOrder
    BY DEF Places, IInvStages, StageOK, At, Placed
  <1>3. Promise!KeyIsFree(r)
    BY DEF Places, IInvKeys, Inserted, At, Promise!KeyIsFree, Promise!Placed, Placed
  <1>4. \A p \in Products : Total(lines, p) <= stock[p]
    <2>1. /\ Held(r) = ProductsOf(lines) /\ \A p : TakenBy(r, p) = Total(lines, p)
      BY HeldRows DEF Places
    <2>2. ASSUME NEW p \in Products, p \in Held(r)
          PROVE  Total(lines, p) <= stock[p]
      BY <2>1, <2>2 DEF IInvStock
    <2>3. ASSUME NEW p \in Products, p \notin Held(r)
          PROVE  Total(lines, p) <= stock[p]
      <3>1. Total(lines, p) = 0
        BY <1>1, <2>1, <2>3, TotalNat, CartsAssumption
      <3> QED
        BY <3>1 DEF IInvStock, NoOversell
    <2> QED
      BY <2>2, <2>3
  <1>5. UNCHANGED sent
    BY SendEffect, <1>2
  <1>6. stock' = [p \in Products |-> stock[p] - Total(lines, p)]
    BY DEF Places, CommitRows
  <1>7. \A p : Promise!Total(lines, p) = Total(lines, p)
    BY DEF Promise!Total, Total, Promise!UnitsUpTo, UnitsUpTo, Promise!Units, Units,
       Promise!Cardinality, Cardinality
  <1>8. Promise!Place(r, lines)
    BY <1>1, <1>2, <1>3, <1>4, <1>5, <1>6, <1>7 DEF Promise!Place
  <1> QED
    BY <1>1, <1>8

LEMMA InitPromise == Init => Promise!Init
  BY DEF Init, Promise!Init

LEMMA NextPromise ==
  IInvStages /\ IInvStock /\ IInvKeys /\ [Next]_vars
    => [Promise!Next]_(Promise!absVars)
  <1> SUFFICES ASSUME IInvStages, IInvStock, IInvKeys, [Next]_vars
               PROVE  [Promise!Next]_(Promise!absVars)
    OBVIOUS
  <1>1. ASSUME NEW r \in Requests, Advance(r)
        PROVE  [Promise!Next]_(Promise!absVars)
    <2>1. CASE Places(r)
      BY <1>1, <2>1, PlacesIsPlace DEF Promise!Next
    <2>2. CASE UNCHANGED <<stock, orders>>
      <3>1. CASE UNCHANGED sent
        BY <2>2, <3>1 DEF Promise!absVars
      <3>2. CASE r \in Placed /\ sent' = [sent EXCEPT ![r] = @ + 1]
        <4>1. sent' \in [Requests -> Nat] /\ sent \in [Requests -> Nat]
          BY <3>2 DEF IInvStages, TypeOK
        <4>2. {x \in Requests : sent'[x] > 0} = {x \in Requests : sent[x] > 0} \cup {r}
          BY <3>2, <4>1
        <4>3. Promise!Invoice(r)
          BY <2>2, <3>2, <4>2 DEF Promise!Invoice, Promise!Placed, Placed
        <4> QED
          BY <4>3 DEF Promise!Next
      <3> QED
        BY <1>1, <3>1, <3>2, SendEffect
    <2> QED
      BY <1>1, <2>1, <2>2, OrderEffect DEF PlacesNothing, Inserts
  <1>2. CASE (\E c \in Customers : EditCart(c)) \/ UNCHANGED vars
    BY <1>2 DEF EditCart, vars, database, Promise!absVars
  <1> QED
    BY <1>1, <1>2 DEF Next, Advance

\* The checkout service implements OrderPlacement: seen through stock, orders
\* and queued invoices, every interleaving of its statements, retries and
\* crashes places whole orders one at a time.
THEOREM Refinement == Spec => ImplementsOrderPlacement
  <1> QED
    BY InitStages, NextStages, InitStock, NextStock, InitKeys, NextKeys,
       InitPromise, NextPromise, PTL
    DEF Spec, ImplementsOrderPlacement, Promise!Spec
-----------------------------------------------------------------------------
(* Units sold. *)

\* The stock and the units sold add up to the seeded inventory.
IInvSold == \A p \in Products : IsFiniteSet(UnitsSold(p)) /\ stock[p] + Sold(p) = InitialStock[p]

LEMMA InitSold == Init => IInvSold
  <1> SUFFICES ASSUME Init, NEW p \in Products
               PROVE  IsFiniteSet(UnitsSold(p)) /\ stock[p] + Sold(p) = InitialStock[p]
    BY DEF IInvSold
  <1>1. Placed = {}
    BY DEF Init, Placed
  <1>2. UnitsSold(p) = {}
    BY <1>1 DEF UnitsSold
  <1> QED
    BY <1>2, FS_EmptySet, StockAssumption DEF Init, Sold

LEMMA NextSold == IInvStages /\ IInvSold /\ [Next]_vars => IInvSold'
  <1> SUFFICES ASSUME IInvStages, IInvSold, [Next]_vars, NEW p \in Products
               PROVE  (IsFiniteSet(UnitsSold(p)) /\ stock[p] + Sold(p) = InitialStock[p])'
    BY DEF IInvSold
  <1>1. CASE UNCHANGED <<orders, stock>>
    BY <1>1 DEF IInvSold, UnitsSold, Sold, Placed
  <1>2. ASSUME NEW r \in Requests, Advance(r), Places(r)
        PROVE  (IsFiniteSet(UnitsSold(p)) /\ stock[p] + Sold(p) = InitialStock[p])'
    <2> DEFINE lines == snapshot[r]
               N == Units(lines, Len(lines), p)
               n == Total(lines, p)
    <2>1. lines \in Carts /\ lines # NoOrder
      BY <1>2, CommitEffect, NoOrderAssumption DEF Places, IInvStages
    <2>2. /\ n \in Nat /\ stock[p] \in Int /\ stock'[p] = stock[p] - n
          /\ IsFiniteSet(N) /\ Cardinality(N) = n
      BY <1>2, <2>1, CartsAssumption, TotalNat
      DEF Places, CommitRows, IInvStages, TypeOK, Total, UnitsUpTo
    <2>3. /\ r \notin Placed /\ Placed' = Placed \cup {r} /\ orders'[r] = lines
          /\ \A o \in Placed : orders'[o] = orders[o]
      BY <1>2, <2>1 DEF Places, CommitRows, IInvStages, StageOK, TypeOK, At, Placed
    <2>4. UnitsSold(p)' = UnitsSold(p) \cup ({r} \X N)
      BY <2>3 DEF UnitsSold
    <2>5. \A u \in UnitsSold(p) : u[1] # r
      BY <2>3 DEF UnitsSold
    <2>6. IsFiniteSet(UnitsSold(p))' /\ Sold(p)' = Sold(p) + n
      <3>1. PICK U, T : U = UnitsSold(p) /\ T = N
        OBVIOUS
      <3>2. IsFiniteSet(U) /\ IsFiniteSet(T) /\ \A u \in U : u[1] # r
        BY <2>2, <2>5, <3>1 DEF IInvSold
      <3>3. /\ IsFiniteSet(U \cup ({r} \X T))
            /\ Cardinality(U \cup ({r} \X T)) = Cardinality(U) + Cardinality(T)
        BY <3>2, MoreUnits
      <3> QED
        BY <2>2, <2>4, <3>1, <3>3 DEF Sold
    <2>7. Sold(p) \in Nat
      BY FS_CardinalityType DEF IInvSold, Sold
    <2> QED
      BY <2>2, <2>6, <2>7 DEF IInvSold
  <1>3. CASE (\E c \in Customers : EditCart(c)) \/ UNCHANGED vars
    BY <1>1, <1>3 DEF EditCart, vars, database
  <1> QED
    BY <1>1, <1>2, <1>3, OrderEffect DEF Next, Advance, PlacesNothing, Inserts

\* Every unit that left the inventory is in a committed order and the other way
\* round, whatever is rolled back, crashes or commits unseen.
THEOREM StockIsConserved == Spec => []StockConserved
  <1>1. IInvSold => StockConserved
    BY DEF IInvSold, StockConserved
  <1> QED
    BY <1>1, InitStages, NextStages, InitSold, NextSold, PTL DEF Spec
-----------------------------------------------------------------------------
(* The customers mirror. *)

\* r has written its customers row, and the email it writes is in the index.
WroteRow(r) == upsert[r] \in {"insert", "update", "same"}
Indexed(r) == upsert[r] \in {"insert", "update"} /\ ~At(r, "email")

\* The step leaves the mirror alone, and r writes nothing to it that it had not.
MirrorKept(r) ==
  /\ UNCHANGED mirror
  /\ upsert'[r] \in {"none", "dirty"} \/ upsert'[r] = upsert[r]
  /\ Indexed(r)' => Indexed(r)

\* r writes its row, which nobody else has written, an UPDATE with a new email
\* only if it is one.
WritesRow(r) ==
  /\ UNCHANGED mirror /\ ~Indexed(r)'
  /\ \A x \in Requests \ {r} : ~HoldsRow(x, CustomerOf[r])
  /\ upsert'[r] = "update" => EmailDiffers(r)

\* r's email enters the index, which no lock and no row forbids.
EntersIndex(r) ==
  /\ UNCHANGED mirror /\ upsert'[r] = upsert[r] /\ ~EmailTaken(r)
  /\ \A x \in Requests \ {r} : Indexed(x) => EmailOf[x] # EmailOf[r]

\* r's row, if it wrote one, becomes visible.
MirrorCommitted(r) ==
  /\ upsert'[r] = "none"
  /\ \/ UNCHANGED mirror
     \/ Indexed(r) /\ mirror' = [mirror EXCEPT ![CustomerOf[r]] = EmailOf[r]]

\* What a step of r does to the customers rows and to r's lock on its own.
LEMMA MirrorEffect ==
  ASSUME IInvStages, NEW r \in Requests, Advance(r)
  PROVE  MirrorKept(r) \/ WritesRow(r) \/ EntersIndex(r) \/ MirrorCommitted(r)
  <1>t. pc \in [Requests -> Stages] /\ upsert \in [Requests -> Upserts]
    BY DEF IInvStages, TypeOK
  <1>e. \A how, order : End(r, how, order) => upsert'[r] = "none" /\ ~Indexed(r)'
    BY <1>t DEF End, Indexed
  <1>a. \A how : Abort(r, how) => MirrorKept(r)
    BY <1>e DEF Abort, database, MirrorKept
  <1>1. CASE Arrive(r)
    BY <1>1, <1>a, <1>t DEF Arrive, Goto, At, database, MirrorKept, Indexed
  <1>2. CASE Lookup(r)
    BY <1>2, <1>e, <1>t DEF Lookup, Goto, At, database, MirrorKept, Indexed
  <1>3. CASE ReadCart(r)
    BY <1>3, <1>a, <1>t DEF ReadCart, Goto, At, database, MirrorKept, Indexed
  <1>4. CASE GetCustomer(r)
    BY <1>4, <1>t DEF GetCustomer, database, MirrorKept, Indexed
  <1>5. CASE InsertCustomer(r)
    <2>1. CASE Abort(r, "integrity")
      BY <1>a, <2>1
    <2>2. CASE ~Abort(r, "integrity")
      <3>1. Write(r, "insert", "email") /\ At(r, "insert") /\ ~Blocked(r)
        BY <1>5, <2>2 DEF InsertCustomer
      <3>2. /\ UNCHANGED mirror /\ upsert'[r] = "insert" /\ pc'[r] = "email"
            /\ \A x \in Requests \ {r} : ~HoldsRow(x, CustomerOf[r])
        BY <3>1, <1>t DEF Write, Goto, database, At, Blocked, WaitsFor, WaitsForRow
      <3> QED
        BY <3>2 DEF WritesRow, Indexed, At
    <2> QED
      BY <2>1, <2>2
  <1>6. CASE Reserve(r)
    <2>1. CASE Abort(r, "conflict")
      BY <1>a, <2>1
    <2>2. CASE ~Abort(r, "conflict")
      <3>1. pc[r] = "reserve" /\ UNCHANGED <<upsert, mirror>>
        BY <1>6, <2>2 DEF Reserve, At, database
      <3> QED
        BY <3>1 DEF MirrorKept, Indexed, At
    <2> QED
      BY <2>1, <2>2
  <1>7. CASE IndexEmail(r)
    <2>1. CASE Abort(r, "integrity")
      BY <1>a, <2>1
    <2>2. CASE ~Abort(r, "integrity")
      <3>1. At(r, "email") /\ ~Blocked(r) /\ ~EmailTaken(r) /\ \E stage : Write(r, upsert[r], stage)
        BY <1>7, <2>2 DEF IndexEmail
      <3>2. UNCHANGED mirror /\ upsert'[r] = upsert[r]
        BY <3>1, <1>t DEF Write, database
      <3>3. \A x \in Requests \ {r} : Indexed(x) => EmailOf[x] # EmailOf[r]
        BY <3>1 DEF Blocked, WaitsFor, WaitsForEmail, EmailsHeld, Indexed
      <3> QED
        BY <3>1, <3>2, <3>3 DEF EntersIndex
    <2> QED
      BY <2>1, <2>2
  <1>8. CASE UpdateCustomer(r)
    <2>1. /\ At(r, "update") /\ ~Blocked(r)
          /\ \/ EmailDiffers(r) /\ Write(r, "update", "email")
             \/ Write(r, "same", "order")
      BY <1>8 DEF UpdateCustomer
    <2>2. /\ UNCHANGED mirror
          /\ \A x \in Requests \ {r} : ~HoldsRow(x, CustomerOf[r])
          /\ \/ EmailDiffers(r) /\ upsert'[r] = "update" /\ pc'[r] = "email"
             \/ upsert'[r] = "same"
      BY <2>1, <1>t DEF Write, Goto, database, At, Blocked, WaitsFor, WaitsForRow
    <2> QED
      BY <2>2 DEF WritesRow, Indexed, At
  <1>9. CASE InsertOrder(r)
    <2>1. CASE Abort(r, "integrity")
      BY <1>a, <2>1
    <2>2. CASE ~Abort(r, "integrity")
      <3>1. pc[r] = "order" /\ upsert'[r] = upsert[r] /\ UNCHANGED mirror
        BY <1>9, <2>2, <1>t DEF InsertOrder, Write, At, database
      <3> QED
        BY <3>1 DEF MirrorKept, Indexed, At
    <2> QED
      BY <2>1, <2>2
  <1>10. CASE ShareCustomer(r)
    <2>1. CASE Abort(r, "integrity")
      BY <1>a, <2>1
    <2>2. CASE ~Abort(r, "integrity")
      <3>1. pc[r] = "share" /\ upsert'[r] = upsert[r] /\ UNCHANGED mirror
        BY <1>10, <2>2, <1>t DEF ShareCustomer, Write, At, database
      <3> QED
        BY <3>1 DEF MirrorKept, Indexed, At
    <2> QED
      BY <2>1, <2>2
  <1>11. CASE Commit(r)
    BY <1>11, <1>t DEF Commit, CommitRows, At, MirrorCommitted, Indexed
  <1>12. CASE CommitUnacknowledged(r)
    BY <1>12, <1>e, <1>t DEF CommitUnacknowledged, CommitRows, At, MirrorCommitted, Indexed
  <1>13. CASE SendSucceeds(r)
    BY <1>13, <1>t DEF SendSucceeds, Goto, At, database, MirrorKept, Indexed
  <1>14. CASE SendRaises(r)
    BY <1>14, <1>e, <1>t DEF SendRaises, At, database, MirrorKept, Indexed
  <1>15. CASE ClearCart(r)
    BY <1>15, <1>e DEF ClearCart, database, MirrorKept
  <1>16. CASE ClearUnacknowledged(r)
    BY <1>16, <1>e DEF ClearUnacknowledged, database, MirrorKept
  <1>17. CASE DeadlockVictim(r)
    BY <1>17, <1>a DEF DeadlockVictim
  <1>18. CASE Fail(r)
    BY <1>18, <1>a DEF Fail
  <1>19. CASE Crash(r)
    BY <1>19, <1>a DEF Crash
  <1> QED
    BY <1>1, <1>2, <1>3, <1>4, <1>5, <1>6, <1>7, <1>8, <1>9, <1>10, <1>16, <1>11, <1>12,
       <1>13, <1>14, <1>15, <1>17,
       <1>18, <1>19 DEF Advance, Step

\* Two transactions that have written customers rows have written those of two
\* customers.  Two emails in the index are two, and no other customer has the email
\* one of them is about to commit; and an UPDATE with a new email stays one.
RowOK(r) == (Indexed(r) => ~EmailTaken(r)) /\ (upsert[r] = "update" => EmailDiffers(r))

RowsApart(r, x) ==
  /\ WroteRow(r) /\ WroteRow(x) => CustomerOf[x] # CustomerOf[r]
  /\ Indexed(r) /\ Indexed(x) => EmailOf[x] # EmailOf[r]

IInvMirror ==
  /\ MirrorEmailsUnique
  /\ \A r \in Requests : RowOK(r) /\ \A x \in Requests \ {r} : RowsApart(r, x)

LEMMA InitMirror == Init => IInvMirror
  BY MirrorAssumption
  DEF Init, IInvMirror, MirrorEmailsUnique, RowOK, RowsApart, WroteRow, Indexed, At

LEMMA NextMirror == IInvStages /\ IInvMirror /\ [Next]_vars => IInvMirror'
  <1> SUFFICES ASSUME IInvStages, IInvMirror, [Next]_vars
               PROVE  IInvMirror'
    OBVIOUS
  <1>1. ASSUME NEW r \in Requests, Advance(r)
        PROVE  IInvMirror'
    <2>1. \A x \in Requests \ {r} : pc'[x] = pc[x] /\ upsert'[x] = upsert[x]
      BY <1>1, OthersUntouched DEF Untouched
    <2>2. \A x, y \in Requests \ {r} : x # y => RowsApart(x, y)'
      BY <2>1 DEF IInvMirror, RowsApart, WroteRow, Indexed, At
    <2>3. UNCHANGED mirror => MirrorEmailsUnique' /\ \A x \in Requests \ {r} : RowOK(x)'
      BY <2>1 DEF IInvMirror, MirrorEmailsUnique, RowOK, EmailTaken, EmailDiffers, Indexed, At
    <2>4. /\ MirrorEmailsUnique'
          /\ RowOK(r)' /\ \A x \in Requests \ {r} : RowOK(x)'
          /\ \A x \in Requests \ {r} : RowsApart(r, x)'
      <3>1. CASE MirrorKept(r)
        <4>1. RowOK(r)'
          BY <3>1 DEF MirrorKept, IInvMirror, RowOK, EmailTaken, EmailDiffers
        <4>2. WroteRow(r)' => WroteRow(r)
          BY <3>1 DEF MirrorKept, WroteRow
        <4>3. \A x \in Requests \ {r} : RowsApart(r, x)'
          BY <2>1, <3>1, <4>2 DEF MirrorKept, IInvMirror, RowsApart, WroteRow, Indexed, At
        <4> QED
          BY <2>3, <3>1, <4>1, <4>3 DEF MirrorKept
      <3>2. CASE WritesRow(r)
        <4>1. RowOK(r)'
          BY <3>2 DEF WritesRow, RowOK, EmailDiffers
        <4>2. \A x \in Requests \ {r} : WroteRow(x) => CustomerOf[x] # CustomerOf[r]
          BY <3>2 DEF WritesRow, HoldsRow, WroteRow
        <4>3. \A x \in Requests \ {r} : RowsApart(r, x)'
          BY <2>1, <3>2, <4>2 DEF WritesRow, RowsApart, WroteRow, Indexed, At
        <4> QED
          BY <2>3, <3>2, <4>1, <4>3 DEF WritesRow
      <3>3. CASE EntersIndex(r)
        <4>1. RowOK(r)'
          BY <3>3 DEF EntersIndex, IInvMirror, RowOK, EmailTaken, EmailDiffers
        <4>2. WroteRow(r)' <=> WroteRow(r)
          BY <3>3 DEF EntersIndex, WroteRow
        <4>3. \A x \in Requests \ {r} : RowsApart(r, x)'
          BY <2>1, <3>3, <4>2 DEF EntersIndex, IInvMirror, RowsApart, WroteRow, Indexed, At
        <4> QED
          BY <2>3, <3>3, <4>1, <4>3 DEF EntersIndex
      <3>4. CASE MirrorCommitted(r)
        <4>1. ~WroteRow(r)' /\ ~Indexed(r)' /\ upsert'[r] # "update"
          BY <3>4 DEF MirrorCommitted, WroteRow, Indexed
        <4>2. RowOK(r)' /\ \A x \in Requests \ {r} : RowsApart(r, x)'
          BY <4>1 DEF RowOK, RowsApart
        <4>3. CASE UNCHANGED mirror
          BY <2>3, <4>2, <4>3
        <4>4. CASE Indexed(r) /\ mirror' = [mirror EXCEPT ![CustomerOf[r]] = EmailOf[r]]
          <5>1. /\ mirror \in [Customers -> Emails \cup {NoEmail}]
                /\ CustomerOf[r] \in Customers /\ WroteRow(r)
                /\ \A c \in Customers \ {CustomerOf[r]} : mirror[c] # EmailOf[r]
            BY <4>4, RequestsAssumption
            DEF IInvStages, TypeOK, IInvMirror, RowOK, EmailTaken, Indexed, WroteRow
          <5>2. \A c \in Customers :
                  mirror'[c] = IF c = CustomerOf[r] THEN EmailOf[r] ELSE mirror[c]
            BY <4>4, <5>1
          <5>3. MirrorEmailsUnique'
            BY <5>1, <5>2 DEF IInvMirror, MirrorEmailsUnique
          <5>4. ASSUME NEW x \in Requests \ {r}
                PROVE  RowOK(x)'
            <6>1. Indexed(x)' => ~EmailTaken(x)'
              <7>1. Indexed(x) => EmailOf[x] # EmailOf[r] /\ ~EmailTaken(x)
                BY <4>4 DEF IInvMirror, RowOK, RowsApart
              <7> QED
                BY <2>1, <5>2, <7>1 DEF EmailTaken, Indexed, At
            <6>2. upsert'[x] = "update" => EmailDiffers(x)'
              <7>1. upsert[x] = "update" => CustomerOf[x] # CustomerOf[r] /\ EmailDiffers(x)
                BY <5>1 DEF IInvMirror, RowOK, RowsApart, WroteRow
              <7>2. CustomerOf[x] \in Customers
                BY RequestsAssumption
              <7> QED
                BY <2>1, <5>2, <7>1, <7>2 DEF EmailDiffers
            <6> QED
              BY <6>1, <6>2 DEF RowOK
          <5> QED
            BY <4>2, <5>3, <5>4
        <4> QED
          BY <3>4, <4>3, <4>4 DEF MirrorCommitted
      <3> QED
        BY <1>1, <3>1, <3>2, <3>3, <3>4, MirrorEffect
    <2>5. \A x \in Requests \ {r} : RowsApart(x, r)'
      BY <2>4 DEF RowsApart
    <2> QED
      BY <2>2, <2>4, <2>5 DEF IInvMirror
  <1>2. CASE (\E c \in Customers : EditCart(c)) \/ UNCHANGED vars
    <2>1. UNCHANGED <<pc, upsert, mirror>>
      BY <1>2 DEF EditCart, vars, local, database
    <2> QED
      BY <2>1 DEF IInvMirror, MirrorEmailsUnique, RowOK, RowsApart, WroteRow, Indexed,
         EmailTaken,
         EmailDiffers, At
  <1> QED
    BY <1>1, <1>2 DEF Next, Advance

\* The mirror never holds one email for two customers, whichever of them checks
\* out with the email of the other (ensure_customer, create_order).
THEOREM MirrorStaysUnique == Spec => []MirrorEmailsUnique
  <1>1. IInvMirror => MirrorEmailsUnique
    BY DEF IInvMirror
  <1> QED
    BY <1>1, InitStages, NextStages, InitMirror, NextMirror, PTL DEF Spec

\* Without a wait for an inventory row and without a new email for a row that has
\* one, a cycle of waits is impossible: the foreign key waits for nobody, so the
\* key does not wait for anybody who waits; an INSERT of a customers row whose
\* email is in the index waits only for the key; so nobody waits for a row or an
\* email either (ensure_customer, reserve_inventory and create_order, in the order
\* of their statements).
THEOREM DeadlocksAreExplained == Spec => []DeadlocksNeedStockOrNewEmail
  <1>1. IInvStages /\ IInvMirror => DeadlocksNeedStockOrNewEmail
    <2> SUFFICES ASSUME IInvStages, IInvMirror,
                        NEW cycle \in (SUBSET Requests) \ {{}},
                        \A x \in cycle : \E y \in cycle : WaitsFor(x, y),
                        \A x, y \in cycle : ~WaitsForStock(x, y),
                        \A x \in cycle : ~(upsert[x] \in {"dirty", "update"} /\ EmailDiffers(x))
                 PROVE  FALSE
      BY DEF DeadlocksNeedStockOrNewEmail
    <2>1. \A x \in cycle : upsert[x] # "update"
      BY DEF IInvMirror, RowOK
    <2>2. \A x \in cycle : \E y \in cycle : \/ WaitsForRow(x, y) \/ WaitsForEmail(x, y)
                                            \/ WaitsForKey(x, y) \/ WaitsForShare(x, y)
      BY DEF WaitsFor
    <2>3. \A x \in cycle : pc[x] \in {"insert", "update", "email", "order"}
      BY <2>1, <2>2 DEF WaitsForRow, WaitsForEmail, WaitsForKey, WaitsForShare, At
    <2>4. \A x, y \in cycle : ~WaitsForKey(x, y)
      BY <2>3 DEF WaitsForKey, HoldsKey
    <2>5. \A x \in cycle : pc[x] \in {"insert", "update", "email"}
      BY <2>1, <2>2, <2>4 DEF WaitsForRow, WaitsForEmail, WaitsForShare, At
    <2>6. \A x \in cycle : /\ pc[x] = "insert" => upsert[x] = "none"
                           /\ pc[x] = "update" => upsert[x] = "dirty"
      BY DEF IInvStages, StageOK
    <2>7. \A x, y \in cycle : ~WaitsForEmail(x, y)
      BY <2>1, <2>5, <2>6 DEF WaitsForEmail, EmailsHeld, At
    <2>8. \A x \in cycle : pc[x] \in {"insert", "update"}
      BY <2>1, <2>2, <2>4, <2>7 DEF WaitsForRow, WaitsForShare, At
    <2>9. \A x, y \in cycle : ~WaitsForRow(x, y)
      BY <2>6, <2>8 DEF WaitsForRow, HoldsRow, SharesRow, At
    <2>10. PICK x : x \in cycle
      OBVIOUS
    <2> QED
      BY <2>1, <2>2, <2>4, <2>7, <2>9, <2>10 DEF WaitsForShare
  <1> QED
    BY <1>1, InitStages, NextStages, InitMirror, NextMirror, PTL DEF Spec
-----------------------------------------------------------------------------
(* Answers and carts. *)

\* The step answers nobody.
Unanswered(r) == pc'[r] # "done" /\ UNCHANGED <<answer, reply>>

\* The step ends r, and its answer is so.
TrulyAnswered(r) ==
  /\ pc'[r] = "done"
  /\ \A x \in Requests \ {r} : answer'[x] = answer[x] /\ reply'[x] = reply[x]
  /\ \/ answer'[r] \in {"error", "upstream", "lost"}
     \/ answer'[r] \in {"invalid", "empty", "conflict", "integrity"} /\ r \notin Placed
        /\ UNCHANGED orders
     \/ answer'[r] = "replayed" /\ reply'[r] \in OrdersWithKeyOf(r) /\ r \notin Placed
        /\ UNCHANGED orders
     \/ answer'[r] = "accepted" /\ reply'[r] = r /\ r \in Placed /\ sent[r] > 0
        /\ UNCHANGED <<orders, sent>>

\* What a step of r does to the answers.
LEMMA AnswerEffect ==
  ASSUME IInvStages, NEW r \in Requests, Advance(r)
  PROVE  Unanswered(r) \/ TrulyAnswered(r)
  <1>t. TypeOK /\ StageOK(r)
    BY DEF IInvStages
  <1>e. ASSUME NEW how \in Answers, NEW order \in Requests \cup {NoOrder}, End(r, how, order)
        PROVE  /\ pc'[r] = "done" /\ answer'[r] = how /\ reply'[r] = order
               /\ \A x \in Requests \ {r} : answer'[x] = answer[x] /\ reply'[x] = reply[x]
    BY <1>e, <1>t, EndEffect DEF TypeOK
  <1>a. ASSUME NEW how \in {"error", "lost"}, Abort(r, how)
        PROVE  TrulyAnswered(r)
    BY <1>a, <1>e DEF Abort, TrulyAnswered, Answers
  <1>b. ASSUME NEW how \in {"invalid", "empty", "conflict", "integrity"}, Abort(r, how),
               pc[r] \in {"idle", "read", "insert", "email", "reserve", "order"}
        PROVE  TrulyAnswered(r)
    <2>1. r \notin Placed
      BY <1>b, <1>t DEF StageOK
    <2> QED
      BY <1>b, <1>e, <2>1 DEF Abort, TrulyAnswered, Answers, database
  <1>1. CASE Arrive(r)
    BY <1>1, <1>b, <1>t DEF Arrive, Goto, At, Unanswered, TypeOK
  <1>2. CASE Lookup(r)
    <2>1. CASE \E o \in OrdersWithKeyOf(r) :
                 End(r, "replayed", o) /\ UNCHANGED <<database, cart, sent>>
      <3>1. PICK o \in OrdersWithKeyOf(r) : End(r, "replayed", o) /\ UNCHANGED orders
        BY <2>1 DEF database
      <3>2. o \in Requests /\ r \notin Placed
        BY <1>2, <1>t DEF OrdersWithKeyOf, Placed, Lookup, StageOK, At
      <3> QED
        BY <3>1, <3>2, <1>e DEF TrulyAnswered, Answers
    <2>2. CASE Goto(r, "read") /\ UNCHANGED <<answer, reply>>
      BY <2>2, <1>t DEF Unanswered, Goto, TypeOK
    <2> QED
      BY <1>2, <2>1, <2>2 DEF Lookup
  <1>3. CASE ReadCart(r)
    BY <1>3, <1>b, <1>t DEF ReadCart, Goto, At, Unanswered, TypeOK
  <1>4. CASE GetCustomer(r)
    BY <1>4, <1>t DEF GetCustomer, Goto, Unanswered, TypeOK
  <1>5. CASE InsertCustomer(r)
    BY <1>5, <1>b, <1>t DEF InsertCustomer, Write, Goto, At, Unanswered, TypeOK
  <1>6. CASE Reserve(r)
    BY <1>6, <1>b, <1>t DEF Reserve, Goto, At, Unanswered, TypeOK
  <1>7. CASE IndexEmail(r)
    BY <1>7, <1>b, <1>t DEF IndexEmail, Write, Goto, At, Unanswered, TypeOK
  <1>8. CASE UpdateCustomer(r)
    BY <1>8, <1>t DEF UpdateCustomer, Write, Goto, At, Unanswered, TypeOK
  <1>9. CASE InsertOrder(r)
    BY <1>9, <1>b, <1>t DEF InsertOrder, Write, Goto, At, Unanswered, TypeOK
  <1>10. CASE ShareCustomer(r)
    BY <1>10, <1>t DEF ShareCustomer, Write, Goto, At, Unanswered, TypeOK
  <1>11. CASE Commit(r)
    BY <1>11, <1>t DEF Commit, Goto, Unanswered, TypeOK
  <1>12. CASE CommitUnacknowledged(r)
    BY <1>12, <1>e DEF CommitUnacknowledged, TrulyAnswered, Answers
  <1>13. CASE SendSucceeds(r)
    BY <1>13, <1>t DEF SendSucceeds, Goto, Unanswered, TypeOK
  <1>14. CASE SendRaises(r)
    <2>1. CASE End(r, "upstream", NoOrder)
      BY <2>1, <1>e DEF TrulyAnswered, Answers
    <2>2. CASE ~End(r, "upstream", NoOrder)
      BY <1>14, <2>2 DEF SendRaises, Unanswered, At
    <2> QED
      BY <2>1, <2>2
  <1>15. CASE ClearCart(r)
    <2>1. r \in Placed /\ sent[r] > 0
      BY <1>15, <1>t DEF ClearCart, StageOK
    <2> QED
      BY <1>15, <2>1, <1>e DEF ClearCart, TrulyAnswered, Answers, database
  <1>16. CASE ClearUnacknowledged(r)
    BY <1>16, <1>e DEF ClearUnacknowledged, TrulyAnswered, Answers
  <1>17. CASE DeadlockVictim(r)
    BY <1>17, <1>a DEF DeadlockVictim
  <1>18. CASE Fail(r)
    BY <1>18, <1>a DEF Fail
  <1>19. CASE Crash(r)
    BY <1>19, <1>a DEF Crash
  <1> QED
    BY <1>1, <1>2, <1>3, <1>4, <1>5, <1>6, <1>7, <1>8, <1>9, <1>10, <1>16, <1>11, <1>12,
       <1>13, <1>14, <1>15, <1>17,
       <1>18, <1>19 DEF Advance, Step

\* An answer stays true because a request that has one has ended: the orders and
\* messages it speaks of are never taken back, and none is added to it.
IInvAnswers ==
  AnswersAreTrue /\ \A r \in Requests : pc[r] # "done" => answer[r] = "none"

LEMMA InitAnswers == Init => IInvAnswers
  BY DEF Init, IInvAnswers, AnswersAreTrue

\* Nothing that was ordered or sent is taken back.
LEMMA OrdersStay ==
  ASSUME IInvStages, NEW r \in Requests, Advance(r)
  PROVE  /\ Placed \subseteq Placed' /\ Placed' \subseteq Placed \cup {r}
         /\ \A x \in Requests : sent[x] > 0 => sent'[x] > 0
         /\ pc[r] # "done"
  <1>1. \A x \in Requests \ {r} : Untouched(x)
    BY OthersUntouched
  <1>2. Placed \subseteq Placed'
    <2>1. CASE Places(r)
      <3>1. orders'[r] = snapshot[r] /\ snapshot[r] # NoOrder
        BY <2>1, CommitEffect, NoOrderAssumption DEF Places, IInvStages, TypeOK
      <3> QED
        BY <1>1, <3>1 DEF Untouched, Placed
    <2>2. CASE UNCHANGED orders
      BY <2>2 DEF Placed
    <2> QED
      BY <2>1, <2>2, OrderEffect DEF PlacesNothing, Inserts
  <1>3. \A x \in Requests : sent[x] > 0 => sent'[x] > 0
    <2>1. sent \in [Requests -> Nat]
      BY DEF IInvStages, TypeOK
    <2> QED
      BY <2>1, SendEffect
  <1>4. pc[r] # "done"
    BY DEF Advance, Step, Arrive, Lookup, ReadCart, GetCustomer, InsertCustomer, IndexEmail,
       Reserve, UpdateCustomer, InsertOrder, ShareCustomer, Commit, CommitUnacknowledged,
       SendSucceeds, SendRaises, ClearCart, ClearUnacknowledged, Fail, Crash, At, DeadlockVictim,
       Deadlocked, WaitsFor, WaitsForStock, WaitsForRow, WaitsForEmail, WaitsForKey, WaitsForShare
  <1> QED
    BY <1>1, <1>2, <1>3, <1>4 DEF Untouched, Placed

LEMMA NextAnswers == IInvStages /\ IInvAnswers /\ [Next]_vars => IInvAnswers'
  <1> SUFFICES ASSUME IInvStages, IInvAnswers, [Next]_vars
               PROVE  IInvAnswers'
    OBVIOUS
  <1>1. ASSUME NEW r \in Requests, Advance(r)
        PROVE  IInvAnswers'
    <2>1. \A x \in Requests \ {r} : pc'[x] = pc[x]
      BY <1>1, OthersUntouched DEF Untouched
    <2>2. /\ Placed \subseteq Placed' /\ Placed' \subseteq Placed \cup {r}
          /\ \A x \in Requests : sent[x] > 0 => sent'[x] > 0
          /\ answer[r] = "none"
      BY <1>1, OrdersStay DEF IInvAnswers
    <2>3. CASE Unanswered(r)
      BY <2>1, <2>2, <2>3 DEF Unanswered, IInvAnswers, AnswersAreTrue
    <2>4. CASE TrulyAnswered(r)
      <3>1. UNCHANGED orders => Placed' = Placed
        BY DEF Placed
      <3>2. \A x \in Requests \ {r} : pc'[x] # "done" => answer'[x] = "none"
        BY <2>1, <2>4 DEF TrulyAnswered, IInvAnswers
      <3>3. AnswersAreTrue'
        BY <2>2, <2>4, <3>1 DEF TrulyAnswered, IInvAnswers, AnswersAreTrue, OrdersWithKeyOf
      <3> QED
        BY <2>4, <3>2, <3>3 DEF TrulyAnswered, IInvAnswers
    <2> QED
      BY <1>1, <2>3, <2>4, AnswerEffect
  <1>2. CASE (\E c \in Customers : EditCart(c)) \/ UNCHANGED vars
    <2>1. UNCHANGED <<pc, answer, reply, orders, sent>>
      BY <1>2 DEF EditCart, vars, local, database
    <2> QED
      BY <2>1 DEF IInvAnswers, AnswersAreTrue, Placed
  <1> QED
    BY <1>1, <1>2 DEF Next, Advance

\* What a response says is so and stays so: a 202 names an order of that customer,
\* queued for invoicing or made under the same key, and a 4xx means no order.
THEOREM AnswersStayTrue == Spec => []AnswersAreTrue
  <1>1. IInvAnswers => AnswersAreTrue
    BY DEF IInvAnswers
  <1> QED
    BY <1>1, InitStages, NextStages, InitAnswers, NextAnswers, PTL DEF Spec

\* Checkout deletes a cart only for an order that is committed and queued for
\* invoicing, answered or not; a failure before that leaves it (CartReader.clear is
\* the last call of CheckoutService.checkout).
THEOREM CartsOutliveFailures == Spec => CartClearedOnlyWhenInvoiced
  <1> DEFINE Cleared == \A r \in Requests : pc'[r] # pc[r] /\ cart' # cart
                          => r \in Placed /\ sent[r] > 0
  <1>1. IInvStages /\ [Next]_vars => [Cleared]_vars
    <2> SUFFICES ASSUME IInvStages, Next, NEW r \in Requests, pc'[r] # pc[r], cart' # cart
                 PROVE  r \in Placed /\ sent[r] > 0
      OBVIOUS
    <2>1. ~ \E c \in Customers : EditCart(c)
      BY DEF EditCart, local
    <2>2. PICK x \in Requests : Advance(x)
      BY <2>1 DEF Next, Advance
    <2>3. ClearCart(x) \/ ClearUnacknowledged(x)
      BY <2>2 DEF Advance, Step, Arrive, Lookup, ReadCart, GetCustomer, InsertCustomer,
         IndexEmail,
         Reserve, UpdateCustomer, InsertOrder, ShareCustomer, Write, Commit, CommitUnacknowledged,
         SendSucceeds, SendRaises, Fail, Crash, Abort, DeadlockVictim
    <2>4. x = r
      BY <2>2, OthersUntouched DEF Untouched
    <2> QED
      BY <2>3, <2>4 DEF ClearCart, ClearUnacknowledged, IInvStages, StageOK
  <1> QED
    BY <1>1, InitStages, NextStages, PTL DEF Spec, CartClearedOnlyWhenInvoiced
=============================================================================
