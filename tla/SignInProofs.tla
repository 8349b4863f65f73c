---------------------------- MODULE SignInProofs ----------------------------
(***************************************************************************)
(* Theorems about WebSignIn, for any users, calls under way, clicks and    *)
(* failures.                                                               *)
(***************************************************************************)
EXTENDS WebSignIn, FiniteSetTheorems, TLAPS

\* The records of the calls under way, by kind.
Stages == {"sent", "ok", "refused"}
RegisterCalls == [kind: {"register"}, user: Users, stage: Stages, here: BOOLEAN]
LoginCalls == [kind: {"login"}, user: Users, stage: Stages, here: BOOLEAN, mfa: 1 .. MaxClicks]
VerifyCalls ==
  [kind: {"verify"}, user: Users \union {Nobody}, stage: Stages \union {"signed"}, here: BOOLEAN,
   mfa: 1 .. MaxClicks]
ForgotCalls == [kind: {"forgot"}, user: Users, stage: Stages, here: BOOLEAN]
ResetCalls ==
  [kind: {"reset"}, user: Users, code: 1 .. MaxClicks, no: 1 .. MaxClicks,
   stage: Stages \union {"checked"}, here: BOOLEAN]
TableCalls == [kind: {"table"}, stage: Stages, saw: SUBSET Users]
ToggleCalls ==
  [kind: {"toggle"}, user: Users, stage: Stages \union {"read"}, here: BOOLEAN, saw: BOOLEAN]
DetailsCalls == [kind: {"details"}, user: Users, stage: Stages, here: BOOLEAN]
Calls ==
  {Idle} \union RegisterCalls \union LoginCalls \union VerifyCalls \union ForgotCalls
    \union ResetCalls \union TableCalls \union ToggleCalls \union DetailsCalls

Screens ==
  [page: {"home", "login", "register", "forgot", "code", "reset"}, busy: BOOLEAN,
   mfa: 0 .. MaxClicks, user: Users \union {Nobody}, code: 0 .. MaxClicks]
Tables ==
  [rows: BOOLEAN, blocked: SUBSET Users, behind: SUBSET Users,
   details: Users \union {Nobody}, asked: Users \union {Nobody}, mixed: BOOLEAN]

Typed ==
  /\ registered \subseteq Users /\ blocked \subseteq Users
  /\ mfa \subseteq [no: 1 .. MaxClicks, user: Users]
  /\ resetCode \in [Users -> Nat] /\ asked \in [Users -> Nat]
  /\ token \in Users \union {Nobody} /\ meant \subseteq Users
  /\ screen \in Screens /\ table \in Tables
  /\ call \in [Slots -> Calls]
  /\ issued \in [1 .. MaxClicks -> Nat]
  /\ spent \subseteq [user: Users, code: Nat, by: 1 .. MaxClicks]
  /\ raced \subseteq Users /\ late \in BOOLEAN
  /\ clicks \in 0 .. MaxClicks /\ faults \in 0 .. MaxFaults

\* Whoever is named where an account is needed has one.
Accounts ==
  /\ blocked \subseteq registered /\ meant \subseteq registered
  /\ token \in registered \union {Nobody}
  /\ \A m \in mfa : m.user \in registered
  /\ screen.mfa # 0 => screen.user \in registered
  /\ table.blocked \subseteq registered /\ table.behind \subseteq registered
  /\ {table.details, table.asked} \subseteq registered \union {Nobody}
  /\ \A s \in Slots :
       /\ call[s].kind \in {"toggle", "details"} => call[s].user \in registered
       /\ call[s].kind = "table" => call[s].saw \subseteq registered
       /\ call[s].kind = "login" /\ call[s].stage = "ok" => call[s].user \in registered
       /\ call[s].kind = "verify" /\ call[s].stage \in {"ok", "signed"} => call[s].user \in registered

\* A page that waits hears of one call, its own; what a page needs, it has.
PagesHear ==
  /\ screen.mfa # 0 => screen.page = "login"
  /\ screen.page = "code" => screen.user \in Users
  /\ screen.page = "reset" => screen.user \in Users /\ screen.code # 0
  /\ \A s \in Slots :
       /\ call[s].kind \in {"login", "verify"} /\ call[s].here => screen.page = "login" /\ screen.busy
       /\ call[s].kind = "login" /\ call[s].here => screen.mfa = 0
       /\ call[s].kind = "forgot" /\ call[s].here => screen.page \in {"forgot", "code"}
  /\ \A s, x \in Slots :
       call[s].kind \in {"login", "verify"} /\ call[s].here /\
       call[x].kind \in {"login", "verify"} /\ call[x].here => s = x

\* Each login has a number of its own, which a code gets once.
Numbers ==
  /\ screen.mfa <= clicks
  /\ \A s \in Slots : call[s].kind \in {"login", "verify"} => call[s].mfa <= clicks
  /\ \A m \in mfa : m.no <= clicks /\ issued[m.no] = 0
  /\ \A m, n \in mfa : m.no = n.no => m = n
  /\ \A n \in 1 .. MaxClicks : issued[n] <= 1 /\ (n > clicks => issued[n] = 0)
  /\ \A s, x \in Slots :
       call[s].kind = "login" /\ call[x].kind \in {"login", "verify"} /\ call[s].mfa = call[x].mfa => s = x
  /\ \A s \in Slots :
       call[s].kind = "login" =>
         /\ call[s].mfa # screen.mfa
         /\ call[s].stage = "sent" => issued[call[s].mfa] = 0 /\ \A m \in mfa : m.no # call[s].mfa

\* A login's number opens a session of the user who logged in.
Sessions ==
  \A m \in mfa :
    /\ screen.mfa = m.no => screen.user = m.user
    /\ \A s \in Slots :
         /\ call[s].kind = "login" /\ call[s].mfa = m.no => call[s].user = m.user
         /\ call[s].kind = "verify" /\ call[s].mfa = m.no => late \/ m.user \in meant

\* One verification at a time, or it is on record; what it will store is meant.
SignsIn ==
  ~late =>
    /\ token = Nobody \/ token \in meant
    /\ \A s, x \in Slots : call[s].kind = "verify" /\ call[x].kind = "verify" => s = x
    /\ \A s \in Slots : call[s].kind = "verify" /\ call[s].stage = "ok" => call[s].user \in meant

\* The codes of a user: the valid one is the last that was sent, has not set a
\* password, and is the one a reset that passed its check holds.
ResetCodes ==
  /\ \A u \in Users : resetCode[u] \in {0, asked[u]}
  /\ \A x \in spent : x.code \in 1 .. asked[x.user]
  /\ \A s \in Slots : call[s].kind = "reset" /\ call[s].stage = "checked" => call[s].code <= asked[call[s].user]
  /\ \A s, x \in Slots :
       call[s].kind = "reset" /\ call[s].stage = "checked"
         /\ call[x].kind = "reset" /\ call[x].stage = "checked"
         /\ call[s].user = call[x].user /\ call[s].user \notin raced => s = x
  /\ \A s \in Slots :
       call[s].kind = "reset" /\ call[s].stage = "checked" /\ call[s].user \notin raced =>
         resetCode[call[s].user] = call[s].code
  /\ \A x \in spent : x.user \notin raced => x.code # resetCode[x.user]

\* A code sets one password.
SpentOnce ==
  \A x, y \in spent : x.user = y.user /\ x.code = y.code => x = y \/ x.user \in raced

\* A code is sent for a click.
Asking(u) == {s \in Slots : call[s].kind = "forgot" /\ call[s].stage = "sent" /\ call[s].user = u}
Mailed ==
  \A u \in Users : IsFiniteSet(Asking(u)) /\ asked[u] + Cardinality(Asking(u)) <= clicks

\* The table is read once, and its rows are shown after; unless a row is behind,
\* one click at most is under way on it.
Clicks ==
  /\ \A s, x \in Slots : call[s].kind = "table" /\ call[x].kind = "table" => s = x
  /\ \A s \in Slots : call[s].kind = "table" => ~table.rows
  /\ \A s \in Slots :
       call[s].kind = "toggle" /\ call[s].user \notin table.behind => call[s].here /\ table.rows
  /\ \A s, x \in Slots :
       call[s].kind = "toggle" /\ call[x].kind = "toggle" /\ call[s].user = call[x].user
         /\ call[s].user \notin table.behind => s = x

\* The row differs from the account only when the click on it has been committed.
Rows ==
  /\ \A s \in Slots : call[s].kind = "table" /\ call[s].stage = "ok" =>
       \A u \in registered \ table.behind : u \in call[s].saw <=> u \in blocked
  /\ \A s \in Slots :
       call[s].kind = "toggle" /\ call[s].stage = "read" /\ call[s].user \notin table.behind =>
         (call[s].saw <=> call[s].user \in blocked)
  /\ table.rows => \A u \in registered \ table.behind :
       (u \in table.blocked <=> u \in blocked) <=>
         ~\E s \in Slots : call[s].kind = "toggle" /\ call[s].user = u /\ call[s].stage = "ok"

\* The details that are asked for are those of the last click.
LastAsked ==
  ~table.mixed =>
    /\ \A s \in AskedHere : call[s].user = table.asked /\ call[s].stage # "refused"
    /\ \A s, x \in AskedHere : s = x
    /\ AskedHere = {} => table.details = table.asked

IInv ==
  /\ Typed /\ Accounts /\ PagesHear /\ Numbers /\ Sessions /\ SignsIn
  /\ ResetCodes /\ SpentOnce /\ NewestResetCodeWorks /\ Mailed
  /\ Clicks /\ Rows /\ LastAsked

-----------------------------------------------------------------------------
(* Calls and their stages.                                                   *)

\* The kind of a call tells its fields.
LEMMA CallKinds ==
  ASSUME NEW c \in Calls
  PROVE  /\ c.kind = "idle" => c = Idle
         /\ c.kind = "register" => c \in RegisterCalls
         /\ c.kind = "login" => c \in LoginCalls
         /\ c.kind = "verify" => c \in VerifyCalls
         /\ c.kind = "forgot" => c \in ForgotCalls
         /\ c.kind = "reset" => c \in ResetCalls
         /\ c.kind = "table" => c \in TableCalls
         /\ c.kind = "toggle" => c \in ToggleCalls
         /\ c.kind = "details" => c \in DetailsCalls
         /\ c.kind \in {"idle", "register", "login", "verify", "forgot", "reset", "table", "toggle",
                        "details"}
BY DEF Calls, Idle, RegisterCalls, LoginCalls, VerifyCalls, ForgotCalls, ResetCalls, TableCalls,
       ToggleCalls, DetailsCalls

\* d is the call c but for its stage, and whether its page is shown.
Continues(c, d) ==
  /\ d.kind = c.kind
  /\ c.kind \notin {"idle", "table"} => d.user = c.user
  /\ c.kind \in {"login", "verify"} => d.mfa = c.mfa
  /\ c.kind = "reset" => d.code = c.code /\ d.no = c.no
  /\ c.kind \in {"table", "toggle"} => d.saw = c.saw
  /\ c.kind \in {"idle", "table", "toggle", "details"} => d.here = c.here

\* Which stages a call of each kind can be in.
StagesOf(kind) ==
  IF kind = "verify" THEN Stages \union {"signed"}
  ELSE IF kind = "reset" THEN Stages \union {"checked"}
  ELSE IF kind = "toggle" THEN Stages \union {"read"}
  ELSE Stages

\* What an answer or a failure leaves of a call.
LEMMA Answers ==
  ASSUME NEW c \in Calls, c.kind # "idle", NEW st \in StagesOf(c.kind)
  PROVE  LET d == [c EXCEPT !.stage = st]
         IN  d \in Calls /\ Continues(c, d) /\ d.stage = st /\ d.here = c.here
<1> DEFINE d == [c EXCEPT !.stage = st]
<1>1. CASE c \in RegisterCalls
  BY <1>1 DEF Calls, RegisterCalls, Continues, StagesOf, Stages
<1>2. CASE c \in LoginCalls
  BY <1>2 DEF Calls, LoginCalls, Continues, StagesOf, Stages
<1>3. CASE c \in VerifyCalls
  BY <1>3 DEF Calls, VerifyCalls, Continues, StagesOf, Stages
<1>4. CASE c \in ForgotCalls
  BY <1>4 DEF Calls, ForgotCalls, Continues, StagesOf, Stages
<1>5. CASE c \in ResetCalls
  BY <1>5 DEF Calls, ResetCalls, Continues, StagesOf, Stages
<1>6. CASE c \in TableCalls
  <2>1. d \in TableCalls /\ d.kind = "table" /\ d.stage = st /\ d.saw = c.saw /\ c.kind = "table"
    BY <1>6 DEF TableCalls, StagesOf, Stages
  <2>2. d.here = c.here
    BY <1>6 DEF TableCalls
  <2> QED
    BY <2>1, <2>2 DEF Calls, Continues
<1>7. CASE c \in ToggleCalls
  BY <1>7 DEF Calls, ToggleCalls, Continues, StagesOf, Stages
<1>8. CASE c \in DetailsCalls
  BY <1>8 DEF Calls, DetailsCalls, Continues, StagesOf, Stages
<1>9. c # Idle
  BY DEF Idle
<1> QED
  BY <1>1, <1>2, <1>3, <1>4, <1>5, <1>6, <1>7, <1>8, <1>9 DEF Calls

\* The same, of the call of a slot.
LEMMA SlotAnswered ==
  ASSUME Typed, NEW s \in Slots, NEW st, call[s].kind # "idle", st \in StagesOf(call[s].kind),
         call' = Answer(s, st)
  PROVE  /\ call' \in [Slots -> Calls] /\ \A x \in Slots \ {s} : call'[x] = call[x]
         /\ Continues(call[s], call'[s]) /\ call'[s].stage = st /\ call'[s].here = call[s].here
<1>1. call \in [Slots -> Calls] /\ call[s] \in Calls
  BY DEF Typed
<1>2. /\ call'[s] = [call[s] EXCEPT !.stage = st]
      /\ call' = [call EXCEPT ![s] = [call[s] EXCEPT !.stage = st]]
  BY <1>1 DEF Answer
<1>3. LET d == [call[s] EXCEPT !.stage = st]
      IN  d \in Calls /\ Continues(call[s], d) /\ d.stage = st /\ d.here = call[s].here
  BY <1>1, Answers
<1> QED
  BY <1>1, <1>2, <1>3

\* A slot given another call.
LEMMA SlotSet ==
  ASSUME Typed, NEW s \in Slots, NEW c \in Calls, call' = [call EXCEPT ![s] = c]
  PROVE  /\ call' \in [Slots -> Calls]
         /\ call'[s] = c /\ \A x \in Slots \ {s} : call'[x] = call[x]
BY DEF Typed

\* A call that is sent.
LEMMA Sent ==
  ASSUME Typed, NEW s, NEW c \in Calls, Send(s, c)
  PROVE  /\ s \in Slots /\ call[s].kind = "idle"
         /\ call' \in [Slots -> Calls]
         /\ call'[s] = c /\ \A x \in Slots \ {s} : call'[x] = call[x]
         /\ clicks' = clicks + 1 /\ clicks' \in 1 .. MaxClicks
BY SlotSet, SignInAssumption DEF Send, Busy, Typed, SignInAssumption

\* A call that is over.
LEMMA SlotOver ==
  ASSUME Typed, NEW s \in Slots, call' = Over(s)
  PROVE  /\ call' \in [Slots -> Calls]
         /\ call'[s].kind = "idle" /\ \A x \in Slots \ {s} : call'[x] = call[x]
BY SlotSet DEF Over, Idle, Calls

\* The calls of a page that is left.
LEMMA SlotLeft ==
  ASSUME Typed, NEW x \in Slots
  PROVE  /\ Left[x] \in Calls /\ Continues(call[x], Left[x])
         /\ call[x].kind # "idle" => Left[x].stage = call[x].stage
         /\ call[x].kind \in {"idle", "table", "toggle", "details"} => Left[x] = call[x]
         /\ call[x].kind \in {"register", "login", "verify", "forgot", "reset"} => ~Left[x].here
<1> DEFINE c == call[x]
           d == [c EXCEPT !.here = FALSE]
<1>1. c \in Calls
  BY DEF Typed
<1>2. CASE c.kind \in {"idle", "table", "toggle", "details"}
  <2>1. Left[x] = c
    BY <1>2 DEF Left
  <2> QED
    BY <1>1, <1>2, <2>1 DEF Continues
<1>3. CASE c.kind \notin {"idle", "table", "toggle", "details"}
  <2>1. Left[x] = d
    BY <1>3 DEF Left
  <2>2. CASE c \in RegisterCalls
    BY <2>1, <2>2 DEF Calls, RegisterCalls, Continues
  <2>3. CASE c \in LoginCalls
    BY <2>1, <2>3 DEF Calls, LoginCalls, Continues
  <2>4. CASE c \in VerifyCalls
    BY <2>1, <2>4 DEF Calls, VerifyCalls, Continues
  <2>5. CASE c \in ForgotCalls
    BY <2>1, <2>5 DEF Calls, ForgotCalls, Continues
  <2>6. CASE c \in ResetCalls
    BY <2>1, <2>6 DEF Calls, ResetCalls, Continues
  <2> QED
    BY <1>1, <1>3, <2>2, <2>3, <2>4, <2>5, <2>6, CallKinds
<1> QED
  BY <1>2, <1>3

\* The codes mailed stay within the clicks if no call asks for another.
LEMMA MailedKept ==
  ASSUME IInv, asked' = asked, clicks' = clicks \/ clicks' = clicks + 1,
         \A x \in Slots : call'[x].kind = "forgot" /\ call'[x].stage = "sent" =>
           call[x].kind = "forgot" /\ call[x].stage = "sent" /\ call'[x].user = call[x].user
  PROVE  Mailed'
<1> SUFFICES ASSUME NEW u \in Users
             PROVE  IsFiniteSet(Asking(u)') /\ asked[u] + Cardinality(Asking(u)') <= clicks'
  BY DEF Mailed, Asking
<1> USE DEF IInv
<1>1. Asking(u)' \subseteq Asking(u)
  BY DEF Asking
<1>2. IsFiniteSet(Asking(u)) /\ asked[u] + Cardinality(Asking(u)) <= clicks
  BY DEF Mailed
<1>3. IsFiniteSet(Asking(u)') /\ Cardinality(Asking(u)') <= Cardinality(Asking(u))
  BY <1>1, <1>2, FS_Subset
<1>4. Cardinality(Asking(u)) \in Nat /\ Cardinality(Asking(u)') \in Nat /\ asked[u] \in Nat
  BY <1>2, <1>3, FS_CardinalityType DEF Typed
<1> QED
  BY <1>2, <1>3, <1>4 DEF Typed

\* Numbers given stay good as clicks go on.
LEMMA NumbersKept ==
  ASSUME IInv, clicks' \in Nat, clicks <= clicks', UNCHANGED <<mfa, issued, screen>>,
         \A x \in Slots : call'[x].kind \in {"login", "verify"} => call'[x] = call[x]
  PROVE  Numbers'
<1>1. /\ screen.mfa \in Nat /\ screen.mfa <= clicks /\ clicks \in Nat
      /\ \A m \in mfa : m.no \in Nat /\ m.no <= clicks
  BY DEF IInv, Typed, Numbers, Screens
<1>2. \A x \in Slots : call[x].kind \in {"login", "verify"} => call[x].mfa \in Nat /\ call[x].mfa <= clicks
  BY CallKinds DEF IInv, Typed, Numbers, LoginCalls, VerifyCalls
<1>3. \A n \in 1 .. MaxClicks : issued[n] <= 1 /\ (n > clicks' => issued[n] = 0)
  BY <1>1 DEF IInv, Numbers
<1> QED
  BY <1>1, <1>2, <1>3 DEF IInv, Numbers

\* No more codes than clicks have been mailed.
LEMMA MailedIsBounded ==
  ASSUME Typed, Mailed, NEW u \in Users
  PROVE  asked[u] \in 0 .. MaxClicks
<1>1. Cardinality(Asking(u)) \in Nat
  BY FS_CardinalityType DEF Mailed
<1> QED
  BY <1>1, SignInAssumption DEF Mailed, Typed, SignInAssumption

-----------------------------------------------------------------------------
(* A page is left for another: the calls of the shop's pages go on, or are   *)
(* over, and none of them is heard of.                                       *)

PageKinds == {"register", "login", "verify", "forgot", "reset"}

\* The invariant of the session: the page that comes waits for no code.
LEMMA LeavingKeeps ==
  ASSUME IInv,
         screen' \in Screens, screen'.mfa = 0,
         screen'.page = "code" => screen'.user \in Users,
         screen'.page = "reset" => screen'.user \in Users /\ screen'.code # 0,
         call' \in [Slots -> Calls],
         \A x \in Slots :
           \/ call[x].kind \in PageKinds /\ call'[x] = Idle
           \/ call[x].kind \in PageKinds /\ Continues(call[x], call'[x])
                /\ call'[x].stage = call[x].stage /\ ~call'[x].here
           \/ call[x].kind \notin PageKinds /\ call'[x] = call[x],
         \/ UNCHANGED <<token, meant, late>>
         \/ token' = Nobody /\ meant' = {} /\ late' \in BOOLEAN /\ (late => late')
              /\ ((\E x \in Slots : call[x].kind = "verify") => late'),
         UNCHANGED <<Gateway, table, issued, asked, spent, raced, Bounds>>
  PROVE  IInv'
<1>1. /\ UNCHANGED <<registered, blocked, mfa, resetCode>> /\ UNCHANGED <<clicks, faults>>
      /\ UNCHANGED <<table, issued, asked, spent, raced>>
  BY DEF Gateway, Bounds
<1>2. \A x \in Slots :
        /\ call'[x].kind = "idle" \/ call'[x].kind = call[x].kind
        /\ call'[x].kind # "idle" => call'[x].stage = call[x].stage
        /\ call'[x].kind \in {"toggle", "details"} =>
             call'[x].user = call[x].user /\ call'[x].here = call[x].here
        /\ call'[x].kind \in {"table", "toggle"} => call'[x].saw = call[x].saw
        /\ call'[x].kind \in PageKinds => ~call'[x].here /\ call'[x].user = call[x].user
        /\ call'[x].kind \in {"login", "verify"} => call'[x].mfa = call[x].mfa
        /\ call'[x].kind = "reset" => call'[x].code = call[x].code
        /\ call[x].kind \in {"table", "toggle", "details"} => call'[x] = call[x]
  BY DEF Continues, PageKinds, Idle
<1>3. Typed'
  BY <1>1 DEF IInv, Typed
<1>4. Accounts'
  BY <1>1, <1>2 DEF IInv, Accounts, PageKinds
<1>5. PagesHear'
  BY <1>1, <1>2 DEF IInv, PagesHear, PageKinds
<1>6. Numbers'
  <2>1. \A x \in Slots : call[x].kind = "login" => call[x].mfa # 0
    BY CallKinds DEF IInv, Typed, LoginCalls
  <2>2. clicks \in Nat
    BY DEF IInv, Typed
  <2> QED
    BY <1>1, <1>2, <2>1, <2>2 DEF IInv, Numbers
<1>7. Sessions'
  <2>1. \A m \in mfa : m.no # 0
    BY DEF IInv, Typed
  <2>2. \A x \in Slots : call'[x].kind = "verify" => late' \/ UNCHANGED <<late, meant>>
    BY <1>2
  <2>3. ASSUME NEW m \in mfa, NEW x \in Slots
        PROVE  /\ call'[x].kind = "login" /\ call'[x].mfa = m.no => call'[x].user = m.user
               /\ call'[x].kind = "verify" /\ call'[x].mfa = m.no => late' \/ m.user \in meant'
    BY <1>2, <2>2, <2>3 DEF IInv, Sessions, PageKinds
  <2> QED
    BY <1>1, <2>1, <2>3 DEF Sessions
<1>8. SignsIn'
  BY <1>1, <1>2 DEF IInv, SignsIn, PageKinds
<1>9. ResetCodes'
  BY <1>1, <1>2 DEF IInv, ResetCodes, PageKinds
<1>10. SpentOnce' /\ NewestResetCodeWorks'
  BY <1>1 DEF IInv, SpentOnce, NewestResetCodeWorks
<1>11. Mailed'
  BY <1>1, <1>2, MailedKept DEF PageKinds
<1>12. Clicks' /\ Rows'
  BY <1>1, <1>2 DEF IInv, Clicks, Rows
<1>13. LastAsked'
  <2>1. AskedHere' = AskedHere
    BY <1>2 DEF AskedHere, Of, Busy
  <2>2. \A s \in AskedHere : call'[s] = call[s]
    BY <1>2 DEF AskedHere, Of, Busy
  <2> QED
    BY <1>1, <2>1, <2>2 DEF IInv, LastAsked
<1> QED
  BY <1>3, <1>4, <1>5, <1>6, <1>7, <1>8, <1>9, <1>11, <1>12, <1>13, <1>10 DEF IInv

\* Every call is let go by a page that is left.
LEMMA LeftIsLeaving ==
  ASSUME IInv, call' = Left
  PROVE  /\ call' \in [Slots -> Calls]
         /\ \A x \in Slots :
              \/ call[x].kind \in PageKinds /\ Continues(call[x], call'[x])
                   /\ call'[x].stage = call[x].stage /\ ~call'[x].here
              \/ call[x].kind \notin PageKinds /\ call'[x] = call[x]
<1>1. call \in [Slots -> Calls] /\ Typed
  BY DEF IInv, Typed
<1>2. \A x \in Slots : Left[x] \in Calls
  BY <1>1, SlotLeft
<1>3. call' \in [Slots -> Calls]
  BY <1>2 DEF Left
<1>4. ASSUME NEW x \in Slots
      PROVE  \/ call[x].kind \in PageKinds /\ Continues(call[x], call'[x])
                   /\ call'[x].stage = call[x].stage /\ ~call'[x].here
             \/ call[x].kind \notin PageKinds /\ call'[x] = call[x]
  <2>1. call[x].kind \in PageKinds \union {"idle", "table", "toggle", "details"}
    BY <1>1, CallKinds DEF PageKinds
  <2> QED
    BY <1>1, <2>1, SlotLeft DEF PageKinds
<1> QED
  BY <1>3, <1>4

\* So it is when the one that is answered is over.
LEMMA LeftOverIsLeaving ==
  ASSUME IInv, NEW s \in Slots, call[s].kind \in PageKinds, call' = [Left EXCEPT ![s] = Idle]
  PROVE  /\ call' \in [Slots -> Calls]
         /\ \A x \in Slots :
              \/ call[x].kind \in PageKinds /\ call'[x] = Idle
              \/ call[x].kind \in PageKinds /\ Continues(call[x], call'[x])
                   /\ call'[x].stage = call[x].stage /\ ~call'[x].here
              \/ call[x].kind \notin PageKinds /\ call'[x] = call[x]
<1>1. call \in [Slots -> Calls] /\ Typed
  BY DEF IInv, Typed
<1>2. \A x \in Slots : Left[x] \in Calls
  BY <1>1, SlotLeft
<1>3. call' = [x \in Slots |-> IF x = s THEN Idle ELSE Left[x]]
  BY DEF Left
<1>4. call' \in [Slots -> Calls]
  BY <1>2, <1>3 DEF Calls
<1>5. ASSUME NEW x \in Slots
      PROVE  \/ call[x].kind \in PageKinds /\ call'[x] = Idle
             \/ call[x].kind \in PageKinds /\ Continues(call[x], call'[x])
                   /\ call'[x].stage = call[x].stage /\ ~call'[x].here
             \/ call[x].kind \notin PageKinds /\ call'[x] = call[x]
  <2>1. call[x].kind \in PageKinds \union {"idle", "table", "toggle", "details"}
    BY <1>1, CallKinds DEF PageKinds
  <2>2. CASE x = s
    BY <1>3, <2>2
  <2>3. CASE x # s
    BY <1>1, <1>3, <2>1, <2>3, SlotLeft DEF PageKinds
  <2> QED
    BY <2>2, <2>3
<1> QED
  BY <1>4, <1>5

\* The pages a link or an answer opens.
LEMMA PageIsScreen ==
  ASSUME NEW name \in {"home", "login", "register", "forgot", "code", "reset"}
  PROVE  Page(name) \in Screens /\ Page(name).page = name /\ Page(name).mfa = 0
BY SignInAssumption DEF Page, Screens, SignInAssumption

\* The links.
LEMMA GoKeeps ==
  ASSUME IInv,
         (\E name \in {"home", "login", "register", "forgot"} : Go(name)) \/ RequireLogin
  PROVE  IInv'
<1>1. PICK name \in {"home", "login", "register", "forgot"} :
        /\ screen' = Page(name) /\ call' = Left
        /\ UNCHANGED <<Gateway, token, table, Histories, Bounds>>
  BY DEF Go, RequireLogin
<1>2. UNCHANGED <<Gateway, table, issued, asked, spent, raced, Bounds>> /\ UNCHANGED <<token,
                  meant, late>>
  BY <1>1 DEF Histories
<1>3. screen' \in Screens /\ screen'.page \in {"home", "login", "register", "forgot"} /\ screen'.mfa = 0
  BY <1>1, PageIsScreen
<1> QED
  BY <1>1, <1>2, <1>3, LeftIsLeaving, LeavingKeeps

\* A code that was mailed is typed.
LEMMA ContinueToResetKeeps ==
  ASSUME IInv, ContinueToReset
  PROVE  IInv'
<1>1. PICK n \in 1 .. asked[screen.user] :
        /\ screen' = [Page("reset") EXCEPT !.user = screen.user, !.code = n] /\ call' = Left
        /\ UNCHANGED <<Gateway, token, table, Histories, Bounds>> /\ screen.page = "code"
  BY DEF ContinueToReset
<1>2. UNCHANGED <<Gateway, table, issued, asked, spent, raced, Bounds>> /\ UNCHANGED <<token,
                  meant, late>>
  BY <1>1 DEF Histories
<1>3. screen.user \in Users
  BY <1>1 DEF IInv, PagesHear
<1>4. n \in 1 .. MaxClicks
  BY <1>1, <1>3, MailedIsBounded, SignInAssumption DEF IInv, SignInAssumption
<1>5. /\ screen' \in Screens /\ screen'.page = "reset" /\ screen'.user = screen.user
      /\ screen'.mfa = 0 /\ screen'.code # 0
  <2>1. screen' = [page |-> "reset", busy |-> FALSE, mfa |-> 0, user |-> screen.user, code |-> n]
    BY <1>1 DEF Page
  <2> QED
    BY <1>3, <1>4, <2>1, SignInAssumption DEF Screens, SignInAssumption
<1> QED
  BY <1>1, <1>2, <1>3, <1>5, LeftIsLeaving, LeavingKeeps

\* A logout.
LEMMA LogoutKeeps ==
  ASSUME IInv, Logout
  PROVE  IInv'
<1>1. /\ token' = Nobody /\ meant' = {} /\ late' = (late \/ Of("verify") # {})
      /\ screen' = Page("login") /\ call' = Left
      /\ UNCHANGED <<Gateway, table, issued, asked, spent, raced, Bounds>>
  BY DEF Logout
<1>2. /\ late \in BOOLEAN
      /\ Of("verify") # {} <=> \E x \in Slots : call[x].kind = "verify"
  BY DEF IInv, Typed, Of, Busy
<1>3. late' \in BOOLEAN /\ (late => late') /\ ((\E x \in Slots : call[x].kind = "verify") => late')
  BY <1>1, <1>2
<1>4. screen' \in Screens /\ screen'.page = "login" /\ screen'.mfa = 0
  BY <1>1, PageIsScreen
<1> QED
  BY <1>1, <1>3, <1>4, LeftIsLeaving, LeavingKeeps

\* An answer that opens a page: of a registration, a merge, or a reset.
LEMMA OpensPageKeeps ==
  ASSUME IInv, NEW s \in Slots, NEW name \in {"login", "home"},
         call[s].kind \in PageKinds, screen' = Page(name), call' = [Left EXCEPT ![s] = Idle],
         UNCHANGED <<Gateway, token, table, Histories, Bounds>>
  PROVE  IInv'
<1>1. UNCHANGED <<Gateway, table, issued, asked, spent, raced, Bounds>> /\ UNCHANGED <<token,
                  meant, late>>
  BY DEF Histories
<1>2. screen' \in Screens /\ screen'.page \in {"login", "home"} /\ screen'.mfa = 0
  BY PageIsScreen
<1> QED
  BY <1>1, <1>2, LeftOverIsLeaving, LeavingKeeps

-----------------------------------------------------------------------------
(* The gateway's steps: first what the step does, then each part of the      *)
(* invariant.                                                                *)

\* An account is made, or was there.
LEMMA CreateUserKeeps ==
  ASSUME IInv, NEW s \in Slots, CreateUser(s)
  PROVE  IInv'
<1>1. /\ call[s].kind = "register" /\ call[s].stage \in {"sent"}
      /\ call' \in [Slots -> Calls] /\ \A x \in Slots \ {s} : call'[x] = call[x]
      /\ Continues(call[s], call'[s])
      /\ call'[s].here = call[s].here /\ call'[s].stage \in {"ok", "refused"}
      /\ registered \subseteq registered' /\ registered' \subseteq Users
      /\ UNCHANGED <<blocked, mfa, resetCode, token, screen, table, issued, asked, spent>>
      /\ UNCHANGED <<raced, meant, late, clicks, faults>>
  <2>1. PICK st \in {"ok", "refused"} : call' = Answer(s, st)
    BY DEF CreateUser
  <2>2. call[s].kind = "register"
    BY DEF CreateUser, At
  <2>3. call' \in [Slots -> Calls] /\ \A x \in Slots \ {s} : call'[x] = call[x]
    BY <2>1, <2>2, SlotAnswered DEF IInv, StagesOf, Stages
  <2>4. Continues(call[s], call'[s]) /\ call'[s].stage = st /\ call'[s].here = call[s].here
    BY <2>1, <2>2, SlotAnswered DEF IInv, StagesOf, Stages
  <2>5. call[s] \in RegisterCalls
    BY <2>2, CallKinds DEF IInv, Typed
  <2>6. call[s].stage \in {"sent"}
    BY DEF CreateUser, At
  <2>7. /\ UNCHANGED <<blocked, mfa, resetCode, token, screen, table, issued, asked, spent>>
      /\ UNCHANGED <<raced, meant, late, clicks, faults>>
    BY DEF CreateUser, Browser, Gateway, Histories, Bounds
  <2> QED
    BY <2>1, <2>2, <2>3, <2>4, <2>5, <2>6, <2>7 DEF CreateUser, IInv, Typed, RegisterCalls
<1>2. Typed'
  BY <1>1 DEF IInv, Typed, Continues
<1>3. Accounts' /\ PagesHear'
  BY <1>1 DEF IInv, Accounts, PagesHear, Continues
<1>4. Numbers' /\ Sessions' /\ SignsIn'
  BY <1>1 DEF IInv, Numbers, Sessions, SignsIn, Continues
<1>5. ResetCodes' /\ SpentOnce' /\ NewestResetCodeWorks'
  BY <1>1 DEF IInv, ResetCodes, SpentOnce, NewestResetCodeWorks, Continues
<1>6. Mailed'
  BY <1>1, MailedKept DEF Continues
<1>7. Clicks' /\ LastAsked'
  BY <1>1 DEF IInv, Clicks, LastAsked, AskedHere, Of, Busy, Continues
<1>8. Rows'
  <2> registered \subseteq registered' /\ UNCHANGED <<blocked, table>>
    BY <1>1
  <2>1. \A u \in registered' \ registered :
          /\ u \notin blocked /\ u \notin table.blocked
          /\ \A x \in Slots : call[x].kind = "table" => u \notin call[x].saw
          /\ \A x \in Slots : call[x].kind = "toggle" => call[x].user # u
    BY DEF IInv, Accounts
  <2>2. \A x \in Slots : call'[x].kind = "table" /\ call'[x].stage = "ok" =>
          \A u \in registered' \ table.behind : u \in call'[x].saw <=> u \in blocked
    <3>1. \A x \in Slots : call'[x].kind = "table" => call'[x] = call[x]
      BY <1>1 DEF Continues
    <3>2. ASSUME NEW x \in Slots, call[x].kind = "table", call[x].stage = "ok",
                 NEW u \in registered', u \notin table.behind
          PROVE  u \in call[x].saw <=> u \in blocked
      <4>1. CASE u \in registered
        BY <3>2, <4>1 DEF IInv, Rows
      <4>2. CASE u \notin registered
        BY <2>1, <3>2, <4>2
      <4> QED
        BY <4>1, <4>2
    <3> QED
      BY <3>1, <3>2
  <2>3. \A x \in Slots : call'[x].kind = "toggle" <=> call[x].kind = "toggle"
    BY <1>1 DEF Continues
  <2>4. \A x \in Slots : call'[x].kind = "toggle" => call'[x] = call[x]
    BY <1>1 DEF Continues
  <2>5. table.rows => \A u \in registered' \ table.behind :
          (u \in table.blocked <=> u \in blocked) <=>
            ~\E x \in Slots : call'[x].kind = "toggle" /\ call'[x].user = u /\ call'[x].stage = "ok"
    BY <2>1, <2>3, <2>4 DEF IInv, Rows
  <2> QED
    BY <1>1, <2>2, <2>3, <2>4, <2>5 DEF IInv, Rows
<1> QED
  BY <1>2, <1>3, <1>4, <1>5, <1>6, <1>7, <1>8 DEF IInv

\* The details of a user are read.
LEMMA ReadDetailsKeeps ==
  ASSUME IInv, NEW s \in Slots, ReadDetails(s)
  PROVE  IInv'
<1>1. /\ call[s].kind = "details" /\ call[s].stage \in {"sent"}
      /\ call' \in [Slots -> Calls] /\ \A x \in Slots \ {s} : call'[x] = call[x]
      /\ Continues(call[s], call'[s]) /\ call'[s].here = call[s].here /\ call'[s].stage \in {"ok"}
      /\ UNCHANGED <<registered, blocked, mfa, resetCode, token, screen, table, issued, asked>>
      /\ UNCHANGED <<spent, raced, meant, late, clicks, faults>>
  <2>1. PICK st \in {"ok"} : call' = Answer(s, st)
    BY DEF ReadDetails
  <2>2. call[s].kind = "details"
    BY DEF ReadDetails, At
  <2>3. call' \in [Slots -> Calls] /\ \A x \in Slots \ {s} : call'[x] = call[x]
    BY <2>1, <2>2, SlotAnswered DEF IInv, StagesOf, Stages
  <2>4. Continues(call[s], call'[s]) /\ call'[s].stage = st /\ call'[s].here = call[s].here
    BY <2>1, <2>2, SlotAnswered DEF IInv, StagesOf, Stages
  <2>5. call[s] \in DetailsCalls
    BY <2>2, CallKinds DEF IInv, Typed
  <2>6. call[s].stage \in {"sent"}
    BY DEF ReadDetails, At
  <2>7. /\ UNCHANGED <<registered, blocked, mfa, resetCode, token, screen, table, issued, asked>>
      /\ UNCHANGED <<spent, raced, meant, late, clicks, faults>>
    BY DEF ReadDetails, Browser, Gateway, Histories, Bounds
  <2> QED
    BY <2>1, <2>2, <2>3, <2>4, <2>5, <2>6, <2>7
<1>2. Typed'
  BY <1>1 DEF IInv, Typed, Continues
<1>3. Accounts' /\ PagesHear'
  BY <1>1 DEF IInv, Accounts, PagesHear, Continues
<1>4. Numbers' /\ Sessions' /\ SignsIn'
  BY <1>1 DEF IInv, Numbers, Sessions, SignsIn, Continues
<1>5. ResetCodes' /\ SpentOnce' /\ NewestResetCodeWorks'
  BY <1>1 DEF IInv, ResetCodes, SpentOnce, NewestResetCodeWorks, Continues
<1>6. Mailed'
  BY <1>1, MailedKept DEF Continues
<1>7. Clicks' /\ Rows' /\ LastAsked'
  BY <1>1 DEF IInv, Clicks, Rows, LastAsked, AskedHere, Of, Busy, Continues
<1> QED
  BY <1>2, <1>3, <1>4, <1>5, <1>6, <1>7 DEF IInv

\* The password: a code, or a refusal.
LEMMA CheckLoginKeeps ==
  ASSUME IInv, NEW s \in Slots, CheckLogin(s)
  PROVE  IInv'
<1>1. /\ call[s].kind = "login" /\ call[s].stage \in {"sent"}
      /\ call' \in [Slots -> Calls] /\ \A x \in Slots \ {s} : call'[x] = call[x]
      /\ Continues(call[s], call'[s])
      /\ call'[s].here = call[s].here /\ call'[s].stage \in {"ok", "refused"}
      /\ call[s].mfa \in 1 .. MaxClicks /\ call[s].user \in Users
      /\ \/ /\ mfa' = mfa \union {[no |-> call[s].mfa, user |-> call[s].user]}
            /\ call'[s].stage = "ok" /\ call[s].user \in registered
         \/ call'[s].stage = "refused" /\ mfa' = mfa
      /\ UNCHANGED <<registered, blocked, resetCode, token, screen, table, issued, asked>>
      /\ UNCHANGED <<spent, raced, meant, late, clicks, faults>>
  <2>1. PICK st \in {"ok", "refused"} : call' = Answer(s, st)
        /\ \/ /\ st = "ok" /\ call[s].user \in registered
              /\ mfa' = mfa \union {[no |-> call[s].mfa, user |-> call[s].user]}
           \/ st = "refused" /\ mfa' = mfa
    BY DEF CheckLogin
  <2>2. call[s].kind = "login"
    BY DEF CheckLogin, At
  <2>3. call' \in [Slots -> Calls] /\ \A x \in Slots \ {s} : call'[x] = call[x]
    BY <2>1, <2>2, SlotAnswered DEF IInv, StagesOf, Stages
  <2>4. Continues(call[s], call'[s]) /\ call'[s].stage = st /\ call'[s].here = call[s].here
    BY <2>1, <2>2, SlotAnswered DEF IInv, StagesOf, Stages
  <2>5. call[s] \in LoginCalls
    BY <2>2, CallKinds DEF IInv, Typed
  <2>6. call[s].stage \in {"sent"}
    BY DEF CheckLogin, At
  <2>7. /\ UNCHANGED <<registered, blocked, resetCode, token, screen, table, issued, asked>>
      /\ UNCHANGED <<spent, raced, meant, late, clicks, faults>>
    BY DEF CheckLogin, Browser, Gateway, Histories, Bounds
  <2>8. call[s].mfa \in 1 .. MaxClicks /\ call[s].user \in Users
    BY <2>5 DEF LoginCalls
  <2> QED
    BY <2>1, <2>2, <2>3, <2>4, <2>5, <2>6, <2>7, <2>8
<1>2. Typed'
  BY <1>1 DEF IInv, Typed, Continues
<1>3. Accounts' /\ PagesHear'
  BY <1>1 DEF IInv, Accounts, PagesHear, Continues
<1>4. SignsIn'
  BY <1>1 DEF IInv, SignsIn, Continues
<1>5. Numbers'
  <2>1. /\ call[s].mfa <= clicks /\ issued[call[s].mfa] = 0
        /\ \A m \in mfa : m.no # call[s].mfa
    BY <1>1 DEF IInv, Numbers
  <2> QED
    BY <1>1, <2>1 DEF IInv, Numbers, Continues
<1>6. Sessions'
  <2>1. /\ call[s].mfa # screen.mfa /\ \A m \in mfa : m.no # call[s].mfa
        /\ \A x \in Slots \ {s} : call[x].kind \in {"login", "verify"} => call[x].mfa # call[s].mfa
    BY <1>1 DEF IInv, Numbers
  <2> QED
    BY <1>1, <2>1 DEF IInv, Sessions, Continues
<1>7. ResetCodes' /\ SpentOnce' /\ NewestResetCodeWorks'
  BY <1>1 DEF IInv, ResetCodes, SpentOnce, NewestResetCodeWorks, Continues
<1>8. Mailed'
  BY <1>1, MailedKept DEF Continues
<1>9. Clicks' /\ Rows' /\ LastAsked'
  BY <1>1 DEF IInv, Clicks, Rows, LastAsked, AskedHere, Of, Busy, Continues
<1> QED
  BY <1>2, <1>3, <1>4, <1>5, <1>6, <1>7, <1>8, <1>9 DEF IInv

\* A new code replaces the former.
LEMMA MailCodeKeeps ==
  ASSUME IInv, NEW s \in Slots, MailCode(s)
  PROVE  IInv'
<1>1. /\ call[s].kind = "forgot" /\ call[s].stage \in {"sent"}
      /\ call' \in [Slots -> Calls] /\ \A x \in Slots \ {s} : call'[x] = call[x]
      /\ Continues(call[s], call'[s]) /\ call'[s].here = call[s].here /\ call'[s].stage \in {"ok"}
      /\ call[s].user \in Users
      /\ resetCode' = [resetCode EXCEPT ![call[s].user] = asked[call[s].user] + 1]
      /\ asked' = [asked EXCEPT ![call[s].user] = asked[call[s].user] + 1]
      /\ raced' = IF ResetsOf(call[s].user) # {} THEN raced \union {call[s].user} ELSE raced
      /\ UNCHANGED <<registered, blocked, mfa, token, screen, table, issued, spent, meant>>
      /\ UNCHANGED <<late, clicks, faults>>
  <2>1. PICK st \in {"ok"} : call' = Answer(s, st)
    BY DEF MailCode
  <2>2. call[s].kind = "forgot"
    BY DEF MailCode, At
  <2>3. call' \in [Slots -> Calls] /\ \A x \in Slots \ {s} : call'[x] = call[x]
    BY <2>1, <2>2, SlotAnswered DEF IInv, StagesOf, Stages
  <2>4. Continues(call[s], call'[s]) /\ call'[s].stage = st /\ call'[s].here = call[s].here
    BY <2>1, <2>2, SlotAnswered DEF IInv, StagesOf, Stages
  <2>5. call[s] \in ForgotCalls
    BY <2>2, CallKinds DEF IInv, Typed
  <2>6. call[s].stage \in {"sent"}
    BY DEF MailCode, At
  <2>7. /\ UNCHANGED <<registered, blocked, mfa, token, screen, table, issued, spent, meant>>
      /\ UNCHANGED <<late, clicks, faults>>
    BY DEF MailCode, Browser, Gateway, Histories, Bounds
  <2>8. call[s].user \in Users
    BY <2>5 DEF ForgotCalls
  <2> QED
    BY <2>1, <2>2, <2>3, <2>4, <2>5, <2>6, <2>7, <2>8 DEF MailCode, NewCode
<1>2. Typed'
  BY <1>1 DEF IInv, Typed, Continues
<1>3. Accounts' /\ PagesHear'
  BY <1>1 DEF IInv, Accounts, PagesHear, Continues
<1>4. Numbers' /\ Sessions' /\ SignsIn'
  BY <1>1 DEF IInv, Numbers, Sessions, SignsIn, Continues
<1>5. ResetCodes'
  <2>1. ResetsOf(call[s].user) = {x \in Slots : call[x].kind = "reset" /\ call[x].stage = "checked"
                                               /\ call[x].user = call[s].user}
    BY DEF ResetsOf, Of, Busy
  <2>2. raced \subseteq raced'
    BY <1>1
  <2>3. \A x \in Slots :
          call'[x].kind = "reset" /\ call'[x].stage = "checked"
          /\ call'[x].user = call[s].user => call[s].user \in raced'
    BY <1>1, <2>1 DEF Continues
  <2> asked \in [Users -> Nat] /\ resetCode \in [Users -> Nat]
    BY DEF IInv, Typed
  <2>4. /\ \A u \in Users : resetCode[u] \in {0, asked[u]}
        /\ \A x \in spent : x.code \in 1 .. asked[x.user]
        /\ \A x \in spent : x.user \notin raced => x.code # resetCode[x.user]
    BY DEF IInv, ResetCodes
  <2>5. \A u \in Users :
          /\ resetCode'[u] = IF u = call[s].user THEN asked[u] + 1 ELSE resetCode[u]
          /\ asked'[u] = IF u = call[s].user THEN asked[u] + 1 ELSE asked[u]
          /\ asked[u] \in Nat
    <3> DEFINE w == call[s].user
    <3>1. resetCode' = [resetCode EXCEPT ![w] = asked[w] + 1] /\ asked' = [asked EXCEPT ![w] = asked[w] + 1]
      BY <1>1
    <3> HIDE DEF w
    <3>2. \A u \in Users :
            /\ resetCode'[u] = IF u = w THEN asked[u] + 1 ELSE resetCode[u]
            /\ asked'[u] = IF u = w THEN asked[u] + 1 ELSE asked[u]
            /\ asked[u] \in Nat
      BY <3>1
    <3> QED
      BY <3>2 DEF w
  <2>6. \A x \in spent : x.user \in Users /\ x.code \in Nat
    BY DEF IInv, Typed
  <2>7. \A x \in Slots : call[x].kind = "reset" => call[x].user \in Users /\ call[x].code \in Nat
    BY CallKinds DEF IInv, Typed, ResetCalls
  <2>8. \A u \in Users : resetCode'[u] \in {0, asked'[u]}
    BY <2>4, <2>5
  <2>9. \A x \in spent' : x.code \in 1 .. asked'[x.user]
    BY <1>1, <2>4, <2>5, <2>6
  <2>10. \A x \in spent' : x.user \notin raced' => x.code # resetCode'[x.user]
    BY <1>1, <2>4, <2>2, <2>5, <2>6
  <2>11. \A x \in Slots : call'[x].kind = "reset" /\ call'[x].stage = "checked" =>
           /\ call[x] = call'[x] /\ call[x].code <= asked'[call[x].user]
           /\ call[x].user \notin raced' => resetCode'[call[x].user] = call[x].code
    BY <1>1, <2>2, <2>3, <2>5, <2>7 DEF IInv, ResetCodes, Continues
  <2> QED
    BY <1>1, <2>2, <2>8, <2>9, <2>10, <2>11 DEF IInv, ResetCodes
<1>6. SpentOnce' /\ NewestResetCodeWorks'
  <2>1. raced \subseteq raced' /\ spent' = spent
    BY <1>1
  <2>2. \A u \in Users :
          \/ resetCode'[u] = asked'[u]
          \/ u # call[s].user /\ resetCode'[u] = resetCode[u] /\ asked'[u] = asked[u]
    BY <1>1 DEF IInv, Typed
  <2>3. SpentOnce'
    BY <2>1 DEF IInv, SpentOnce
  <2>4. NewestResetCodeWorks'
    BY <2>1, <2>2 DEF IInv, NewestResetCodeWorks
  <2> QED
    BY <2>3, <2>4
<1>7. Mailed'
  <2> SUFFICES ASSUME NEW u \in Users
               PROVE  IsFiniteSet(Asking(u)') /\ asked'[u] + Cardinality(Asking(u)') <= clicks'
    BY DEF Mailed
  <2>1. IsFiniteSet(Asking(u)) /\ asked[u] + Cardinality(Asking(u)) <= clicks
    BY DEF IInv, Mailed
  <2>2. Cardinality(Asking(u)) \in Nat /\ asked[u] \in Nat /\ clicks \in Nat
    BY <2>1, FS_CardinalityType DEF IInv, Typed
  <2>3. CASE u # call[s].user
    <3>1. Asking(u)' = Asking(u)
      BY <1>1, <2>3 DEF Asking, Continues
    <3>2. asked'[u] = asked[u]
      BY <1>1, <2>3 DEF IInv, Typed
    <3> QED
      BY <1>1, <2>1, <3>1, <3>2
  <2>4. CASE u = call[s].user
    <3>1. Asking(u)' = Asking(u) \ {s} /\ s \in Asking(u)
      BY <1>1, <2>4 DEF Asking, Continues
    <3>2. IsFiniteSet(Asking(u)') /\ Cardinality(Asking(u)') = Cardinality(Asking(u)) - 1
      BY <2>1, <3>1, FS_RemoveElement
    <3>3. asked'[u] = asked[u] + 1
      BY <1>1, <2>4 DEF IInv, Typed
    <3> QED
      BY <1>1, <2>1, <2>2, <3>2, <3>3
  <2> QED
    BY <2>3, <2>4
<1>8. Clicks' /\ Rows' /\ LastAsked'
  BY <1>1 DEF IInv, Clicks, Rows, LastAsked, AskedHere, Of, Busy, Continues
<1> QED
  BY <1>2, <1>3, <1>4, <1>5, <1>6, <1>7, <1>8 DEF IInv

\* The code of a reset is compared.
LEMMA CheckResetKeeps ==
  ASSUME IInv, NEW s \in Slots, CheckReset(s)
  PROVE  IInv'
<1>1. /\ call[s].kind = "reset" /\ call[s].stage \in {"sent"}
      /\ call' \in [Slots -> Calls] /\ \A x \in Slots \ {s} : call'[x] = call[x]
      /\ Continues(call[s], call'[s])
      /\ call'[s].here = call[s].here /\ call'[s].stage \in {"checked", "refused"}
      /\ call[s].user \in Users /\ call[s].code \in 1 .. MaxClicks
      /\ call'[s].stage = "checked" => resetCode[call[s].user] = call[s].code
      /\ raced' = IF ResetsOf(call[s].user) # {} THEN raced \union {call[s].user} ELSE raced
      /\ UNCHANGED <<registered, blocked, mfa, resetCode, token, screen, table, issued, asked>>
      /\ UNCHANGED <<spent, meant, late, clicks, faults>>
  <2>1. PICK st \in {"checked", "refused"} : call' = Answer(s, st)
          /\ (st = "checked" => resetCode[call[s].user] = call[s].code)
    BY DEF CheckReset
  <2>2. call[s].kind = "reset"
    BY DEF CheckReset, At
  <2>3. call' \in [Slots -> Calls] /\ \A x \in Slots \ {s} : call'[x] = call[x]
    BY <2>1, <2>2, SlotAnswered DEF IInv, StagesOf, Stages
  <2>4. Continues(call[s], call'[s]) /\ call'[s].stage = st /\ call'[s].here = call[s].here
    BY <2>1, <2>2, SlotAnswered DEF IInv, StagesOf, Stages
  <2>5. call[s] \in ResetCalls
    BY <2>2, CallKinds DEF IInv, Typed
  <2>6. call[s].stage \in {"sent"}
    BY DEF CheckReset, At
  <2>7. /\ UNCHANGED <<registered, blocked, mfa, resetCode, token, screen, table, issued, asked>>
      /\ UNCHANGED <<spent, meant, late, clicks, faults>>
    BY DEF CheckReset, Browser, Gateway, Histories, Bounds
  <2>8. call[s].user \in Users /\ call[s].code \in 1 .. MaxClicks
    BY <2>5 DEF ResetCalls
  <2> QED
    BY <2>1, <2>2, <2>3, <2>4, <2>5, <2>6, <2>7, <2>8 DEF CheckReset
<1>2. Typed'
  BY <1>1 DEF IInv, Typed, Continues
<1>3. Accounts' /\ PagesHear'
  BY <1>1 DEF IInv, Accounts, PagesHear, Continues
<1>4. Numbers' /\ Sessions' /\ SignsIn'
  BY <1>1 DEF IInv, Numbers, Sessions, SignsIn, Continues
<1>5. ResetCodes'
  <2>1. ResetsOf(call[s].user) = {x \in Slots : call[x].kind = "reset" /\ call[x].stage = "checked"
                                               /\ call[x].user = call[s].user}
    BY DEF ResetsOf, Of, Busy
  <2>2. raced \subseteq raced'
    BY <1>1
  <2>3. \A x \in Slots \ {s} :
          call'[x].kind = "reset" /\ call'[x].stage = "checked"
          /\ call'[x].user = call[s].user => call[s].user \in raced'
    BY <1>1, <2>1
  <2>4. \A u \in Users : resetCode[u] \in {0, asked[u]} /\ asked[u] \in Nat
    BY DEF IInv, Typed, ResetCodes
  <2>5. call'[s].stage = "checked" => call[s].code <= asked[call[s].user]
    BY <1>1, <2>4
  <2> QED
    BY <1>1, <2>2, <2>3, <2>5 DEF IInv, ResetCodes, Continues
<1>6. SpentOnce' /\ NewestResetCodeWorks'
  <2>1. raced \subseteq raced' /\ UNCHANGED <<spent, resetCode, asked>>
    BY <1>1
  <2> QED
    BY <2>1 DEF IInv, SpentOnce, NewestResetCodeWorks
<1>7. Mailed'
  BY <1>1, MailedKept DEF Continues
<1>8. Clicks' /\ Rows' /\ LastAsked'
  BY <1>1 DEF IInv, Clicks, Rows, LastAsked, AskedHere, Of, Busy, Continues
<1> QED
  BY <1>2, <1>3, <1>4, <1>5, <1>6, <1>7, <1>8 DEF IInv

\* The password is set, and the code forgotten.
LEMMA CommitResetKeeps ==
  ASSUME IInv, NEW s \in Slots, CommitReset(s)
  PROVE  IInv'
<1>1. /\ call[s].kind = "reset" /\ call[s].stage \in {"checked"}
      /\ call' \in [Slots -> Calls] /\ \A x \in Slots \ {s} : call'[x] = call[x]
      /\ Continues(call[s], call'[s]) /\ call'[s].here = call[s].here /\ call'[s].stage \in {"ok"}
      /\ call[s].user \in Users /\ call[s].code \in 1 .. MaxClicks /\ call[s].no \in 1 .. MaxClicks
      /\ spent' = spent \union {[user |-> call[s].user, code |-> call[s].code, by |-> call[s].no]}
      /\ resetCode' = [resetCode EXCEPT ![call[s].user] = 0]
      /\ UNCHANGED <<registered, blocked, mfa, token, screen, table, issued, asked, raced>>
      /\ UNCHANGED <<meant, late, clicks, faults>>
  <2>1. PICK st \in {"ok"} : call' = Answer(s, st)
    BY DEF CommitReset
  <2>2. call[s].kind = "reset"
    BY DEF CommitReset, At
  <2>3. call' \in [Slots -> Calls] /\ \A x \in Slots \ {s} : call'[x] = call[x]
    BY <2>1, <2>2, SlotAnswered DEF IInv, StagesOf, Stages
  <2>4. Continues(call[s], call'[s]) /\ call'[s].stage = st /\ call'[s].here = call[s].here
    BY <2>1, <2>2, SlotAnswered DEF IInv, StagesOf, Stages
  <2>5. call[s] \in ResetCalls
    BY <2>2, CallKinds DEF IInv, Typed
  <2>6. call[s].stage \in {"checked"}
    BY DEF CommitReset, At
  <2>7. /\ UNCHANGED <<registered, blocked, mfa, token, screen, table, issued, asked, raced>>
      /\ UNCHANGED <<meant, late, clicks, faults>>
    BY DEF CommitReset, Browser, Gateway, Histories, Bounds
  <2>8. call[s].user \in Users /\ call[s].code \in 1 .. MaxClicks /\ call[s].no \in 1 .. MaxClicks
    BY <2>5 DEF ResetCalls
  <2> QED
    BY <2>1, <2>2, <2>3, <2>4, <2>5, <2>6, <2>7, <2>8 DEF CommitReset
<1>2. Typed'
  BY <1>1 DEF IInv, Typed, Continues
<1>3. Accounts' /\ PagesHear'
  BY <1>1 DEF IInv, Accounts, PagesHear, Continues
<1>4. Numbers' /\ Sessions' /\ SignsIn'
  BY <1>1 DEF IInv, Numbers, Sessions, SignsIn, Continues
<1>5. ResetCodes'
  <2>1. \A u \in Users :
          /\ resetCode'[u] = IF u = call[s].user THEN 0 ELSE resetCode[u]
          /\ asked[u] \in Nat
    BY <1>1 DEF IInv, Typed
  <2>2. \A x \in spent : x.user \in Users /\ x.code \in Nat
    BY DEF IInv, Typed
  <2>3. \A x \in Slots : call[x].kind = "reset" => call[x].user \in Users
    BY CallKinds DEF IInv, Typed, ResetCalls
  <2>4. \A u \in Users : resetCode'[u] \in {0, asked'[u]}
    BY <1>1, <2>1 DEF IInv, ResetCodes
  <2>5. \A x \in spent' : x.code \in 1 .. asked'[x.user]
    BY <1>1, <2>2 DEF IInv, ResetCodes
  <2>6. \A x \in spent' : x.user \notin raced' => x.code # resetCode'[x.user]
    BY <1>1, <2>1, <2>2, <2>5 DEF IInv, ResetCodes
  <2>7. \A x \in Slots : call'[x].kind = "reset" /\ call'[x].stage = "checked" =>
          /\ x # s /\ call'[x] = call[x]
          /\ call[x].user \notin raced => call[x].user # call[s].user
    BY <1>1 DEF IInv, ResetCodes
  <2> QED
    BY <1>1, <2>1, <2>3, <2>4, <2>5, <2>6, <2>7 DEF IInv, ResetCodes
<1>6. SpentOnce' /\ NewestResetCodeWorks'
  <2> DEFINE w == call[s].user
             new == [user |-> w, code |-> call[s].code, by |-> call[s].no]
  <2>1. /\ spent' = spent \union {new} /\ UNCHANGED <<raced, asked>>
        /\ \A u \in Users : u # w => resetCode'[u] = resetCode[u]
    BY <1>1 DEF IInv, Typed
  <2>2. w \notin raced => resetCode[w] = call[s].code /\ call[s].code # 0 /\ resetCode[w] \in {0, asked[w]}
    BY <1>1 DEF IInv, ResetCodes
  <2>3. \A x \in spent : x.user = w /\ x.code = call[s].code => w \in raced
    BY <2>2 DEF IInv, ResetCodes
  <2>4. SpentOnce'
    BY <2>1, <2>3 DEF IInv, SpentOnce
  <2>5. ASSUME NEW u \in Users \ raced, asked[u] > 0
        PROVE  resetCode'[u] = asked[u] \/ \E x \in spent' : x.user = u /\ x.code = asked[u]
    <3>1. CASE u = w
      <4>1. new.user = u /\ new.code = asked[u] /\ new \in spent'
        BY <2>1, <2>2, <2>5, <3>1
      <4> QED
        BY <4>1
    <3>2. CASE u # w
      BY <2>1, <2>5, <3>2 DEF IInv, NewestResetCodeWorks
    <3> QED
      BY <3>1, <3>2
  <2>6. NewestResetCodeWorks'
    BY <2>1, <2>5 DEF NewestResetCodeWorks
  <2> QED
    BY <2>4, <2>6
<1>7. Mailed'
  BY <1>1, MailedKept DEF Continues
<1>8. Clicks' /\ Rows' /\ LastAsked'
  BY <1>1 DEF IInv, Clicks, Rows, LastAsked, AskedHere, Of, Busy, Continues
<1> QED
  BY <1>2, <1>3, <1>4, <1>5, <1>6, <1>7, <1>8 DEF IInv

\* The opposite of what was read is committed.
LEMMA CommitToggleKeeps ==
  ASSUME IInv, NEW s \in Slots, CommitToggle(s)
  PROVE  IInv'
<1>1. /\ call[s].kind = "toggle" /\ call[s].stage \in {"read"}
      /\ call' \in [Slots -> Calls] /\ \A x \in Slots \ {s} : call'[x] = call[x]
      /\ Continues(call[s], call'[s]) /\ call'[s].here = call[s].here /\ call'[s].stage \in {"ok"}
      /\ call[s].user \in Users
      /\ blocked' = IF call[s].saw THEN blocked \ {call[s].user} ELSE blocked \union {call[s].user}
      /\ UNCHANGED <<registered, mfa, resetCode, token, screen, table, issued, asked, spent>>
      /\ UNCHANGED <<raced, meant, late, clicks, faults>>
  <2>1. PICK st \in {"ok"} : call' = Answer(s, st)
    BY DEF CommitToggle
  <2>2. call[s].kind = "toggle"
    BY DEF CommitToggle, At
  <2>3. call' \in [Slots -> Calls] /\ \A x \in Slots \ {s} : call'[x] = call[x]
    BY <2>1, <2>2, SlotAnswered DEF IInv, StagesOf, Stages
  <2>4. Continues(call[s], call'[s]) /\ call'[s].stage = st /\ call'[s].here = call[s].here
    BY <2>1, <2>2, SlotAnswered DEF IInv, StagesOf, Stages
  <2>5. call[s] \in ToggleCalls
    BY <2>2, CallKinds DEF IInv, Typed
  <2>6. call[s].stage \in {"read"}
    BY DEF CommitToggle, At
  <2>7. /\ UNCHANGED <<registered, mfa, resetCode, token, screen, table, issued, asked, spent>>
      /\ UNCHANGED <<raced, meant, late, clicks, faults>>
    BY DEF CommitToggle, Browser, Gateway, Histories, Bounds
  <2>8. call[s].user \in Users
    BY <2>5 DEF ToggleCalls
  <2> QED
    BY <2>1, <2>2, <2>3, <2>4, <2>5, <2>6, <2>7, <2>8 DEF CommitToggle
<1>2. Typed'
  BY <1>1 DEF IInv, Typed, Continues
<1>3. Accounts' /\ PagesHear'
  BY <1>1 DEF IInv, Accounts, PagesHear, Continues
<1>4. Numbers' /\ Sessions' /\ SignsIn'
  BY <1>1 DEF IInv, Numbers, Sessions, SignsIn, Continues
<1>5. ResetCodes' /\ SpentOnce' /\ NewestResetCodeWorks'
  BY <1>1 DEF IInv, ResetCodes, SpentOnce, NewestResetCodeWorks, Continues
<1>6. Mailed'
  BY <1>1, MailedKept DEF Continues
<1>7. Clicks' /\ LastAsked'
  BY <1>1 DEF IInv, Clicks, LastAsked, AskedHere, Of, Busy, Continues
<1>8. Rows'
  <2>1. /\ call[s].user \notin table.behind => (call[s].saw <=> call[s].user \in blocked)
        /\ call[s].user \notin table.behind =>
             \A x \in Slots \ {s} : call[x].kind = "toggle" => call[x].user # call[s].user
    BY <1>1 DEF IInv, Rows, Clicks
  <2>2. \A u \in registered \ table.behind : u # call[s].user => (u \in blocked' <=> u \in blocked)
    BY <1>1
  <2>3. /\ call[s].user \notin table.behind => (call[s].user \in blocked' <=> call[s].user \notin blocked)
        /\ call[s].user \notin table.behind => \A x \in Slots : call[x].kind # "table"
    BY <1>1, <2>1 DEF IInv, Clicks
  <2>4. \A x \in Slots : call'[x].kind = "toggle" /\ call'[x].stage = "read" => x # s
    BY <1>1
  <2>5. /\ \A x \in Slots : call'[x].kind = "table" => call'[x] = call[x]
        /\ \A x \in Slots : call'[x].kind = "toggle" /\ call'[x].stage = "read" => call'[x] = call[x]
        /\ \A x \in Slots : call'[x].kind = "toggle" => call[x].kind = "toggle" /\ call'[x].user = call[x].user
        /\ \A x \in Slots \ {s} : call'[x] = call[x]
        /\ call[s].kind = "toggle" /\ call[s].stage = "read"
        /\ call'[s].kind = "toggle" /\ call'[s].stage = "ok" /\ call'[s].user = call[s].user
        /\ registered' = registered /\ table' = table
    BY <1>1 DEF Continues
  <2>6. \A x \in Slots : call'[x].kind = "table" /\ call'[x].stage = "ok" =>
          \A u \in registered \ table.behind : u \in call'[x].saw <=> u \in blocked'
    BY <2>2, <2>3, <2>5 DEF IInv, Rows
  <2>7. \A x \in Slots :
          call'[x].kind = "toggle" /\ call'[x].stage = "read" /\ call'[x].user \notin table.behind =>
            (call'[x].saw <=> call'[x].user \in blocked')
    BY <1>1, <2>1, <2>5 DEF IInv, Rows
  <2>8. table.rows => \A u \in registered \ table.behind :
          (u \in table.blocked <=> u \in blocked') <=>
            ~\E x \in Slots : call'[x].kind = "toggle" /\ call'[x].user = u /\ call'[x].stage = "ok"
    BY <2>1, <2>2, <2>3, <2>5 DEF IInv, Rows
  <2> QED
    BY <2>5, <2>6, <2>7, <2>8 DEF Rows
<1> QED
  BY <1>2, <1>3, <1>4, <1>5, <1>6, <1>7, <1>8 DEF IInv

\* A code is exchanged for a token, or refused.
LEMMA IssueTokenKeeps ==
  ASSUME IInv, NEW s \in Slots, IssueToken(s)
  PROVE  IInv'
<1>1. /\ call[s].kind = "verify" /\ call[s].stage = "sent" /\ call[s].mfa \in 1 .. MaxClicks
      /\ call' \in [Slots -> Calls] /\ \A x \in Slots \ {s} : call'[x] = call[x]
      /\ call'[s].kind = "verify" /\ call'[s].mfa = call[s].mfa /\ call'[s].here = call[s].here
      /\ \/ call'[s].stage = "refused" /\ mfa' = mfa /\ issued' = issued
         \/ /\ call'[s].stage = "ok"
            /\ issued' = [issued EXCEPT ![call[s].mfa] = issued[call[s].mfa] + 1]
            /\ \E m \in mfa : m.no = call[s].mfa /\ mfa' = mfa \ {m} /\ call'[s].user = m.user
      /\ UNCHANGED <<registered, blocked, resetCode, token, screen, table, asked, spent>>
      /\ UNCHANGED <<raced, meant, late, clicks, faults>>
  <2>1. call[s].kind = "verify" /\ call[s].stage = "sent"
    BY DEF IssueToken, At
  <2>2. call[s] \in VerifyCalls
    BY <2>1, CallKinds DEF IInv, Typed
  <2>3. UNCHANGED <<registered, blocked, resetCode, token, screen, table, asked, spent, raced, meant, late,
                    clicks, faults>>
    BY DEF IssueToken, Browser, Bounds
  <2>4. CASE call' = Answer(s, "refused") /\ UNCHANGED <<mfa, issued>>
    <3>1. /\ call' \in [Slots -> Calls] /\ \A x \in Slots \ {s} : call'[x] = call[x]
          /\ Continues(call[s], call'[s])
          /\ call'[s].stage = "refused" /\ call'[s].here = call[s].here
      BY <2>1, <2>4, SlotAnswered DEF IInv, StagesOf, Stages
    <3> QED
      BY <2>1, <2>2, <2>3, <2>4, <3>1 DEF VerifyCalls, Continues
  <2>5. ASSUME NEW m \in mfa, m.no = call[s].mfa, mfa' = mfa \ {m},
               issued' = [issued EXCEPT ![call[s].mfa] = @ + 1],
               call' = [call EXCEPT ![s].stage = "ok", ![s].user = m.user]
        PROVE  /\ call' \in [Slots -> Calls] /\ \A x \in Slots \ {s} : call'[x] = call[x]
               /\ call'[s].kind = "verify" /\ call'[s].mfa = call[s].mfa /\ call'[s].here = call[s].here
               /\ call'[s].stage = "ok" /\ call'[s].user = m.user
    <3>1. m.user \in Users
      BY DEF IInv, Typed
    <3>2. PICK c : c = [call[s] EXCEPT !.stage = "ok", !.user = m.user]
      OBVIOUS
    <3>3. /\ c \in Calls /\ c.kind = "verify" /\ c.mfa = call[s].mfa /\ c.here = call[s].here
          /\ c.stage = "ok" /\ c.user = m.user
      BY <2>2, <3>1, <3>2 DEF Calls, VerifyCalls, Stages
    <3>4. call' = [call EXCEPT ![s] = c]
      BY <2>5, <3>2 DEF IInv, Typed
    <3> QED
      BY <3>3, <3>4, SlotSet DEF IInv
  <2>6. CASE \E m \in SessionsOf(call[s].mfa) :
               /\ mfa' = Remaining(m)
               /\ issued' = [issued EXCEPT ![call[s].mfa] = @ + 1]
               /\ call' = [call EXCEPT ![s].stage = "ok", ![s].user = m.user]
    <3>1. PICK m \in mfa : /\ m.no = call[s].mfa /\ mfa' = mfa \ {m}
                           /\ issued' = [issued EXCEPT ![call[s].mfa] = @ + 1]
                           /\ call' = [call EXCEPT ![s].stage = "ok", ![s].user = m.user]
      BY <2>6 DEF SessionsOf, Remaining
    <3>2. /\ call' \in [Slots -> Calls] /\ \A x \in Slots \ {s} : call'[x] = call[x]
          /\ call'[s].kind = "verify" /\ call'[s].mfa = call[s].mfa /\ call'[s].here = call[s].here
          /\ call'[s].stage = "ok" /\ call'[s].user = m.user
      BY <2>5, <3>1
    <3> QED
      BY <2>1, <2>2, <2>3, <3>1, <3>2 DEF VerifyCalls
  <2> QED
    BY <2>4, <2>6 DEF IssueToken
<1>2. Typed'
  <2> issued \in [1 .. MaxClicks -> Nat]
    BY DEF IInv, Typed
  <2>1. mfa' \subseteq mfa /\ issued' \in [1 .. MaxClicks -> Nat]
    BY <1>1
  <2> QED
    BY <1>1, <2>1 DEF IInv, Typed
<1>3. Accounts' /\ PagesHear'
  BY <1>1 DEF IInv, Accounts, PagesHear, Continues
<1>4. Sessions'
  BY <1>1 DEF IInv, Sessions, Continues
<1>5. Numbers'
  <2>1. \A m, n \in mfa : m.no = n.no => m = n
    BY DEF IInv, Numbers
  <2>2. \A n \in 1 .. MaxClicks :
          issued'[n] = issued[n] \/ (n = call[s].mfa /\ issued'[n] = issued[n] + 1)
    BY <1>1 DEF IInv, Typed
  <2> \A n \in 1 .. MaxClicks : issued[n] \in Nat
    BY DEF IInv, Typed
  <2>3. \A m \in mfa : m.no \in 1 .. MaxClicks /\ m.no <= clicks /\ issued[m.no] = 0
    BY DEF IInv, Numbers, Typed
  <2>4. mfa' \subseteq mfa /\ \A m \in mfa' : issued'[m.no] = 0
    BY <1>1, <2>3, <2>1, <2>2
  <2>5. \A n \in 1 .. MaxClicks : issued'[n] <= 1 /\ (n > clicks => issued'[n] = 0)
    <3>1. \A n \in 1 .. MaxClicks : issued[n] <= 1 /\ (n > clicks => issued[n] = 0)
      BY DEF IInv, Numbers
    <3>2. clicks \in Nat
      BY DEF IInv, Typed
    <3>3. issued' # issued => issued[call[s].mfa] = 0 /\ call[s].mfa <= clicks
      BY <1>1, <2>3
    <3> QED
      BY <1>1, <2>2, <3>1, <3>2, <3>3
  <2>6. \A x \in Slots : call'[x].kind = "login" =>
          call'[x] = call[x] /\ call[x].mfa # call[s].mfa /\ call[x].mfa \in 1 .. MaxClicks
    BY <1>1, CallKinds DEF IInv, Numbers, Typed, LoginCalls
  <2>7. \A x \in Slots : call'[x].kind = "login" /\ call'[x].stage = "sent" =>
          issued'[call[x].mfa] = 0 /\ \A m \in mfa' : m.no # call[x].mfa
    BY <2>2, <2>4, <2>6 DEF IInv, Numbers
  <2> QED
    BY <1>1, <2>4, <2>5, <2>6, <2>7 DEF IInv, Numbers
<1>6. SignsIn'
  <2>1. ~late /\ call'[s].stage = "ok" => call'[s].user \in meant
    BY <1>1 DEF IInv, Sessions
  <2> QED
    BY <1>1, <2>1 DEF IInv, SignsIn
<1>7. ResetCodes' /\ SpentOnce' /\ NewestResetCodeWorks'
  BY <1>1 DEF IInv, ResetCodes, SpentOnce, NewestResetCodeWorks, Continues
<1>8. Mailed'
  BY <1>1, MailedKept DEF Continues
<1>9. Clicks' /\ Rows' /\ LastAsked'
  BY <1>1 DEF IInv, Clicks, Rows, LastAsked, AskedHere, Of, Busy, Continues
<1> QED
  BY <1>2, <1>3, <1>4, <1>5, <1>6, <1>7, <1>8, <1>9 DEF IInv

\* A verification code expires.
LEMMA CodeExpiresKeeps ==
  ASSUME IInv, CodeExpires
  PROVE  IInv'
<1>1. /\ mfa' \subseteq mfa /\ call' = call
      /\ UNCHANGED <<registered, blocked, resetCode, token, screen, table, issued, asked>>
      /\ UNCHANGED <<spent, raced, meant, late, clicks, faults>>
  BY DEF CodeExpires, Browser, Histories, Bounds
<1>2. Typed'
  BY <1>1 DEF IInv, Typed
<1>3. Accounts' /\ PagesHear'
  BY <1>1 DEF IInv, Accounts, PagesHear
<1>4. Numbers' /\ Sessions' /\ SignsIn'
  BY <1>1 DEF IInv, Numbers, Sessions, SignsIn
<1>5. ResetCodes' /\ SpentOnce' /\ NewestResetCodeWorks'
  BY <1>1 DEF IInv, ResetCodes, SpentOnce, NewestResetCodeWorks
<1>6. Mailed'
  BY <1>1, MailedKept
<1>7. Clicks' /\ Rows' /\ LastAsked'
  BY <1>1 DEF IInv, Clicks, Rows, LastAsked, AskedHere, Of, Busy
<1> QED
  BY <1>2, <1>3, <1>4, <1>5, <1>6, <1>7 DEF IInv

\* Whether the user is blocked is read.
LEMMA ReadToggleKeeps ==
  ASSUME IInv, NEW s \in Slots, ReadToggle(s)
  PROVE  IInv'
<1>1. /\ call[s].kind = "toggle" /\ call[s].stage = "sent"
      /\ call' \in [Slots -> Calls] /\ \A x \in Slots \ {s} : call'[x] = call[x]
      /\ call'[s].kind = "toggle" /\ call'[s].stage = "read" /\ call'[s].user = call[s].user
      /\ call'[s].here = call[s].here /\ call'[s].saw = (call[s].user \in blocked)
      /\ UNCHANGED <<registered, blocked, mfa, resetCode, token, screen, table, issued, asked>>
      /\ UNCHANGED <<spent, raced, meant, late, clicks, faults>>
  <2>1. call[s].kind = "toggle" /\ call[s].stage = "sent"
    BY DEF ReadToggle, At
  <2>2. call[s] \in ToggleCalls
    BY <2>1, CallKinds DEF IInv, Typed
  <2>3. UNCHANGED <<registered, blocked, mfa, resetCode, token, screen, table, issued, asked, spent, raced,
                    meant, late, clicks, faults>>
    BY DEF ReadToggle, Gateway, Browser, Histories, Bounds
  <2>4. PICK b : b = (call[s].user \in blocked)
    OBVIOUS
  <2> b \in BOOLEAN
    BY <2>4
  <2>5. PICK c : c = [call[s] EXCEPT !.stage = "read", !.saw = b]
    OBVIOUS
  <2>6. c \in ToggleCalls /\ c.kind = "toggle" /\ c.stage = "read" /\ c.saw = b /\ c.user = call[s].user /\ c.here = call[s].here
    BY <2>2, <2>5 DEF ToggleCalls, Stages
  <2>7. call' = [call EXCEPT ![s] = c]
    BY <2>4, <2>5 DEF ReadToggle, IInv, Typed
  <2>8. c \in Calls
    BY <2>6 DEF Calls
  <2> QED
    BY <2>1, <2>2, <2>3, <2>6, <2>7, <2>8, <2>4, SlotSet DEF IInv
<1>2. Typed'
  BY <1>1 DEF IInv, Typed
<1>3. Accounts' /\ PagesHear'
  BY <1>1 DEF IInv, Accounts, PagesHear
<1>4. Numbers' /\ Sessions' /\ SignsIn'
  BY <1>1 DEF IInv, Numbers, Sessions, SignsIn
<1>5. ResetCodes' /\ SpentOnce' /\ NewestResetCodeWorks'
  BY <1>1 DEF IInv, ResetCodes, SpentOnce, NewestResetCodeWorks
<1>6. Mailed'
  BY <1>1, MailedKept
<1>7. Clicks' /\ LastAsked'
  BY <1>1 DEF IInv, Clicks, LastAsked, AskedHere, Of, Busy
<1>8. Rows'
  <2>1. \A x \in Slots :
          /\ call'[x].kind = call[x].kind
          /\ call'[x].kind = "table" => call'[x] = call[x]
          /\ call'[x].kind = "toggle" => call'[x].user = call[x].user
          /\ call[x].kind = "toggle" => (call'[x].stage = "ok" <=> call[x].stage = "ok")
    BY <1>1
  <2>2. \A x \in Slots :
          call'[x].kind = "toggle" /\ call'[x].stage = "read" /\ call'[x].user \notin table.behind =>
            (call'[x].saw <=> call'[x].user \in blocked)
    BY <1>1 DEF IInv, Rows
  <2>3. table.rows => \A u \in registered \ table.behind :
          (u \in table.blocked <=> u \in blocked) <=>
            ~\E x \in Slots : call'[x].kind = "toggle" /\ call'[x].user = u /\ call'[x].stage = "ok"
    BY <2>1 DEF IInv, Rows
  <2>4. \A x \in Slots : call'[x].kind = "table" /\ call'[x].stage = "ok" =>
          \A u \in registered \ table.behind : u \in call'[x].saw <=> u \in blocked
    BY <2>1 DEF IInv, Rows
  <2> QED
    BY <1>1, <2>2, <2>3, <2>4 DEF Rows
<1> QED
  BY <1>2, <1>3, <1>4, <1>5, <1>6, <1>7, <1>8 DEF IInv

\* The table of users is read.
LEMMA ReadTableKeeps ==
  ASSUME IInv, NEW s \in Slots, ReadTable(s)
  PROVE  IInv'
<1>1. /\ call[s].kind = "table" /\ call[s].stage = "sent"
      /\ call' \in [Slots -> Calls] /\ \A x \in Slots \ {s} : call'[x] = call[x]
      /\ call'[s].kind = "table" /\ call'[s].stage = "ok" /\ call'[s].saw = blocked
      /\ UNCHANGED <<registered, blocked, mfa, resetCode, token, screen, table, issued, asked>>
      /\ UNCHANGED <<spent, raced, meant, late, clicks, faults>>
  <2>1. call[s].kind = "table" /\ call[s].stage = "sent"
    BY DEF ReadTable, At
  <2>2. call[s] \in TableCalls
    BY <2>1, CallKinds DEF IInv, Typed
  <2>3. UNCHANGED <<registered, blocked, mfa, resetCode, token, screen, table, issued, asked, spent, raced,
                    meant, late, clicks, faults>>
    BY DEF ReadTable, Gateway, Browser, Histories, Bounds
  <2>4. PICK c : c = [call[s] EXCEPT !.stage = "ok", !.saw = blocked]
    OBVIOUS
  <2>5. c \in TableCalls /\ c.kind = "table" /\ c.stage = "ok" /\ c.saw = blocked
    BY <2>2, <2>4 DEF TableCalls, Stages, IInv, Typed
  <2>6. call' = [call EXCEPT ![s] = c]
    BY <2>4 DEF ReadTable, IInv, Typed
  <2>7. c \in Calls
    BY <2>5 DEF Calls
  <2> QED
    BY <2>1, <2>2, <2>3, <2>5, <2>6, <2>7, SlotSet DEF IInv
<1>2. Typed'
  BY <1>1 DEF IInv, Typed
<1>3. Accounts' /\ PagesHear'
  BY <1>1 DEF IInv, Accounts, PagesHear
<1>4. Numbers' /\ Sessions' /\ SignsIn'
  BY <1>1 DEF IInv, Numbers, Sessions, SignsIn
<1>5. ResetCodes' /\ SpentOnce' /\ NewestResetCodeWorks'
  BY <1>1 DEF IInv, ResetCodes, SpentOnce, NewestResetCodeWorks
<1>6. Mailed'
  BY <1>1, MailedKept
<1>7. Clicks' /\ Rows' /\ LastAsked'
  BY <1>1 DEF IInv, Clicks, Rows, LastAsked, AskedHere, Of, Busy
<1> QED
  BY <1>2, <1>3, <1>4, <1>5, <1>6, <1>7 DEF IInv

-----------------------------------------------------------------------------
(* Failures.                                                                 *)

\* A call fails, or its answer is lost.
LEMMA FailsKeeps ==
  ASSUME IInv, NEW s \in Slots, Fails(s)
  PROVE  IInv'
<1>1. /\ call[s].kind # "idle" /\ call[s].stage \in {"sent", "ok"}
      /\ call' \in [Slots -> Calls] /\ \A x \in Slots \ {s} : call'[x] = call[x]
      /\ Continues(call[s], call'[s]) /\ call'[s].here = call[s].here /\ call'[s].stage = "refused"
      /\ faults' = faults + 1 /\ faults < MaxFaults
      /\ table' \in Tables /\ table'.rows = table.rows /\ table'.blocked = table.blocked
      /\ table'.details = table.details /\ table'.asked = table.asked
      /\ table'.behind = IF call[s].kind = "toggle" /\ call[s].stage = "ok"
                          THEN table.behind \union {call[s].user} ELSE table.behind
      /\ table'.mixed = (table.mixed \/ (call[s].kind = "details" /\ call[s].here))
      /\ UNCHANGED <<registered, blocked, mfa, resetCode, token, screen, issued, asked, spent>>
      /\ UNCHANGED <<raced, meant, late, clicks>>
  <2>1. call[s].kind # "idle" /\ call' = Answer(s, "refused")
    BY DEF Fails
  <2>2. /\ call' \in [Slots -> Calls] /\ \A x \in Slots \ {s} : call'[x] = call[x]
        /\ Continues(call[s], call'[s])
        /\ call'[s].here = call[s].here /\ call'[s].stage = "refused"
    BY <2>1, SlotAnswered DEF IInv, StagesOf, Stages
  <2>3. /\ UNCHANGED <<registered, blocked, mfa, resetCode, token, screen, issued, asked,
                       spent, raced>>
        /\ UNCHANGED <<meant, late, clicks>>
    BY DEF Fails, Gateway, Browser, Histories
  <2>4. call[s].kind = "toggle" => call[s].user \in Users
    BY CallKinds DEF IInv, Typed, ToggleCalls
  <2>5. call[s].kind = "details" => call[s].here \in BOOLEAN
    BY CallKinds DEF IInv, Typed, DetailsCalls
  <2>6. table \in Tables
    BY DEF IInv, Typed
  <2>7. PICK b \in SUBSET Users :
          b = IF call[s].kind = "toggle" /\ call[s].stage = "ok"
              THEN table.behind \union {call[s].user} ELSE table.behind
    BY <2>4, <2>6 DEF Tables
  <2>8. PICK x \in BOOLEAN : x = (table.mixed \/ (call[s].kind = "details" /\ call[s].here))
    BY <2>5, <2>6 DEF Tables
  <2>9. table' = [table EXCEPT !.behind = b, !.mixed = x]
    BY <2>7, <2>8 DEF Fails, At
  <2>10. /\ table' \in Tables /\ table'.rows = table.rows /\ table'.blocked = table.blocked
         /\ table'.details = table.details /\ table'.asked = table.asked
         /\ table'.behind = b /\ table'.mixed = x
    BY <2>6, <2>9 DEF Tables
  <2>11. /\ call[s].kind # "idle" /\ call[s].stage \in {"sent", "ok"}
         /\ faults' = faults + 1 /\ faults < MaxFaults
    BY DEF Fails
  <2> QED
    BY <2>2, <2>3, <2>7, <2>8, <2>10, <2>11
<1>2. Typed'
  <2>1. faults' \in 0 .. MaxFaults
    BY <1>1, SignInAssumption DEF IInv, Typed, SignInAssumption
  <2> QED
    BY <1>1, <2>1 DEF IInv, Typed
<1>3. Accounts' /\ PagesHear'
  BY <1>1 DEF IInv, Accounts, PagesHear, Continues
<1>4. Numbers' /\ Sessions' /\ SignsIn'
  BY <1>1 DEF IInv, Numbers, Sessions, SignsIn, Continues
<1>5. ResetCodes' /\ SpentOnce' /\ NewestResetCodeWorks'
  BY <1>1 DEF IInv, ResetCodes, SpentOnce, NewestResetCodeWorks, Continues
<1>6. Mailed'
  BY <1>1, MailedKept DEF Continues
<1>7. Clicks' /\ Rows'
  BY <1>1 DEF IInv, Clicks, Rows, Continues
<1>8. LastAsked'
  <2>1. CASE s \in AskedHere
    <3>1. table'.mixed
      BY <1>1, <2>1 DEF AskedHere, Of, Busy
    <3> QED
      BY <3>1 DEF LastAsked
  <2>2. CASE s \notin AskedHere
    <3>1. AskedHere' = AskedHere /\ \A x \in AskedHere : call'[x] = call[x]
      BY <1>1, <2>2 DEF AskedHere, Of, Busy, Continues
    <3>2. ~table'.mixed => ~table.mixed
      BY <1>1
    <3> QED
      BY <1>1, <3>1, <3>2 DEF IInv, LastAsked
  <2> QED
    BY <2>1, <2>2
<1> QED
  BY <1>2, <1>3, <1>4, <1>5, <1>6, <1>7, <1>8 DEF IInv

-----------------------------------------------------------------------------
(* What people do in the shop's pages.                                       *)

\* The password is sent.
LEMMA LogInKeeps ==
  ASSUME IInv, NEW u \in Users, LogIn(u)
  PROVE  IInv'
<1>1. PICK s \in Slots : Send(s, [kind |-> "login", user |-> u, stage |-> "sent", here |-> TRUE, mfa |-> clicks + 1])
  BY DEF LogIn
<1>2. /\ call[s].kind = "idle"
      /\ call' \in [Slots -> Calls] /\ \A x \in Slots \ {s} : call'[x] = call[x]
      /\ call'[s].kind = "login" /\ call'[s].stage = "sent" /\ call'[s].user = u /\ call'[s].mfa = clicks + 1
      /\ clicks' = clicks + 1 /\ clicks' \in 1 .. MaxClicks /\ clicks \in Nat
      /\ screen.page = "login" /\ ~screen.busy /\ screen' \in Screens /\ screen'.busy
      /\ screen'.page = screen.page /\ screen'.mfa = screen.mfa
      /\ screen'.user = screen.user /\ screen'.code = screen.code
      /\ screen.mfa = 0
      /\ UNCHANGED <<registered, blocked, mfa, resetCode, token, table, issued, asked, spent>>
      /\ UNCHANGED <<raced, meant, late, faults>>
  <2>1. PICK c : c = [kind |-> "login", user |-> u, stage |-> "sent", here |-> TRUE, mfa |-> clicks + 1]
    OBVIOUS
  <2>2. clicks + 1 \in 1 .. MaxClicks
    BY <1>1, SignInAssumption DEF Send, IInv, Typed, SignInAssumption
  <2>3. c \in Calls /\ c.kind = "login" /\ c.stage = "sent" /\ c.user = u /\ c.mfa = clicks + 1
    BY <2>1, <2>2 DEF Calls, LoginCalls, Stages
  <2>4. Send(s, c)
    BY <1>1, <2>1
  <2>5. /\ call[s].kind = "idle" /\ call' \in [Slots -> Calls]
        /\ \A x \in Slots \ {s} : call'[x] = call[x]
        /\ call'[s] = c /\ clicks' = clicks + 1 /\ clicks' \in 1 .. MaxClicks
    BY <2>3, <2>4, Sent DEF IInv
  <2>6. clicks \in Nat
    BY DEF IInv, Typed
  <2>7. UNCHANGED <<registered, blocked, mfa, resetCode, token, table, issued, asked, spent,
                    raced, meant, late, faults>>
    BY DEF LogIn, Gateway, Browser, Histories
  <2>8. screen \in Screens
    BY DEF IInv, Typed
  <2>9. /\ screen' \in Screens /\ screen'.busy
        /\ screen'.page = screen.page /\ screen'.mfa = screen.mfa
        /\ screen'.user = screen.user /\ screen'.code = screen.code
    BY <2>8 DEF LogIn, Screens
  <2>10. screen.page = "login" /\ ~screen.busy
    BY DEF LogIn
  <2>11. screen.mfa = 0
    BY DEF LogIn
  <2> QED
    BY <2>3, <2>5, <2>6, <2>7, <2>8, <2>9, <2>10, <2>11
<1>3. Typed'
  BY <1>2 DEF IInv, Typed
<1>4. Accounts'
  BY <1>2 DEF IInv, Accounts
<1>5. PagesHear'
  <2>1. \A x \in Slots : ~(call[x].kind \in {"login", "verify"} /\ call[x].here)
    BY <1>2 DEF IInv, PagesHear
  <2>2. screen'.page = "code" => screen'.user \in Users
    BY <1>2
  <2> QED
    BY <1>2, <2>1 DEF IInv, PagesHear
<1>6. SignsIn'
  BY <1>2 DEF IInv, SignsIn
<1>7. Numbers'
  <2>1. \A x \in Slots : call[x].kind \in {"login", "verify"} => call[x].mfa \in 1 .. clicks
    BY CallKinds DEF IInv, Typed, Numbers, LoginCalls, VerifyCalls
  <2>2. /\ screen.mfa \in 0 .. clicks /\ issued[clicks + 1] = 0
        /\ \A m \in mfa : m.no \in 1 .. clicks
    BY <1>2 DEF IInv, Typed, Numbers, Screens
  <2>3. \A n \in 1 .. MaxClicks : issued[n] <= 1 /\ (n > clicks' => issued[n] = 0)
    BY <1>2 DEF IInv, Numbers
  <2> QED
    BY <1>2, <2>1, <2>2, <2>3 DEF IInv, Numbers
<1>8. Sessions'
  <2>1. \A m \in mfa : m.no \in 1 .. clicks
    BY DEF IInv, Typed, Numbers
  <2> QED
    BY <1>2, <2>1 DEF IInv, Sessions
<1>9. ResetCodes' /\ SpentOnce' /\ NewestResetCodeWorks'
  BY <1>2 DEF IInv, ResetCodes, SpentOnce, NewestResetCodeWorks
<1>10. Mailed'
  BY <1>2, MailedKept
<1>11. Clicks' /\ Rows' /\ LastAsked'
  BY <1>2 DEF IInv, Clicks, Rows, LastAsked, AskedHere, Of, Busy
<1> QED
  BY <1>3, <1>4, <1>5, <1>6, <1>7, <1>8, <1>9, <1>10, <1>11 DEF IInv

\* The code is sent.
LEMMA VerifyOtpKeeps ==
  ASSUME IInv, VerifyOtp
  PROVE  IInv'
<1>1. PICK s \in Slots : Send(s, [kind |-> "verify", user |-> Nobody, stage |-> "sent", here |-> TRUE, mfa |-> screen.mfa])
  BY DEF VerifyOtp
<1>2. /\ call[s].kind = "idle"
      /\ call' \in [Slots -> Calls] /\ \A x \in Slots \ {s} : call'[x] = call[x]
      /\ call'[s].kind = "verify" /\ call'[s].stage = "sent" /\ call'[s].mfa = screen.mfa
      /\ clicks' = clicks + 1 /\ clicks' \in 1 .. MaxClicks /\ clicks \in Nat
      /\ screen.page = "login" /\ ~screen.busy /\ screen' \in Screens /\ screen'.busy
      /\ screen'.page = screen.page /\ screen'.mfa = screen.mfa
      /\ screen'.user = screen.user /\ screen'.code = screen.code
      /\ screen.mfa # 0 /\ meant' = {token, screen.user} \ {Nobody}
      /\ screen.user \in registered /\ late' \in BOOLEAN
      /\ late' <=> late \/ \E x \in Slots : call[x].kind = "verify"
      /\ UNCHANGED <<registered, blocked, mfa, resetCode, token, table, issued, asked, spent>>
      /\ UNCHANGED <<raced, faults>>
  <2>1. PICK c : c = [kind |-> "verify", user |-> Nobody, stage |-> "sent", here |-> TRUE, mfa |-> screen.mfa]
    OBVIOUS
  <2>2. screen.mfa \in 1 .. MaxClicks
    BY SignInAssumption DEF VerifyOtp, IInv, Typed, Screens, SignInAssumption
  <2>3. c \in Calls /\ c.kind = "verify" /\ c.stage = "sent" /\ c.mfa = screen.mfa
    BY <2>1, <2>2 DEF Calls, VerifyCalls, Stages
  <2>4. Send(s, c)
    BY <1>1, <2>1
  <2>5. /\ call[s].kind = "idle" /\ call' \in [Slots -> Calls]
        /\ \A x \in Slots \ {s} : call'[x] = call[x]
        /\ call'[s] = c /\ clicks' = clicks + 1 /\ clicks' \in 1 .. MaxClicks
    BY <2>3, <2>4, Sent DEF IInv
  <2>6. clicks \in Nat
    BY DEF IInv, Typed
  <2>7. UNCHANGED <<registered, blocked, mfa, resetCode, token, table, issued, asked, spent,
                    raced, faults>>
    BY DEF VerifyOtp, Gateway, Browser, Histories
  <2>8. screen \in Screens
    BY DEF IInv, Typed
  <2>9. /\ screen' \in Screens /\ screen'.busy
        /\ screen'.page = screen.page /\ screen'.mfa = screen.mfa
        /\ screen'.user = screen.user /\ screen'.code = screen.code
    BY <2>8 DEF VerifyOtp, Screens
  <2>10. screen.page = "login" /\ ~screen.busy
    BY DEF VerifyOtp
  <2>11. screen.mfa # 0 /\ meant' = {token, screen.user} \ {Nobody} /\ screen.user \in registered
    BY DEF VerifyOtp, IInv, Accounts
  <2>12. late' \in BOOLEAN /\ (late' <=> late \/ \E x \in Slots : call[x].kind = "verify")
    BY DEF VerifyOtp, IInv, Typed, Of, Busy
  <2> QED
    BY <2>3, <2>5, <2>6, <2>7, <2>8, <2>9, <2>10, <2>11, <2>12
<1>3. Typed'
  <2>1. meant' \subseteq Users
    BY <1>2 DEF IInv, Typed
  <2> QED
    BY <1>2, <2>1 DEF IInv, Typed
<1>4. Accounts'
  <2>1. meant' \subseteq registered
    BY <1>2 DEF IInv, Accounts
  <2> QED
    BY <1>2, <2>1 DEF IInv, Accounts
<1>5. PagesHear'
  <2>1. \A x \in Slots : ~(call[x].kind \in {"login", "verify"} /\ call[x].here)
    BY <1>2 DEF IInv, PagesHear
  <2>2. screen'.page = "code" => screen'.user \in Users
    BY <1>2
  <2> QED
    BY <1>2, <2>1 DEF IInv, PagesHear
<1>6. Numbers'
  <2>1. \A x \in Slots : call[x].kind \in {"login", "verify"} => call[x].mfa \in 1 .. clicks
    BY CallKinds DEF IInv, Typed, Numbers, LoginCalls, VerifyCalls
  <2>2. /\ screen.mfa \in 0 .. clicks /\ issued[clicks + 1] = 0
        /\ \A m \in mfa : m.no \in 1 .. clicks
    BY <1>2 DEF IInv, Typed, Numbers, Screens
  <2>3. \A n \in 1 .. MaxClicks : issued[n] <= 1 /\ (n > clicks' => issued[n] = 0)
    BY <1>2 DEF IInv, Numbers
  <2> QED
    BY <1>2, <2>1, <2>2, <2>3 DEF IInv, Numbers
<1>7. Sessions'
  <2>1. \A m \in mfa : m.user \in registered
    BY DEF IInv, Accounts
  <2>2. registered \subseteq Users /\ Nobody \notin Users
    BY SignInAssumption DEF IInv, Typed, SignInAssumption
  <2>3. \A m \in mfa : m.no = screen.mfa => m.user \in meant'
    BY <1>2, <2>1, <2>2 DEF IInv, Sessions
  <2>4. \A x \in Slots : call[x].kind = "verify" => late'
    BY <1>2
  <2> QED
    BY <1>2, <2>3, <2>4 DEF IInv, Sessions
<1>8. SignsIn'
  <2>1. token = Nobody \/ token \in meant'
    BY <1>2
  <2> QED
    BY <1>2, <2>1 DEF SignsIn
<1>9. ResetCodes' /\ SpentOnce' /\ NewestResetCodeWorks'
  BY <1>2 DEF IInv, ResetCodes, SpentOnce, NewestResetCodeWorks
<1>10. Mailed'
  BY <1>2, MailedKept
<1>11. Clicks' /\ Rows' /\ LastAsked'
  BY <1>2 DEF IInv, Clicks, Rows, LastAsked, AskedHere, Of, Busy
<1> QED
  BY <1>3, <1>4, <1>5, <1>6, <1>7, <1>8, <1>9, <1>10, <1>11 DEF IInv

\* A reset code is asked for.
LEMMA SendCodeKeeps ==
  ASSUME IInv, NEW u \in Users, SendCode(u)
  PROVE  IInv'
<1>1. PICK s \in Slots : Send(s, [kind |-> "forgot", user |-> u, stage |-> "sent", here |-> TRUE])
  BY DEF SendCode
<1>2. /\ call[s].kind = "idle"
      /\ call' \in [Slots -> Calls] /\ \A x \in Slots \ {s} : call'[x] = call[x]
      /\ call'[s].kind = "forgot" /\ call'[s].stage = "sent" /\ call'[s].user = u
      /\ clicks' = clicks + 1 /\ clicks' \in 1 .. MaxClicks /\ clicks \in Nat
      /\ screen.page = "forgot"
      /\ UNCHANGED <<registered, blocked, mfa, resetCode, token, screen, table, issued, asked>>
      /\ UNCHANGED <<spent, raced, meant, late, faults>>
  <2>1. PICK c : c = [kind |-> "forgot", user |-> u, stage |-> "sent", here |-> TRUE]
    OBVIOUS
  <2>2. c \in Calls /\ c.kind = "forgot" /\ c.stage = "sent" /\ c.user = u
    BY <2>1 DEF Calls, ForgotCalls, Stages
  <2>3. Send(s, c)
    BY <1>1, <2>1
  <2>4. /\ call[s].kind = "idle" /\ call' \in [Slots -> Calls]
        /\ \A x \in Slots \ {s} : call'[x] = call[x]
        /\ call'[s] = c /\ clicks' = clicks + 1 /\ clicks' \in 1 .. MaxClicks
    BY <2>2, <2>3, Sent DEF IInv
  <2>5. clicks \in Nat
    BY DEF IInv, Typed
  <2>6. UNCHANGED <<registered, blocked, mfa, resetCode, token, screen, table, issued, asked,
                    spent, raced, meant, late, faults>>
    BY DEF SendCode, Gateway, Browser, Histories
  <2>7. screen.page = "forgot"
    BY DEF SendCode
  <2> QED
    BY <2>2, <2>4, <2>5, <2>6, <2>7
<1>3. Typed'
  BY <1>2 DEF IInv, Typed
<1>4. Accounts' /\ PagesHear'
  BY <1>2 DEF IInv, Accounts, PagesHear
<1>5. Sessions' /\ SignsIn'
  BY <1>2 DEF IInv, Sessions, SignsIn
<1>6. Numbers'
  <2>1. \A x \in Slots : call'[x].kind \in {"login", "verify"} => call'[x] = call[x]
    BY <1>2
  <2>2. clicks' \in Nat /\ clicks <= clicks'
    BY <1>2
  <2> QED
    BY <1>2, <2>1, <2>2, NumbersKept
<1>7. ResetCodes' /\ SpentOnce' /\ NewestResetCodeWorks'
  BY <1>2 DEF IInv, ResetCodes, SpentOnce, NewestResetCodeWorks
<1>8. Mailed'
  <2> SUFFICES ASSUME NEW w \in Users
               PROVE  IsFiniteSet(Asking(w)') /\ asked[w] + Cardinality(Asking(w)') <= clicks'
    BY <1>2 DEF Mailed, Asking
  <2>1. IsFiniteSet(Asking(w)) /\ asked[w] + Cardinality(Asking(w)) <= clicks
    BY DEF IInv, Mailed
  <2>2. Cardinality(Asking(w)) \in Nat /\ asked[w] \in Nat /\ clicks \in Nat
    BY <2>1, FS_CardinalityType DEF IInv, Typed
  <2>3. CASE w # u
    <3>1. Asking(w)' = Asking(w)
      BY <1>2, <2>3 DEF Asking
    <3> QED
      BY <1>2, <2>1, <2>2, <3>1
  <2>4. CASE w = u
    <3>1. Asking(w)' = Asking(w) \union {s} /\ s \notin Asking(w)
      BY <1>2, <2>4 DEF Asking
    <3>2. IsFiniteSet(Asking(w)') /\ Cardinality(Asking(w)') = Cardinality(Asking(w)) + 1
      BY <2>1, <3>1, FS_AddElement
    <3> QED
      BY <1>2, <2>1, <2>2, <3>2
  <2> QED
    BY <2>3, <2>4
<1>9. Clicks' /\ Rows' /\ LastAsked'
  BY <1>2 DEF IInv, Clicks, Rows, LastAsked, AskedHere, Of, Busy
<1> QED
  BY <1>3, <1>4, <1>5, <1>6, <1>7, <1>8, <1>9 DEF IInv

\* A password is sent with a code.
LEMMA ResetPasswordKeeps ==
  ASSUME IInv, ResetPassword
  PROVE  IInv'
<1>1. PICK s \in Slots : Send(s, [kind |-> "reset", user |-> screen.user, code |-> screen.code, no |-> clicks + 1,
           stage |-> "sent", here |-> TRUE])
  BY DEF ResetPassword
<1>2. /\ call[s].kind = "idle"
      /\ call' \in [Slots -> Calls] /\ \A x \in Slots \ {s} : call'[x] = call[x]
      /\ call'[s].kind = "reset" /\ call'[s].stage = "sent"
      /\ clicks' = clicks + 1 /\ clicks' \in 1 .. MaxClicks /\ clicks \in Nat
      /\ UNCHANGED <<registered, blocked, mfa, resetCode, token, screen, table, issued, asked>>
      /\ UNCHANGED <<spent, raced, meant, late, faults>>
  <2>1. PICK c : c = [kind |-> "reset", user |-> screen.user, code |-> screen.code, no |-> clicks + 1,
             stage |-> "sent", here |-> TRUE]
    OBVIOUS
  <2>2. clicks + 1 \in 1 .. MaxClicks /\ screen.user \in Users /\ screen.code \in 1 .. MaxClicks
    BY <1>1, SignInAssumption DEF ResetPassword, Send, IInv, Typed, PagesHear, Screens,
       SignInAssumption
  <2>3. c \in Calls /\ c.kind = "reset" /\ c.stage = "sent"
    BY <2>1, <2>2 DEF Calls, ResetCalls, Stages
  <2>4. Send(s, c)
    BY <1>1, <2>1
  <2>5. /\ call[s].kind = "idle" /\ call' \in [Slots -> Calls]
        /\ \A x \in Slots \ {s} : call'[x] = call[x]
        /\ call'[s] = c /\ clicks' = clicks + 1 /\ clicks' \in 1 .. MaxClicks
    BY <2>3, <2>4, Sent DEF IInv
  <2>6. clicks \in Nat
    BY DEF IInv, Typed
  <2>7. UNCHANGED <<registered, blocked, mfa, resetCode, token, screen, table, issued, asked,
                    spent, raced, meant, late, faults>>
    BY DEF ResetPassword, Gateway, Browser, Histories
  <2> QED
    BY <2>3, <2>5, <2>6, <2>7
<1>3. Typed'
  BY <1>2 DEF IInv, Typed
<1>4. Accounts' /\ PagesHear'
  BY <1>2 DEF IInv, Accounts, PagesHear
<1>5. Sessions' /\ SignsIn'
  BY <1>2 DEF IInv, Sessions, SignsIn
<1>6. Numbers'
  <2>1. \A x \in Slots : call'[x].kind \in {"login", "verify"} => call'[x] = call[x]
    BY <1>2
  <2>2. clicks' \in Nat /\ clicks <= clicks'
    BY <1>2
  <2> QED
    BY <1>2, <2>1, <2>2, NumbersKept
<1>7. ResetCodes' /\ SpentOnce' /\ NewestResetCodeWorks'
  BY <1>2 DEF IInv, ResetCodes, SpentOnce, NewestResetCodeWorks
<1>8. Mailed'
  BY <1>2, MailedKept
<1>9. Clicks' /\ Rows' /\ LastAsked'
  BY <1>2 DEF IInv, Clicks, Rows, LastAsked, AskedHere, Of, Busy
<1> QED
  BY <1>3, <1>4, <1>5, <1>6, <1>7, <1>8, <1>9 DEF IInv

-----------------------------------------------------------------------------
(* What the administrator does in the table of users.                        *)

\* Block or unblock is clicked.
LEMMA ToggleKeeps ==
  ASSUME IInv, NEW u \in Users, Toggle(u)
  PROVE  IInv'
<1>1. PICK s \in Slots : Send(s, [kind |-> "toggle", user |-> u, stage |-> "sent", here |-> TRUE, saw |-> FALSE])
  BY DEF Toggle
<1>2. /\ call[s].kind = "idle"
      /\ call' \in [Slots -> Calls] /\ \A x \in Slots \ {s} : call'[x] = call[x]
      /\ call'[s].kind = "toggle" /\ call'[s].stage = "sent" /\ call'[s].user = u /\ call'[s].here
      /\ clicks' = clicks + 1 /\ clicks' \in 1 .. MaxClicks /\ clicks \in Nat
      /\ u \in registered /\ table.rows /\ table' \in Tables /\ table'.rows = table.rows
      /\ table'.blocked = table.blocked /\ table'.details = table.details
      /\ table'.asked = table.asked /\ table'.mixed = table.mixed
      /\ table.behind \subseteq table'.behind /\ table'.behind \subseteq table.behind \union {u}
      /\ (\E x \in Slots : call[x].kind = "toggle" /\ call[x].user = u) => u \in table'.behind
      /\ UNCHANGED <<registered, blocked, mfa, resetCode, token, screen, issued, asked, spent>>
      /\ UNCHANGED <<raced, meant, late, faults>>
  <2>1. PICK c : c = [kind |-> "toggle", user |-> u, stage |-> "sent", here |-> TRUE, saw |-> FALSE]
    OBVIOUS
  <2>2. c \in Calls /\ c.kind = "toggle" /\ c.stage = "sent" /\ c.user = u /\ c.here
    BY <2>1 DEF Calls, ToggleCalls, Stages
  <2>3. Send(s, c)
    BY <1>1, <2>1
  <2>4. /\ call[s].kind = "idle" /\ call' \in [Slots -> Calls]
        /\ \A x \in Slots \ {s} : call'[x] = call[x]
        /\ call'[s] = c /\ clicks' = clicks + 1 /\ clicks' \in 1 .. MaxClicks
    BY <2>2, <2>3, Sent DEF IInv
  <2>5. clicks \in Nat
    BY DEF IInv, Typed
  <2>6. UNCHANGED <<registered, blocked, mfa, resetCode, token, screen, issued, asked, spent,
                    raced, meant, late, faults>>
    BY DEF Toggle, Gateway, Browser, Histories
  <2>7. table \in Tables
    BY DEF IInv, Typed
  <2>8. table.rows /\ u \in registered
    BY DEF Toggle
  <2>9. PICK b \in SUBSET Users :
          b = IF \E x \in Of("toggle") : call[x].user = u THEN table.behind \union {u} ELSE table.behind
    BY <2>7 DEF Tables
  <2>10. table' = [table EXCEPT !.behind = b]
    BY <2>9 DEF Toggle
  <2>11. /\ table' \in Tables /\ table'.rows = table.rows /\ table'.blocked = table.blocked
         /\ table'.details = table.details /\ table'.asked = table.asked
         /\ table'.mixed = table.mixed /\ table'.behind = b
    BY <2>7, <2>10 DEF Tables
  <2>12. /\ table.behind \subseteq b /\ b \subseteq table.behind \union {u}
         /\ (\E x \in Slots : call[x].kind = "toggle" /\ call[x].user = u) => u \in b
    BY <2>9 DEF Of, Busy
  <2> QED
    BY <2>2, <2>4, <2>5, <2>6, <2>7, <2>8, <2>9, <2>10, <2>11, <2>12
<1>3. Typed'
  BY <1>2 DEF IInv, Typed
<1>4. Accounts' /\ PagesHear'
  BY <1>2 DEF IInv, Accounts, PagesHear
<1>5. Sessions' /\ SignsIn'
  BY <1>2 DEF IInv, Sessions, SignsIn
<1>6. Numbers'
  <2>1. \A x \in Slots : call'[x].kind \in {"login", "verify"} => call'[x] = call[x]
    BY <1>2
  <2>2. clicks' \in Nat /\ clicks <= clicks'
    BY <1>2
  <2> QED
    BY <1>2, <2>1, <2>2, NumbersKept
<1>7. ResetCodes' /\ SpentOnce' /\ NewestResetCodeWorks'
  BY <1>2 DEF IInv, ResetCodes, SpentOnce, NewestResetCodeWorks
<1>8. Mailed'
  BY <1>2, MailedKept
<1>9. Clicks'
  BY <1>2 DEF IInv, Clicks
<1>10. Rows'
  <2>1. \A x \in Slots : call'[x].kind = "table" \/ (call'[x].kind = "toggle" /\ call'[x].stage \in {"read", "ok"}) =>
          x # s /\ call'[x] = call[x]
    BY <1>2
  <2>2. \A x \in Slots : call[x].kind = "table" \/ (call[x].kind = "toggle" /\ call[x].stage \in {"read", "ok"}) =>
          x # s /\ call'[x] = call[x]
    BY <1>2
  <2> QED
    BY <1>2, <2>1, <2>2 DEF IInv, Rows
<1>11. LastAsked'
  <2>1. AskedHere' = AskedHere /\ \A x \in AskedHere : call'[x] = call[x]
    BY <1>2 DEF AskedHere, Of, Busy
  <2> QED
    BY <1>2, <2>1 DEF IInv, LastAsked
<1> QED
  BY <1>3, <1>4, <1>5, <1>6, <1>7, <1>8, <1>9, <1>10, <1>11 DEF IInv

\* The details of a user are asked for.
LEMMA DetailsKeeps ==
  ASSUME IInv, NEW u \in Users, Details(u)
  PROVE  IInv'
<1>1. PICK s \in Slots : Send(s, [kind |-> "details", user |-> u, stage |-> "sent", here |-> TRUE])
  BY DEF Details
<1>2. /\ call[s].kind = "idle"
      /\ call' \in [Slots -> Calls] /\ \A x \in Slots \ {s} : call'[x] = call[x]
      /\ call'[s].kind = "details" /\ call'[s].stage = "sent" /\ call'[s].user = u /\ call'[s].here
      /\ clicks' = clicks + 1 /\ clicks' \in 1 .. MaxClicks /\ clicks \in Nat
      /\ u \in registered /\ table' \in Tables /\ table'.rows = table.rows /\ table'.behind = table.behind
      /\ table'.blocked = table.blocked /\ table'.details = table.details
      /\ table'.asked = u /\ (~table'.mixed => ~table.mixed /\ AskedHere = {})
      /\ UNCHANGED <<registered, blocked, mfa, resetCode, token, screen, issued, asked, spent>>
      /\ UNCHANGED <<raced, meant, late, faults>>
  <2>1. PICK c : c = [kind |-> "details", user |-> u, stage |-> "sent", here |-> TRUE]
    OBVIOUS
  <2>2. c \in Calls /\ c.kind = "details" /\ c.stage = "sent" /\ c.user = u /\ c.here
    BY <2>1 DEF Calls, DetailsCalls, Stages
  <2>3. Send(s, c)
    BY <1>1, <2>1
  <2>4. /\ call[s].kind = "idle" /\ call' \in [Slots -> Calls]
        /\ \A x \in Slots \ {s} : call'[x] = call[x]
        /\ call'[s] = c /\ clicks' = clicks + 1 /\ clicks' \in 1 .. MaxClicks
    BY <2>2, <2>3, Sent DEF IInv
  <2>5. clicks \in Nat
    BY DEF IInv, Typed
  <2>6. UNCHANGED <<registered, blocked, mfa, resetCode, token, screen, issued, asked, spent,
                    raced, meant, late, faults>>
    BY DEF Details, Gateway, Browser, Histories
  <2>7. table \in Tables
    BY DEF IInv, Typed
  <2>8. u \in registered
    BY DEF Details
  <2>9. PICK b \in BOOLEAN : b = (table.mixed \/ AskedHere # {})
    BY <2>7 DEF Tables
  <2>10. table' = [table EXCEPT !.asked = u, !.mixed = b]
    BY <2>9 DEF Details
  <2>11. /\ table' \in Tables /\ table'.rows = table.rows /\ table'.blocked = table.blocked
         /\ table'.details = table.details /\ table'.asked = u
         /\ table'.mixed = b /\ table'.behind = table.behind
    BY <2>7, <2>10 DEF Tables
  <2>12. ~b => ~table.mixed /\ AskedHere = {}
    BY <2>9
  <2> QED
    BY <2>2, <2>4, <2>5, <2>6, <2>7, <2>8, <2>9, <2>10, <2>11, <2>12
<1>3. Typed'
  BY <1>2 DEF IInv, Typed
<1>4. Accounts' /\ PagesHear'
  BY <1>2 DEF IInv, Accounts, PagesHear
<1>5. Sessions' /\ SignsIn'
  BY <1>2 DEF IInv, Sessions, SignsIn
<1>6. Numbers'
  <2>1. \A x \in Slots : call'[x].kind \in {"login", "verify"} => call'[x] = call[x]
    BY <1>2
  <2>2. clicks' \in Nat /\ clicks <= clicks'
    BY <1>2
  <2> QED
    BY <1>2, <2>1, <2>2, NumbersKept
<1>7. ResetCodes' /\ SpentOnce' /\ NewestResetCodeWorks'
  BY <1>2 DEF IInv, ResetCodes, SpentOnce, NewestResetCodeWorks
<1>8. Mailed'
  BY <1>2, MailedKept
<1>9. Clicks' /\ Rows'
  BY <1>2 DEF IInv, Clicks, Rows
<1>10. LastAsked'
  <2>1. ~table'.mixed => AskedHere' = {s} /\ call'[s].user = table'.asked /\ call'[s].stage # "refused"
    BY <1>2 DEF AskedHere, Of, Busy
  <2> QED
    BY <2>1 DEF LastAsked
<1> QED
  BY <1>3, <1>4, <1>5, <1>6, <1>7, <1>8, <1>9, <1>10 DEF IInv

\* Another administrator blocks or unblocks.
LEMMA ToggleElsewhereKeeps ==
  ASSUME IInv, NEW u \in Users, ToggleElsewhere(u)
  PROVE  IInv'
<1>1. /\ u \in registered /\ clicks \in Nat /\ clicks' \in Nat /\ clicks' = clicks + 1 /\ clicks' <= MaxClicks /\ call' = call
      /\ blocked' \subseteq blocked \union {u} /\ blocked \subseteq blocked' \union {u}
      /\ table' \in Tables /\ table'.rows = table.rows /\ table'.behind = table.behind \union {u}
      /\ table'.blocked = table.blocked /\ table'.details = table.details
      /\ table'.asked = table.asked /\ table'.mixed = table.mixed
      /\ UNCHANGED <<registered, mfa, resetCode, token, screen, issued, asked, spent, raced>>
      /\ UNCHANGED <<meant, late, faults>>
  <2>1. table \in Tables /\ clicks \in Nat
    BY DEF IInv, Typed
  <2>2. table' = [table EXCEPT !.behind = table.behind \union {u}]
    BY DEF ToggleElsewhere
  <2>3. /\ table' \in Tables /\ table'.rows = table.rows /\ table'.behind = table.behind \union {u}
        /\ table'.blocked = table.blocked /\ table'.details = table.details
        /\ table'.asked = table.asked /\ table'.mixed = table.mixed
    BY <2>1, <2>2 DEF Tables
  <2>4. UNCHANGED <<registered, mfa, resetCode, token, screen, issued, asked, spent, raced,
                    meant, late, faults>>
    BY DEF ToggleElsewhere, Browser, Histories
  <2>5. u \in registered /\ clicks < MaxClicks /\ clicks' = clicks + 1 /\ call' = call
    BY DEF ToggleElsewhere
  <2>6. blocked' = Flipped(blocked, u)
    BY DEF ToggleElsewhere
  <2> QED
    BY <2>1, <2>3, <2>4, <2>5, <2>6, SignInAssumption DEF Flipped, SignInAssumption
<1>2. Typed'
  BY <1>1 DEF IInv, Typed
<1>3. Accounts' /\ PagesHear'
  BY <1>1 DEF IInv, Accounts, PagesHear
<1>4. Sessions' /\ SignsIn'
  BY <1>1 DEF IInv, Sessions, SignsIn
<1>5. Numbers'
  <2>1. \A x \in Slots : call'[x].kind \in {"login", "verify"} => call'[x] = call[x]
    BY <1>1
  <2>2. clicks' \in Nat /\ clicks <= clicks'
    BY <1>1
  <2> QED
    BY <1>1, <2>1, <2>2, NumbersKept
<1>6. ResetCodes' /\ SpentOnce' /\ NewestResetCodeWorks'
  BY <1>1 DEF IInv, ResetCodes, SpentOnce, NewestResetCodeWorks
<1>7. Mailed'
  BY <1>1, MailedKept
<1>8. Clicks' /\ Rows' /\ LastAsked'
  BY <1>1 DEF IInv, Clicks, Rows, LastAsked, AskedHere, Of, Busy
<1> QED
  BY <1>2, <1>3, <1>4, <1>5, <1>6, <1>7, <1>8 DEF IInv

\* The details are closed.
LEMMA CloseDetailsKeeps ==
  ASSUME IInv, CloseDetails
  PROVE  IInv'
<1>1. /\ call' = call /\ table' \in Tables /\ table'.rows = table.rows /\ table'.behind = table.behind
      /\ table'.blocked = table.blocked /\ table'.details = Nobody
      /\ table'.asked = Nobody /\ (~table'.mixed => ~table.mixed /\ AskedHere = {})
      /\ UNCHANGED <<registered, blocked, mfa, resetCode, token, screen, issued, asked, spent>>
      /\ UNCHANGED <<raced, meant, late, clicks, faults>>
  <2>1. table \in Tables
    BY DEF IInv, Typed
  <2>2. PICK b \in BOOLEAN : b = (table.mixed \/ AskedHere # {})
    BY <2>1 DEF Tables
  <2>3. table' = [table EXCEPT !.details = Nobody, !.asked = Nobody, !.mixed = b]
    BY <2>2 DEF CloseDetails
  <2>4. /\ table' \in Tables /\ table'.rows = table.rows /\ table'.behind = table.behind
        /\ table'.blocked = table.blocked /\ table'.details = Nobody
        /\ table'.asked = Nobody /\ table'.mixed = b
    BY <2>1, <2>3 DEF Tables
  <2>5. UNCHANGED <<registered, blocked, mfa, resetCode, token, screen, issued, asked, spent, raced, meant,
                    late, clicks, faults>>
    BY DEF CloseDetails, Gateway, Browser, Histories, Bounds
  <2> QED
    BY <2>2, <2>4, <2>5 DEF CloseDetails
<1>2. Typed'
  BY <1>1 DEF IInv, Typed
<1>3. Accounts' /\ PagesHear'
  BY <1>1 DEF IInv, Accounts, PagesHear
<1>4. Numbers' /\ Sessions' /\ SignsIn'
  BY <1>1 DEF IInv, Numbers, Sessions, SignsIn
<1>5. ResetCodes' /\ SpentOnce' /\ NewestResetCodeWorks'
  BY <1>1 DEF IInv, ResetCodes, SpentOnce, NewestResetCodeWorks
<1>6. Mailed'
  BY <1>1, MailedKept
<1>7. Clicks' /\ Rows'
  BY <1>1 DEF IInv, Clicks, Rows
<1>8. LastAsked'
  <2>1. ~table'.mixed => AskedHere' = {}
    BY <1>1 DEF AskedHere, Of, Busy
  <2> QED
    BY <1>1, <2>1 DEF LastAsked
<1> QED
  BY <1>2, <1>3, <1>4, <1>5, <1>6, <1>7, <1>8 DEF IInv

-----------------------------------------------------------------------------
(* What the pages do with an answer.                                         *)

\* The form of a registration is sent.
LEMMA RegisterKeeps ==
  ASSUME IInv, NEW u \in Users, Register(u)
  PROVE  IInv'
<1>1. PICK s \in Slots \ Busy :
        call' = [call EXCEPT ![s] = [kind |-> "register", user |-> u, stage |-> "sent", here |-> TRUE]]
  BY DEF Register
<1>2. /\ call[s].kind = "idle"
      /\ call' \in [Slots -> Calls] /\ \A x \in Slots \ {s} : call'[x] = call[x]
      /\ call'[s].kind = "register"
      /\ UNCHANGED <<registered, blocked, mfa, resetCode, token, screen, table, issued, asked>>
      /\ UNCHANGED <<spent, raced, meant, late, clicks, faults>>
  <2>1. PICK c : c = [kind |-> "register", user |-> u, stage |-> "sent", here |-> TRUE]
    OBVIOUS
  <2>2. c \in Calls /\ c.kind = "register"
    BY <2>1 DEF Calls, RegisterCalls, Stages
  <2>3. UNCHANGED <<registered, blocked, mfa, resetCode, token, screen, table, issued, asked, spent, raced,
                    meant, late, clicks, faults>>
    BY DEF Register, Gateway, Browser, Histories, Bounds
  <2>4. call' = [call EXCEPT ![s] = c]
    BY <1>1, <2>1
  <2>5. call[s].kind = "idle"
    BY DEF Busy
  <2> QED
    BY <2>2, <2>3, <2>4, <2>5, SlotSet DEF IInv
<1>3. Typed'
  BY <1>2 DEF IInv, Typed
<1>4. Accounts' /\ PagesHear'
  BY <1>2 DEF IInv, Accounts, PagesHear
<1>5. Numbers' /\ Sessions' /\ SignsIn'
  BY <1>2 DEF IInv, Numbers, Sessions, SignsIn
<1>6. ResetCodes' /\ SpentOnce' /\ NewestResetCodeWorks'
  BY <1>2 DEF IInv, ResetCodes, SpentOnce, NewestResetCodeWorks
<1>7. Mailed'
  BY <1>2, MailedKept
<1>8. Clicks' /\ Rows' /\ LastAsked'
  BY <1>2 DEF IInv, Clicks, Rows, LastAsked, AskedHere, Of, Busy
<1> QED
  BY <1>3, <1>4, <1>5, <1>6, <1>7, <1>8 DEF IInv

\* A registration or a reset is refused: the page says so.
LEMMA RefusalKeeps ==
  ASSUME IInv, NEW s \in Slots, call[s].kind \in PageKinds, call' = Over(s),
         UNCHANGED <<Gateway, Browser, table, Histories, Bounds>>
  PROVE  IInv'
<1>1. /\ call[s].kind \in PageKinds
      /\ call' \in [Slots -> Calls] /\ \A x \in Slots \ {s} : call'[x] = call[x]
      /\ call'[s].kind = "idle"
      /\ UNCHANGED <<registered, blocked, mfa, resetCode, token, screen, table, issued, asked>>
      /\ UNCHANGED <<spent, raced, meant, late, clicks, faults>>
  BY SlotOver DEF IInv, Gateway, Browser, Histories, Bounds
<1>2. Typed'
  BY <1>1 DEF IInv, Typed
<1>3. Accounts' /\ PagesHear'
  BY <1>1 DEF IInv, Accounts, PagesHear
<1>4. Numbers' /\ Sessions' /\ SignsIn'
  BY <1>1 DEF IInv, Numbers, Sessions, SignsIn
<1>5. ResetCodes' /\ SpentOnce' /\ NewestResetCodeWorks'
  BY <1>1 DEF IInv, ResetCodes, SpentOnce, NewestResetCodeWorks
<1>6. Mailed'
  BY <1>1, MailedKept
<1>7. Clicks'
  BY <1>1 DEF IInv, Clicks
<1>8. Rows'
  <2>1. \A x \in Slots : call[x].kind \in {"table", "toggle"} <=> call'[x].kind \in {"table", "toggle"}
    BY <1>1 DEF PageKinds
  <2>2. \A x \in Slots : call[x].kind \in {"table", "toggle"} => call'[x] = call[x]
    BY <1>1 DEF PageKinds
  <2> QED
    BY <1>1, <2>1, <2>2 DEF IInv, Rows
<1>9. LastAsked'
  <2>1. AskedHere' = AskedHere /\ \A x \in AskedHere : call'[x] = call[x]
    BY <1>1 DEF AskedHere, Of, Busy, PageKinds
  <2> QED
    BY <1>1, <2>1 DEF IInv, LastAsked
<1> QED
  BY <1>2, <1>3, <1>4, <1>5, <1>6, <1>7, <1>8, <1>9 DEF IInv

\* A registration is answered.
LEMMA FinishRegisterKeeps ==
  ASSUME IInv, NEW s \in Slots, FinishRegister(s)
  PROVE  IInv'
<1>1. call[s].kind \in PageKinds
  BY DEF FinishRegister, Answered, PageKinds
<1>2. CASE screen' = Page("login") /\ call' = [Left EXCEPT ![s] = Idle]
  BY <1>1, <1>2, OpensPageKeeps DEF FinishRegister
<1>3. CASE UNCHANGED screen /\ call' = Over(s)
  BY <1>1, <1>3, RefusalKeeps DEF FinishRegister, Browser
<1> QED
  BY <1>2, <1>3 DEF FinishRegister

\* A reset is answered.
LEMMA FinishResetKeeps ==
  ASSUME IInv, NEW s \in Slots, FinishReset(s)
  PROVE  IInv'
<1>1. call[s].kind \in PageKinds
  BY DEF FinishReset, Answered, PageKinds
<1>2. CASE screen' = Page("login") /\ call' = [Left EXCEPT ![s] = Idle]
  BY <1>1, <1>2, OpensPageKeeps DEF FinishReset
<1>3. CASE UNCHANGED screen /\ call' = Over(s)
  BY <1>1, <1>3, RefusalKeeps DEF FinishReset, Browser
<1> QED
  BY <1>2, <1>3 DEF FinishReset

\* The guest's cart is merged, and the page goes home.
LEMMA GoHomeKeeps ==
  ASSUME IInv, NEW s \in Slots, GoHome(s)
  PROVE  IInv'
BY OpensPageKeeps DEF GoHome, At, PageKinds

\* A login is answered: the page asks for the code.
LEMMA FinishLoginKeeps ==
  ASSUME IInv, NEW s \in Slots, FinishLogin(s)
  PROVE  IInv'
<1>1. /\ call[s].kind = "login" /\ call[s].mfa \in 1 .. MaxClicks /\ call[s].user \in Users
      /\ call' \in [Slots -> Calls] /\ \A x \in Slots \ {s} : call'[x] = call[x]
      /\ call'[s].kind = "idle" /\ screen' \in Screens
      /\ \/ screen' = screen
         \/ /\ call[s].here /\ screen'.page = screen.page /\ screen'.user = call[s].user
            /\ screen'.code = screen.code
            /\ \/ screen'.mfa = screen.mfa
               \/ call[s].stage = "ok" /\ screen'.mfa = call[s].mfa
      /\ UNCHANGED <<registered, blocked, mfa, resetCode, token, table, issued, asked, spent>>
      /\ UNCHANGED <<raced, meant, late, clicks, faults>>
  <2>1. call[s].kind = "login"
    BY DEF FinishLogin, Answered
  <2>2. call[s] \in LoginCalls
    BY <2>1, CallKinds DEF IInv, Typed
  <2>3. UNCHANGED <<registered, blocked, mfa, resetCode, token, table, issued, asked, spent, raced, meant, late,
                    clicks, faults>>
    BY DEF FinishLogin, Gateway, Histories, Bounds
  <2>4. /\ call' \in [Slots -> Calls] /\ call'[s].kind = "idle"
        /\ \A x \in Slots \ {s} : call'[x] = call[x]
    BY SlotOver DEF FinishLogin, IInv
  <2>5. screen \in Screens
    BY DEF IInv, Typed
  <2>6. CASE screen' = screen
    BY <2>1, <2>2, <2>3, <2>4, <2>5, <2>6 DEF LoginCalls
  <2>7. CASE call[s].here /\ screen' # screen
    <3>1. PICK n \in {call[s].mfa, screen.mfa} :
            /\ screen' = [screen EXCEPT !.busy = FALSE, !.user = call[s].user, !.mfa = n]
            /\ n # screen.mfa => call[s].stage = "ok" /\ n = call[s].mfa
      <4>1. screen' = [screen EXCEPT !.busy = FALSE, !.user = call[s].user,
                                     !.mfa = IF call[s].stage = "ok" THEN call[s].mfa ELSE @]
        BY <2>7 DEF FinishLogin, Hears
      <4>2. CASE call[s].stage = "ok"
        BY <4>1, <4>2
      <4>3. CASE call[s].stage # "ok"
        BY <4>1, <4>3
      <4> QED
        BY <4>2, <4>3
    <3>2. /\ screen' \in Screens /\ screen'.page = screen.page /\ screen'.user = call[s].user
          /\ screen'.code = screen.code /\ screen'.mfa = n
      <4>1. n \in 0 .. MaxClicks /\ call[s].user \in Users
        BY <2>2, <2>5, <3>1 DEF Screens, LoginCalls
      <4> QED
        BY <2>5, <3>1, <4>1 DEF Screens
    <3> QED
      BY <2>1, <2>2, <2>3, <2>4, <2>7, <3>1, <3>2 DEF LoginCalls
  <2> QED
    BY <2>6, <2>7 DEF FinishLogin, Hears
<1>2. Typed'
  BY <1>1 DEF IInv, Typed
<1>3. Accounts'
  <2>1. screen'.mfa # 0 => screen'.user \in registered
    <3>1. call[s].stage = "ok" => call[s].user \in registered
      BY <1>1 DEF IInv, Accounts
    <3>2. call[s].here => screen.mfa = 0
      BY <1>1 DEF IInv, PagesHear
    <3>3. screen.mfa # 0 => screen.user \in registered
      BY DEF IInv, Accounts
    <3> QED
      BY <1>1, <3>1, <3>2, <3>3
  <2> QED
    BY <1>1, <2>1 DEF IInv, Accounts
<1>4. PagesHear'
  <2>1. call[s].here => screen.page = "login" /\ screen.mfa = 0
    BY <1>1 DEF IInv, PagesHear
  <2>2. call[s].here => \A x \in Slots : call'[x].kind \in {"login", "verify"} => ~call'[x].here
    BY <1>1 DEF IInv, PagesHear
  <2>3. ~call[s].here => screen' = screen
    BY <1>1
  <2>4. CASE ~call[s].here
    BY <1>1, <2>3, <2>4 DEF IInv, PagesHear
  <2>5. CASE call[s].here
    <3>1. screen'.page = "login"
      BY <1>1, <2>1, <2>5
    <3>2. \A x \in Slots : call'[x].kind = "forgot" => ~call'[x].here
      BY <1>1, <2>1, <2>5 DEF IInv, PagesHear
    <3> QED
      BY <2>2, <2>5, <3>1, <3>2 DEF PagesHear
  <2> QED
    BY <2>4, <2>5
<1>5. SignsIn'
  BY <1>1 DEF IInv, SignsIn
<1>6. Numbers'
  <2>1. screen'.mfa \in {screen.mfa, call[s].mfa}
    BY <1>1
  <2>2. \A x \in Slots \ {s} : call[x].kind = "login" => call[x].mfa # call[s].mfa
    BY <1>1 DEF IInv, Numbers
  <2> QED
    BY <1>1, <2>1, <2>2 DEF IInv, Numbers
<1>7. Sessions'
  <2>1. \A m \in mfa : screen'.mfa = m.no => screen'.user = m.user
    <3>1. call[s].here => screen.mfa = 0
      BY <1>1 DEF IInv, PagesHear
    <3>2. \A m \in mfa : m.no # 0
      BY DEF IInv, Typed
    <3> QED
      BY <1>1, <3>1, <3>2 DEF IInv, Sessions
  <2> QED
    BY <1>1, <2>1 DEF IInv, Sessions
<1>8. ResetCodes' /\ SpentOnce' /\ NewestResetCodeWorks'
  BY <1>1 DEF IInv, ResetCodes, SpentOnce, NewestResetCodeWorks
<1>9. Mailed'
  BY <1>1, MailedKept
<1>10. Clicks'
  BY <1>1 DEF IInv, Clicks
<1>11. Rows'
  <2>1. \A x \in Slots : call[x].kind \in {"table", "toggle"} <=> call'[x].kind \in {"table", "toggle"}
    BY <1>1
  <2>2. \A x \in Slots : call[x].kind \in {"table", "toggle"} => call'[x] = call[x]
    BY <1>1
  <2> QED
    BY <1>1, <2>1, <2>2 DEF IInv, Rows
<1>12. LastAsked'
  <2>1. AskedHere' = AskedHere /\ \A x \in AskedHere : call'[x] = call[x]
    BY <1>1 DEF AskedHere, Of, Busy
  <2> QED
    BY <1>1, <2>1 DEF IInv, LastAsked
<1> QED
  BY <1>2, <1>3, <1>4, <1>5, <1>6, <1>7, <1>8, <1>9, <1>10, <1>11, <1>12 DEF IInv

\* The token is stored, whichever page is open.
LEMMA StoreTokenKeeps ==
  ASSUME IInv, NEW s \in Slots, StoreToken(s)
  PROVE  IInv'
<1>1. /\ call[s].kind = "verify" /\ call[s].stage \in {"ok"}
      /\ call' \in [Slots -> Calls] /\ \A x \in Slots \ {s} : call'[x] = call[x]
      /\ Continues(call[s], call'[s])
      /\ call'[s].here = call[s].here /\ call'[s].stage \in {"signed"}
      /\ token' = call[s].user
      /\ UNCHANGED <<registered, blocked, mfa, resetCode, screen, table, issued, asked, spent>>
      /\ UNCHANGED <<raced, meant, late, clicks, faults>>
  <2>1. PICK st \in {"signed"} : call' = Answer(s, st)
    BY DEF StoreToken
  <2>2. call[s].kind = "verify"
    BY DEF StoreToken, At
  <2>3. call' \in [Slots -> Calls] /\ \A x \in Slots \ {s} : call'[x] = call[x]
    BY <2>1, <2>2, SlotAnswered DEF IInv, StagesOf, Stages
  <2>4. Continues(call[s], call'[s]) /\ call'[s].stage = st /\ call'[s].here = call[s].here
    BY <2>1, <2>2, SlotAnswered DEF IInv, StagesOf, Stages
  <2>5. call[s] \in VerifyCalls
    BY <2>2, CallKinds DEF IInv, Typed
  <2>6. call[s].stage \in {"ok"}
    BY DEF StoreToken, At
  <2>7. /\ UNCHANGED <<registered, blocked, mfa, resetCode, screen, table, issued, asked, spent>>
      /\ UNCHANGED <<raced, meant, late, clicks, faults>>
    BY DEF StoreToken, Browser, Gateway, Histories, Bounds
  <2> QED
    BY <2>1, <2>2, <2>3, <2>4, <2>5, <2>6, <2>7 DEF StoreToken, At
<1>2. Typed'
  <2>1. call[s].user \in registered /\ registered \subseteq Users
    BY <1>1 DEF IInv, Accounts, Typed
  <2> QED
    BY <1>1, <2>1 DEF IInv, Typed
<1>3. Accounts' /\ PagesHear'
  BY <1>1 DEF IInv, Accounts, PagesHear, Continues
<1>4. Numbers' /\ Sessions' /\ SignsIn'
  BY <1>1 DEF IInv, Numbers, Sessions, SignsIn, Continues
<1>5. ResetCodes' /\ SpentOnce' /\ NewestResetCodeWorks'
  BY <1>1 DEF IInv, ResetCodes, SpentOnce, NewestResetCodeWorks, Continues
<1>6. Mailed'
  BY <1>1, MailedKept DEF Continues
<1>7. Clicks' /\ Rows' /\ LastAsked'
  BY <1>1 DEF IInv, Clicks, Rows, LastAsked, AskedHere, Of, Busy, Continues
<1> QED
  BY <1>2, <1>3, <1>4, <1>5, <1>6, <1>7 DEF IInv

\* A verification that failed: the page says so, if it is shown.
LEMMA VerifyFailedKeeps ==
  ASSUME IInv, NEW s \in Slots, VerifyFailed(s)
  PROVE  IInv'
<1>1. /\ call[s].kind = "verify"
      /\ call' \in [Slots -> Calls] /\ \A x \in Slots \ {s} : call'[x] = call[x]
      /\ call'[s].kind = "idle" /\ screen' \in Screens
      /\ \/ screen' = screen
         \/ /\ call[s].here /\ screen'.page = screen.page /\ screen'.user = screen.user
            /\ screen'.code = screen.code /\ screen'.mfa = screen.mfa
      /\ UNCHANGED <<registered, blocked, mfa, resetCode, token, table, issued, asked, spent>>
      /\ UNCHANGED <<raced, meant, late, clicks, faults>>
  <2>1. call[s].kind = "verify"
    BY DEF VerifyFailed
  <2>2. /\ call' \in [Slots -> Calls] /\ call'[s].kind = "idle"
        /\ \A x \in Slots \ {s} : call'[x] = call[x]
    BY SlotOver DEF VerifyFailed, IInv
  <2>3. UNCHANGED <<registered, blocked, mfa, resetCode, token, table, issued, asked, spent, raced, meant, late,
                    clicks, faults>>
    BY DEF VerifyFailed, Gateway, Histories, Bounds
  <2>4. screen' = screen \/ (call[s].here /\ screen' = [screen EXCEPT !.busy = FALSE])
    BY DEF VerifyFailed, Hears
  <2>5. screen \in Screens
    BY DEF IInv, Typed
  <2> QED
    BY <2>1, <2>2, <2>3, <2>4, <2>5 DEF Screens
<1>2. Typed'
  BY <1>1 DEF IInv, Typed
<1>3. Accounts'
  BY <1>1 DEF IInv, Accounts
<1>4. PagesHear'
  <2>1. CASE screen' = screen
    BY <1>1, <2>1 DEF IInv, PagesHear
  <2>2. CASE screen' # screen
    <3>1. \A x \in Slots : call'[x].kind \in {"login", "verify"} => ~call'[x].here
      BY <1>1, <2>2 DEF IInv, PagesHear
    <3> QED
      BY <1>1, <2>2, <3>1 DEF IInv, PagesHear
  <2> QED
    BY <2>1, <2>2
<1>5. Numbers' /\ Sessions' /\ SignsIn'
  BY <1>1 DEF IInv, Numbers, Sessions, SignsIn
<1>6. ResetCodes' /\ SpentOnce' /\ NewestResetCodeWorks'
  BY <1>1 DEF IInv, ResetCodes, SpentOnce, NewestResetCodeWorks
<1>7. Mailed'
  BY <1>1, MailedKept
<1>8. Clicks'
  BY <1>1 DEF IInv, Clicks
<1>9. Rows'
  <2>1. \A x \in Slots : call[x].kind \in {"table", "toggle"} <=> call'[x].kind \in {"table", "toggle"}
    BY <1>1
  <2>2. \A x \in Slots : call[x].kind \in {"table", "toggle"} => call'[x] = call[x]
    BY <1>1
  <2> QED
    BY <1>1, <2>1, <2>2 DEF IInv, Rows
<1>10. LastAsked'
  <2>1. AskedHere' = AskedHere /\ \A x \in AskedHere : call'[x] = call[x]
    BY <1>1 DEF AskedHere, Of, Busy
  <2> QED
    BY <1>1, <2>1 DEF IInv, LastAsked
<1> QED
  BY <1>2, <1>3, <1>4, <1>5, <1>6, <1>7, <1>8, <1>9, <1>10 DEF IInv

\* The page of the code is shown, for an address without an account, too.
LEMMA FinishForgotKeeps ==
  ASSUME IInv, NEW s \in Slots, FinishForgot(s)
  PROVE  IInv'
<1>1. /\ call[s].kind = "forgot" /\ call[s].user \in Users
      /\ call' \in [Slots -> Calls] /\ \A x \in Slots \ {s} : call'[x] = call[x]
      /\ call'[s].kind = "idle" /\ screen' \in Screens
      /\ \/ screen' = screen
         \/ call[s].here /\ screen'.page = "code" /\ screen'.user \in Users /\ screen'.mfa = 0
      /\ UNCHANGED <<registered, blocked, mfa, resetCode, token, table, issued, asked, spent>>
      /\ UNCHANGED <<raced, meant, late, clicks, faults>>
  <2>1. call[s].kind = "forgot"
    BY DEF FinishForgot
  <2>2. /\ call' \in [Slots -> Calls] /\ call'[s].kind = "idle"
        /\ \A x \in Slots \ {s} : call'[x] = call[x]
    BY SlotOver DEF FinishForgot, IInv
  <2>3. UNCHANGED <<registered, blocked, mfa, resetCode, token, table, issued, asked, spent, raced, meant, late,
                    clicks, faults>>
    BY DEF FinishForgot, Gateway, Histories, Bounds
  <2>4. screen' = screen \/ (call[s].here /\ screen' = [Page("code") EXCEPT !.user = call[s].user])
    BY DEF FinishForgot, Hears
  <2>5. screen \in Screens
    BY DEF IInv, Typed
  <2>6. call[s].user \in Users
    BY <2>1, CallKinds DEF IInv, Typed, ForgotCalls
  <2>7. Page("code") \in Screens /\ Page("code").page = "code" /\ Page("code").mfa = 0
    BY PageIsScreen
  <2>8. LET p == [Page("code") EXCEPT !.user = call[s].user]
        IN  p \in Screens /\ p.page = "code" /\ p.user = call[s].user /\ p.mfa = 0
    BY <2>6, <2>7 DEF Screens
  <2> QED
    BY <2>1, <2>2, <2>3, <2>4, <2>5, <2>6, <2>8
<1>2. Typed'
  BY <1>1 DEF IInv, Typed
<1>3. Accounts'
  BY <1>1 DEF IInv, Accounts
<1>4. PagesHear'
  <2>1. CASE screen' = screen
    BY <1>1, <2>1 DEF IInv, PagesHear
  <2>2. CASE screen' # screen
    <3>1. \A x \in Slots : call'[x].kind \in {"login", "verify"} => ~call'[x].here
      BY <1>1, <2>2 DEF IInv, PagesHear
    <3> QED
      BY <1>1, <2>2, <3>1 DEF IInv, PagesHear
  <2> QED
    BY <2>1, <2>2
<1>5. SignsIn'
  BY <1>1 DEF IInv, SignsIn
<1>6. Numbers'
  <2>1. screen'.mfa \in {0, screen.mfa}
    BY <1>1
  <2>2. \A x \in Slots : call[x].kind = "login" => call[x].mfa # 0
    BY CallKinds DEF IInv, Typed, LoginCalls
  <2>3. 0 <= clicks
    BY DEF IInv, Typed
  <2> QED
    BY <1>1, <2>1, <2>2, <2>3 DEF IInv, Numbers
<1>7. Sessions'
  <2>1. \A m \in mfa : m.no # 0
    BY DEF IInv, Typed
  <2> QED
    BY <1>1, <2>1 DEF IInv, Sessions
<1>8. ResetCodes' /\ SpentOnce' /\ NewestResetCodeWorks'
  BY <1>1 DEF IInv, ResetCodes, SpentOnce, NewestResetCodeWorks
<1>9. Mailed'
  BY <1>1, MailedKept
<1>10. Clicks'
  BY <1>1 DEF IInv, Clicks
<1>11. Rows'
  <2>1. \A x \in Slots : call[x].kind \in {"table", "toggle"} <=> call'[x].kind \in {"table", "toggle"}
    BY <1>1
  <2>2. \A x \in Slots : call[x].kind \in {"table", "toggle"} => call'[x] = call[x]
    BY <1>1
  <2> QED
    BY <1>1, <2>1, <2>2 DEF IInv, Rows
<1>12. LastAsked'
  <2>1. AskedHere' = AskedHere /\ \A x \in AskedHere : call'[x] = call[x]
    BY <1>1 DEF AskedHere, Of, Busy
  <2> QED
    BY <1>1, <2>1 DEF IInv, LastAsked
<1> QED
  BY <1>2, <1>3, <1>4, <1>5, <1>6, <1>7, <1>8, <1>9, <1>10, <1>11, <1>12 DEF IInv

-----------------------------------------------------------------------------
(* What the administrator's table does with an answer.                       *)

\* The table is opened anew: nobody hears of what it asked for before.
LEMMA OpenTableKeeps ==
  ASSUME IInv, OpenTable
  PROVE  IInv'
<1>1. PICK s \in Slots \ Busy :
        call' = [x \in Slots |-> IF x = s THEN [kind |-> "table", stage |-> "sent", saw |-> {}]
                                 ELSE IF call[x].kind = "table" THEN Idle
                                 ELSE IF call[x].kind \in {"toggle", "details"}
                                      THEN [call[x] EXCEPT !.here = FALSE]
                                 ELSE call[x]]
  BY DEF OpenTable
<1>2. /\ call[s].kind = "idle"
      /\ call' \in [Slots -> Calls]
      /\ \A x \in Slots \ {s} :
           \/ call[x].kind = "table" /\ call'[x].kind = "idle"
           \/ /\ call[x].kind \in {"toggle", "details"} /\ call'[x].kind = call[x].kind
              /\ call'[x].user = call[x].user /\ call'[x].stage = call[x].stage /\ ~call'[x].here
              /\ call[x].kind = "toggle" => call'[x].saw = call[x].saw
           \/ call[x].kind \notin {"table", "toggle", "details"} /\ call'[x] = call[x]
      /\ call'[s].kind = "table" /\ call'[s].stage = "sent" /\ call'[s].saw = {}
      /\ table' \in Tables /\ ~table'.rows /\ table'.blocked = {} /\ ~table'.mixed
      /\ table'.details = Nobody /\ table'.asked = Nobody
      /\ table'.behind = {call[x].user : x \in {y \in Slots : call[y].kind = "toggle"}}
      /\ UNCHANGED <<registered, blocked, mfa, resetCode, token, screen, issued, asked, spent>>
      /\ UNCHANGED <<raced, meant, late, clicks, faults>>
  <2>1. call[s].kind = "idle" /\ call \in [Slots -> Calls]
    BY DEF Busy, IInv, Typed
  <2>2. Of("toggle") = {y \in Slots : call[y].kind = "toggle"}
    BY DEF Of, Busy
  <2>3. \A x \in Slots : call[x].kind = "toggle" => call[x].user \in Users
    BY CallKinds DEF IInv, Typed, ToggleCalls
  <2>4. table' = Unread({call[x].user : x \in Of("toggle")})
    BY DEF OpenTable
  <2>5. /\ table' \in Tables /\ ~table'.rows /\ table'.blocked = {} /\ ~table'.mixed
        /\ table'.details = Nobody /\ table'.asked = Nobody
        /\ table'.behind = {call[x].user : x \in {y \in Slots : call[y].kind = "toggle"}}
    BY <2>2, <2>3, <2>4 DEF Unread, Tables
  <2>6. ASSUME NEW x \in Slots, x # s
        PROVE  /\ call'[x] \in Calls
               /\ \/ call[x].kind = "table" /\ call'[x].kind = "idle"
                  \/ /\ call[x].kind \in {"toggle", "details"} /\ call'[x].kind = call[x].kind
                     /\ call'[x].user = call[x].user /\ call'[x].stage = call[x].stage /\ ~call'[x].here
                     /\ call[x].kind = "toggle" => call'[x].saw = call[x].saw
                  \/ call[x].kind \notin {"table", "toggle", "details"} /\ call'[x] = call[x]
    <3> DEFINE c == call[x]
    <3>1. c \in Calls
      BY <2>1
    <3>2. CASE c.kind = "table"
      <4>1. call'[x] = Idle
        BY <1>1, <2>6, <3>2
      <4> QED
        BY <3>2, <4>1 DEF Idle, Calls
    <3>3. CASE c.kind = "toggle"
      <4>1. call'[x] = [c EXCEPT !.here = FALSE] /\ c \in ToggleCalls
        BY <1>1, <2>6, <3>1, <3>3, CallKinds
      <4> QED
        BY <3>3, <4>1 DEF ToggleCalls, Calls
    <3>4. CASE c.kind = "details"
      <4>1. call'[x] = [c EXCEPT !.here = FALSE] /\ c \in DetailsCalls
        BY <1>1, <2>6, <3>1, <3>4, CallKinds
      <4> QED
        BY <3>4, <4>1 DEF DetailsCalls, Calls
    <3>5. CASE c.kind \notin {"table", "toggle", "details"}
      <4>1. call'[x] = c
        BY <1>1, <2>6, <3>5
      <4> QED
        BY <3>1, <3>5, <4>1
    <3> QED
      BY <3>2, <3>3, <3>4, <3>5
  <2>7. call'[s] = [kind |-> "table", stage |-> "sent", saw |-> {}]
    BY <1>1
  <2>8. call'[s] \in Calls
    BY <2>7 DEF Calls, TableCalls, Stages
  <2>9. call' \in [Slots -> Calls]
    BY <1>1, <2>6, <2>8
  <2>10. UNCHANGED <<registered, blocked, mfa, resetCode, token, screen, issued, asked, spent, raced, meant,
                    late, clicks, faults>>
    BY DEF OpenTable, Gateway, Browser, Histories, Bounds
  <2> QED
    BY <2>1, <2>5, <2>6, <2>7, <2>9, <2>10
<1>3. Typed'
  BY <1>2 DEF IInv, Typed
<1>4. Accounts'
  <2>1. \A x \in Slots : call[x].kind \in {"toggle", "details"} => call[x].user \in registered
    BY DEF IInv, Accounts
  <2>2. table'.behind \subseteq registered
    BY <1>2, <2>1
  <2>3. \A x \in Slots :
          /\ call'[x].kind \in {"toggle", "details"} => call'[x].user \in registered
          /\ call'[x].kind = "table" => call'[x].saw \subseteq registered
          /\ call'[x].kind \in {"login", "verify"} => call'[x] = call[x]
    BY <1>2, <2>1
  <2> QED
    BY <1>2, <2>2, <2>3 DEF IInv, Accounts
<1>5. PagesHear'
  <2>1. \A x \in Slots \ {s} : call[x].kind \notin {"table", "toggle", "details"} => call'[x] = call[x]
    BY <1>2
  <2>2. \A x \in Slots : call'[x].kind \notin {"idle", "table", "toggle", "details"} =>
          call'[x].kind = call[x].kind
    BY <1>2
  <2> QED
    BY <1>2, <2>1, <2>2 DEF IInv, PagesHear
<1>6. Numbers'
  <2>1. \A x \in Slots \ {s} : call[x].kind \notin {"table", "toggle", "details"} => call'[x] = call[x]
    BY <1>2
  <2>2. \A x \in Slots : call'[x].kind \notin {"idle", "table", "toggle", "details"} =>
          call'[x].kind = call[x].kind
    BY <1>2
  <2> QED
    BY <1>2, <2>1, <2>2 DEF IInv, Numbers
<1>7. Sessions'
  <2>1. \A x \in Slots \ {s} : call[x].kind \notin {"table", "toggle", "details"} => call'[x] = call[x]
    BY <1>2
  <2>2. \A x \in Slots : call'[x].kind \notin {"idle", "table", "toggle", "details"} =>
          call'[x].kind = call[x].kind
    BY <1>2
  <2> QED
    BY <1>2, <2>1, <2>2 DEF IInv, Sessions
<1>8. SignsIn'
  <2>1. \A x \in Slots \ {s} : call[x].kind \notin {"table", "toggle", "details"} => call'[x] = call[x]
    BY <1>2
  <2>2. \A x \in Slots : call'[x].kind \notin {"idle", "table", "toggle", "details"} =>
          call'[x].kind = call[x].kind
    BY <1>2
  <2> QED
    BY <1>2, <2>1, <2>2 DEF IInv, SignsIn
<1>9. SpentOnce' /\ NewestResetCodeWorks'
  BY <1>2 DEF IInv, SpentOnce, NewestResetCodeWorks
<1>10. ResetCodes'
  <2>1. \A x \in Slots \ {s} : call[x].kind \notin {"table", "toggle", "details"} => call'[x] = call[x]
    BY <1>2
  <2>2. \A x \in Slots : call'[x].kind \notin {"idle", "table", "toggle", "details"} =>
          call'[x].kind = call[x].kind
    BY <1>2
  <2> QED
    BY <1>2, <2>1, <2>2 DEF IInv, ResetCodes
<1>11. Mailed'
  BY <1>2, MailedKept
<1>12. Clicks'
  <2>1. \A x \in Slots : call'[x].kind = "toggle" => call'[x].user \in table'.behind
    BY <1>2
  <2>2. \A x \in Slots : call'[x].kind = "table" => x = s
    BY <1>2
  <2> QED
    BY <1>2, <2>1, <2>2 DEF Clicks
<1>13. Rows'
  <2>1. \A x \in Slots : call'[x].kind = "toggle" => call'[x].user \in table'.behind
    BY <1>2
  <2>2. \A x \in Slots : call'[x].kind = "table" => call'[x].stage = "sent"
    BY <1>2
  <2> QED
    BY <1>2, <2>1, <2>2 DEF Rows
<1>14. LastAsked'
  <2>1. \A x \in Slots : call'[x].kind = "details" => ~call'[x].here
    BY <1>2
  <2>2. AskedHere' = {}
    BY <2>1 DEF AskedHere, Of, Busy
  <2> QED
    BY <1>2, <2>2 DEF LastAsked
<1> QED
  BY <1>3, <1>4, <1>5, <1>6, <1>7, <1>8, <1>9, <1>10, <1>11, <1>12, <1>13, <1>14 DEF IInv

\* The table is shown, or a failure.
LEMMA FinishTableKeeps ==
  ASSUME IInv, NEW s \in Slots, FinishTable(s)
  PROVE  IInv'
<1>1. /\ call[s].kind = "table" /\ call[s].stage \in {"ok", "refused"}
      /\ call' \in [Slots -> Calls] /\ \A x \in Slots \ {s} : call'[x] = call[x]
      /\ call'[s].kind = "idle" /\ table' \in Tables
      /\ (table'.rows <=> call[s].stage = "ok") /\ table'.blocked = call[s].saw
      /\ table'.behind = table.behind /\ table'.details = table.details
      /\ table'.asked = table.asked /\ table'.mixed = table.mixed
      /\ UNCHANGED <<registered, blocked, mfa, resetCode, token, screen, issued, asked, spent>>
      /\ UNCHANGED <<raced, meant, late, clicks, faults>>
  <2>1. call[s].kind = "table" /\ call[s].stage \in {"ok", "refused"}
    BY DEF FinishTable, Answered
  <2>2. /\ call' \in [Slots -> Calls] /\ call'[s].kind = "idle"
        /\ \A x \in Slots \ {s} : call'[x] = call[x]
    BY SlotOver DEF FinishTable, IInv
  <2>3. call[s] \in TableCalls /\ table \in Tables
    BY <2>1, CallKinds DEF IInv, Typed
  <2>4. call[s].saw \in SUBSET Users
    BY <2>3 DEF TableCalls
  <2>5. PICK b : b = (call[s].stage = "ok")
    OBVIOUS
  <2>6. b \in BOOLEAN
    BY <2>5
  <2>7. table' = [table EXCEPT !.rows = b, !.blocked = call[s].saw]
    BY <2>5 DEF FinishTable
  <2>8. /\ table' \in Tables /\ table'.rows = b /\ table'.blocked = call[s].saw
        /\ table'.behind = table.behind /\ table'.details = table.details
        /\ table'.asked = table.asked /\ table'.mixed = table.mixed
    BY <2>3, <2>4, <2>6, <2>7 DEF Tables
  <2>9. UNCHANGED <<registered, blocked, mfa, resetCode, token, screen, issued, asked, spent, raced, meant,
                    late, clicks, faults>>
    BY DEF FinishTable, Gateway, Browser, Histories, Bounds
  <2> QED
    BY <2>1, <2>2, <2>5, <2>8, <2>9
<1>2. Typed'
  BY <1>1 DEF IInv, Typed
<1>3. Accounts' /\ PagesHear'
  BY <1>1 DEF IInv, Accounts, PagesHear
<1>4. Numbers' /\ Sessions' /\ SignsIn'
  BY <1>1 DEF IInv, Numbers, Sessions, SignsIn
<1>5. ResetCodes' /\ SpentOnce' /\ NewestResetCodeWorks'
  BY <1>1 DEF IInv, ResetCodes, SpentOnce, NewestResetCodeWorks
<1>6. Mailed'
  BY <1>1, MailedKept
<1>7. Clicks'
  <2>1. \A x \in Slots : call[x].kind = "table" => x = s
    BY <1>1 DEF IInv, Clicks
  <2>2. \A x \in Slots : call'[x].kind = "toggle" => call'[x] = call[x] /\ call[x].user \in table.behind
    BY <1>1 DEF IInv, Clicks
  <2> QED
    BY <1>1, <2>1, <2>2 DEF Clicks
<1>8. Rows'
  <2>1. \A x \in Slots : call[x].kind = "table" => x = s
    BY <1>1 DEF IInv, Clicks
  <2>2. \A x \in Slots : call'[x].kind = "toggle" => call'[x] = call[x] /\ call[x].user \in table.behind
    BY <1>1 DEF IInv, Clicks
  <2>3. table'.rows => \A u \in registered \ table.behind : u \in table'.blocked <=> u \in blocked
    BY <1>1 DEF IInv, Rows
  <2> QED
    BY <1>1, <2>1, <2>2, <2>3 DEF Rows
<1>9. LastAsked'
  <2>1. AskedHere' = AskedHere /\ \A x \in AskedHere : call'[x] = call[x]
    BY <1>1 DEF AskedHere, Of, Busy
  <2> QED
    BY <1>1, <2>1 DEF IInv, LastAsked
<1> QED
  BY <1>2, <1>3, <1>4, <1>5, <1>6, <1>7, <1>8, <1>9 DEF IInv

\* The page flips its row.
LEMMA FinishToggleKeeps ==
  ASSUME IInv, NEW s \in Slots, FinishToggle(s)
  PROVE  IInv'
<1>1. /\ call[s].kind = "toggle" /\ call[s].stage \in {"ok", "refused"} /\ call[s].user \in registered
      /\ call' \in [Slots -> Calls] /\ \A x \in Slots \ {s} : call'[x] = call[x]
      /\ call'[s].kind = "idle" /\ table' \in Tables /\ table'.rows = table.rows
      /\ table'.blocked = IF call[s].here /\ call[s].stage = "ok" THEN Flipped(table.blocked, call[s].user)
                           ELSE table.blocked
      /\ table'.behind = table.behind /\ table'.details = table.details
      /\ table'.asked = table.asked /\ table'.mixed = table.mixed
      /\ UNCHANGED <<registered, blocked, mfa, resetCode, token, screen, issued, asked, spent>>
      /\ UNCHANGED <<raced, meant, late, clicks, faults>>
  <2>1. call[s].kind = "toggle" /\ call[s].stage \in {"ok", "refused"}
    BY DEF FinishToggle, Answered
  <2>2. /\ call' \in [Slots -> Calls] /\ call'[s].kind = "idle"
        /\ \A x \in Slots \ {s} : call'[x] = call[x]
    BY SlotOver DEF FinishToggle, IInv
  <2>3. call[s].user \in registered /\ call[s].user \in Users /\ table \in Tables
    BY <2>1 DEF IInv, Typed, Accounts
  <2>4. PICK b : b = IF call[s].here /\ call[s].stage = "ok" THEN Flipped(table.blocked, call[s].user)
                     ELSE table.blocked
    OBVIOUS
  <2>5. b \in SUBSET Users
    BY <2>3, <2>4 DEF Flipped, Tables
  <2>6. table' = [table EXCEPT !.blocked = b]
    <3>1. CASE call[s].here /\ call[s].stage = "ok"
      BY <2>4, <3>1 DEF FinishToggle, AfterToggle, Hears
    <3>2. CASE ~(call[s].here /\ call[s].stage = "ok")
      BY <2>3, <2>4, <3>2 DEF FinishToggle, AfterToggle, Hears, Tables
    <3> QED
      BY <3>1, <3>2
  <2>7. /\ table' \in Tables /\ table'.rows = table.rows /\ table'.blocked = b
        /\ table'.behind = table.behind /\ table'.details = table.details
        /\ table'.asked = table.asked /\ table'.mixed = table.mixed
    BY <2>3, <2>5, <2>6 DEF Tables
  <2>8. UNCHANGED <<registered, blocked, mfa, resetCode, token, screen, issued, asked, spent, raced, meant,
                    late, clicks, faults>>
    BY DEF FinishToggle, Gateway, Browser, Histories, Bounds
  <2> QED
    BY <2>1, <2>2, <2>3, <2>4, <2>7, <2>8
<1>2. Typed'
  BY <1>1 DEF IInv, Typed
<1>3. PagesHear'
  BY <1>1 DEF IInv, PagesHear
<1>4. Accounts'
  <2>1. table'.blocked \subseteq registered
    BY <1>1 DEF IInv, Accounts, Flipped
  <2> QED
    BY <1>1, <2>1 DEF IInv, Accounts
<1>5. Numbers' /\ Sessions' /\ SignsIn'
  BY <1>1 DEF IInv, Numbers, Sessions, SignsIn
<1>6. ResetCodes' /\ SpentOnce' /\ NewestResetCodeWorks'
  BY <1>1 DEF IInv, ResetCodes, SpentOnce, NewestResetCodeWorks
<1>7. Mailed'
  BY <1>1, MailedKept
<1>8. Clicks'
  BY <1>1 DEF IInv, Clicks
<1>9. Rows'
  <2> DEFINE w == call[s].user
  <2>1. /\ w \notin table.behind => call[s].here
        /\ w \notin table.behind => \A x \in Slots \ {s} : call[x].kind = "toggle" => call[x].user # w
    BY <1>1 DEF IInv, Clicks
  <2>2. /\ \A x \in Slots \ {s} : call'[x] = call[x]
        /\ call'[s].kind = "idle" /\ call[s].kind = "toggle"
        /\ UNCHANGED <<registered,
                       blocked>> /\ table'.behind = table.behind /\ table'.rows = table.rows
    BY <1>1
  <2>3. ASSUME table.rows, NEW u \in registered \ table.behind
        PROVE  (u \in table'.blocked <=> u \in blocked) <=>
                 ~\E x \in Slots : call'[x].kind = "toggle" /\ call'[x].user = u /\ call'[x].stage = "ok"
    <3>1. (u \in table.blocked <=> u \in blocked) <=>
            ~\E x \in Slots : call[x].kind = "toggle" /\ call[x].user = u /\ call[x].stage = "ok"
      BY <2>3 DEF IInv, Rows
    <3>2. CASE u # w
      <4>1. u \in table'.blocked <=> u \in table.blocked
        BY <1>1, <3>2 DEF Flipped
      <4> QED
        BY <2>2, <3>1, <3>2, <4>1
    <3>3. CASE u = w /\ call[s].stage = "ok"
      <4>1. u \in table'.blocked <=> u \notin table.blocked
        BY <1>1, <2>1, <3>3 DEF Flipped
      <4> QED
        BY <2>1, <2>2, <3>1, <3>3, <4>1
    <3>4. CASE u = w /\ call[s].stage # "ok"
      <4>1. table'.blocked = table.blocked
        BY <1>1, <3>4
      <4> QED
        BY <2>1, <2>2, <3>1, <3>4, <4>1
    <3> QED
      BY <1>1, <3>2, <3>3, <3>4
  <2> QED
    BY <2>2, <2>3 DEF IInv, Rows
<1>10. LastAsked'
  <2>1. AskedHere' = AskedHere /\ \A x \in AskedHere : call'[x] = call[x]
    BY <1>1 DEF AskedHere, Of, Busy
  <2> QED
    BY <1>1, <2>1 DEF IInv, LastAsked
<1> QED
  BY <1>2, <1>3, <1>4, <1>5, <1>6, <1>7, <1>8, <1>9, <1>10 DEF IInv

\* The details answered replace those shown.
LEMMA FinishDetailsKeeps ==
  ASSUME IInv, NEW s \in Slots, FinishDetails(s)
  PROVE  IInv'
<1>1. /\ call[s].kind = "details" /\ call[s].stage \in {"ok", "refused"} /\ call[s].user \in registered
      /\ call' \in [Slots -> Calls] /\ \A x \in Slots \ {s} : call'[x] = call[x]
      /\ call'[s].kind = "idle" /\ table' \in Tables /\ table'.rows = table.rows
      /\ table'.blocked = table.blocked /\ table'.behind = table.behind
      /\ table'.details = IF call[s].here /\ call[s].stage = "ok" THEN call[s].user ELSE table.details
      /\ table'.asked = table.asked /\ table'.mixed = table.mixed
      /\ UNCHANGED <<registered, blocked, mfa, resetCode, token, screen, issued, asked, spent>>
      /\ UNCHANGED <<raced, meant, late, clicks, faults>>
  <2>1. call[s].kind = "details" /\ call[s].stage \in {"ok", "refused"}
    BY DEF FinishDetails, Answered
  <2>2. /\ call' \in [Slots -> Calls] /\ call'[s].kind = "idle"
        /\ \A x \in Slots \ {s} : call'[x] = call[x]
    BY SlotOver DEF FinishDetails, IInv
  <2>3. call[s].user \in registered /\ call[s].user \in Users /\ table \in Tables
    BY <2>1 DEF IInv, Typed, Accounts
  <2>4. PICK b : b = IF call[s].here /\ call[s].stage = "ok" THEN call[s].user ELSE table.details
    OBVIOUS
  <2>5. b \in Users \union {Nobody}
    BY <2>3, <2>4 DEF Tables
  <2>6. table' = [table EXCEPT !.details = b]
    <3>1. CASE call[s].here /\ call[s].stage = "ok"
      BY <2>4, <3>1 DEF FinishDetails, DetailsAfter, Hears
    <3>2. CASE ~(call[s].here /\ call[s].stage = "ok")
      BY <2>3, <2>4, <3>2 DEF FinishDetails, Hears, Tables
    <3> QED
      BY <3>1, <3>2
  <2>7. /\ table' \in Tables /\ table'.rows = table.rows /\ table'.details = b
        /\ table'.behind = table.behind /\ table'.blocked = table.blocked
        /\ table'.asked = table.asked /\ table'.mixed = table.mixed
    BY <2>3, <2>5, <2>6 DEF Tables
  <2>8. UNCHANGED <<registered, blocked, mfa, resetCode, token, screen, issued, asked, spent, raced, meant,
                    late, clicks, faults>>
    BY DEF FinishDetails, Gateway, Browser, Histories, Bounds
  <2> QED
    BY <2>1, <2>2, <2>3, <2>4, <2>7, <2>8
<1>2. Typed'
  BY <1>1 DEF IInv, Typed
<1>3. Accounts' /\ PagesHear'
  BY <1>1 DEF IInv, Accounts, PagesHear
<1>4. Numbers' /\ Sessions' /\ SignsIn'
  BY <1>1 DEF IInv, Numbers, Sessions, SignsIn
<1>5. ResetCodes' /\ SpentOnce' /\ NewestResetCodeWorks'
  BY <1>1 DEF IInv, ResetCodes, SpentOnce, NewestResetCodeWorks
<1>6. Mailed'
  BY <1>1, MailedKept
<1>7. Clicks'
  BY <1>1 DEF IInv, Clicks
<1>8. Rows'
  <2>1. \A x \in Slots : call[x].kind \in {"table", "toggle"} <=> call'[x].kind \in {"table", "toggle"}
    BY <1>1
  <2>2. \A x \in Slots : call[x].kind \in {"table", "toggle"} => call'[x] = call[x]
    BY <1>1
  <2> QED
    BY <1>1, <2>1, <2>2 DEF IInv, Rows
<1>9. LastAsked'
  <2>1. AskedHere' = AskedHere \ {s} /\ \A x \in AskedHere \ {s} : call'[x] = call[x]
    BY <1>1 DEF AskedHere, Of, Busy
  <2>2. s \in AskedHere <=> call[s].here
    BY <1>1 DEF AskedHere, Of, Busy
  <2>3. CASE s \in AskedHere /\ ~table.mixed
    <3>1. AskedHere' = {} /\ call[s].user = table.asked /\ call[s].stage = "ok"
      BY <1>1, <2>1, <2>3 DEF IInv, LastAsked
    <3> QED
      BY <1>1, <2>2, <2>3, <3>1 DEF LastAsked
  <2>4. CASE s \notin AskedHere \/ table.mixed
    BY <1>1, <2>1, <2>2, <2>4 DEF IInv, LastAsked
  <2> QED
    BY <2>3, <2>4
<1> QED
  BY <1>2, <1>3, <1>4, <1>5, <1>6, <1>7, <1>8, <1>9 DEF IInv

-----------------------------------------------------------------------------
(* The theorems.                                                             *)

\* It holds at first.
LEMMA InitIInv == Init => IInv
<1> SUFFICES ASSUME Init
             PROVE  IInv
  OBVIOUS
<1>1. /\ registered = Registered /\ blocked = {} /\ mfa = {}
      /\ \A s \in Slots : call[s].kind = "idle"
      /\ spent = {} /\ raced = {} /\ late = FALSE /\ meant = {token} \ {Nobody}
      /\ \A u \in Users : asked[u] = 0 /\ resetCode[u] = 0
      /\ \A n \in 1 .. MaxClicks : issued[n] = 0
      /\ screen.page = "home" /\ screen.mfa = 0 /\ clicks = 0 /\ faults = 0
      /\ ~table.rows /\ table.blocked = {} /\ table.behind = {}
      /\ table.details = Nobody /\ table.asked = Nobody
      /\ token \in Registered \union {Nobody}
  BY DEF Init, Idle, Page, Unread
<1>2. Typed
  <2>1. screen \in Screens
    BY PageIsScreen DEF Init
  <2>2. table \in Tables
    BY DEF Init, Unread, Tables
  <2>3. call \in [Slots -> Calls]
    BY DEF Init, Calls
  <2>4. /\ resetCode \in [Users -> Nat] /\ asked \in [Users -> Nat] /\ issued \in [1 .. MaxClicks -> Nat]
    BY DEF Init
  <2>5. /\ registered \subseteq Users /\ blocked \subseteq Users /\ meant \subseteq Users
        /\ token \in Users \union {Nobody}
    BY <1>1, SignInAssumption DEF SignInAssumption
  <2>6. clicks \in 0 .. MaxClicks /\ faults \in 0 .. MaxFaults
    BY <1>1, SignInAssumption DEF SignInAssumption
  <2> QED
    BY <1>1, <2>1, <2>2, <2>3, <2>4, <2>5, <2>6 DEF Typed
<1>3. Accounts
  BY <1>1 DEF Accounts
<1>4. PagesHear /\ Sessions /\ SignsIn
  BY <1>1 DEF PagesHear, Sessions, SignsIn
<1>5. Numbers /\ ResetCodes /\ SpentOnce /\ NewestResetCodeWorks
  BY <1>1 DEF Numbers, ResetCodes, SpentOnce, NewestResetCodeWorks
<1>6. Mailed
  <2> SUFFICES ASSUME NEW u \in Users
               PROVE  IsFiniteSet(Asking(u)) /\ asked[u] + Cardinality(Asking(u)) <= clicks
    BY DEF Mailed
  <2>1. Asking(u) = {}
    BY <1>1 DEF Asking
  <2> QED
    BY <1>1, <2>1, FS_EmptySet
<1>7. Clicks /\ Rows
  BY <1>1 DEF Clicks, Rows
<1>8. LastAsked
  <2>1. AskedHere = {}
    BY <1>1 DEF AskedHere, Of, Busy
  <2> QED
    BY <1>1, <2>1 DEF LastAsked
<1> QED
  BY <1>2, <1>3, <1>4, <1>5, <1>6, <1>7, <1>8 DEF IInv

\* Every step keeps it.
LEMMA NextIInv == IInv /\ [Next]_vars => IInv'
<1> SUFFICES ASSUME IInv, [Next]_vars
             PROVE  IInv'
  OBVIOUS
<1>1. CASE (\E name \in {"home", "login", "register", "forgot"} : Go(name)) \/ RequireLogin
  BY <1>1, GoKeeps
<1>2. CASE CloseDetails
  BY <1>2, CloseDetailsKeeps
<1>3. CASE Logout
  BY <1>3, LogoutKeeps
<1>4. CASE VerifyOtp
  BY <1>4, VerifyOtpKeeps
<1>5. CASE ContinueToReset
  BY <1>5, ContinueToResetKeeps
<1>6. CASE ResetPassword
  BY <1>6, ResetPasswordKeeps
<1>7. CASE CodeExpires
  BY <1>7, CodeExpiresKeeps
<1>8. CASE OpenTable
  BY <1>8, OpenTableKeeps
<1>9. CASE \E u \in Users : Register(u)
  BY <1>9, RegisterKeeps
<1>10. CASE \E u \in Users : LogIn(u)
  BY <1>10, LogInKeeps
<1>11. CASE \E u \in Users : SendCode(u)
  BY <1>11, SendCodeKeeps
<1>12. CASE \E u \in Users : Toggle(u)
  BY <1>12, ToggleKeeps
<1>13. CASE \E u \in Users : ToggleElsewhere(u)
  BY <1>13, ToggleElsewhereKeeps
<1>14. CASE \E u \in Users : Details(u)
  BY <1>14, DetailsKeeps
<1>15. CASE \E s \in Slots : CreateUser(s)
  BY <1>15, CreateUserKeeps
<1>16. CASE \E s \in Slots : CheckLogin(s)
  BY <1>16, CheckLoginKeeps
<1>17. CASE \E s \in Slots : IssueToken(s)
  BY <1>17, IssueTokenKeeps
<1>18. CASE \E s \in Slots : MailCode(s)
  BY <1>18, MailCodeKeeps
<1>19. CASE \E s \in Slots : CheckReset(s)
  BY <1>19, CheckResetKeeps
<1>20. CASE \E s \in Slots : CommitReset(s)
  BY <1>20, CommitResetKeeps
<1>21. CASE \E s \in Slots : ReadToggle(s)
  BY <1>21, ReadToggleKeeps
<1>22. CASE \E s \in Slots : CommitToggle(s)
  BY <1>22, CommitToggleKeeps
<1>23. CASE \E s \in Slots : ReadTable(s)
  BY <1>23, ReadTableKeeps
<1>24. CASE \E s \in Slots : ReadDetails(s)
  BY <1>24, ReadDetailsKeeps
<1>25. CASE \E s \in Slots : Fails(s)
  BY <1>25, FailsKeeps
<1>26. CASE \E s \in Slots : FinishRegister(s)
  BY <1>26, FinishRegisterKeeps
<1>27. CASE \E s \in Slots : FinishLogin(s)
  BY <1>27, FinishLoginKeeps
<1>28. CASE \E s \in Slots : StoreToken(s)
  BY <1>28, StoreTokenKeeps
<1>29. CASE \E s \in Slots : GoHome(s)
  BY <1>29, GoHomeKeeps
<1>30. CASE \E s \in Slots : VerifyFailed(s)
  BY <1>30, VerifyFailedKeeps
<1>31. CASE \E s \in Slots : FinishForgot(s)
  BY <1>31, FinishForgotKeeps
<1>32. CASE \E s \in Slots : FinishReset(s)
  BY <1>32, FinishResetKeeps
<1>33. CASE \E s \in Slots : FinishTable(s)
  BY <1>33, FinishTableKeeps
<1>34. CASE \E s \in Slots : FinishToggle(s)
  BY <1>34, FinishToggleKeeps
<1>35. CASE \E s \in Slots : FinishDetails(s)
  BY <1>35, FinishDetailsKeeps
<1>36. CASE UNCHANGED vars
  <2>1. /\ UNCHANGED <<registered, blocked, mfa, resetCode, token, screen, table, call>>
        /\ UNCHANGED <<issued, asked, spent, raced, meant, late, clicks, faults>>
    BY <1>36 DEF vars, Gateway, Browser, Histories, Bounds
  <2>2. AskedHere' = AskedHere /\ \A u \in Users : Asking(u)' = Asking(u)
    BY <2>1 DEF AskedHere, Of, Busy, Asking
  <2>3. Typed' /\ Accounts' /\ PagesHear' /\ Numbers' /\ Sessions'
    BY <2>1 DEF IInv, Typed, Accounts, PagesHear, Numbers, Sessions
  <2>4. SignsIn' /\ ResetCodes' /\ Clicks' /\ Rows'
    BY <2>1 DEF IInv, SignsIn, ResetCodes, Clicks, Rows
  <2>5. Mailed' /\ LastAsked' /\ SpentOnce' /\ NewestResetCodeWorks'
    BY <2>1, <2>2 DEF IInv, Mailed, LastAsked, SpentOnce, NewestResetCodeWorks
  <2> QED
    BY <2>3, <2>4, <2>5 DEF IInv
<1> QED
  BY <1>1, <1>2, <1>3, <1>4, <1>5, <1>6, <1>7, <1>8, <1>9, <1>10, <1>11, <1>12, <1>13, <1>14,
     <1>15, <1>16, <1>17, <1>18, <1>19, <1>20, <1>21, <1>22, <1>23, <1>24, <1>25, <1>26, <1>27,
     <1>28, <1>29, <1>30, <1>31, <1>32, <1>33, <1>34, <1>35, <1>36 DEF Next

\* Every state the accounts reach keeps the inductive invariant.
THEOREM Invariance == Spec => []IInv
BY InitIInv, NextIInv, PTL DEF Spec

\* Every variable keeps its type: no code is valid that was not sent, and only
\* a login page waits for one.
THEOREM SignInTypes == Spec => []TypeOK
<1>1. IInv => TypeOK
  <2> SUFFICES ASSUME IInv
               PROVE  TypeOK
    OBVIOUS
  <2>1. mfa \subseteq [no: 1 .. MaxClicks, user: registered]
    BY DEF IInv, Typed, Accounts
  <2>2. \A u \in Users : resetCode[u] \in 0 .. asked[u]
    BY DEF IInv, Typed, ResetCodes
  <2>3. screen.mfa \in 0 .. MaxClicks /\ screen.code \in 0 .. MaxClicks
    BY DEF IInv, Typed, Screens
  <2>4. \A s \in Slots : call[s].kind \in {"idle", "register", "login", "verify", "forgot", "reset", "table",
                                          "toggle", "details"}
    BY CallKinds DEF IInv, Typed
  <2>5. /\ registered \subseteq Users /\ blocked \subseteq registered
        /\ token \in registered \union {Nobody} /\ meant \subseteq registered
        /\ raced \subseteq Users /\ clicks \in 0 .. MaxClicks /\ faults \in 0 .. MaxFaults
    BY DEF IInv, Typed, Accounts
  <2>6. /\ screen.mfa # 0 => screen.page = "login"
        /\ table.blocked \subseteq registered /\ table.behind \subseteq registered
        /\ {table.details, table.asked} \subseteq registered \union {Nobody}
    BY DEF IInv, Accounts, PagesHear
  <2> QED
    BY <2>1, <2>2, <2>3, <2>4, <2>5, <2>6 DEF TypeOK
<1> QED
  BY <1>1, Invariance, PTL

\* A verification code opens one session and a reset code sets one password,
\* however calls are repeated, lost or late, unless two resets with it overlapped
\* (verify_otp; reset_password).
THEOREM CodesAreUsedOnce == Spec => []CodesWorkOnce
<1>1. IInv => CodesWorkOnce
  BY DEF IInv, Typed, Numbers, SpentOnce, CodesWorkOnce
<1> QED
  BY <1>1, Invariance, PTL

\* The reset code that was mailed last can be used until it has been, unless it
\* was asked for amid a reset with the former (forgot_password, reset_password).
THEOREM NewestCodeStaysValid == Spec => []NewestResetCodeWorks
<1>1. IInv => NewestResetCodeWorks
  BY DEF IInv
<1> QED
  BY <1>1, Invariance, PTL

\* The table of users shows who is blocked, the page flipping the row by itself,
\* unless another administrator wrote the row, two clicks on it overlapped or an
\* answer was lost (handleBlockToggle).
THEOREM BlockShownIsCurrent == Spec => []BlockShownIsTrue
<1>1. IInv => BlockShownIsTrue
  BY DEF IInv, Rows, BlockShownIsTrue, Of, Busy
<1> QED
  BY <1>1, Invariance, PTL

\* The details shown are those of the last click, unless answers were mixed
\* (loadUserDetails).
THEOREM DetailsFollowClicks == Spec => []DetailsAreOfLastClicked
<1>1. IInv => DetailsAreOfLastClicked
  BY DEF IInv, LastAsked, DetailsAreOfLastClicked
<1> QED
  BY <1>1, Invariance, PTL

\* Whoever is signed in is meant to be, unless a verification outlived the page
\* or another one (handleVerifyOtp).
THEOREM TokenIsMeant == Spec => []SignedInAsMeant
<1>1. IInv => SignedInAsMeant
  BY DEF IInv, SignsIn, SignedInAsMeant
<1> QED
  BY <1>1, Invariance, PTL

=============================================================================
