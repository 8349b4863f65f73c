------------------------------- MODULE WebSignIn -------------------------------
(* Accounts: a browser in which people register, sign in with a code, reset   *)
(* passwords and sign out, another with the administrator's table of users,   *)
(* and the gateway's handlers. A call outlives its page: its answer stores a  *)
(* token, or opens another page, wherever the browser is by then.             *)
EXTENDS Integers, FiniteSets

CONSTANTS
  Users,
  Registered,   \* the users who have an account to begin with
  Nobody,       \* no user
  Slots,        \* as many calls may be under way at a time (bound)
  MaxClicks,    \* bound on the calls people make, registering apart
  MaxFaults     \* bound on calls that fail or whose answer is lost

ASSUME SignInAssumption ==
  /\ Registered \subseteq Users /\ Nobody \notin Users
  /\ MaxClicks \in Nat /\ MaxFaults \in Nat

VARIABLES
  registered, blocked,  \* the gateway's users
  mfa,         \* the gateway's verification codes: number and user
  resetCode,   \* the gateway's reset code of each user, 0 if none
  token,       \* whose token the browser holds
  screen,      \* the browser's page
  table,       \* the administrator's table
  call,        \* the calls under way
  issued,      \* history: tokens issued for each verification code
  asked,       \* history: reset codes sent to each user
  spent,       \* history: reset codes that have set a password
  raced,       \* history: users with a reset amid another, or a new code amid a reset
  meant,       \* history: who may be signed in: the one before, and whose code was typed
  late,        \* history: a verification was under way as another began, or at a logout
  clicks, faults

Gateway == <<registered, blocked, mfa, resetCode>>
Browser == <<token, screen>>
Histories == <<issued, asked, spent, raced, meant, late>>
Bounds == <<clicks, faults>>
vars == <<Gateway, Browser, table, call, Histories, Bounds>>

Idle == [kind |-> "idle"]
Busy == {s \in Slots : call[s].kind # "idle"}
Of(kind) == {s \in Busy : call[s].kind = kind}
At(s, kind, stage) == call[s].kind = kind /\ call[s].stage = stage
Answer(s, stage) == [call EXCEPT ![s].stage = stage]
Over(s) == [call EXCEPT ![s] = Idle]
Answered(s, kind) == call[s].kind = kind /\ call[s].stage \in {"ok", "refused"}

Page(name) == [page |-> name, busy |-> FALSE, mfa |-> 0, user |-> Nobody, code |-> 0]

\* "asked" and "mixed" are history: whose details were asked for last, and whether
\* one more click, or a failure, came before an answer.
Unread(toggled) == [rows |-> FALSE, blocked |-> {}, behind |-> toggled,
                    details |-> Nobody, asked |-> Nobody, mixed |-> FALSE]

Init ==
  /\ registered = Registered /\ blocked = {}
  /\ mfa = {} /\ resetCode = [u \in Users |-> 0]
  /\ token \in Registered \union {Nobody} /\ screen = Page("home")
  /\ table = Unread({})
  /\ call = [s \in Slots |-> Idle]
  /\ issued = [n \in 1 .. MaxClicks |-> 0] /\ asked = [u \in Users |-> 0]
  /\ spent = {} /\ raced = {} /\ meant = {token} \ {Nobody} /\ late = FALSE
  /\ clicks = 0 /\ faults = 0

------------------------------------------------------------------------------
(* The browser of the customers                                               *)

\* A call is sent; "here" as long as its page is shown.
Send(s, c) ==
  /\ s \in Slots \ Busy /\ clicks < MaxClicks
  /\ clicks' = clicks + 1
  /\ call' = [call EXCEPT ![s] = c]

Left == [s \in Slots |-> IF call[s].kind \in {"idle", "table", "toggle", "details"} THEN call[s]
                         ELSE [call[s] EXCEPT !.here = FALSE]]

\* Links; every page of the shop is "home".
Go(name) ==
  /\ screen.page # name
  /\ screen' = Page(name) /\ call' = Left
  /\ UNCHANGED <<Gateway, token, table, Histories, Bounds>>

\* The administrator's pages send a visitor to the login when their own read is
\* refused, or fails.
RequireLogin ==
  /\ screen.page = "home"
  /\ screen' = Page("login") /\ call' = Left
  /\ UNCHANGED <<Gateway, token, table, Histories, Bounds>>

\* The form may be submitted twice; the bound is that those with an account let it be.
Register(u) ==
  /\ screen.page = "register" /\ u \notin registered
  /\ \E s \in Slots \ Busy : call' = [call EXCEPT ![s] = [kind |-> "register", user |-> u, stage |-> "sent", here |-> TRUE]]
  /\ UNCHANGED <<Gateway, Browser, table, Histories, Bounds>>

\* Only the buttons of the login page wait for their answers.
LogIn(u) ==
  /\ screen.page = "login" /\ screen.mfa = 0 /\ ~screen.busy
  /\ \E s \in Slots : Send(s, [kind |-> "login", user |-> u, stage |-> "sent", here |-> TRUE, mfa |-> clicks + 1])
  /\ screen' = [screen EXCEPT !.busy = TRUE]
  /\ UNCHANGED <<Gateway, token, table, Histories, faults>>

\* "Verify OTP" with the number the login was answered.
VerifyOtp ==
  /\ screen.page = "login" /\ screen.mfa # 0 /\ ~screen.busy
  /\ \E s \in Slots : Send(s, [kind |-> "verify", user |-> Nobody, stage |-> "sent", here |-> TRUE, mfa |-> screen.mfa])
  /\ screen' = [screen EXCEPT !.busy = TRUE]
  /\ meant' = {token, screen.user} \ {Nobody} /\ late' = (late \/ Of("verify") # {})
  /\ UNCHANGED <<Gateway, token, table, issued, asked, spent, raced, faults>>

SendCode(u) ==
  /\ screen.page = "forgot"
  /\ \E s \in Slots : Send(s, [kind |-> "forgot", user |-> u, stage |-> "sent", here |-> TRUE])
  /\ UNCHANGED <<Gateway, Browser, table, Histories, faults>>

\* Any code that was mailed may be typed.
ContinueToReset ==
  /\ screen.page = "code"
  /\ \E n \in 1 .. asked[screen.user] :
       screen' = [Page("reset") EXCEPT !.user = screen.user, !.code = n]
  /\ call' = Left
  /\ UNCHANGED <<Gateway, token, table, Histories, Bounds>>

ResetPassword ==
  /\ screen.page = "reset"
  /\ \E s \in Slots : Send(s, [kind |-> "reset", user |-> screen.user, code |-> screen.code, no |-> clicks + 1,
                            stage |-> "sent", here |-> TRUE])
  /\ UNCHANGED <<Gateway, Browser, table, Histories, faults>>

\* Of the dashboard and of the administrator's pages.
Logout ==
  /\ screen.page = "home" /\ token # Nobody
  /\ token' = Nobody
  /\ screen' = Page("login") /\ call' = Left
  /\ meant' = {} /\ late' = (late \/ Of("verify") # {})
  /\ UNCHANGED <<Gateway, table, issued, asked, spent, raced, Bounds>>

------------------------------------------------------------------------------
(* The gateway                                                                *)

\* register: the e-mail is unique.
CreateUser(s) ==
  LET u == call[s].user IN
  /\ At(s, "register", "sent")
  /\ registered' = registered \union {u}
  /\ call' = Answer(s, IF u \in registered THEN "refused" ELSE "ok")
  /\ UNCHANGED <<blocked, mfa, resetCode, Browser, table, Histories, Bounds>>

\* login: a verification code for an account that is not blocked.
CheckLogin(s) ==
  LET u == call[s].user IN
  /\ At(s, "login", "sent")
  /\ IF u \in registered \ blocked
     THEN /\ mfa' = mfa \union {[no |-> call[s].mfa, user |-> u]}
          /\ call' = Answer(s, "ok")
     ELSE /\ call' = Answer(s, "refused")
          /\ UNCHANGED mfa
  /\ UNCHANGED <<registered, blocked, resetCode, Browser, table, Histories, Bounds>>

\* Fault: the code is looked for among all the sessions.
SessionsAny(n) == mfa
\* The session that the page names.
SessionsOf(n) == {m \in mfa : m.no = n}

\* Fault: the session of a code is not removed when it is used.
RemainingAll(m) == mfa
\* A code is used once.
Remaining(m) == mfa \ {m}

\* verify_otp reads, checks and removes without giving way to another request.
IssueToken(s) ==
  LET n == call[s].mfa IN
  /\ At(s, "verify", "sent")
  /\ IF SessionsOf(n) # {}
     THEN \E m \in SessionsOf(n) :
            /\ mfa' = Remaining(m)
            /\ issued' = [issued EXCEPT ![n] = @ + 1]
            /\ call' = [call EXCEPT ![s].stage = "ok", ![s].user = m.user]
     ELSE /\ call' = Answer(s, "refused")
          /\ UNCHANGED <<mfa, issued>>
  /\ UNCHANGED <<registered, blocked, resetCode, Browser, table, asked, spent, raced, meant, late, Bounds>>

\* Ten minutes.
CodeExpires ==
  /\ \E m \in mfa : mfa' = mfa \ {m}
  /\ UNCHANGED <<registered, blocked, resetCode, Browser, table, call, Histories, Bounds>>

ResetsOf(u) == {s \in Of("reset") : call[s].user = u /\ call[s].stage = "checked"}

\* Fault: a code that was sent before stays the valid one.
NewCodeKept(u) == IF resetCode[u] = 0 THEN asked[u] + 1 ELSE resetCode[u]
\* A new code replaces the former.
NewCode(u) == asked[u] + 1

\* forgot_password.
MailCode(s) ==
  LET u == call[s].user IN
  /\ At(s, "forgot", "sent") /\ u \in registered
  /\ resetCode' = [resetCode EXCEPT ![u] = NewCode(u)]
  /\ asked' = [asked EXCEPT ![u] = @ + 1]
  /\ raced' = IF ResetsOf(u) # {} THEN raced \union {u} ELSE raced
  /\ call' = Answer(s, "ok")
  /\ UNCHANGED <<registered, blocked, mfa, Browser, table, issued, spent, meant, late, Bounds>>

\* reset_password compares the code ...
CheckReset(s) ==
  LET u == call[s].user IN
  /\ At(s, "reset", "sent")
  /\ call' = Answer(s, IF resetCode[u] = call[s].code THEN "checked" ELSE "refused")
  /\ raced' = IF ResetsOf(u) # {} THEN raced \union {u} ELSE raced
  /\ UNCHANGED <<Gateway, Browser, table, issued, asked, spent, meant, late, Bounds>>

\* ... commits the password, and forgets whichever code is there by then.
CommitReset(s) ==
  LET u == call[s].user IN
  /\ At(s, "reset", "checked")
  /\ spent' = spent \union {[user |-> u, code |-> call[s].code, by |-> call[s].no]}
  /\ resetCode' = [resetCode EXCEPT ![u] = 0]
  /\ call' = Answer(s, "ok")
  /\ UNCHANGED <<registered, blocked, mfa, Browser, table, issued, asked, raced, meant, late, Bounds>>

\* admin_toggle_block reads the row and later commits its opposite.
ReadToggle(s) ==
  /\ At(s, "toggle", "sent")
  /\ call' = [call EXCEPT ![s].stage = "read", ![s].saw = call[s].user \in blocked]
  /\ UNCHANGED <<Gateway, Browser, table, Histories, Bounds>>

CommitToggle(s) ==
  LET u == call[s].user IN
  /\ At(s, "toggle", "read")
  /\ blocked' = IF call[s].saw THEN blocked \ {u} ELSE blocked \union {u}
  /\ call' = Answer(s, "ok")
  /\ UNCHANGED <<registered, mfa, resetCode, Browser, table, Histories, Bounds>>

\* admin_list_users.
ReadTable(s) ==
  /\ At(s, "table", "sent")
  /\ call' = [call EXCEPT ![s].stage = "ok", ![s].saw = blocked]
  /\ UNCHANGED <<Gateway, Browser, table, Histories, Bounds>>

\* admin_get_user_details.
ReadDetails(s) ==
  /\ At(s, "details", "sent")
  /\ call' = Answer(s, "ok")
  /\ UNCHANGED <<Gateway, Browser, table, Histories, Bounds>>

------------------------------------------------------------------------------
(* Failures                                                                   *)

\* A call that fails before the gateway does anything, or whose answer is lost:
\* the table does not know then whether a row was flipped.
Fails(s) ==
  /\ call[s].kind # "idle" /\ call[s].stage \in {"sent", "ok"} /\ faults < MaxFaults
  /\ faults' = faults + 1
  /\ call' = Answer(s, "refused")
  /\ table' = [table EXCEPT !.behind = IF At(s, "toggle", "ok") THEN @ \union {call[s].user} ELSE @,
                            !.mixed = @ \/ (call[s].kind = "details" /\ call[s].here)]
  /\ UNCHANGED <<Gateway, Browser, Histories, clicks>>

------------------------------------------------------------------------------
(* What the browser does with an answer                                       *)

\* register goes to the login, also from a page that was left; a refusal is a message.
FinishRegister(s) ==
  /\ Answered(s, "register")
  /\ IF call[s].stage = "ok" THEN screen' = Page("login") /\ call' = [Left EXCEPT ![s] = Idle]
                             ELSE UNCHANGED screen /\ call' = Over(s)
  /\ UNCHANGED <<Gateway, token, table, Histories, Bounds>>

\* Fault: the state of a page that was left is set.
HearsAlways(s) == TRUE
\* A page hears of its own calls, as long as it is mounted.
Hears(s) == call[s].here

FinishLogin(s) ==
  /\ Answered(s, "login")
  /\ screen' = IF ~Hears(s) THEN screen
               ELSE [screen EXCEPT !.busy = FALSE, !.user = call[s].user,
                                   !.mfa = IF call[s].stage = "ok" THEN call[s].mfa ELSE @]
  /\ call' = Over(s)
  /\ UNCHANGED <<Gateway, token, table, Histories, Bounds>>

\* handleVerifyOtp stores the token, whichever page is open by now; then the
\* guest cart is merged, and the page goes home.
StoreToken(s) ==
  /\ At(s, "verify", "ok")
  /\ token' = call[s].user
  /\ call' = Answer(s, "signed")
  /\ UNCHANGED <<Gateway, screen, table, Histories, Bounds>>

GoHome(s) ==
  /\ At(s, "verify", "signed")
  /\ screen' = Page("home") /\ call' = [Left EXCEPT ![s] = Idle]
  /\ UNCHANGED <<Gateway, token, table, Histories, Bounds>>

\* The code was refused, or the merge failed after the token was stored.
VerifyFailed(s) ==
  /\ call[s].kind = "verify" /\ call[s].stage \in {"refused", "signed"}
  /\ screen' = IF Hears(s) THEN [screen EXCEPT !.busy = FALSE] ELSE screen
  /\ call' = Over(s)
  /\ UNCHANGED <<Gateway, token, table, Histories, Bounds>>

\* The page of the code is shown for an address without an account, too.
FinishForgot(s) ==
  /\ call[s].kind = "forgot"
  /\ \/ call[s].stage \in {"ok", "refused"}
     \/ call[s].stage = "sent" /\ call[s].user \notin registered
  /\ screen' = IF Hears(s) /\ call[s].stage # "refused" THEN [Page("code") EXCEPT !.user = call[s].user] ELSE screen
  /\ call' = Over(s)
  /\ UNCHANGED <<Gateway, token, table, Histories, Bounds>>

FinishReset(s) ==
  /\ Answered(s, "reset")
  /\ IF call[s].stage = "ok" THEN screen' = Page("login") /\ call' = [Left EXCEPT ![s] = Idle]
                             ELSE UNCHANGED screen /\ call' = Over(s)
  /\ UNCHANGED <<Gateway, token, table, Histories, Bounds>>

------------------------------------------------------------------------------
(* The administrator's table of users                                         *)

\* The page is opened anew; nobody hears of what it asked for before.
OpenTable ==
  /\ table' = Unread({call[s].user : s \in Of("toggle")})
  /\ \E s \in Slots \ Busy :
       call' = [x \in Slots |-> IF x = s THEN [kind |-> "table", stage |-> "sent", saw |-> {}]
                                ELSE IF call[x].kind = "table" THEN Idle
                                ELSE IF call[x].kind \in {"toggle", "details"} THEN [call[x] EXCEPT !.here = FALSE]
                                ELSE call[x]]
  /\ UNCHANGED <<Gateway, Browser, Histories, Bounds>>

FinishTable(s) ==
  /\ Answered(s, "table")
  /\ table' = [table EXCEPT !.rows = call[s].stage = "ok", !.blocked = call[s].saw]
  /\ call' = Over(s)
  /\ UNCHANGED <<Gateway, Browser, Histories, Bounds>>

Flipped(set, u) == IF u \in set THEN set \ {u} ELSE set \union {u}

\* "Block" and "Unblock"; the button is not disabled while its call is under way.
Toggle(u) ==
  /\ table.rows /\ u \in registered
  /\ \E s \in Slots : Send(s, [kind |-> "toggle", user |-> u, stage |-> "sent", here |-> TRUE, saw |-> FALSE])
  /\ table' = [table EXCEPT !.behind = IF \E s \in Of("toggle") : call[s].user = u THEN @ \union {u} ELSE @]
  /\ UNCHANGED <<Gateway, Browser, Histories, faults>>

\* Another administrator.
ToggleElsewhere(u) ==
  /\ u \in registered /\ clicks < MaxClicks
  /\ clicks' = clicks + 1
  /\ blocked' = Flipped(blocked, u)
  /\ table' = [table EXCEPT !.behind = @ \union {u}]
  /\ UNCHANGED <<registered, mfa, resetCode, Browser, call, Histories, faults>>

\* Fault: the row is flipped whatever the answer is.
AfterToggleAlways(s) == [table EXCEPT !.blocked = Flipped(@, call[s].user)]
\* The page flips its own row and does not look at the answer's isBlocked.
AfterToggle(s) ==
  IF Hears(s) /\ call[s].stage = "ok" THEN [table EXCEPT !.blocked = Flipped(@, call[s].user)] ELSE table

FinishToggle(s) ==
  /\ Answered(s, "toggle")
  /\ table' = AfterToggle(s)
  /\ call' = Over(s)
  /\ UNCHANGED <<Gateway, Browser, Histories, Bounds>>

\* "Details" of a row; nothing waits for the details of another.
AskedHere == {s \in Of("details") : call[s].here}
Details(u) ==
  /\ table.rows /\ u \in registered
  /\ \E s \in Slots : Send(s, [kind |-> "details", user |-> u, stage |-> "sent", here |-> TRUE])
  /\ table' = [table EXCEPT !.asked = u, !.mixed = @ \/ AskedHere # {}]
  /\ UNCHANGED <<Gateway, Browser, Histories, faults>>

CloseDetails ==
  /\ table.details # Nobody
  /\ table' = [table EXCEPT !.details = Nobody, !.asked = Nobody, !.mixed = @ \/ AskedHere # {}]
  /\ UNCHANGED <<Gateway, Browser, call, Histories, Bounds>>

\* Fault: details that are shown already stay.
DetailsAfterKept(s) == IF table.details = Nobody THEN call[s].user ELSE table.details
\* An answer replaces what is shown.
DetailsAfter(s) == call[s].user

FinishDetails(s) ==
  /\ Answered(s, "details")
  /\ table' = IF Hears(s) /\ call[s].stage = "ok" THEN [table EXCEPT !.details = DetailsAfter(s)] ELSE table
  /\ call' = Over(s)
  /\ UNCHANGED <<Gateway, Browser, Histories, Bounds>>

Next ==
  \/ RequireLogin \/ CloseDetails \/ Logout \/ VerifyOtp \/ ContinueToReset \/ ResetPassword \/ CodeExpires \/ OpenTable
  \/ \E name \in {"home", "login", "register", "forgot"} : Go(name)
  \/ \E u \in Users : Register(u) \/ LogIn(u) \/ SendCode(u) \/ Toggle(u) \/ ToggleElsewhere(u) \/ Details(u)
  \/ \E s \in Slots :
       \/ CreateUser(s) \/ CheckLogin(s) \/ IssueToken(s) \/ MailCode(s) \/ CheckReset(s) \/ CommitReset(s)
       \/ ReadToggle(s) \/ CommitToggle(s) \/ ReadTable(s) \/ ReadDetails(s) \/ Fails(s)
       \/ FinishRegister(s) \/ FinishLogin(s) \/ StoreToken(s) \/ GoHome(s) \/ VerifyFailed(s)
       \/ FinishForgot(s) \/ FinishReset(s) \/ FinishTable(s) \/ FinishToggle(s) \/ FinishDetails(s)

Spec == Init /\ [][Next]_vars

------------------------------------------------------------------------------
\* Every variable has its type; no code is valid that was not sent, and only
\* a login page waits for one.
TypeOK ==
  /\ registered \subseteq Users /\ blocked \subseteq registered
  /\ mfa \subseteq [no: 1 .. MaxClicks, user: registered]
  /\ \A u \in Users : resetCode[u] \in 0 .. asked[u]
  /\ token \in registered \union {Nobody} /\ meant \subseteq registered
  /\ screen.mfa \in 0 .. MaxClicks /\ (screen.mfa # 0 => screen.page = "login")
  /\ screen.code \in 0 .. MaxClicks
  /\ table.blocked \subseteq registered /\ table.behind \subseteq registered
  /\ \A s \in Slots : call[s].kind \in {"idle", "register", "login", "verify", "forgot", "reset", "table", "toggle", "details"}
  /\ {table.details, table.asked} \subseteq registered \union {Nobody}
  /\ raced \subseteq Users /\ clicks \in 0 .. MaxClicks /\ faults \in 0 .. MaxFaults

\* A verification code opens one session and a reset code sets one password,
\* however often a call is repeated or answered late, unless two resets
\* with the code overlapped (verify_otp; reset_password removes after its commit).
CodesWorkOnce ==
  /\ \A n \in DOMAIN issued : issued[n] <= 1
  /\ \A x, y \in spent : x.user = y.user /\ x.code = y.code => x = y \/ x.user \in raced

\* The reset code that was mailed last can be used until it has been, unless it
\* was asked for amid a reset with the former, which removes it (reset_password).
NewestResetCodeWorks ==
  \A u \in Users \ raced :
    asked[u] > 0 => \/ resetCode[u] = asked[u]
                    \/ \E x \in spent : x.user = u /\ x.code = asked[u]

\* The table of users shows who is blocked, unless another administrator
\* changed it, two clicks overlapped, or an answer was lost: the page flips its
\* row by itself (handleBlockToggle).
BlockShownIsTrue ==
  \A u \in registered \ table.behind :
    table.rows /\ (\A s \in Of("toggle") : call[s].user # u) => (u \in table.blocked <=> u \in blocked)

\* The details shown are of the user whose button was clicked last, and none after
\* "Close", unless one more click, or a failure, came before an answer
\* (loadUserDetails shows whatever is answered last).
DetailsAreOfLastClicked ==
  AskedHere = {} /\ ~table.mixed => table.details = table.asked

\* Whoever is signed in is the one whose code was typed last, or was signed in
\* before and still is; nobody is after a logout. The exception is a verification
\* under way when another one began, or at the logout: its answer stores the token
\* even so (handleVerifyOtp).
SignedInAsMeant ==
  ~late => token = Nobody \/ token \in meant
==============================================================================
