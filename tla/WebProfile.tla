------------------------------- MODULE WebProfile -------------------------------
(* The profile in one browser: the page of the dashboard, which edits over    *)
(* the query ["user"] and its cache, and the administrator's settings, which   *)
(* read for themselves. Sessions end and begin as WebSignIn says; the cache    *)
(* outlives a session that only expires, and a call outlives its page.         *)
EXTENDS Integers, FiniteSets

CONSTANTS
  Users,
  Nobody,       \* no user
  Unset,        \* of a form without fields
  Slots,        \* as many calls may be under way at a time (bound)
  MaxSaves,     \* bound on saves
  MaxFaults     \* bound on calls that fail or whose answer is lost

ASSUME ProfileAssumption ==
  Nobody \notin Users /\ Unset \notin Users \union {Nobody} /\ MaxSaves \in Nat /\ MaxFaults \in Nat

VARIABLES
  profile,     \* the gateway's profiles
  token,       \* whose token the browser holds
  cache,       \* the query ["user"]
  fetch,       \* its fetch
  screen,      \* the browser's page
  call,        \* the calls of the settings and the saves under way
  last,        \* history: whose session began last, if it was not signed out
  trust,       \* history: see below
  saves, faults

vars == <<profile, token, cache, fetch, screen, call, last, trust, saves, faults>>
Query == <<cache, fetch>>
Bounds == <<saves, faults>>

\* A profile is a phone and an image, as those "of" a user or of nobody, and a
\* name; how a form divides it between two fields is left out, but not that both
\* can be empty.
Names == {0, 1}
NoName == 2
Value == [of: Users \union {Nobody}, name: Names]
Form == [of: Users \union {Nobody, Unset}, name: Names \union {NoName}]
Blank == [of |-> Nobody, name |-> NoName]
Fieldless == [of |-> Unset, name |-> NoName]   \* the settings before anything is loaded
None == [of |-> Nobody, name |-> 4]            \* no data at all

\* What update_me makes of the profile "old": a name sent beside the two fields
\* wins, empty fields leave the old one, and what is not sent is kept.
Stored(form, named, old) ==
  [of |-> IF form.of = Unset THEN old.of ELSE form.of,
   name |-> CASE named # NoName -> named
              [] named = NoName /\ form.name # NoName -> form.name
              [] OTHER -> old.name]

\* What happened decides what can be said of a form: "all" of it; only whose it
\* is ("own"), as saves overlapped, an answer was lost, or the settings changed
\* what the query had read; or "nothing", as a user signed in after another who
\* had not signed out, or a form was saved that had not been loaded.
Trusts == {"all", "own", "nothing"}
NoMoreThan(t) == IF "nothing" \in {trust, t} THEN "nothing"
                 ELSE IF "own" \in {trust, t} THEN "own" ELSE "all"
Losing(condition, t) == IF condition THEN NoMoreThan(t) ELSE trust

Idle == [kind |-> "idle"]
Busy == {s \in Slots : call[s].kind # "idle"}
Of(kind) == {s \in Busy : call[s].kind = kind}
At(s, kind, stage) == call[s].kind = kind /\ call[s].stage = stage
Answered(s, kind) == call[s].kind = kind /\ call[s].stage \in {"ok", "refused"}
Answer(s, stage) == [call EXCEPT ![s].stage = stage]
Over(s) == [call EXCEPT ![s] = Idle]

EmptyCache == [data |-> None, stale |-> FALSE, failed |-> FALSE]
NoFetch == [stage |-> "idle", as |-> Nobody, got |-> None]
Fetching == [stage |-> "sent", as |-> token, got |-> None]

\* A form may carry a name beside the two fields ("named").
Page(name) ==
  [page |-> name, form |-> Blank, named |-> NoName, original |-> Fieldless, editing |-> FALSE, unsaved |-> FALSE]

Init ==
  /\ profile = [u \in Users |-> [of |-> u, name |-> 0]]
  /\ token \in Users \union {Nobody} /\ last = token
  /\ cache = EmptyCache /\ fetch = NoFetch /\ screen = Page("home")
  /\ call = [s \in Slots |-> Idle]
  /\ trust = "all" /\ saves = 0 /\ faults = 0

------------------------------------------------------------------------------
(* Pages and sessions                                                         *)

\* A page that is left hears nothing any more: of its reads nothing remains, its
\* saves go on.
Left == [s \in Slots |-> IF call[s].kind = "save" THEN [call[s] EXCEPT !.here = FALSE] ELSE Idle]

\* The profile page shows what the query has; the fetch, of this or another
\* page, goes on.
OpenProfile ==
  /\ screen.page \notin {"profile", "crashed"}
  /\ screen' = [Page("profile") EXCEPT !.form = IF cache.data = None THEN Blank ELSE cache.data]
  /\ fetch' = IF (cache.data = None \/ cache.stale) /\ fetch.stage = "idle" THEN Fetching ELSE fetch
  /\ cache' = [cache EXCEPT !.failed = @ /\ cache.data # None]
  /\ call' = Left
  /\ UNCHANGED <<profile, token, last, trust, Bounds>>

\* The settings show an empty form until their own read is answered.
OpenSettings ==
  /\ screen.page \notin {"settings", "crashed"}
  /\ screen' = Page("settings")
  /\ \E s \in Slots : /\ Left[s] = Idle
                      /\ call' = [Left EXCEPT ![s] = [kind |-> "load", user |-> token, stage |-> "sent", got |-> None]]
  /\ trust' = Losing(Of("save") # {}, "own")
  /\ UNCHANGED <<profile, token, Query, last, Bounds>>

GoElsewhere ==
  /\ screen.page \in {"profile", "settings"}
  /\ screen' = Page("home") /\ call' = Left
  /\ UNCHANGED <<profile, token, Query, last, trust, Bounds>>

\* A page that threw while rendering leaves nothing but the reload button; the
\* bound is that nothing is under way.
Reload ==
  /\ screen.page = "crashed" /\ Busy = {}
  /\ screen' = Page("home") /\ cache' = EmptyCache /\ fetch' = NoFetch
  /\ UNCHANGED <<profile, token, call, last, trust, Bounds>>

\* A token is stored, whichever page is open by then.
SignIn(u) ==
  /\ token # u /\ token' = u
  /\ trust' = Losing(last \notin {u, Nobody}, "nothing") /\ last' = u
  /\ UNCHANGED <<profile, Query, screen, call, Bounds>>

\* Fault: the query cache is not cleared.
AfterLogoutKept == cache
\* Nothing is remembered.
AfterLogout == EmptyCache

Logout ==
  /\ screen.page # "crashed"
  /\ token' = Nobody /\ cache' = AfterLogout /\ fetch' = NoFetch
  /\ screen' = Page("home") /\ call' = Left /\ last' = Nobody
  /\ UNCHANGED <<profile, trust, Bounds>>

\* The token expires; the browser does not know.
SessionEnds ==
  /\ token # Nobody /\ token' = Nobody
  /\ UNCHANGED <<profile, Query, screen, call, last, trust, Bounds>>

------------------------------------------------------------------------------
(* The gateway                                                                *)

\* get_me, for the query and for the settings.
ReadForQuery ==
  /\ fetch.stage = "sent"
  /\ fetch' = IF fetch.as # Nobody THEN [fetch EXCEPT !.stage = "ok", !.got = profile[fetch.as]]
              ELSE [fetch EXCEPT !.stage = "refused"]
  /\ UNCHANGED <<profile, token, cache, screen, call, last, trust, Bounds>>

ReadForSettings(s) ==
  LET u == call[s].user IN
  /\ At(s, "load", "sent")
  /\ call' = IF u # Nobody THEN [call EXCEPT ![s].stage = "ok", ![s].got = profile[u]] ELSE Answer(s, "refused")
  /\ UNCHANGED <<profile, token, Query, screen, last, trust, Bounds>>

\* update_me writes for the user of the token, and answers what is stored now. The
\* query does not learn of a save from the settings.
CommitProfile(s) ==
  LET u == call[s].user
      now == Stored(call[s].form, call[s].named, profile[u])
  IN
  /\ At(s, "save", "sent")
  /\ IF u # Nobody
     THEN /\ profile' = [profile EXCEPT ![u] = now]
          /\ call' = [call EXCEPT ![s].stage = "ok", ![s].got = now]
          /\ trust' = Losing(call[s].from = "settings" /\ (cache.data # None \/ fetch.stage = "ok"), "own")
     ELSE /\ call' = Answer(s, "refused")
          /\ UNCHANGED <<profile, trust>>
  /\ UNCHANGED <<token, Query, screen, last, Bounds>>

\* A call fails before the gateway does anything, or its answer is lost; a user who
\* is blocked by now is refused the reads.
Fails(s) ==
  /\ call[s].kind # "idle" /\ call[s].stage \in {"sent", "ok"} /\ faults < MaxFaults
  /\ faults' = faults + 1
  /\ call' = Answer(s, "refused")
  /\ trust' = Losing(At(s, "save", "ok"), "own")
  /\ UNCHANGED <<profile, token, Query, screen, last, saves>>

FetchFails ==
  /\ fetch.stage = "sent" /\ faults < MaxFaults
  /\ faults' = faults + 1
  /\ fetch' = [NoFetch EXCEPT !.stage = "refused"]
  /\ UNCHANGED <<profile, token, cache, screen, call, last, trust, saves>>

------------------------------------------------------------------------------
(* Editing                                                                    *)

\* What the page shows of the query: an error hides the data, and a fetch that waits
\* for the network does not hide that there are none.
Shown ==
  \/ screen.page = "settings"
  \/ screen.page = "profile" /\ (cache.data # None \/ fetch.stage = "paused") /\ ~cache.failed

Edit ==
  /\ Shown /\ ~screen.editing
  /\ screen' = [screen EXCEPT !.editing = TRUE]
  /\ UNCHANGED <<profile, token, Query, call, last, trust, Bounds>>

\* A field is typed in, or an image is uploaded.
Typed(n) == [screen EXCEPT !.form.name = n]
Other == (Names \union {NoName}) \ {screen.form.name}

TypeProfile ==
  /\ Shown /\ screen.editing /\ screen.page = "profile"
  /\ \E n \in Other : screen' = Typed(n)
  /\ UNCHANGED <<profile, token, Query, call, last, trust, Bounds>>

\* Of the settings, also while they are still being read.
TypeSettings ==
  /\ screen.page = "settings" /\ screen.editing
  /\ \E n \in Other : screen' = Typed(n)
  /\ UNCHANGED <<profile, token, Query, call, last, trust, Bounds>>

\* The profile page names its handleCancel and does not call it: what was typed stays.
CancelProfile ==
  /\ Shown /\ screen.editing /\ screen.page = "profile"
  /\ screen' = [screen EXCEPT !.editing = FALSE, !.unsaved = @ \/ screen.form # cache.data]
  /\ UNCHANGED <<profile, token, Query, call, last, trust, Bounds>>

\* Fault: the form is left without data.
FormAfterCancelNull == [screen EXCEPT !.editing = FALSE, !.form = screen.original, !.unsaved = FALSE]
\* The settings show what was loaded or saved last, with its name beside the fields,
\* and throw when that failed.
FormAfterCancel ==
  IF screen.original = None THEN Page("crashed")
  ELSE [screen EXCEPT !.editing = FALSE, !.form = screen.original, !.named = screen.original.name,
                      !.unsaved = FALSE]

CancelSettings ==
  /\ Shown /\ screen.editing /\ screen.page = "settings"
  /\ screen' = FormAfterCancel
  /\ call' = IF screen'.page = "crashed" THEN Left ELSE call
  /\ UNCHANGED <<profile, token, Query, last, trust, Bounds>>

\* "Save Changes" is not disabled while a save is under way; of the saves of a
\* profile page the last one's answer alone ends the editing.
Save ==
  LET earlier == IF screen.page = "settings" THEN call
                 ELSE [s \in Slots |-> IF call[s].kind = "save" THEN [call[s] EXCEPT !.here = FALSE] ELSE call[s]]
      unloaded == IF screen.page = "settings" THEN screen.original = None \/ Of("load") # {}
                  ELSE cache.data = None
  IN
  /\ Shown /\ screen.editing /\ saves < MaxSaves
  /\ saves' = saves + 1
  /\ \E s \in Slots \ Busy :
       call' = [earlier EXCEPT ![s] = [kind |-> "save", from |-> screen.page, user |-> token, form |-> screen.form,
                                       named |-> screen.named, stage |-> "sent", got |-> None, here |-> TRUE]]
  /\ trust' = IF unloaded THEN "nothing" ELSE Losing(Of("save") # {}, "own")
  /\ UNCHANGED <<profile, token, Query, screen, last, faults>>

\* Data that differ from the former fill the form, whatever is being typed.
FinishFetch ==
  /\ fetch.stage = "ok"
  /\ cache' = [data |-> fetch.got, stale |-> FALSE, failed |-> FALSE]
  /\ fetch' = NoFetch
  /\ screen' = IF screen.page = "profile" /\ fetch.got # cache.data
               THEN [screen EXCEPT !.form = fetch.got, !.unsaved = FALSE] ELSE screen
  /\ UNCHANGED <<profile, token, call, last, trust, Bounds>>

\* Without a network a fetch waits, before it is sent and before it is repeated.
PauseFetch ==
  /\ fetch.stage \in {"sent", "refused"} /\ fetch' = [NoFetch EXCEPT !.stage = "paused"]
  /\ UNCHANGED <<profile, token, cache, screen, call, last, trust, Bounds>>

ResumeFetch ==
  /\ fetch.stage = "paused" /\ fetch' = Fetching
  /\ UNCHANGED <<profile, token, cache, screen, call, last, trust, Bounds>>

\* A failed read is repeated once, with the token of the moment.
RetryFetch ==
  /\ fetch.stage = "refused" /\ fetch' = Fetching
  /\ UNCHANGED <<profile, token, cache, screen, call, last, trust, Bounds>>

GiveUpFetch ==
  /\ fetch.stage = "refused" /\ fetch' = NoFetch
  /\ cache' = [cache EXCEPT !.failed = TRUE]
  /\ UNCHANGED <<profile, token, screen, call, last, trust, Bounds>>

\* Ten minutes; a network that comes back; five minutes without a page that shows it.
CacheAges ==
  /\ \/ cache.data # None /\ cache' = [cache EXCEPT !.stale = TRUE] /\ UNCHANGED fetch
     \/ /\ screen.page = "profile" /\ cache.stale /\ fetch.stage = "idle"
        /\ fetch' = Fetching /\ UNCHANGED cache
     \/ screen.page # "profile" /\ fetch.stage = "idle" /\ cache' = EmptyCache /\ UNCHANGED fetch
  /\ UNCHANGED <<profile, token, screen, call, last, trust, Bounds>>

\* Of the settings.
FinishLoad(s) ==
  /\ Answered(s, "load")
  /\ screen' = IF call[s].stage = "ok" THEN [screen EXCEPT !.form = call[s].got, !.named = NoName, !.original = call[s].got,
                                                          !.unsaved = FALSE]
               ELSE [screen EXCEPT !.original = None]
  /\ call' = Over(s)
  /\ UNCHANGED <<profile, token, Query, last, trust, Bounds>>

\* Fault: the query is not invalidated.
AfterSaveKept == <<cache, fetch>>
\* The query is invalidated, and read again at once if a page shows it.
AfterSave ==
  <<[cache EXCEPT !.stale = cache.data # None],
    IF screen.page = "profile" /\ (cache.data # None \/ fetch.stage = "idle") THEN Fetching ELSE fetch>>

\* The mutation of the profile page, which ends even if the page was left.
FinishSave(s) ==
  /\ Answered(s, "save") /\ call[s].from = "profile"
  /\ IF call[s].stage = "ok"
     THEN /\ cache' = AfterSave[1] /\ fetch' = AfterSave[2]
          /\ screen' = IF call[s].here THEN [screen EXCEPT !.editing = FALSE, !.unsaved = screen.form # call[s].form]
                                       ELSE screen
          /\ trust' = Losing(fetch'.stage = "ok", "own")
     ELSE UNCHANGED <<Query, screen, trust>>
  /\ call' = Over(s)
  /\ UNCHANGED <<profile, token, last, Bounds>>

\* handleSave of the settings shows what was stored, and takes a failed save for the
\* end of the editing, too.
FinishSettings(s) ==
  /\ Answered(s, "save") /\ call[s].from = "settings"
  /\ screen' = IF ~call[s].here THEN screen
               ELSE IF call[s].stage = "ok"
               THEN [screen EXCEPT !.form = call[s].got, !.named = call[s].got.name, !.original = call[s].got,
                                    !.editing = FALSE, !.unsaved = FALSE]
               ELSE [screen EXCEPT !.original = None, !.editing = FALSE, !.unsaved = TRUE]
  /\ call' = Over(s)
  /\ UNCHANGED <<profile, token, Query, last, trust, Bounds>>

------------------------------------------------------------------------------
Next ==
  \/ OpenProfile \/ OpenSettings \/ GoElsewhere \/ Reload \/ Logout \/ SessionEnds
  \/ \E u \in Users : SignIn(u)
  \/ ReadForQuery \/ FetchFails \/ FinishFetch \/ PauseFetch \/ ResumeFetch \/ RetryFetch \/ GiveUpFetch
  \/ CacheAges
  \/ Edit \/ TypeProfile \/ TypeSettings \/ CancelProfile \/ CancelSettings \/ Save
  \/ \E s \in Slots : \/ ReadForSettings(s) \/ CommitProfile(s) \/ Fails(s)
                      \/ FinishLoad(s) \/ FinishSave(s) \/ FinishSettings(s)

Spec == Init /\ [][Next]_vars

------------------------------------------------------------------------------
\* Every variable has its type; a form has the fields of a profile.
TypeOK ==
  /\ profile \in [Users -> Value]
  /\ token \in Users \union {Nobody} /\ last \in Users \union {Nobody}
  /\ cache.data \in Value \union {None} /\ cache.stale \in BOOLEAN /\ cache.failed \in BOOLEAN
  /\ fetch.stage \in {"idle", "sent", "paused", "ok", "refused"} /\ fetch.as \in Users \union {Nobody}
  /\ screen.page \in {"home", "profile", "settings", "crashed"}
  /\ screen.form \in Form /\ screen.named \in Names \union {NoName}
  /\ screen.original \in Value \union {Fieldless, None}
  /\ \A s \in Slots : call[s].kind \in {"idle", "load", "save"}
  /\ trust \in Trusts /\ saves \in 0 .. MaxSaves /\ faults \in 0 .. MaxFaults

\* Nobody's profile is shown to, or saved as that of, another, unless a user
\* signed in after another whose session ended without signing out (useUser's
\* cache, useLogout); and no phone or image is emptied, unless a form was saved
\* that had not been loaded: settings still being read or whose read or save
\* failed, or a profile page without a network (handleSave, useUser's isLoading).
ProfilesAreOwn ==
  trust # "nothing" =>
    /\ \A u \in Users : profile[u].of = u
    /\ token # Nobody /\ Shown =>
         \/ screen.form.of = token
         \/ screen.page = "settings" /\ screen.form.of \in {Nobody, Unset}
         \/ screen.page = "profile" /\ cache.data = None /\ screen.form.of = Nobody

\* Nothing is under way, and the form was not left as it was typed.
Quiet ==
  /\ token # Nobody /\ Shown /\ ~screen.editing /\ ~screen.unsaved
  /\ fetch.stage = "idle" /\ Busy = {}
  /\ screen.page = "settings" => screen.original \notin {None, Fieldless}

\* A form at rest shows the profile as it is stored, through saves, refetches and
\* pages left and opened again; on the profile page it may be one that update_me
\* stores as that, as empty names are not stored and the old name, read again, does
\* not fill them. The exceptions are an edit that was cancelled there or went on
\* during a save, saves that overlapped, an answer that was lost, and settings that
\* changed what the query had read (useUser, useUpdateUser, handleSave, update_me).
FormsAreCurrent ==
  Quiet /\ trust = "all" =>
    IF screen.page = "settings" THEN screen.form = profile[token]
    ELSE Stored(screen.form, NoName, profile[token]) = profile[token]
==============================================================================
