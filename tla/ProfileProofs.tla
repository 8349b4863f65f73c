---------------------------- MODULE ProfileProofs ----------------------------
(* Proofs of WebProfile for any users, calls under way and bounds: the types   *)
(* of the browser's state, that profiles are shown to and saved as those of    *)
(* their users, and that a form at rest shows the profile as it is stored.     *)
EXTENDS WebProfile, TLAPS

-----------------------------------------------------------------------------
(* The inductive invariant                                                   *)

\* The records of the browser.
Caches == [data: Value \union {None}, stale: BOOLEAN, failed: BOOLEAN]
Fetches ==
  [stage: {"idle", "sent", "paused", "ok", "refused"}, as: Users \union {Nobody}, got: Value \union {None}]
Screens ==
  [page: {"home", "profile", "settings", "crashed"}, form: Form, named: Names \union {NoName},
   original: Value \union {Fieldless, None}, editing: BOOLEAN, unsaved: BOOLEAN]
Stages == {"sent", "ok", "refused"}
LoadCalls ==
  [kind: {"load"}, user: Users \union {Nobody}, stage: Stages, got: Value \union {None}]
SaveCalls ==
  [kind: {"save"}, from: {"profile", "settings"}, user: Users \union {Nobody}, form: Form,
   named: Names \union {NoName}, stage: Stages, got: Value \union {None}, here: BOOLEAN]
Calls == {Idle} \union LoadCalls \union SaveCalls

Types ==
  /\ profile \in [Users -> Value]
  /\ token \in Users \union {Nobody} /\ last \in Users \union {Nobody}
  /\ cache \in Caches /\ fetch \in Fetches /\ screen \in Screens
  /\ call \in [Slots -> Calls]
  /\ trust \in Trusts /\ saves \in 0 .. MaxSaves /\ faults \in 0 .. MaxFaults

\* What was answered is a profile, of the user who read or saved.
Answers ==
  /\ fetch.stage = "ok" => fetch.got \in Value /\ fetch.as # Nobody
  /\ \A s \in Slots :
       /\ call[s].kind = "load" /\ call[s].stage = "ok" => call[s].got \in Value /\ call[s].user # Nobody
       /\ call[s].kind = "save" /\ call[s].stage = "ok" => call[s].got \in Value /\ call[s].user # Nobody

\* The saves that are heard of are those of the page, only settings load, and only
\* settings carry a name beside the fields.
PageCalls ==
  /\ \A s \in Slots :
       /\ call[s].kind = "save" /\ call[s].here => call[s].from = screen.page
       /\ call[s].kind = "load" => screen.page = "settings"
       /\ call[s].kind = "save" /\ call[s].from = "profile" => call[s].named = NoName
  /\ screen.page = "profile" => screen.named = NoName

\* As long as a user's session follows another only after a logout, everything
\* in the browser is of the user whose session began last, or is empty.
OwnProfiles == \A u \in Users : profile[u].of = u
OwnSaves ==
  \A s \in Slots : call[s].kind = "save" =>
    /\ call[s].user # Nobody => call[s].form.of = call[s].user
    /\ call[s].stage = "ok" => call[s].got.of = call[s].user
    /\ call[s].here => call[s].user \in {Nobody, last}
OwnReads ==
  /\ cache.data # None => cache.data.of = last /\ last # Nobody
  /\ fetch.stage # "idle" => fetch.as \in {Nobody, last}
  /\ fetch.stage = "ok" => fetch.got.of = last
  /\ \A s \in Slots :
       call[s].kind = "load" =>
         /\ call[s].user \in {Nobody, last}
         /\ call[s].stage = "ok" => call[s].got.of = last
OwnForm ==
  /\ screen.page = "profile" => screen.form.of = IF cache.data = None THEN Nobody ELSE last
  /\ screen.page = "settings" =>
       /\ screen.form.of \in {last, Nobody, Unset} /\ screen.original.of \in {last, Nobody, Unset}
       /\ \/ screen.original = None
          \/ \E s \in Slots : call[s].kind = "load"
          \/ screen.form.of = last /\ screen.original.of = last /\ last # Nobody
Own ==
  trust # "nothing" =>
    /\ token \in {Nobody, last}
    /\ OwnProfiles /\ OwnSaves /\ OwnReads /\ OwnForm

\* As long as nothing else is lost of the trust, one save at a time is under way;
\* what it committed is there until its answer is taken.
OneSave ==
  /\ \A s, x \in Slots : call[s].kind = "save" /\ call[x].kind = "save" => s = x
  /\ \A s \in Slots :
       call[s].kind = "save" /\ call[s].stage = "ok" =>
         /\ profile[call[s].user] = call[s].got
         /\ call[s].from = "profile" => Stored(call[s].form, NoName, call[s].got) = call[s].got

\* A save of the profile page has been committed, and its answer is on its way.
Committed ==
  \E s \in Slots : /\ call[s].kind = "save" /\ call[s].from = "profile"
                   /\ call[s].stage = "ok" /\ call[s].user = last

\* The cache has the profile, or it is known to be stale and will be read again
\* before a page at rest shows it.
CacheIsTrue ==
  /\ cache.data # None =>
       \/ cache.data = profile[last]
       \/ Committed
       \/ cache.stale /\ (screen.page = "profile" => fetch.stage # "idle" \/ cache.failed)
  /\ fetch.stage = "ok" => fetch.got = profile[last] \/ Committed

\* The profile page shows the cache, or what it saved, which would be stored as what
\* is stored already.
ProfileForm ==
  screen.page = "profile" /\ cache.data # None /\ ~screen.editing /\ ~screen.unsaved =>
    \/ screen.form = cache.data
    \/ /\ Stored(screen.form, NoName, profile[last]) = profile[last]
       /\ \A s \in Slots : call[s].kind # "save"

\* The settings show what they loaded or saved last; they save after they loaded.
SettingsForm ==
  screen.page = "settings" =>
    /\ \A s \in Slots : call[s].kind = "save" => call[s].here
    /\ \A s \in Slots : call[s].kind = "load" =>
         /\ call[s].stage = "ok" => call[s].got = profile[last]
         /\ \A x \in Slots : call[x].kind # "save"
    /\ \/ screen.original = None
       \/ \E s \in Slots : call[s].kind = "load"
       \/ /\ screen.original = profile[last] \/ \E s \in Slots : call[s].kind = "save"
          /\ ~screen.editing /\ ~screen.unsaved => screen.form = screen.original
Current == trust = "all" => OneSave /\ CacheIsTrue /\ ProfileForm /\ SettingsForm

IInv == Types /\ Answers /\ PageCalls /\ Own /\ Current

-----------------------------------------------------------------------------
(* Lemmas                                                                    *)

\* Neither no data nor the empty form is of a user.
LEMMA NoData ==
  /\ None \notin Value /\ Blank \in Form /\ Blank # None
  /\ Fieldless \in Form /\ Fieldless # None /\ Fieldless \notin Value
  /\ None.of = Nobody /\ Blank.of = Nobody /\ Fieldless.of = Unset
  /\ Value \subseteq Form
  /\ \A v \in Value : v.of \in Users \union {Nobody} /\ v.name \in Names
BY ProfileAssumption DEF None, Blank, Fieldless, Value, Form, Names, NoName, ProfileAssumption

\* What a save makes of a profile is one again, of whom the form is; and the form it
\* was made from would be stored as that.
LEMMA StoredIs ==
  ASSUME NEW f \in Form, NEW n \in Names \union {NoName}, NEW old \in Value
  PROVE  /\ Stored(f, n, old) \in Value
         /\ f.of # Unset => Stored(f, n, old).of = f.of
         /\ Stored(f, NoName, Stored(f, NoName, old)) = Stored(f, NoName, old)
         /\ Stored(old, NoName, old) = old
<1>1. PICK v : v = Stored(f, n, old)
  OBVIOUS
<1>2. PICK w : w = Stored(f, NoName, old)
  OBVIOUS
<1>3. v \in Value /\ (f.of # Unset => v.of = f.of)
  BY <1>1 DEF Stored, Form, Value, Names, NoName
<1>4. Stored(f, NoName, w) = w
  BY <1>2 DEF Stored, Form, Value, Names, NoName
<1>5. Stored(old, NoName, old) = old
  BY ProfileAssumption DEF Stored, Form, Value, Names, NoName, ProfileAssumption
<1> QED
  BY <1>1, <1>2, <1>3, <1>4, <1>5

\* A call is known by its kind.
LEMMA CallKinds ==
  ASSUME NEW c \in Calls
  PROVE  /\ c.kind \in {"idle", "load", "save"}
         /\ c.kind = "idle" => c = Idle
         /\ c.kind = "load" => c \in LoadCalls
         /\ c.kind = "save" => c \in SaveCalls
BY DEF Calls, Idle, LoadCalls, SaveCalls

\* One slot changes.
LEMMA SlotSet ==
  ASSUME Types, NEW s \in Slots, NEW c \in Calls, call' = [call EXCEPT ![s] = c]
  PROVE  /\ call' \in [Slots -> Calls]
         /\ call'[s] = c /\ \A x \in Slots \ {s} : call'[x] = call[x]
BY DEF Types

\* A call that is over.
LEMMA SlotOver ==
  ASSUME Types, NEW s \in Slots, call' = Over(s)
  PROVE  /\ call' \in [Slots -> Calls]
         /\ call'[s].kind = "idle" /\ \A x \in Slots \ {s} : call'[x] = call[x]
BY SlotSet DEF Over, Idle, Calls

\* A call that is answered, or not.
LEMMA SlotAnswered ==
  ASSUME Types, NEW s \in Slots, call[s].kind \in {"load", "save"},
         NEW st \in Stages, call' = Answer(s, st)
  PROVE  /\ call' \in [Slots -> Calls] /\ \A x \in Slots \ {s} : call'[x] = call[x]
         /\ call'[s].stage = st /\ call'[s].kind = call[s].kind /\ call'[s].user = call[s].user
         /\ call'[s].got = call[s].got
         /\ call[s].kind = "save" => /\ call'[s].from = call[s].from /\ call'[s].here = call[s].here
                                    /\ call'[s].form = call[s].form /\ call'[s].named = call[s].named
<1>1. PICK c : c = [call[s] EXCEPT !.stage = st]
  OBVIOUS
<1>2. call' = [call EXCEPT ![s] = c]
  BY <1>1 DEF Answer, Types
<1>3. call[s] \in Calls
  BY DEF Types
<1>4. CASE call[s].kind = "load"
  <2>1. call[s] \in LoadCalls
    BY <1>3, <1>4, CallKinds
  <2>2. c \in Calls /\ c.stage = st /\ c.kind = "load" /\ c.user = call[s].user /\ c.got = call[s].got
    BY <1>1, <2>1 DEF LoadCalls, Calls
  <2> QED
    BY <1>2, <1>4, <2>2, SlotSet
<1>5. CASE call[s].kind = "save"
  <2>1. call[s] \in SaveCalls
    BY <1>3, <1>5, CallKinds
  <2>2. /\ c \in Calls /\ c.stage = st /\ c.kind = "save" /\ c.user = call[s].user
        /\ c.from = call[s].from /\ c.here = call[s].here /\ c.form = call[s].form
        /\ c.named = call[s].named /\ c.got = call[s].got
    BY <1>1, <2>1 DEF SaveCalls, Calls
  <2> QED
    BY <1>2, <1>5, <2>2, SlotSet
<1> QED
  BY <1>4, <1>5

\* A save goes on unheard, or goes on as it is.
Unheard(c, d) ==
  /\ d.kind = "save" /\ ~d.here /\ d.from = c.from /\ d.user = c.user
  /\ d.form = c.form /\ d.named = c.named /\ d.stage = c.stage /\ d.got = c.got

\* The calls of a page that is left.
LEMMA SlotsLeft ==
  ASSUME Types
  PROVE  /\ Left \in [Slots -> Calls]
         /\ \A x \in Slots : IF call[x].kind = "save" THEN Unheard(call[x], Left[x])
                                                    ELSE Left[x] = Idle /\ Left[x].kind = "idle"
<1> SUFFICES ASSUME NEW x \in Slots
             PROVE  /\ Left[x] \in Calls
                    /\ IF call[x].kind = "save" THEN Unheard(call[x], Left[x])
                                                ELSE Left[x] = Idle /\ Left[x].kind = "idle"
  BY DEF Left
<1>1. CASE call[x].kind = "save"
  <2>1. call[x] \in SaveCalls
    BY <1>1, CallKinds DEF Types
  <2>2. PICK c : c = [call[x] EXCEPT !.here = FALSE]
    OBVIOUS
  <2>3. c \in Calls /\ Unheard(call[x], c)
    BY <2>1, <2>2 DEF SaveCalls, Calls, Unheard
  <2>4. Left[x] = c
    BY <1>1, <2>2 DEF Left
  <2> QED
    BY <1>1, <2>3, <2>4
<1>2. CASE call[x].kind # "save"
  BY <1>2 DEF Left, Idle, Calls
<1> QED
  BY <1>1, <1>2

\* Trust is lost, and never comes back.
LEMMA TrustFalls ==
  ASSUME Types, NEW t \in {"own", "nothing"}
  PROVE  /\ NoMoreThan(t) \in Trusts /\ NoMoreThan(t) # "all"
         /\ NoMoreThan(t) # "nothing" => trust # "nothing" /\ t = "own"
BY DEF Types, Trusts, NoMoreThan

\* What the invariant says as long as there is some trust.
LEMMA Owning ==
  ASSUME IInv, trust # "nothing"
  PROVE  token \in {Nobody, last} /\ OwnProfiles /\ OwnSaves /\ OwnReads /\ OwnForm
BY DEF IInv, Own

\* What it says as long as there is all trust.
LEMMA Knowing ==
  ASSUME IInv, trust = "all"
  PROVE  OneSave /\ CacheIsTrue /\ ProfileForm /\ SettingsForm
BY DEF IInv, Current

\* The profile page opens.
LEMMA OpenProfileKeeps ==
  ASSUME IInv, OpenProfile
  PROVE  IInv'
<1>1. /\ screen' \in Screens /\ screen'.page = "profile" /\ ~screen'.editing /\ ~screen'.unsaved
      /\ screen'.form = (IF cache.data = None THEN Blank ELSE cache.data) /\ screen'.named = NoName
      /\ fetch' \in Fetches /\ (fetch' = fetch \/ (fetch'.stage = "sent" /\ fetch'.as = token))
      /\ (cache.data = None \/ cache.stale \/ fetch.stage # "idle") => fetch'.stage # "idle"
      /\ cache' \in Caches /\ cache'.data = cache.data /\ cache'.stale = cache.stale
      /\ call' \in [Slots -> Calls]
      /\ \A x \in Slots : IF call[x].kind = "save" THEN Unheard(call[x], call'[x])
                                                 ELSE call'[x].kind = "idle"
      /\ UNCHANGED <<profile, token, last, trust, saves, faults>>
  <2>1. call' = Left /\ call' \in [Slots -> Calls]
    BY SlotsLeft DEF OpenProfile, IInv
  <2>2. cache' \in Caches /\ cache'.data = cache.data /\ cache'.stale = cache.stale
    BY DEF OpenProfile, IInv, Types, Caches
  <2>3. /\ fetch' = fetch \/ fetch' = Fetching
        /\ (cache.data = None \/ cache.stale) /\ fetch.stage = "idle" => fetch' = Fetching
    BY DEF OpenProfile
  <2>4. Fetching \in Fetches /\ Fetching.stage = "sent" /\ Fetching.as = token
    BY DEF Fetching, Fetches, IInv, Types
  <2>5. cache.data = None \/ cache.data \in Value
    BY DEF IInv, Types, Caches
  <2>6. /\ screen' \in Screens /\ screen'.page = "profile" /\ ~screen'.editing /\ ~screen'.unsaved
        /\ screen'.form = IF cache.data = None THEN Blank ELSE cache.data
        /\ screen'.named = NoName
    BY <2>5, NoData DEF OpenProfile, Page, Screens
  <2>7. fetch \in Fetches
    BY DEF IInv, Types
  <2>8. /\ UNCHANGED <<profile, token, last, trust, saves, faults>>
    BY DEF OpenProfile, Bounds
  <2> QED
    BY <2>1, <2>2, <2>3, <2>4, <2>6, <2>7, <2>8, SlotsLeft DEF IInv
<1>2. Types'
  BY <1>1 DEF IInv, Types
<1>3. Answers'
  BY <1>1 DEF IInv, Answers, Unheard
<1>4. PageCalls'
  BY <1>1 DEF IInv, PageCalls, Unheard
<1>5. Own'
  <2> SUFFICES ASSUME trust' # "nothing"
               PROVE  /\ token' \in {Nobody, last'} /\ OwnProfiles'
                      /\ OwnSaves' /\ OwnReads' /\ OwnForm'
    BY DEF Own
  <2>1. /\ trust # "nothing" /\ token \in {Nobody, last}
        /\ OwnProfiles /\ OwnSaves /\ OwnReads /\ OwnForm
    BY <1>1, Owning
  <2>2. token' \in {Nobody, last'} /\ OwnProfiles'
    BY <1>1, <2>1 DEF OwnProfiles
  <2>3. OwnSaves'
    BY <1>1, <2>1 DEF OwnSaves, Unheard
  <2>4. OwnReads'
    BY <1>1, <2>1 DEF OwnReads, Unheard
  <2>5. OwnForm'
    BY <1>1, <2>1, NoData DEF OwnForm, OwnReads
  <2> QED
    BY <2>2, <2>3, <2>4, <2>5
<1>6. Current'
  <2> SUFFICES ASSUME trust' = "all"
               PROVE  OneSave' /\ CacheIsTrue' /\ ProfileForm' /\ SettingsForm'
    BY DEF Current
  <2>1. trust = "all" /\ OneSave /\ CacheIsTrue /\ ProfileForm /\ SettingsForm
    BY <1>1, Knowing
  <2>2. token \in {Nobody, last} /\ OwnProfiles /\ OwnSaves /\ OwnReads /\ OwnForm
    BY <2>1, Owning
  <2>3. OneSave'
    BY <1>1, <2>1 DEF OneSave, Unheard
  <2>4. CacheIsTrue'
    BY <1>1, <2>1 DEF CacheIsTrue, Committed, Unheard
  <2>5. ProfileForm'
    BY <1>1, <2>1 DEF ProfileForm, Unheard
  <2>6. SettingsForm'
    BY <1>1, <2>1 DEF SettingsForm, Unheard
  <2> QED
    BY <2>3, <2>4, <2>5, <2>6
<1> QED
  BY <1>2, <1>3, <1>4, <1>5, <1>6 DEF IInv

\* The settings open, and load.
LEMMA OpenSettingsKeeps ==
  ASSUME IInv, OpenSettings
  PROVE  IInv'
<1>1. /\ screen' \in Screens /\ screen'.page = "settings"
      /\ screen'.form = Blank /\ screen'.original = Fieldless /\ ~screen'.editing /\ ~screen'.unsaved
      /\ call' \in [Slots -> Calls]
      /\ \A x \in Slots :
           \/ call[x].kind = "save" /\ Unheard(call[x], call'[x])
           \/ call[x].kind # "save" /\ call'[x].kind = "idle"
           \/ /\ call[x].kind # "save" /\ call'[x].kind = "load" /\ call'[x].user = token
              /\ call'[x].stage = "sent"
      /\ \E x \in Slots : call'[x].kind = "load"
      /\ trust' \in Trusts /\ (trust' # "nothing" => trust # "nothing")
      /\ trust' = "all" => trust = "all" /\ \A x \in Slots : call[x].kind # "save"
      /\ UNCHANGED <<profile, token, cache, fetch, last, saves, faults>>
  <2>1. PICK c : c = [kind |-> "load", user |-> token, stage |-> "sent", got |-> None]
    OBVIOUS
  <2>2. c \in Calls /\ c.kind = "load" /\ c.user = token /\ c.stage = "sent"
    BY <2>1 DEF Calls, LoadCalls, Stages, IInv, Types
  <2>3. PICK s \in Slots : Left[s] = Idle /\ call' = [Left EXCEPT ![s] = c]
    BY <2>1 DEF OpenSettings
  <2>4. /\ Left \in [Slots -> Calls]
        /\ \A x \in Slots : IF call[x].kind = "save" THEN Unheard(call[x], Left[x])
                                                   ELSE Left[x] = Idle /\ Left[x].kind = "idle"
    BY SlotsLeft DEF IInv
  <2>5. call[s].kind # "save"
    BY <2>3, <2>4 DEF Unheard, Idle
  <2>6. /\ call' \in [Slots -> Calls] /\ call'[s] = c
        /\ \A x \in Slots \ {s} : call'[x] = Left[x]
    BY <2>2, <2>3, <2>4
  <2>7. screen' = Page("settings")
    BY DEF OpenSettings
  <2>8. screen' \in Screens /\ screen'.page = "settings" /\ screen'.form = Blank /\ screen'.original = Fieldless /\ ~screen'.editing /\ ~screen'.unsaved
    BY <2>7, NoData DEF Page, Screens
  <2>9. Of("save") = {} <=> \A x \in Slots : call[x].kind # "save"
    BY DEF Of, Busy
  <2>10. /\ trust' \in Trusts /\ (trust' # "nothing" => trust # "nothing")
         /\ trust' = "all" => trust = "all" /\ Of("save") = {}
    BY TrustFalls DEF OpenSettings, Losing, IInv, Types
  <2>11. /\ UNCHANGED <<profile, token, cache, fetch, last, saves, faults>>
    BY DEF OpenSettings, Query, Bounds
  <2> QED
    BY <2>2, <2>4, <2>5, <2>6, <2>8, <2>9, <2>10, <2>11
<1>2. Types'
  BY <1>1 DEF IInv, Types
<1>3. Answers'
  BY <1>1 DEF IInv, Answers, Unheard
<1>4. PageCalls'
  BY <1>1 DEF IInv, PageCalls, Unheard
<1>5. Own'
  <2> SUFFICES ASSUME trust' # "nothing"
               PROVE  /\ token' \in {Nobody, last'} /\ OwnProfiles'
                      /\ OwnSaves' /\ OwnReads' /\ OwnForm'
    BY DEF Own
  <2>1. /\ trust # "nothing" /\ token \in {Nobody, last}
        /\ OwnProfiles /\ OwnSaves /\ OwnReads /\ OwnForm
    BY <1>1, Owning
  <2>2. token' \in {Nobody, last'} /\ OwnProfiles'
    BY <1>1, <2>1 DEF OwnProfiles
  <2>3. OwnSaves'
    BY <1>1, <2>1 DEF OwnSaves, Unheard
  <2>4. OwnReads'
    BY <1>1, <2>1 DEF OwnReads, Unheard
  <2>5. OwnForm'
    BY <1>1, <2>1, NoData DEF OwnForm, Unheard
  <2> QED
    BY <2>2, <2>3, <2>4, <2>5
<1>6. Current'
  <2> SUFFICES ASSUME trust' = "all"
               PROVE  OneSave' /\ CacheIsTrue' /\ ProfileForm' /\ SettingsForm'
    BY DEF Current
  <2>1. trust = "all" /\ OneSave /\ CacheIsTrue /\ ProfileForm /\ SettingsForm
    BY <1>1, Knowing
  <2>2. token \in {Nobody, last} /\ OwnProfiles /\ OwnSaves /\ OwnReads /\ OwnForm
    BY <2>1, Owning
  <2>3. OneSave'
    BY <1>1, <2>1 DEF OneSave, Unheard
  <2>4. CacheIsTrue'
    BY <1>1, <2>1 DEF CacheIsTrue, Committed, Unheard
  <2>5. ProfileForm'
    BY <1>1, <2>1 DEF ProfileForm, Unheard
  <2>6. SettingsForm'
    BY <1>1, <2>1, NoData DEF SettingsForm, Unheard
  <2> QED
    BY <2>3, <2>4, <2>5, <2>6
<1> QED
  BY <1>2, <1>3, <1>4, <1>5, <1>6 DEF IInv

\* The page is left.
LEMMA GoElsewhereKeeps ==
  ASSUME IInv, GoElsewhere
  PROVE  IInv'
<1>1. /\ screen' \in Screens /\ screen'.page = "home"
      /\ call' \in [Slots -> Calls]
      /\ \A x \in Slots : IF call[x].kind = "save" THEN Unheard(call[x], call'[x])
                                                 ELSE call'[x].kind = "idle"
      /\ UNCHANGED <<profile, token, cache, fetch, last, trust, saves, faults>>
  <2>1. call' = Left /\ screen' = Page("home")
    BY DEF GoElsewhere
  <2>2. screen' \in Screens /\ screen'.page = "home"
    BY <2>1, NoData DEF Page, Screens
  <2>3. /\ UNCHANGED <<profile, token, cache, fetch, last, trust, saves, faults>>
    BY DEF GoElsewhere, Query, Bounds
  <2> QED
    BY <2>1, <2>2, <2>3, SlotsLeft DEF IInv
<1>2. Types'
  BY <1>1 DEF IInv, Types
<1>3. Answers'
  BY <1>1 DEF IInv, Answers, Unheard
<1>4. PageCalls'
  BY <1>1 DEF IInv, PageCalls, Unheard
<1>5. Own'
  <2> SUFFICES ASSUME trust' # "nothing"
               PROVE  /\ token' \in {Nobody, last'} /\ OwnProfiles'
                      /\ OwnSaves' /\ OwnReads' /\ OwnForm'
    BY DEF Own
  <2>1. /\ trust # "nothing" /\ token \in {Nobody, last}
        /\ OwnProfiles /\ OwnSaves /\ OwnReads /\ OwnForm
    BY <1>1, Owning
  <2>2. token' \in {Nobody, last'} /\ OwnProfiles'
    BY <1>1, <2>1 DEF OwnProfiles
  <2>3. OwnSaves'
    BY <1>1, <2>1 DEF OwnSaves, Unheard
  <2>4. OwnReads'
    BY <1>1, <2>1 DEF OwnReads, Unheard
  <2>5. OwnForm'
    BY <1>1, <2>1 DEF OwnForm, Unheard
  <2> QED
    BY <2>2, <2>3, <2>4, <2>5
<1>6. Current'
  <2> SUFFICES ASSUME trust' = "all"
               PROVE  OneSave' /\ CacheIsTrue' /\ ProfileForm' /\ SettingsForm'
    BY DEF Current
  <2>1. trust = "all" /\ OneSave /\ CacheIsTrue /\ ProfileForm /\ SettingsForm
    BY <1>1, Knowing
  <2>2. token \in {Nobody, last} /\ OwnProfiles /\ OwnSaves /\ OwnReads /\ OwnForm
    BY <2>1, Owning
  <2>3. OneSave'
    BY <1>1, <2>1 DEF OneSave, Unheard
  <2>4. CacheIsTrue'
    BY <1>1, <2>1 DEF CacheIsTrue, Committed, Unheard
  <2>5. ProfileForm'
    BY <1>1, <2>1 DEF ProfileForm, Unheard
  <2>6. SettingsForm'
    BY <1>1, <2>1 DEF SettingsForm, Unheard
  <2> QED
    BY <2>3, <2>4, <2>5, <2>6
<1> QED
  BY <1>2, <1>3, <1>4, <1>5, <1>6 DEF IInv

\* The browser is reloaded.
LEMMA ReloadKeeps ==
  ASSUME IInv, Reload
  PROVE  IInv'
<1>1. /\ screen' \in Screens /\ screen'.page = "home"
      /\ cache' \in Caches /\ cache'.data = None
      /\ fetch' \in Fetches /\ fetch'.stage = "idle"
      /\ screen.page = "crashed" /\ \A x \in Slots : call[x].kind = "idle"
      /\ UNCHANGED <<profile, token, call, last, trust, saves, faults>>
  <2>1. screen' \in Screens /\ screen'.page = "home"
    BY NoData DEF Reload, Page, Screens
  <2>2. cache' \in Caches /\ cache'.data = None /\ fetch' \in Fetches /\ fetch'.stage = "idle"
    BY DEF Reload, EmptyCache, NoFetch, Caches, Fetches
  <2>3. /\ UNCHANGED <<profile, token, call, last, trust, saves, faults>>
    BY DEF Reload, Bounds
  <2> QED
    BY <2>1, <2>2, <2>3 DEF Reload, Busy
<1>2. Types'
  BY <1>1 DEF IInv, Types
<1>3. Answers'
  BY <1>1 DEF IInv, Answers
<1>4. PageCalls'
  BY <1>1 DEF IInv, PageCalls
<1>5. Own'
  <2> SUFFICES ASSUME trust' # "nothing"
               PROVE  /\ token' \in {Nobody, last'} /\ OwnProfiles'
                      /\ OwnSaves' /\ OwnReads' /\ OwnForm'
    BY DEF Own
  <2>1. /\ trust # "nothing" /\ token \in {Nobody, last}
        /\ OwnProfiles /\ OwnSaves /\ OwnReads /\ OwnForm
    BY <1>1, Owning
  <2>2. token' \in {Nobody, last'} /\ OwnProfiles'
    BY <1>1, <2>1 DEF OwnProfiles
  <2>3. OwnSaves'
    BY <1>1, <2>1 DEF OwnSaves
  <2>4. OwnReads'
    BY <1>1, <2>1 DEF OwnReads
  <2>5. OwnForm'
    BY <1>1, <2>1 DEF OwnForm
  <2> QED
    BY <2>2, <2>3, <2>4, <2>5
<1>6. Current'
  <2> SUFFICES ASSUME trust' = "all"
               PROVE  OneSave' /\ CacheIsTrue' /\ ProfileForm' /\ SettingsForm'
    BY DEF Current
  <2>1. trust = "all" /\ OneSave /\ CacheIsTrue /\ ProfileForm /\ SettingsForm
    BY <1>1, Knowing
  <2>2. token \in {Nobody, last} /\ OwnProfiles /\ OwnSaves /\ OwnReads /\ OwnForm
    BY <2>1, Owning
  <2>3. OneSave'
    BY <1>1, <2>1 DEF OneSave
  <2>4. CacheIsTrue'
    BY <1>1, <2>1 DEF CacheIsTrue, Committed
  <2>5. ProfileForm'
    BY <1>1, <2>1 DEF ProfileForm
  <2>6. SettingsForm'
    BY <1>1, <2>1 DEF SettingsForm
  <2> QED
    BY <2>3, <2>4, <2>5, <2>6
<1> QED
  BY <1>2, <1>3, <1>4, <1>5, <1>6 DEF IInv

\* The user signs out.
LEMMA LogoutKeeps ==
  ASSUME IInv, Logout
  PROVE  IInv'
<1>1. /\ screen' \in Screens /\ screen'.page = "home"
      /\ cache' \in Caches /\ cache'.data = None
      /\ fetch' \in Fetches /\ fetch'.stage = "idle"
      /\ token' = Nobody /\ last' = Nobody
      /\ call' \in [Slots -> Calls]
      /\ \A x \in Slots : IF call[x].kind = "save" THEN Unheard(call[x], call'[x])
                                                 ELSE call'[x].kind = "idle"
      /\ UNCHANGED <<profile, trust, saves, faults>>
  <2>1. screen' \in Screens /\ screen'.page = "home"
    BY NoData DEF Logout, Page, Screens
  <2>2. cache' \in Caches /\ cache'.data = None /\ fetch' \in Fetches /\ fetch'.stage = "idle"
    BY DEF Logout, AfterLogout, EmptyCache, NoFetch, Caches, Fetches
  <2>3. call' = Left
    BY DEF Logout
  <2>4. /\ UNCHANGED <<profile, trust, saves, faults>>
    BY DEF Logout, Bounds
  <2> QED
    BY <2>1, <2>2, <2>3, <2>4, SlotsLeft DEF Logout, IInv
<1>2. Types'
  BY <1>1 DEF IInv, Types
<1>3. Answers'
  BY <1>1 DEF IInv, Answers, Unheard
<1>4. PageCalls'
  BY <1>1 DEF IInv, PageCalls, Unheard
<1>5. Own'
  <2> SUFFICES ASSUME trust' # "nothing"
               PROVE  /\ token' \in {Nobody, last'} /\ OwnProfiles'
                      /\ OwnSaves' /\ OwnReads' /\ OwnForm'
    BY DEF Own
  <2>1. /\ trust # "nothing" /\ token \in {Nobody, last}
        /\ OwnProfiles /\ OwnSaves /\ OwnReads /\ OwnForm
    BY <1>1, Owning
  <2>2. token' \in {Nobody, last'} /\ OwnProfiles'
    BY <1>1, <2>1 DEF OwnProfiles
  <2>3. OwnSaves'
    BY <1>1, <2>1 DEF OwnSaves, Unheard
  <2>4. OwnReads'
    BY <1>1, <2>1 DEF OwnReads, Unheard
  <2>5. OwnForm'
    BY <1>1, <2>1 DEF OwnForm, Unheard
  <2> QED
    BY <2>2, <2>3, <2>4, <2>5
<1>6. Current'
  <2> SUFFICES ASSUME trust' = "all"
               PROVE  OneSave' /\ CacheIsTrue' /\ ProfileForm' /\ SettingsForm'
    BY DEF Current
  <2>1. trust = "all" /\ OneSave /\ CacheIsTrue /\ ProfileForm /\ SettingsForm
    BY <1>1, Knowing
  <2>2. token \in {Nobody, last} /\ OwnProfiles /\ OwnSaves /\ OwnReads /\ OwnForm
    BY <2>1, Owning
  <2>3. OneSave'
    BY <1>1, <2>1 DEF OneSave, Unheard
  <2>4. CacheIsTrue'
    BY <1>1, <2>1 DEF CacheIsTrue, Committed, Unheard
  <2>5. ProfileForm'
    BY <1>1, <2>1 DEF ProfileForm, Unheard
  <2>6. SettingsForm'
    BY <1>1, <2>1 DEF SettingsForm, Unheard
  <2> QED
    BY <2>3, <2>4, <2>5, <2>6
<1> QED
  BY <1>2, <1>3, <1>4, <1>5, <1>6 DEF IInv

\* A session expires.
LEMMA SessionEndsKeeps ==
  ASSUME IInv, SessionEnds
  PROVE  IInv'
<1>1. /\ token' = Nobody
      /\ UNCHANGED <<profile, cache, fetch, screen, call, last, trust, saves, faults>>
  BY DEF SessionEnds, Query, Bounds
<1>2. Types'
  BY <1>1 DEF IInv, Types
<1>3. Answers'
  BY <1>1 DEF IInv, Answers
<1>4. PageCalls'
  BY <1>1 DEF IInv, PageCalls
<1>5. Own'
  <2> SUFFICES ASSUME trust' # "nothing"
               PROVE  /\ token' \in {Nobody, last'} /\ OwnProfiles'
                      /\ OwnSaves' /\ OwnReads' /\ OwnForm'
    BY DEF Own
  <2>1. /\ trust # "nothing" /\ token \in {Nobody, last}
        /\ OwnProfiles /\ OwnSaves /\ OwnReads /\ OwnForm
    BY <1>1, Owning
  <2>2. token' \in {Nobody, last'} /\ OwnProfiles'
    BY <1>1, <2>1 DEF OwnProfiles
  <2>3. OwnSaves'
    BY <1>1, <2>1 DEF OwnSaves
  <2>4. OwnReads'
    BY <1>1, <2>1 DEF OwnReads
  <2>5. OwnForm'
    BY <1>1, <2>1 DEF OwnForm
  <2> QED
    BY <2>2, <2>3, <2>4, <2>5
<1>6. Current'
  <2> SUFFICES ASSUME trust' = "all"
               PROVE  OneSave' /\ CacheIsTrue' /\ ProfileForm' /\ SettingsForm'
    BY DEF Current
  <2>1. trust = "all" /\ OneSave /\ CacheIsTrue /\ ProfileForm /\ SettingsForm
    BY <1>1, Knowing
  <2>2. token \in {Nobody, last} /\ OwnProfiles /\ OwnSaves /\ OwnReads /\ OwnForm
    BY <2>1, Owning
  <2>3. OneSave'
    BY <1>1, <2>1 DEF OneSave
  <2>4. CacheIsTrue'
    BY <1>1, <2>1 DEF CacheIsTrue, Committed
  <2>5. ProfileForm'
    BY <1>1, <2>1 DEF ProfileForm
  <2>6. SettingsForm'
    BY <1>1, <2>1 DEF SettingsForm
  <2> QED
    BY <2>3, <2>4, <2>5, <2>6
<1> QED
  BY <1>2, <1>3, <1>4, <1>5, <1>6 DEF IInv

\* A token is stored.
LEMMA SignInKeeps ==
  ASSUME IInv, NEW u \in Users, SignIn(u)
  PROVE  IInv'
<1>1. /\ token' = u /\ last' = u
      /\ trust' \in Trusts /\ (trust' # "nothing" => trust # "nothing" /\ last \in {u, Nobody})
      /\ trust' = "all" => trust = "all"
      /\ UNCHANGED <<profile, cache, fetch, screen, call, saves, faults>>
  <2>1. /\ trust' \in Trusts /\ (trust' # "nothing" => trust # "nothing" /\ last \in {u, Nobody})
        /\ trust' = "all" => trust = "all"
    BY TrustFalls DEF SignIn, Losing, IInv, Types
  <2> QED
    BY <2>1 DEF SignIn, Query, Bounds
<1>2. Types'
  BY <1>1 DEF IInv, Types
<1>3. Answers'
  BY <1>1 DEF IInv, Answers
<1>4. PageCalls'
  BY <1>1 DEF IInv, PageCalls
<1>5. Own'
  <2> SUFFICES ASSUME trust' # "nothing"
               PROVE  /\ token' \in {Nobody, last'} /\ OwnProfiles'
                      /\ OwnSaves' /\ OwnReads' /\ OwnForm'
    BY DEF Own
  <2>1. /\ trust # "nothing" /\ token \in {Nobody, last}
        /\ OwnProfiles /\ OwnSaves /\ OwnReads /\ OwnForm
    BY <1>1, Owning
  <2>2. token' \in {Nobody, last'} /\ OwnProfiles'
    BY <1>1, <2>1 DEF OwnProfiles
  <2>3. OwnSaves'
    BY <1>1, <2>1 DEF OwnSaves
  <2>4. OwnReads'
    BY <1>1, <2>1 DEF OwnReads, IInv, Answers
  <2>5. OwnForm'
    BY <1>1, <2>1 DEF OwnForm, OwnReads
  <2> QED
    BY <2>2, <2>3, <2>4, <2>5
<1>6. Current'
  <2> SUFFICES ASSUME trust' = "all"
               PROVE  OneSave' /\ CacheIsTrue' /\ ProfileForm' /\ SettingsForm'
    BY DEF Current
  <2>1. trust = "all" /\ OneSave /\ CacheIsTrue /\ ProfileForm /\ SettingsForm
    BY <1>1, Knowing
  <2>2. token \in {Nobody, last} /\ OwnProfiles /\ OwnSaves /\ OwnReads /\ OwnForm
    BY <2>1, Owning
  <2>3. OneSave'
    BY <1>1, <2>1 DEF OneSave
  <2>4. CacheIsTrue'
    BY <1>1, <2>1, <2>2 DEF CacheIsTrue, Committed, IInv, Answers, OwnReads
  <2>5. ProfileForm'
    BY <1>1, <2>1, <2>2 DEF ProfileForm, OwnReads
  <2>6. SettingsForm'
    BY <1>1, <2>1, <2>2 DEF SettingsForm, IInv, Answers, OwnReads, OwnForm
  <2> QED
    BY <2>3, <2>4, <2>5, <2>6
<1> QED
  BY <1>2, <1>3, <1>4, <1>5, <1>6 DEF IInv

\* The query reads the profile.
LEMMA ReadForQueryKeeps ==
  ASSUME IInv, ReadForQuery
  PROVE  IInv'
<1>1. /\ fetch' \in Fetches /\ fetch.stage = "sent" /\ fetch'.as = fetch.as
      /\ \/ fetch'.stage = "refused"
         \/ /\ fetch'.stage = "ok" /\ fetch.as \in Users /\ fetch'.got = profile[fetch.as]
            /\ fetch'.got \in Value
      /\ UNCHANGED <<profile, token, cache, screen, call, last, trust, saves, faults>>
  <2>1. /\ UNCHANGED <<profile, token, cache, screen, call, last, trust, saves, faults>>
    BY DEF ReadForQuery, Bounds
  <2>2. fetch \in Fetches /\ fetch.stage = "sent"
    BY DEF ReadForQuery, IInv, Types
  <2>3. CASE fetch.as # Nobody
    <3>1. fetch.as \in Users
      BY <2>2, <2>3 DEF Fetches
    <3>2. profile[fetch.as] \in Value
      BY <3>1 DEF IInv, Types
    <3>3. fetch' = [fetch EXCEPT !.stage = "ok", !.got = profile[fetch.as]]
      BY <2>3 DEF ReadForQuery
    <3> QED
      BY <2>2, <2>1, <3>1, <3>2, <3>3 DEF Fetches
  <2>4. CASE fetch.as = Nobody
    <3>1. fetch' = [fetch EXCEPT !.stage = "refused"]
      BY <2>4 DEF ReadForQuery
    <3> QED
      BY <2>2, <2>1, <3>1 DEF Fetches
  <2> QED
    BY <2>2, <2>3, <2>4, <2>1
<1>2. Types'
  BY <1>1 DEF IInv, Types
<1>3. Answers'
  BY <1>1, ProfileAssumption DEF IInv, Answers, ProfileAssumption
<1>4. PageCalls'
  BY <1>1 DEF IInv, PageCalls
<1>5. Own'
  <2> SUFFICES ASSUME trust' # "nothing"
               PROVE  /\ token' \in {Nobody, last'} /\ OwnProfiles'
                      /\ OwnSaves' /\ OwnReads' /\ OwnForm'
    BY DEF Own
  <2>1. /\ trust # "nothing" /\ token \in {Nobody, last}
        /\ OwnProfiles /\ OwnSaves /\ OwnReads /\ OwnForm
    BY <1>1, Owning
  <2>2. token' \in {Nobody, last'} /\ OwnProfiles'
    BY <1>1, <2>1 DEF OwnProfiles
  <2>3. OwnSaves'
    BY <1>1, <2>1 DEF OwnSaves
  <2>4. OwnReads'
    BY <1>1, <2>1, ProfileAssumption DEF OwnReads, ProfileAssumption, OwnProfiles
  <2>5. OwnForm'
    BY <1>1, <2>1 DEF OwnForm
  <2> QED
    BY <2>2, <2>3, <2>4, <2>5
<1>6. Current'
  <2> SUFFICES ASSUME trust' = "all"
               PROVE  OneSave' /\ CacheIsTrue' /\ ProfileForm' /\ SettingsForm'
    BY DEF Current
  <2>1. trust = "all" /\ OneSave /\ CacheIsTrue /\ ProfileForm /\ SettingsForm
    BY <1>1, Knowing
  <2>2. token \in {Nobody, last} /\ OwnProfiles /\ OwnSaves /\ OwnReads /\ OwnForm
    BY <2>1, Owning
  <2>3. OneSave'
    BY <1>1, <2>1 DEF OneSave
  <2>4. CacheIsTrue'
    BY <1>1, <2>1, <2>2, ProfileAssumption DEF CacheIsTrue, Committed,
           ProfileAssumption, OwnReads, OwnProfiles
  <2>5. ProfileForm'
    BY <1>1, <2>1 DEF ProfileForm
  <2>6. SettingsForm'
    BY <1>1, <2>1 DEF SettingsForm
  <2> QED
    BY <2>3, <2>4, <2>5, <2>6
<1> QED
  BY <1>2, <1>3, <1>4, <1>5, <1>6 DEF IInv

\* The settings read the profile.
LEMMA ReadForSettingsKeeps ==
  ASSUME IInv, NEW s \in Slots, ReadForSettings(s)
  PROVE  IInv'
<1>1. /\ call[s].kind = "load" /\ call[s].stage = "sent"
      /\ call' \in [Slots -> Calls] /\ \A x \in Slots \ {s} : call'[x] = call[x]
      /\ call'[s].kind = "load" /\ call'[s].user = call[s].user
      /\ \/ call'[s].stage = "refused"
         \/ /\ call'[s].stage = "ok" /\ call[s].user \in Users
            /\ call'[s].got = profile[call[s].user] /\ call'[s].got \in Value
      /\ UNCHANGED <<profile, token, cache, fetch, screen, last, trust, saves, faults>>
  <2>1. /\ UNCHANGED <<profile, token, cache, fetch, screen, last, trust, saves, faults>>
    BY DEF ReadForSettings, Query, Bounds
  <2>2. call[s].kind = "load" /\ call[s].stage = "sent"
    BY DEF ReadForSettings, At
  <2>3. call[s] \in LoadCalls
    BY <2>2, CallKinds DEF IInv, Types
  <2>4. CASE call[s].user # Nobody
    <3>1. call[s].user \in Users
      BY <2>3, <2>4 DEF LoadCalls
    <3>2. profile[call[s].user] \in Value
      BY <3>1 DEF IInv, Types
    <3>3. PICK c : c = [call[s] EXCEPT !.stage = "ok", !.got = profile[call[s].user]]
      OBVIOUS
    <3>4. /\ c \in Calls /\ c.kind = "load" /\ c.user = call[s].user /\ c.stage = "ok"
          /\ c.got = profile[call[s].user]
      BY <2>3, <3>2, <3>3 DEF LoadCalls, Calls, Stages
    <3>5. call' = [call EXCEPT ![s] = c]
      BY <2>4, <3>3 DEF ReadForSettings, IInv, Types
    <3> QED
      BY <2>2, <2>1, <3>1, <3>2, <3>4, <3>5, SlotSet DEF IInv
  <2>5. CASE call[s].user = Nobody
    <3>1. call' = Answer(s, "refused")
      BY <2>5 DEF ReadForSettings
    <3> QED
      BY <2>2, <2>1, <3>1, SlotAnswered DEF IInv, Stages
  <2> QED
    BY <2>2, <2>4, <2>5, <2>1
<1>2. Types'
  BY <1>1 DEF IInv, Types
<1>3. Answers'
  BY <1>1, ProfileAssumption DEF IInv, Answers, ProfileAssumption
<1>4. PageCalls'
  BY <1>1 DEF IInv, PageCalls
<1>5. Own'
  <2> SUFFICES ASSUME trust' # "nothing"
               PROVE  /\ token' \in {Nobody, last'} /\ OwnProfiles'
                      /\ OwnSaves' /\ OwnReads' /\ OwnForm'
    BY DEF Own
  <2>1. /\ trust # "nothing" /\ token \in {Nobody, last}
        /\ OwnProfiles /\ OwnSaves /\ OwnReads /\ OwnForm
    BY <1>1, Owning
  <2>2. token' \in {Nobody, last'} /\ OwnProfiles'
    BY <1>1, <2>1 DEF OwnProfiles
  <2>3. OwnSaves'
    BY <1>1, <2>1 DEF OwnSaves
  <2>4. OwnReads'
    BY <1>1, <2>1, ProfileAssumption DEF OwnReads, ProfileAssumption, OwnProfiles
  <2>5. OwnForm'
    BY <1>1, <2>1 DEF OwnForm
  <2> QED
    BY <2>2, <2>3, <2>4, <2>5
<1>6. Current'
  <2> SUFFICES ASSUME trust' = "all"
               PROVE  OneSave' /\ CacheIsTrue' /\ ProfileForm' /\ SettingsForm'
    BY DEF Current
  <2>1. trust = "all" /\ OneSave /\ CacheIsTrue /\ ProfileForm /\ SettingsForm
    BY <1>1, Knowing
  <2>2. token \in {Nobody, last} /\ OwnProfiles /\ OwnSaves /\ OwnReads /\ OwnForm
    BY <2>1, Owning
  <2>3. OneSave'
    BY <1>1, <2>1 DEF OneSave
  <2>4. CacheIsTrue'
    BY <1>1, <2>1 DEF CacheIsTrue, Committed, OwnReads
  <2>5. ProfileForm'
    BY <1>1, <2>1 DEF ProfileForm
  <2>6. SettingsForm'
    BY <1>1, <2>1, <2>2, ProfileAssumption DEF SettingsForm, ProfileAssumption, OwnReads
  <2> QED
    BY <2>3, <2>4, <2>5, <2>6
<1> QED
  BY <1>2, <1>3, <1>4, <1>5, <1>6 DEF IInv

\* A profile is written, or the save is refused.
LEMMA CommitProfileKeeps ==
  ASSUME IInv, NEW s \in Slots, CommitProfile(s)
  PROVE  IInv'
<1>1. /\ call[s].kind = "save" /\ call[s].stage = "sent"
      /\ call' \in [Slots -> Calls] /\ \A x \in Slots \ {s} : call'[x] = call[x]
      /\ /\ call'[s].kind = "save" /\ call'[s].user = call[s].user /\ call'[s].form = call[s].form
         /\ call'[s].from = call[s].from /\ call'[s].here = call[s].here /\ call'[s].named = call[s].named
      /\ \/ call'[s].stage = "refused" /\ UNCHANGED <<profile, trust>>
         \/ /\ call'[s].stage = "ok" /\ call[s].user \in Users /\ call'[s].got \in Value
            /\ profile' = [profile EXCEPT ![call[s].user] = call'[s].got]
            /\ call[s].form.of # Unset => call'[s].got.of = call[s].form.of
            /\ call[s].named = NoName => Stored(call[s].form, NoName, call'[s].got) = call'[s].got
      /\ trust' \in Trusts /\ (trust' # "nothing" => trust # "nothing")
      /\ trust' = "all" => trust = "all" /\ (\/ call'[s].stage = "refused" \/ call[s].from = "profile"
                                          \/ (cache.data = None /\ fetch.stage # "ok"))
      /\ UNCHANGED <<token, cache, fetch, screen, last, saves, faults>>
  <2>1. /\ UNCHANGED <<token, cache, fetch, screen, last, saves, faults>>
    BY DEF CommitProfile, Query, Bounds
  <2>2. call[s].kind = "save" /\ call[s].stage = "sent"
    BY DEF CommitProfile, At
  <2>3. call[s] \in SaveCalls
    BY <2>2, CallKinds DEF IInv, Types
  <2>4. CASE call[s].user # Nobody
    <3>1. call[s].user \in Users
      BY <2>3, <2>4 DEF SaveCalls
    <3>2. PICK old \in Value : old = profile[call[s].user]
      BY <3>1 DEF IInv, Types
    <3>3. PICK v : v = Stored(call[s].form, call[s].named, old)
      OBVIOUS
    <3>4. /\ v \in Value /\ (call[s].form.of # Unset => v.of = call[s].form.of)
          /\ call[s].named = NoName => Stored(call[s].form, NoName, v) = v
      BY <2>3, <3>3, StoredIs DEF SaveCalls
    <3>5. PICK c : c = [call[s] EXCEPT !.stage = "ok", !.got = v]
      OBVIOUS
    <3>6. /\ c \in Calls /\ c.kind = "save" /\ c.user = call[s].user /\ c.form = call[s].form
          /\ c.from = call[s].from /\ c.here = call[s].here /\ c.named = call[s].named
          /\ c.stage = "ok" /\ c.got = v
      BY <2>2, <2>3, <3>4, <3>5 DEF SaveCalls, Calls, Stages
    <3>7. /\ call' = [call EXCEPT ![s] = c] /\ profile' = [profile EXCEPT ![call[s].user] = v]
          /\ trust' = Losing(call[s].from = "settings" /\ (cache.data # None \/ fetch.stage = "ok"), "own")
      BY <2>4, <3>2, <3>3, <3>5 DEF CommitProfile, IInv, Types
    <3>8. trust' \in Trusts /\ (trust' # "nothing" => trust # "nothing")
      BY <3>7, TrustFalls DEF Losing, IInv, Types
    <3>9. trust' = "all" => trust = "all" /\ (call[s].from = "profile" \/ (cache.data = None /\ fetch.stage # "ok"))
      BY <2>3, <3>7, TrustFalls DEF Losing, IInv, SaveCalls
    <3>10. call' \in [Slots -> Calls] /\ call'[s] = c /\ \A x \in Slots \ {s} : call'[x] = call[x]
      BY <3>6, <3>7, SlotSet DEF IInv
    <3> QED
      BY <2>1, <2>2, <3>1, <3>4, <3>6, <3>7, <3>8, <3>9, <3>10
  <2>5. CASE call[s].user = Nobody
    <3>1. call' = Answer(s, "refused") /\ UNCHANGED <<profile, trust>>
      BY <2>5 DEF CommitProfile
    <3> QED
      BY <2>1, <2>2, <3>1, SlotAnswered DEF IInv, Types, Stages
  <2> QED
    BY <2>4, <2>5
<1>2. Types'
  BY <1>1 DEF IInv, Types
<1>3. Answers'
  BY <1>1, ProfileAssumption DEF IInv, Answers, ProfileAssumption
<1>4. PageCalls'
  BY <1>1 DEF IInv, PageCalls
<1>5. Own'
  <2> SUFFICES ASSUME trust' # "nothing"
               PROVE  /\ token' \in {Nobody, last'} /\ OwnProfiles'
                      /\ OwnSaves' /\ OwnReads' /\ OwnForm'
    BY DEF Own
  <2>1. /\ trust # "nothing" /\ token \in {Nobody, last}
        /\ OwnProfiles /\ OwnSaves /\ OwnReads /\ OwnForm
    BY <1>1, Owning
  <2>2. token' \in {Nobody, last'} /\ OwnProfiles'
    <3>1. \A u \in Users : profile'[u] = profile[u] \/ (u = call[s].user /\ (call'[s].stage = "ok" /\ profile'[u] = call'[s].got))
      BY <1>1 DEF IInv, Types
    <3>2. call[s].user \in Users => call[s].form.of = call[s].user /\ call[s].form.of # Unset
      BY <1>1, <2>1, ProfileAssumption DEF OwnSaves, ProfileAssumption
    <3> QED
      BY <1>1, <2>1, <3>1, <3>2 DEF OwnProfiles
  <2>3. OwnSaves'
    <3>1. call'[s].stage = "ok" => /\ call[s].user # Nobody /\ call[s].form.of # Unset
                                   /\ call'[s].got.of = call[s].user
      BY <1>1, <2>1, ProfileAssumption DEF OwnSaves, ProfileAssumption
    <3> QED
      BY <1>1, <2>1, <3>1 DEF OwnSaves
  <2>4. OwnReads'
    BY <1>1, <2>1 DEF OwnReads
  <2>5. OwnForm'
    BY <1>1, <2>1 DEF OwnForm
  <2> QED
    BY <2>2, <2>3, <2>4, <2>5
<1>6. Current'
  <2> SUFFICES ASSUME trust' = "all"
               PROVE  OneSave' /\ CacheIsTrue' /\ ProfileForm' /\ SettingsForm'
    BY DEF Current
  <2>1. trust = "all" /\ OneSave /\ CacheIsTrue /\ ProfileForm /\ SettingsForm
    BY <1>1, Knowing
  <2>2. token \in {Nobody, last} /\ OwnProfiles /\ OwnSaves /\ OwnReads /\ OwnForm
    BY <2>1, Owning
  <2>3. OneSave'
    BY <1>1, <2>1 DEF OneSave, IInv, Types, PageCalls
  <2>4. CacheIsTrue'
    <3>1. last \in Users => profile'[last] = profile[last] \/ (call'[s].stage = "ok" /\ call[s].user = last)
      BY <1>1 DEF IInv, Types
    <3>2. call[s].from = "profile" /\ call'[s].stage = "ok" /\ call[s].user = last => Committed'
      BY <1>1 DEF Committed
    <3>3. ~Committed
      BY <1>1, <2>1 DEF OneSave, Committed
    <3>4. cache.data # None \/ fetch.stage = "ok" => last \in Users
      BY <2>2 DEF OwnReads, IInv, Answers, Types
    <3>5. CASE call'[s].stage = "refused"
      BY <1>1, <2>1, <3>3, <3>5 DEF CacheIsTrue
    <3>6. CASE call'[s].stage = "ok"
      BY <1>1, <2>1, <3>1, <3>2, <3>3, <3>6, <3>4 DEF CacheIsTrue
    <3> QED
      BY <1>1, <3>5, <3>6
  <2>5. ProfileForm'
    BY <1>1, <2>1, <2>2 DEF ProfileForm, IInv, Types
  <2>6. SettingsForm'
    BY <1>1, <2>1, <2>2 DEF SettingsForm, OwnSaves, OwnReads, IInv, Types
  <2> QED
    BY <2>3, <2>4, <2>5, <2>6
<1> QED
  BY <1>2, <1>3, <1>4, <1>5, <1>6 DEF IInv

\* A call fails, or its answer is lost.
LEMMA FailsKeeps ==
  ASSUME IInv, NEW s \in Slots, Fails(s)
  PROVE  IInv'
<1>1. /\ call[s].kind \in {"load", "save"} /\ call[s].stage \in {"sent", "ok"}
      /\ call' \in [Slots -> Calls] /\ \A x \in Slots \ {s} : call'[x] = call[x]
      /\ /\ call'[s].stage = "refused" /\ call'[s].kind = call[s].kind /\ call'[s].user = call[s].user
         /\ call[s].kind = "save" => /\ call'[s].from = call[s].from /\ call'[s].here = call[s].here
                                    /\ call'[s].form = call[s].form /\ call'[s].named = call[s].named
      /\ trust' \in Trusts /\ (trust' # "nothing" => trust # "nothing")
      /\ trust' = "all" => trust = "all" /\ ~(call[s].kind = "save" /\ call[s].stage = "ok")
      /\ faults' \in 0 .. MaxFaults
      /\ UNCHANGED <<profile, token, cache, fetch, screen, last, saves>>
  <2>1. call[s].kind \in {"load", "save"} /\ call[s].stage \in {"sent", "ok"}
    BY CallKinds DEF Fails, IInv, Types
  <2>2. call' = Answer(s, "refused")
    BY DEF Fails
  <2>3. /\ trust' \in Trusts /\ (trust' # "nothing" => trust # "nothing")
        /\ trust' = "all" => trust = "all" /\ ~(call[s].kind = "save" /\ call[s].stage = "ok")
    BY TrustFalls DEF Fails, Losing, At, IInv, Types
  <2>4. faults' \in 0 .. MaxFaults
    BY ProfileAssumption DEF ProfileAssumption, Fails, IInv, Types
  <2>5. /\ UNCHANGED <<profile, token, cache, fetch, screen, last, saves>>
    BY DEF Fails, Query
  <2> QED
    BY <2>1, <2>2, <2>3, <2>4, <2>5, SlotAnswered DEF IInv, Stages
<1>2. Types'
  BY <1>1 DEF IInv, Types
<1>3. Answers'
  BY <1>1 DEF IInv, Answers
<1>4. PageCalls'
  BY <1>1 DEF IInv, PageCalls
<1>5. Own'
  <2> SUFFICES ASSUME trust' # "nothing"
               PROVE  /\ token' \in {Nobody, last'} /\ OwnProfiles'
                      /\ OwnSaves' /\ OwnReads' /\ OwnForm'
    BY DEF Own
  <2>1. /\ trust # "nothing" /\ token \in {Nobody, last}
        /\ OwnProfiles /\ OwnSaves /\ OwnReads /\ OwnForm
    BY <1>1, Owning
  <2>2. token' \in {Nobody, last'} /\ OwnProfiles'
    BY <1>1, <2>1 DEF OwnProfiles
  <2>3. OwnSaves'
    BY <1>1, <2>1 DEF OwnSaves
  <2>4. OwnReads'
    BY <1>1, <2>1 DEF OwnReads
  <2>5. OwnForm'
    BY <1>1, <2>1 DEF OwnForm
  <2> QED
    BY <2>2, <2>3, <2>4, <2>5
<1>6. Current'
  <2> SUFFICES ASSUME trust' = "all"
               PROVE  OneSave' /\ CacheIsTrue' /\ ProfileForm' /\ SettingsForm'
    BY DEF Current
  <2>1. trust = "all" /\ OneSave /\ CacheIsTrue /\ ProfileForm /\ SettingsForm
    BY <1>1, Knowing
  <2>2. token \in {Nobody, last} /\ OwnProfiles /\ OwnSaves /\ OwnReads /\ OwnForm
    BY <2>1, Owning
  <2>3. OneSave'
    BY <1>1, <2>1 DEF OneSave
  <2>4. CacheIsTrue'
    BY <1>1, <2>1 DEF CacheIsTrue, Committed
  <2>5. ProfileForm'
    BY <1>1, <2>1 DEF ProfileForm
  <2>6. SettingsForm'
    BY <1>1, <2>1 DEF SettingsForm
  <2> QED
    BY <2>3, <2>4, <2>5, <2>6
<1> QED
  BY <1>2, <1>3, <1>4, <1>5, <1>6 DEF IInv

\* A read of the query fails.
LEMMA FetchFailsKeeps ==
  ASSUME IInv, FetchFails
  PROVE  IInv'
<1>1. /\ fetch' \in Fetches /\ fetch'.as = Nobody /\ fetch'.stage = "refused" /\ fetch.stage = "sent"
      /\ faults' \in 0 .. MaxFaults
      /\ UNCHANGED <<profile, token, cache, screen, call, last, trust, saves>>
  <2>1. fetch \in Fetches /\ fetch' = [NoFetch EXCEPT !.stage = "refused"] /\ fetch.stage = "sent"
    BY DEF FetchFails, IInv, Types
  <2>2. fetch' \in Fetches /\ fetch'.as = Nobody /\ fetch'.stage = "refused"
    BY <2>1 DEF NoFetch, Fetches
  <2>3. faults' \in 0 .. MaxFaults
    BY ProfileAssumption DEF ProfileAssumption, FetchFails, IInv, Types
  <2> QED
    BY <2>1, <2>2, <2>3 DEF FetchFails
<1>2. Types'
  BY <1>1 DEF IInv, Types
<1>3. Answers'
  BY <1>1 DEF IInv, Answers
<1>4. PageCalls'
  BY <1>1 DEF IInv, PageCalls
<1>5. Own'
  <2> SUFFICES ASSUME trust' # "nothing"
               PROVE  /\ token' \in {Nobody, last'} /\ OwnProfiles'
                      /\ OwnSaves' /\ OwnReads' /\ OwnForm'
    BY DEF Own
  <2>1. /\ trust # "nothing" /\ token \in {Nobody, last}
        /\ OwnProfiles /\ OwnSaves /\ OwnReads /\ OwnForm
    BY <1>1, Owning
  <2>2. token' \in {Nobody, last'} /\ OwnProfiles'
    BY <1>1, <2>1 DEF OwnProfiles
  <2>3. OwnSaves'
    BY <1>1, <2>1 DEF OwnSaves
  <2>4. OwnReads'
    BY <1>1, <2>1 DEF OwnReads
  <2>5. OwnForm'
    BY <1>1, <2>1 DEF OwnForm
  <2> QED
    BY <2>2, <2>3, <2>4, <2>5
<1>6. Current'
  <2> SUFFICES ASSUME trust' = "all"
               PROVE  OneSave' /\ CacheIsTrue' /\ ProfileForm' /\ SettingsForm'
    BY DEF Current
  <2>1. trust = "all" /\ OneSave /\ CacheIsTrue /\ ProfileForm /\ SettingsForm
    BY <1>1, Knowing
  <2>2. token \in {Nobody, last} /\ OwnProfiles /\ OwnSaves /\ OwnReads /\ OwnForm
    BY <2>1, Owning
  <2>3. OneSave'
    BY <1>1, <2>1 DEF OneSave
  <2>4. CacheIsTrue'
    BY <1>1, <2>1 DEF CacheIsTrue, Committed
  <2>5. ProfileForm'
    BY <1>1, <2>1 DEF ProfileForm
  <2>6. SettingsForm'
    BY <1>1, <2>1 DEF SettingsForm
  <2> QED
    BY <2>3, <2>4, <2>5, <2>6
<1> QED
  BY <1>2, <1>3, <1>4, <1>5, <1>6 DEF IInv

\* Editing begins.
LEMMA EditKeeps ==
  ASSUME IInv, Edit
  PROVE  IInv'
<1>1. /\ screen' \in Screens
      /\ screen'.page = screen.page /\ screen'.form = screen.form /\ screen'.original = screen.original
      /\ screen'.editing /\ screen'.named = screen.named
      /\ UNCHANGED <<profile, token, cache, fetch, call, last, trust, saves, faults>>
  <2>1. screen \in Screens /\ screen' = [screen EXCEPT !.editing = TRUE]
    BY DEF Edit, IInv, Types
  <2>2. /\ UNCHANGED <<profile, token, cache, fetch, call, last, trust, saves, faults>>
    BY DEF Edit, Query, Bounds
  <2> QED
    BY <2>1, <2>2 DEF Screens
<1>2. Types'
  BY <1>1 DEF IInv, Types
<1>3. Answers'
  BY <1>1 DEF IInv, Answers
<1>4. PageCalls'
  BY <1>1 DEF IInv, PageCalls
<1>5. Own'
  <2> SUFFICES ASSUME trust' # "nothing"
               PROVE  /\ token' \in {Nobody, last'} /\ OwnProfiles'
                      /\ OwnSaves' /\ OwnReads' /\ OwnForm'
    BY DEF Own
  <2>1. /\ trust # "nothing" /\ token \in {Nobody, last}
        /\ OwnProfiles /\ OwnSaves /\ OwnReads /\ OwnForm
    BY <1>1, Owning
  <2>2. token' \in {Nobody, last'} /\ OwnProfiles'
    BY <1>1, <2>1 DEF OwnProfiles
  <2>3. OwnSaves'
    BY <1>1, <2>1 DEF OwnSaves
  <2>4. OwnReads'
    BY <1>1, <2>1 DEF OwnReads
  <2>5. OwnForm'
    BY <1>1, <2>1 DEF OwnForm
  <2> QED
    BY <2>2, <2>3, <2>4, <2>5
<1>6. Current'
  <2> SUFFICES ASSUME trust' = "all"
               PROVE  OneSave' /\ CacheIsTrue' /\ ProfileForm' /\ SettingsForm'
    BY DEF Current
  <2>1. trust = "all" /\ OneSave /\ CacheIsTrue /\ ProfileForm /\ SettingsForm
    BY <1>1, Knowing
  <2>2. token \in {Nobody, last} /\ OwnProfiles /\ OwnSaves /\ OwnReads /\ OwnForm
    BY <2>1, Owning
  <2>3. OneSave'
    BY <1>1, <2>1 DEF OneSave
  <2>4. CacheIsTrue'
    BY <1>1, <2>1 DEF CacheIsTrue, Committed
  <2>5. ProfileForm'
    BY <1>1, <2>1 DEF ProfileForm
  <2>6. SettingsForm'
    BY <1>1, <2>1 DEF SettingsForm
  <2> QED
    BY <2>3, <2>4, <2>5, <2>6
<1> QED
  BY <1>2, <1>3, <1>4, <1>5, <1>6 DEF IInv

\* The profile page is typed in.
LEMMA TypeProfileKeeps ==
  ASSUME IInv, TypeProfile
  PROVE  IInv'
<1>1. /\ screen' \in Screens
      /\ screen'.page = screen.page /\ screen'.form.of = screen.form.of
      /\ screen'.original = screen.original /\ screen'.editing /\ screen'.named = screen.named
      /\ UNCHANGED <<profile, token, cache, fetch, call, last, trust, saves, faults>>
  <2>1. screen \in Screens /\ screen.editing
    BY DEF TypeProfile, IInv, Types
  <2>6. PICK n \in Other : screen' = Typed(n)
    BY DEF TypeProfile
  <2>2. PICK f : f = [screen.form EXCEPT !.name = n]
    OBVIOUS
  <2>3. f \in Form /\ f.of = screen.form.of
    BY <2>1, <2>2, <2>6 DEF Screens, Form, Other
  <2>4. screen' = [screen EXCEPT !.form = f]
    BY <2>1, <2>2, <2>6 DEF Typed, Screens
  <2>5. /\ UNCHANGED <<profile, token, cache, fetch, call, last, trust, saves, faults>>
    BY DEF TypeProfile, Query, Bounds
  <2> QED
    BY <2>1, <2>3, <2>4, <2>5 DEF Screens
<1>2. Types'
  BY <1>1 DEF IInv, Types
<1>3. Answers'
  BY <1>1 DEF IInv, Answers
<1>4. PageCalls'
  BY <1>1 DEF IInv, PageCalls
<1>5. Own'
  <2> SUFFICES ASSUME trust' # "nothing"
               PROVE  /\ token' \in {Nobody, last'} /\ OwnProfiles'
                      /\ OwnSaves' /\ OwnReads' /\ OwnForm'
    BY DEF Own
  <2>1. /\ trust # "nothing" /\ token \in {Nobody, last}
        /\ OwnProfiles /\ OwnSaves /\ OwnReads /\ OwnForm
    BY <1>1, Owning
  <2>2. token' \in {Nobody, last'} /\ OwnProfiles'
    BY <1>1, <2>1 DEF OwnProfiles
  <2>3. OwnSaves'
    BY <1>1, <2>1 DEF OwnSaves
  <2>4. OwnReads'
    BY <1>1, <2>1 DEF OwnReads
  <2>5. OwnForm'
    BY <1>1, <2>1 DEF OwnForm
  <2> QED
    BY <2>2, <2>3, <2>4, <2>5
<1>6. Current'
  <2> SUFFICES ASSUME trust' = "all"
               PROVE  OneSave' /\ CacheIsTrue' /\ ProfileForm' /\ SettingsForm'
    BY DEF Current
  <2>1. trust = "all" /\ OneSave /\ CacheIsTrue /\ ProfileForm /\ SettingsForm
    BY <1>1, Knowing
  <2>2. token \in {Nobody, last} /\ OwnProfiles /\ OwnSaves /\ OwnReads /\ OwnForm
    BY <2>1, Owning
  <2>3. OneSave'
    BY <1>1, <2>1 DEF OneSave
  <2>4. CacheIsTrue'
    BY <1>1, <2>1 DEF CacheIsTrue, Committed
  <2>5. ProfileForm'
    BY <1>1, <2>1 DEF ProfileForm
  <2>6. SettingsForm'
    BY <1>1, <2>1 DEF SettingsForm
  <2> QED
    BY <2>3, <2>4, <2>5, <2>6
<1> QED
  BY <1>2, <1>3, <1>4, <1>5, <1>6 DEF IInv

\* The settings are typed in.
LEMMA TypeSettingsKeeps ==
  ASSUME IInv, TypeSettings
  PROVE  IInv'
<1>1. /\ screen' \in Screens
      /\ screen'.page = screen.page /\ screen'.form.of = screen.form.of
      /\ screen'.original = screen.original /\ screen'.editing /\ screen'.named = screen.named
      /\ UNCHANGED <<profile, token, cache, fetch, call, last, trust, saves, faults>>
  <2>1. screen \in Screens /\ screen.editing
    BY DEF TypeSettings, IInv, Types
  <2>6. PICK n \in Other : screen' = Typed(n)
    BY DEF TypeSettings
  <2>2. PICK f : f = [screen.form EXCEPT !.name = n]
    OBVIOUS
  <2>3. f \in Form /\ f.of = screen.form.of
    BY <2>1, <2>2, <2>6 DEF Screens, Form, Other
  <2>4. screen' = [screen EXCEPT !.form = f]
    BY <2>1, <2>2, <2>6 DEF Typed, Screens
  <2>5. /\ UNCHANGED <<profile, token, cache, fetch, call, last, trust, saves, faults>>
    BY DEF TypeSettings, Query, Bounds
  <2> QED
    BY <2>1, <2>3, <2>4, <2>5 DEF Screens
<1>2. Types'
  BY <1>1 DEF IInv, Types
<1>3. Answers'
  BY <1>1 DEF IInv, Answers
<1>4. PageCalls'
  BY <1>1 DEF IInv, PageCalls
<1>5. Own'
  <2> SUFFICES ASSUME trust' # "nothing"
               PROVE  /\ token' \in {Nobody, last'} /\ OwnProfiles'
                      /\ OwnSaves' /\ OwnReads' /\ OwnForm'
    BY DEF Own
  <2>1. /\ trust # "nothing" /\ token \in {Nobody, last}
        /\ OwnProfiles /\ OwnSaves /\ OwnReads /\ OwnForm
    BY <1>1, Owning
  <2>2. token' \in {Nobody, last'} /\ OwnProfiles'
    BY <1>1, <2>1 DEF OwnProfiles
  <2>3. OwnSaves'
    BY <1>1, <2>1 DEF OwnSaves
  <2>4. OwnReads'
    BY <1>1, <2>1 DEF OwnReads
  <2>5. OwnForm'
    BY <1>1, <2>1 DEF OwnForm
  <2> QED
    BY <2>2, <2>3, <2>4, <2>5
<1>6. Current'
  <2> SUFFICES ASSUME trust' = "all"
               PROVE  OneSave' /\ CacheIsTrue' /\ ProfileForm' /\ SettingsForm'
    BY DEF Current
  <2>1. trust = "all" /\ OneSave /\ CacheIsTrue /\ ProfileForm /\ SettingsForm
    BY <1>1, Knowing
  <2>2. token \in {Nobody, last} /\ OwnProfiles /\ OwnSaves /\ OwnReads /\ OwnForm
    BY <2>1, Owning
  <2>3. OneSave'
    BY <1>1, <2>1 DEF OneSave
  <2>4. CacheIsTrue'
    BY <1>1, <2>1 DEF CacheIsTrue, Committed
  <2>5. ProfileForm'
    BY <1>1, <2>1 DEF ProfileForm
  <2>6. SettingsForm'
    BY <1>1, <2>1 DEF SettingsForm
  <2> QED
    BY <2>3, <2>4, <2>5, <2>6
<1> QED
  BY <1>2, <1>3, <1>4, <1>5, <1>6 DEF IInv

\* The editing of the profile page is given up.
LEMMA CancelProfileKeeps ==
  ASSUME IInv, CancelProfile
  PROVE  IInv'
<1>1. /\ screen' \in Screens
      /\ screen'.page = screen.page /\ screen'.form = screen.form /\ screen'.original = screen.original
      /\ screen'.named = screen.named
      /\ screen.page = "profile" /\ (~screen'.unsaved => screen.form = cache.data)
      /\ UNCHANGED <<profile, token, cache, fetch, call, last, trust, saves, faults>>
  <2>1. /\ screen \in Screens /\ screen.page = "profile"
        /\ screen' = [screen EXCEPT !.editing = FALSE, !.unsaved = @ \/ screen.form # cache.data]
    BY DEF CancelProfile, IInv, Types
  <2>2. PICK b : b = (screen.unsaved \/ screen.form # cache.data)
    OBVIOUS
  <2>3. b \in BOOLEAN /\ screen' = [screen EXCEPT !.editing = FALSE, !.unsaved = b]
    BY <2>1, <2>2 DEF Screens
  <2>4. /\ UNCHANGED <<profile, token, cache, fetch, call, last, trust, saves, faults>>
    BY DEF CancelProfile, Query, Bounds
  <2> QED
    BY <2>1, <2>4, <2>2, <2>3 DEF Screens
<1>2. Types'
  BY <1>1 DEF IInv, Types
<1>3. Answers'
  BY <1>1 DEF IInv, Answers
<1>4. PageCalls'
  BY <1>1 DEF IInv, PageCalls
<1>5. Own'
  <2> SUFFICES ASSUME trust' # "nothing"
               PROVE  /\ token' \in {Nobody, last'} /\ OwnProfiles'
                      /\ OwnSaves' /\ OwnReads' /\ OwnForm'
    BY DEF Own
  <2>1. /\ trust # "nothing" /\ token \in {Nobody, last}
        /\ OwnProfiles /\ OwnSaves /\ OwnReads /\ OwnForm
    BY <1>1, Owning
  <2>2. token' \in {Nobody, last'} /\ OwnProfiles'
    BY <1>1, <2>1 DEF OwnProfiles
  <2>3. OwnSaves'
    BY <1>1, <2>1 DEF OwnSaves
  <2>4. OwnReads'
    BY <1>1, <2>1 DEF OwnReads
  <2>5. OwnForm'
    BY <1>1, <2>1 DEF OwnForm
  <2> QED
    BY <2>2, <2>3, <2>4, <2>5
<1>6. Current'
  <2> SUFFICES ASSUME trust' = "all"
               PROVE  OneSave' /\ CacheIsTrue' /\ ProfileForm' /\ SettingsForm'
    BY DEF Current
  <2>1. trust = "all" /\ OneSave /\ CacheIsTrue /\ ProfileForm /\ SettingsForm
    BY <1>1, Knowing
  <2>2. token \in {Nobody, last} /\ OwnProfiles /\ OwnSaves /\ OwnReads /\ OwnForm
    BY <2>1, Owning
  <2>3. OneSave'
    BY <1>1, <2>1 DEF OneSave
  <2>4. CacheIsTrue'
    BY <1>1, <2>1 DEF CacheIsTrue, Committed
  <2>5. ProfileForm'
    BY <1>1, <2>1 DEF ProfileForm
  <2>6. SettingsForm'
    BY <1>1, <2>1 DEF SettingsForm
  <2> QED
    BY <2>3, <2>4, <2>5, <2>6
<1> QED
  BY <1>2, <1>3, <1>4, <1>5, <1>6 DEF IInv

\* The editing of the settings is given up.
LEMMA CancelSettingsKeeps ==
  ASSUME IInv, CancelSettings
  PROVE  IInv'
<1>1. /\ screen' \in Screens
      /\ screen.page = "settings"
      /\ \/ /\ screen'.page = "crashed" /\ call' \in [Slots -> Calls]
            /\ \A x \in Slots : IF call[x].kind = "save" THEN Unheard(call[x], call'[x])
                                                       ELSE call'[x].kind = "idle"
         \/ /\ screen'.page = "settings" /\ call' = call /\ screen.original # None
            /\ screen'.form = screen.original /\ screen'.original = screen.original
      /\ UNCHANGED <<profile, token, cache, fetch, last, trust, saves, faults>>
  <2>1. screen \in Screens /\ screen.page = "settings" /\ screen' = FormAfterCancel
    BY DEF CancelSettings, IInv, Types
  <2>2. /\ UNCHANGED <<profile, token, cache, fetch, last, trust, saves, faults>>
    BY DEF CancelSettings, Query, Bounds
  <2>3. CASE screen.original = None
    <3>1. screen' = Page("crashed")
      BY <2>1, <2>3 DEF FormAfterCancel
    <3>2. screen' \in Screens /\ screen'.page = "crashed"
      BY <3>1, NoData DEF Page, Screens
    <3>3. call' = Left
      BY <3>2 DEF CancelSettings
    <3> QED
      BY <2>1, <2>2, <3>2, <3>3, SlotsLeft DEF IInv
  <2>4. CASE screen.original # None
    <3>1. screen' = [screen EXCEPT !.editing = FALSE, !.form = screen.original,
                                 !.named = screen.original.name, !.unsaved = FALSE]
      BY <2>1, <2>4 DEF FormAfterCancel
    <3>4. screen.original \in Form /\ screen.original.name \in Names \union {NoName}
      BY <2>1, <2>4, NoData DEF Screens, Fieldless
    <3>2. /\ screen' \in Screens /\ screen'.page = "settings"
          /\ screen'.form = screen.original /\ screen'.original = screen.original
      BY <2>1, <2>4, <3>1, <3>4 DEF Screens
    <3>3. call' = call
      BY <3>2 DEF CancelSettings
    <3> QED
      BY <2>1, <2>2, <2>4, <3>2, <3>3
  <2> QED
    BY <2>3, <2>4
<1>2. Types'
  BY <1>1 DEF IInv, Types
<1>3. Answers'
  BY <1>1 DEF IInv, Answers, Unheard
<1>4. PageCalls'
  BY <1>1 DEF IInv, PageCalls, Unheard
<1>5. Own'
  <2> SUFFICES ASSUME trust' # "nothing"
               PROVE  /\ token' \in {Nobody, last'} /\ OwnProfiles'
                      /\ OwnSaves' /\ OwnReads' /\ OwnForm'
    BY DEF Own
  <2>1. /\ trust # "nothing" /\ token \in {Nobody, last}
        /\ OwnProfiles /\ OwnSaves /\ OwnReads /\ OwnForm
    BY <1>1, Owning
  <2>2. token' \in {Nobody, last'} /\ OwnProfiles'
    BY <1>1, <2>1 DEF OwnProfiles
  <2>3. OwnSaves'
    BY <1>1, <2>1 DEF OwnSaves, Unheard
  <2>4. OwnReads'
    BY <1>1, <2>1 DEF OwnReads, Unheard
  <2>5. OwnForm'
    BY <1>1, <2>1 DEF OwnForm, Unheard
  <2> QED
    BY <2>2, <2>3, <2>4, <2>5
<1>6. Current'
  <2> SUFFICES ASSUME trust' = "all"
               PROVE  OneSave' /\ CacheIsTrue' /\ ProfileForm' /\ SettingsForm'
    BY DEF Current
  <2>1. trust = "all" /\ OneSave /\ CacheIsTrue /\ ProfileForm /\ SettingsForm
    BY <1>1, Knowing
  <2>2. token \in {Nobody, last} /\ OwnProfiles /\ OwnSaves /\ OwnReads /\ OwnForm
    BY <2>1, Owning
  <2>3. OneSave'
    BY <1>1, <2>1 DEF OneSave, Unheard
  <2>4. CacheIsTrue'
    BY <1>1, <2>1 DEF CacheIsTrue, Committed, Unheard
  <2>5. ProfileForm'
    BY <1>1, <2>1 DEF ProfileForm, Unheard
  <2>6. SettingsForm'
    BY <1>1, <2>1 DEF SettingsForm, Unheard
  <2> QED
    BY <2>3, <2>4, <2>5, <2>6
<1> QED
  BY <1>2, <1>3, <1>4, <1>5, <1>6 DEF IInv

\* A form is sent.
LEMMA SaveKeeps ==
  ASSUME IInv, Save
  PROVE  IInv'
<1>1. /\ call' \in [Slots -> Calls]
      /\ screen.editing /\ screen.page \in {"profile", "settings"}
      /\ \E s \in Slots :
           /\ call[s].kind = "idle" /\ call'[s].kind = "save" /\ call'[s].from = screen.page
           /\ call'[s].user = token /\ call'[s].form = screen.form /\ call'[s].stage = "sent" /\ call'[s].here
           /\ call'[s].named = screen.named
           /\ \A x \in Slots \ {s} :
                \/ call'[x] = call[x] /\ (screen.page = "settings" \/ call[x].kind # "save")
                \/ call[x].kind = "save" /\ Unheard(call[x], call'[x]) /\ screen.page = "profile"
      /\ trust' \in Trusts
      /\ trust' # "nothing" => /\ trust # "nothing"
                               /\ screen.page = "profile" => cache.data # None
                               /\ screen.page = "settings" => /\ screen.original # None
                                                              /\ \A x \in Slots : call[x].kind # "load"
      /\ trust' = "all" => trust = "all" /\ \A x \in Slots : call[x].kind # "save"
      /\ saves' \in 0 .. MaxSaves
      /\ UNCHANGED <<profile, token, cache, fetch, screen, last, faults>>
  <2>1. /\ screen \in Screens /\ screen.editing
        /\ screen.page \in {"profile", "settings"}
    BY DEF Save, Shown, IInv, Types
  <2>2. /\ UNCHANGED <<profile, token, cache, fetch, screen, last, faults>>
    BY DEF Save, Query
  <2>3. saves' \in 0 .. MaxSaves
    BY ProfileAssumption DEF ProfileAssumption, Save, IInv, Types
  <2>4. PICK c : c = [kind |-> "save", from |-> screen.page, user |-> token, form |-> screen.form,
                      named |-> screen.named, stage |-> "sent", got |-> None, here |-> TRUE]
    OBVIOUS
  <2>5. /\ c \in Calls /\ c.kind = "save" /\ c.from = screen.page /\ c.user = token
        /\ c.form = screen.form /\ c.named = screen.named /\ c.stage = "sent" /\ c.here
    BY <2>1, <2>4 DEF Calls, SaveCalls, Stages, Screens, IInv, Types
  <2>6. PICK e : e = IF screen.page = "settings" THEN call
                     ELSE [s \in Slots |-> IF call[s].kind = "save" THEN [call[s] EXCEPT !.here = FALSE]
                                           ELSE call[s]]
    OBVIOUS
  <2>7. PICK s \in Slots : call[s].kind = "idle" /\ call' = [e EXCEPT ![s] = c]
    BY <2>4, <2>6 DEF Save, Busy
  <2>8. /\ e \in [Slots -> Calls]
        /\ \A x \in Slots : \/ e[x] = call[x] /\ (screen.page = "settings" \/ call[x].kind # "save")
                            \/ call[x].kind = "save" /\ Unheard(call[x], e[x]) /\ screen.page = "profile"
    <3>1. CASE screen.page = "settings"
      BY <2>6, <3>1 DEF IInv, Types
    <3>2. CASE screen.page = "profile"
      <4>1. /\ e \in [Slots -> {e[x] : x \in Slots}]
            /\ \A x \in Slots : e[x] = IF call[x].kind = "save" THEN [call[x] EXCEPT !.here = FALSE] ELSE call[x]
        BY <2>6, <3>2
      <4>2. ASSUME NEW x \in Slots
            PROVE  /\ e[x] \in Calls
                   /\ \/ e[x] = call[x] /\ call[x].kind # "save"
                      \/ call[x].kind = "save" /\ Unheard(call[x], e[x])
        <5>1. CASE call[x].kind = "save"
          <6>1. call[x] \in SaveCalls
            BY <5>1, CallKinds DEF IInv, Types
          <6>2. e[x] = [call[x] EXCEPT !.here = FALSE]
            BY <4>1, <5>1
          <6> QED
            BY <5>1, <6>1, <6>2 DEF SaveCalls, Calls, Unheard
        <5>2. CASE call[x].kind # "save"
          BY <4>1, <5>2 DEF IInv, Types
        <5> QED
          BY <5>1, <5>2
      <4> QED
        BY <3>2, <4>1, <4>2
    <3> QED
      BY <2>1, <3>1, <3>2
  <2>9. call' \in [Slots -> Calls] /\ call'[s] = c /\ \A x \in Slots \ {s} : call'[x] = e[x]
    BY <2>5, <2>7, <2>8
  <2>10. \A k \in {"load", "save"} : Of(k) = {} <=> \A x \in Slots : call[x].kind # k
    BY DEF Of, Busy
  <2>11. /\ trust' \in Trusts
         /\ trust' # "nothing" => /\ trust # "nothing"
                                  /\ screen.page = "profile" => cache.data # None
                                  /\ screen.page = "settings" => screen.original # None /\ Of("load") = {}
         /\ trust' = "all" => trust = "all" /\ Of("save") = {}
    BY <2>1, TrustFalls DEF Save, Losing, IInv, Types, Trusts
  <2> QED
    BY <2>1, <2>2, <2>3, <2>5, <2>7, <2>8, <2>9, <2>10, <2>11
<1>2. Types'
  BY <1>1 DEF IInv, Types
<1>3. Answers'
  BY <1>1 DEF IInv, Answers, Unheard
<1>4. PageCalls'
  BY <1>1 DEF IInv, PageCalls, Unheard
<1>5. Own'
  <2> SUFFICES ASSUME trust' # "nothing"
               PROVE  /\ token' \in {Nobody, last'} /\ OwnProfiles'
                      /\ OwnSaves' /\ OwnReads' /\ OwnForm'
    BY DEF Own
  <2>1. /\ trust # "nothing" /\ token \in {Nobody, last}
        /\ OwnProfiles /\ OwnSaves /\ OwnReads /\ OwnForm
    BY <1>1, Owning
  <2>2. token' \in {Nobody, last'} /\ OwnProfiles'
    BY <1>1, <2>1 DEF OwnProfiles
  <2>3. OwnSaves'
    BY <1>1, <2>1 DEF OwnSaves, OwnForm, Unheard
  <2>4. OwnReads'
    BY <1>1, <2>1 DEF OwnReads, Unheard
  <2>5. OwnForm'
    BY <1>1, <2>1 DEF OwnForm, Unheard
  <2> QED
    BY <2>2, <2>3, <2>4, <2>5
<1>6. Current'
  <2> SUFFICES ASSUME trust' = "all"
               PROVE  OneSave' /\ CacheIsTrue' /\ ProfileForm' /\ SettingsForm'
    BY DEF Current
  <2>1. trust = "all" /\ OneSave /\ CacheIsTrue /\ ProfileForm /\ SettingsForm
    BY <1>1, Knowing
  <2>2. token \in {Nobody, last} /\ OwnProfiles /\ OwnSaves /\ OwnReads /\ OwnForm
    BY <2>1, Owning
  <2>3. OneSave'
    BY <1>1, <2>1 DEF OneSave, Unheard
  <2>4. CacheIsTrue'
    BY <1>1, <2>1 DEF CacheIsTrue, Committed, Unheard
  <2>5. ProfileForm'
    BY <1>1, <2>1 DEF ProfileForm, Unheard
  <2>6. SettingsForm'
    BY <1>1, <2>1 DEF SettingsForm, Unheard
  <2> QED
    BY <2>3, <2>4, <2>5, <2>6
<1> QED
  BY <1>2, <1>3, <1>4, <1>5, <1>6 DEF IInv

\* The query has its data.
LEMMA FinishFetchKeeps ==
  ASSUME IInv, FinishFetch
  PROVE  IInv'
<1>1. /\ fetch.stage = "ok" /\ fetch.got \in Value /\ fetch.as # Nobody
      /\ cache' \in Caches /\ cache'.data = fetch.got /\ ~cache'.stale
      /\ fetch' \in Fetches /\ fetch'.stage = "idle"
      /\ \/ screen' = screen /\ (screen.page # "profile" \/ fetch.got = cache.data)
         \/ /\ screen.page = "profile" /\ screen' \in Screens /\ screen'.page = "profile"
            /\ screen'.form = fetch.got /\ screen'.named = screen.named
      /\ UNCHANGED <<profile, token, call, last, trust, saves, faults>>
  <2>1. fetch.stage = "ok" /\ fetch.got \in Value /\ fetch.as # Nobody
    BY DEF FinishFetch, IInv, Answers
  <2>2. cache' \in Caches /\ cache'.data = fetch.got /\ ~cache'.stale
    BY <2>1 DEF FinishFetch, Caches
  <2>3. fetch' \in Fetches /\ fetch'.stage = "idle"
    BY DEF FinishFetch, NoFetch, Fetches
  <2>4. \/ screen' = screen /\ (screen.page # "profile" \/ fetch.got = cache.data)
        \/ /\ screen.page = "profile" /\ screen' \in Screens /\ screen'.page = "profile"
           /\ screen'.form = fetch.got /\ screen'.named = screen.named
    BY <2>1, NoData DEF FinishFetch, IInv, Types, Screens
  <2>5. /\ UNCHANGED <<profile, token, call, last, trust, saves, faults>>
    BY DEF FinishFetch, Bounds
  <2> QED
    BY <2>1, <2>2, <2>3, <2>4, <2>5
<1>2. Types'
  BY <1>1 DEF IInv, Types
<1>3. Answers'
  BY <1>1 DEF IInv, Answers
<1>4. PageCalls'
  BY <1>1 DEF IInv, PageCalls
<1>5. Own'
  <2> SUFFICES ASSUME trust' # "nothing"
               PROVE  /\ token' \in {Nobody, last'} /\ OwnProfiles'
                      /\ OwnSaves' /\ OwnReads' /\ OwnForm'
    BY DEF Own
  <2>1. /\ trust # "nothing" /\ token \in {Nobody, last}
        /\ OwnProfiles /\ OwnSaves /\ OwnReads /\ OwnForm
    BY <1>1, Owning
  <2>2. token' \in {Nobody, last'} /\ OwnProfiles'
    BY <1>1, <2>1 DEF OwnProfiles
  <2>3. OwnSaves'
    BY <1>1, <2>1 DEF OwnSaves
  <2>4. OwnReads'
    BY <1>1, <2>1, NoData DEF OwnReads
  <2>5. OwnForm'
    BY <1>1, <2>1, NoData DEF OwnForm, OwnReads
  <2> QED
    BY <2>2, <2>3, <2>4, <2>5
<1>6. Current'
  <2> SUFFICES ASSUME trust' = "all"
               PROVE  OneSave' /\ CacheIsTrue' /\ ProfileForm' /\ SettingsForm'
    BY DEF Current
  <2>1. trust = "all" /\ OneSave /\ CacheIsTrue /\ ProfileForm /\ SettingsForm
    BY <1>1, Knowing
  <2>2. token \in {Nobody, last} /\ OwnProfiles /\ OwnSaves /\ OwnReads /\ OwnForm
    BY <2>1, Owning
  <2>3. OneSave'
    BY <1>1, <2>1 DEF OneSave
  <2>4. CacheIsTrue'
    BY <1>1, <2>1 DEF CacheIsTrue, Committed
  <2>5. ProfileForm'
    BY <1>1, <2>1, NoData DEF ProfileForm
  <2>6. SettingsForm'
    BY <1>1, <2>1 DEF SettingsForm
  <2> QED
    BY <2>3, <2>4, <2>5, <2>6
<1> QED
  BY <1>2, <1>3, <1>4, <1>5, <1>6 DEF IInv

\* A read of the query is repeated.
LEMMA RetryFetchKeeps ==
  ASSUME IInv, RetryFetch
  PROVE  IInv'
<1>1. /\ fetch' \in Fetches /\ fetch'.stage = "sent" /\ fetch'.as = token /\ fetch.stage = "refused"
      /\ UNCHANGED <<profile, token, cache, screen, call, last, trust, saves, faults>>
  <2>1. fetch' \in Fetches /\ fetch'.stage = "sent" /\ fetch'.as = token
    BY DEF RetryFetch, Fetching, Fetches, IInv, Types
  <2> QED
    BY <2>1 DEF RetryFetch, Bounds
<1>2. Types'
  BY <1>1 DEF IInv, Types
<1>3. Answers'
  BY <1>1 DEF IInv, Answers
<1>4. PageCalls'
  BY <1>1 DEF IInv, PageCalls
<1>5. Own'
  <2> SUFFICES ASSUME trust' # "nothing"
               PROVE  /\ token' \in {Nobody, last'} /\ OwnProfiles'
                      /\ OwnSaves' /\ OwnReads' /\ OwnForm'
    BY DEF Own
  <2>1. /\ trust # "nothing" /\ token \in {Nobody, last}
        /\ OwnProfiles /\ OwnSaves /\ OwnReads /\ OwnForm
    BY <1>1, Owning
  <2>2. token' \in {Nobody, last'} /\ OwnProfiles'
    BY <1>1, <2>1 DEF OwnProfiles
  <2>3. OwnSaves'
    BY <1>1, <2>1 DEF OwnSaves
  <2>4. OwnReads'
    BY <1>1, <2>1 DEF OwnReads
  <2>5. OwnForm'
    BY <1>1, <2>1 DEF OwnForm
  <2> QED
    BY <2>2, <2>3, <2>4, <2>5
<1>6. Current'
  <2> SUFFICES ASSUME trust' = "all"
               PROVE  OneSave' /\ CacheIsTrue' /\ ProfileForm' /\ SettingsForm'
    BY DEF Current
  <2>1. trust = "all" /\ OneSave /\ CacheIsTrue /\ ProfileForm /\ SettingsForm
    BY <1>1, Knowing
  <2>2. token \in {Nobody, last} /\ OwnProfiles /\ OwnSaves /\ OwnReads /\ OwnForm
    BY <2>1, Owning
  <2>3. OneSave'
    BY <1>1, <2>1 DEF OneSave
  <2>4. CacheIsTrue'
    BY <1>1, <2>1 DEF CacheIsTrue, Committed
  <2>5. ProfileForm'
    BY <1>1, <2>1 DEF ProfileForm
  <2>6. SettingsForm'
    BY <1>1, <2>1 DEF SettingsForm
  <2> QED
    BY <2>3, <2>4, <2>5, <2>6
<1> QED
  BY <1>2, <1>3, <1>4, <1>5, <1>6 DEF IInv

\* The fetch waits for the network.
LEMMA PauseFetchKeeps ==
  ASSUME IInv, PauseFetch
  PROVE  IInv'
<1>1. /\ fetch' \in Fetches /\ fetch'.stage = "paused" /\ fetch'.as = Nobody /\ fetch.stage # "idle"
      /\ UNCHANGED <<profile, token, cache, screen, call, last, trust, saves, faults>>
  <2>1. fetch' \in Fetches /\ fetch'.stage = "paused" /\ fetch'.as = Nobody /\ fetch.stage # "idle"
    BY DEF PauseFetch, NoFetch, Fetches
  <2> QED
    BY <2>1 DEF PauseFetch, Bounds
<1>2. Types'
  BY <1>1 DEF IInv, Types
<1>3. Answers'
  BY <1>1 DEF IInv, Answers
<1>4. PageCalls'
  BY <1>1 DEF IInv, PageCalls
<1>5. Own'
  <2> SUFFICES ASSUME trust' # "nothing"
               PROVE  /\ token' \in {Nobody, last'} /\ OwnProfiles'
                      /\ OwnSaves' /\ OwnReads' /\ OwnForm'
    BY DEF Own
  <2>1. /\ trust # "nothing" /\ token \in {Nobody, last}
        /\ OwnProfiles /\ OwnSaves /\ OwnReads /\ OwnForm
    BY <1>1, Owning
  <2>2. token' \in {Nobody, last'} /\ OwnProfiles'
    BY <1>1, <2>1 DEF OwnProfiles
  <2>3. OwnSaves'
    BY <1>1, <2>1 DEF OwnSaves
  <2>4. OwnReads'
    BY <1>1, <2>1 DEF OwnReads
  <2>5. OwnForm'
    BY <1>1, <2>1 DEF OwnForm
  <2> QED
    BY <2>2, <2>3, <2>4, <2>5
<1>6. Current'
  <2> SUFFICES ASSUME trust' = "all"
               PROVE  OneSave' /\ CacheIsTrue' /\ ProfileForm' /\ SettingsForm'
    BY DEF Current
  <2>1. trust = "all" /\ OneSave /\ CacheIsTrue /\ ProfileForm /\ SettingsForm
    BY <1>1, Knowing
  <2>2. token \in {Nobody, last} /\ OwnProfiles /\ OwnSaves /\ OwnReads /\ OwnForm
    BY <2>1, Owning
  <2>3. OneSave'
    BY <1>1, <2>1 DEF OneSave
  <2>4. CacheIsTrue'
    BY <1>1, <2>1 DEF CacheIsTrue, Committed
  <2>5. ProfileForm'
    BY <1>1, <2>1 DEF ProfileForm
  <2>6. SettingsForm'
    BY <1>1, <2>1 DEF SettingsForm
  <2> QED
    BY <2>3, <2>4, <2>5, <2>6
<1> QED
  BY <1>2, <1>3, <1>4, <1>5, <1>6 DEF IInv

\* The fetch goes on.
LEMMA ResumeFetchKeeps ==
  ASSUME IInv, ResumeFetch
  PROVE  IInv'
<1>1. /\ fetch' \in Fetches /\ fetch'.stage = "sent" /\ fetch'.as = token /\ fetch.stage = "paused"
      /\ UNCHANGED <<profile, token, cache, screen, call, last, trust, saves, faults>>
  <2>1. fetch' \in Fetches /\ fetch'.stage = "sent" /\ fetch'.as = token
    BY DEF ResumeFetch, Fetching, Fetches, IInv, Types
  <2> QED
    BY <2>1 DEF ResumeFetch, Bounds
<1>2. Types'
  BY <1>1 DEF IInv, Types
<1>3. Answers'
  BY <1>1 DEF IInv, Answers
<1>4. PageCalls'
  BY <1>1 DEF IInv, PageCalls
<1>5. Own'
  <2> SUFFICES ASSUME trust' # "nothing"
               PROVE  /\ token' \in {Nobody, last'} /\ OwnProfiles'
                      /\ OwnSaves' /\ OwnReads' /\ OwnForm'
    BY DEF Own
  <2>1. /\ trust # "nothing" /\ token \in {Nobody, last}
        /\ OwnProfiles /\ OwnSaves /\ OwnReads /\ OwnForm
    BY <1>1, Owning
  <2>2. token' \in {Nobody, last'} /\ OwnProfiles'
    BY <1>1, <2>1 DEF OwnProfiles
  <2>3. OwnSaves'
    BY <1>1, <2>1 DEF OwnSaves
  <2>4. OwnReads'
    BY <1>1, <2>1 DEF OwnReads
  <2>5. OwnForm'
    BY <1>1, <2>1 DEF OwnForm
  <2> QED
    BY <2>2, <2>3, <2>4, <2>5
<1>6. Current'
  <2> SUFFICES ASSUME trust' = "all"
               PROVE  OneSave' /\ CacheIsTrue' /\ ProfileForm' /\ SettingsForm'
    BY DEF Current
  <2>1. trust = "all" /\ OneSave /\ CacheIsTrue /\ ProfileForm /\ SettingsForm
    BY <1>1, Knowing
  <2>2. token \in {Nobody, last} /\ OwnProfiles /\ OwnSaves /\ OwnReads /\ OwnForm
    BY <2>1, Owning
  <2>3. OneSave'
    BY <1>1, <2>1 DEF OneSave
  <2>4. CacheIsTrue'
    BY <1>1, <2>1 DEF CacheIsTrue, Committed
  <2>5. ProfileForm'
    BY <1>1, <2>1 DEF ProfileForm
  <2>6. SettingsForm'
    BY <1>1, <2>1 DEF SettingsForm
  <2> QED
    BY <2>3, <2>4, <2>5, <2>6
<1> QED
  BY <1>2, <1>3, <1>4, <1>5, <1>6 DEF IInv

\* The query is given up.
LEMMA GiveUpFetchKeeps ==
  ASSUME IInv, GiveUpFetch
  PROVE  IInv'
<1>1. /\ fetch' \in Fetches /\ fetch'.stage = "idle"
      /\ cache' \in Caches /\ cache'.data = cache.data /\ cache'.stale = cache.stale /\ cache'.failed
      /\ UNCHANGED <<profile, token, screen, call, last, trust, saves, faults>>
  <2>1. fetch' \in Fetches /\ fetch'.stage = "idle"
    BY DEF GiveUpFetch, NoFetch, Fetches
  <2>2. cache' \in Caches /\ cache'.data = cache.data /\ cache'.stale = cache.stale /\ cache'.failed
    BY DEF GiveUpFetch, Caches, IInv, Types
  <2> QED
    BY <2>1, <2>2 DEF GiveUpFetch, Bounds
<1>2. Types'
  BY <1>1 DEF IInv, Types
<1>3. Answers'
  BY <1>1 DEF IInv, Answers
<1>4. PageCalls'
  BY <1>1 DEF IInv, PageCalls
<1>5. Own'
  <2> SUFFICES ASSUME trust' # "nothing"
               PROVE  /\ token' \in {Nobody, last'} /\ OwnProfiles'
                      /\ OwnSaves' /\ OwnReads' /\ OwnForm'
    BY DEF Own
  <2>1. /\ trust # "nothing" /\ token \in {Nobody, last}
        /\ OwnProfiles /\ OwnSaves /\ OwnReads /\ OwnForm
    BY <1>1, Owning
  <2>2. token' \in {Nobody, last'} /\ OwnProfiles'
    BY <1>1, <2>1 DEF OwnProfiles
  <2>3. OwnSaves'
    BY <1>1, <2>1 DEF OwnSaves
  <2>4. OwnReads'
    BY <1>1, <2>1 DEF OwnReads
  <2>5. OwnForm'
    BY <1>1, <2>1 DEF OwnForm
  <2> QED
    BY <2>2, <2>3, <2>4, <2>5
<1>6. Current'
  <2> SUFFICES ASSUME trust' = "all"
               PROVE  OneSave' /\ CacheIsTrue' /\ ProfileForm' /\ SettingsForm'
    BY DEF Current
  <2>1. trust = "all" /\ OneSave /\ CacheIsTrue /\ ProfileForm /\ SettingsForm
    BY <1>1, Knowing
  <2>2. token \in {Nobody, last} /\ OwnProfiles /\ OwnSaves /\ OwnReads /\ OwnForm
    BY <2>1, Owning
  <2>3. OneSave'
    BY <1>1, <2>1 DEF OneSave
  <2>4. CacheIsTrue'
    BY <1>1, <2>1 DEF CacheIsTrue, Committed
  <2>5. ProfileForm'
    BY <1>1, <2>1 DEF ProfileForm
  <2>6. SettingsForm'
    BY <1>1, <2>1 DEF SettingsForm
  <2> QED
    BY <2>3, <2>4, <2>5, <2>6
<1> QED
  BY <1>2, <1>3, <1>4, <1>5, <1>6 DEF IInv

\* The query is stale, read again, or dropped.
LEMMA CacheAgesKeeps ==
  ASSUME IInv, CacheAges
  PROVE  IInv'
<1>1. /\ \/ /\ cache' \in Caches /\ cache'.data = cache.data /\ cache'.stale /\ cache'.failed = cache.failed
            /\ (cache.stale \/ cache.data # None) /\ fetch' = fetch
         \/ /\ fetch' \in Fetches /\ fetch'.stage = "sent" /\ fetch'.as = token /\ cache' = cache
            /\ fetch.stage = "idle"
         \/ /\ cache' \in Caches /\ cache'.data = None /\ fetch' = fetch /\ screen.page # "profile"
      /\ UNCHANGED <<profile, token, screen, call, last, trust, saves, faults>>
  <2>1. cache \in Caches /\ Fetching \in Fetches /\ Fetching.stage = "sent" /\ Fetching.as = token
    BY DEF Fetching, Fetches, IInv, Types
  <2>2. CASE cache.data # None /\ cache' = [cache EXCEPT !.stale = TRUE] /\ UNCHANGED fetch
    BY <2>1, <2>2 DEF CacheAges, Bounds, Caches
  <2>3. CASE screen.page = "profile" /\ fetch.stage = "idle" /\ fetch' = Fetching /\ UNCHANGED cache
    BY <2>1, <2>3 DEF CacheAges, Bounds
  <2>4. CASE screen.page # "profile" /\ cache' = EmptyCache /\ UNCHANGED fetch
    BY <2>4 DEF CacheAges, Bounds, EmptyCache, Caches
  <2> QED
    BY <2>2, <2>3, <2>4 DEF CacheAges
<1>2. Types'
  BY <1>1 DEF IInv, Types
<1>3. Answers'
  BY <1>1 DEF IInv, Answers
<1>4. PageCalls'
  BY <1>1 DEF IInv, PageCalls
<1>5. Own'
  <2> SUFFICES ASSUME trust' # "nothing"
               PROVE  /\ token' \in {Nobody, last'} /\ OwnProfiles'
                      /\ OwnSaves' /\ OwnReads' /\ OwnForm'
    BY DEF Own
  <2>1. /\ trust # "nothing" /\ token \in {Nobody, last}
        /\ OwnProfiles /\ OwnSaves /\ OwnReads /\ OwnForm
    BY <1>1, Owning
  <2>2. token' \in {Nobody, last'} /\ OwnProfiles'
    BY <1>1, <2>1 DEF OwnProfiles
  <2>3. OwnSaves'
    BY <1>1, <2>1 DEF OwnSaves
  <2>4. OwnReads'
    BY <1>1, <2>1 DEF OwnReads
  <2>5. OwnForm'
    BY <1>1, <2>1 DEF OwnForm
  <2> QED
    BY <2>2, <2>3, <2>4, <2>5
<1>6. Current'
  <2> SUFFICES ASSUME trust' = "all"
               PROVE  OneSave' /\ CacheIsTrue' /\ ProfileForm' /\ SettingsForm'
    BY DEF Current
  <2>1. trust = "all" /\ OneSave /\ CacheIsTrue /\ ProfileForm /\ SettingsForm
    BY <1>1, Knowing
  <2>2. token \in {Nobody, last} /\ OwnProfiles /\ OwnSaves /\ OwnReads /\ OwnForm
    BY <2>1, Owning
  <2>3. OneSave'
    BY <1>1, <2>1 DEF OneSave
  <2>4. CacheIsTrue'
    BY <1>1, <2>1 DEF CacheIsTrue, Committed
  <2>5. ProfileForm'
    BY <1>1, <2>1 DEF ProfileForm
  <2>6. SettingsForm'
    BY <1>1, <2>1 DEF SettingsForm
  <2> QED
    BY <2>3, <2>4, <2>5, <2>6
<1> QED
  BY <1>2, <1>3, <1>4, <1>5, <1>6 DEF IInv

\* The settings are loaded, or not.
LEMMA FinishLoadKeeps ==
  ASSUME IInv, NEW s \in Slots, FinishLoad(s)
  PROVE  IInv'
<1>1. /\ call[s].kind = "load" /\ call'[s].kind = "idle"
      /\ call' \in [Slots -> Calls] /\ \A x \in Slots \ {s} : call'[x] = call[x]
      /\ screen' \in Screens /\ screen'.page = screen.page
      /\ \/ screen'.original = None /\ screen'.form = screen.form
         \/ /\ call[s].stage = "ok" /\ call[s].got \in Value /\ call[s].user # Nobody
            /\ screen'.form = call[s].got /\ screen'.original = call[s].got
      /\ UNCHANGED <<profile, token, cache, fetch, last, trust, saves, faults>>
  <2>1. call[s].kind = "load" /\ call[s].stage \in {"ok", "refused"}
    BY DEF FinishLoad, Answered
  <2>2. call' = Over(s)
    BY DEF FinishLoad
  <2>3. /\ call' \in [Slots -> Calls] /\ call'[s].kind = "idle"
        /\ \A x \in Slots \ {s} : call'[x] = call[x]
    BY <2>2, SlotOver DEF IInv
  <2>4. call[s].stage = "ok" => call[s].got \in Value /\ call[s].user # Nobody
    BY <2>1 DEF IInv, Answers
  <2>5. screen \in Screens
    BY DEF IInv, Types
  <2>6. /\ UNCHANGED <<profile, token, cache, fetch, last, trust, saves, faults>>
    BY DEF FinishLoad, Query, Bounds
  <2>7. /\ screen' \in Screens /\ screen'.page = screen.page
        /\ \/ screen'.original = None /\ screen'.form = screen.form
           \/ /\ call[s].stage = "ok" /\ screen'.form = call[s].got /\ screen'.original = call[s].got
    BY <2>4, <2>5, NoData DEF FinishLoad, Screens
  <2> QED
    BY <2>1, <2>3, <2>4, <2>6, <2>7
<1>2. Types'
  BY <1>1 DEF IInv, Types
<1>3. Answers'
  BY <1>1 DEF IInv, Answers
<1>4. PageCalls'
  BY <1>1 DEF IInv, PageCalls
<1>5. Own'
  <2> SUFFICES ASSUME trust' # "nothing"
               PROVE  /\ token' \in {Nobody, last'} /\ OwnProfiles'
                      /\ OwnSaves' /\ OwnReads' /\ OwnForm'
    BY DEF Own
  <2>1. /\ trust # "nothing" /\ token \in {Nobody, last}
        /\ OwnProfiles /\ OwnSaves /\ OwnReads /\ OwnForm
    BY <1>1, Owning
  <2>2. token' \in {Nobody, last'} /\ OwnProfiles'
    BY <1>1, <2>1 DEF OwnProfiles
  <2>3. OwnSaves'
    BY <1>1, <2>1 DEF OwnSaves
  <2>4. OwnReads'
    BY <1>1, <2>1 DEF OwnReads
  <2>5. OwnForm'
    BY <1>1, <2>1, NoData DEF OwnForm, OwnReads, IInv, PageCalls
  <2> QED
    BY <2>2, <2>3, <2>4, <2>5
<1>6. Current'
  <2> SUFFICES ASSUME trust' = "all"
               PROVE  OneSave' /\ CacheIsTrue' /\ ProfileForm' /\ SettingsForm'
    BY DEF Current
  <2>1. trust = "all" /\ OneSave /\ CacheIsTrue /\ ProfileForm /\ SettingsForm
    BY <1>1, Knowing
  <2>2. token \in {Nobody, last} /\ OwnProfiles /\ OwnSaves /\ OwnReads /\ OwnForm
    BY <2>1, Owning
  <2>3. OneSave'
    BY <1>1, <2>1 DEF OneSave
  <2>4. CacheIsTrue'
    BY <1>1, <2>1 DEF CacheIsTrue, Committed
  <2>5. ProfileForm'
    BY <1>1, <2>1, <2>2 DEF ProfileForm, IInv, PageCalls
  <2>6. SettingsForm'
    BY <1>1, <2>1 DEF SettingsForm
  <2> QED
    BY <2>3, <2>4, <2>5, <2>6
<1> QED
  BY <1>2, <1>3, <1>4, <1>5, <1>6 DEF IInv

\* A save of the profile page is over.
LEMMA FinishSaveKeeps ==
  ASSUME IInv, NEW s \in Slots, FinishSave(s)
  PROVE  IInv'
<1>1. /\ call[s].kind = "save" /\ call[s].from = "profile" /\ call'[s].kind = "idle"
      /\ call' \in [Slots -> Calls] /\ \A x \in Slots \ {s} : call'[x] = call[x]
      /\ \/ /\ call[s].stage = "refused" /\ UNCHANGED <<cache, fetch, screen, trust>>
         \/ /\ call[s].stage = "ok" /\ call[s].user # Nobody
            /\ cache' \in Caches /\ cache'.data = cache.data /\ (cache.data # None => cache'.stale)
            /\ fetch' \in Fetches /\ (fetch' = fetch \/ (fetch'.stage = "sent" /\ fetch'.as = token))
            /\ (screen.page = "profile" /\ cache.data # None => fetch'.stage = "sent")
            /\ trust' \in Trusts /\ (trust' # "nothing" => trust # "nothing")
            /\ (trust' = "all" => trust = "all" /\ fetch'.stage # "ok")
            /\ \/ ~call[s].here /\ screen' = screen
               \/ /\ call[s].here /\ screen' \in Screens /\ screen'.page = screen.page
                  /\ screen'.form = screen.form /\ screen'.named = screen.named /\ screen'.original = screen.original
                  /\ (~screen'.unsaved => screen.form = call[s].form)
      /\ UNCHANGED <<profile, token, last, saves, faults>>
  <2>1. call[s].kind = "save" /\ call[s].from = "profile" /\ call[s].stage \in {"ok", "refused"}
    BY DEF FinishSave, Answered
  <2>2. call' = Over(s)
    BY DEF FinishSave
  <2>3. /\ call' \in [Slots -> Calls] /\ call'[s].kind = "idle"
        /\ \A x \in Slots \ {s} : call'[x] = call[x]
    BY <2>2, SlotOver DEF IInv
  <2>4. /\ UNCHANGED <<profile, token, last, saves, faults>>
    BY DEF FinishSave, Bounds
  <2>5. CASE call[s].stage = "refused"
    BY <2>1, <2>3, <2>4, <2>5 DEF FinishSave, Query
  <2>6. CASE call[s].stage = "ok"
    <3>1. call[s].user # Nobody
      BY <2>1, <2>6 DEF IInv, Answers
    <3>2. PICK b : b = (cache.data # None)
      OBVIOUS
    <3>3. cache' = [cache EXCEPT !.stale = b]
      BY <2>6, <3>2 DEF FinishSave, AfterSave
    <3>4. cache' \in Caches /\ cache'.data = cache.data /\ (cache.data # None => cache'.stale)
      BY <3>2, <3>3 DEF Caches, IInv, Types
    <3>5. fetch' = IF screen.page = "profile" /\ (cache.data # None \/ fetch.stage = "idle")
                   THEN Fetching ELSE fetch
      BY <2>6 DEF FinishSave, AfterSave
    <3>6. /\ fetch' \in Fetches /\ (fetch' = fetch \/ (fetch'.stage = "sent" /\ fetch'.as = token))
          /\ (screen.page = "profile" /\ cache.data # None => fetch'.stage = "sent")
      BY <3>5 DEF Fetching, Fetches, IInv, Types
    <3>7. /\ trust' \in Trusts /\ (trust' # "nothing" => trust # "nothing")
          /\ (trust' = "all" => trust = "all" /\ fetch'.stage # "ok")
      BY <2>6, TrustFalls DEF FinishSave, Losing, IInv, Types
    <3>8. CASE ~call[s].here
      <4>1. screen' = screen
        BY <2>6, <3>8 DEF FinishSave
      <4> QED
        BY <2>1, <2>3, <2>4, <2>6, <3>1, <3>4, <3>6, <3>7, <3>8, <4>1
    <3>9. CASE call[s].here
      <4>1. PICK b1 : b1 = (screen.form # call[s].form)
        OBVIOUS
      <4>2. screen' = [screen EXCEPT !.editing = FALSE, !.unsaved = b1]
        BY <2>6, <3>9, <4>1 DEF FinishSave
      <4>3. /\ screen' \in Screens /\ screen'.page = screen.page
            /\ screen'.form = screen.form /\ screen'.named = screen.named /\ screen'.original = screen.original
            /\ (~screen'.unsaved => screen.form = call[s].form)
        BY <4>1, <4>2 DEF Screens, IInv, Types
      <4> QED
        BY <2>1, <2>3, <2>4, <2>6, <3>1, <3>4, <3>6, <3>7, <3>9, <4>3
    <3> QED
      BY <3>8, <3>9
  <2> QED
    BY <2>1, <2>5, <2>6
<1>2. Types'
  BY <1>1 DEF IInv, Types
<1>3. Answers'
  BY <1>1 DEF IInv, Answers
<1>4. PageCalls'
  BY <1>1 DEF IInv, PageCalls
<1>5. Own'
  <2> SUFFICES ASSUME trust' # "nothing"
               PROVE  /\ token' \in {Nobody, last'} /\ OwnProfiles'
                      /\ OwnSaves' /\ OwnReads' /\ OwnForm'
    BY DEF Own
  <2>1. /\ trust # "nothing" /\ token \in {Nobody, last}
        /\ OwnProfiles /\ OwnSaves /\ OwnReads /\ OwnForm
    BY <1>1, Owning
  <2>2. token' \in {Nobody, last'} /\ OwnProfiles'
    BY <1>1, <2>1 DEF OwnProfiles
  <2>3. OwnSaves'
    BY <1>1, <2>1 DEF OwnSaves
  <2>4. OwnReads'
    BY <1>1, <2>1 DEF OwnReads
  <2>5. OwnForm'
    BY <1>1, <2>1 DEF OwnForm
  <2> QED
    BY <2>2, <2>3, <2>4, <2>5
<1>6. Current'
  <2> SUFFICES ASSUME trust' = "all"
               PROVE  OneSave' /\ CacheIsTrue' /\ ProfileForm' /\ SettingsForm'
    BY DEF Current
  <2>1. trust = "all" /\ OneSave /\ CacheIsTrue /\ ProfileForm /\ SettingsForm
    BY <1>1, Knowing
  <2>2. token \in {Nobody, last} /\ OwnProfiles /\ OwnSaves /\ OwnReads /\ OwnForm
    BY <2>1, Owning
  <2>3. OneSave'
    BY <1>1, <2>1 DEF OneSave
  <2>4. CacheIsTrue'
    BY <1>1, <2>1 DEF CacheIsTrue, Committed
  <2>5. ProfileForm'
    BY <1>1, <2>1, <2>2 DEF ProfileForm, OneSave, OwnSaves
  <2>6. SettingsForm'
    BY <1>1, <2>1, <2>2 DEF SettingsForm, IInv, PageCalls
  <2> QED
    BY <2>3, <2>4, <2>5, <2>6
<1> QED
  BY <1>2, <1>3, <1>4, <1>5, <1>6 DEF IInv

\* A save of the settings is over.
LEMMA FinishSettingsKeeps ==
  ASSUME IInv, NEW s \in Slots, FinishSettings(s)
  PROVE  IInv'
<1>1. /\ call[s].kind = "save" /\ call[s].from = "settings" /\ call'[s].kind = "idle"
      /\ call' \in [Slots -> Calls] /\ \A x \in Slots \ {s} : call'[x] = call[x]
      /\ screen' \in Screens /\ screen'.page = screen.page
      /\ \/ ~call[s].here /\ screen' = screen
         \/ /\ call[s].here /\ screen'.original = None /\ screen'.form = screen.form
         \/ /\ call[s].here /\ call[s].stage = "ok" /\ call[s].user # Nobody
            /\ screen'.form = call[s].got /\ screen'.original = call[s].got
      /\ UNCHANGED <<profile, token, cache, fetch, last, trust, saves, faults>>
  <2>1. call[s].kind = "save" /\ call[s].from = "settings" /\ call[s].stage \in {"ok", "refused"}
    BY DEF FinishSettings, Answered
  <2>2. call' = Over(s)
    BY DEF FinishSettings
  <2>3. /\ call' \in [Slots -> Calls] /\ call'[s].kind = "idle"
        /\ \A x \in Slots \ {s} : call'[x] = call[x]
    BY <2>2, SlotOver DEF IInv
  <2>4. call[s].stage = "ok" => call[s].got \in Value /\ call[s].user # Nobody
    BY <2>1 DEF IInv, Answers
  <2>5. screen \in Screens
    BY <2>1, CallKinds DEF IInv, Types, SaveCalls
  <2>6. /\ screen' \in Screens /\ screen'.page = screen.page
        /\ \/ ~call[s].here /\ screen' = screen
           \/ /\ call[s].here /\ screen'.original = None /\ screen'.form = screen.form
           \/ /\ call[s].here /\ call[s].stage = "ok"
              /\ screen'.form = call[s].got /\ screen'.original = call[s].got
    BY <2>1, <2>4, <2>5, NoData DEF FinishSettings, Screens
  <2>7. /\ UNCHANGED <<profile, token, cache, fetch, last, trust, saves, faults>>
    BY DEF FinishSettings, Query, Bounds
  <2> QED
    BY <2>1, <2>3, <2>4, <2>5, <2>6, <2>7
<1>2. Types'
  BY <1>1 DEF IInv, Types
<1>3. Answers'
  BY <1>1 DEF IInv, Answers
<1>4. PageCalls'
  BY <1>1 DEF IInv, PageCalls
<1>5. Own'
  <2> SUFFICES ASSUME trust' # "nothing"
               PROVE  /\ token' \in {Nobody, last'} /\ OwnProfiles'
                      /\ OwnSaves' /\ OwnReads' /\ OwnForm'
    BY DEF Own
  <2>1. /\ trust # "nothing" /\ token \in {Nobody, last}
        /\ OwnProfiles /\ OwnSaves /\ OwnReads /\ OwnForm
    BY <1>1, Owning
  <2>2. token' \in {Nobody, last'} /\ OwnProfiles'
    BY <1>1, <2>1 DEF OwnProfiles
  <2>3. OwnSaves'
    BY <1>1, <2>1 DEF OwnSaves
  <2>4. OwnReads'
    BY <1>1, <2>1 DEF OwnReads
  <2>5. OwnForm'
    BY <1>1, <2>1, NoData, ProfileAssumption DEF OwnForm, OwnSaves, IInv, PageCalls, ProfileAssumption
  <2> QED
    BY <2>2, <2>3, <2>4, <2>5
<1>6. Current'
  <2> SUFFICES ASSUME trust' = "all"
               PROVE  OneSave' /\ CacheIsTrue' /\ ProfileForm' /\ SettingsForm'
    BY DEF Current
  <2>1. trust = "all" /\ OneSave /\ CacheIsTrue /\ ProfileForm /\ SettingsForm
    BY <1>1, Knowing
  <2>2. token \in {Nobody, last} /\ OwnProfiles /\ OwnSaves /\ OwnReads /\ OwnForm
    BY <2>1, Owning
  <2>3. OneSave'
    BY <1>1, <2>1 DEF OneSave
  <2>4. CacheIsTrue'
    BY <1>1, <2>1 DEF CacheIsTrue, Committed
  <2>5. ProfileForm'
    BY <1>1, <2>1, <2>2 DEF ProfileForm, IInv, PageCalls
  <2>6. SettingsForm'
    BY <1>1, <2>1, <2>2 DEF SettingsForm, OneSave, OwnSaves, IInv, PageCalls
  <2> QED
    BY <2>3, <2>4, <2>5, <2>6
<1> QED
  BY <1>2, <1>3, <1>4, <1>5, <1>6 DEF IInv

-----------------------------------------------------------------------------
(* The theorems                                                              *)

\* The invariant holds when the browser starts.
LEMMA Starts == Init => IInv
<1> SUFFICES ASSUME Init PROVE IInv
  OBVIOUS
<1>1. \A u \in Users : profile[u] \in Value /\ profile[u].of = u
  BY DEF Init, Value, Names
<1>2. /\ cache \in Caches /\ cache.data = None /\ fetch \in Fetches /\ fetch.stage = "idle"
      /\ screen \in Screens /\ screen.page = "home"
  BY NoData DEF Init, EmptyCache, NoFetch, Page, Caches, Fetches, Screens
<1>3. call \in [Slots -> Calls] /\ \A s \in Slots : call[s].kind = "idle"
  BY DEF Init, Calls, Idle
<1>4. token \in Users \union {Nobody} /\ last = token /\ trust = "all" /\ saves = 0 /\ faults = 0
  BY DEF Init
<1>5. profile \in [Users -> Value]
  BY <1>1 DEF Init
<1>6. Types
  BY <1>2, <1>3, <1>4, <1>5, ProfileAssumption DEF Types, Trusts, ProfileAssumption
<1>7. Answers /\ PageCalls
  BY <1>2, <1>3 DEF Answers, PageCalls
<1>8. Own
  BY <1>1, <1>2, <1>3, <1>4 DEF Own, OwnProfiles, OwnSaves, OwnReads, OwnForm
<1>9. Current
  BY <1>2, <1>3 DEF Current, OneSave, CacheIsTrue, ProfileForm, SettingsForm
<1> QED
  BY <1>6, <1>7, <1>8, <1>9 DEF IInv

\* The invariant speaks of the variables alone.
LEMMA StuttersKeep == IInv /\ UNCHANGED vars => IInv'
BY DEF vars, IInv, Types, Answers, PageCalls, Own, OwnProfiles, OwnSaves, OwnReads, OwnForm,
       Current, OneSave, CacheIsTrue, Committed, ProfileForm, SettingsForm

\* What the browser, the query and the gateway keep knowing of each other
\* (clientProfilePage.jsx, settingAdminPage.jsx, useUserQueries.js, get_me, update_me).
THEOREM Invariance == Spec => []IInv
<1>1. IInv /\ [Next]_vars => IInv'
  <2> SUFFICES ASSUME IInv, Next PROVE IInv'
    BY StuttersKeep
  <2>1. ASSUME NEW s \in Slots,
               \/ ReadForSettings(s) \/ CommitProfile(s) \/ Fails(s)
               \/ FinishLoad(s) \/ FinishSave(s) \/ FinishSettings(s)
        PROVE  IInv'
    BY <2>1, ReadForSettingsKeeps, CommitProfileKeeps, FailsKeeps, FinishLoadKeeps,
       FinishSaveKeeps,
       FinishSettingsKeeps
  <2>2. ASSUME OpenProfile \/ OpenSettings \/ GoElsewhere \/ Reload \/ Logout \/ SessionEnds
        PROVE  IInv'
    BY <2>2, OpenProfileKeeps, OpenSettingsKeeps, GoElsewhereKeeps, ReloadKeeps, LogoutKeeps,
       SessionEndsKeeps
  <2>3. ASSUME NEW u \in Users, SignIn(u)
        PROVE  IInv'
    BY <2>3, SignInKeeps
  <2>4. ASSUME ReadForQuery \/ FetchFails \/ FinishFetch \/ RetryFetch \/ GiveUpFetch \/ CacheAges
               \/ PauseFetch \/ ResumeFetch
        PROVE  IInv'
    BY <2>4, PauseFetchKeeps, ResumeFetchKeeps, ReadForQueryKeeps, FetchFailsKeeps, FinishFetchKeeps, RetryFetchKeeps,
       GiveUpFetchKeeps,
       CacheAgesKeeps
  <2>5. ASSUME Edit \/ TypeProfile \/ TypeSettings \/ CancelProfile \/ CancelSettings \/ Save
        PROVE  IInv'
    BY <2>5, EditKeeps, TypeProfileKeeps, TypeSettingsKeeps, CancelProfileKeeps,
       CancelSettingsKeeps,
       SaveKeeps
  <2> QED
    BY <2>1, <2>2, <2>3, <2>4, <2>5 DEF Next
<1> QED
  BY Starts, <1>1, PTL DEF Spec

\* Every variable keeps its type, and a form the fields of a profile, also when
\* settings that failed to load are cancelled.
THEOREM ProfileTypes == Spec => []TypeOK
<1>1. IInv => TypeOK
  <2> SUFFICES ASSUME IInv PROVE TypeOK
    OBVIOUS
  <2>1. Types
    BY DEF IInv
  <2>2. \A s \in Slots : call[s].kind \in {"idle", "load", "save"}
    BY <2>1, CallKinds DEF Types
  <2> QED
    BY <2>1, <2>2 DEF TypeOK, Types, Caches, Fetches, Screens
<1> QED
  BY Invariance, <1>1, PTL

\* No profile is shown to or saved as that of another user as long as sessions
\* follow each other by a logout, whatever fetches, saves and pages overlap
\* (useUser's cache, useLogout, get_me and update_me).
THEOREM ProfilesStayOwn == Spec => []ProfilesAreOwn
<1>1. IInv => ProfilesAreOwn
  <2> SUFFICES ASSUME IInv, trust # "nothing"
               PROVE  /\ \A u \in Users : profile[u].of = u
                      /\ token # Nobody /\ Shown =>
                           \/ screen.form.of = token
                           \/ screen.page = "settings" /\ screen.form.of \in {Nobody, Unset}
                           \/ screen.page = "profile" /\ cache.data = None /\ screen.form.of = Nobody
    BY DEF ProfilesAreOwn
  <2>1. token \in {Nobody, last} /\ OwnProfiles /\ OwnSaves /\ OwnReads /\ OwnForm
    BY Owning
  <2> QED
    BY <2>1 DEF OwnProfiles, OwnForm, Shown
<1> QED
  BY Invariance, <1>1, PTL

\* A form at rest shows what the gateway stores, or would be stored as that, unless
\* what the trust names happened (useUser, useUpdateUser, handleSave, update_me).
THEOREM FormsStayCurrent == Spec => []FormsAreCurrent
<1>1. IInv => FormsAreCurrent
  <2> SUFFICES ASSUME IInv, Quiet, trust = "all"
               PROVE  IF screen.page = "settings" THEN screen.form = profile[token]
                      ELSE Stored(screen.form, NoName, profile[token]) = profile[token]
    BY DEF FormsAreCurrent
  <2>1. OneSave /\ CacheIsTrue /\ ProfileForm /\ SettingsForm
    BY Knowing
  <2>2. token = last
    BY Owning DEF Quiet
  <2>3. \A s \in Slots : call[s].kind = "idle"
    BY DEF Quiet, Busy
  <2>4. CASE screen.page = "profile"
    <3>1. /\ cache.data # None /\ cache.data = profile[last]
          /\ screen.form = cache.data \/ Stored(screen.form, NoName, profile[last]) = profile[last]
      BY <2>1, <2>3, <2>4 DEF Quiet, Shown, CacheIsTrue, Committed, ProfileForm
    <3>2. cache.data \in Value
      BY <3>1 DEF IInv, Types, Caches
    <3> QED
      BY <2>2, <2>4, <3>1, <3>2, NoData, StoredIs
  <2>5. CASE screen.page = "settings"
    BY <2>1, <2>2, <2>3, <2>5 DEF Quiet, SettingsForm
  <2> QED
    BY <2>4, <2>5 DEF Quiet, Shown
<1> QED
  BY Invariance, <1>1, PTL

=============================================================================
