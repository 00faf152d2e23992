------------------------- MODULE RefreshCoordinator -------------------------
(***************************************************************************)
(* The customer's browser: several tabs that share one localStorage and    *)
(* one cookie jar and renew the session through coordinatedRefresh, under  *)
(* the Web Locks API or the localStorage mutex that replaces it.  The      *)
(* service they call is the session ledger that AuthSessions implements.   *)
(*                                                                         *)
(* One tab runs one coordinatedRefresh at a time (refreshInFlight).  The   *)
(* synchronous stretches of its code are actions, except that each access  *)
(* to the lock entry, and the reading of the marker before the token is    *)
(* stored, is a step of its own: tabs are processes and localStorage has   *)
(* no mutual exclusion between them.  Times are ages, capped at the limit  *)
(* they are compared with.                                                 *)
(***************************************************************************)
EXTENDS Naturals, FiniteSetsExt

CONSTANTS
    Tabs,          \* open tabs
    Tokens,        \* refresh tokens the service can still grant
    User,          \* the customer
    WebLocks,      \* whether navigator.locks exists
    TabsCrash,     \* whether a tab may close or crash in the middle
    Failures,      \* how a call may fail: "network", "service", "timeout", "stall"
    Unreliable,    \* bound: whether anything fails after a call was cut short
    MaxLogouts,    \* bound: how many tabs sign out at a time
    BlankLogouts,  \* bound: whether a tab signs out that has no cookie to send
    AnonFresh,     \* ANONYMOUS_RESULT_FRESH_MS
    FetchTimeout,  \* REQUEST_TIMEOUT_MS
    LockTTL,       \* REFRESH_LOCK_TTL_MS and LOCK_WAIT_MS
    MaxWait,       \* MAX_COORDINATION_WAIT_MS
    NULL

\* In ticks; "Lock TTL must exceed the 35s apiFetch request timeout".
ASSUME TimesAssumption ==
    /\ {AnonFresh, FetchTimeout, LockTTL, MaxWait} \subseteq Nat \ {0}
    /\ AnonFresh <= FetchTimeout
    /\ FetchTimeout < LockTTL
    /\ LockTTL < MaxWait
    /\ {WebLocks, TabsCrash, Unreliable, BlankLogouts} \subseteq BOOLEAN
    /\ MaxLogouts \in Nat
    /\ Failures \subseteq {"network", "service", "timeout", "stall"}
    /\ NULL \notin Tabs \cup Tokens \cup Nat \cup {User}

VARIABLES
    state, owner, open,  \* the session ledger
    jar,      \* the refresh token in the cookie jar
    access,   \* whether an access token is stored and unexpired
    marker,   \* the result marker: status and age
    lock,     \* the localStorage lock entry: tab and age
    mutex,    \* the tab that holds the Web Lock
    pc,       \* where each tab's coordinatedRefresh is
    waited,   \* how long each tab has been coordinating
    alarm,    \* when the timer of a sleeping tab fires
    raced,    \* whether the marker was written since the tab's refresh began
    call,     \* the refresh request each tab sent
    leaving,  \* each tab's customerLogout
    orphans,  \* refreshes and logouts that were given up before the service read them
    out,      \* whether the customer signed out, and how (history)
    cut       \* whether a refresh or a logout was cut short (history)

ends == <<orphans, cut>>
ledger == <<state, owner, open>>
storage == <<access, marker, lock>>
timers == <<waited, alarm>>
vars == <<state, owner, open, jar, access, marker, lock, mutex, pc, waited, alarm, raced,
          call, leaving, orphans, out, cut>>

Service == INSTANCE SessionLedger

Places == {"idle", "start", "queued", "try", "write", "confirm", "asleep", "section", "fetching",
           "reading", "stalled", "settle", "store", "release", "remove", "closed"}

\* loyal: sent while the customer was signed in, and no logout since.
\* late: sent after a logout was complete.
Call ==
    [token : Tokens \cup {NULL}, stage : {"sent", "rotated", "answered"},
     answer : {"none", "success", "unauthorized", "failed"}, next : Tokens \cup {NULL},
     age : 0..FetchTimeout, loyal : BOOLEAN, late : BOOLEAN]

ASSUME CallAssumption == NULL \notin Call

\* alone (history): no refresh and no login overlaps it.
Leaving ==
    [stage : {"no", "sent", "served", "answered"}, token : Tokens \cup {NULL}, alone : BOOLEAN]

Staying == [stage |-> "no", token |-> NULL, alone |-> FALSE]
Leaves(t) == leaving[t].stage # "no"
Leavers == {t \in Tabs : Leaves(t)}

\* Bounds every failure.
MayFail == Unreliable \/ ~cut
Fails(kind) == kind \in Failures /\ MayFail

\* asked: a logout began; done: one was answered; clean: one that was alone was.
Outs == {"no", "asked", "done", "clean"}

Marker == [status : {"none", "active", "anonymous"}, age : 0..AnonFresh]

-----------------------------------------------------------------------------

Go(t, place) == pc' = [pc EXCEPT ![t] = place]

\* Every other refresh that is under way will find a marker no older than its start.
RaceRefreshes(t) == raced' = [s \in Tabs |-> s # t /\ call[s] # NULL]

\* writeRefreshResult: the other tabs see a storage event.
WriteMarker(t, status) ==
    /\ marker' = [status |-> status, age |-> 0]
    /\ RaceRefreshes(t)
    /\ pc' = [s \in Tabs |-> IF s = t THEN "release"
                             ELSE IF pc[s] = "asleep" THEN "try" ELSE pc[s]]

\* A change of the lock entry wakes the other tabs that wait.
LockChanged(t, place) ==
    pc' = [s \in Tabs |-> IF s = t THEN place
                          ELSE IF pc[s] = "asleep" THEN "try" ELSE pc[s]]

Fresh(entry) == entry # NULL /\ entry.age < LockTTL

InState(s) == {k \in Tokens : state[k] = s}

\* The refreshes that a tab is still waiting for.
InFlight == {t \in Tabs : pc[t] \in {"fetching", "reading", "stalled"}}

\* A refresh or a login begins: no logout under way is alone.
Overlap == leaving' = [t \in Tabs |-> [leaving[t] EXCEPT !.alone = FALSE]]

Older(age, limit) == IF age < limit THEN age + 1 ELSE age

-----------------------------------------------------------------------------
(* coordinatedRefresh and the lock. *)

\* ensureCustomerSession found no access token.
Begin(t) ==
    /\ pc[t] = "idle"
    /\ ~access
    /\ Go(t, IF WebLocks THEN "queued" ELSE "try")
    /\ waited' = [waited EXCEPT ![t] = 0]
    /\ UNCHANGED <<ledger, jar, storage, mutex, alarm, raced, call, leaving, out, ends>>

\* Mutant: the lock is requested in shared mode.
AcquireWebLock_shared(t) ==
    /\ pc[t] = "queued"
    /\ mutex' = t
    /\ Go(t, "section")
    /\ UNCHANGED <<ledger, jar, storage, timers, raced, call, leaving, out, ends>>

\* navigator.locks.request.
AcquireWebLock(t) ==
    /\ pc[t] = "queued"
    /\ mutex = NULL
    /\ mutex' = t
    /\ Go(t, "section")
    /\ UNCHANGED <<ledger, jar, storage, timers, raced, call, leaving, out, ends>>

\* The tab is not the owner: past the deadline it refreshes without the lock,
\* before that it sleeps for LOCK_WAIT_MS, not beyond the deadline.
WaitOrGiveUp(t) ==
    IF waited[t] = MaxWait THEN Go(t, "section") /\ UNCHANGED alarm
    ELSE Go(t, "asleep") /\ alarm' = [alarm EXCEPT ![t] = Min({waited[t] + LockTTL, MaxWait})]

\* Top of the fallback loop, up to the first getItem of tryAcquireRefreshLock.
ReadLock(t) ==
    /\ pc[t] = "try"
    /\ IF access THEN Go(t, "idle") /\ UNCHANGED alarm
       ELSE IF ~Fresh(lock) THEN Go(t, "write") /\ UNCHANGED alarm
       ELSE IF lock.tab = t THEN Go(t, "section") /\ UNCHANGED alarm
       ELSE WaitOrGiveUp(t)
    /\ UNCHANGED <<ledger, jar, storage, mutex, waited, raced, call, leaving, out, ends>>

\* setItem: no entry, or a stale one to steal.
WriteLock(t) ==
    /\ pc[t] = "write"
    /\ lock' = [tab |-> t, age |-> 0]
    /\ LockChanged(t, "confirm")
    /\ UNCHANGED <<ledger, jar, access, marker, mutex, timers, raced, call, leaving, out, ends>>

\* The re-read that decides.
ConfirmLock(t) ==
    /\ pc[t] = "confirm"
    /\ IF lock # NULL /\ lock.tab = t THEN Go(t, "section") /\ UNCHANGED alarm
       ELSE WaitOrGiveUp(t)
    /\ UNCHANGED <<ledger, jar, storage, mutex, waited, raced, call, leaving, out, ends>>

\* Mutant: a waiting tab relies on storage events alone.
WakeByTimer_eventsonly(t) == FALSE /\ UNCHANGED vars

\* waitForLockChange times out.
WakeByTimer(t) ==
    /\ pc[t] = "asleep"
    /\ waited[t] >= alarm[t]
    /\ Go(t, "try")
    /\ UNCHANGED <<ledger, jar, storage, mutex, timers, raced, call, leaving, out, ends>>

\* The Web Lock is given back, or releaseRefreshLock looks for an entry of its own.
Release(t) ==
    /\ pc[t] = "release"
    /\ mutex' = IF mutex = t THEN NULL ELSE mutex
    /\ Go(t, IF ~WebLocks /\ lock # NULL /\ lock.tab = t THEN "remove" ELSE "idle")
    /\ UNCHANGED <<ledger, jar, storage, timers, raced, call, leaving, out, ends>>

\* removeItem, whosever the entry is by now.
RemoveLock(t) ==
    /\ pc[t] = "remove"
    /\ lock' = NULL
    /\ LockChanged(t, "idle")
    /\ UNCHANGED <<ledger, jar, access, marker, mutex, timers, raced, call, leaving, out, ends>>

-----------------------------------------------------------------------------
(* runRefreshCriticalSection. *)

\* Reuse the token or the fresh anonymous marker, or send the request.
EnterSection(t) ==
    /\ pc[t] = "section"
    /\ IF access \/ (marker.status = "anonymous" /\ marker.age < AnonFresh)
       THEN Go(t, "release") /\ UNCHANGED <<raced, call, leaving>>
       ELSE /\ Go(t, "fetching")
            /\ raced' = [raced EXCEPT ![t] = FALSE]
            /\ call' = [call EXCEPT ![t] =
                  [token |-> jar, stage |-> "sent", answer |-> "none", next |-> NULL, age |-> 0,
                   loyal |-> out = "no" /\ jar # NULL, late |-> out # "no" /\ out # "asked"]]
            /\ Overlap
    /\ UNCHANGED <<ledger, jar, storage, mutex, timers, out, ends>>

\* The answer has come: on a failure nothing is touched, on a 401 the token
\* goes and the marker is written, on a success the marker is read first.
Settle(t) ==
    /\ pc[t] = "settle"
    /\ call' = [call EXCEPT ![t] = NULL]
    /\ \/ /\ call[t].answer = "failed"
          /\ Go(t, "release")
          /\ raced' = [raced EXCEPT ![t] = FALSE]
          /\ UNCHANGED <<access, marker, ends>>
       \/ /\ call[t].answer = "unauthorized"
          /\ access' = FALSE
          /\ WriteMarker(t, "anonymous")
       \/ /\ call[t].answer = "success"
          /\ raced[t] /\ marker.status = "anonymous"
          /\ access' = FALSE
          /\ Go(t, "release")
          /\ raced' = [raced EXCEPT ![t] = FALSE]
          /\ UNCHANGED <<marker, ends>>
       \/ /\ call[t].answer = "success"
          /\ ~(raced[t] /\ marker.status = "anonymous")
          /\ Go(t, "store")
          /\ raced' = [raced EXCEPT ![t] = FALSE]
          /\ UNCHANGED <<access, marker, ends>>
    /\ UNCHANGED <<ledger, jar, lock, mutex, timers, leaving, out, ends>>

\* setCustomerAccessToken and the active marker.
StoreToken(t) ==
    /\ pc[t] = "store"
    /\ access' = TRUE
    /\ WriteMarker(t, "active")
    /\ UNCHANGED <<ledger, jar, lock, mutex, timers, call, leaving, out, ends>>

-----------------------------------------------------------------------------
(* The service and the network. *)

\* The request reaches the service, which rotates or refuses its token.
Serve(t) ==
    /\ call[t] # NULL /\ call[t].stage = "sent"
    /\ LET k == call[t].token IN
       \/ /\ k \in InState("live")
          /\ Service!Rotate(k)
          /\ call' = [call EXCEPT ![t].stage = "rotated"]
       \/ /\ k \notin InState("live")
          /\ IF k \in InState("stale") THEN Service!EndAll(k) ELSE UNCHANGED ledger
          /\ call' = [call EXCEPT ![t].stage = "answered", ![t].answer = "unauthorized"]
    /\ UNCHANGED <<jar, storage, mutex, pc, timers, raced, leaving, out, ends>>

\* It grants the next token.
Renew(t, n) ==
    /\ call[t] # NULL /\ call[t].stage = "rotated"
    /\ Service!Renew(call[t].token, n)
    /\ call' = [call EXCEPT ![t].stage = "answered", ![t].answer = "success", ![t].next = n]
    /\ UNCHANGED <<jar, storage, mutex, pc, timers, raced, leaving, out, ends>>

\* A statement of the service fails; it answers 401 all the same.
ServiceFails(t) ==
    /\ Fails("service")
    /\ call[t] # NULL /\ call[t].stage \in {"sent", "rotated"}
    /\ IF call[t].stage = "rotated" THEN Service!Forfeit(call[t].token) ELSE UNCHANGED ledger
    /\ call' = [call EXCEPT ![t].stage = "answered", ![t].answer = "unauthorized"]
    /\ cut' = TRUE
    /\ UNCHANGED <<jar, storage, mutex, pc, timers, raced, leaving, out, orphans>>

\* Mutant: the refresh answers without the new cookie.
Receive_nocookie(t) ==
    /\ pc[t] = "fetching"
    /\ call[t].stage = "answered"
    /\ Go(t, "reading")
    /\ UNCHANGED <<ledger, jar, storage, mutex, timers, raced, call, leaving, out, ends>>

\* The head of the response arrives: the browser stores its cookie, and apiFetch
\* clears the abort timer.
Receive(t) ==
    /\ pc[t] = "fetching"
    /\ call[t].stage = "answered"
    /\ jar' = IF call[t].answer = "success" THEN call[t].next ELSE jar
    /\ Go(t, "reading")
    /\ UNCHANGED <<ledger, storage, mutex, timers, raced, call, leaving, out, ends>>

\* parseJsonEnvelope: the body arrives, or stops half way.
ReadBody(t) ==
    /\ pc[t] = "reading"
    /\ Go(t, "settle")
    /\ UNCHANGED <<ledger, jar, storage, mutex, timers, raced, call, leaving, out, ends>>

BodyStalls(t) ==
    /\ Fails("stall")
    /\ pc[t] = "reading"
    /\ Go(t, "stalled")
    /\ UNCHANGED <<ledger, jar, storage, mutex, timers, raced, call, leaving, out, ends>>

\* A refresh or a logout is given up before the service has read it; it may
\* still be served when nobody waits for it.
Unread(t) ==
    IF call[t] # NULL /\ call[t].stage = "sent" /\ call[t].token # NULL
    THEN {<<"refresh", call[t].token>>} ELSE {}

UnreadLogout(t) ==
    IF leaving[t].stage = "sent" /\ leaving[t].token # NULL
    THEN {<<"logout", leaving[t].token>>} ELSE {}

\* One that is given up between the two statements of the service ends there.
ServiceGivesUp(t) ==
    IF call[t] # NULL /\ call[t].stage = "rotated" THEN Service!Forfeit(call[t].token)
    ELSE UNCHANGED ledger

\* The call is lost or aborted, wherever the service is with it.
FetchEnds(t) ==
    /\ pc[t] \in {"fetching", "reading"}
    /\ ServiceGivesUp(t)
    /\ orphans' = orphans \cup Unread(t)
    /\ cut' = TRUE
    /\ call' = [call EXCEPT ![t].stage = "answered", ![t].answer = "failed"]
    /\ Go(t, "settle")
    /\ UNCHANGED <<jar, storage, mutex, timers, raced, leaving, out>>

\* It is served after all, or lost.
ServeOrphan(path, k) ==
    /\ <<path, k>> \in orphans
    /\ orphans' = orphans \ {<<path, k>>}
    /\ \/ path = "refresh" /\ k \in InState("live") /\ Service!RotateUnheard(k)
       \/ path = "refresh" /\ k \in InState("stale") /\ Service!EndAll(k)
       \/ path = "logout" /\ k \in Service!Unrevoked /\ Service!Logout(k)
       \/ UNCHANGED ledger
    /\ UNCHANGED <<jar, storage, mutex, pc, timers, raced, call, leaving, out, cut>>

\* The network fails.
FetchFails(t) == Fails("network") /\ FetchEnds(t)

\* The abort timer of apiFetch fires.
FetchTimesOut(t) ==
    /\ Fails("timeout")
    /\ pc[t] = "fetching" /\ call[t].age = FetchTimeout
    /\ FetchEnds(t)

-----------------------------------------------------------------------------
(* Login and logout, other events, time. *)

\* A login page stores its token and its cookie; no marker is written.
Login(n) ==
    /\ Service!Login(n, User)
    /\ jar' = n
    /\ access' = TRUE
    /\ out' = "no"
    /\ Overlap
    /\ UNCHANGED <<marker, lock, mutex, pc, timers, raced, call, ends>>

\* customerLogout sends the cookie of the jar; no refresh may count on it now.
StartLogout(t) ==
    /\ ~Leaves(t) /\ pc[t] # "closed"
    /\ Cardinality(Leavers) < MaxLogouts /\ (jar # NULL \/ BlankLogouts)
    /\ leaving' = [leaving EXCEPT ![t] =
          [stage |-> "sent", token |-> jar, alone |-> \A s \in Tabs : call[s] = NULL /\ pc[s] # "store"]]
    /\ call' = [s \in Tabs |-> IF call[s] = NULL THEN NULL ELSE [call[s] EXCEPT !.loyal = FALSE]]
    /\ out' = IF out = "no" THEN "asked" ELSE out
    /\ UNCHANGED <<ledger, jar, storage, mutex, pc, timers, raced, ends>>

\* The service revokes its token; a failure to do so is ignored.
ServeLogout(t) ==
    /\ leaving[t].stage = "sent"
    /\ \/ IF leaving[t].token \in Service!Unrevoked THEN Service!Logout(leaving[t].token) ELSE UNCHANGED ledger
       \/ Fails("service") /\ UNCHANGED ledger
    /\ leaving' = [leaving EXCEPT ![t].stage = "served"]
    /\ UNCHANGED <<jar, storage, mutex, pc, timers, raced, call, out, ends>>

\* Mutant: the logout endpoint does not clear the cookie.
HearLogout_cookie(t) ==
    /\ leaving[t].stage = "served"
    /\ leaving' = [leaving EXCEPT ![t].stage = "answered"]
    /\ UNCHANGED <<ledger, jar, storage, mutex, pc, timers, raced, call, out, ends>>

\* The head of its response clears the cookie.
HearLogout(t) ==
    /\ leaving[t].stage = "served"
    /\ leaving' = [leaving EXCEPT ![t].stage = "answered"]
    /\ jar' = NULL
    /\ UNCHANGED <<ledger, storage, mutex, pc, timers, raced, call, out, ends>>

\* The finally block: the token goes and the marker is written.
SignOutLocally(t) ==
    /\ leaving' = [leaving EXCEPT ![t] = Staying]
    /\ access' = FALSE
    /\ marker' = [status |-> "anonymous", age |-> 0]
    /\ raced' = [s \in Tabs |-> call[s] # NULL]
    /\ pc' = [s \in Tabs |-> IF s # t /\ pc[s] = "asleep" THEN "try" ELSE pc[s]]
    /\ UNCHANGED <<ledger, jar, lock, mutex, timers, call>>

FinishLogout(t) ==
    /\ leaving[t].stage = "answered"
    /\ SignOutLocally(t)
    /\ out' = IF leaving[t].alone THEN "clean" ELSE IF out = "asked" THEN "done" ELSE out
    /\ UNCHANGED ends

\* The request, its response or the body is lost, or its abort timer fires: the
\* page signs out all the same, whatever the jar and the service still have.
LogoutFails(t) ==
    /\ Fails("network")
    /\ Leaves(t)
    /\ SignOutLocally(t)
    /\ orphans' = orphans \cup UnreadLogout(t)
    /\ cut' = TRUE
    /\ UNCHANGED out

\* The access token reaches its expiry and is dropped at the next read.
AccessExpires ==
    /\ access
    /\ access' = FALSE
    /\ UNCHANGED <<ledger, jar, marker, lock, mutex, pc, timers, raced, call, leaving, out, ends>>

\* A tab closes or crashes: what it remembers is gone and a Web Lock is given
\* back; a lock entry stays, and so does a request that the service has.
Crash(t) ==
    /\ TabsCrash /\ MayFail
    /\ pc[t] # "closed"
    /\ Go(t, "closed")
    /\ mutex' = IF mutex = t THEN NULL ELSE mutex
    /\ ServiceGivesUp(t)
    /\ orphans' = orphans \cup Unread(t) \cup UnreadLogout(t)
    /\ cut' = (cut \/ call[t] # NULL \/ Leaves(t))
    /\ call' = [call EXCEPT ![t] = NULL]
    /\ leaving' = [leaving EXCEPT ![t] = Staying]
    /\ waited' = [waited EXCEPT ![t] = 0]
    /\ alarm' = [alarm EXCEPT ![t] = 0]
    /\ raced' = [raced EXCEPT ![t] = FALSE]
    /\ UNCHANGED <<jar, storage, out>>

\* Time passes, unless a fetch has reached its timeout.
Tick ==
    /\ \A t \in Tabs : pc[t] = "fetching" => call[t].age < FetchTimeout
    /\ marker' = [marker EXCEPT !.age = Older(@, AnonFresh)]
    /\ lock' = IF lock = NULL THEN NULL ELSE [lock EXCEPT !.age = Older(@, LockTTL)]
    /\ waited' = [t \in Tabs |-> IF pc[t] \in {"try", "write", "confirm", "asleep"}
                                 THEN Older(waited[t], MaxWait) ELSE 0]
    /\ alarm' = [t \in Tabs |-> IF pc[t] = "asleep" THEN alarm[t] ELSE 0]
    /\ call' = [t \in Tabs |-> IF call[t] = NULL THEN NULL
                               ELSE [call[t] EXCEPT !.age = Older(@, FetchTimeout)]]
    /\ UNCHANGED <<ledger, jar, access, mutex, pc, raced, leaving, out, ends>>

\* Revoked tokens leave the concurrent window of the service.  The window (a
\* minute) outlasts a call (35 s): the token of a refresh or a logout that its tab
\* waits for stays in it.
ServiceAges ==
    /\ LET awaited == {call[t].token : t \in {s \in Tabs : pc[s] = "fetching"}}
                      \cup {leaving[t].token : t \in {s \in Tabs : leaving[s].stage \in {"sent", "served"}}}
       IN  \E S \in SUBSET (InState("recent") \ awaited) : S # {} /\ Service!Age(S)
    /\ UNCHANGED <<jar, storage, mutex, pc, timers, raced, call, leaving, out, ends>>

-----------------------------------------------------------------------------

Init ==
    /\ Service!LedgerInit
    /\ jar = NULL
    /\ access = FALSE
    /\ marker = [status |-> "none", age |-> AnonFresh]
    /\ lock = NULL
    /\ mutex = NULL
    /\ pc = [t \in Tabs |-> "idle"]
    /\ waited = [t \in Tabs |-> 0]
    /\ alarm = [t \in Tabs |-> 0]
    /\ raced = [t \in Tabs |-> FALSE]
    /\ call = [t \in Tabs |-> NULL]
    /\ leaving = [t \in Tabs |-> Staying]
    /\ orphans = {}
    /\ out = "no"
    /\ cut = FALSE

\* What a tab does by itself once its refresh has begun.
Advance(t) ==
    \/ AcquireWebLock(t) \/ ReadLock(t) \/ WriteLock(t) \/ ConfirmLock(t) \/ WakeByTimer(t)
    \/ Release(t) \/ RemoveLock(t) \/ EnterSection(t) \/ Settle(t) \/ StoreToken(t) \/ Receive(t)
    \/ ReadBody(t)

\* What the service does for its request.
Answer(t) == Serve(t) \/ \E n \in Tokens : Renew(t, n)

Next ==
    \/ \E t \in Tabs :
          \/ Begin(t) \/ Advance(t) \/ Answer(t) \/ ServiceFails(t)
          \/ FetchFails(t) \/ FetchTimesOut(t) \/ BodyStalls(t)
          \/ StartLogout(t) \/ ServeLogout(t) \/ HearLogout(t) \/ FinishLogout(t) \/ LogoutFails(t)
          \/ Crash(t)
    \/ \E n \in Tokens : Login(n) \/ (\E path \in {"refresh", "logout"} : ServeOrphan(path, n))
    \/ AccessExpires \/ Tick \/ ServiceAges

Spec == Init /\ [][Next]_vars

\* The event loop runs what is due, timers fire, time passes, a fetch is aborted
\* at its timeout and a Web Lock goes to those who queue for it; the service owes
\* no answer, and a body that does not stall arrives.
Fairness ==
    /\ \A t \in Tabs : WF_vars(Advance(t)) /\ WF_vars(FetchTimesOut(t)) /\ SF_vars(AcquireWebLock(t))
    /\ WF_vars(Tick)

LiveSpec == Spec /\ Fairness

-----------------------------------------------------------------------------
(* Properties. *)

\* "across ALL tabs at most ONE refresh request is in flight": no two tabs
\* wait for a refresh (coordinatedRefresh).
AtMostOneRefresh == Cardinality(InFlight) <= 1

\* While no refresh and no logout is cut short, a refresh that a signed-in
\* customer's tab sends is not refused before the customer signs out: no tab
\* presents a token that another one spent, nor one that an earlier logout ends.
NoFalseSignOut ==
    ~cut => \A t \in Tabs : call[t] # NULL /\ call[t].loyal => call[t].answer # "unauthorized"

\* After a logout that was answered, and that no refresh and no login overlapped,
\* no tab gets a session back until the next login, even if the service failed to
\* revoke the token (customerLogout, Logout).  A logout that fails promises
\* nothing: its cookie and its session stay.
CleanLogoutSticks ==
    out = "clean" =>
        /\ ~access
        /\ \A t \in Tabs : call[t] # NULL => call[t].answer # "success"


\* A coordinated refresh ends, even if the tab that holds the lock is gone
\* and whatever the other tabs do,
\* provided that no body stalls once its head has arrived (coordinatedRefresh).
EveryRefreshEnds == \A t \in Tabs : pc[t] # "idle" ~> pc[t] \in {"idle", "closed"}

=============================================================================
