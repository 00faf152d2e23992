---------------------- MODULE RefreshCoordinator_proofs ----------------------
(***************************************************************************)
(* Theorems of RefreshCoordinator where the browser has Web Locks, for     *)
(* all sets of tabs and tokens and every way in which calls fail.          *)
(*                                                                         *)
(* The argument: a tab past the lock owns the mutex, so one refresh at     *)
(* most is under way.  As long as no call is cut short, the cookie jar     *)
(* holds a live token, or the one that this refresh or a logout in         *)
(* progress has just ended, and a logout that ends what a customer counts  *)
(* on is one that the customer asked for; so nobody presents a token that  *)
(* somebody else spent.  A logout that nothing overlaps finds no request   *)
(* and leaves an empty jar, whether or not the service could revoke.       *)
(***************************************************************************)
EXTENDS RefreshCoordinator, FiniteSetTheorems, TLAPS

Waiting == {"fetching", "reading", "stalled", "settle"}
Critical == Waiting \cup {"section", "store", "release"}

\* With Web Locks the places of the localStorage mutex are not used.
LockPlaces == Critical \cup {"idle", "queued", "closed"}

Exclusion ==
    /\ mutex \in Tabs \cup {NULL}
    /\ pc \in [Tabs -> LockPlaces]
    /\ \A t \in Tabs : pc[t] \in Critical => mutex = t

TokenTypes ==
    /\ state \in [Tokens -> Service!States]
    /\ jar \in Tokens \cup {NULL}
    /\ call \in [Tabs -> Call \cup {NULL}]
    /\ leaving \in [Tabs -> Leaving]
    /\ \A t \in Tabs : leaving[t].stage = "no" => leaving[t] = Staying
    /\ out \in Outs
    /\ cut \in BOOLEAN
    /\ access \in BOOLEAN

\* A tab has a request from the section on until its answer is dealt with.
Requests(t) ==
    /\ call[t] # NULL <=> pc[t] \in Waiting
    /\ call[t] # NULL => /\ call[t].answer = "success" => call[t].next \in Tokens
                         /\ pc[t] # "fetching" => call[t].stage = "answered"
                         /\ call[t].stage # "answered" => call[t].answer = "none"

\* The request of t has ended the token k and its successor is not in the jar yet.
Rotating(t, k) ==
    /\ pc[t] = "fetching" /\ call[t].token = k
    /\ call[t].stage = "rotated" \/ (call[t].stage = "answered" /\ call[t].answer = "success")

\* A logout under way carries k.
Carried(k) == \E t \in Tabs : leaving[t].stage \in {"sent", "served"} /\ leaving[t].token = k

\* What the cookie jar holds.
JarIsGood == jar # NULL =>
    /\ out = "no" => ~Carried(jar)
    /\ \/ state[jar] = "live"
       \/ state[jar] = "recent" /\ (Carried(jar) \/ \E t \in Tabs : Rotating(t, jar))

\* What a request under way carries.
CallIsGood(t) == call[t] # NULL =>
    /\ pc[t] = "fetching" /\ call[t].stage = "sent" /\ call[t].token # NULL =>
         state[call[t].token] \in {"live", "recent"}
    /\ pc[t] = "fetching" /\ call[t].answer = "success" =>
         state[call[t].next] = "live" /\ call[t].next # jar /\ ~Carried(call[t].next)
    /\ call[t].loyal => /\ call[t].stage = "sent" => /\ call[t].token \in Tokens
                                                     /\ state[call[t].token] = "live"
                                                     /\ ~Carried(call[t].token)
                        /\ call[t].answer # "unauthorized"

\* A refresh that was cut short may leave its token spent and its successor lost.
Uncut == ~cut =>
    /\ orphans = {}
    /\ JarIsGood
    /\ \A t \in Tabs : CallIsGood(t)

\* Whatever is in the jar, on its way there or on its way out was granted.
Born ==
    /\ jar # NULL => state[jar] # "unborn"
    /\ \A t \in Tabs : call[t] # NULL =>
         /\ call[t].token # NULL => state[call[t].token] # "unborn"
         /\ call[t].answer = "success" => state[call[t].next] # "unborn"
    /\ \A t \in Tabs : leaving[t].token # NULL => state[leaving[t].token] # "unborn"

\* No refresh begins during a logout that is alone, and its answer empties the jar.
Undisturbed == \A t \in Tabs : Leaves(t) /\ leaving[t].alone =>
    /\ \A s \in Tabs : call[s] = NULL /\ pc[s] # "store"
    /\ leaving[t].stage = "answered" => jar = NULL

\* After it the browser has nothing to present.
SignedOut == out = "clean" =>
    /\ jar = NULL /\ ~access
    /\ \A t \in Tabs : call[t] # NULL =>
         call[t].token = NULL /\ call[t].stage # "rotated" /\ call[t].answer # "success"
    /\ \A t \in Tabs : pc[t] # "store"

IInv ==
    /\ Exclusion
    /\ TokenTypes
    /\ \A t \in Tabs : Requests(t)
    /\ Uncut
    /\ Born
    /\ Undisturbed
    /\ SignedOut

-----------------------------------------------------------------------------
(* What the service does to tokens. *)

LEMMA Names == NULL \notin Tabs /\ NULL \notin Tokens
  BY TimesAssumption

\* What was granted stays granted.
Ages ==
    /\ state' \in [Tokens -> Service!States]
    /\ \A k \in Tokens : state[k] # "unborn" => state'[k] # "unborn"

LEMMA RotateEffect ==
  ASSUME TokenTypes, NEW k \in Tokens, Service!Rotate(k) \/ Service!RotateUnheard(k)
  PROVE  Ages /\ state[k] = "live" /\ state'[k] = "recent" /\ \A m \in Tokens : m # k => state'[m] = state[m]
  BY DEF TokenTypes, Ages, Service!Rotate, Service!RotateUnheard, Service!States

LEMMA GrantEffect ==
  ASSUME TokenTypes, NEW n \in Tokens, NEW u, Service!Grant(n, u)
  PROVE  Ages /\ state[n] = "unborn" /\ state'[n] = "live" /\ \A m \in Tokens : m # n => state'[m] = state[m]
  BY DEF TokenTypes, Ages, Service!Grant, Service!States

LEMMA LogoutEffect ==
  ASSUME TokenTypes, NEW k \in Tokens, Service!Logout(k)
  PROVE  Ages /\ state'[k] = "recent" /\ \A m \in Tokens : m # k => state'[m] = state[m]
  BY DEF TokenTypes, Ages, Service!Logout, Service!End, Service!Unrevoked, Service!States

LEMMA EndAllEffect ==
  ASSUME TokenTypes, NEW k, Service!EndAll(k)
  PROVE  Ages
  BY DEF TokenTypes, Ages, Service!EndAll, Service!End, Service!Unrevoked, Service!States

LEMMA AgeEffect ==
  ASSUME TokenTypes, NEW S \in SUBSET InState("recent"), Service!Age(S)
  PROVE  Ages /\ \A m \in Tokens : m \notin S => state'[m] = state[m]
  BY DEF TokenTypes, Ages, InState, Service!Age, Service!States

LEMMA ForfeitEffect ==
  ASSUME NEW k, Service!Forfeit(k)
  PROVE  state' = state
  BY DEF Service!Forfeit

LEMMA LedgerSame == ASSUME TokenTypes, state' = state PROVE Ages
  BY DEF TokenTypes, Ages

-----------------------------------------------------------------------------
(* Steps by their shape. *)

\* t moves to a place; a place past the lock belongs to its owner.
LEMMA Moves ==
  ASSUME Exclusion, NEW t \in Tabs, NEW place \in LockPlaces, Go(t, place), mutex' = mutex,
         place \in Critical => mutex = t
  PROVE  Exclusion' /\ pc'[t] = place /\ \A s \in Tabs : s # t => pc'[s] = pc[s]
  BY DEF Exclusion, Go

LEMMA OnlyOne ==
  ASSUME Exclusion, NEW t \in Tabs, pc[t] \in Critical, NEW s \in Tabs, pc[s] \in Critical
  PROVE  s = t
  BY DEF Exclusion

\* A request keeps what it carries, or is dealt with.
Keeps(t) ==
    /\ call[t] # NULL
    /\ call'[t].token = call[t].token /\ call'[t].stage = call[t].stage
    /\ call'[t].answer = call[t].answer /\ call'[t].next = call[t].next
    /\ call'[t].loyal = call[t].loyal
    /\ pc'[t] = "fetching" => pc[t] = "fetching"

\* Neither the jar, nor the service, nor a request under way changes.
QuietStep ==
    /\ UNCHANGED <<state, jar, leaving, orphans, out, cut>>
    /\ \A t \in Tabs :
        /\ call'[t] = NULL \/ Keeps(t)
        /\ pc[t] = "fetching" => pc'[t] = "fetching" /\ call'[t] # NULL
        /\ pc'[t] = "store" => pc[t] = "store" \/ (call[t] # NULL /\ call[t].answer = "success")
    /\ access' => access \/ \E t \in Tabs : pc[t] = "store"

LEMMA QuietInv ==
  ASSUME IInv, QuietStep, Exclusion', TokenTypes', \A t \in Tabs : Requests(t)'
  PROVE  IInv'
  <1>0. /\ UNCHANGED <<state, jar, leaving, orphans, out, cut>>
        /\ \A t \in Tabs : call'[t] = NULL \/ Keeps(t)
        /\ \A t \in Tabs : pc[t] = "fetching" => pc'[t] = "fetching" /\ call'[t] # NULL
    BY DEF QuietStep
  <1>1. ASSUME ~cut' PROVE Uncut'
    <2>1. orphans = {} /\ JarIsGood /\ \A t \in Tabs : CallIsGood(t)
      BY <1>0, <1>1 DEF IInv, Uncut
    <2>2. \A t \in Tabs : Rotating(t, jar) => Rotating(t, jar)'
      BY <1>0 DEF Rotating, Keeps
    <2>3. JarIsGood'
      BY <1>0, <2>1, <2>2 DEF JarIsGood, Carried
    <2>4. \A t \in Tabs : CallIsGood(t)'
      BY <1>0, <2>1 DEF CallIsGood, Keeps, Carried
    <2>5. QED
      BY <1>0, <2>1, <2>3, <2>4 DEF Uncut
  <1>2. Born'
    BY <1>0 DEF IInv, Born, Keeps
  <1>3. Undisturbed' /\ SignedOut'
    BY DEF IInv, QuietStep, Undisturbed, Leaves, SignedOut, Keeps
  <1>4. QED
    BY <1>1, <1>2, <1>3 DEF IInv, Uncut

\* A tab moves on and its request stays as it is.
LEMMA Progress ==
  ASSUME IInv, NEW t \in Tabs, NEW place, pc'[t] = place, \A s \in Tabs : s # t => pc'[s] = pc[s],
         Exclusion', UNCHANGED <<state, jar, leaving, orphans, out, cut, call, access>>,
         place \notin {"fetching", "store"}, pc[t] # "fetching", pc[t] \in Waiting <=> place \in Waiting
  PROVE  IInv'
  <1>1. TokenTypes'
    BY DEF IInv, TokenTypes
  <1>2. \A s \in Tabs : Requests(s)'
    BY DEF IInv, Requests
  <1>3. QuietStep
    BY DEF IInv, QuietStep, Keeps, Requests, Waiting
  <1>4. QED
    BY <1>1, <1>2, <1>3, QuietInv

LEMMA WalkInv ==
  ASSUME WebLocks, IInv, NEW t \in Tabs,
         Begin(t) \/ AcquireWebLock(t) \/ Release(t) \/ ReadBody(t) \/ BodyStalls(t)
  PROVE  IInv'
  <1>0. Exclusion /\ UNCHANGED <<state, jar, leaving, orphans, out, cut, call, access>>
    BY DEF IInv, Begin, AcquireWebLock, Release, ReadBody, BodyStalls, ledger, storage, ends
  <1>1. CASE Begin(t)
    <2>1. pc[t] = "idle" /\ Go(t, "queued") /\ mutex' = mutex
      BY <1>1 DEF Begin
    <2>2. Exclusion' /\ pc'[t] = "queued" /\ \A s \in Tabs : s # t => pc'[s] = pc[s]
      BY <1>0, <2>1, Moves DEF LockPlaces, Critical, Waiting
    <2>3. QED
      BY <1>0, <2>1, <2>2, Progress DEF Waiting
  <1>2. CASE AcquireWebLock(t)
    <2>1. pc[t] = "queued" /\ mutex = NULL /\ mutex' = t /\ pc' = [pc EXCEPT ![t] = "section"]
      BY <1>2 DEF AcquireWebLock, Go
    <2>2. \A s \in Tabs : pc[s] \notin Critical
      BY <1>0, <2>1, Names DEF Exclusion
    <2>3. pc'[t] = "section" /\ \A s \in Tabs : s # t => pc'[s] = pc[s]
      BY <1>0, <2>1 DEF Exclusion
    <2>4. Exclusion'
      BY <1>0, <2>1, <2>2, <2>3 DEF Exclusion, LockPlaces, Critical
    <2>5. QED
      BY <1>0, <2>1, <2>3, <2>4, Progress DEF Waiting
  <1>3. CASE Release(t)
    <2>1. pc[t] = "release" /\ mutex' = (IF mutex = t THEN NULL ELSE mutex) /\ pc' = [pc EXCEPT ![t] = "idle"]
      BY <1>3 DEF Release, Go
    <2>2. pc'[t] = "idle" /\ \A s \in Tabs : s # t => pc'[s] = pc[s]
      BY <1>0, <2>1 DEF Exclusion
    <2>3. \A s \in Tabs : pc[s] \in Critical => s = t
      BY <1>0, <2>1, OnlyOne DEF Critical
    <2>4. Exclusion'
      BY <1>0, <2>1, <2>2, <2>3 DEF Exclusion, LockPlaces, Critical, Waiting
    <2>5. QED
      BY <1>0, <2>1, <2>2, <2>4, Progress DEF Waiting
  <1>4. CASE ReadBody(t) \/ BodyStalls(t)
    <2>1. PICK place \in {"settle", "stalled"} : pc[t] = "reading" /\ Go(t, place) /\ mutex' = mutex
      BY <1>4 DEF ReadBody, BodyStalls
    <2>2. mutex = t
      BY <1>0, <2>1 DEF Exclusion, Critical, Waiting
    <2>3. Exclusion' /\ pc'[t] = place /\ \A s \in Tabs : s # t => pc'[s] = pc[s]
      BY <1>0, <2>1, <2>2, Moves DEF LockPlaces, Critical, Waiting
    <2>4. QED
      BY <1>0, <2>1, <2>3, Progress DEF Waiting
  <1>5. QED
    BY <1>1, <1>2, <1>3, <1>4

\* The localStorage mutex is not entered.
LEMMA NoFallback ==
  ASSUME Exclusion, NEW t \in Tabs
  PROVE  ~ReadLock(t) /\ ~WriteLock(t) /\ ~ConfirmLock(t) /\ ~WakeByTimer(t) /\ ~RemoveLock(t)
  <1>1. pc[t] \in LockPlaces
    BY DEF Exclusion
  <1>2. QED
    BY <1>1 DEF ReadLock, WriteLock, ConfirmLock, WakeByTimer, RemoveLock, LockPlaces, Critical, Waiting

\* writeRefreshResult wakes nobody: no tab sleeps under Web Locks.
LEMMA MarkerMoves ==
  ASSUME Exclusion, NEW t \in Tabs, NEW status, WriteMarker(t, status)
  PROVE  Go(t, "release")
  <1>1. pc' = [s \in Tabs |-> IF s = t THEN "release" ELSE IF pc[s] = "asleep" THEN "try" ELSE pc[s]]
    BY DEF WriteMarker
  <1>2. \A s \in Tabs : pc[s] # "asleep"
    BY DEF Exclusion, LockPlaces, Critical, Waiting
  <1>3. pc' = [pc EXCEPT ![t] = "release"]
    BY <1>1, <1>2 DEF Exclusion
  <1>4. QED
    BY <1>3 DEF Go

LEMMA SettleInv ==
  ASSUME IInv, NEW t \in Tabs, Settle(t)
  PROVE  IInv'
  <1>0. /\ Exclusion /\ pc[t] = "settle" /\ call' = [call EXCEPT ![t] = NULL] /\ call[t] # NULL
        /\ UNCHANGED <<state, jar, leaving, orphans, out, cut, mutex>>
        /\ access' \in {FALSE, access} /\ call \in [Tabs -> Call \cup {NULL}]
    BY DEF IInv, Settle, ledger, ends, WriteMarker, Requests, Waiting, TokenTypes
  <1>1. PICK place \in {"release", "store"} : Go(t, place) /\ (place = "store" => call[t].answer = "success")
    BY <1>0, MarkerMoves DEF Settle
  <1>2. mutex = t
    BY <1>0 DEF Exclusion, Critical, Waiting
  <1>3. Exclusion' /\ pc'[t] = place /\ \A s \in Tabs : s # t => pc'[s] = pc[s]
    BY <1>0, <1>1, <1>2, Moves DEF LockPlaces, Critical
  <1>4. call'[t] = NULL /\ \A s \in Tabs : s # t => call'[s] = call[s]
    BY <1>0
  <1>5. TokenTypes'
    BY <1>0, <1>4 DEF IInv, TokenTypes
  <1>6. \A s \in Tabs : Requests(s)'
    BY <1>3, <1>4 DEF IInv, Requests, Waiting
  <1>7. QuietStep
    <2>1. ASSUME NEW s \in Tabs
          PROVE  /\ call'[s] = NULL \/ Keeps(s)
                 /\ pc[s] = "fetching" => pc'[s] = "fetching" /\ call'[s] # NULL
                 /\ pc'[s] = "store" => pc[s] = "store" \/ (call[s] # NULL /\ call[s].answer = "success")
      <3>1. CASE s = t
        BY <1>0, <1>1, <1>3, <1>4, <3>1
      <3>2. CASE s # t
        BY <1>3, <1>4, <3>2 DEF IInv, Keeps, Requests, Waiting
      <3>3. QED
        BY <3>1, <3>2
    <2>2. access' => access
      BY <1>0
    <2>3. QED
      BY <1>0, <2>1, <2>2 DEF QuietStep
  <1>8. QED
    BY <1>3, <1>5, <1>6, <1>7, QuietInv

LEMMA StoreInv ==
  ASSUME IInv, NEW t \in Tabs, StoreToken(t)
  PROVE  IInv'
  <1>0. /\ Exclusion /\ pc[t] = "store" /\ access' = TRUE
        /\ UNCHANGED <<state, jar, leaving, orphans, out, cut, mutex, call>>
    BY DEF IInv, StoreToken, ledger, ends
  <1>1. Go(t, "release")
    BY <1>0, MarkerMoves DEF StoreToken
  <1>2. mutex = t
    BY <1>0 DEF Exclusion, Critical, Waiting
  <1>3. Exclusion' /\ pc'[t] = "release" /\ \A s \in Tabs : s # t => pc'[s] = pc[s]
    BY <1>0, <1>1, <1>2, Moves DEF LockPlaces, Critical
  <1>4. TokenTypes' /\ \A s \in Tabs : Requests(s)'
    BY <1>0, <1>3 DEF IInv, TokenTypes, Requests, Waiting
  <1>5. QuietStep
    BY <1>0, <1>3 DEF IInv, QuietStep, Keeps, Requests, Waiting
  <1>6. QED
    BY <1>3, <1>4, <1>5, QuietInv

LEMMA ExpiryInv ==
  ASSUME IInv, AccessExpires
  PROVE  IInv'
  <1>0. /\ access' = FALSE /\ access
        /\ UNCHANGED <<state, jar, leaving, orphans, out, cut, mutex, call, pc>>
    BY DEF AccessExpires, ledger, ends
  <1>1. Exclusion' /\ TokenTypes' /\ \A s \in Tabs : Requests(s)'
    BY <1>0 DEF IInv, Exclusion, TokenTypes, Requests
  <1>2. QuietStep
    BY <1>0 DEF IInv, QuietStep, Keeps, Requests, Waiting
  <1>3. QED
    BY <1>1, <1>2, QuietInv

\* A request grows older.
Aged(c) == [c EXCEPT !.age = Older(@, FetchTimeout)]

LEMMA AgedCall ==
  ASSUME NEW c \in Call
  PROVE  /\ Aged(c) \in Call /\ Aged(c).token = c.token /\ Aged(c).stage = c.stage
         /\ Aged(c).answer = c.answer /\ Aged(c).next = c.next /\ Aged(c).loyal = c.loyal
  <1>1. Older(c.age, FetchTimeout) \in 0..FetchTimeout
    BY TimesAssumption DEF Call, Older
  <1>2. QED
    BY <1>1 DEF Call, Aged

LEMMA TickInv ==
  ASSUME IInv, Tick
  PROVE  IInv'
  <1>0. /\ UNCHANGED <<state, jar, leaving, orphans, out, cut, mutex, pc, access>>
        /\ call' = [t \in Tabs |-> IF call[t] = NULL THEN NULL ELSE Aged(call[t])]
    BY DEF Tick, ledger, ends, Aged
  <1>1. ASSUME NEW t \in Tabs
        PROVE  \/ call[t] = NULL /\ call'[t] = NULL
               \/ call[t] # NULL /\ call'[t] \in Call /\ call'[t] # NULL /\ Keeps(t)
    <2>1. CASE call[t] = NULL
      BY <1>0, <2>1
    <2>2. CASE call[t] # NULL
      <3>1. call[t] \in Call /\ call'[t] = Aged(call[t])
        BY <1>0, <2>2 DEF IInv, TokenTypes
      <3>2. QED
        BY <1>0, <2>2, <3>1, AgedCall, CallAssumption DEF Keeps
    <2>3. QED
      BY <2>1, <2>2
  <1>2. call' \in [Tabs -> Call \cup {NULL}]
    BY <1>0, <1>1
  <1>3. Exclusion' /\ TokenTypes'
    BY <1>0, <1>2 DEF IInv, Exclusion, TokenTypes
  <1>4. ASSUME NEW t \in Tabs PROVE Requests(t)'
    BY <1>0, <1>1 DEF IInv, Requests, Keeps
  <1>5. QuietStep
    BY <1>0, <1>1 DEF IInv, QuietStep, Requests, Waiting
  <1>6. QED
    BY <1>3, <1>4, <1>5, QuietInv

-----------------------------------------------------------------------------
(* Requests that are cut short. *)

\* A request gets no token that it had not.
Weakens(t) ==
    \/ call'[t] = NULL
    \/ /\ call[t] # NULL /\ call'[t].token = call[t].token
       /\ call'[t].stage = "rotated" => call[t].stage = "rotated"
       /\ call'[t].answer = "success" => call[t].answer = "success" /\ call'[t].next = call[t].next

\* A logout goes on, or its tab stops waiting for it.
Resigns(t) == leaving'[t] = leaving[t] \/ leaving'[t] = Staying

LEMMA History ==
  ASSUME IInv, Ages, UNCHANGED <<jar, out>>, access' => access, TokenTypes', \A t \in Tabs : Requests(t)',
         \A t \in Tabs : Weakens(t) /\ Resigns(t) /\ (pc'[t] = "store" => pc[t] = "store")
  PROVE  Born' /\ Undisturbed' /\ SignedOut'
  <1>1. TokenTypes /\ Born /\ Undisturbed /\ SignedOut /\ \A t \in Tabs : Requests(t)
    BY DEF IInv
  <1>2. ASSUME NEW t \in Tabs, call'[t] # NULL
        PROVE  /\ call[t] # NULL /\ call'[t].token = call[t].token /\ call[t].token \in Tokens \cup {NULL}
               /\ call'[t].stage = "rotated" => call[t].stage = "rotated"
               /\ call'[t].answer = "success" =>
                    call[t].answer = "success" /\ call'[t].next = call[t].next /\ call[t].next \in Tokens
    <2>1. call[t] # NULL /\ call[t] \in Call
      BY <1>1, <1>2 DEF Weakens, TokenTypes
    <2>2. QED
      BY <1>1, <1>2, <2>1 DEF Weakens, Requests, Call
  <1>3. Born'
    <2>1. jar' # NULL => state'[jar'] # "unborn"
      BY <1>1 DEF Born, Ages, TokenTypes
    <2>2. ASSUME NEW t \in Tabs, call'[t] # NULL
          PROVE  /\ call'[t].token # NULL => state'[call'[t].token] # "unborn"
                 /\ call'[t].answer = "success" => state'[call'[t].next] # "unborn"
      BY <1>1, <1>2, <2>2 DEF Born, Ages
    <2>3. ASSUME NEW t \in Tabs, leaving'[t].token # NULL PROVE state'[leaving'[t].token] # "unborn"
      <3>1. leaving'[t] = leaving[t] /\ leaving[t].token \in Tokens
        BY <1>1, <2>3 DEF Resigns, Staying, TokenTypes, Leaving
      <3>2. QED
        BY <1>1, <2>3, <3>1 DEF Born, Ages
    <2>4. QED
      BY <2>1, <2>2, <2>3 DEF Born
  <1>4. Undisturbed'
    <2>1. ASSUME NEW t \in Tabs, Leaves(t)', leaving'[t].alone
          PROVE  /\ \A s \in Tabs : call'[s] = NULL /\ pc'[s] # "store"
                 /\ leaving'[t].stage = "answered" => jar' = NULL
      <3>1. leaving'[t] = leaving[t] /\ Leaves(t) /\ leaving[t].alone
        BY <2>1 DEF Resigns, Staying, Leaves
      <3>2. QED
        BY <1>1, <1>2, <3>1 DEF Undisturbed
    <2>2. QED
      BY <2>1 DEF Undisturbed
  <1>5. SignedOut'
    BY <1>1, <1>2 DEF SignedOut
  <1>6. QED
    BY <1>3, <1>4, <1>5

LEMMA CutInv ==
  ASSUME IInv, Ages, cut' = TRUE, UNCHANGED <<jar, out>>, access' => access,
         Exclusion', TokenTypes', \A t \in Tabs : Requests(t)',
         \A t \in Tabs : Weakens(t) /\ Resigns(t) /\ (pc'[t] = "store" => pc[t] = "store")
  PROVE  IInv'
  BY History DEF IInv, Uncut

LEMMA CrashInv ==
  ASSUME IInv, NEW t \in Tabs, Crash(t)
  PROVE  IInv'
  <1>0. /\ Exclusion /\ TokenTypes /\ Requests(t) /\ pc' = [pc EXCEPT ![t] = "closed"]
        /\ mutex' = (IF mutex = t THEN NULL ELSE mutex) /\ call' = [call EXCEPT ![t] = NULL]
        /\ leaving' = [leaving EXCEPT ![t] = Staying] /\ Staying \in Leaving
        /\ UNCHANGED <<jar, out, access>>
    BY DEF IInv, Crash, Go, storage, Staying, Leaving
  <1>1. /\ pc'[t] = "closed" /\ call'[t] = NULL
        /\ \A s \in Tabs : s # t => pc'[s] = pc[s] /\ call'[s] = call[s]
    BY <1>0 DEF Exclusion, TokenTypes
  <1>2. Exclusion'
    <2>1. mutex' \in Tabs \cup {NULL} /\ pc' \in [Tabs -> LockPlaces]
      BY <1>0 DEF Exclusion, LockPlaces
    <2>2. ASSUME NEW s \in Tabs, pc'[s] \in Critical PROVE mutex' = s
      <3>1. s # t
        BY <1>1, <2>2 DEF Critical, Waiting
      <3>2. QED
        BY <1>0, <1>1, <2>2, <3>1 DEF Exclusion
    <2>3. QED
      BY <2>1, <2>2 DEF Exclusion
  <1>3. ASSUME NEW s \in Tabs PROVE Requests(s)'
    BY <1>1 DEF IInv, Requests, Waiting
  <1>4. call' \in [Tabs -> Call \cup {NULL}]
    BY <1>0 DEF TokenTypes
  <1>a. leaving'[t] = Staying /\ \A s \in Tabs : s # t => leaving'[s] = leaving[s]
    BY <1>0 DEF TokenTypes
  <1>b. leaving' \in [Tabs -> Leaving] /\ \A s \in Tabs : Resigns(s) /\ (~Leaves(s)' => leaving'[s] = Staying)
    BY <1>0, <1>a DEF TokenTypes, Resigns, Leaves
  <1>5. CASE call[t] = NULL /\ ~Leaves(t)
    <2>1. UNCHANGED <<state, orphans, cut, leaving>>
      <3>1. leaving[t] = Staying
        BY <1>0, <1>5 DEF TokenTypes, Leaves
      <3>2. leaving' = leaving
        BY <1>0, <3>1 DEF TokenTypes
      <3>3. leaving[t].stage # "sent"
        BY <3>1 DEF Staying
      <3>4. QED
        BY <1>0, <1>5, <3>2, <3>3 DEF Crash, ServiceGivesUp, Unread, UnreadLogout, ledger, TokenTypes
    <2>2. TokenTypes'
      BY <1>0, <1>4, <2>1 DEF TokenTypes
    <2>3. ASSUME NEW s \in Tabs
          PROVE  /\ call'[s] = NULL \/ Keeps(s)
                 /\ pc[s] = "fetching" => pc'[s] = "fetching" /\ call'[s] # NULL
                 /\ pc'[s] = "store" => pc[s] = "store"
      <3>1. CASE s = t
        BY <1>0, <1>1, <1>5, <3>1 DEF Requests, Waiting
      <3>2. CASE s # t
        BY <1>1, <3>2 DEF IInv, Keeps, Requests, Waiting
      <3>3. QED
        BY <3>1, <3>2
    <2>4. QuietStep
      BY <1>0, <2>1, <2>3 DEF QuietStep
    <2>5. QED
      BY <1>2, <1>3, <2>2, <2>4, QuietInv
  <1>6. CASE call[t] # NULL \/ Leaves(t)
    <2>1. state' = state /\ cut' = TRUE
      BY <1>6, ForfeitEffect DEF Crash, ServiceGivesUp, ledger
    <2>2. TokenTypes' /\ Ages
      BY <1>0, <1>4, <1>b, <2>1, LedgerSame DEF TokenTypes
    <2>3. \A s \in Tabs : Weakens(s) /\ (pc'[s] = "store" => pc[s] = "store")
      BY <1>1 DEF Weakens
    <2>4. QED
      BY <1>0, <1>2, <1>3, <1>b, <2>1, <2>2, <2>3, CutInv
  <1>7. QED
    BY <1>5, <1>6

\* An answer without a token.
Ended(c, answer) == [c EXCEPT !.stage = "answered", !.answer = answer]

LEMMA EndedCall ==
  ASSUME NEW c \in Call, NEW answer \in {"unauthorized", "failed"}
  PROVE  /\ Ended(c, answer) \in Call /\ Ended(c, answer).token = c.token
         /\ Ended(c, answer).stage = "answered" /\ Ended(c, answer).answer = answer
         /\ Ended(c, answer).next = c.next /\ Ended(c, answer).loyal = c.loyal
  BY DEF Call, Ended

\* The request of t ends without a token, or the tab stops waiting for it.
LEMMA EndInv ==
  ASSUME IInv, NEW t \in Tabs, call[t] # NULL, NEW answer \in {"unauthorized", "failed"},
         call' = [call EXCEPT ![t] = Ended(call[t], answer)],
         pc' = pc \/ (pc[t] \in {"fetching", "reading"} /\ Go(t, "settle")),
         UNCHANGED <<jar, leaving, out, access, mutex>>, Ages, cut' = TRUE
  PROVE  IInv'
  <1>0. Exclusion /\ TokenTypes /\ Requests(t) /\ call[t] \in Call
    BY DEF IInv, TokenTypes
  <1>1. /\ call'[t] = Ended(call[t], answer)
        /\ \A s \in Tabs : s # t => call'[s] = call[s]
        /\ Ended(call[t], answer) \in Call /\ Ended(call[t], answer) # NULL
        /\ Ended(call[t], answer).token = call[t].token
        /\ Ended(call[t], answer).stage = "answered" /\ Ended(call[t], answer).answer = answer
    BY <1>0, EndedCall, CallAssumption DEF TokenTypes
  <1>2. /\ pc' = pc \/ (pc[t] \in {"fetching", "reading"} /\ pc'[t] = "settle" /\ pc' = [pc EXCEPT ![t] = "settle"])
        /\ \A s \in Tabs : s # t => pc'[s] = pc[s]
    BY <1>0 DEF Exclusion, Go
  <1>3. Exclusion'
    BY <1>0, <1>2 DEF Exclusion, LockPlaces, Critical, Waiting
  <1>4. TokenTypes'
    BY <1>0, <1>1 DEF TokenTypes, Ages, Leaves
  <1>5. ASSUME NEW s \in Tabs
        PROVE  Requests(s)' /\ Weakens(s) /\ Resigns(s) /\ (pc'[s] = "store" => pc[s] = "store")
    <2>1. CASE s = t
      BY <1>0, <1>1, <1>2, <2>1 DEF Requests, Waiting, Weakens, Resigns
    <2>2. CASE s # t
      BY <1>1, <1>2, <2>2 DEF IInv, Requests, Weakens, Resigns
    <2>3. QED
      BY <2>1, <2>2
  <1>6. QED
    BY <1>3, <1>4, <1>5, CutInv

LEMMA FetchEndsInv ==
  ASSUME IInv, NEW t \in Tabs, FetchEnds(t)
  PROVE  IInv'
  <1>1. TokenTypes /\ call[t] # NULL
    BY DEF IInv, FetchEnds, Requests, Waiting
  <1>2. state' = state /\ cut' = TRUE
    BY ForfeitEffect DEF FetchEnds, ServiceGivesUp, ledger
  <1>3. /\ call' = [call EXCEPT ![t] = Ended(call[t], "failed")]
        /\ pc[t] \in {"fetching", "reading"} /\ Go(t, "settle")
        /\ UNCHANGED <<jar, leaving, out, access, mutex>>
    BY <1>1 DEF FetchEnds, Ended, storage, TokenTypes
  <1>4. QED
    BY <1>1, <1>2, <1>3, LedgerSame, EndInv

LEMMA ServiceFailsInv ==
  ASSUME IInv, NEW t \in Tabs, ServiceFails(t)
  PROVE  IInv'
  <1>1. TokenTypes /\ call[t] # NULL
    BY DEF IInv, ServiceFails
  <1>2. state' = state /\ cut' = TRUE
    BY ForfeitEffect DEF ServiceFails, ledger
  <1>3. /\ call' = [call EXCEPT ![t] = Ended(call[t], "unauthorized")]
        /\ pc' = pc /\ UNCHANGED <<jar, leaving, out, access, mutex>>
    BY <1>1 DEF ServiceFails, Ended, storage, TokenTypes
  <1>4. QED
    BY <1>1, <1>2, <1>3, LedgerSame, EndInv

\* The finally block of a logout wakes nobody either.
LEMMA WakesNobody ==
  ASSUME Exclusion, NEW t \in Tabs, SignOutLocally(t)
  PROVE  pc' = pc
  <1>1. pc' = [s \in Tabs |-> IF s # t /\ pc[s] = "asleep" THEN "try" ELSE pc[s]]
    BY DEF SignOutLocally
  <1>2. \A s \in Tabs : pc[s] # "asleep"
    BY DEF Exclusion, LockPlaces, Critical, Waiting
  <1>3. QED
    BY <1>1, <1>2 DEF Exclusion

LEMMA LogoutFailsInv ==
  ASSUME IInv, NEW t \in Tabs, LogoutFails(t)
  PROVE  IInv'
  <1>0. /\ TokenTypes /\ Exclusion /\ \A s \in Tabs : Requests(s)
        /\ leaving' = [leaving EXCEPT ![t] = Staying] /\ Staying \in Leaving
        /\ access' = FALSE /\ cut' = TRUE
        /\ UNCHANGED <<state, jar, out, mutex, call>>
    BY DEF IInv, LogoutFails, SignOutLocally, ledger, Staying, Leaving
  <1>1. pc' = pc
    BY <1>0, WakesNobody DEF LogoutFails
  <1>2. \A s \in Tabs : Resigns(s) /\ (~Leaves(s)' => leaving'[s] = Staying)
    BY <1>0 DEF TokenTypes, Resigns, Leaves
  <1>3. Exclusion' /\ TokenTypes' /\ \A s \in Tabs : Requests(s)' /\ Weakens(s)
    BY <1>0, <1>1, <1>2 DEF Exclusion, TokenTypes, Requests, Weakens
  <1>4. QED
    BY <1>0, <1>1, <1>2, <1>3, LedgerSame, CutInv

LEMMA OrphanInv ==
  ASSUME IInv, NEW path, NEW k \in Tokens, ServeOrphan(path, k)
  PROVE  IInv'
  <1>0. /\ TokenTypes /\ Exclusion /\ \A t \in Tabs : Requests(t)
        /\ UNCHANGED <<jar, leaving, out, access, mutex, pc, call, cut>>
    BY DEF IInv, ServeOrphan, storage
  <1>1. cut = TRUE
    BY <1>0 DEF IInv, Uncut, ServeOrphan, TokenTypes
  <1>2. Ages
    BY <1>0, RotateEffect, EndAllEffect, LogoutEffect, LedgerSame DEF ServeOrphan, ledger
  <1>3. Exclusion' /\ TokenTypes' /\ \A t \in Tabs : Requests(t)'
    BY <1>0, <1>2 DEF Exclusion, TokenTypes, Requests, Ages, Leaves
  <1>4. \A t \in Tabs : Weakens(t) /\ Resigns(t)
    BY <1>0 DEF Weakens, Resigns
  <1>5. QED
    BY <1>0, <1>1, <1>2, <1>3, <1>4, CutInv

-----------------------------------------------------------------------------
(* The life of a request. *)

\* Nobody else refreshes.
LEMMA Alone ==
  ASSUME IInv, NEW t \in Tabs, pc[t] \in Critical
  PROVE  \A s \in Tabs : s # t => call[s] = NULL /\ pc[s] \notin Critical
  BY OnlyOne DEF IInv, Requests, Critical

\* Only t has a request before and after the step.
OnlyRequest(t) == \A s \in Tabs : s # t => call[s] = NULL /\ call'[s] = NULL /\ pc'[s] = pc[s]
                                           /\ pc[s] \notin Critical

NewCall(token, loyal, late) ==
    [token |-> token, stage |-> "sent", answer |-> "none", next |-> NULL, age |-> 0,
     loyal |-> loyal, late |-> late]

LEMMA SentCall ==
  ASSUME NEW token \in Tokens \cup {NULL}, NEW loyal \in BOOLEAN, NEW late \in BOOLEAN
  PROVE  LET c == NewCall(token, loyal, late) IN
           /\ c \in Call /\ c.token = token /\ c.stage = "sent" /\ c.answer = "none"
           /\ c.loyal = loyal
  BY TimesAssumption DEF Call, NewCall

LEMMA Overlapped ==
  ASSUME TokenTypes, Overlap
  PROVE  /\ leaving' \in [Tabs -> Leaving] /\ Undisturbed'
         /\ \A t \in Tabs : /\ leaving'[t].stage = leaving[t].stage /\ leaving'[t].token = leaving[t].token
                            /\ leaving'[t].stage = "no" => leaving'[t] = Staying
  <1>1. ASSUME NEW t \in Tabs
        PROVE  /\ leaving'[t] \in Leaving /\ leaving'[t].alone = FALSE
               /\ leaving'[t].stage = leaving[t].stage /\ leaving'[t].token = leaving[t].token
               /\ leaving'[t].stage = "no" => leaving'[t] = Staying
    <2>1. leaving[t] \in Leaving /\ leaving'[t] = [leaving[t] EXCEPT !.alone = FALSE]
      BY DEF TokenTypes, Overlap
    <2>2. leaving[t].stage = "no" => leaving[t] = Staying
      BY DEF TokenTypes
    <2>3. /\ leaving'[t] \in Leaving /\ leaving'[t].alone = FALSE
          /\ leaving'[t].stage = leaving[t].stage /\ leaving'[t].token = leaving[t].token
      BY <2>1 DEF Leaving
    <2>4. leaving[t] = Staying => leaving'[t] = Staying
      <3>1. leaving'[t] = [stage |-> leaving[t].stage, token |-> leaving[t].token, alone |-> FALSE]
        BY <2>1 DEF Leaving
      <3>2. Staying.stage = "no" /\ Staying.token = NULL
        BY DEF Staying
      <3>3. QED
        BY <3>1, <3>2 DEF Staying
    <2>5. QED
      BY <2>2, <2>3, <2>4
  <1>2. leaving' \in [Tabs -> Leaving]
    BY <1>1 DEF Overlap
  <1>3. Undisturbed'
    BY <1>1 DEF Undisturbed
  <1>4. QED
    BY <1>1, <1>2, <1>3

LEMMA EnterInv ==
  ASSUME IInv, NEW t \in Tabs, EnterSection(t)
  PROVE  IInv'
  <1>0. /\ Exclusion /\ TokenTypes /\ pc[t] = "section" /\ mutex = t /\ call[t] = NULL
        /\ UNCHANGED <<state, jar, out, access, mutex, orphans, cut>>
    BY DEF IInv, Exclusion, Requests, Critical, Waiting, EnterSection, ledger, storage, ends
  <1>1. CASE Go(t, "release") /\ call' = call /\ leaving' = leaving
    <2>1. Exclusion' /\ pc'[t] = "release" /\ \A s \in Tabs : s # t => pc'[s] = pc[s]
      BY <1>0, <1>1, Moves DEF LockPlaces, Critical
    <2>2. QED
      BY <1>0, <1>1, <2>1, Progress DEF Waiting
  <1>2. CASE Go(t, "fetching") /\ Overlap /\ call' = [call EXCEPT ![t] =
                  [token |-> jar, stage |-> "sent", answer |-> "none", next |-> NULL, age |-> 0,
                   loyal |-> out = "no" /\ jar # NULL, late |-> out # "no" /\ out # "asked"]]
    <2>1. Exclusion' /\ pc'[t] = "fetching" /\ \A s \in Tabs : s # t => pc'[s] = pc[s]
      BY <1>0, <1>2, Moves DEF LockPlaces, Critical, Waiting
    <2>2. PICK c : c = NewCall(jar, out = "no" /\ jar # NULL, out # "no" /\ out # "asked")
      OBVIOUS
    <2>3. /\ c \in Call /\ c.token = jar /\ c.stage = "sent" /\ c.answer = "none"
          /\ c.loyal <=> out = "no" /\ jar # NULL
      <3>1. jar \in Tokens \cup {NULL}
        BY <1>0 DEF TokenTypes
      <3>2. (out = "no" /\ jar # NULL) \in BOOLEAN /\ (out # "no" /\ out # "asked") \in BOOLEAN
        OBVIOUS
      <3>3. QED
        BY <2>2, <3>1, <3>2, SentCall
    <2>4. call'[t] = c /\ (\A s \in Tabs : s # t => call'[s] = call[s]) /\ call' \in [Tabs -> Call \cup {NULL}]
      BY <1>0, <1>2, <2>2, <2>3 DEF TokenTypes, NewCall
    <2>a. /\ leaving' \in [Tabs -> Leaving] /\ Undisturbed'
          /\ \A s \in Tabs : /\ leaving'[s].stage = leaving[s].stage /\ leaving'[s].token = leaving[s].token
                             /\ leaving'[s].stage = "no" => leaving'[s] = Staying
      BY <1>0, <1>2, Overlapped
    <2>5. TokenTypes' /\ c # NULL
      BY <1>0, <2>3, <2>4, <2>a, CallAssumption DEF TokenTypes
    <2>6. \A s \in Tabs : s # t => call'[s] = NULL /\ pc'[s] \notin Critical
      BY <1>0, <2>1, <2>4, Alone DEF Critical
    <2>7. ASSUME NEW s \in Tabs PROVE Requests(s)'
      BY <2>1, <2>3, <2>4, <2>5, <2>6 DEF Requests, Waiting, Critical
    <2>8. Born' /\ SignedOut'
      <3>1. Born /\ SignedOut
        BY DEF IInv
      <3>2. Born'
        BY <1>0, <2>3, <2>4, <2>6, <2>a, <3>1 DEF Born
      <3>3. SignedOut'
        BY <1>0, <2>1, <2>3, <2>4, <2>6, <3>1 DEF SignedOut
      <3>4. QED
        BY <3>2, <3>3
    <2>9. ASSUME ~cut PROVE Uncut'
      <3>1. orphans = {} /\ JarIsGood /\ ~\E s \in Tabs : Rotating(s, jar)
        BY <1>0, <2>9, Alone DEF IInv, Uncut, Rotating, Critical, Waiting
      <3>2. \A k \in Tokens : Carried(k)' <=> Carried(k)
        BY <2>a DEF Carried
      <3>3. jar # NULL => /\ jar \in Tokens /\ state[jar] \in {"live", "recent"}
                          /\ out = "no" => state[jar] = "live" /\ ~Carried(jar)
        BY <1>0, <3>1 DEF JarIsGood, TokenTypes
      <3>4. JarIsGood'
        BY <1>0, <2>a, <3>1 DEF JarIsGood, Carried
      <3>5. CallIsGood(t)'
        BY <1>0, <2>3, <2>4, <3>2, <3>3 DEF CallIsGood
      <3>6. \A s \in Tabs : CallIsGood(s)'
        BY <2>6, <3>5 DEF CallIsGood
      <3>7. QED
        BY <1>0, <3>1, <3>4, <3>6 DEF Uncut
    <2>10. QED
      BY <1>0, <2>1, <2>5, <2>7, <2>8, <2>9, <2>a DEF IInv, Uncut
  <1>3. QED
    BY <1>1, <1>2 DEF EnterSection

\* A request that the service has not answered is the only one, and waited for.
LEMMA Unanswered ==
  ASSUME IInv, NEW t \in Tabs, call[t] # NULL, call[t].stage # "answered" \/ pc[t] = "fetching"
  PROVE  /\ pc[t] = "fetching" /\ (call[t].stage # "answered" => call[t].answer = "none")
         /\ call[t] \in Call
         /\ \A s \in Tabs : s # t => call[s] = NULL /\ pc[s] \notin Critical
  <1>1. pc[t] = "fetching" /\ (call[t].stage # "answered" => call[t].answer = "none") /\ call[t] \in Call
    BY DEF IInv, Requests, TokenTypes
  <1>2. QED
    BY <1>1, Alone DEF Critical, Waiting

\* The service has ended the token of a request, or granted its successor.
Rotated(c) == [c EXCEPT !.stage = "rotated"]
Renewed(c, n) == [c EXCEPT !.stage = "answered", !.answer = "success", !.next = n]

LEMMA RotatedCall ==
  ASSUME NEW c \in Call
  PROVE  /\ Rotated(c) \in Call /\ Rotated(c).stage = "rotated"
         /\ Rotated(c).token = c.token /\ Rotated(c).answer = c.answer
         /\ Rotated(c).next = c.next /\ Rotated(c).loyal = c.loyal
  BY DEF Call, Rotated

LEMMA RenewedCall ==
  ASSUME NEW c \in Call, NEW n \in Tokens
  PROVE  /\ Renewed(c, n) \in Call /\ Renewed(c, n).stage = "answered"
         /\ Renewed(c, n).token = c.token /\ Renewed(c, n).answer = "success"
         /\ Renewed(c, n).next = n /\ Renewed(c, n).loyal = c.loyal
  BY DEF Call, Renewed

LEMMA RotateInv ==
  ASSUME IInv, NEW t \in Tabs, call[t] # NULL, call[t].stage = "sent",
         NEW k \in Tokens, k = call[t].token, Service!Rotate(k),
         call' = [call EXCEPT ![t] = Rotated(call[t])],
         UNCHANGED <<jar, leaving, out, access, mutex, pc, orphans, cut>>
  PROVE  IInv'
  <1>0. Exclusion /\ TokenTypes /\ Requests(t) /\ Born /\ Undisturbed /\ SignedOut
    BY DEF IInv
  <1>1. /\ Ages /\ state[k] = "live" /\ state'[k] = "recent"
        /\ \A m \in Tokens : m # k => state'[m] = state[m]
    BY <1>0, RotateEffect
  <1>2. /\ pc[t] = "fetching" /\ call[t].answer = "none" /\ call[t] \in Call
        /\ \A s \in Tabs : s # t => call[s] = NULL /\ pc[s] \notin Critical
    BY Unanswered
  <1>3. /\ call'[t] \in Call /\ call'[t].stage = "rotated" /\ call'[t].token = k
        /\ call'[t].answer = "none" /\ call'[t].loyal = call[t].loyal /\ call'[t] # NULL
        /\ \A s \in Tabs : s # t => call'[s] = NULL
        /\ call' \in [Tabs -> Call \cup {NULL}]
    BY <1>0, <1>2, RotatedCall, CallAssumption DEF TokenTypes
  <1>4. Exclusion' /\ TokenTypes'
    BY <1>0, <1>1, <1>3 DEF Exclusion, TokenTypes, Ages
  <1>5. ASSUME NEW s \in Tabs PROVE Requests(s)'
    BY <1>0, <1>2, <1>3 DEF IInv, Requests, Critical
  <1>6. Born' /\ Undisturbed'
    <2>1. Born'
      BY <1>0, <1>1, <1>3, Names DEF Born, Ages, TokenTypes, Leaving
    <2>2. Undisturbed'
      BY <1>0 DEF Undisturbed, Leaves
    <2>3. QED
      BY <2>1, <2>2
  <1>7. out # "clean"
    BY <1>0, <1>1, Names DEF SignedOut
  <1>8. ASSUME ~cut PROVE Uncut'
    <2>1. orphans = {} /\ JarIsGood /\ CallIsGood(t)
      BY <1>8 DEF IInv, Uncut
    <2>2. Rotating(t, k)'
      BY <1>2, <1>3 DEF Rotating
    <2>3. ASSUME jar # NULL, jar # k PROVE state'[jar] = state[jar] /\ ~\E s \in Tabs : Rotating(s, jar)
      BY <1>0, <1>1, <1>2, <2>3 DEF Rotating, Critical, Waiting, TokenTypes
    <2>4. JarIsGood'
      <3>1. Carried(jar)' <=> Carried(jar)
        BY DEF Carried
      <3>2. QED
        BY <1>1, <2>1, <2>2, <2>3, <3>1 DEF JarIsGood
    <2>5. CallIsGood(t)'
      BY <1>2, <1>3, <2>1 DEF CallIsGood, Carried
    <2>6. QED
      BY <1>3, <2>1, <2>4, <2>5 DEF Uncut, CallIsGood
  <1>9. QED
    BY <1>4, <1>5, <1>6, <1>7, <1>8 DEF IInv, Uncut, SignedOut

\* The service refuses a token that is not live.
LEMMA RefuseInv ==
  ASSUME IInv, NEW t \in Tabs, call[t] # NULL, call[t].stage = "sent",
         call[t].token \notin InState("live"),
         IF call[t].token \in InState("stale") THEN Service!EndAll(call[t].token) ELSE UNCHANGED ledger,
         call' = [call EXCEPT ![t] = Ended(call[t], "unauthorized")],
         UNCHANGED <<jar, leaving, out, access, mutex, pc, orphans, cut>>
  PROVE  IInv'
  <1>0. Exclusion /\ TokenTypes /\ Requests(t)
    BY DEF IInv
  <1>1. Ages
    BY <1>0, EndAllEffect, LedgerSame DEF ledger
  <1>2. /\ pc[t] = "fetching" /\ call[t].answer = "none" /\ call[t] \in Call
        /\ \A s \in Tabs : s # t => call[s] = NULL /\ pc[s] \notin Critical
    BY Unanswered
  <1>3. /\ call'[t] \in Call /\ call'[t].stage = "answered" /\ call'[t].token = call[t].token
        /\ call'[t].answer = "unauthorized" /\ call'[t].loyal = call[t].loyal /\ call'[t] # NULL
        /\ \A s \in Tabs : s # t => call'[s] = NULL
        /\ call' \in [Tabs -> Call \cup {NULL}]
    BY <1>0, <1>2, EndedCall, CallAssumption DEF TokenTypes
  <1>4. Exclusion' /\ TokenTypes'
    BY <1>0, <1>1, <1>3 DEF Exclusion, TokenTypes, Ages
  <1>5. ASSUME NEW s \in Tabs PROVE Requests(s)' /\ Weakens(s) /\ Resigns(s)
    BY <1>0, <1>2, <1>3 DEF IInv, Requests, Weakens, Resigns, Critical
  <1>6. Born' /\ Undisturbed' /\ SignedOut'
    BY <1>1, <1>4, <1>5, History
  <1>7. ASSUME ~cut PROVE Uncut'
    <2>1. orphans = {} /\ JarIsGood /\ CallIsGood(t)
      BY <1>7 DEF IInv, Uncut
    <2>2. call[t].token = NULL \/ (call[t].token \in Tokens /\ state[call[t].token] = "recent")
      BY <1>0, <1>2, <2>1 DEF CallIsGood, Call, InState
    <2>3. state' = state
      BY <2>2, Names DEF InState, ledger
    <2>4. ~call[t].loyal
      BY <2>1, <2>2, Names DEF CallIsGood
    <2>5. ~\E s \in Tabs : Rotating(s, jar)
      BY <1>2 DEF Rotating, Critical, Waiting
    <2>6. JarIsGood'
      BY <2>1, <2>3, <2>5 DEF JarIsGood, Carried
    <2>7. \A s \in Tabs : CallIsGood(s)'
      BY <1>3, <2>4 DEF CallIsGood, Carried
    <2>8. QED
      BY <2>1, <2>6, <2>7 DEF Uncut
  <1>8. QED
    BY <1>4, <1>5, <1>6, <1>7 DEF IInv, Uncut

LEMMA ServeInv ==
  ASSUME IInv, NEW t \in Tabs, Serve(t)
  PROVE  IInv'
  <1>0. /\ TokenTypes /\ call[t] # NULL /\ call[t].stage = "sent"
        /\ UNCHANGED <<jar, leaving, out, access, mutex, pc, orphans, cut>>
    BY DEF IInv, Serve, storage, ends
  <1>1. CASE call[t].token \in InState("live")
    <2>1. PICK k \in Tokens : k = call[t].token
      BY <1>1 DEF InState
    <2>2. Service!Rotate(k) /\ call' = [call EXCEPT ![t] = Rotated(call[t])]
      BY <1>0, <1>1, <2>1 DEF Serve, Rotated, TokenTypes
    <2>3. QED
      BY <1>0, <2>1, <2>2, RotateInv
  <1>2. CASE call[t].token \notin InState("live")
    <2>1. /\ IF call[t].token \in InState("stale") THEN Service!EndAll(call[t].token) ELSE UNCHANGED ledger
          /\ call' = [call EXCEPT ![t] = Ended(call[t], "unauthorized")]
      BY <1>0, <1>2 DEF Serve, Ended, TokenTypes
    <2>2. QED
      BY <1>0, <1>2, <2>1, RefuseInv
  <1>3. QED
    BY <1>1, <1>2

LEMMA RenewInv ==
  ASSUME IInv, NEW t \in Tabs, NEW n \in Tokens, Renew(t, n)
  PROVE  IInv'
  <1>0. /\ Exclusion /\ TokenTypes /\ Requests(t) /\ Born /\ Undisturbed /\ SignedOut
        /\ call[t] # NULL /\ call[t].stage = "rotated"
        /\ UNCHANGED <<jar, leaving, out, access, mutex, pc, orphans, cut>>
    BY DEF IInv, Renew, storage, ends
  <1>1. /\ Ages /\ state[n] = "unborn" /\ state'[n] = "live"
        /\ \A m \in Tokens : m # n => state'[m] = state[m]
    <2>1. PICK u : Service!Grant(n, u)
      BY DEF Renew, Service!Renew
    <2>2. QED
      BY <1>0, <2>1, GrantEffect
  <1>2. /\ pc[t] = "fetching" /\ call[t].answer = "none" /\ call[t] \in Call
        /\ \A s \in Tabs : s # t => call[s] = NULL /\ pc[s] \notin Critical
    BY <1>0, Unanswered
  <1>3. /\ call'[t] \in Call /\ call'[t].stage = "answered" /\ call'[t].token = call[t].token
        /\ call'[t].answer = "success" /\ call'[t].next = n /\ call'[t].loyal = call[t].loyal
        /\ call'[t] # NULL
        /\ \A s \in Tabs : s # t => call'[s] = NULL
        /\ call' \in [Tabs -> Call \cup {NULL}]
    <2>1. call' = [call EXCEPT ![t] = Renewed(call[t], n)]
      BY <1>0 DEF Renew, Renewed, TokenTypes
    <2>2. QED
      BY <1>0, <1>2, <2>1, RenewedCall, CallAssumption DEF TokenTypes
  <1>4. Exclusion' /\ TokenTypes'
    BY <1>0, <1>1, <1>3 DEF Exclusion, TokenTypes, Ages
  <1>5. ASSUME NEW s \in Tabs PROVE Requests(s)'
    BY <1>0, <1>2, <1>3 DEF IInv, Requests, Critical
  <1>6. jar # NULL => jar \in Tokens /\ jar # n /\ state'[jar] = state[jar]
    BY <1>0, <1>1 DEF Born, TokenTypes
  <1>7. Born' /\ Undisturbed'
    <2>1. Born'
      BY <1>0, <1>1, <1>2, <1>3, Names DEF Born, Ages, TokenTypes, Call, Leaving
    <2>2. Undisturbed'
      BY <1>0 DEF Undisturbed, Leaves
    <2>3. QED
      BY <2>1, <2>2
  <1>a. ~Carried(n)' /\ (Carried(jar)' <=> Carried(jar))
    BY <1>0, <1>1, Names DEF Born, Carried
  <1>8. out # "clean"
    BY <1>0 DEF SignedOut
  <1>9. ASSUME ~cut PROVE Uncut'
    <2>1. orphans = {} /\ JarIsGood /\ CallIsGood(t)
      BY <1>9 DEF IInv, Uncut
    <2>2. \A s \in Tabs : Rotating(s, jar) => Rotating(s, jar)'
      BY <1>0, <1>2, <1>3 DEF Rotating, Critical, Waiting
    <2>3. JarIsGood'
      BY <1>0, <1>6, <1>a, <2>1, <2>2 DEF JarIsGood
    <2>4. CallIsGood(t)'
      BY <1>0, <1>1, <1>3, <1>6, <1>a, <2>1, Names DEF CallIsGood
    <2>5. QED
      BY <1>0, <1>3, <2>1, <2>3, <2>4 DEF Uncut, CallIsGood
  <1>10. QED
    BY <1>0, <1>4, <1>5, <1>7, <1>8, <1>9 DEF IInv, Uncut, SignedOut

LEMMA ReceiveInv ==
  ASSUME IInv, NEW t \in Tabs, Receive(t)
  PROVE  IInv'
  <1>0. /\ Exclusion /\ TokenTypes /\ Requests(t) /\ Born /\ Undisturbed /\ SignedOut
        /\ pc[t] = "fetching" /\ call[t].stage = "answered" /\ call[t] # NULL
        /\ Go(t, "reading") /\ jar' = IF call[t].answer = "success" THEN call[t].next ELSE jar
        /\ UNCHANGED <<state, leaving, out, access, mutex, call, orphans, cut>>
    BY DEF IInv, Receive, Requests, Waiting, storage, ends, ledger
  <1>1. /\ mutex = t /\ call[t] \in Call
        /\ \A s \in Tabs : s # t => call[s] = NULL /\ pc[s] \notin Critical
    BY <1>0, Alone DEF Exclusion, TokenTypes, Critical, Waiting
  <1>2. Exclusion' /\ pc'[t] = "reading" /\ \A s \in Tabs : s # t => pc'[s] = pc[s]
    BY <1>0, <1>1, Moves DEF LockPlaces, Critical, Waiting
  <1>3. TokenTypes'
    BY <1>0 DEF TokenTypes, Requests
  <1>4. ASSUME NEW s \in Tabs PROVE Requests(s)'
    BY <1>0, <1>1, <1>2 DEF IInv, Requests, Waiting
  <1>5. Born' /\ Undisturbed'
    BY <1>0, <1>1 DEF Born, Undisturbed, Leaves
  <1>6. SignedOut'
    BY <1>0, <1>1, <1>2 DEF SignedOut
  <1>7. ASSUME ~cut PROVE Uncut'
    <2>1. orphans = {} /\ JarIsGood /\ CallIsGood(t)
      BY <1>7 DEF IInv, Uncut
    <2>2. CASE call[t].answer = "success"
      <3>1. state[jar'] = "live" /\ ~Carried(jar)'
        BY <1>0, <2>1, <2>2 DEF CallIsGood, Carried
      <3>2. QED
        BY <1>0, <1>1, <1>2, <2>1, <3>1 DEF Uncut, JarIsGood, CallIsGood, Carried
    <2>3. CASE call[t].answer # "success"
      <3>1. ~\E s \in Tabs : Rotating(s, jar)
        BY <1>0, <1>1, <2>3 DEF Rotating, Critical, Waiting
      <3>2. JarIsGood'
        BY <1>0, <2>1, <2>3, <3>1 DEF JarIsGood, Carried
      <3>3. QED
        BY <1>0, <1>1, <1>2, <2>1, <3>2 DEF Uncut, CallIsGood, Carried
    <2>4. QED
      BY <2>2, <2>3
  <1>8. QED
    BY <1>0, <1>2, <1>3, <1>4, <1>5, <1>6, <1>7 DEF IInv, Uncut

-----------------------------------------------------------------------------
(* Login, logout, and the concurrent window. *)

LEMMA LoginInv ==
  ASSUME IInv, NEW n \in Tokens, Login(n)
  PROVE  IInv'
  <1>0. /\ Exclusion /\ TokenTypes /\ Born /\ Overlap
        /\ jar' = n /\ access' = TRUE /\ out' = "no"
        /\ UNCHANGED <<mutex, pc, call, orphans, cut>>
    BY DEF IInv, Login, ends
  <1>1. /\ Ages /\ state[n] = "unborn" /\ state'[n] = "live"
        /\ \A m \in Tokens : m # n => state'[m] = state[m]
    BY <1>0, GrantEffect DEF Login, Service!Login
  <1>a. /\ leaving' \in [Tabs -> Leaving] /\ Undisturbed'
        /\ \A s \in Tabs : /\ leaving'[s].stage = leaving[s].stage /\ leaving'[s].token = leaving[s].token
                           /\ leaving'[s].stage = "no" => leaving'[s] = Staying
    BY <1>0, Overlapped
  <1>2. Exclusion' /\ TokenTypes' /\ \A s \in Tabs : Requests(s)'
    BY <1>0, <1>1, <1>a DEF IInv, Exclusion, TokenTypes, Requests, Ages, Outs
  <1>3. ASSUME NEW s \in Tabs, call[s] # NULL
        PROVE  /\ call[s].token # NULL => call[s].token \in Tokens /\ call[s].token # n
               /\ call[s].answer = "success" => call[s].next \in Tokens /\ call[s].next # n
    BY <1>0, <1>1, <1>3 DEF IInv, TokenTypes, Call, Born, Requests
  <1>b. ASSUME NEW s \in Tabs PROVE leaving[s].token # NULL => leaving[s].token \in Tokens /\ leaving[s].token # n
    BY <1>0, <1>1 DEF TokenTypes, Leaving, Born
  <1>4. SignedOut'
    BY <1>0 DEF SignedOut
  <1>5. Born'
    BY <1>0, <1>1, <1>3, <1>a, <1>b DEF Born
  <1>6. ASSUME ~cut PROVE Uncut'
    <2>1. orphans = {} /\ \A s \in Tabs : CallIsGood(s)
      BY <1>6 DEF IInv, Uncut
    <2>2. (\A k \in Tokens : Carried(k)' <=> Carried(k)) /\ ~Carried(n)
      BY <1>a, <1>b, Names DEF Carried
    <2>3. JarIsGood'
      <3>1. ~Carried(jar)'
        BY <1>0, <1>a, <1>b, Names DEF Carried
      <3>2. QED
        BY <1>0, <1>1, <3>1 DEF JarIsGood
    <2>4. ASSUME NEW s \in Tabs PROVE CallIsGood(s)'
      BY <1>0, <1>1, <1>3, <2>1, <2>2, Names DEF CallIsGood
    <2>5. QED
      BY <1>0, <2>1, <2>3, <2>4 DEF Uncut
  <1>7. QED
    BY <1>0, <1>2, <1>4, <1>5, <1>6, <1>a DEF IInv, Uncut

Disloyal(c) == [c EXCEPT !.loyal = FALSE]

LEMMA DisloyalCall ==
  ASSUME NEW c \in Call
  PROVE  /\ Disloyal(c) \in Call /\ Disloyal(c).stage = c.stage /\ Disloyal(c).token = c.token
         /\ Disloyal(c).answer = c.answer /\ Disloyal(c).next = c.next /\ Disloyal(c).loyal = FALSE
  BY DEF Call, Disloyal

LEMMA StartLogoutInv ==
  ASSUME IInv, NEW t \in Tabs, StartLogout(t)
  PROVE  IInv'
  <1>0. /\ Exclusion /\ TokenTypes /\ Born /\ Undisturbed /\ ~Leaves(t)
        /\ call' = [s \in Tabs |-> IF call[s] = NULL THEN NULL ELSE Disloyal(call[s])]
        /\ out' = IF out = "no" THEN "asked" ELSE out
        /\ UNCHANGED <<state, jar, access, mutex, pc, orphans, cut>>
    BY DEF IInv, StartLogout, ledger, storage, ends, Disloyal
  <1>1. PICK lone \in BOOLEAN :
          /\ lone <=> \A s \in Tabs : call[s] = NULL /\ pc[s] # "store"
          /\ leaving' = [leaving EXCEPT ![t] = [stage |-> "sent", token |-> jar, alone |-> lone]]
    BY DEF StartLogout
  <1>2. /\ leaving'[t] = [stage |-> "sent", token |-> jar, alone |-> lone]
        /\ \A s \in Tabs : s # t => leaving'[s] = leaving[s]
        /\ leaving' \in [Tabs -> Leaving]
    BY <1>0, <1>1 DEF TokenTypes, Leaving
  <1>3. ASSUME NEW s \in Tabs
        PROVE  \/ call[s] = NULL /\ call'[s] = NULL
               \/ /\ call[s] \in Call /\ call[s] # NULL /\ call'[s] \in Call /\ call'[s] # NULL
                  /\ call'[s].stage = call[s].stage /\ call'[s].token = call[s].token
                  /\ call'[s].answer = call[s].answer /\ call'[s].next = call[s].next
                  /\ call'[s].loyal = FALSE
    BY <1>0, DisloyalCall, CallAssumption DEF TokenTypes
  <1>4. call' \in [Tabs -> Call \cup {NULL}]
    BY <1>0, <1>3
  <1>5. Exclusion' /\ TokenTypes'
    <2>1. out' \in Outs
      BY <1>0 DEF TokenTypes, Outs
    <2>2. \A s \in Tabs : leaving'[s].stage = "no" => leaving'[s] = Staying
      BY <1>0, <1>2 DEF TokenTypes
    <2>3. QED
      BY <1>0, <1>2, <1>4, <2>1, <2>2 DEF Exclusion, TokenTypes
  <1>6. ASSUME NEW s \in Tabs PROVE Requests(s)'
    BY <1>0, <1>3 DEF IInv, Requests
  <1>7. Born'
    <2>1. \A s \in Tabs : leaving'[s].token = leaving[s].token \/ leaving'[s].token = jar
      BY <1>2
    <2>2. ASSUME NEW s \in Tabs, call'[s] # NULL
          PROVE  /\ call'[s].token # NULL => state[call'[s].token] # "unborn"
                 /\ call'[s].answer = "success" => state[call'[s].next] # "unborn"
      <3>1. call[s] # NULL /\ call'[s].token = call[s].token /\ call'[s].answer = call[s].answer
            /\ call'[s].next = call[s].next
        BY <1>3, <2>2
      <3>2. QED
        BY <1>0, <3>1 DEF Born
    <2>3. ASSUME NEW s \in Tabs, leaving'[s].token # NULL PROVE state[leaving'[s].token] # "unborn"
      BY <1>0, <2>1, <2>3 DEF Born
    <2>4. QED
      BY <1>0, <2>2, <2>3 DEF Born
  <1>8. Undisturbed'
    BY <1>0, <1>1, <1>2, <1>3 DEF Undisturbed, Leaves
  <1>9. SignedOut'
    BY <1>0, <1>3 DEF IInv, SignedOut
  <1>10. ASSUME ~cut PROVE Uncut'
    <2>1. orphans = {} /\ JarIsGood /\ \A s \in Tabs : CallIsGood(s) /\ Requests(s)
      BY <1>10 DEF IInv, Uncut
    <2>2. \A k \in Tokens : /\ Carried(k) => Carried(k)'
                            /\ Carried(k)' => Carried(k) \/ k = jar
      BY <1>0, <1>2 DEF Carried, Leaves
    <2>3. JarIsGood'
      <3>1. \A s \in Tabs : Rotating(s, jar) => Rotating(s, jar)'
        BY <1>0, <1>3, Names DEF Rotating, IInv, Requests, Waiting
      <3>2. jar # NULL => Carried(jar)'
        BY <1>0, <1>2 DEF Carried
      <3>3. out' # "no"
        BY <1>0
      <3>4. QED
        BY <1>0, <2>1, <3>1, <3>2, <3>3 DEF JarIsGood
    <2>4. ASSUME NEW s \in Tabs PROVE CallIsGood(s)'
      <3>1. CASE call[s] = NULL
        BY <1>3, <3>1 DEF CallIsGood
      <3>2. CASE call[s] # NULL
        <4>1. /\ call'[s].stage = call[s].stage /\ call'[s].token = call[s].token
              /\ call'[s].answer = call[s].answer /\ call'[s].next = call[s].next
              /\ call'[s].loyal = FALSE
          BY <1>3, <3>2
        <4>2. CallIsGood(s) /\ (call[s].answer = "success" => call[s].next \in Tokens)
          BY <2>1, <3>2 DEF Requests
        <4>3. pc[s] = "fetching" /\ call[s].answer = "success" =>
                /\ state[call[s].next] = "live" /\ call[s].next # jar
                /\ \A u \in Tabs : leaving'[u].stage \in {"sent", "served"} => leaving'[u].token # call[s].next
          BY <1>2, <3>2, <4>2 DEF CallIsGood, Carried
        <4>4. QED
          BY <1>0, <3>2, <4>1, <4>2, <4>3 DEF CallIsGood, Carried
      <3>3. QED
        BY <3>1, <3>2
    <2>5. QED
      BY <1>0, <2>1, <2>3, <2>4 DEF Uncut
  <1>11. QED
    BY <1>0, <1>5, <1>6, <1>7, <1>8, <1>9, <1>10 DEF IInv, Uncut

\* The logout of t goes on.
Stage(t, stage) == leaving' = [leaving EXCEPT ![t].stage = stage]

LEMMA Staged ==
  ASSUME TokenTypes, NEW t \in Tabs, NEW stage \in {"served", "answered"}, Leaves(t), Stage(t, stage)
  PROVE  /\ leaving' \in [Tabs -> Leaving]
         /\ \A s \in Tabs : leaving'[s].stage = "no" => leaving'[s] = Staying
         /\ leaving'[t].stage = stage /\ leaving'[t].token = leaving[t].token
         /\ leaving'[t].alone = leaving[t].alone
         /\ \A s \in Tabs : s # t => leaving'[s] = leaving[s]
  BY DEF TokenTypes, Stage, Leaves, Leaving

LEMMA ServeLogoutInv ==
  ASSUME IInv, NEW t \in Tabs, ServeLogout(t)
  PROVE  IInv'
  <1>0. /\ Exclusion /\ TokenTypes /\ Born /\ Undisturbed /\ Leaves(t) /\ leaving[t].stage = "sent"
        /\ Stage(t, "served")
        /\ UNCHANGED <<jar, out, access, mutex, pc, call, orphans, cut>>
    BY DEF IInv, ServeLogout, storage, ends, Leaves, Stage
  <1>1. \/ state' = state
        \/ /\ leaving[t].token \in Tokens /\ state'[leaving[t].token] = "recent"
           /\ \A m \in Tokens : m # leaving[t].token => state'[m] = state[m]
    BY <1>0, LogoutEffect DEF ServeLogout, Service!Unrevoked, ledger
  <1>2. Ages
    BY <1>0, LogoutEffect, LedgerSame DEF ServeLogout, Service!Unrevoked, ledger
  <1>3. /\ leaving' \in [Tabs -> Leaving]
        /\ \A s \in Tabs : leaving'[s].stage = "no" => leaving'[s] = Staying
        /\ leaving'[t].stage = "served" /\ leaving'[t].token = leaving[t].token
        /\ leaving'[t].alone = leaving[t].alone
        /\ \A s \in Tabs : s # t => leaving'[s] = leaving[s]
    BY <1>0, Staged
  <1>4. Exclusion' /\ TokenTypes' /\ \A s \in Tabs : Requests(s)'
    BY <1>0, <1>2, <1>3 DEF IInv, Exclusion, TokenTypes, Requests, Ages
  <1>5. ASSUME NEW s \in Tabs, call[s] # NULL
        PROVE  /\ call[s].token \in Tokens \cup {NULL}
               /\ call[s].answer = "success" => call[s].next \in Tokens
    <2>1. call[s] \in Call /\ Requests(s)
      BY <1>0, <1>5 DEF IInv, TokenTypes
    <2>2. QED
      BY <1>5, <2>1 DEF Call, Requests
  <1>6. Born'
    <2>1. ASSUME NEW s \in Tabs PROVE leaving'[s].token = leaving[s].token /\ leaving[s].token \in Tokens \cup {NULL}
      BY <1>0, <1>3 DEF TokenTypes, Leaving
    <2>2. QED
      BY <1>0, <1>2, <1>5, <2>1 DEF Born, Ages, TokenTypes
  <1>7. Undisturbed' /\ SignedOut'
    BY <1>0, <1>3 DEF IInv, Undisturbed, Leaves, SignedOut
  <1>8. ASSUME ~cut PROVE Uncut'
    <2>1. orphans = {} /\ JarIsGood /\ \A s \in Tabs : CallIsGood(s)
      BY <1>8 DEF IInv, Uncut
    <2>2. /\ \A k \in Tokens : Carried(k)' <=> Carried(k)
          /\ leaving[t].token \in Tokens => Carried(leaving[t].token)
      BY <1>0, <1>3 DEF Carried
    <2>3. \A k \in Tokens : /\ state'[k] \in {state[k], "recent"}
                            /\ ~Carried(k) => state'[k] = state[k]
      BY <1>1, <2>2
    <2>4. \A s \in Tabs : Rotating(s, jar) => Rotating(s, jar)'
      BY <1>0 DEF Rotating
    <2>5. JarIsGood'
      <3>1. jar # NULL => jar \in Tokens /\ (Carried(jar)' <=> Carried(jar))
        BY <1>0, <1>3, <2>2 DEF TokenTypes, Carried
      <3>2. QED
        BY <1>0, <2>1, <2>3, <2>4, <3>1 DEF JarIsGood
    <2>6. ASSUME NEW s \in Tabs, call[s] # NULL PROVE CallIsGood(s)'
      BY <1>0, <1>5, <2>1, <2>2, <2>3, <2>6 DEF CallIsGood
    <2>7. QED
      BY <1>0, <2>1, <2>5, <2>6 DEF Uncut, CallIsGood
  <1>9. QED
    BY <1>0, <1>4, <1>6, <1>7, <1>8 DEF IInv, Uncut

LEMMA HearLogoutInv ==
  ASSUME IInv, NEW t \in Tabs, HearLogout(t)
  PROVE  IInv'
  <1>0. /\ Exclusion /\ TokenTypes /\ Born /\ Undisturbed /\ Leaves(t)
        /\ Stage(t, "answered") /\ jar' = NULL
        /\ UNCHANGED <<state, out, access, mutex, pc, call, orphans, cut>>
    BY DEF IInv, HearLogout, ledger, storage, ends, Leaves, Stage
  <1>1. /\ leaving' \in [Tabs -> Leaving]
        /\ \A s \in Tabs : leaving'[s].stage = "no" => leaving'[s] = Staying
        /\ leaving'[t].stage = "answered" /\ leaving'[t].token = leaving[t].token
        /\ leaving'[t].alone = leaving[t].alone
        /\ \A s \in Tabs : s # t => leaving'[s] = leaving[s]
    BY <1>0, Staged
  <1>2. Exclusion' /\ TokenTypes' /\ \A s \in Tabs : Requests(s)'
    BY <1>0, <1>1 DEF IInv, Exclusion, TokenTypes, Requests
  <1>3. Born' /\ Undisturbed' /\ SignedOut'
    BY <1>0, <1>1 DEF IInv, Born, Undisturbed, Leaves, SignedOut
  <1>4. ASSUME ~cut PROVE Uncut'
    <2>1. orphans = {} /\ \A s \in Tabs : CallIsGood(s) /\ Requests(s)
      BY <1>4 DEF IInv, Uncut
    <2>2. \A k \in Tokens : Carried(k)' => Carried(k)
      BY <1>0, <1>1 DEF Carried, HearLogout
    <2>3. \A s \in Tabs : CallIsGood(s)'
      BY <1>0, <2>1, <2>2, Names DEF CallIsGood, Requests
    <2>4. QED
      BY <1>0, <2>1, <2>3 DEF Uncut, JarIsGood
  <1>5. QED
    BY <1>0, <1>2, <1>3, <1>4 DEF IInv, Uncut

LEMMA FinishLogoutInv ==
  ASSUME IInv, NEW t \in Tabs, FinishLogout(t)
  PROVE  IInv'
  <1>0. /\ Exclusion /\ TokenTypes /\ Born /\ Undisturbed /\ Leaves(t) /\ leaving[t].stage = "answered"
        /\ leaving' = [leaving EXCEPT ![t] = Staying] /\ Staying \in Leaving /\ access' = FALSE
        /\ out' = IF leaving[t].alone THEN "clean" ELSE IF out = "asked" THEN "done" ELSE out
        /\ UNCHANGED <<state, jar, mutex, call, orphans, cut>>
    BY DEF IInv, FinishLogout, SignOutLocally, ledger, ends, Leaves, Staying, Leaving
  <1>1. pc' = pc
    BY <1>0, WakesNobody DEF FinishLogout
  <1>2. /\ leaving'[t] = Staying /\ Staying.stage = "no" /\ Staying.token = NULL
        /\ \A s \in Tabs : s # t => leaving'[s] = leaving[s]
    BY <1>0 DEF TokenTypes, Staying
  <1>3. Exclusion' /\ TokenTypes' /\ \A s \in Tabs : Requests(s)'
    <2>1. out' \in Outs
      BY <1>0 DEF TokenTypes, Outs
    <2>2. \A s \in Tabs : leaving'[s].stage = "no" => leaving'[s] = Staying
      BY <1>0, <1>2 DEF TokenTypes
    <2>3. QED
      BY <1>0, <1>1, <2>1, <2>2 DEF IInv, Exclusion, TokenTypes, Requests
  <1>4. Born' /\ Undisturbed'
    BY <1>0, <1>1, <1>2 DEF Born, Undisturbed, Leaves
  <1>5. SignedOut'
    <2>1. CASE leaving[t].alone
      BY <1>0, <1>1, <2>1 DEF SignedOut, Undisturbed
    <2>2. CASE ~leaving[t].alone
      BY <1>0, <1>1, <2>2 DEF IInv, SignedOut
    <2>3. QED
      BY <2>1, <2>2
  <1>6. ASSUME ~cut PROVE Uncut'
    <2>1. orphans = {} /\ JarIsGood /\ \A s \in Tabs : CallIsGood(s)
      BY <1>6 DEF IInv, Uncut
    <2>2. (\A k \in Tokens : Carried(k)' <=> Carried(k)) /\ (out' = "no" => out = "no")
      BY <1>0, <1>2 DEF Carried
    <2>3. JarIsGood'
      <3>1. jar # NULL => (Carried(jar)' <=> Carried(jar))
        BY <1>0, <1>2 DEF Carried
      <3>2. \A s \in Tabs : Rotating(s, jar) => Rotating(s, jar)'
        BY <1>0, <1>1 DEF Rotating
      <3>3. QED
        BY <1>0, <2>1, <2>2, <3>1, <3>2 DEF JarIsGood
    <2>4. ASSUME NEW s \in Tabs PROVE CallIsGood(s)'
      <3>1. call[s] # NULL /\ call[s].answer = "success" => call[s].next \in Tokens
        BY DEF IInv, Requests
      <3>2. QED
        BY <1>0, <1>1, <2>1, <2>2, <3>1 DEF CallIsGood
    <2>5. QED
      BY <1>0, <2>1, <2>3, <2>4 DEF Uncut
  <1>7. QED
    BY <1>0, <1>3, <1>4, <1>5, <1>6 DEF IInv, Uncut

LEMMA ServiceAgesInv ==
  ASSUME IInv, ServiceAges
  PROVE  IInv'
  <1>0. /\ Exclusion /\ TokenTypes
        /\ UNCHANGED <<jar, leaving, out, access, mutex, pc, call, orphans, cut>>
    BY DEF IInv, ServiceAges, storage, ends
  <1>1. PICK S \in SUBSET InState("recent") :
             /\ Service!Age(S)
             /\ \A s \in Tabs : /\ pc[s] = "fetching" => call[s].token \notin S
                                /\ leaving[s].stage \in {"sent", "served"} => leaving[s].token \notin S
    BY DEF ServiceAges
  <1>2. Ages /\ \A m \in Tokens : m \notin S => state'[m] = state[m]
    BY <1>0, <1>1, AgeEffect
  <1>3. Exclusion' /\ TokenTypes' /\ \A s \in Tabs : Requests(s)'
    BY <1>0, <1>2 DEF IInv, Exclusion, TokenTypes, Requests, Ages
  <1>4. Born' /\ Undisturbed' /\ SignedOut'
    BY <1>0, <1>2, <1>3, History DEF Weakens, Resigns
  <1>5. ASSUME ~cut PROVE Uncut'
    <2>1. orphans = {} /\ JarIsGood /\ \A s \in Tabs : CallIsGood(s) /\ Requests(s)
      BY <1>5 DEF IInv, Uncut
    <2>2. \A k \in Tokens : state[k] = "live" => state'[k] = "live"
      BY <1>1, <1>2 DEF InState
    <2>3. \A s \in Tabs : pc[s] = "fetching" /\ call[s].token \in Tokens => state'[call[s].token] = state[call[s].token]
      BY <1>1, <1>2
    <2>4. \A s \in Tabs : Rotating(s, jar) => Rotating(s, jar)'
      BY <1>0 DEF Rotating
    <2>5. JarIsGood'
      <3>1. Carried(jar)' <=> Carried(jar)
        BY <1>0 DEF Carried
      <3>2. jar # NULL /\ Carried(jar) => jar \notin S
        BY <1>1 DEF Carried
      <3>3. QED
        BY <1>0, <1>2, <2>1, <2>2, <2>3, <2>4, <3>1, <3>2 DEF JarIsGood, Rotating, TokenTypes
    <2>6. ASSUME NEW s \in Tabs, call[s] # NULL PROVE CallIsGood(s)'
      <3>1. call[s].token \in Tokens \cup {NULL} /\ CallIsGood(s) /\ Requests(s)
        BY <1>0, <2>1, <2>6 DEF TokenTypes, Call
      <3>2. QED
        BY <1>0, <2>2, <2>3, <2>6, <3>1 DEF CallIsGood, Requests, Carried
    <2>7. QED
      BY <1>0, <2>1, <2>5, <2>6 DEF Uncut, CallIsGood
  <1>6. QED
    BY <1>0, <1>3, <1>4, <1>5 DEF IInv, Uncut

-----------------------------------------------------------------------------

LEMMA InitInv == Init => IInv
  <1> SUFFICES ASSUME Init PROVE IInv
    OBVIOUS
  <1>1. Staying \in Leaving /\ Staying.stage = "no" /\ Staying.token = NULL
    BY DEF Staying, Leaving
  <1>2. \A t \in Tabs : leaving[t] = Staying /\ call[t] = NULL /\ pc[t] = "idle"
    BY DEF Init
  <1>3. TokenTypes
    BY <1>1, <1>2 DEF Init, Service!LedgerInit, TokenTypes, Outs, Service!States
  <1>4. Exclusion /\ \A t \in Tabs : Requests(t)
    BY <1>2 DEF Init, Exclusion, Requests, LockPlaces, Critical, Waiting
  <1>5. Uncut /\ Born /\ Undisturbed /\ SignedOut
    BY <1>1, <1>2 DEF Init, Uncut, JarIsGood, CallIsGood, Born, Undisturbed, Leaves, SignedOut
  <1>6. QED
    BY <1>3, <1>4, <1>5 DEF IInv

LEMMA NextInv == ASSUME WebLocks PROVE IInv /\ [Next]_vars => IInv'
  <1> SUFFICES ASSUME IInv, [Next]_vars PROVE IInv'
    OBVIOUS
  <1>1. ASSUME NEW t \in Tabs, Begin(t) \/ Advance(t) PROVE IInv'
    <2>1. Exclusion
      BY DEF IInv
    <2>2. QED
      BY <1>1, <2>1, WalkInv, NoFallback, EnterInv, SettleInv, StoreInv, ReceiveInv DEF Advance
  <1>2. ASSUME NEW t \in Tabs,
               \/ Answer(t) \/ ServiceFails(t) \/ FetchFails(t) \/ FetchTimesOut(t) \/ BodyStalls(t)
               \/ StartLogout(t) \/ ServeLogout(t) \/ HearLogout(t) \/ FinishLogout(t) \/ LogoutFails(t)
               \/ Crash(t)
        PROVE  IInv'
    <2>1. CASE Answer(t) \/ ServiceFails(t) \/ FetchFails(t) \/ FetchTimesOut(t) \/ BodyStalls(t)
      BY <2>1, ServeInv, RenewInv, ServiceFailsInv, FetchEndsInv, WalkInv DEF Answer, FetchFails, FetchTimesOut
    <2>2. CASE StartLogout(t) \/ ServeLogout(t) \/ HearLogout(t) \/ FinishLogout(t) \/ LogoutFails(t) \/ Crash(t)
      BY <2>2, StartLogoutInv, ServeLogoutInv, HearLogoutInv, FinishLogoutInv, LogoutFailsInv, CrashInv
    <2>3. QED
      BY <1>2, <2>1, <2>2
  <1>3. ASSUME NEW n \in Tokens, Login(n) \/ \E path \in {"refresh", "logout"} : ServeOrphan(path, n) PROVE IInv'
    BY <1>3, LoginInv, OrphanInv
  <1>4. ASSUME AccessExpires \/ Tick \/ ServiceAges PROVE IInv'
    BY <1>4, ExpiryInv, TickInv, ServiceAgesInv
  <1>5. CASE UNCHANGED vars
    <2>1. UNCHANGED <<state, jar, access, mutex, pc, call, leaving, orphans, out, cut>>
      BY <1>5 DEF vars
    <2>2. Exclusion' /\ TokenTypes' /\ \A s \in Tabs : Requests(s)'
      BY <2>1 DEF IInv, Exclusion, TokenTypes, Requests
    <2>3. QuietStep
      BY <2>1 DEF IInv, QuietStep, Keeps, Requests, Waiting
    <2>4. QED
      BY <2>2, <2>3, QuietInv
  <1>6. QED
    BY <1>1, <1>2, <1>3, <1>4, <1>5 DEF Next

\* Where the browser has Web Locks, the jar and the requests stay as the argument
\* above says.
THEOREM Invariance == ASSUME WebLocks PROVE Spec => []IInv
  <1>1. Init => IInv
    BY InitInv
  <1>2. IInv /\ [Next]_vars => IInv'
    BY NextInv
  <1>3. QED
    BY <1>1, <1>2, PTL DEF Spec

\* Under the Web Lock no two tabs wait for a refresh (coordinatedRefresh), whatever
\* crashes, fails or times out.
THEOREM OneRefreshAtATime == ASSUME WebLocks PROVE Spec => []AtMostOneRefresh
  <1>1. IInv => AtMostOneRefresh
    <2> SUFFICES ASSUME IInv PROVE Cardinality(InFlight) <= 1
      BY DEF AtMostOneRefresh
    <2>1. \A s, t \in InFlight : s = t
      BY OnlyOne DEF IInv, InFlight, Critical, Waiting
    <2>2. CASE InFlight = {}
      BY <2>2, FS_EmptySet
    <2>3. CASE InFlight # {}
      <3>1. PICK t : InFlight = {t}
        BY <2>1, <2>3
      <3>2. QED
        BY <3>1, FS_Singleton
    <2>4. QED
      BY <2>2, <2>3
  <1>2. QED
    BY <1>1, Invariance, PTL

\* While no refresh is cut short, no tab of a signed-in customer presents a token
\* that another tab or a logout has ended.
THEOREM NobodyIsSignedOutByARace == ASSUME WebLocks PROVE Spec => []NoFalseSignOut
  <1>1. IInv => NoFalseSignOut
    BY DEF IInv, Uncut, CallIsGood, NoFalseSignOut
  <1>2. QED
    BY <1>1, Invariance, PTL

\* A logout that was answered, and that no refresh and no login overlapped, leaves no
\* tab a token or a renewed session until the next login, whatever failed before, and
\* whether or not the service could revoke the token (customerLogout, Logout).
THEOREM LogoutSticks == ASSUME WebLocks PROVE Spec => []CleanLogoutSticks
  <1>1. IInv => CleanLogoutSticks
    BY DEF IInv, SignedOut, CleanLogoutSticks
  <1>2. QED
    BY <1>1, Invariance, PTL
=============================================================================
