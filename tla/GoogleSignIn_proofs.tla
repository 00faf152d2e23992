------------------------- MODULE GoogleSignIn_proofs -------------------------
(***************************************************************************)
(* Proofs about GoogleSignIn for every number of callbacks, states,        *)
(* subjects and addresses, every identity Google may report and every      *)
(* number of failing statements.                                           *)
(***************************************************************************)
EXTENDS GoogleSignIn, TLAPS

Early == {"idle", "consume", "read", "exchange"}
Signing == {"by_sub", "by_mail", "insert_user", "insert_identity", "again_sub", "again_mail", "issue"}
Creating == {"by_mail", "insert_user", "insert_identity", "again_sub", "again_mail"}
Linking == {"link_user", "link_sub", "link_identity", "link_mirror", "link_again"}

\* A general failure of t would be excused.
Excused(t) == faults > 0 \/ cb[t].victim

\* The state t presented: won before anything else is done, and consumed by it.
Spent(t) ==
    /\ cb[t].pc = "idle" => ~cb[t].used
    /\ cb[t].pc = "consume" => ~cb[t].used /\ cb[t].state \in States
    /\ cb[t].pc \notin {"idle", "consume", "over"} => cb[t].used
    /\ cb[t].used => /\ cb[t].state \in States
                     /\ state[cb[t].state] # NULL
                     /\ state[cb[t].state].consumed

\* What the earlier steps of t have found out, and what still holds of it.
Knows(t) ==
    /\ cb[t].pc \in Early => cb[t].sub = NULL
    /\ cb[t].pc \in Signing \cup Linking => cb[t].sub \in Subs /\ cb[t].mail \in Mails
    /\ cb[t].pc \in {"exchange"} \cup Linking => cb[t].link = state[cb[t].state].link
    /\ cb[t].pc \in Linking => cb[t].link \in Mails
    /\ cb[t].pc = "by_sub" /\ cb[t].known => identity[cb[t].sub] # NULL
    /\ cb[t].pc \in Creating => ~cb[t].known
    /\ cb[t].pc = "issue" => cb[t].account = identity[cb[t].sub] /\ cb[t].account # NULL
    /\ cb[t].pc = "again_sub" =>
          Excused(t) \/ identity[cb[t].sub] # NULL \/ user[cb[t].mail] # NULL
    /\ cb[t].pc = "again_mail" => Excused(t) \/ user[cb[t].mail] # NULL
    /\ cb[t].pc = "link_again" => Excused(t) \/ identity[cb[t].sub] # NULL

\* The keys an open transaction holds protect what it is about to write.
Locks(t) ==
    /\ cb[t].held = IF At(t, "insert_identity") THEN MailKey(cb[t].mail) \cup MirrorKey(t)
                    ELSE IF At(t, "link_mirror") THEN SubKey(t) ELSE {}
    /\ At(t, "insert_identity") => user[cb[t].mail] = NULL
    /\ At(t, "link_mirror") => identity[cb[t].sub] = NULL

\* What t has answered is true.
Answered(t) ==
    /\ cb[t].reply # "none" => cb[t].pc = "over"
    /\ cb[t].reply = "signed_in" =>
          cb[t].sub \in Subs /\ cb[t].account = identity[cb[t].sub] /\ cb[t].account # NULL
    /\ cb[t].reply = "linked" =>
          cb[t].sub \in Subs /\ cb[t].link \in Mails /\ cb[t].link = identity[cb[t].sub]
    /\ cb[t].reply = "identity_taken" =>
          cb[t].sub \in Subs /\ identity[cb[t].sub] \notin {NULL, cb[t].link}
    /\ cb[t].reply = "account_exists" => cb[t].mail \in Mails /\ user[cb[t].mail] # NULL /\ ~cb[t].known
    /\ cb[t].reply = "failed" => Excused(t)

Good(t) == Spent(t) /\ Knows(t) /\ Locks(t) /\ Answered(t)

\* A state that links names an account.
LinksNameAccounts ==
    \A st \in States : state[st] # NULL /\ state[st].link # NULL => user[state[st].link] # NULL

\* No key is held twice.
KeysAreHeldOnce == \A t, u \in Callbacks : t # u => cb[t].held \cap cb[u].held = {}

IInv ==
    /\ GoogleTypeOK
    /\ \A t \in Callbacks : Good(t)
    /\ LinksNameAccounts
    /\ KeysAreHeldOnce
    /\ NoMergeByMail
    /\ StatesAreSingleUse

-----------------------------------------------------------------------------
(* What the steps do to the callback that takes them. *)

\* Only t's own fields may change, and not what it has spent or who it serves.
Private(t) ==
    /\ UNCHANGED <<user, identity, state, unique>>
    /\ faults' \in {faults, faults + 1}
    /\ cb' \in [Callbacks -> Callback]
    /\ \A u \in Callbacks \ {t} : cb'[u] = cb[u]
    /\ cb'[t].used = cb[t].used
    /\ cb[t].used => cb'[t].state = cb[t].state
    /\ cb[t].sub # NULL => cb'[t].sub = cb[t].sub

\* The fields of t that only its first steps write.
Fixed(t) ==
    /\ cb'[t].state = cb[t].state
    /\ cb'[t].used = cb[t].used
    /\ cb'[t].link = cb[t].link
    /\ cb'[t].sub = cb[t].sub
    /\ cb'[t].mail = cb[t].mail
    /\ cb'[t].victim = cb[t].victim
    /\ cb'[t].known = cb[t].known

LEMMA GoesOn ==
    ASSUME GoogleTypeOK, NEW t \in Callbacks, NEW step \in Steps, Goes(t, step)
    PROVE  /\ cb' \in [Callbacks -> Callback]
           /\ \A u \in Callbacks \ {t} : cb'[u] = cb[u]
           /\ Fixed(t)
           /\ cb'[t].pc = step /\ cb'[t].held = {}
           /\ cb'[t].account = cb[t].account /\ cb'[t].reply = cb[t].reply
<1>1. cb \in [Callbacks -> Callback] /\ cb[t] \in Callback
  BY DEF GoogleTypeOK
<1>2. [cb[t] EXCEPT !.pc = step, !.held = {}] \in Callback
  BY <1>1 DEF Callback
<1> QED
  BY <1>1, <1>2 DEF Goes, Become, Fixed, Callback

LEMMA AnswersNow ==
    ASSUME GoogleTypeOK, NEW t \in Callbacks, NEW r \in Replies, Answers(t, r)
    PROVE  /\ cb' \in [Callbacks -> Callback]
           /\ \A u \in Callbacks \ {t} : cb'[u] = cb[u]
           /\ Fixed(t)
           /\ cb'[t].pc = "over" /\ cb'[t].held = {}
           /\ cb'[t].account = cb[t].account /\ cb'[t].reply = r
<1>1. cb \in [Callbacks -> Callback] /\ cb[t] \in Callback
  BY DEF GoogleTypeOK
<1>2. [cb[t] EXCEPT !.pc = "over", !.held = {}, !.reply = r] \in Callback
  BY <1>1 DEF Callback, Steps
<1> QED
  BY <1>1, <1>2 DEF Answers, Become, Fixed, Callback

LEMMA ResolvedNow ==
    ASSUME GoogleTypeOK, NEW t \in Callbacks, NEW account \in Mails, Resolved(t, account, "issue")
    PROVE  /\ cb' \in [Callbacks -> Callback]
           /\ \A u \in Callbacks \ {t} : cb'[u] = cb[u]
           /\ Fixed(t)
           /\ cb'[t].pc = "issue" /\ cb'[t].held = cb[t].held
           /\ cb'[t].account = account /\ cb'[t].reply = cb[t].reply
<1>1. cb \in [Callbacks -> Callback] /\ cb[t] \in Callback
  BY DEF GoogleTypeOK
<1>2. [cb[t] EXCEPT !.pc = "issue", !.account = account] \in Callback
  BY <1>1 DEF Callback, Steps
<1> QED
  BY <1>1, <1>2 DEF Resolved, Become, Fixed, Callback

\* The rows only grow: what a callback other than the one that steps relies on
\* stays true.
Grows ==
    /\ \A m \in Mails : user[m] # NULL => user'[m] # NULL /\ user'[m].by = user[m].by
    /\ \A s \in Subs : identity[s] # NULL => identity'[s] = identity[s]
    /\ \A st \in States : state[st] # NULL =>
          /\ state'[st] # NULL
          /\ state'[st].link = state[st].link
          /\ state[st].consumed => state'[st].consumed
    /\ faults' \in {faults, faults + 1}
    /\ unique' = unique

LEMMA OthersStayGood ==
    ASSUME IInv, Grows, NEW u \in Callbacks, cb'[u] = cb[u],
           At(u, "insert_identity") => user'[cb[u].mail] = NULL,
           At(u, "link_mirror") => identity'[cb[u].sub] = NULL
    PROVE  Good(u)'
<1>0. Good(u) /\ GoogleTypeOK /\ cb[u] \in Callback
  BY DEF IInv, GoogleTypeOK
<1>1. Spent(u)'
  BY <1>0 DEF Good, Spent, Grows
<1>2. Excused(u) => Excused(u)'
  BY <1>0 DEF Excused, Grows, GoogleTypeOK
<1>3. cb[u].pc \in {"exchange"} \cup Linking => state'[cb[u].state].link = state[cb[u].state].link
  BY <1>0 DEF Good, Spent, Linking, Grows
<1>4. cb[u].pc \in Signing \cup Linking => cb[u].sub \in Subs /\ cb[u].mail \in Mails
  BY <1>0 DEF Good, Knows
<1>5. Knows(u)'
  BY <1>0, <1>2, <1>3, <1>4 DEF Good, Knows, Grows, Signing, Creating, Linking
<1>6. Locks(u)'
  BY <1>0 DEF Good, Locks, At, MailKey, MirrorKey, SubKey, Grows
<1>7. Answered(u)'
  BY <1>0, <1>2, GoogleAssumption DEF Good, Answered, Grows
<1> QED
  BY <1>1, <1>5, <1>6, <1>7 DEF Good

LEMMA PrivateStep ==
    ASSUME IInv, NEW t \in Callbacks, Private(t), Good(t)',
           \A u \in Callbacks \ {t} : cb'[t].held \cap cb[u].held = {}
    PROVE  IInv'
<1>1. Grows
  BY DEF Private, Grows
<1>2. GoogleTypeOK'
  BY DEF IInv, GoogleTypeOK, Private
<1>3. ASSUME NEW u \in Callbacks \ {t} PROVE Good(u)'
  BY <1>1, OthersStayGood DEF Private, IInv, Good, Locks
<1>4. LinksNameAccounts'
  BY DEF IInv, LinksNameAccounts, Private
<1>5. KeysAreHeldOnce'
  BY DEF IInv, KeysAreHeldOnce, Private
<1>6. NoMergeByMail'
  <2>1. ASSUME NEW u \in Callbacks, NEW s \in Subs, cb[u].used, cb[u].sub = s
        PROVE  cb'[u].used /\ cb'[u].sub = s /\ cb'[u].state = cb[u].state
    BY <2>1, GoogleAssumption DEF Private
  <2> QED
    BY <2>1 DEF IInv, NoMergeByMail, Private
<1>7. StatesAreSingleUse'
  BY DEF IInv, StatesAreSingleUse, Private
<1> QED
  BY <1>2, <1>3, <1>4, <1>5, <1>6, <1>7 DEF IInv

-----------------------------------------------------------------------------
(* Steps of one callback that leave the tables alone. *)

LEMMA ArriveStep ==
    ASSUME IInv, NEW t \in Callbacks, Arrive(t)
    PROVE  IInv'
<1>0. GoogleTypeOK /\ Good(t) /\ cb[t] \in Callback /\ cb[t].pc = "idle" /\ ~cb[t].used
  BY DEF IInv, GoogleTypeOK, Arrive, At, Good, Spent
<1>1. PICK st \in States : Become(t, [cb[t] EXCEPT !.pc = "consume", !.state = st])
  BY DEF Arrive
<1>2. [cb[t] EXCEPT !.pc = "consume", !.state = st] \in Callback
  BY <1>0 DEF Callback, Steps
<1>3. /\ cb' \in [Callbacks -> Callback]
      /\ \A u \in Callbacks \ {t} : cb'[u] = cb[u]
      /\ cb'[t].pc = "consume" /\ cb'[t].state = st
      /\ cb'[t].used = cb[t].used /\ cb'[t].sub = cb[t].sub
      /\ cb'[t].held = cb[t].held /\ cb'[t].reply = cb[t].reply
  BY <1>0, <1>1, <1>2 DEF Become, GoogleTypeOK, Callback
<1>4. Private(t)
  BY <1>0, <1>3 DEF Private, Arrive, data
<1>5. cb[t].held = {} /\ cb[t].reply = "none" /\ cb[t].sub = NULL
  BY <1>0 DEF Good, Locks, At, Answered, Knows, Early
<1>6. Good(t)'
  BY <1>0, <1>3, <1>5 DEF Good, Spent, Knows, Locks, Answered, At, Early, Signing, Creating, Linking
<1> QED
  BY <1>3, <1>4, <1>5, <1>6, PrivateStep

\* t goes on, answers, or has found an account; what it knows is left to show.
LEMMA GoesOnStep ==
    ASSUME IInv, NEW t \in Callbacks, NEW step \in Steps \ {"idle", "consume", "insert_identity", "link_mirror"},
           Goes(t, step), UNCHANGED <<data, unique>>, faults' \in {faults, faults + 1},
           cb[t].used, cb[t].reply = "none", Knows(t)'
    PROVE  IInv'
<1>1. GoogleTypeOK /\ Good(t)
  BY DEF IInv
<1>2. /\ cb' \in [Callbacks -> Callback]
      /\ \A u \in Callbacks \ {t} : cb'[u] = cb[u]
      /\ Fixed(t)
      /\ cb'[t].pc = step /\ cb'[t].held = {}
      /\ cb'[t].account = cb[t].account /\ cb'[t].reply = cb[t].reply
  BY <1>1, GoesOn
<1>3. Private(t)
  BY <1>2 DEF Private, Fixed, data
<1>4. Good(t)'
  BY <1>1, <1>2 DEF Good, Spent, Locks, Answered, At, Fixed, data
<1> QED
  BY <1>2, <1>3, <1>4, PrivateStep

LEMMA AnswersStep ==
    ASSUME IInv, NEW t \in Callbacks, NEW r \in Replies,
           Answers(t, r), UNCHANGED <<data, unique>>, faults' \in {faults, faults + 1},
           Answered(t)'
    PROVE  IInv'
<1>1. GoogleTypeOK /\ Good(t)
  BY DEF IInv
<1>2. /\ cb' \in [Callbacks -> Callback]
      /\ \A u \in Callbacks \ {t} : cb'[u] = cb[u]
      /\ Fixed(t)
      /\ cb'[t].pc = "over" /\ cb'[t].held = {}
      /\ cb'[t].account = cb[t].account /\ cb'[t].reply = r
  BY <1>1, AnswersNow
<1>3. Private(t)
  BY <1>2 DEF Private, Fixed, data
<1>4. Good(t)'
  BY <1>1, <1>2 DEF Good, Spent, Knows, Locks, At, Fixed, Early, Signing, Creating, Linking, data
<1> QED
  BY <1>2, <1>3, <1>4, PrivateStep

LEMMA ResolvedStep ==
    ASSUME IInv, NEW t \in Callbacks, Resolved(t, identity[cb[t].sub], "issue"),
           UNCHANGED <<data, unique, faults>>, cb[t].pc \in {"by_sub", "again_sub"},
           identity[cb[t].sub] # NULL
    PROVE  IInv'
<1>1. GoogleTypeOK /\ Good(t) /\ cb[t].sub \in Subs /\ identity[cb[t].sub] \in Mails
  BY DEF IInv, GoogleTypeOK, Good, Knows, Signing
<1>2. /\ cb' \in [Callbacks -> Callback]
      /\ \A u \in Callbacks \ {t} : cb'[u] = cb[u]
      /\ Fixed(t)
      /\ cb'[t].pc = "issue" /\ cb'[t].held = cb[t].held
      /\ cb'[t].account = identity[cb[t].sub] /\ cb'[t].reply = cb[t].reply
  BY <1>1, ResolvedNow
<1>3. Private(t)
  BY <1>2 DEF Private, Fixed, data
<1>4. cb[t].held = {}
  BY <1>1 DEF Good, Locks, At
<1>5. Good(t)'
  BY <1>1, <1>2, <1>4
  DEF Good, Spent, Knows, Locks, Answered, At, Fixed, Early, Signing, Creating, Linking, data
<1> QED
  BY <1>2, <1>3, <1>4, <1>5, PrivateStep

\* The state t is in while it is served, before it has answered.
LEMMA Served ==
    ASSUME IInv, NEW t \in Callbacks, cb[t].pc \notin {"idle", "consume", "over"}
    PROVE  /\ GoogleTypeOK /\ Good(t) /\ cb[t] \in Callback
           /\ cb[t].used /\ cb[t].reply = "none"
BY DEF IInv, GoogleTypeOK, Good, Spent, Answered

\* A statement that failed excuses the failure that t answers.
LEMMA FailsStep ==
    ASSUME IInv, NEW t \in Callbacks, Answers(t, "failed"), UNCHANGED <<data, unique>>,
           Breaks \/ (Works /\ Excused(t))
    PROVE  IInv'
<1>1. GoogleTypeOK /\ "failed" \in Replies
  BY DEF IInv, Replies
<1>2. Fixed(t) /\ cb'[t].pc = "over" /\ cb'[t].reply = "failed"
  BY <1>1, AnswersNow
<1>3. Answered(t)'
  BY <1>1, <1>2 DEF Answered, Excused, Fixed, Breaks, Works, GoogleTypeOK
<1> QED
  BY <1>1, <1>3, AnswersStep DEF Breaks, Works

LEMMA LookupSteps ==
    ASSUME IInv, NEW t \in Callbacks,
           ReadState(t) \/ Exchange(t) \/ ResolveBySub(t) \/ RefuseMail(t) \/ ResolveAgain(t)
             \/ RefuseMailAgain(t) \/ IssueSession(t)
    PROVE  IInv'
<1> DEFINE sub == cb[t].sub
           mail == cb[t].mail
<1>0. /\ GoogleTypeOK /\ Good(t) /\ cb[t] \in Callback
      /\ cb[t].used /\ cb[t].reply = "none" /\ cb[t].state \in States /\ state[cb[t].state] \in StateRow
  <2>1. cb[t].pc \notin {"idle", "consume", "over"}
    BY DEF ReadState, Exchange, ResolveBySub, RefuseMail, ResolveAgain, RefuseMailAgain, IssueSession, At
  <2> QED
    BY <2>1, Served DEF Good, Spent, GoogleTypeOK
<1>1. ASSUME ReadState(t) PROVE IInv'
  <2>1. CASE Breaks /\ Answers(t, "failed")
    BY <1>1, <2>1, FailsStep DEF ReadState
  <2>2. CASE Works /\ Become(t, [cb[t] EXCEPT !.pc = "exchange", !.link = state[cb[t].state].link])
    <3>1. [cb[t] EXCEPT !.pc = "exchange", !.link = state[cb[t].state].link] \in Callback
      BY <1>0 DEF Callback, Steps, StateRow
    <3>2. /\ cb' \in [Callbacks -> Callback]
          /\ \A u \in Callbacks \ {t} : cb'[u] = cb[u]
          /\ cb'[t].pc = "exchange" /\ cb'[t].link = state[cb[t].state].link
          /\ cb'[t].state = cb[t].state /\ cb'[t].used = cb[t].used /\ cb'[t].sub = cb[t].sub
          /\ cb'[t].held = cb[t].held /\ cb'[t].reply = cb[t].reply
      BY <1>0, <2>2, <3>1 DEF Become, GoogleTypeOK, Callback
    <3>4. Private(t)
      BY <1>1, <2>2, <3>2 DEF Private, ReadState, Works, data
    <3>5. cb[t].held = {} /\ sub = NULL
      BY <1>0, <1>1 DEF Good, Locks, Knows, Early, ReadState, At
    <3>6. Good(t)'
      BY <1>0, <1>1, <3>2, <3>5 DEF Good, Spent, Knows, Locks, Answered, At, Early, Signing, Creating, Linking, ReadState, data
    <3> QED
      BY <3>2, <3>4, <3>5, <3>6, PrivateStep
  <2> QED
    BY <1>1, <2>1, <2>2 DEF ReadState
<1>2. ASSUME Exchange(t) PROVE IInv'
  <2>1. CASE Answers(t, "exchange_failed")
    <3>1. "exchange_failed" \in Replies
      BY DEF Replies
    <3>2. Answered(t)'
      BY <1>0, <2>1, <3>1, AnswersNow DEF Answered
    <3> QED
      BY <1>2, <2>1, <3>1, <3>2, AnswersStep DEF Exchange
  <2>2. ASSUME NEW id \in Identities,
               Become(t, [cb[t] EXCEPT !.sub = id[1], !.mail = id[2],
                            !.known = identity[id[1]] # NULL,
                            !.pc = IF cb[t].link = NULL THEN "by_sub" ELSE "link_user"])
        PROVE  IInv'
    <3>1. id[1] \in Subs /\ id[2] \in Mails
      BY GoogleAssumption
    <3>2. [cb[t] EXCEPT !.sub = id[1], !.mail = id[2], !.known = identity[id[1]] # NULL,
             !.pc = IF cb[t].link = NULL THEN "by_sub" ELSE "link_user"] \in Callback
      BY <1>0, <3>1 DEF Callback, Steps
    <3>3. /\ cb' \in [Callbacks -> Callback]
          /\ \A u \in Callbacks \ {t} : cb'[u] = cb[u]
          /\ cb'[t].pc = (IF cb[t].link = NULL THEN "by_sub" ELSE "link_user")
          /\ cb'[t].sub = id[1] /\ cb'[t].mail = id[2] /\ cb'[t].known = (identity[id[1]] # NULL)
          /\ cb'[t].link = cb[t].link /\ cb'[t].state = cb[t].state /\ cb'[t].used = cb[t].used
          /\ cb'[t].held = cb[t].held /\ cb'[t].reply = cb[t].reply
      BY <1>0, <2>2, <3>2 DEF Become, GoogleTypeOK, Callback
    <3>4. cb[t].held = {} /\ sub = NULL /\ cb[t].link = state[cb[t].state].link
      BY <1>0, <1>2 DEF Good, Locks, Knows, Early, Exchange, At
    <3>5. Private(t)
      BY <1>2, <3>3, <3>4 DEF Private, Exchange, data
    <3>6. cb[t].link \in Mails \cup {NULL}
      BY <1>0 DEF Callback
    <3>7. Good(t)'
      BY <1>0, <1>2, <3>1, <3>3, <3>4, <3>6
      DEF Good, Spent, Knows, Locks, Answered, At, Early, Signing, Creating, Linking, Exchange, data
    <3> QED
      BY <3>3, <3>4, <3>5, <3>7, PrivateStep
  <2> QED
    BY <1>2, <2>1, <2>2 DEF Exchange
<1>3. ASSUME ResolveBySub(t) PROVE IInv'
  <2>1. CASE Works /\ identity[sub] # NULL /\ Resolved(t, identity[sub], "issue")
    BY <1>3, <2>1, ResolvedStep DEF ResolveBySub, Works, At
  <2>2. CASE Works /\ identity[sub] = NULL /\ Goes(t, "by_mail")
    <3>1. "by_mail" \in Steps
      BY DEF Steps
    <3>2. Knows(t)'
      BY <1>0, <1>3, <2>2, <3>1, GoesOn
      DEF Good, Knows, Fixed, Early, Signing, Creating, Linking, ResolveBySub, At
    <3> QED
      BY <1>0, <1>3, <2>2, <3>1, <3>2, GoesOnStep DEF ResolveBySub, Works
  <2>3. CASE Breaks /\ Answers(t, "failed")
    BY <1>3, <2>3, FailsStep DEF ResolveBySub
  <2> QED
    BY <1>3, <2>1, <2>2, <2>3 DEF ResolveBySub
<1>4. ASSUME RefuseMail(t) PROVE IInv'
  <2>0. mail \in Mails /\ ~cb[t].known
    BY <1>0, <1>4 DEF Good, Knows, Signing, Creating, RefuseMail, At
  <2>1. CASE Works /\ user[mail] # NULL /\ Answers(t, "account_exists")
    <3>1. "account_exists" \in Replies
      BY DEF Replies
    <3>2. Answered(t)'
      BY <1>0, <1>4, <2>0, <2>1, <3>1, AnswersNow DEF Answered, Fixed, RefuseMail, data
    <3> QED
      BY <1>4, <2>1, <3>1, <3>2, AnswersStep DEF RefuseMail, Works
  <2>2. CASE Works /\ Goes(t, "insert_user")
    <3>1. "insert_user" \in Steps
      BY DEF Steps
    <3>2. Knows(t)'
      BY <1>0, <1>4, <2>2, <3>1, GoesOn
      DEF Good, Knows, Fixed, Early, Signing, Creating, Linking, RefuseMail, At
    <3> QED
      BY <1>0, <1>4, <2>2, <3>1, <3>2, GoesOnStep DEF RefuseMail, Works
  <2>3. CASE Breaks /\ Answers(t, "failed")
    BY <1>4, <2>3, FailsStep DEF RefuseMail
  <2> QED
    BY <1>4, <2>1, <2>2, <2>3 DEF RefuseMail
<1>5. ASSUME ResolveAgain(t) PROVE IInv'
  <2>1. CASE Works /\ identity[sub] # NULL /\ Resolved(t, identity[sub], "issue")
    BY <1>5, <2>1, ResolvedStep DEF ResolveAgain, Works, At
  <2>2. CASE ((Works /\ identity[sub] = NULL) \/ Breaks) /\ Goes(t, "again_mail")
    <3>1. "again_mail" \in Steps
      BY DEF Steps
    <3>2. Fixed(t) /\ cb'[t].pc = "again_mail"
      BY <1>0, <2>2, <3>1, GoesOn
    <3>3. Excused(t)' \/ user[mail] # NULL
      BY <1>0, <1>5, <2>2, <3>2
      DEF Good, Knows, Excused, Fixed, ResolveAgain, At, Works, Breaks, GoogleTypeOK
    <3>4. Knows(t)'
      BY <1>0, <1>5, <3>2, <3>3
      DEF Good, Knows, Fixed, Early, Signing, Creating, Linking, ResolveAgain, At, data
    <3> QED
      BY <1>0, <1>5, <2>2, <3>1, <3>4, GoesOnStep DEF ResolveAgain, Works, Breaks
  <2> QED
    BY <1>5, <2>1, <2>2 DEF ResolveAgain
<1>6. ASSUME RefuseMailAgain(t) PROVE IInv'
  <2>0. mail \in Mails /\ (Excused(t) \/ user[mail] # NULL) /\ ~cb[t].known
    BY <1>0, <1>6 DEF Good, Knows, Signing, Creating, RefuseMailAgain, At
  <2>1. CASE Works /\ user[mail] # NULL /\ Answers(t, "account_exists")
    <3>1. "account_exists" \in Replies
      BY DEF Replies
    <3>2. Answered(t)'
      BY <1>0, <1>6, <2>0, <2>1, <3>1, AnswersNow DEF Answered, Fixed, RefuseMailAgain, data
    <3> QED
      BY <1>6, <2>1, <3>1, <3>2, AnswersStep DEF RefuseMailAgain, Works
  <2>2. CASE Works /\ user[mail] = NULL /\ Answers(t, "failed")
    BY <1>6, <2>0, <2>2, FailsStep DEF RefuseMailAgain
  <2>3. CASE Breaks /\ Answers(t, "failed")
    BY <1>6, <2>3, FailsStep DEF RefuseMailAgain
  <2> QED
    BY <1>6, <2>1, <2>2, <2>3 DEF RefuseMailAgain
<1>7. ASSUME IssueSession(t) PROVE IInv'
  <2>1. CASE Works /\ Answers(t, "signed_in")
    <3>1. "signed_in" \in Replies
      BY DEF Replies
    <3>2. /\ Fixed(t) /\ cb'[t].account = cb[t].account
          /\ cb'[t].pc = "over" /\ cb'[t].reply = "signed_in"
      BY <1>0, <2>1, <3>1, AnswersNow
    <3>3. Answered(t)'
      BY <1>0, <1>7, <3>2 DEF Good, Knows, Signing, Answered, Fixed, IssueSession, At, data
    <3> QED
      BY <1>7, <2>1, <3>1, <3>3, AnswersStep DEF IssueSession, Works
  <2>2. CASE Breaks /\ Answers(t, "failed")
    BY <1>7, <2>2, FailsStep DEF IssueSession
  <2> QED
    BY <1>7, <2>1, <2>2 DEF IssueSession
<1> QED
  BY <1>1, <1>2, <1>3, <1>4, <1>5, <1>6, <1>7

\* The subject is linked already: to t's account, or to another.
LEMMA LinkedToStep ==
    ASSUME IInv, NEW t \in Callbacks, LinkedTo(t, identity[cb[t].sub]), UNCHANGED <<data, unique, faults>>,
           cb[t].pc \in Linking, identity[cb[t].sub] # NULL
    PROVE  IInv'
<1>0. GoogleTypeOK /\ Good(t) /\ cb[t].sub \in Subs /\ cb[t].link \in Mails
  BY DEF IInv, Good, Knows
<1>1. {"linked", "identity_taken"} \subseteq Replies
  BY DEF Replies
<1>2. CASE identity[cb[t].sub] = cb[t].link
  <2>1. Answers(t, "linked")
    BY <1>2 DEF LinkedTo
  <2>2. Answered(t)'
    BY <1>0, <1>1, <1>2, <2>1, AnswersNow DEF Answered, Fixed, data
  <2> QED
    BY <1>1, <2>1, <2>2, AnswersStep
<1>3. CASE identity[cb[t].sub] # cb[t].link
  <2>1. Answers(t, "identity_taken")
    BY <1>3 DEF LinkedTo
  <2>2. Answered(t)'
    BY <1>0, <1>1, <1>3, <2>1, AnswersNow DEF Answered, Fixed, data
  <2> QED
    BY <1>1, <2>1, <2>2, AnswersStep
<1> QED
  BY <1>2, <1>3

LEMMA LinkLookupSteps ==
    ASSUME IInv, NEW t \in Callbacks, FindLinkUser(t) \/ FindLinked(t) \/ FindLinkedAgain(t)
    PROVE  IInv'
<1>0. /\ GoogleTypeOK /\ Good(t) /\ cb[t] \in Callback
      /\ cb[t].used /\ cb[t].reply = "none" /\ cb[t].pc \in Linking
  BY Served DEF FindLinkUser, FindLinked, FindLinkedAgain, At, Linking
<1>1. ASSUME NEW step \in {"link_sub", "link_identity"}, Goes(t, step), UNCHANGED <<data, unique, faults>>
      PROVE  IInv'
  <2>1. step \in Steps \ {"idle", "consume", "insert_identity", "link_mirror"}
    BY DEF Steps
  <2>2. Fixed(t) /\ cb'[t].pc = step
    BY <1>0, <1>1, <2>1, GoesOn
  <2>3. Knows(t)'
    BY <1>0, <1>1, <2>2 DEF Good, Knows, Fixed, Early, Signing, Creating, Linking, data
  <2> QED
    BY <1>0, <1>1, <2>1, <2>3, GoesOnStep
<1>2. ASSUME FindLinkUser(t) PROVE IInv'
  BY <1>1, <1>2, FailsStep DEF FindLinkUser, Works
<1>3. ASSUME FindLinked(t) PROVE IInv'
  BY <1>0, <1>1, <1>3, FailsStep, LinkedToStep DEF FindLinked, Works
<1>4. ASSUME FindLinkedAgain(t) PROVE IInv'
  <2>1. identity[cb[t].sub] = NULL => Excused(t)
    BY <1>0, <1>4 DEF Good, Knows, FindLinkedAgain, At
  <2> QED
    BY <1>0, <1>4, <2>1, FailsStep, LinkedToStep DEF FindLinkedAgain, Works
<1> QED
  BY <1>2, <1>3, <1>4

-----------------------------------------------------------------------------
(* Steps of the two transactions that write nothing yet. *)

\* The copy in users.google_sub has its identity.
LEMMA MirrorsHaveIdentities ==
    ASSUME IInv, NEW sub \in Subs, Mirrored(sub)
    PROVE  identity[sub] # NULL
BY GoogleAssumption DEF IInv, NoMergeByMail, Mirrored

\* A rollback: t looks again, for what a key has told it is there by now.
LEMMA RollbackStep ==
    ASSUME IInv, NEW t \in Callbacks, NEW refused \in BOOLEAN, NEW next \in {"again_sub", "link_again"},
           RollsBack(t, refused, next), UNCHANGED <<state, unique>>,
           IF next = "again_sub" THEN cb[t].pc \in Creating ELSE cb[t].pc \in Linking,
           refused => \/ identity[cb[t].sub] # NULL
                      \/ next = "again_sub" /\ user[cb[t].mail] # NULL
    PROVE  IInv'
<1>0. /\ GoogleTypeOK /\ Good(t) /\ cb[t] \in Callback
      /\ cb[t].used /\ cb[t].reply = "none"
  BY Served DEF Creating, Linking
<1>1. next \in Steps \ {"idle", "consume", "insert_identity", "link_mirror"}
  BY DEF Steps
<1>2. Goes(t, next) /\ UNCHANGED <<data, unique>> /\ faults' \in {faults, faults + 1}
  BY DEF RollsBack, Works, Breaks, data
<1>3. Fixed(t) /\ cb'[t].pc = next
  BY <1>0, <1>1, <1>2, GoesOn
<1>4. refused \/ Excused(t)'
  BY <1>0 DEF RollsBack, Excused, Breaks, GoogleTypeOK
<1>5. Knows(t)'
  BY <1>0, <1>2, <1>3, <1>4 DEF Good, Knows, Fixed, Early, Signing, Creating, Linking, data
<1> QED
  BY <1>0, <1>1, <1>2, <1>5, GoesOnStep

\* The first insert of a transaction: its keys are free and become t's.
LEMMA FirstInsertStep ==
    ASSUME IInv, NEW t \in Callbacks, ~Waits(t, Wants(t)), UNCHANGED <<data, unique, faults>>,
           NEW step \in {"insert_identity", "link_mirror"},
           Become(t, [cb[t] EXCEPT !.pc = step, !.held = Wants(t)]),
           IF step = "insert_identity" THEN At(t, "insert_user") /\ user[cb[t].mail] = NULL
                                       ELSE At(t, "link_identity") /\ identity[cb[t].sub] = NULL
    PROVE  IInv'
<1>0. /\ GoogleTypeOK /\ Good(t) /\ cb[t] \in Callback
      /\ cb[t].used /\ cb[t].reply = "none"
  BY Served DEF At
<1>1. cb[t].sub \in Subs /\ cb[t].mail \in Mails
  BY <1>0 DEF Good, Knows, Signing, Linking, At
<1>2. Wants(t) = IF step = "insert_identity" THEN MailKey(cb[t].mail) \cup MirrorKey(t) ELSE SubKey(t)
  BY DEF Wants, At
<1>3. Wants(t) \in SUBSET Keys
  BY <1>1, <1>2 DEF Keys, MailKey, MirrorKey, SubKey
<1>4. [cb[t] EXCEPT !.pc = step, !.held = Wants(t)] \in Callback
  BY <1>0, <1>3 DEF Callback, Steps
<1>5. /\ cb' \in [Callbacks -> Callback]
      /\ \A u \in Callbacks \ {t} : cb'[u] = cb[u]
      /\ Fixed(t)
      /\ cb'[t].pc = step /\ cb'[t].held = Wants(t) /\ cb'[t].reply = cb[t].reply
  BY <1>0, <1>4 DEF Become, Fixed, GoogleTypeOK, Callback
<1>6. Private(t)
  BY <1>5 DEF Private, Fixed, data
<1>7. \A u \in Callbacks \ {t} : cb'[t].held \cap cb[u].held = {}
  BY <1>5 DEF Waits
<1>8. Locks(t)'
  BY <1>2, <1>5 DEF Locks, At, MailKey, MirrorKey, SubKey, Fixed, data
<1>9. Good(t)'
  BY <1>0, <1>5, <1>8
  DEF Good, Spent, Knows, Answered, At, Early, Signing, Creating, Linking, Fixed, data
<1> QED
  BY <1>6, <1>7, <1>9, PrivateStep

LEMMA InsertUserStep ==
    ASSUME IInv, NEW t \in Callbacks, InsertUser(t)
    PROVE  IInv'
<1>0. At(t, "insert_user") /\ ~Waits(t, Wants(t)) /\ UNCHANGED <<state, unique>>
  BY DEF InsertUser
<1>1. cb[t].sub \in Subs
  BY <1>0 DEF IInv, Good, Knows, Signing, At
<1> DEFINE refused == user[cb[t].mail] # NULL \/ (unique /\ Mirrored(cb[t].sub))
<1>2. CASE ~refused /\ Works /\ Become(t, [cb[t] EXCEPT !.pc = "insert_identity", !.held = Wants(t)])
           /\ UNCHANGED <<user, identity>>
  BY <1>0, <1>2, FirstInsertStep DEF Works, data
<1>3. CASE RollsBack(t, refused, "again_sub")
  <2>1. refused => identity[cb[t].sub] # NULL \/ user[cb[t].mail] # NULL
    BY <1>1, MirrorsHaveIdentities
  <2>2. refused \in BOOLEAN /\ cb[t].pc \in Creating
    BY <1>0 DEF Creating, At
  <2> QED
    BY <1>0, <1>3, <2>1, <2>2, RollbackStep
<1> QED
  BY <1>2, <1>3 DEF InsertUser

LEMMA LinkIdentityStep ==
    ASSUME IInv, NEW t \in Callbacks, LinkIdentity(t)
    PROVE  IInv'
<1>0. At(t, "link_identity") /\ ~Waits(t, Wants(t)) /\ UNCHANGED <<state, unique>>
  BY DEF LinkIdentity
<1> DEFINE refused == identity[cb[t].sub] # NULL
<1>1. CASE ~refused /\ Works /\ Become(t, [cb[t] EXCEPT !.pc = "link_mirror", !.held = Wants(t)])
           /\ UNCHANGED <<user, identity>>
  BY <1>0, <1>1, FirstInsertStep DEF Works, data
<1>2. CASE RollsBack(t, refused, "link_again")
  <2>1. refused \in BOOLEAN /\ cb[t].pc \in Linking
    BY <1>0 DEF Linking, At
  <2> QED
    BY <1>0, <1>2, <2>1, RollbackStep
<1> QED
  BY <1>1, <1>2 DEF LinkIdentity

LEMMA AbortDeadlockStep ==
    ASSUME IInv, NEW t \in Callbacks, AbortDeadlock(t)
    PROVE  IInv'
<1>0. GoogleTypeOK /\ Good(t) /\ cb[t] \in Callback
  BY DEF IInv, GoogleTypeOK
<1>1. cb[t].pc \in {"insert_identity", "link_mirror"}
  <2>1. cb[t].held # {}
    BY DEF AbortDeadlock, Deadlocked
  <2> QED
    BY <1>0, <2>1 DEF Good, Locks, At
<1>2. cb[t].used /\ cb[t].reply = "none"
  BY <1>1, Served
<1> DEFINE next == IF At(t, "insert_identity") THEN "again_sub" ELSE "link_again"
<1>3. [cb[t] EXCEPT !.pc = next, !.held = {}, !.victim = TRUE] \in Callback
  BY <1>0 DEF Callback, Steps
<1>4. /\ cb' \in [Callbacks -> Callback]
      /\ \A u \in Callbacks \ {t} : cb'[u] = cb[u]
      /\ cb'[t].pc = next /\ cb'[t].held = {} /\ cb'[t].victim
      /\ cb'[t].state = cb[t].state /\ cb'[t].used = cb[t].used /\ cb'[t].link = cb[t].link
      /\ cb'[t].sub = cb[t].sub /\ cb'[t].mail = cb[t].mail /\ cb'[t].reply = cb[t].reply
      /\ cb'[t].known = cb[t].known
  BY <1>0, <1>3 DEF AbortDeadlock, Become, GoogleTypeOK, Callback
<1>5. Private(t)
  BY <1>4 DEF Private, AbortDeadlock, data
<1>6. Good(t)'
  BY <1>0, <1>1, <1>2, <1>4
  DEF Good, Spent, Knows, Locks, Answered, Excused, At, Early, Signing, Creating, Linking, AbortDeadlock, data
<1> QED
  BY <1>4, <1>5, <1>6, PrivateStep

-----------------------------------------------------------------------------
(* Commits. *)

\* A transaction commits: it gives the subject, which is free, to an account that
\* it creates or that its callback links, and copies the subject there.
LEMMA CommitStep ==
    ASSUME IInv, NEW t \in Callbacks, NEW account \in Mails, NEW row \in UserRow,
           cb[t].pc \in {"insert_identity", "link_mirror"}, identity[cb[t].sub] = NULL,
           ~Waits(t, Wants(t)), UNCHANGED <<state, unique>>, faults' \in {faults, faults + 1},
           user' = [user EXCEPT ![account] = row],
           identity' = [identity EXCEPT ![cb[t].sub] = account],
           row.mirror = cb[t].sub,
           IF At(t, "insert_identity")
               THEN account = cb[t].mail /\ row.by = cb[t].sub
               ELSE account = cb[t].link /\ user[account] # NULL /\ row.by = user[account].by,
           cb' \in [Callbacks -> Callback],
           \A u \in Callbacks \ {t} : cb'[u] = cb[u],
           Fixed(t), cb'[t].held = {}, Good(t)'
    PROVE  IInv'
<1> DEFINE sub == cb[t].sub
<1>0. GoogleTypeOK /\ Good(t) /\ row # NULL
  BY RowAssumption DEF IInv
<1>1. cb[t].used /\ sub \in Subs
  BY <1>0 DEF Good, Spent, Knows, Signing, Linking
<1>2. At(t, "insert_identity") => user[account] = NULL /\ <<"email", account>> \in cb[t].held
  BY <1>0 DEF Good, Locks, MailKey, At
<1>3. At(t, "link_mirror") => state[cb[t].state].link = account /\ SubKey(t) \subseteq cb[t].held
  BY <1>0 DEF Good, Knows, Locks, Linking, At
<1>4. Grows
  BY <1>0, <1>1, <1>2 DEF Grows, GoogleTypeOK, At
<1>5. ASSUME NEW u \in Callbacks \ {t} PROVE Good(u)'
  <2>1. cb[u].held \cap cb[t].held = {} /\ Good(u)
    BY DEF IInv, KeysAreHeldOnce
  <2>2. At(u, "insert_identity") => user[cb[u].mail] = NULL /\ <<"email", cb[u].mail>> \in cb[u].held
    BY <2>1 DEF Good, Locks, MailKey, At
  <2>3. At(u, "insert_identity") => cb[u].mail # account
    BY <1>0, <1>2, <2>1, <2>2 DEF At
  <2>4. At(u, "insert_identity") => user'[cb[u].mail] = NULL
    BY <1>0, <2>1, <2>2, <2>3 DEF GoogleTypeOK, Good, Knows, Signing, At
  <2>5. At(u, "link_mirror") => <<"provider_user_id", cb[u].sub>> \in cb[u].held
    BY <2>1 DEF Good, Locks, SubKey, At
  <2>6. SubKey(t) \cap cb[u].held = {}
    <3>1. CASE At(t, "insert_identity")
      BY <3>1 DEF Waits, Wants, At
    <3>2. CASE At(t, "link_mirror")
      BY <1>3, <2>1, <3>2
    <3> QED
      BY <3>1, <3>2 DEF At
  <2>7. At(u, "link_mirror") => cb[u].sub # sub
    BY <2>5, <2>6 DEF SubKey
  <2>8. At(u, "link_mirror") => identity'[cb[u].sub] = NULL
    BY <1>0, <2>1, <2>7 DEF GoogleTypeOK, Good, Knows, Locks, Linking, At
  <2> QED
    BY <1>4, <2>4, <2>8, OthersStayGood
<1>6. GoogleTypeOK'
  BY <1>0, <1>1 DEF GoogleTypeOK
<1>7. LinksNameAccounts'
  BY <1>4, <1>6 DEF IInv, LinksNameAccounts, Grows, GoogleTypeOK, StateRow
<1>8. KeysAreHeldOnce'
  BY DEF IInv, KeysAreHeldOnce
<1>9. StatesAreSingleUse'
  BY DEF IInv, StatesAreSingleUse, Fixed
<1>10. ASSUME NEW s \in Subs, identity'[s] # NULL
       PROVE  /\ user'[identity'[s]] # NULL
              /\ \/ user'[identity'[s]].by = s
                 \/ \E u \in Callbacks :
                      cb'[u].used /\ cb'[u].sub = s /\ state'[cb'[u].state].link = identity'[s]
  <2>1. CASE s = sub
    <3>1. identity'[s] = account /\ user'[account] = row
      BY <1>0, <1>1, <2>1 DEF GoogleTypeOK
    <3>2. CASE At(t, "insert_identity")
      BY <1>0, <2>1, <3>1, <3>2
    <3>3. CASE At(t, "link_mirror")
      BY <1>0, <1>1, <1>3, <2>1, <3>1, <3>3 DEF Fixed
    <3> QED
      BY <3>2, <3>3 DEF At
  <2>2. CASE s # sub
    <3>1. identity'[s] = identity[s] /\ identity[s] \in Mails /\ user[identity[s]] # NULL
      BY <1>0, <1>10, <2>2 DEF GoogleTypeOK, IInv, NoMergeByMail
    <3>2. user'[identity[s]] # NULL /\ user'[identity[s]].by = user[identity[s]].by
      BY <1>4, <3>1 DEF Grows
    <3>3. CASE user[identity[s]].by = s
      BY <3>1, <3>2, <3>3
    <3>4. ASSUME NEW u \in Callbacks,
                 cb[u].used, cb[u].sub = s, state[cb[u].state].link = identity[s]
          PROVE  cb'[u].used /\ cb'[u].sub = s /\ state'[cb'[u].state].link = identity'[s]
      BY <3>1, <3>4 DEF Fixed
    <3> QED
      BY <1>10, <3>1, <3>2, <3>3, <3>4 DEF IInv, NoMergeByMail
  <2> QED
    BY <2>1, <2>2
<1>11. ASSUME NEW m \in Mails, user'[m] # NULL, user'[m].mirror # NULL
       PROVE  identity'[user'[m].mirror] = m
  <2>1. CASE m = account
    BY <1>0, <1>1, <2>1 DEF GoogleTypeOK
  <2>2. CASE m # account
    <3>1. user'[m] = user[m] /\ user[m].mirror \in Subs
      BY <1>0, <1>11, <2>2 DEF GoogleTypeOK, UserRow
    <3>2. identity[user[m].mirror] = m /\ m # NULL
      BY <1>11, <3>1, GoogleAssumption DEF IInv, NoMergeByMail
    <3> QED
      BY <1>0, <3>1, <3>2 DEF GoogleTypeOK
  <2> QED
    BY <2>1, <2>2
<1>12. NoMergeByMail'
  BY <1>10, <1>11 DEF NoMergeByMail
<1> QED
  BY <1>5, <1>6, <1>7, <1>8, <1>9, <1>12 DEF IInv

LEMMA InsertIdentityStep ==
    ASSUME IInv, NEW t \in Callbacks, InsertIdentity(t)
    PROVE  IInv'
<1> DEFINE sub == cb[t].sub
           account == cb[t].mail
           row == [by |-> sub, mirror |-> sub]
<1>0. /\ At(t, "insert_identity") /\ ~Waits(t, Wants(t)) /\ UNCHANGED <<state, unique>>
      /\ GoogleTypeOK /\ Good(t) /\ cb[t] \in Callback /\ cb[t].used /\ cb[t].reply = "none"
  BY Served DEF InsertIdentity, At
<1>1. sub \in Subs /\ account \in Mails /\ row \in UserRow
  BY <1>0 DEF Good, Knows, Signing, At, UserRow
<1>2. CASE identity[sub] = NULL /\ Commits(t, [user EXCEPT ![account] = row], account, "issue", "again_sub")
  <2>1. /\ user' = [user EXCEPT ![account] = row]
        /\ identity' = [identity EXCEPT ![sub] = account]
        /\ identity'[sub] = account /\ account # NULL
    BY <1>0, <1>1, <1>2, GoogleAssumption DEF Commits, GoogleTypeOK
  <2>2. CASE Works /\ Become(t, [cb[t] EXCEPT !.pc = "issue", !.account = account, !.held = {},
                                     !.reply = IF "issue" = "over" THEN "linked" ELSE @])
    <3>1. [cb[t] EXCEPT !.pc = "issue", !.account = account, !.held = {},
             !.reply = IF "issue" = "over" THEN "linked" ELSE @] \in Callback
      BY <1>0, <1>1 DEF Callback, Steps
    <3>2. /\ cb' \in [Callbacks -> Callback]
          /\ \A u \in Callbacks \ {t} : cb'[u] = cb[u]
          /\ Fixed(t)
          /\ cb'[t].pc = "issue" /\ cb'[t].held = {}
          /\ cb'[t].account = account /\ cb'[t].reply = cb[t].reply
      BY <1>0, <2>2, <3>1 DEF Become, Fixed, GoogleTypeOK, Callback
    <3>3. Good(t)'
      BY <1>0, <1>1, <2>1, <3>2
      DEF Good, Spent, Knows, Locks, Answered, At, Fixed, Early, Signing, Creating, Linking
    <3> QED
      BY <1>0, <1>1, <1>2, <2>1, <2>2, <3>2, <3>3, CommitStep DEF Works, At
  <2>3. CASE Breaks /\ Goes(t, "again_sub")
    <3>1. "again_sub" \in Steps
      BY DEF Steps
    <3>2. /\ cb' \in [Callbacks -> Callback]
          /\ \A u \in Callbacks \ {t} : cb'[u] = cb[u]
          /\ Fixed(t)
          /\ cb'[t].pc = "again_sub" /\ cb'[t].held = {} /\ cb'[t].reply = cb[t].reply
      BY <1>0, <2>3, <3>1, GoesOn
    <3>3. Good(t)'
      BY <1>0, <1>1, <2>1, <3>2
      DEF Good, Spent, Knows, Locks, Answered, At, Fixed, Early, Signing, Creating, Linking
    <3> QED
      BY <1>0, <1>1, <1>2, <2>1, <2>3, <3>2, <3>3, CommitStep DEF Breaks, At
  <2> QED
    BY <1>2, <2>2, <2>3 DEF Commits
<1>3. CASE RollsBack(t, identity[sub] # NULL, "again_sub")
  <2>1. cb[t].pc \in Creating /\ (identity[sub] # NULL) \in BOOLEAN
    BY <1>0 DEF Creating, At
  <2> QED
    BY <1>0, <1>3, <2>1, RollbackStep
<1> QED
  BY <1>2, <1>3 DEF InsertIdentity

LEMMA LinkMirrorStep ==
    ASSUME IInv, NEW t \in Callbacks, LinkMirror(t)
    PROVE  IInv'
<1> DEFINE sub == cb[t].sub
           account == cb[t].link
           row == [user[account] EXCEPT !.mirror = sub]
           refused == unique /\ Mirrored(sub) /\ user[account].mirror # sub
<1>0. /\ At(t, "link_mirror") /\ ~Waits(t, Wants(t)) /\ UNCHANGED <<state, unique>>
      /\ GoogleTypeOK /\ Good(t) /\ cb[t] \in Callback /\ cb[t].used /\ cb[t].reply = "none"
  BY Served DEF LinkMirror, At
<1>1. sub \in Subs /\ account \in Mails /\ identity[sub] = NULL
  BY <1>0 DEF Good, Knows, Locks, Linking, At
<1>2. user[account] # NULL /\ user[account] \in UserRow
  <2>1. cb[t].state \in States /\ state[cb[t].state] # NULL /\ state[cb[t].state].link = account
    BY <1>0 DEF Good, Spent, Knows, Linking, At
  <2> QED
    BY <1>0, <1>1, <2>1, GoogleAssumption DEF IInv, LinksNameAccounts, GoogleTypeOK
<1>3. row \in UserRow /\ row.mirror = sub /\ row.by = user[account].by
  BY <1>1, <1>2 DEF UserRow
<1>4. CASE Commits(t, [user EXCEPT ![account].mirror = sub], account, "over", "link_again")
  <2>1. /\ user' = [user EXCEPT ![account] = row]
        /\ identity' = [identity EXCEPT ![sub] = account]
        /\ identity'[sub] = account /\ account # NULL
    BY <1>0, <1>1, <1>4, GoogleAssumption DEF Commits, GoogleTypeOK
  <2>2. CASE Works /\ Become(t, [cb[t] EXCEPT !.pc = "over", !.account = account, !.held = {},
                                     !.reply = IF "over" = "over" THEN "linked" ELSE @])
    <3>1. [cb[t] EXCEPT !.pc = "over", !.account = account, !.held = {},
             !.reply = IF "over" = "over" THEN "linked" ELSE @] \in Callback
      BY <1>0, <1>1 DEF Callback, Steps, Replies
    <3>2. /\ cb' \in [Callbacks -> Callback]
          /\ \A u \in Callbacks \ {t} : cb'[u] = cb[u]
          /\ Fixed(t)
          /\ cb'[t].pc = "over" /\ cb'[t].held = {} /\ cb'[t].reply = "linked"
      BY <1>0, <2>2, <3>1 DEF Become, Fixed, GoogleTypeOK, Callback
    <3>3. Good(t)'
      BY <1>0, <1>1, <2>1, <3>2
      DEF Good, Spent, Knows, Locks, Answered, At, Fixed, Early, Signing, Creating, Linking
    <3> QED
      BY <1>0, <1>1, <1>2, <1>3, <2>1, <2>2, <3>2, <3>3, CommitStep DEF Works, At
  <2>3. CASE Breaks /\ Goes(t, "link_again")
    <3>1. "link_again" \in Steps
      BY DEF Steps
    <3>2. /\ cb' \in [Callbacks -> Callback]
          /\ \A u \in Callbacks \ {t} : cb'[u] = cb[u]
          /\ Fixed(t)
          /\ cb'[t].pc = "link_again" /\ cb'[t].held = {} /\ cb'[t].reply = cb[t].reply
      BY <1>0, <2>3, <3>1, GoesOn
    <3>3. Good(t)'
      BY <1>0, <1>1, <2>1, <3>2
      DEF Good, Spent, Knows, Locks, Answered, At, Fixed, Early, Signing, Creating, Linking
    <3> QED
      BY <1>0, <1>1, <1>2, <1>3, <2>1, <2>3, <3>2, <3>3, CommitStep DEF Breaks, At
  <2> QED
    BY <1>4, <2>2, <2>3 DEF Commits
<1>5. CASE RollsBack(t, refused, "link_again")
  <2>1. ~refused
    BY <1>1, MirrorsHaveIdentities
  <2>2. cb[t].pc \in Linking /\ refused \in BOOLEAN
    BY <1>0, <2>1 DEF Linking, At
  <2> QED
    BY <1>0, <1>5, <2>1, <2>2, RollbackStep
<1> QED
  BY <1>4, <1>5 DEF LinkMirror

-----------------------------------------------------------------------------
(* The states, registrations and a stopping server. *)

\* The UPDATE that consumes a state, whether or not its callback hears of it.
LEMMA ConsumeStep ==
    ASSUME IInv, NEW t \in Callbacks, At(t, "consume"), Consumable(cb[t].state),
           state' = [state EXCEPT ![cb[t].state].consumed = TRUE],
           UNCHANGED <<user, identity, unique>>, faults' \in {faults, faults + 1},
           cb' \in [Callbacks -> Callback],
           \A u \in Callbacks \ {t} : cb'[u] = cb[u],
           cb'[t].state = cb[t].state, cb'[t].sub = cb[t].sub, cb'[t].held = {}, Good(t)'
    PROVE  IInv'
<1> DEFINE st == cb[t].state
<1>0. /\ GoogleTypeOK /\ Good(t) /\ ~cb[t].used /\ st \in States /\ cb[t].sub = NULL
      /\ state[st] \in StateRow /\ state[st] # NULL /\ ~state[st].consumed
  BY DEF IInv, Good, Spent, Knows, Early, At, Consumable, GoogleTypeOK
<1>1. state'[st] \in StateRow /\ state'[st].link = state[st].link /\ state'[st].consumed
  BY <1>0 DEF GoogleTypeOK, StateRow
<1>2. \A s \in States \ {st} : state'[s] = state[s]
  BY <1>0 DEF GoogleTypeOK
<1>3. Grows
  BY <1>1, <1>2, RowAssumption DEF Grows
<1>4. ASSUME NEW u \in Callbacks \ {t} PROVE Good(u)'
  BY <1>3, <1>4, OthersStayGood DEF IInv, Good, Locks
<1>5. GoogleTypeOK'
  <2>1. state' \in [States -> StateRow \cup {NULL}]
    BY <1>0, <1>1, <1>2 DEF GoogleTypeOK
  <2> QED
    BY <1>0, <2>1 DEF GoogleTypeOK
<1>6. LinksNameAccounts'
  BY <1>0, <1>1, <1>2 DEF IInv, LinksNameAccounts
<1>7. KeysAreHeldOnce'
  BY DEF IInv, KeysAreHeldOnce
<1>8. NoMergeByMail'
  <2>1. ASSUME NEW u \in Callbacks, cb[u].used
        PROVE  u # t /\ state'[cb[u].state].link = state[cb[u].state].link
    BY <1>0, <1>1, <1>2, <2>1 DEF IInv, Good, Spent
  <2> QED
    BY <2>1 DEF IInv, NoMergeByMail
<1>9. StatesAreSingleUse'
  <2>1. \A u \in Callbacks \ {t} : cb[u].used => cb[u].state # st
    BY <1>0 DEF IInv, Good, Spent
  <2> QED
    BY <2>1 DEF IInv, StatesAreSingleUse
<1> QED
  BY <1>4, <1>5, <1>6, <1>7, <1>8, <1>9 DEF IInv

LEMMA ConsumeOAuthStateStep ==
    ASSUME IInv, NEW t \in Callbacks, ConsumeOAuthState(t)
    PROVE  IInv'
<1> DEFINE st == cb[t].state
           update == state' = [state EXCEPT ![st].consumed = TRUE]
<1>0. /\ At(t, "consume") /\ UNCHANGED <<user, identity, unique>>
      /\ GoogleTypeOK /\ Good(t) /\ cb[t] \in Callback /\ ~cb[t].used /\ st \in States
      /\ cb[t].sub = NULL /\ cb[t].reply = "none" /\ cb[t].held = {}
  BY DEF ConsumeOAuthState, IInv, GoogleTypeOK, Good, Spent, Knows, Locks, Answered, Early, At
<1>1. ASSUME Consumable(st), update
      PROVE  state'[st] # NULL /\ state'[st].consumed
  <2>1. state[st] \in StateRow
    BY <1>0, <1>1 DEF Consumable, GoogleTypeOK
  <2>2. state'[st] = [state[st] EXCEPT !.consumed = TRUE]
    BY <1>0, <1>1 DEF GoogleTypeOK
  <2>3. state'[st] \in StateRow /\ state'[st].consumed
    BY <2>1, <2>2 DEF StateRow
  <2> QED
    BY <2>3, RowAssumption
<1>2. CASE Works /\ Consumable(st) /\ update /\ Become(t, [cb[t] EXCEPT !.pc = "read", !.used = TRUE])
  <2>1. [cb[t] EXCEPT !.pc = "read", !.used = TRUE] \in Callback
    BY <1>0 DEF Callback, Steps
  <2>2. /\ cb' \in [Callbacks -> Callback]
        /\ \A u \in Callbacks \ {t} : cb'[u] = cb[u]
        /\ cb'[t].pc = "read" /\ cb'[t].used /\ cb'[t].state = cb[t].state
        /\ cb'[t].sub = cb[t].sub /\ cb'[t].held = cb[t].held /\ cb'[t].reply = cb[t].reply
    BY <1>0, <1>2, <2>1 DEF Become, GoogleTypeOK, Callback
  <2>3. Good(t)'
    BY <1>0, <1>1, <1>2, <2>2 DEF Good, Spent, Knows, Locks, Answered, Early, Signing, Creating, Linking, At
  <2> QED
    BY <1>0, <1>2, <2>2, <2>3, ConsumeStep DEF Works
<1>3. CASE Works /\ UNCHANGED state /\ Answers(t, "state_invalid")
  <2>1. "state_invalid" \in Replies
    BY DEF Replies
  <2>2. Answered(t)'
    BY <1>0, <1>3, <2>1, AnswersNow DEF Answered
  <2> QED
    BY <1>0, <1>3, <2>1, <2>2, AnswersStep DEF Works, data
<1>4. CASE Breaks /\ UNCHANGED state /\ Answers(t, "failed")
  BY <1>0, <1>4, FailsStep DEF data
<1>5. CASE Breaks /\ Consumable(st) /\ update /\ Answers(t, "failed")
  <2>1. "failed" \in Replies
    BY DEF Replies
  <2>2. /\ cb' \in [Callbacks -> Callback]
        /\ \A u \in Callbacks \ {t} : cb'[u] = cb[u]
        /\ Fixed(t)
        /\ cb'[t].pc = "over" /\ cb'[t].held = {} /\ cb'[t].reply = "failed"
    BY <1>0, <1>5, <2>1, AnswersNow
  <2>3. Good(t)'
    BY <1>0, <1>5, <2>2
    DEF Good, Spent, Knows, Locks, Answered, Excused, Early, Signing, Creating, Linking, At, Fixed, Breaks,
        GoogleTypeOK
  <2> QED
    BY <1>0, <1>5, <2>2, <2>3, ConsumeStep DEF Breaks, Fixed
<1> QED
  BY <1>2, <1>3, <1>4, <1>5 DEF ConsumeOAuthState

\* Steps that leave every callback as it is and only add to the tables.
LEMMA TablesGrow ==
    ASSUME IInv, Grows, UNCHANGED <<identity, cb, unique, faults>>,
           user' \in [Mails -> UserRow \cup {NULL}],
           state' \in [States -> StateRow \cup {NULL}],
           \A m \in Mails : user[m] # NULL => user'[m] = user[m],
           \A m \in Mails : user'[m] # NULL /\ user[m] = NULL =>
               user'[m].mirror = NULL /\ \A t \in Callbacks : <<"email", m>> \notin cb[t].held,
           \A st \in States : state'[st] # NULL /\ state[st] = NULL /\ state'[st].link # NULL =>
               user[state'[st].link] # NULL
    PROVE  IInv'
<1>1. GoogleTypeOK'
  BY DEF IInv, GoogleTypeOK
<1>2. ASSUME NEW u \in Callbacks PROVE Good(u)'
  <2>1. Good(u) /\ cb[u] \in Callback
    BY DEF IInv, GoogleTypeOK
  <2>2. At(u, "insert_identity") =>
          cb[u].mail \in Mails /\ user[cb[u].mail] = NULL /\ <<"email", cb[u].mail>> \in cb[u].held
    BY <2>1 DEF Good, Knows, Locks, MailKey, Signing, At
  <2>3. At(u, "insert_identity") => user'[cb[u].mail] = NULL
    BY <2>2
  <2>4. At(u, "link_mirror") => identity'[cb[u].sub] = NULL
    BY <2>1 DEF Good, Locks, At
  <2> QED
    BY <2>3, <2>4, OthersStayGood
<1>3. LinksNameAccounts'
  <2>1. ASSUME NEW st \in States, state'[st] # NULL, state'[st].link # NULL
        PROVE  user'[state'[st].link] # NULL
    <3>1. state'[st].link \in Mails
      BY <2>1 DEF StateRow
    <3>2. user[state'[st].link] # NULL
      BY <2>1 DEF IInv, LinksNameAccounts, Grows
    <3> QED
      BY <3>1, <3>2
  <2> QED
    BY <2>1 DEF LinksNameAccounts
<1>4. KeysAreHeldOnce' /\ StatesAreSingleUse'
  BY DEF IInv, KeysAreHeldOnce, StatesAreSingleUse
<1>5. NoMergeByMail'
  <2>1. ASSUME NEW u \in Callbacks, cb[u].used
        PROVE  state'[cb[u].state].link = state[cb[u].state].link
    BY <2>1 DEF IInv, Good, Spent, Grows
  <2>2. ASSUME NEW s \in Subs, identity[s] # NULL
        PROVE  user'[identity[s]] # NULL /\ user'[identity[s]].by = user[identity[s]].by
    BY <2>2 DEF IInv, GoogleTypeOK, NoMergeByMail, Grows
  <2>3. ASSUME NEW s \in Subs, identity[s] # NULL
        PROVE  \/ user'[identity[s]].by = s
               \/ \E u \in Callbacks :
                    cb[u].used /\ cb[u].sub = s /\ state'[cb[u].state].link = identity[s]
    BY <2>1, <2>2, <2>3 DEF IInv, NoMergeByMail
  <2>4. ASSUME NEW m \in Mails, user'[m] # NULL, user'[m].mirror # NULL
        PROVE  identity[user'[m].mirror] = m
    BY <2>4 DEF IInv, NoMergeByMail
  <2> QED
    BY <2>2, <2>3, <2>4 DEF NoMergeByMail
<1> QED
  BY <1>1, <1>2, <1>3, <1>4, <1>5 DEF IInv

LEMMA StateSteps ==
    ASSUME IInv, NEW st \in States,
           ExpireState(st) \/ (\E link \in Mails \cup {NULL} : StartLogin(st, link))
    PROVE  IInv'
<1>0. GoogleTypeOK
  BY DEF IInv
<1>1. CASE ExpireState(st)
  <2>1. /\ state[st] \in StateRow /\ state' = [state EXCEPT ![st].expired = TRUE]
        /\ UNCHANGED <<user, identity, cb, unique, faults>> /\ state[st] # NULL
    BY <1>0, <1>1 DEF ExpireState, GoogleTypeOK
  <2>2. /\ state'[st] \in StateRow /\ state'[st].link = state[st].link
        /\ state'[st].consumed = state[st].consumed
        /\ \A s \in States \ {st} : state'[s] = state[s]
        /\ state' \in [States -> StateRow \cup {NULL}]
    BY <1>0, <2>1 DEF GoogleTypeOK, StateRow
  <2>3. Grows
    BY <2>1, <2>2, RowAssumption DEF Grows
  <2> QED
    BY <1>0, <2>1, <2>2, <2>3, TablesGrow DEF GoogleTypeOK
<1>2. ASSUME NEW link \in Mails \cup {NULL}, StartLogin(st, link)
      PROVE  IInv'
  <2>1. [link |-> link, consumed |-> FALSE, expired |-> FALSE] \in StateRow
    BY DEF StateRow
  <2>2. /\ UNCHANGED <<user, identity, cb, unique, faults>> /\ state[st] = NULL
        /\ state'[st].link = link
        /\ \A s \in States \ {st} : state'[s] = state[s]
        /\ state' \in [States -> StateRow \cup {NULL}]
    BY <1>0, <1>2, <2>1 DEF StartLogin, GoogleTypeOK
  <2>3. Grows
    BY <2>2 DEF Grows
  <2>4. link # NULL => user[link] # NULL
    BY <1>2 DEF StartLogin
  <2> QED
    BY <1>0, <2>2, <2>3, <2>4, TablesGrow DEF GoogleTypeOK
<1> QED
  BY <1>1, <1>2

LEMMA RegisterStep ==
    ASSUME IInv, NEW m \in Mails, Register(m)
    PROVE  IInv'
<1>0. GoogleTypeOK
  BY DEF IInv
<1>1. [by |-> "password", mirror |-> NULL] \in UserRow
  BY DEF UserRow
<1>2. /\ UNCHANGED <<identity, state, cb, unique, faults>> /\ user[m] = NULL
      /\ user'[m].mirror = NULL
      /\ \A n \in Mails \ {m} : user'[n] = user[n]
      /\ user' \in [Mails -> UserRow \cup {NULL}]
      /\ \A t \in Callbacks : <<"email", m>> \notin cb[t].held
  BY <1>0, <1>1 DEF Register, GoogleTypeOK, MailKey
<1>3. Grows
  BY <1>2 DEF Grows
<1> QED
  BY <1>0, <1>2, <1>3, TablesGrow DEF GoogleTypeOK

LEMMA CrashStep ==
    ASSUME IInv, Crash
    PROVE  IInv'
<1>0. GoogleTypeOK /\ UNCHANGED <<user, identity, state, unique>> /\ faults' \in {faults, faults + 1}
  BY DEF IInv, Crash, Breaks, data
<1>1. ASSUME NEW t \in Callbacks
      PROVE  /\ cb'[t] \in Callback
             /\ cb'[t].state = cb[t].state /\ cb'[t].used = cb[t].used
             /\ cb'[t].sub = cb[t].sub /\ cb'[t].held \subseteq cb[t].held
             /\ \/ cb'[t] = cb[t] /\ cb[t].pc \in {"idle", "over"}
                \/ cb'[t].pc = "over" /\ cb'[t].held = {} /\ cb'[t].reply = cb[t].reply
                   /\ cb[t].pc # "over"
  <2>0. cb[t] \in Callback
    BY <1>0 DEF GoogleTypeOK
  <2>1. [cb[t] EXCEPT !.pc = "over", !.held = {}] \in Callback
    BY <2>0 DEF Callback, Steps
  <2>2. CASE cb[t].pc \in {"idle", "over"}
    <3>1. cb'[t] = cb[t]
      BY <2>2 DEF Crash
    <3> QED
      BY <2>0, <2>2, <3>1
  <2>3. CASE cb[t].pc \notin {"idle", "over"}
    <3>1. cb'[t] = [cb[t] EXCEPT !.pc = "over", !.held = {}]
      BY <2>3 DEF Crash
    <3> QED
      BY <2>0, <2>1, <2>3, <3>1 DEF Callback
  <2> QED
    BY <2>2, <2>3
<1>2. GoogleTypeOK'
  <2>1. cb' \in [Callbacks -> Callback]
    BY <1>1 DEF Crash
  <2> QED
    BY <1>0, <2>1 DEF GoogleTypeOK
<1>3. Grows
  BY <1>0 DEF Grows
<1>4. ASSUME NEW t \in Callbacks PROVE Good(t)'
  <2>1. CASE cb'[t] = cb[t] /\ cb[t].pc \in {"idle", "over"}
    BY <1>3, <2>1, OthersStayGood DEF At
  <2>2. CASE cb'[t].pc = "over" /\ cb'[t].held = {} /\ cb'[t].reply = cb[t].reply /\ cb[t].pc # "over"
    <3>1. Good(t)
      BY DEF IInv
    <3> QED
      BY <1>0, <1>1, <2>2, <3>1
      DEF Good, Spent, Knows, Locks, Answered, Early, Signing, Creating, Linking, At
  <2> QED
    BY <1>1, <2>1, <2>2
<1>5. LinksNameAccounts'
  BY <1>0 DEF IInv, LinksNameAccounts
<1>6. KeysAreHeldOnce'
  BY <1>1 DEF IInv, KeysAreHeldOnce
<1>7. NoMergeByMail' /\ StatesAreSingleUse'
  BY <1>0, <1>1 DEF IInv, NoMergeByMail, StatesAreSingleUse
<1> QED
  BY <1>2, <1>4, <1>5, <1>6, <1>7 DEF IInv

-----------------------------------------------------------------------------
(* The invariant and the theorems. *)

LEMMA InitInv ==
    ASSUME GoogleInit
    PROVE  IInv
<1>1. NewCallback \in Callback
  BY DEF NewCallback, Callback, Steps, Replies
<1>2. GoogleTypeOK
  BY <1>1 DEF GoogleInit, GoogleTypeOK
<1>3. ASSUME NEW t \in Callbacks PROVE Good(t)
  <2>1. cb[t] = NewCallback
    BY DEF GoogleInit
  <2> QED
    BY <2>1 DEF NewCallback, Good, Spent, Knows, Locks, Answered, At, Early, Signing, Creating, Linking
<1> QED
  BY <1>2, <1>3
  DEF IInv, GoogleInit, NewCallback, LinksNameAccounts, KeysAreHeldOnce, NoMergeByMail,
      StatesAreSingleUse

LEMMA NextInv == IInv /\ [GoogleNext]_googleVars => IInv'
<1> SUFFICES ASSUME IInv, [GoogleNext]_googleVars
             PROVE  IInv'
  OBVIOUS
<1>1. ASSUME NEW t \in Callbacks, Step(t)
      PROVE  IInv'
  BY <1>1, ArriveStep, ConsumeOAuthStateStep, LookupSteps, InsertUserStep, InsertIdentityStep,
     LinkLookupSteps, LinkIdentityStep, LinkMirrorStep, AbortDeadlockStep DEF Step
<1>2. CASE UNCHANGED googleVars
  <2>1. Grows
    BY <1>2 DEF Grows, googleVars
  <2> QED
    BY <1>2, <2>1, TablesGrow DEF googleVars, IInv, GoogleTypeOK
<1> QED
  BY <1>1, <1>2, StateSteps, RegisterStep, CrashStep DEF GoogleNext

\* The inductive invariant holds in every reachable state.
THEOREM Invariance == GoogleSpec => []IInv
BY InitInv, NextInv, PTL DEF GoogleSpec

\* Types: every row and callback is well formed.
THEOREM GoogleTypes == GoogleSpec => []GoogleTypeOK
BY Invariance, PTL DEF IInv

\* ConsumeOAuthState lets one callback past each state, however many present it.
THEOREM StateIsSpentOnce == GoogleSpec => []StatesAreSingleUse
BY Invariance, PTL DEF IInv

\* resolveUser never joins a subject to an account that only shares its address,
\* and google_sub copies no subject of another account (LinkUserGoogleSub).
THEOREM AddressesDoNotMerge == GoogleSpec => []NoMergeByMail
BY Invariance, PTL DEF IInv

\* Callbacks answer what the checks before the race would have answered.
THEOREM AnswersDoNotLie == GoogleSpec => []AnswersAreTrue
<1>1. IInv => AnswersAreTrue
  BY GoogleAssumption DEF IInv, Good, Answered, Excused, AnswersAreTrue
<1> QED
  BY <1>1, Invariance, PTL

==============================================================================
