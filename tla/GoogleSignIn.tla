---------------------------- MODULE GoogleSignIn ----------------------------
(***************************************************************************)
(* Continue with Google: OAuth states, the callbacks that spend them, and  *)
(* the accounts and external identities that the callbacks create, link    *)
(* and resolve, beside registrations with a password.  An action is one    *)
(* statement or one call to Google.  The two transactions of the           *)
(* repository run statement by statement: until it commits, a transaction  *)
(* holds the unique keys it inserted, and others wait for them.            *)
(*                                                                         *)
(* An account is named by its address: users.email is unique and no code   *)
(* changes it or deletes a user.                                           *)
(***************************************************************************)
EXTENDS Naturals, FiniteSets

CONSTANTS
    Callbacks,   \* requests to the callback endpoints
    States,      \* OAuth states
    Subs,        \* subjects of Google accounts
    Mails,       \* addresses, and the accounts that have them
    Identities,  \* what an ID token may say: <<subject, address>>
    MaxFaults,   \* bound on failing statements
    NULL

ASSUME GoogleAssumption ==
    /\ NULL \notin Subs \cup Mails \cup States \cup {"password"}
    /\ "password" \notin Subs
    /\ Identities \subseteq Subs \X Mails
    /\ MaxFaults \in Nat

\* by: the subject whose sign-in created the account; mirror: users.google_sub.
UserRow == [by : Subs \cup {"password"}, mirror : Subs \cup {NULL}]
StateRow == [link : Mails \cup {NULL}, consumed : BOOLEAN, expired : BOOLEAN]

ASSUME RowAssumption == NULL \notin UserRow \cup StateRow

VARIABLES
    user,      \* users: who created the account, and its google_sub
    identity,  \* external_identities: the account of a subject
    state,     \* oauth_states
    cb,        \* the local state of each callback
    unique,    \* idx_users_google_sub is the unique index
    faults     \* statements that failed so far

googleVars == <<user, identity, state, cb, unique, faults>>
data == <<user, identity, state>>

Steps ==
    {"idle", "consume", "read", "exchange", "over",
     "by_sub", "by_mail", "insert_user", "insert_identity", "again_sub", "again_mail", "issue",
     "link_user", "link_sub", "link_identity", "link_mirror", "link_again"}
Replies == {"none", "state_invalid", "exchange_failed", "account_exists", "identity_taken", "failed",
            "signed_in", "linked"}
Keys == ({"email"} \X Mails) \cup ({"google_sub", "provider_user_id"} \X Subs)

\* used: it won its state; link: the account that links, or NULL; sub and mail:
\* what Google says; account: whom it signs in; held: the keys its transaction
\* has inserted; victim: the database aborted it to end a deadlock; known (history):
\* the subject had an account already when Google named it.
Callback ==
    [pc : Steps, state : States \cup {NULL}, used : BOOLEAN, link : Mails \cup {NULL},
     sub : Subs \cup {NULL}, mail : Mails \cup {NULL}, account : Mails \cup {NULL},
     held : SUBSET Keys, victim : BOOLEAN, reply : Replies, known : BOOLEAN]

NewCallback == [pc |-> "idle", state |-> NULL, used |-> FALSE, link |-> NULL, sub |-> NULL, mail |-> NULL,
    account |-> NULL, held |-> {}, victim |-> FALSE, reply |-> "none", known |-> FALSE]

At(t, step) == cb[t].pc = step
Become(t, new) == cb' = [cb EXCEPT ![t] = new]
Goes(t, step) == Become(t, [cb[t] EXCEPT !.pc = step, !.held = {}])
Resolved(t, account, step) == Become(t, [cb[t] EXCEPT !.pc = step, !.account = account])
Answers(t, reply) == Become(t, [cb[t] EXCEPT !.pc = "over", !.held = {}, !.reply = reply])

Works == UNCHANGED faults
Breaks == faults < MaxFaults /\ faults' = faults + 1

-----------------------------------------------------------------------------
(* The states. *)

\* StartLogin: GoogleLogin starts one for nobody, GoogleLinkStart for the caller.
StartLogin(st, link) ==
    /\ state[st] = NULL
    /\ link # NULL => user[link] # NULL
    /\ state' = [state EXCEPT ![st] = [link |-> link, consumed |-> FALSE, expired |-> FALSE]]
    /\ UNCHANGED <<user, identity, cb, unique, faults>>

ExpireState(st) ==
    /\ state[st] # NULL /\ ~state[st].expired
    /\ state' = [state EXCEPT ![st].expired = TRUE]
    /\ UNCHANGED <<user, identity, cb, unique, faults>>

\* GoogleCallback: a browser comes back with a state; any may come, and again.
Arrive(t) ==
    /\ At(t, "idle")
    /\ \E st \in States : Become(t, [cb[t] EXCEPT !.pc = "consume", !.state = st])
    /\ UNCHANGED <<data, unique, faults>>

\* Mutant: consumed_at is set again.
Consumable_again(st) == state[st] # NULL /\ ~state[st].expired

Consumable(st) == state[st] # NULL /\ ~state[st].consumed /\ ~state[st].expired

\* ConsumeOAuthState is an UPDATE and a SELECT.
ConsumeOAuthState(t) ==
    LET st == cb[t].state
        update == state' = [state EXCEPT ![st].consumed = TRUE]
    IN  /\ At(t, "consume")
        /\ \/ /\ Works /\ Consumable(st) /\ update
              /\ Become(t, [cb[t] EXCEPT !.pc = "read", !.used = TRUE])
           \/ Works /\ ~Consumable(st) /\ UNCHANGED state /\ Answers(t, "state_invalid")
           \/ Breaks /\ (UNCHANGED state \/ (Consumable(st) /\ update)) /\ Answers(t, "failed")
        /\ UNCHANGED <<user, identity, unique>>

ReadState(t) ==
    /\ At(t, "read")
    /\ \/ Works /\ Become(t, [cb[t] EXCEPT !.pc = "exchange", !.link = state[cb[t].state].link])
       \/ Breaks /\ Answers(t, "failed")
    /\ UNCHANGED <<data, unique>>

\* ExchangeForRedirect: the code is exchanged and the ID token is verified.
Exchange(t) ==
    /\ At(t, "exchange")
    /\ \/ \E id \in Identities : Become(t, [cb[t] EXCEPT !.sub = id[1], !.mail = id[2],
             !.known = identity[id[1]] # NULL,
             !.pc = IF cb[t].link = NULL THEN "by_sub" ELSE "link_user"])
       \/ Answers(t, "exchange_failed")
    /\ UNCHANGED <<data, unique, faults>>

-----------------------------------------------------------------------------
(* Transactions. *)

\* t waits while another transaction holds a key that it wants.
Waits(t, keys) == \E u \in Callbacks \ {t} : keys \cap cb[u].held # {}

Mirrored(sub) == \E a \in Mails : user[a] # NULL /\ user[a].mirror = sub
MirrorKey(t) == IF unique THEN {<<"google_sub", cb[t].sub>>} ELSE {}
SubKey(t) == {<<"provider_user_id", cb[t].sub>>}
MailKey(m) == {<<"email", m>>}

\* A transaction ends: its statement is refused by a unique key or fails, and it
\* is rolled back; or it commits, and the acknowledgement may be lost.
RollsBack(t, refused, next) ==
    /\ (refused /\ Works) \/ Breaks
    /\ Goes(t, next) /\ UNCHANGED <<user, identity>>

Commits(t, users, account, next, retry) ==
    /\ user' = users
    /\ identity' = [identity EXCEPT ![cb[t].sub] = account]
    /\ \/ Works /\ Become(t, [cb[t] EXCEPT !.pc = next, !.account = account, !.held = {},
                                !.reply = IF next = "over" THEN "linked" ELSE @])
       \/ Breaks /\ Goes(t, retry)

\* The keys the next statement of a transaction inserts.
Wants(t) ==
    IF At(t, "insert_user") THEN MailKey(cb[t].mail) \cup MirrorKey(t)
    ELSE IF cb[t].pc \in {"insert_identity", "link_identity"} THEN SubKey(t)
    ELSE IF At(t, "link_mirror") THEN MirrorKey(t)
    ELSE {}

\* PostgreSQL ends a deadlock by aborting a transaction of the circle.
Deadlocked(t) == \E u \in Callbacks \ {t} :
    Wants(t) \cap cb[u].held # {} /\ Wants(u) \cap cb[t].held # {}

AbortDeadlock(t) ==
    /\ Deadlocked(t)
    /\ Become(t, [cb[t] EXCEPT !.pc = IF At(t, "insert_identity") THEN "again_sub" ELSE "link_again",
          !.held = {}, !.victim = TRUE])
    /\ UNCHANGED <<data, unique, faults>>

-----------------------------------------------------------------------------
(* Sign-in: resolveUser. *)

\* FindUserByGoogleSub; an identity and its account are never removed.
ResolveBySub(t) ==
    /\ At(t, "by_sub")
    /\ LET account == identity[cb[t].sub] IN
       \/ Works /\ account # NULL /\ Resolved(t, account, "issue")
       \/ Works /\ account = NULL /\ Goes(t, "by_mail")
       \/ Breaks /\ Answers(t, "failed")
    /\ UNCHANGED <<data, unique>>

\* Mutant: a verified address joins the subject to the account that has it.
RefuseMail_merge(t) ==
    /\ At(t, "by_mail") /\ Works
    /\ IF user[cb[t].mail] # NULL
       THEN Become(t, [cb[t] EXCEPT !.pc = "link_identity", !.link = cb[t].mail])
       ELSE Goes(t, "insert_user")
    /\ UNCHANGED <<data, unique>>

\* An address that is taken is not merged: its owner has to link.
RefuseMail(t) ==
    /\ At(t, "by_mail")
    /\ \/ Works /\ user[cb[t].mail] # NULL /\ Answers(t, "account_exists")
       \/ Works /\ user[cb[t].mail] = NULL /\ Goes(t, "insert_user")
       \/ Breaks /\ Answers(t, "failed")
    /\ UNCHANGED <<data, unique>>

\* CreateUserWithGoogleIdentity: the user, then the identity.
InsertUser(t) ==
    /\ At(t, "insert_user") /\ ~Waits(t, Wants(t))
    /\ LET refused == user[cb[t].mail] # NULL \/ (unique /\ Mirrored(cb[t].sub)) IN
       \/ ~refused /\ Works /\ Become(t, [cb[t] EXCEPT !.pc = "insert_identity", !.held = Wants(t)])
          /\ UNCHANGED <<user, identity>>
       \/ RollsBack(t, refused, "again_sub")
    /\ UNCHANGED <<state, unique>>

InsertIdentity(t) ==
    /\ At(t, "insert_identity") /\ ~Waits(t, Wants(t))
    /\ LET sub == cb[t].sub
           account == cb[t].mail
       IN  \/ /\ identity[sub] = NULL
              /\ Commits(t, [user EXCEPT ![account] = [by |-> sub, mirror |-> sub]], account, "issue", "again_sub")
           \/ RollsBack(t, identity[sub] # NULL, "again_sub")
    /\ UNCHANGED <<state, unique>>

\* The create failed: somebody else created this identity, or took the address.
\* A lookup that fails counts as not found.
ResolveAgain(t) ==
    /\ At(t, "again_sub")
    /\ LET account == identity[cb[t].sub] IN
       \/ Works /\ account # NULL /\ Resolved(t, account, "issue")
       \/ Works /\ account = NULL /\ Goes(t, "again_mail")
       \/ Breaks /\ Goes(t, "again_mail")
    /\ UNCHANGED <<data, unique>>

\* Mutant: the loser of the address is given the account of the winner.
RefuseMailAgain_merge(t) ==
    /\ At(t, "again_mail") /\ Works
    /\ IF user[cb[t].mail] # NULL THEN Resolved(t, cb[t].mail, "issue") ELSE Answers(t, "failed")
    /\ UNCHANGED <<data, unique>>

RefuseMailAgain(t) ==
    /\ At(t, "again_mail")
    /\ \/ Works /\ Answers(t, IF user[cb[t].mail] # NULL THEN "account_exists" ELSE "failed")
       \/ Breaks /\ Answers(t, "failed")
    /\ UNCHANGED <<data, unique>>

\* issueSession; the claim of a guest order that follows is best effort.
IssueSession(t) ==
    /\ At(t, "issue")
    /\ \/ Works /\ Answers(t, "signed_in")
       \/ Breaks /\ Answers(t, "failed")
    /\ UNCHANGED <<data, unique>>

-----------------------------------------------------------------------------
(* Linking: LinkAccount. *)

FindLinkUser(t) ==
    /\ At(t, "link_user")
    /\ \/ Works /\ Goes(t, "link_sub")
       \/ Breaks /\ Answers(t, "failed")
    /\ UNCHANGED <<data, unique>>

\* The answer when the subject is linked already.
LinkedTo(t, account) == Answers(t, IF account = cb[t].link THEN "linked" ELSE "identity_taken")

FindLinked(t) ==
    /\ At(t, "link_sub")
    /\ LET account == identity[cb[t].sub] IN
       \/ Works /\ account # NULL /\ LinkedTo(t, account)
       \/ Works /\ account = NULL /\ Goes(t, "link_identity")
       \/ Breaks /\ Answers(t, "failed")
    /\ UNCHANGED <<data, unique>>

\* LinkUserGoogleSub: the identity, then users.google_sub.
LinkIdentity(t) ==
    /\ At(t, "link_identity") /\ ~Waits(t, Wants(t))
    /\ LET refused == identity[cb[t].sub] # NULL IN
       \/ ~refused /\ Works /\ Become(t, [cb[t] EXCEPT !.pc = "link_mirror", !.held = Wants(t)])
          /\ UNCHANGED <<user, identity>>
       \/ RollsBack(t, refused, "link_again")
    /\ UNCHANGED <<state, unique>>

LinkMirror(t) ==
    /\ At(t, "link_mirror") /\ ~Waits(t, Wants(t))
    /\ LET account == cb[t].link
           refused == unique /\ Mirrored(cb[t].sub) /\ user[account].mirror # cb[t].sub
       IN  \/ /\ ~refused
              /\ Commits(t, [user EXCEPT ![account].mirror = cb[t].sub], account, "over", "link_again")
           \/ RollsBack(t, refused, "link_again")
    /\ UNCHANGED <<state, unique>>

FindLinkedAgain(t) ==
    /\ At(t, "link_again")
    /\ LET account == identity[cb[t].sub] IN
       \/ Works /\ account # NULL /\ LinkedTo(t, account)
       \/ Works /\ account = NULL /\ Answers(t, "failed")
       \/ Breaks /\ Answers(t, "failed")
    /\ UNCHANGED <<data, unique>>

-----------------------------------------------------------------------------
\* Register: one INSERT, which waits for a transaction that has the address.
Register(m) ==
    /\ user[m] = NULL
    /\ \A t \in Callbacks : MailKey(m) \cap cb[t].held = {}
    /\ user' = [user EXCEPT ![m] = [by |-> "password", mirror |-> NULL]]
    /\ UNCHANGED <<identity, state, cb, unique, faults>>

\* The server stops: callbacks get no answer and open transactions are undone.
Crash ==
    /\ Breaks
    /\ cb' = [t \in Callbacks |-> IF cb[t].pc \in {"idle", "over"} THEN cb[t]
                                  ELSE [cb[t] EXCEPT !.pc = "over", !.held = {}]]
    /\ UNCHANGED <<data, unique>>

GoogleInit ==
    /\ user = [m \in Mails |-> NULL]
    /\ identity = [s \in Subs |-> NULL]
    /\ state = [st \in States |-> NULL]
    /\ cb = [t \in Callbacks |-> NewCallback]
    /\ unique \in BOOLEAN
    /\ faults = 0

Step(t) ==
    \/ Arrive(t) \/ ConsumeOAuthState(t) \/ ReadState(t) \/ Exchange(t)
    \/ ResolveBySub(t) \/ RefuseMail(t) \/ InsertUser(t) \/ InsertIdentity(t)
    \/ ResolveAgain(t) \/ RefuseMailAgain(t) \/ IssueSession(t)
    \/ FindLinkUser(t) \/ FindLinked(t) \/ LinkIdentity(t) \/ LinkMirror(t) \/ FindLinkedAgain(t)
    \/ AbortDeadlock(t)

GoogleNext ==
    \/ \E t \in Callbacks : Step(t)
    \/ \E st \in States : ExpireState(st) \/ (\E link \in Mails \cup {NULL} : StartLogin(st, link))
    \/ \E m \in Mails : Register(m)
    \/ Crash

GoogleSpec == GoogleInit /\ [][GoogleNext]_googleVars

-----------------------------------------------------------------------------
\* The types of the tables and of the callbacks.
GoogleTypeOK ==
    /\ user \in [Mails -> UserRow \cup {NULL}]
    /\ identity \in [Subs -> Mails \cup {NULL}]
    /\ state \in [States -> StateRow \cup {NULL}]
    /\ cb \in [Callbacks -> Callback]
    /\ unique \in BOOLEAN
    /\ faults \in Nat

\* A subject belongs to the account it created, or to one whose owner started a
\* link that it answered: an address alone never joins the two.  The copy in
\* users.google_sub is a subject of that account.
NoMergeByMail ==
    /\ \A s \in Subs : identity[s] # NULL =>
         /\ user[identity[s]] # NULL
         /\ \/ user[identity[s]].by = s
            \/ \E t \in Callbacks :
                 cb[t].used /\ cb[t].sub = s /\ state[cb[t].state].link = identity[s]
    /\ \A m \in Mails : user[m] # NULL /\ user[m].mirror # NULL => identity[user[m].mirror] = m

\* Of the callbacks that present one state, at the same time or later, at most one
\* gets past it.
StatesAreSingleUse == \A t, u \in Callbacks :
    cb[t].used /\ cb[u].used /\ cb[t].state = cb[u].state => t = u

\* Whoever wins a race, who is signed in or linked has the account of the subject,
\* and who is refused the subject lost it to another account; a general failure
\* means that a statement failed or a deadlock was broken.  Who is refused because
\* of the address finds it taken, and had no account when Google named the subject:
\* only another callback of the same Google account can have made or linked one
\* since.  That far the outcome does depend on who won the race (resolveUser).
AnswersAreTrue == \A t \in Callbacks :
    LET account == IF cb[t].sub = NULL THEN NULL ELSE identity[cb[t].sub] IN
    /\ cb[t].reply = "signed_in" => cb[t].account = account /\ account # NULL
    /\ cb[t].reply = "linked" => cb[t].link = account
    /\ cb[t].reply = "identity_taken" => account \notin {NULL, cb[t].link}
    /\ cb[t].reply = "account_exists" => user[cb[t].mail] # NULL /\ ~cb[t].known
    /\ cb[t].reply = "failed" => faults > 0 \/ cb[t].victim
=============================================================================
