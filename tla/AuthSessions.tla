---------------------------- MODULE AuthSessions ----------------------------
(***************************************************************************)
(* The auth service and its auth_sessions table: register, login, the      *)
(* single-use rotation of refresh tokens with reuse detection, and logout. *)
(*                                                                         *)
(* A token stands for a signed refresh JWT and its jti.  One row per token *)
(* is inserted when its session is issued and none is ever deleted.  Each  *)
(* action of a request is one database statement, and time passes between  *)
(* them.  Three fields of a row are history that the table does not keep:  *)
(* from (the token rotated for this one), login (the token of the login    *)
(* the chain of rotations began with) and ended (what set revoked_at).     *)
(***************************************************************************)
EXTENDS Naturals, FiniteSets

CONSTANTS
    Users,       \* e-mail addresses that may register
    Tokens,      \* refresh tokens the service can still sign
    Requests,    \* HTTP requests
    Window,      \* refreshRotationConcurrentWindow
    RefreshTTL,  \* lifetime of a refresh token and of its row
    MaxTime,     \* bound on the clock
    NULL

ASSUME AuthAssumption ==
    /\ Window \in Nat
    /\ RefreshTTL \in Nat \ {0}
    /\ MaxTime \in Nat
    /\ NULL \notin Users \cup Tokens \cup Nat

VARIABLES
    users,   \* registered accounts
    row,     \* auth_sessions, by token
    req,     \* what each request carries
    pc,      \* the statement each request runs next
    issued,  \* the token each request created a session for
    reply,   \* the status each request was answered with
    cut,     \* logins that a completed revoke-all was meant to end (history)
    clock

authVars == <<users, row, req, pc, issued, reply, cut, clock>>

SessionRow ==
    [user : Users, expires_at : Nat, revoked_at : Nat \cup {NULL},
     from : Tokens \cup {NULL}, login : Tokens,
     ended : {"no", "rotation", "logout", "reuse"}]

ASSUME RowAssumption == NULL \notin SessionRow

Kinds == {"register", "login", "refresh", "logout"}
Request == [kind : Kinds, user : Users, token : Tokens \cup {NULL}]

ASSUME RequestAssumption == NULL \notin Request

Steps == {"idle", "create_user", "find_user", "rotate", "find", "revoke_all", "load_user",
          "issue", "revoke", "done"}

Replies == {"none", "tokens", "unauthorized", "failed", "logged_out"}

-----------------------------------------------------------------------------

Issued == {t \in Tokens : row[t] # NULL}

\* "revoked_at IS NULL" of the UPDATE statements.
Unrevoked(t) == row[t] # NULL /\ row[t].revoked_at = NULL

\* The WHERE clause of RotateSession.
Active(t) == Unrevoked(t) /\ row[t].expires_at > clock

\* ParseWithAudience: the signature is valid and exp is not over.
ParseOK(t) == row[t] # NULL /\ row[t].expires_at > clock

\* UPDATE auth_sessions SET revoked_at = now for the tokens of S.
Revoked(S, why) ==
    [t \in Tokens |->
        IF t \in S
        THEN [user |-> row[t].user, expires_at |-> row[t].expires_at, revoked_at |-> clock,
              from |-> row[t].from, login |-> row[t].login, ended |-> why]
        ELSE row[t]]

Answer(r, code) ==
    /\ pc' = [pc EXCEPT ![r] = "done"]
    /\ reply' = [reply EXCEPT ![r] = code]

GoTo(r, step) == pc' = [pc EXCEPT ![r] = step] /\ UNCHANGED reply

Begin(r, kind, user, token, step) ==
    /\ pc[r] = "idle"
    /\ req' = [req EXCEPT ![r] = [kind |-> kind, user |-> user, token |-> token]]
    /\ GoTo(r, step)
    /\ UNCHANGED <<users, row, issued, cut, clock>>

-----------------------------------------------------------------------------
(* Register and Login. *)

StartRegister(r, u) == Begin(r, "register", u, NULL, "create_user")

StartLogin(r, u) == Begin(r, "login", u, NULL, "find_user")

\* CreateUser; the unique e-mail refuses a second account.
CreateUser(r) ==
    /\ pc[r] = "create_user"
    /\ IF req[r].user \in users
       THEN Answer(r, "failed") /\ UNCHANGED users
       ELSE GoTo(r, "issue") /\ users' = users \cup {req[r].user}
    /\ UNCHANGED <<row, req, issued, cut, clock>>

\* FindUserByEmail and the password comparison.
CheckPassword(r) ==
    /\ pc[r] = "find_user"
    /\ \/ req[r].user \in users /\ GoTo(r, "issue")
       \/ Answer(r, "unauthorized")
    /\ UNCHANGED <<users, row, req, issued, cut, clock>>

\* What the handlers answer to an error of the service.
ErrorReply(r) ==
    CASE req[r].kind = "register" -> "failed"
      [] req[r].kind = "logout"   -> "logged_out"
      [] OTHER                    -> "unauthorized"

\* issueSession: sign a pair with a new jti, insert its row, answer.  If the
\* acknowledgement of the INSERT is lost, nobody gets the pair.
IssueSession(r, t) ==
    /\ pc[r] = "issue"
    /\ row[t] = NULL
    /\ row' = [row EXCEPT ![t] =
                  [user |-> req[r].user, expires_at |-> clock + RefreshTTL,
                   revoked_at |-> NULL, from |-> req[r].token,
                   login |-> IF req[r].token = NULL THEN t ELSE row[req[r].token].login,
                   ended |-> "no"]]
    /\ \/ issued' = [issued EXCEPT ![r] = t] /\ Answer(r, "tokens")
       \/ UNCHANGED issued /\ Answer(r, ErrorReply(r))
    /\ UNCHANGED <<users, req, cut, clock>>

-----------------------------------------------------------------------------
(* Refresh. *)

\* A token that does not parse is refused before the database is asked.
StartRefresh(r, t) ==
    /\ pc[r] = "idle"
    /\ t \in Issued
    /\ req' = [req EXCEPT ![r] = [kind |-> "refresh", user |-> row[t].user, token |-> t]]
    /\ IF ParseOK(t) THEN GoTo(r, "rotate") ELSE Answer(r, "unauthorized")
    /\ UNCHANGED <<users, row, issued, cut, clock>>

\* Mutant: the old session is checked and left active.
RotateSession_keeps(r) ==
    /\ pc[r] = "rotate"
    /\ UNCHANGED row
    /\ IF Active(req[r].token) THEN GoTo(r, "load_user") ELSE GoTo(r, "find")
    /\ UNCHANGED <<users, req, issued, cut, clock>>

\* RotateSession: one conditional UPDATE decides who issues the next pair.
RotateSession(r) ==
    /\ pc[r] = "rotate"
    /\ IF Active(req[r].token)
       THEN row' = Revoked({req[r].token}, "rotation") /\ GoTo(r, "load_user")
       ELSE UNCHANGED row /\ GoTo(r, "find")
    /\ UNCHANGED <<users, req, issued, cut, clock>>

\* Mutant: inside the window the loser of a race gets a pair of its own.
FindSession_grace(r) ==
    LET found == row[req[r].token] IN
    /\ pc[r] = "find"
    /\ IF found.revoked_at # NULL
       THEN GoTo(r, IF clock - found.revoked_at > Window THEN "revoke_all" ELSE "load_user")
       ELSE Answer(r, "unauthorized")
    /\ UNCHANGED <<users, row, req, issued, cut, clock>>

\* Mutant: every replay of a revoked token counts as reuse.
FindSession_nowindow(r) ==
    /\ pc[r] = "find"
    /\ IF row[req[r].token].revoked_at # NULL
       THEN GoTo(r, "revoke_all")
       ELSE Answer(r, "unauthorized")
    /\ UNCHANGED <<users, row, req, issued, cut, clock>>

\* FindSessionByJTI and the switch on what it found.
FindSession(r) ==
    LET found == row[req[r].token] IN
    /\ pc[r] = "find"
    /\ IF found.revoked_at # NULL /\ clock - found.revoked_at > Window
       THEN GoTo(r, "revoke_all")
       ELSE Answer(r, "unauthorized")
    /\ UNCHANGED <<users, row, req, issued, cut, clock>>

\* RevokeAllActiveSessionsByUser.
RevokeAll(r) ==
    LET live == {t \in Tokens : Unrevoked(t) /\ row[t].user = req[r].user} IN
    /\ pc[r] = "revoke_all"
    /\ row' = Revoked(live, "reuse")
    /\ cut' = cut \cup {row[t].login : t \in {s \in Issued : row[s].user = req[r].user}}
    /\ Answer(r, "unauthorized")
    /\ UNCHANGED <<users, req, issued, clock>>

\* FindUserByID for the new pair.
LoadUser(r) ==
    /\ pc[r] = "load_user"
    /\ GoTo(r, "issue")
    /\ UNCHANGED <<users, row, req, issued, cut, clock>>

-----------------------------------------------------------------------------
(* Logout, failures, time. *)

StartLogout(r, t) ==
    /\ pc[r] = "idle"
    /\ t \in Issued
    /\ req' = [req EXCEPT ![r] = [kind |-> "logout", user |-> row[t].user, token |-> t]]
    /\ IF ParseOK(t) THEN GoTo(r, "revoke") ELSE Answer(r, "logged_out")
    /\ UNCHANGED <<users, row, issued, cut, clock>>

\* RevokeSessionByJTIIfExists.
RevokeSession(r) ==
    /\ pc[r] = "revoke"
    /\ row' = Revoked({t \in {req[r].token} : Unrevoked(t)}, "logout")
    /\ Answer(r, "logged_out")
    /\ UNCHANGED <<users, req, issued, cut, clock>>

\* A statement fails: the request is answered and, for the revocations, the
\* error is ignored.
StatementFails(r) ==
    /\ pc[r] \notin {"idle", "done"}
    /\ Answer(r, ErrorReply(r))
    /\ UNCHANGED <<users, row, req, issued, cut, clock>>

\* The rotation commits but its result is lost with the connection.
RotationAnswerLost(r) ==
    /\ pc[r] = "rotate"
    /\ Active(req[r].token)
    /\ row' = Revoked({req[r].token}, "rotation")
    /\ Answer(r, ErrorReply(r))
    /\ UNCHANGED <<users, req, issued, cut, clock>>

Tick ==
    /\ clock < MaxTime
    /\ clock' = clock + 1
    /\ UNCHANGED <<users, row, req, pc, issued, reply, cut>>

-----------------------------------------------------------------------------

AuthInit ==
    /\ users = {}
    /\ row = [t \in Tokens |-> NULL]
    /\ req = [r \in Requests |-> NULL]
    /\ pc = [r \in Requests |-> "idle"]
    /\ issued = [r \in Requests |-> NULL]
    /\ reply = [r \in Requests |-> "none"]
    /\ cut = {}
    /\ clock = 0

\* The statements a started request runs.
Serve(r) ==
    \/ CreateUser(r)
    \/ CheckPassword(r)
    \/ \E t \in Tokens : IssueSession(r, t)
    \/ RotateSession(r)
    \/ FindSession(r)
    \/ RevokeAll(r)
    \/ LoadUser(r)
    \/ RevokeSession(r)
    \/ StatementFails(r)
    \/ RotationAnswerLost(r)

\* The tokens that were handed to a client.
Delivered == {issued[r] : r \in Requests} \ {NULL}

AuthNext ==
    \/ \E r \in Requests :
          \/ \E u \in Users : StartRegister(r, u) \/ StartLogin(r, u)
          \/ \E t \in Delivered : StartRefresh(r, t) \/ StartLogout(r, t)
          \/ Serve(r)
    \/ Tick

AuthSpec == AuthInit /\ [][AuthNext]_authVars

-----------------------------------------------------------------------------
(* Properties. *)

\* Type invariant of the sessions table and of the requests in service.
AuthTypeOK ==
    /\ users \subseteq Users
    /\ row \in [Tokens -> SessionRow \cup {NULL}]
    /\ req \in [Requests -> Request \cup {NULL}]
    /\ pc \in [Requests -> Steps]
    /\ issued \in [Requests -> Tokens \cup {NULL}]
    /\ reply \in [Requests -> Replies]
    /\ cut \subseteq Tokens
    /\ clock \in Nat

\* A refresh token buys one new pair however many requests present it at
\* once: no two sessions were rotated from the same one (RotateSession).
OneSuccessor ==
    \A s, t \in Issued : row[s].from = row[t].from /\ row[s].from # NULL => s = t

\* However refreshes, replays and logouts interleave, the rotations that began
\* with one login never leave two unrevoked sessions behind.
OneSessionPerLogin ==
    \A s, t \in Tokens : Unrevoked(s) /\ Unrevoked(t) /\ row[s].login = row[t].login => s = t

\* Only a rotation continues a session: a token ended by a logout or by reuse
\* detection never gets a successor, not even from a refresh under way.
OnlyRotationContinues ==
    \A t \in Issued : row[t].from # NULL => row[row[t].from].ended = "rotation"

\* Every session taken away by reuse detection has a token of the same user
\* that had been revoked for longer than the concurrent window: refreshes that
\* race inside the window never sign the user out everywhere.
MassSignOutNeedsStaleToken ==
    \A t \in Issued : row[t].ended = "reuse" =>
        \E s \in Issued :
            /\ row[s].user = row[t].user
            /\ row[s].revoked_at # NULL
            /\ row[s].revoked_at + Window < row[t].revoked_at

\* A revocation is final and keeps its time, which reuse detection measures
\* from: no statement revives a session or moves its revoked_at.
RevocationIsFinal ==
    [][\A t \in Issued : row[t].revoked_at # NULL => row'[t] = row[t]]_authVars

\* "invalidating all sessions forces a fresh login across every device": no
\* session of a login that a completed revoke-all covered is still usable.
RevokeAllForcesLogin == \A t \in Tokens : Active(t) => row[t].login \notin cut

-----------------------------------------------------------------------------
(* The abstract specification. *)

StateOf(t) ==
    IF row[t] = NULL THEN "unborn"
    ELSE IF row[t].revoked_at = NULL
         THEN IF row[t].expires_at > clock THEN "live" ELSE "expired"
         ELSE IF clock - row[t].revoked_at > Window THEN "stale" ELSE "recent"

\* The tokens whose rotation won and whose successor is still to be inserted.
OpenTokens == {req[r].token : r \in {q \in Requests : pc[q] \in {"load_user", "issue"}}} \ {NULL}

Ledger == INSTANCE SessionLedger WITH
    state <- [t \in Tokens |-> StateOf(t)],
    owner <- [t \in Tokens |-> IF row[t] = NULL THEN NULL ELSE row[t].user],
    open  <- OpenTokens

\* The service implements the ledger: whatever order its statements, failures
\* and clock ticks come in, a token has at most one successor, ends once, and
\* is only taken away by its own logout or after a stale token was presented.
ImplementsSessionLedger ==
    Ledger!LedgerInit /\ [][Ledger!LedgerNext(Users)]_(Ledger!ledgerVars)

=============================================================================
