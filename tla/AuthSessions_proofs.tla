-------------------------- MODULE AuthSessions_proofs --------------------------
(***************************************************************************)
(* Proofs about AuthSessions for every number of users, tokens and         *)
(* requests and every window and lifetime.                                 *)
(***************************************************************************)
EXTENDS AuthSessions, TLAPS

\* A refresh that has rotated its token and has yet to insert the next row.
Carrying(r) == pc[r] \in {"load_user", "issue"} /\ req[r].token # NULL

\* What a started request carries.
RequestInv ==
    \A r \in Requests : pc[r] \notin {"idle", "done"} =>
        /\ req[r] # NULL
        /\ req[r].token # NULL => row[req[r].token] # NULL
        /\ pc[r] \in {"rotate", "find", "revoke_all", "load_user", "revoke"} => req[r].token # NULL
        /\ pc[r] \in {"create_user", "find_user"} => req[r].token = NULL

\* What a row says of the rows it continues.
RowInv ==
    \A t \in Issued :
        /\ row[row[t].login] # NULL
        /\ row[t].revoked_at = NULL <=> row[t].ended = "no"
        /\ row[t].from # NULL =>
              /\ row[row[t].from] # NULL
              /\ row[row[t].from].ended = "rotation"
              /\ row[row[t].from].login = row[t].login

\* A refresh under way owns the end of its login's chain: the token it rotated
\* has no successor, the login has no unrevoked session and no other refresh.
CarryInv ==
    \A r \in Requests : Carrying(r) =>
        /\ row[req[r].token].ended = "rotation"
        /\ \A t \in Issued : row[t].from # req[r].token
        /\ \A t \in Tokens : Unrevoked(t) => row[t].login # row[req[r].token].login
        /\ \A q \in Requests : Carrying(q) /\ q # r =>
              row[req[q].token].login # row[req[r].token].login

\* Whoever is about to revoke everything has seen a token revoked too long ago.
ReuseInv ==
    \A r \in Requests : pc[r] = "revoke_all" =>
        \E s \in Issued :
            /\ row[s].user = req[r].user
            /\ row[s].revoked_at # NULL
            /\ row[s].revoked_at + Window < clock

\* The session of a request's token belongs to the user the request names.
UserInv ==
    \A r \in Requests : req[r] # NULL /\ req[r].token # NULL =>
        row[req[r].token] # NULL /\ row[req[r].token].user = req[r].user

IInv ==
    /\ AuthTypeOK
    /\ RequestInv
    /\ RowInv
    /\ CarryInv
    /\ OneSuccessor
    /\ OneSessionPerLogin
    /\ ReuseInv
    /\ UserInv
    /\ MassSignOutNeedsStaleToken

-----------------------------------------------------------------------------
(* What a step may do, by kind of step. *)

\* The rows stay, or some unrevoked ones are revoked; nobody rotates or issues.
QuietStep ==
    /\ \E S \in SUBSET {t \in Tokens : Unrevoked(t)} : \E why \in {"logout", "reuse"} :
          row' = Revoked(S, why)
    /\ \A q \in Requests : Carrying(q)' => Carrying(q) /\ req'[q] = req[q]

\* r wins the rotation of its token, and may or may not hear of it.
RotateStep(r) ==
    /\ pc[r] = "rotate" /\ Active(req[r].token)
    /\ row' = Revoked({req[r].token}, "rotation")
    /\ req' = req
    /\ \E s \in {"load_user", "done"} : pc' = [pc EXCEPT ![r] = s]

\* Revoking unrevoked rows gives rows again, and touches no other field or row.
LEMMA RevokedRows ==
    ASSUME AuthTypeOK,
           NEW S \in SUBSET {t \in Tokens : Unrevoked(t)},
           NEW why \in {"rotation", "logout", "reuse"}
    PROVE  /\ Revoked(S, why) \in [Tokens -> SessionRow \cup {NULL}]
           /\ \A t \in S :
                 /\ t \in Tokens /\ row[t] # NULL /\ row[t].revoked_at = NULL
                 /\ Revoked(S, why)[t] # NULL
                 /\ Revoked(S, why)[t].user = row[t].user
                 /\ Revoked(S, why)[t].from = row[t].from
                 /\ Revoked(S, why)[t].login = row[t].login
                 /\ Revoked(S, why)[t].revoked_at = clock
                 /\ Revoked(S, why)[t].ended = why
           /\ \A t \in Tokens \ S : Revoked(S, why)[t] = row[t]
<1>1. ASSUME NEW t \in S
      PROVE  /\ t \in Tokens /\ row[t] # NULL /\ row[t].revoked_at = NULL /\ row[t] \in SessionRow
             /\ Revoked(S, why)[t] =
                  [user |-> row[t].user, expires_at |-> row[t].expires_at, revoked_at |-> clock,
                   from |-> row[t].from, login |-> row[t].login, ended |-> why]
  BY DEF Unrevoked, AuthTypeOK, Revoked
<1>2. ASSUME NEW t \in S
      PROVE  /\ Revoked(S, why)[t] \in SessionRow
             /\ Revoked(S, why)[t] # NULL
             /\ Revoked(S, why)[t].user = row[t].user
             /\ Revoked(S, why)[t].from = row[t].from
             /\ Revoked(S, why)[t].login = row[t].login
             /\ Revoked(S, why)[t].revoked_at = clock
             /\ Revoked(S, why)[t].ended = why
  <2>1. /\ row[t].user \in Users /\ row[t].expires_at \in Nat
        /\ row[t].from \in Tokens \cup {NULL} /\ row[t].login \in Tokens /\ clock \in Nat
    BY <1>1 DEF SessionRow, AuthTypeOK
  <2>2. [user |-> row[t].user, expires_at |-> row[t].expires_at, revoked_at |-> clock,
         from |-> row[t].from, login |-> row[t].login, ended |-> why] \in SessionRow
    BY <2>1 DEF SessionRow
  <2> QED
    BY <1>1, <2>2, RowAssumption
<1>3. ASSUME NEW t \in Tokens \ S
      PROVE  Revoked(S, why)[t] = row[t]
  BY DEF Revoked
<1>4. Revoked(S, why) \in [Tokens -> SessionRow \cup {NULL}]
  <2>1. \A t \in Tokens : Revoked(S, why)[t] \in SessionRow \cup {NULL}
    BY <1>2, <1>3 DEF AuthTypeOK
  <2>2. Revoked(S, why) = [t \in Tokens |-> Revoked(S, why)[t]]
    BY DEF Revoked
  <2> QED
    BY <2>1, <2>2
<1> QED
  BY <1>1, <1>2, <1>3, <1>4

\* Every step is of one of these kinds.
LEMMA StepShape ==
    ASSUME IInv, AuthNext
    PROVE  \/ QuietStep
           \/ \E r \in Requests : RotateStep(r)
           \/ \E r \in Requests, t \in Tokens : IssueSession(r, t)
<1> USE AuthAssumption, RowAssumption, RequestAssumption
<1>1. ASSUME row' = row, \A q \in Requests : Carrying(q)' => Carrying(q) /\ req'[q] = req[q]
      PROVE  QuietStep
  <2>1. row' = Revoked({}, "logout")
    BY <1>1 DEF Revoked, IInv, AuthTypeOK
  <2> QED
    BY <1>1, <2>1 DEF QuietStep
<1>2. ASSUME NEW r \in Requests, NEW u \in Users, StartRegister(r, u) \/ StartLogin(r, u)
      PROVE  QuietStep
  BY <1>1, <1>2 DEF StartRegister, StartLogin, Begin, GoTo, Carrying, IInv, AuthTypeOK
<1>3. ASSUME NEW r \in Requests, NEW t \in Tokens, StartRefresh(r, t) \/ StartLogout(r, t)
      PROVE  QuietStep
  BY <1>1, <1>3 DEF StartRefresh, StartLogout, GoTo, Answer, Carrying, IInv, AuthTypeOK
<1>4. ASSUME NEW r \in Requests, CreateUser(r) \/ CheckPassword(r)
      PROVE  QuietStep
  <2>1. req[r] # NULL /\ req[r].token = NULL
    BY <1>4 DEF CreateUser, CheckPassword, IInv, RequestInv
  <2> QED
    BY <1>1, <1>4, <2>1 DEF CreateUser, CheckPassword, GoTo, Answer, Carrying, IInv, AuthTypeOK
<1>5. ASSUME NEW r \in Requests, RotateSession(r) \/ RotationAnswerLost(r)
      PROVE  QuietStep \/ RotateStep(r)
  <2>1. CASE Active(req[r].token)
    BY <1>5, <2>1 DEF RotateSession, RotationAnswerLost, RotateStep, GoTo, Answer
  <2>2. CASE ~Active(req[r].token)
    BY <1>1, <1>5, <2>2 DEF RotateSession, RotationAnswerLost, GoTo, Carrying, IInv, AuthTypeOK
  <2> QED
    BY <2>1, <2>2
<1>6. ASSUME NEW r \in Requests, FindSession(r) \/ LoadUser(r) \/ StatementFails(r)
      PROVE  QuietStep
  BY <1>1, <1>6 DEF FindSession, LoadUser, StatementFails, GoTo, Answer, Carrying, IInv, AuthTypeOK
<1>7. ASSUME NEW r \in Requests, RevokeAll(r)
      PROVE  QuietStep
  <2>1. \E S \in SUBSET {t \in Tokens : Unrevoked(t)} : row' = Revoked(S, "reuse")
    BY <1>7 DEF RevokeAll
  <2>2. \A q \in Requests : Carrying(q)' => Carrying(q) /\ req'[q] = req[q]
    BY <1>7 DEF RevokeAll, Answer, Carrying, IInv, AuthTypeOK
  <2> QED
    BY <2>1, <2>2 DEF QuietStep
<1>8. ASSUME NEW r \in Requests, RevokeSession(r)
      PROVE  QuietStep
  <2>0. req[r].token \in Tokens
    BY <1>8 DEF RevokeSession, IInv, RequestInv, AuthTypeOK, Request
  <2>1. \E S \in SUBSET {t \in Tokens : Unrevoked(t)} : row' = Revoked(S, "logout")
    BY <1>8, <2>0 DEF RevokeSession
  <2>2. \A q \in Requests : Carrying(q)' => Carrying(q) /\ req'[q] = req[q]
    BY <1>8 DEF RevokeSession, Answer, Carrying, IInv, AuthTypeOK
  <2> QED
    BY <2>1, <2>2 DEF QuietStep
<1>9. CASE Tick
  BY <1>1, <1>9 DEF Tick, Carrying
<1>10. Delivered \subseteq Tokens
  BY DEF Delivered, IInv, AuthTypeOK
<1> QED
  BY <1>2, <1>3, <1>4, <1>5, <1>6, <1>7, <1>8, <1>9, <1>10 DEF AuthNext, Serve

\* What every step keeps of the table: rows stay with their owner and history,
\* and a revoked row does not change at all.
Kept ==
    \A t \in Issued :
        /\ row'[t] # NULL
        /\ row'[t].user = row[t].user
        /\ row'[t].from = row[t].from
        /\ row'[t].login = row[t].login
        /\ row[t].revoked_at # NULL => row'[t] = row[t]

LEMMA StepKeepsRows ==
    ASSUME IInv, AuthNext
    PROVE  Kept
<1> USE AuthAssumption, RowAssumption
<1>0. row \in [Tokens -> SessionRow \cup {NULL}]
  BY DEF IInv, AuthTypeOK
<1>1. ASSUME NEW S \in SUBSET {t \in Tokens : Unrevoked(t)},
             NEW why \in {"rotation", "logout", "reuse"}, row' = Revoked(S, why)
      PROVE  Kept
  BY <1>1, RevokedRows DEF Kept, Issued, IInv
<1>2. ASSUME NEW r \in Requests, RotateStep(r)
      PROVE  Kept
  <2>1. {req[r].token} \in SUBSET {t \in Tokens : Unrevoked(t)}
    BY <1>2 DEF RotateStep, Active, IInv, RequestInv, AuthTypeOK, Request
  <2> QED
    BY <1>1, <1>2, <2>1 DEF RotateStep
<1>3. ASSUME NEW r \in Requests, NEW t \in Tokens, IssueSession(r, t)
      PROVE  Kept
  BY <1>0, <1>3 DEF IssueSession, Kept, Issued
<1>4. CASE QuietStep
  BY <1>1, <1>4 DEF QuietStep
<1> QED
  BY <1>2, <1>3, <1>4, StepShape

-----------------------------------------------------------------------------
(* Type correctness and what requests carry. *)

LEMMA TypeStep ==
    ASSUME IInv, AuthNext
    PROVE  AuthTypeOK'
<1> USE AuthAssumption, RowAssumption, RequestAssumption
<1>0. AuthTypeOK /\ RequestInv
  BY DEF IInv
<1>1. ASSUME NEW S \in SUBSET {t \in Tokens : Unrevoked(t)},
             NEW why \in {"rotation", "logout", "reuse"}
      PROVE  Revoked(S, why) \in [Tokens -> SessionRow \cup {NULL}]
  BY <1>0, RevokedRows
<1>2. ASSUME NEW r \in Requests, NEW u \in Users, StartRegister(r, u) \/ StartLogin(r, u)
      PROVE  AuthTypeOK'
  BY <1>0, <1>2 DEF StartRegister, StartLogin, Begin, GoTo, AuthTypeOK, Request, Kinds, Steps
<1>3. ASSUME NEW r \in Requests, NEW t \in Tokens, StartRefresh(r, t) \/ StartLogout(r, t)
      PROVE  AuthTypeOK'
  <2>1. row[t].user \in Users
    BY <1>0, <1>3 DEF StartRefresh, StartLogout, Issued, AuthTypeOK, SessionRow
  <2> QED
    BY <1>0, <1>3, <2>1 DEF StartRefresh, StartLogout, GoTo, Answer, AuthTypeOK, Request, Kinds,
       Steps, Replies
<1>4. ASSUME NEW r \in Requests, CreateUser(r) \/ CheckPassword(r)
      PROVE  AuthTypeOK'
  <2>1. req[r].user \in Users
    BY <1>0, <1>4 DEF CreateUser, CheckPassword, RequestInv, AuthTypeOK, Request
  <2> QED
    BY <1>0, <1>4, <2>1 DEF CreateUser, CheckPassword, GoTo, Answer, AuthTypeOK, Steps, Replies
<1>5. ASSUME NEW r \in Requests, RotateSession(r) \/ RotationAnswerLost(r)
      PROVE  AuthTypeOK'
  <2>1. req[r].token \in Tokens
    BY <1>0, <1>5 DEF RotateSession, RotationAnswerLost, RequestInv, AuthTypeOK, Request
  <2>2. row' \in [Tokens -> SessionRow \cup {NULL}]
    BY <1>0, <1>1, <1>5, <2>1 DEF RotateSession, RotationAnswerLost, Active, AuthTypeOK
  <2>3. ErrorReply(r) \in Replies
    BY DEF ErrorReply, Replies
  <2> QED
    BY <1>0, <1>5, <2>2, <2>3 DEF RotateSession, RotationAnswerLost, GoTo, Answer, AuthTypeOK, Steps
<1>6. ASSUME NEW r \in Requests, FindSession(r) \/ LoadUser(r) \/ StatementFails(r)
      PROVE  AuthTypeOK'
  <2>1. ErrorReply(r) \in Replies
    BY DEF ErrorReply, Replies
  <2> QED
    BY <1>0, <1>6, <2>1 DEF FindSession, LoadUser, StatementFails, GoTo, Answer, AuthTypeOK, Steps,
       Replies
<1>7. ASSUME NEW r \in Requests, RevokeAll(r)
      PROVE  AuthTypeOK'
  <2>1. row' \in [Tokens -> SessionRow \cup {NULL}]
    BY <1>0, <1>1, <1>7 DEF RevokeAll
  <2>2. \A t \in Issued : row[t].login \in Tokens
    BY <1>0 DEF Issued, AuthTypeOK, SessionRow
  <2> QED
    BY <1>0, <1>7, <2>1, <2>2 DEF RevokeAll, Answer, AuthTypeOK, Steps, Replies
<1>8. ASSUME NEW r \in Requests, RevokeSession(r)
      PROVE  AuthTypeOK'
  <2>1. req[r].token \in Tokens
    BY <1>0, <1>8 DEF RevokeSession, RequestInv, AuthTypeOK, Request
  <2>2. row' \in [Tokens -> SessionRow \cup {NULL}]
    BY <1>0, <1>1, <1>8, <2>1 DEF RevokeSession
  <2> QED
    BY <1>0, <1>8, <2>2 DEF RevokeSession, Answer, AuthTypeOK, Steps, Replies
<1>9. ASSUME NEW r \in Requests, NEW t \in Tokens, IssueSession(r, t)
      PROVE  AuthTypeOK'
  <2>1. req[r].user \in Users /\ req[r].token \in Tokens \cup {NULL}
    BY <1>0, <1>9 DEF IssueSession, RequestInv, AuthTypeOK, Request
  <2>2. req[r].token # NULL => row[req[r].token].login \in Tokens
    BY <1>0, <1>9, <2>1 DEF IssueSession, RequestInv, AuthTypeOK, SessionRow
  <2>3. clock + RefreshTTL \in Nat
    BY <1>0 DEF AuthTypeOK
  <2>4. row' \in [Tokens -> SessionRow \cup {NULL}]
    BY <1>0, <1>9, <2>1, <2>2, <2>3 DEF IssueSession, AuthTypeOK, SessionRow
  <2> QED
    BY <1>0, <1>9, <2>4 DEF IssueSession, Answer, ErrorReply, AuthTypeOK, Steps, Replies
<1>10. CASE Tick
  BY <1>0, <1>10 DEF Tick, AuthTypeOK
<1>11. Delivered \subseteq Tokens
  BY <1>0 DEF Delivered, AuthTypeOK
<1> QED
  BY <1>2, <1>3, <1>4, <1>5, <1>6, <1>7, <1>8, <1>9, <1>10, <1>11 DEF AuthNext, Serve

LEMMA RequestStep ==
    ASSUME IInv, AuthNext
    PROVE  RequestInv' /\ UserInv'
<1> USE RequestAssumption
<1>0. AuthTypeOK /\ RequestInv /\ UserInv
  BY DEF IInv
<1>1. \A t \in Tokens : row[t] # NULL => row'[t] # NULL /\ row'[t].user = row[t].user
  BY StepKeepsRows DEF Kept, Issued
<1>2. ASSUME NEW r \in Requests, NEW u \in Users, StartRegister(r, u) \/ StartLogin(r, u)
      PROVE  RequestInv' /\ UserInv'
  <2>1. [kind |-> "register", user |-> u, token |-> NULL] # NULL
        /\ [kind |-> "login", user |-> u, token |-> NULL] # NULL
    BY DEF Request, Kinds
  <2>2. req' = [req EXCEPT ![r] = req'[r]] /\ req'[r] # NULL /\ req'[r].token = NULL
    BY <1>0, <1>2, <2>1 DEF StartRegister, StartLogin, Begin, AuthTypeOK
  <2>3. \E s \in {"create_user", "find_user"} : pc' = [pc EXCEPT ![r] = s]
    BY <1>2 DEF StartRegister, StartLogin, Begin, GoTo
  <2> QED
    BY <1>0, <1>1, <2>2, <2>3 DEF RequestInv, UserInv, AuthTypeOK, Request
<1>3. ASSUME NEW r \in Requests, NEW t \in Tokens, StartRefresh(r, t) \/ StartLogout(r, t)
      PROVE  RequestInv' /\ UserInv'
  <2>0. row[t].user \in Users /\ row[t] # NULL
    BY <1>0, <1>3 DEF StartRefresh, StartLogout, Issued, AuthTypeOK, SessionRow
  <2>1. [kind |-> "refresh", user |-> row[t].user, token |-> t] # NULL
        /\ [kind |-> "logout", user |-> row[t].user, token |-> t] # NULL
    BY <2>0 DEF Request, Kinds
  <2>2. /\ req' = [req EXCEPT ![r] = req'[r]] /\ req'[r] # NULL
        /\ req'[r].token = t /\ req'[r].user = row[t].user
    BY <1>0, <1>3, <2>1 DEF StartRefresh, StartLogout, AuthTypeOK
  <2>3. \E s \in {"rotate", "revoke", "done"} : pc' = [pc EXCEPT ![r] = s]
    BY <1>3 DEF StartRefresh, StartLogout, GoTo, Answer
  <2>4. t # NULL
    BY AuthAssumption
  <2> QED
    BY <1>0, <1>1, <2>0, <2>2, <2>3, <2>4 DEF RequestInv, UserInv, AuthTypeOK, Request
<1>4. ASSUME req' = req,
             \E r \in Requests : pc[r] \notin {"idle", "done"} /\
                \E s \in Steps : /\ pc' = [pc EXCEPT ![r] = s]
                                 /\ s \in {"find", "revoke_all", "load_user"} => req[r].token # NULL
                                 /\ s \in {"issue", "done", "find", "revoke_all", "load_user"}
      PROVE  RequestInv' /\ UserInv'
  BY <1>0, <1>1, <1>4 DEF RequestInv, UserInv, AuthTypeOK, Request
<1>5. ASSUME NEW r \in Requests, Serve(r)
      PROVE  RequestInv' /\ UserInv'
  <2>1. pc[r] \notin {"idle", "done"} /\ req' = req
    BY <1>5 DEF Serve, CreateUser, CheckPassword, IssueSession, RotateSession, FindSession,
       RevokeAll, LoadUser, RevokeSession, StatementFails, RotationAnswerLost
  <2>2. \E s \in Steps : /\ pc' = [pc EXCEPT ![r] = s]
                         /\ s \in {"find", "revoke_all", "load_user"} => req[r].token # NULL
                         /\ s \in {"issue", "done", "find", "revoke_all", "load_user"}
    BY <1>0, <1>5 DEF Serve, CreateUser, CheckPassword, IssueSession, RotateSession, FindSession,
       RevokeAll, LoadUser, RevokeSession, StatementFails, RotationAnswerLost, Answer, GoTo,
       Steps, RequestInv
  <2> QED
    BY <1>4, <2>1, <2>2
<1>6. CASE Tick
  BY <1>0, <1>1, <1>6 DEF Tick, RequestInv, UserInv, AuthTypeOK, Request
<1>7. Delivered \subseteq Tokens
  BY <1>0 DEF Delivered, AuthTypeOK
<1> QED
  BY <1>2, <1>3, <1>5, <1>6, <1>7 DEF AuthNext

-----------------------------------------------------------------------------
(* The chain of rotations. *)

ChainInv == RowInv /\ CarryInv /\ OneSuccessor /\ OneSessionPerLogin

\* A rotated token is neither unrevoked nor anyone else's to rotate.
LEMMA ChainQuiet ==
    ASSUME IInv, AuthTypeOK', RequestInv', QuietStep
    PROVE  ChainInv'
<1> USE AuthAssumption, RowAssumption
<1>1. PICK S \in SUBSET {t \in Tokens : Unrevoked(t)}, why \in {"logout", "reuse"} :
         row' = Revoked(S, why)
  BY DEF QuietStep
<1>2. /\ \A t \in S : /\ row[t] # NULL /\ row[t].revoked_at = NULL
                      /\ row'[t] # NULL /\ row'[t].from = row[t].from
                      /\ row'[t].login = row[t].login /\ row'[t].revoked_at = clock
                      /\ row'[t].ended = why
      /\ \A t \in Tokens \ S : row'[t] = row[t]
      /\ clock # NULL
  BY <1>1, RevokedRows DEF IInv, AuthTypeOK
<1>3. /\ \A t \in Tokens : row'[t] # NULL <=> row[t] # NULL
      /\ \A t \in Issued : row'[t].from = row[t].from /\ row'[t].login = row[t].login
      /\ \A t \in Tokens : Unrevoked(t)' => Unrevoked(t)
      /\ \A t \in Issued : row[t].ended = "rotation" => row'[t].ended = "rotation"
      /\ \A t \in Issued : row'[t].login \in Tokens /\ row'[t].from \in Tokens \cup {NULL}
  <2>1. \A t \in Issued : row[t] \in SessionRow
    BY DEF IInv, AuthTypeOK, Issued
  <2>2. \A t \in S : row[t].ended = "no"
    BY <1>2 DEF IInv, RowInv, Issued, Unrevoked
  <2> QED
    BY <1>2, <2>1, <2>2 DEF Issued, Unrevoked, SessionRow
<1>4. Issued' = Issued
  BY <1>3 DEF Issued
<1>5. RowInv'
  BY <1>2, <1>3, <1>4 DEF RowInv, IInv, Issued
<1>6. CarryInv'
  <2>1. ASSUME NEW r \in Requests, Carrying(r)'
        PROVE  /\ Carrying(r) /\ req'[r] = req[r] /\ req[r].token \in Issued
    BY <2>1 DEF QuietStep, IInv, RequestInv, AuthTypeOK, Request, Carrying, Issued
  <2> QED
    BY <1>3, <1>4, <2>1 DEF CarryInv, IInv, Issued
<1>7. OneSuccessor' /\ OneSessionPerLogin'
  BY <1>3, <1>4 DEF OneSuccessor, OneSessionPerLogin, IInv, Issued, Unrevoked
<1> QED
  BY <1>5, <1>6, <1>7 DEF ChainInv

\* The winner of a rotation takes over the unrevoked end of its chain.
LEMMA ChainRotate ==
    ASSUME IInv, NEW r \in Requests, RotateStep(r)
    PROVE  ChainInv'
<1> USE AuthAssumption, RowAssumption
<1> DEFINE k == req[r].token
<1>1. k \in Tokens /\ Unrevoked(k)
  BY DEF RotateStep, Active, IInv, RequestInv, AuthTypeOK, Request
<1>2. /\ row'[k] # NULL /\ row'[k].from = row[k].from /\ row'[k].login = row[k].login
      /\ row'[k].revoked_at = clock /\ row'[k].ended = "rotation"
      /\ \A t \in Tokens \ {k} : row'[t] = row[t]
      /\ clock # NULL
  BY <1>1, RevokedRows DEF RotateStep, IInv, AuthTypeOK
<1>3. /\ \A t \in Tokens : row'[t] # NULL <=> row[t] # NULL
      /\ \A t \in Issued : row'[t].from = row[t].from /\ row'[t].login = row[t].login
      /\ \A t \in Tokens : Unrevoked(t)' => Unrevoked(t) /\ t # k
      /\ \A t \in Issued : row[t].ended = "rotation" => row'[t].ended = "rotation"
      /\ \A t \in Issued : row[t].login \in Tokens /\ row[t].from \in Tokens \cup {NULL}
  <2>1. \A t \in Issued : row[t] \in SessionRow
    BY DEF IInv, AuthTypeOK, Issued
  <2> QED
    BY <1>1, <1>2, <2>1 DEF Issued, Unrevoked, SessionRow
<1>4. Issued' = Issued /\ k \in Issued /\ row[k].ended = "no"
  BY <1>1, <1>3 DEF Issued, Unrevoked, IInv, RowInv
<1>5. RowInv'
  BY <1>2, <1>3, <1>4 DEF RowInv, IInv, Issued
<1>6. req' = req /\ \A q \in Requests : Carrying(q)' => Carrying(q) \/ q = r
  BY DEF RotateStep, Carrying, IInv, AuthTypeOK
<1>7. \A q \in Requests : Carrying(q) => req[q].token \in Issued
  BY DEF IInv, RequestInv, AuthTypeOK, Request, Carrying, Issued
<1>8. \A t \in Issued : row[t].from # k
  BY <1>4 DEF IInv, RowInv, Issued
<1>9. CarryInv'
  <2>1. ASSUME NEW q \in Requests, Carrying(q)', q # r
        PROVE  /\ row'[req'[q].token].ended = "rotation"
               /\ \A t \in Issued' : row'[t].from # req'[q].token
               /\ \A t \in Tokens : Unrevoked(t)' => row'[t].login # row'[req'[q].token].login
               /\ row'[k].login # row'[req'[q].token].login
               /\ \A p \in Requests : Carrying(p)' /\ p # q =>
                     row'[req'[p].token].login # row'[req'[q].token].login
    <3>1. Carrying(q) /\ req[q].token \in Issued
      BY <1>6, <1>7, <2>1
    <3>2. row[k].login # row[req[q].token].login
      BY <1>1, <3>1 DEF IInv, CarryInv
    <3> QED
      BY <1>3, <1>4, <1>6, <1>7, <3>1, <3>2 DEF IInv, CarryInv, Issued, Unrevoked
  <2>2. /\ row'[k].ended = "rotation"
        /\ \A t \in Issued' : row'[t].from # k
        /\ \A t \in Tokens : Unrevoked(t)' => row'[t].login # row'[k].login
    BY <1>1, <1>2, <1>3, <1>4, <1>8 DEF IInv, OneSessionPerLogin, Issued, Unrevoked
  <2> QED
    BY <1>6, <2>1, <2>2 DEF CarryInv
<1>10. OneSuccessor' /\ OneSessionPerLogin'
  BY <1>3, <1>4 DEF OneSuccessor, OneSessionPerLogin, IInv, Issued, Unrevoked
<1> QED
  BY <1>5, <1>9, <1>10 DEF ChainInv

\* The row a request inserts is a row.
LEMMA IssuedRow ==
    ASSUME IInv, NEW r \in Requests, NEW n \in Tokens, IssueSession(r, n)
    PROVE  row'[n] # NULL
<1> DEFINE k == req[r].token
           new == [user |-> req[r].user, expires_at |-> clock + RefreshTTL,
                   revoked_at |-> NULL, from |-> k,
                   login |-> IF k = NULL THEN n ELSE row[k].login, ended |-> "no"]
<1>1. req[r].user \in Users /\ k \in Tokens \cup {NULL}
  BY DEF IssueSession, IInv, RequestInv, AuthTypeOK, Request
<1>2. (IF k = NULL THEN n ELSE row[k].login) \in Tokens
  <2>1. k # NULL => row[k] \in SessionRow
    BY <1>1 DEF IssueSession, IInv, RequestInv, AuthTypeOK
  <2> QED
    BY <2>1 DEF SessionRow
<1>3. clock + RefreshTTL \in Nat
  BY AuthAssumption DEF IInv, AuthTypeOK
<1>4. new \in SessionRow
  BY <1>1, <1>2, <1>3 DEF SessionRow
<1>5. row'[n] = new
  BY DEF IssueSession, IInv, AuthTypeOK
<1> QED
  BY <1>4, <1>5, RowAssumption

\* The new session becomes the unrevoked end of the chain its request carried,
\* or of a chain of its own.
LEMMA ChainIssue ==
    ASSUME IInv, NEW r \in Requests, NEW n \in Tokens, IssueSession(r, n)
    PROVE  ChainInv'
<1> USE AuthAssumption, RowAssumption
<1> DEFINE k == req[r].token
<1>1. /\ row[n] = NULL /\ n \notin Issued /\ pc[r] = "issue"
      /\ k # NULL => k \in Issued /\ Carrying(r)
  BY DEF IssueSession, IInv, RequestInv, AuthTypeOK, Request, Carrying, Issued
<1>2. /\ row'[n].from = k /\ row'[n].revoked_at = NULL /\ row'[n].ended = "no"
      /\ row'[n].login = IF k = NULL THEN n ELSE row[k].login
      /\ \A t \in Tokens \ {n} : row'[t] = row[t]
      /\ req' = req
  BY DEF IssueSession, IInv, AuthTypeOK
<1>3. Issued' = Issued \cup {n}
  <2>1. row' = [row EXCEPT ![n] = row'[n]] /\ row'[n] # NULL
    BY IssuedRow DEF IssueSession, IInv, AuthTypeOK
  <2> QED
    BY <1>2, <2>1 DEF Issued
<1>4. \A t \in Issued : /\ row[t].login \in Issued /\ row[t].login # n
                        /\ row[t].from # n
                        /\ row[t].from # NULL => row[t].from \in Issued
  <2>1. \A t \in Issued : row[t].login \in Tokens /\ row[t].from \in Tokens \cup {NULL}
    BY DEF IInv, AuthTypeOK, Issued, SessionRow
  <2> QED
    BY <1>1, <2>1 DEF IInv, RowInv, Issued
<1>5. k # NULL => /\ row[k].ended = "rotation"
                  /\ \A t \in Issued : row[t].from # k
                  /\ \A t \in Tokens : Unrevoked(t) => row[t].login # row[k].login
  BY <1>1 DEF IInv, CarryInv
<1>0. \A t \in Issued : t \in Tokens /\ t # NULL /\ row'[t] = row[t]
  BY <1>1, <1>2 DEF Issued
<1>6. RowInv'
  <2>1. ASSUME NEW t \in Issued
        PROVE  /\ row'[row'[t].login] # NULL
               /\ row'[t].revoked_at = NULL <=> row'[t].ended = "no"
               /\ row'[t].from # NULL =>
                     /\ row'[row'[t].from] # NULL
                     /\ row'[row'[t].from].ended = "rotation"
                     /\ row'[row'[t].from].login = row'[t].login
    BY <1>0, <1>4 DEF RowInv, IInv
  <2>2. /\ row'[row'[n].login] # NULL
        /\ row'[n].from # NULL =>
              /\ row'[row'[n].from] # NULL
              /\ row'[row'[n].from].ended = "rotation"
              /\ row'[row'[n].from].login = row'[n].login
    <3>1. CASE k = NULL
      BY <1>2, <3>1, IssuedRow
    <3>2. CASE k # NULL
      BY <1>0, <1>1, <1>2, <1>4, <1>5, <3>2 DEF Issued
    <3> QED
      BY <3>1, <3>2
  <2> QED
    BY <1>2, <1>3, <2>1, <2>2 DEF RowInv
<1>7. OneSuccessor' /\ OneSessionPerLogin'
  <2>1. OneSuccessor'
    <3>1. \A t \in Issued : row'[t].from = row'[n].from => row'[n].from = NULL
      BY <1>0, <1>2, <1>5
    <3> QED
      BY <1>0, <1>3, <3>1 DEF OneSuccessor, IInv
  <2>2. \A t \in Tokens : Unrevoked(t)' <=> Unrevoked(t) \/ t = n
    BY <1>1, <1>2, <1>3 DEF Unrevoked, Issued
  <2>3. \A t \in Tokens : Unrevoked(t) => t \in Issued
    BY DEF Unrevoked, Issued
  <2>4. OneSessionPerLogin'
    BY <1>1, <1>2, <1>4, <1>5, <2>2, <2>3 DEF OneSessionPerLogin, IInv
  <2> QED
    BY <2>1, <2>4
<1>8. CarryInv'
  <2>1. \A q \in Requests : Carrying(q)' => Carrying(q) /\ q # r
    BY <1>2 DEF IssueSession, Answer, Carrying, IInv, AuthTypeOK
  <2>2. \A q \in Requests : Carrying(q) => req[q].token \in Issued
    BY DEF IInv, RequestInv, AuthTypeOK, Request, Carrying, Issued
  <2>3. \A t \in Tokens : Unrevoked(t)' => Unrevoked(t) \/ t = n
    BY <1>1, <1>2, <1>3 DEF Unrevoked, Issued
  <2>4. ASSUME NEW q \in Requests, Carrying(q)'
        PROVE  /\ row'[req'[q].token].ended = "rotation"
               /\ \A t \in Issued' : row'[t].from # req'[q].token
               /\ \A t \in Tokens : Unrevoked(t)' => row'[t].login # row'[req'[q].token].login
               /\ \A p \in Requests : Carrying(p)' /\ p # q =>
                     row'[req'[p].token].login # row'[req'[q].token].login
    <3>1. Carrying(q) /\ q # r /\ req[q].token \in Issued /\ req'[q] = req[q]
      BY <1>2, <2>1, <2>2, <2>4
    <3>2. k # NULL => row[k].login # row[req[q].token].login
      BY <1>1, <3>1 DEF IInv, CarryInv
    <3>3. row'[n].from # req[q].token /\ row'[n].login # row[req[q].token].login
      BY <1>0, <1>1, <1>2, <1>4, <3>1, <3>2
    <3>4. row'[req[q].token] = row[req[q].token]
      BY <1>1, <1>2, <3>1 DEF Issued
    <3>5. \A t \in Tokens : Unrevoked(t)' => row'[t].login # row[req[q].token].login
      BY <1>1, <1>2, <2>3, <3>1, <3>3 DEF IInv, CarryInv, Unrevoked
    <3>6. \A t \in Issued' : row'[t].from # req[q].token
      BY <1>1, <1>2, <1>3, <3>1, <3>3 DEF IInv, CarryInv, Issued
    <3>7. \A p \in Requests : Carrying(p)' /\ p # q =>
             row'[req'[p].token].login # row[req[q].token].login
      BY <1>1, <1>2, <2>1, <2>2, <3>1 DEF IInv, CarryInv, Issued
    <3> QED
      BY <3>1, <3>4, <3>5, <3>6, <3>7 DEF IInv, CarryInv
  <2> QED
    BY <2>4 DEF CarryInv
<1> QED
  BY <1>6, <1>7, <1>8 DEF ChainInv

-----------------------------------------------------------------------------
(* Reuse detection. *)

\* Only a revoke-all marks an existing session as ended by reuse.
LEMMA StepWithoutReuse ==
    ASSUME IInv, AuthNext, NEW t \in Issued, row[t].ended # "reuse", row'[t].ended = "reuse"
    PROVE  \E r \in Requests : RevokeAll(r)
<1>0. AuthTypeOK /\ row' # row /\ t \in Tokens
  BY DEF IInv, Issued
<1>1. ASSUME NEW S, row' = Revoked(S, "rotation") \/ row' = Revoked(S, "logout")
      PROVE  FALSE
  BY <1>0, <1>1 DEF Revoked
<1>2. ASSUME NEW r \in Requests, NEW n \in Tokens, IssueSession(r, n)
      PROVE  FALSE
  BY <1>0, <1>2 DEF IssueSession, AuthTypeOK, Issued
<1> QED
  BY <1>0, <1>1, <1>2 DEF AuthNext, Tick, Serve, StartRegister, StartLogin, Begin, StartRefresh,
     StartLogout, CreateUser, CheckPassword, RotateSession, FindSession, LoadUser, RevokeSession,
     StatementFails, RotationAnswerLost

LEMMA ReuseStep ==
    ASSUME IInv, AuthNext, AuthTypeOK'
    PROVE  ReuseInv' /\ MassSignOutNeedsStaleToken'
<1> USE AuthAssumption, RowAssumption
<1>0. AuthTypeOK /\ RequestInv /\ UserInv /\ ReuseInv
  BY DEF IInv
<1>1. clock \in Nat /\ clock' \in Nat /\ clock' >= clock
  <2>1. CASE Tick
    BY <1>0, <2>1 DEF Tick, AuthTypeOK
  <2>2. CASE ~Tick
    <3>1. clock' = clock
      BY <2>2 DEF AuthNext, Serve, StartRegister, StartLogin, Begin, StartRefresh,
         StartLogout, CreateUser, CheckPassword, IssueSession, RotateSession, FindSession,
         RevokeAll, LoadUser, RevokeSession, StatementFails, RotationAnswerLost
    <3> QED
      BY <1>0, <3>1 DEF AuthTypeOK
  <2> QED
    BY <2>1, <2>2
<1>2. \A s \in Issued : row[s].revoked_at # NULL => s \in Issued' /\ row'[s] = row[s]
  BY StepKeepsRows DEF Kept, Issued
<1>3. \A s \in Issued : row[s] \in SessionRow
  BY <1>0 DEF AuthTypeOK, Issued
<1>4. ReuseInv'
  <2>1. ASSUME NEW r \in Requests, pc'[r] = "revoke_all"
        PROVE  /\ req'[r] = req[r]
               /\ \E s \in Issued : /\ row[s].user = req[r].user
                                    /\ row[s].revoked_at # NULL
                                    /\ row[s].revoked_at + Window < clock
    <3>1. CASE pc[r] = "revoke_all"
      <4>1. req'[r] = req[r]
        BY ZenonT(60), <1>0, <2>1, <3>1 DEF AuthTypeOK, AuthNext, Tick, Serve, StartRegister, StartLogin,
           Begin, StartRefresh, StartLogout, CreateUser, CheckPassword, IssueSession,
           RotateSession, FindSession, RevokeAll, LoadUser, RevokeSession, StatementFails,
           RotationAnswerLost
      <4> QED
        BY <1>0, <3>1, <4>1 DEF ReuseInv
    <3>2. CASE pc[r] # "revoke_all"
      <4>1. FindSession(r) /\ pc' = [pc EXCEPT ![r] = "revoke_all"]
        <5>1. ASSUME NEW q \in Requests, NEW s \in Steps \ {"revoke_all"},
                     pc' = [pc EXCEPT ![q] = s] \/ pc' = pc
              PROVE  FALSE
          BY <1>0, <2>1, <3>2, <5>1 DEF AuthTypeOK
        <5>2. PICK q \in Requests : FindSession(q)
          <6>1. ASSUME NEW q \in Requests, NEW s \in Steps, s # "revoke_all",
                       GoTo(q, s) \/ \E code : Answer(q, code)
                PROVE  FALSE
            BY <5>1, <6>1 DEF GoTo, Answer, Steps
          <6>2. ASSUME NEW q \in Requests,
                       \/ \E u \in Users : StartRegister(q, u) \/ StartLogin(q, u)
                       \/ \E t \in Tokens : StartRefresh(q, t) \/ StartLogout(q, t)
                PROVE  FALSE
            BY <6>1, <6>2 DEF StartRegister, StartLogin, Begin, StartRefresh, StartLogout, Steps
          <6>3. ASSUME NEW q \in Requests, Serve(q), ~FindSession(q)
                PROVE  FALSE
            BY <6>1, <6>3 DEF Serve, CreateUser, CheckPassword, IssueSession, RotateSession,
               RevokeAll, LoadUser, RevokeSession, StatementFails, RotationAnswerLost, Steps
          <6>4. ~Tick
            BY <5>1 DEF Tick, Steps
          <6>5. Delivered \subseteq Tokens
            BY <1>0 DEF Delivered, AuthTypeOK
          <6> QED
            BY <6>2, <6>3, <6>4, <6>5 DEF AuthNext
        <5>3. pc' = [pc EXCEPT ![q] = "revoke_all"]
          BY <5>1, <5>2 DEF FindSession, GoTo, Answer, Steps
        <5>4. q = r
          BY <1>0, <2>1, <3>2, <5>3 DEF AuthTypeOK
        <5> QED
          BY <5>2, <5>3, <5>4
      <4>2. /\ req[r] # NULL /\ req[r].token \in Issued
            /\ row[req[r].token].user = req[r].user
        BY <1>0, <4>1 DEF FindSession, RequestInv, UserInv, AuthTypeOK, Request, Issued
      <4>3. row[req[r].token].revoked_at # NULL /\ clock - row[req[r].token].revoked_at > Window
        BY <1>0, <4>1 DEF FindSession, Answer, AuthTypeOK
      <4>4. row[req[r].token].revoked_at \in Nat
        BY <1>3, <4>2, <4>3 DEF SessionRow
      <4>5. row[req[r].token].revoked_at + Window < clock
        BY <1>1, <4>3, <4>4
      <4> QED
        BY <4>1, <4>2, <4>3, <4>5 DEF FindSession
    <3> QED
      BY <3>1, <3>2
  <2>2. ASSUME NEW r \in Requests, pc'[r] = "revoke_all"
        PROVE  \E s \in Issued' : /\ row'[s].user = req'[r].user
                                  /\ row'[s].revoked_at # NULL
                                  /\ row'[s].revoked_at + Window < clock'
    <3>1. PICK s \in Issued : /\ row[s].user = req[r].user
                              /\ row[s].revoked_at # NULL
                              /\ row[s].revoked_at + Window < clock
      BY <2>1, <2>2
    <3>2. row[s].revoked_at \in Nat
      BY <1>3, <3>1 DEF SessionRow
    <3>3. row[s].revoked_at + Window < clock'
      BY <1>1, <3>1, <3>2
    <3> QED
      BY <1>2, <2>1, <2>2, <3>1, <3>3
  <2> QED
    BY <2>2 DEF ReuseInv
<1>5. ASSUME NEW t \in Issued', row'[t].ended = "reuse"
      PROVE  \E s \in Issued' : /\ row'[s].user = row'[t].user
                                /\ row'[s].revoked_at # NULL
                                /\ row'[s].revoked_at + Window < row'[t].revoked_at
  <2>1. CASE t \in Issued /\ row[t].ended = "reuse"
    <3>1. row[t].revoked_at # NULL /\ row'[t] = row[t]
      BY <1>2, <2>1 DEF IInv, RowInv
    <3> QED
      BY <1>2, <2>1, <3>1 DEF IInv, MassSignOutNeedsStaleToken
  <2>2. CASE t \notin Issued
    <3>1. PICK r \in Requests, n \in Tokens : IssueSession(r, n)
      <4>1. ~ \E S \in SUBSET {x \in Tokens : Unrevoked(x)} :
                \E why \in {"rotation", "logout", "reuse"} : row' = Revoked(S, why)
        BY <1>0, <2>2, RevokedRows DEF Issued
      <4>2. ASSUME NEW r \in Requests, RotateStep(r)
            PROVE  {req[r].token} \in SUBSET {x \in Tokens : Unrevoked(x)}
        BY <1>0, <4>2 DEF RotateStep, Active, RequestInv, AuthTypeOK, Request
      <4> QED
        BY <4>1, <4>2, StepShape DEF QuietStep, RotateStep
    <3> QED
      BY <1>0, <1>5, <2>2, <3>1 DEF IssueSession, Issued, AuthTypeOK
  <2>3. CASE t \in Issued /\ row[t].ended # "reuse"
    <3>1. PICK r \in Requests : RevokeAll(r)
      BY <1>0, <1>5, <2>3, StepWithoutReuse
    <3>2. PICK s \in Issued : /\ row[s].user = req[r].user
                              /\ row[s].revoked_at # NULL
                              /\ row[s].revoked_at + Window < clock
      BY <1>0, <3>1 DEF RevokeAll, ReuseInv
    <3>3. row'[t].revoked_at = clock /\ row'[t].user = req[r].user
      <4> DEFINE live == {x \in Tokens : Unrevoked(x) /\ row[x].user = req[r].user}
      <4>1. row' = Revoked(live, "reuse")
        BY <3>1 DEF RevokeAll
      <4>2. t \in live
        BY <1>0, <1>5, <2>3, <4>1 DEF Revoked, Issued
      <4> QED
        BY <1>0, <4>1, <4>2, RevokedRows
    <3> QED
      BY <1>2, <3>2, <3>3
  <2> QED
    BY <2>1, <2>2, <2>3
<1> QED
  BY <1>4, <1>5 DEF MassSignOutNeedsStaleToken

-----------------------------------------------------------------------------
(* Theorems. *)

LEMMA InitInv == AuthInit => IInv
<1> SUFFICES ASSUME AuthInit PROVE IInv
  OBVIOUS
<1>1. Issued = {} /\ \A t \in Tokens : ~Unrevoked(t)
  BY DEF AuthInit, Issued, Unrevoked
<1>2. AuthTypeOK
  BY DEF AuthInit, AuthTypeOK, Steps, Replies
<1>3. RequestInv /\ CarryInv /\ ReuseInv /\ UserInv
  BY DEF AuthInit, RequestInv, CarryInv, Carrying, ReuseInv, UserInv
<1> QED
  BY <1>1, <1>2, <1>3 DEF IInv, RowInv, OneSuccessor, OneSessionPerLogin,
     MassSignOutNeedsStaleToken

LEMMA NextInv == IInv /\ [AuthNext]_authVars => IInv'
<1>1. ASSUME IInv, AuthNext
      PROVE  IInv'
  <2>1. AuthTypeOK' /\ RequestInv' /\ UserInv'
    BY <1>1, TypeStep, RequestStep
  <2>2. ChainInv'
    BY <1>1, <2>1, StepShape, ChainQuiet, ChainRotate, ChainIssue
  <2>3. ReuseInv' /\ MassSignOutNeedsStaleToken'
    BY <1>1, <2>1, ReuseStep
  <2> QED
    BY <2>1, <2>2, <2>3 DEF IInv, ChainInv
<1>2. ASSUME IInv, UNCHANGED authVars
      PROVE  IInv'
  BY <1>2 DEF authVars, IInv, AuthTypeOK, RequestInv, RowInv, CarryInv, Carrying, OneSuccessor,
     OneSessionPerLogin, ReuseInv, UserInv, MassSignOutNeedsStaleToken, Issued, Unrevoked
<1> QED
  BY <1>1, <1>2

\* The inductive invariant holds in every reachable state.
THEOREM Invariance == AuthSpec => []IInv
BY InitInv, NextInv, PTL DEF AuthSpec

\* Types: every row and request is well formed.
THEOREM SessionTypes == AuthSpec => []AuthTypeOK
BY Invariance, PTL DEF IInv

\* A refresh token is exchanged for at most one successor (RotateSession).
THEOREM RotationIsSingleUse == AuthSpec => []OneSuccessor
BY Invariance, PTL DEF IInv

\* One login never has two unrevoked sessions, however its refreshes race.
THEOREM LoginHasOneSession == AuthSpec => []OneSessionPerLogin
BY Invariance, PTL DEF IInv

\* A logged-out or mass-revoked token never gets a successor.
THEOREM LogoutIsFinal == AuthSpec => []OnlyRotationContinues
<1>1. IInv => OnlyRotationContinues
  BY DEF IInv, RowInv, OnlyRotationContinues
<1> QED
  BY <1>1, Invariance, PTL

\* Reuse detection signs a user out only after a replay outside the window.
THEOREM WindowIsRespected == AuthSpec => []MassSignOutNeedsStaleToken
BY Invariance, PTL DEF IInv

\* revoked_at is written once.
THEOREM RevokedOnce == AuthSpec => RevocationIsFinal
<1>1. IInv /\ [AuthNext]_authVars =>
        [\A t \in Issued : row[t].revoked_at # NULL => row'[t] = row[t]]_authVars
  BY StepKeepsRows DEF Kept
<1> QED
  BY <1>1, Invariance, PTL DEF AuthSpec, RevocationIsFinal

-----------------------------------------------------------------------------
(* The service implements the ledger of refresh tokens. *)

StateMap == [t \in Tokens |-> StateOf(t)]
OwnerMap == [t \in Tokens |-> IF row[t] = NULL THEN NULL ELSE row[t].user]

\* What a state of the ledger says of the row.
LEMMA StateMeans ==
    ASSUME AuthTypeOK, NEW t \in Tokens
    PROVE  /\ StateMap[t] = "unborn" <=> row[t] = NULL
           /\ StateMap[t] = "live" <=> Active(t)
           /\ StateMap[t] \in {"live", "expired"} <=> Unrevoked(t)
           /\ StateMap[t] = "stale" <=> (/\ row[t] # NULL /\ row[t].revoked_at # NULL
                                         /\ clock - row[t].revoked_at > Window)
           /\ row[t] # NULL => OwnerMap[t] = row[t].user
<1>1. StateMap[t] = StateOf(t) /\ OwnerMap[t] = IF row[t] = NULL THEN NULL ELSE row[t].user
  BY DEF StateMap, OwnerMap
<1> QED
  BY <1>1 DEF StateOf, Active, Unrevoked

\* Revoked tokens are recent, and nothing else in the ledger moves.
LEMMA RevokedStates ==
    ASSUME AuthTypeOK, NEW S \in SUBSET {t \in Tokens : Unrevoked(t)},
           NEW why \in {"rotation", "logout", "reuse"}, row' = Revoked(S, why), clock' = clock
    PROVE  /\ StateMap' = [t \in Tokens |-> IF t \in S THEN "recent" ELSE StateMap[t]]
           /\ OwnerMap' = OwnerMap
<1> USE AuthAssumption
<1>1. /\ \A t \in S : /\ row[t] # NULL /\ row'[t] # NULL
                      /\ row'[t].user = row[t].user /\ row'[t].revoked_at = clock
      /\ \A t \in Tokens \ S : row'[t] = row[t]
      /\ clock \in Nat /\ clock # NULL /\ ~(clock - clock > Window)
  BY RevokedRows DEF AuthTypeOK
<1>2. ASSUME NEW t \in Tokens
      PROVE  StateOf(t)' = IF t \in S THEN "recent" ELSE StateMap[t]
  BY <1>1, <1>2 DEF StateOf, StateMap
<1>3. StateMap' = [t \in Tokens |-> IF t \in S THEN "recent" ELSE StateMap[t]]
  BY <1>2 DEF StateMap
<1>4. OwnerMap' = OwnerMap
  BY <1>1 DEF OwnerMap
<1> QED
  BY <1>3, <1>4

LEMMA OpenMeans == OpenTokens = {req[r].token : r \in {q \in Requests : Carrying(q)}}
BY DEF OpenTokens, Carrying

\* A step that moves no refresh between its rotation and its next row leaves
\* the due successors alone.
LEMMA SameOpen ==
    ASSUME \A q \in Requests : Carrying(q)' <=> Carrying(q),
           \A q \in Requests : Carrying(q) => req'[q] = req[q]
    PROVE  OpenTokens' = OpenTokens
<1>1. OpenTokens' = {req'[r].token : r \in {q \in Requests : Carrying(q)'}}
  BY DEF OpenTokens, Carrying
<1> QED
  BY <1>1, OpenMeans

\* The one refresh of a due successor is gone: the successor is due no more.
LEMMA ClosedOpen ==
    ASSUME AuthTypeOK, RequestInv, CarryInv, NEW r \in Requests, Carrying(r), req' = req,
           \A q \in Requests : Carrying(q)' <=> Carrying(q) /\ q # r
    PROVE  /\ req[r].token \in OpenTokens /\ req[r].token \in Tokens
           /\ OpenTokens' = OpenTokens \ {req[r].token}
<1>1. OpenTokens' = {req[q].token : q \in {p \in Requests : Carrying(p) /\ p # r}}
  <2>1. OpenTokens' = {req'[q].token : q \in {p \in Requests : Carrying(p)'}}
    BY DEF OpenTokens, Carrying
  <2> QED
    BY <2>1
<1>2. \A q \in Requests : Carrying(q) /\ q # r => req[q].token # req[r].token
  BY DEF CarryInv
<1>3. req[r].token \in Tokens
  BY DEF Carrying, RequestInv, AuthTypeOK, Request
<1> QED
  BY <1>1, <1>2, <1>3, OpenMeans

LEMMA InitLedger == AuthInit => Ledger!LedgerInit
<1> SUFFICES ASSUME AuthInit PROVE Ledger!LedgerInit
  OBVIOUS
<1>1. [t \in Tokens |-> StateOf(t)] = [t \in Tokens |-> "unborn"]
  BY DEF AuthInit, StateOf
<1>2. [t \in Tokens |-> IF row[t] = NULL THEN NULL ELSE row[t].user] = [t \in Tokens |-> NULL]
  BY DEF AuthInit
<1>3. OpenTokens = {}
  BY DEF AuthInit, OpenTokens
<1> QED
  BY <1>1, <1>2, <1>3 DEF Ledger!LedgerInit

\* A step that changes neither the rows nor the clock nor the refreshes under
\* way is not seen in the ledger.
LEMMA Unseen ==
    ASSUME row' = row, clock' = clock,
           \A q \in Requests : Carrying(q)' <=> Carrying(q),
           \A q \in Requests : Carrying(q) => req'[q] = req[q]
    PROVE  UNCHANGED Ledger!ledgerVars
BY SameOpen DEF Ledger!ledgerVars, StateOf

\* The rotation, heard or not.
LEMMA RotateLedger ==
    ASSUME IInv, NEW r \in Requests, RotateSession(r) \/ RotationAnswerLost(r)
    PROVE  Ledger!LedgerNext(Users) \/ UNCHANGED Ledger!ledgerVars
<1> DEFINE t == req[r].token
<1>0. AuthTypeOK /\ RequestInv
  BY DEF IInv
<1>1. pc[r] = "rotate" /\ t \in Tokens /\ req' = req /\ clock' = clock
  BY <1>0 DEF RotateSession, RotationAnswerLost, RequestInv, AuthTypeOK, Request
<1>2. CASE Active(t)
  <2>1. row' = Revoked({t}, "rotation") /\ {t} \in SUBSET {s \in Tokens : Unrevoked(s)}
    BY <1>1, <1>2 DEF RotateSession, RotationAnswerLost, Active
  <2>2. StateMap' = [StateMap EXCEPT ![t] = "recent"] /\ OwnerMap' = OwnerMap
    <3> HIDE DEF t
    <3>1. /\ StateMap' = [s \in Tokens |-> IF s \in {t} THEN "recent" ELSE StateMap[s]]
          /\ OwnerMap' = OwnerMap
      BY <1>0, <1>1, <2>1, RevokedStates
    <3> QED
      BY <1>1, <3>1 DEF StateMap
  <2>3. StateMap[t] = "live"
    BY <1>0, <1>1, <1>2, StateMeans
  <2>4. CASE RotateSession(r)
    <3>1. \A q \in Requests : Carrying(q)' <=> Carrying(q) \/ q = r
      BY <1>0, <1>1, <1>2, <2>4, AuthAssumption DEF RotateSession, GoTo, Carrying, AuthTypeOK
    <3>2. OpenTokens' = {req[q].token : q \in {p \in Requests : Carrying(p) \/ p = r}}
      <4>1. OpenTokens' = {req'[q].token : q \in {p \in Requests : Carrying(p)'}}
        BY DEF OpenTokens, Carrying
      <4> QED
        BY <1>1, <3>1, <4>1
    <3>3. OpenTokens' = OpenTokens \cup {t}
      BY <3>2, OpenMeans
    <3>4. Ledger!Rotate(t)
      BY <2>2, <2>3, <3>3 DEF Ledger!Rotate, StateMap, OwnerMap
    <3> QED
      BY <1>1, <3>4 DEF Ledger!LedgerNext
  <2>5. CASE RotationAnswerLost(r)
    <3>1. \A q \in Requests : Carrying(q)' <=> Carrying(q)
      BY <1>0, <1>1, <2>5 DEF RotationAnswerLost, Answer, Carrying, AuthTypeOK
    <3>2. OpenTokens' = OpenTokens
      BY <1>1, <3>1, SameOpen
    <3>3. Ledger!RotateUnheard(t)
      BY <2>2, <2>3, <3>2 DEF Ledger!RotateUnheard, StateMap, OwnerMap
    <3> QED
      BY <1>1, <3>3 DEF Ledger!LedgerNext
  <2> QED
    BY <2>4, <2>5
<1>3. CASE ~Active(t)
  <2>1. row' = row /\ \A q \in Requests : Carrying(q)' <=> Carrying(q)
    BY <1>0, <1>1, <1>3 DEF RotateSession, RotationAnswerLost, GoTo, Carrying, AuthTypeOK
  <2> QED
    BY <1>1, <2>1, Unseen
<1> QED
  BY <1>2, <1>3

\* A new pair is the login of its user or the successor that was due.
LEMMA IssueLedger ==
    ASSUME IInv, NEW r \in Requests, NEW n \in Tokens, IssueSession(r, n)
    PROVE  Ledger!LedgerNext(Users)
<1> USE AuthAssumption, RowAssumption
<1> DEFINE u == req[r].user
           k == req[r].token
<1>0. AuthTypeOK /\ RequestInv /\ CarryInv /\ UserInv
  BY DEF IInv
<1>1. /\ pc[r] = "issue" /\ req[r] # NULL /\ u \in Users /\ req' = req /\ clock' = clock
      /\ k \in Tokens \cup {NULL} /\ row[n] = NULL
  BY <1>0 DEF IssueSession, RequestInv, AuthTypeOK, Request
<1>2. /\ row'[n] # NULL /\ row'[n].user = u /\ row'[n].revoked_at = NULL
      /\ row'[n].expires_at = clock + RefreshTTL
      /\ \A t \in Tokens : t # n => row'[t] = row[t]
  <2>1. /\ row' = [row EXCEPT ![n] = row'[n]]
        /\ row'[n] = [user |-> u, expires_at |-> clock + RefreshTTL, revoked_at |-> NULL,
                      from |-> k, login |-> IF k = NULL THEN n ELSE row[k].login, ended |-> "no"]
    BY <1>0 DEF IssueSession, AuthTypeOK
  <2>2. row'[n] # NULL
    <3>1. clock + RefreshTTL \in Nat
      BY <1>0 DEF AuthTypeOK
    <3>2. k # NULL => row[k] \in SessionRow
      BY <1>0, <1>1 DEF RequestInv, AuthTypeOK
    <3>3. (IF k = NULL THEN n ELSE row[k].login) \in Tokens
      BY <1>1, <3>2 DEF SessionRow
    <3>4. row'[n] \in SessionRow
      BY <1>1, <2>1, <3>1, <3>3 DEF SessionRow
    <3> QED
      BY <3>4
  <2> QED
    BY <1>0, <2>1, <2>2 DEF AuthTypeOK
<1>3. StateMap' = [StateMap EXCEPT ![n] = "live"] /\ OwnerMap' = [OwnerMap EXCEPT ![n] = u]
  <2>1. clock' + RefreshTTL > clock'
    BY <1>0, <1>1 DEF AuthTypeOK
  <2>2. \A t \in Tokens : StateOf(t)' = IF t = n THEN "live" ELSE StateOf(t)
    BY <1>1, <1>2, <2>1 DEF StateOf
  <2> QED
    BY <1>2, <2>2 DEF StateMap, OwnerMap
<1>4. StateMap[n] = "unborn"
  BY <1>0, <1>1, StateMeans
<1>5. CASE k = NULL
  <2>1. \A q \in Requests : Carrying(q)' <=> Carrying(q)
    BY <1>0, <1>1, <1>5 DEF IssueSession, Answer, Carrying, AuthTypeOK
  <2>2. OpenTokens' = OpenTokens
    BY <1>1, <2>1, SameOpen
  <2>3. Ledger!Login(n, u)
    BY <1>3, <1>4, <2>2 DEF Ledger!Login, Ledger!Grant, StateMap, OwnerMap
  <2> QED
    BY <1>1, <2>3 DEF Ledger!LedgerNext
<1>6. CASE k # NULL
  <2>1. Carrying(r) /\ \A q \in Requests : Carrying(q)' <=> Carrying(q) /\ q # r
    BY <1>0, <1>1, <1>6 DEF IssueSession, Answer, Carrying, AuthTypeOK
  <2>2. k \in OpenTokens /\ k \in Tokens /\ OpenTokens' = OpenTokens \ {k}
    BY <1>0, <1>1, <2>1, ClosedOpen
  <2>3. OwnerMap[k] = u
    BY <1>0, <1>1, <1>6, <2>2, StateMeans DEF UserInv
  <2>4. Ledger!Renew(k, n)
    BY <1>3, <1>4, <2>2, <2>3 DEF Ledger!Renew, Ledger!Grant, StateMap, OwnerMap
  <2> QED
    BY <2>2, <2>4 DEF Ledger!LedgerNext
<1> QED
  BY <1>5, <1>6

\* Logout and reuse detection end tokens; no successor becomes due.
LEMMA RevokeLedger ==
    ASSUME IInv, NEW r \in Requests, RevokeSession(r) \/ RevokeAll(r)
    PROVE  Ledger!LedgerNext(Users) \/ UNCHANGED Ledger!ledgerVars
<1> DEFINE t == req[r].token
           live == {x \in Tokens : Unrevoked(x) /\ row[x].user = req[r].user}
<1>0. AuthTypeOK /\ RequestInv /\ ReuseInv
  BY DEF IInv
<1>1. req' = req /\ clock' = clock /\ \A q \in Requests : Carrying(q)' <=> Carrying(q)
  BY <1>0 DEF RevokeSession, RevokeAll, Answer, Carrying, AuthTypeOK
<1>2. OpenTokens' = OpenTokens
  BY <1>1, SameOpen
<1>3. CASE RevokeSession(r)
  <2>1. t \in Tokens
    BY <1>0, <1>3 DEF RevokeSession, RequestInv, AuthTypeOK, Request
  <2>2. CASE Unrevoked(t)
    <3>1. row' = Revoked({t}, "logout") /\ {t} \in SUBSET {s \in Tokens : Unrevoked(s)}
      <4>1. {x \in {t} : Unrevoked(x)} = {t}
        BY <2>2
      <4> QED
        BY <1>3, <2>1, <2>2, <4>1 DEF RevokeSession
    <3>2. StateMap' = [s \in Tokens |-> IF s \in {t} THEN "recent" ELSE StateMap[s]]
          /\ OwnerMap' = OwnerMap
      <4> HIDE DEF t
      <4> QED
        BY <1>0, <1>1, <3>1, RevokedStates
    <3>3. t \in Ledger!Unrevoked
      BY <1>0, <2>1, <2>2, StateMeans DEF Ledger!Unrevoked, StateMap
    <3>4. Ledger!Logout(t)
      BY <1>2, <3>2, <3>3 DEF Ledger!Logout, Ledger!End, StateMap, OwnerMap
    <3> QED
      BY <2>1, <3>4 DEF Ledger!LedgerNext
  <2>3. CASE ~Unrevoked(t)
    <3>1. row' = row
      BY <1>0, <1>3, <2>3 DEF RevokeSession, Revoked, AuthTypeOK
    <3> QED
      BY <1>1, <3>1, Unseen
  <2> QED
    BY <2>2, <2>3
<1>4. CASE RevokeAll(r)
  <2>1. PICK s \in Issued : /\ row[s].user = req[r].user
                            /\ row[s].revoked_at # NULL
                            /\ row[s].revoked_at + Window < clock
    BY <1>0, <1>4 DEF RevokeAll, ReuseInv
  <2>2. StateMap[s] = "stale" /\ s \in Tokens /\ OwnerMap[s] = req[r].user
    <3>1. s \in Tokens /\ row[s] # NULL /\ row[s].revoked_at \in Nat
      BY <1>0, <2>1 DEF Issued, AuthTypeOK, SessionRow
    <3>2. clock - row[s].revoked_at > Window
      BY <1>0, <2>1, <3>1, AuthAssumption DEF AuthTypeOK
    <3> QED
      BY <1>0, <2>1, <3>1, <3>2, StateMeans
  <2>3. row' = Revoked(live, "reuse") /\ live \in SUBSET {x \in Tokens : Unrevoked(x)}
    BY <1>4 DEF RevokeAll
  <2>4. /\ StateMap' = [x \in Tokens |-> IF x \in live THEN "recent" ELSE StateMap[x]]
        /\ OwnerMap' = OwnerMap
    <3> HIDE DEF live
    <3> QED
      BY <1>0, <1>1, <2>3, RevokedStates
  <2>5. live = {x \in Ledger!Unrevoked : OwnerMap[x] = OwnerMap[s]}
    <3>1. \A x \in Tokens : Unrevoked(x) <=> StateMap[x] \in {"live", "expired"}
      BY <1>0, StateMeans
    <3>2. \A x \in Tokens : Unrevoked(x) => OwnerMap[x] = row[x].user
      BY <1>0, StateMeans DEF Unrevoked
    <3>3. Ledger!Unrevoked = {x \in Tokens : Unrevoked(x)}
      BY <3>1 DEF Ledger!Unrevoked, StateMap
    <3> QED
      BY <2>2, <3>2, <3>3
  <2>6. Ledger!EndAll(s)
    <3> HIDE DEF live
    <3> QED
      BY <1>2, <2>2, <2>4, <2>5 DEF Ledger!EndAll, Ledger!End, StateMap, OwnerMap
  <2> QED
    BY <2>2, <2>6 DEF Ledger!LedgerNext
<1> QED
  BY <1>3, <1>4

\* The error of a statement loses the successor its request owed, if it did.
LEMMA FailLedger ==
    ASSUME IInv, NEW r \in Requests, StatementFails(r)
    PROVE  Ledger!LedgerNext(Users) \/ UNCHANGED Ledger!ledgerVars
<1>0. AuthTypeOK /\ RequestInv /\ CarryInv
  BY DEF IInv
<1>1. /\ req' = req /\ clock' = clock /\ row' = row
      /\ \A q \in Requests : Carrying(q)' <=> Carrying(q) /\ q # r
  BY <1>0 DEF StatementFails, Answer, Carrying, AuthTypeOK
<1>2. CASE Carrying(r)
  <2>1. /\ req[r].token \in OpenTokens /\ req[r].token \in Tokens
        /\ OpenTokens' = OpenTokens \ {req[r].token}
    BY <1>0, <1>1, <1>2, ClosedOpen
  <2>2. Ledger!Forfeit(req[r].token)
    BY <1>1, <2>1 DEF Ledger!Forfeit, StateOf
  <2> QED
    BY <2>1, <2>2 DEF Ledger!LedgerNext
<1>3. CASE ~Carrying(r)
  <2>1. \A q \in Requests : Carrying(q)' <=> Carrying(q)
    BY <1>1, <1>3
  <2> QED
    BY <1>1, <2>1, Unseen
<1> QED
  BY <1>2, <1>3

\* A tick lets live tokens expire and recent ones become stale, no others.
LEMMA TickLedger ==
    ASSUME AuthTypeOK, Tick
    PROVE  Ledger!LedgerNext(Users)
<1> DEFINE S == {t \in Tokens : StateOf(t)' # StateOf(t)}
<1>1. clock \in Nat /\ clock' = clock + 1 /\ row' = row /\ Window \in Nat
  BY AuthAssumption DEF AuthTypeOK, Tick
<1>2. ASSUME NEW t \in S
      PROVE  /\ StateOf(t) \in {"live", "recent"}
             /\ StateOf(t)' = IF StateOf(t) = "live" THEN "expired" ELSE "stale"
  <2>1. row[t] # NULL
    BY <1>1, <1>2 DEF StateOf
  <2>2. row[t].expires_at \in Nat /\ row[t].revoked_at \in Nat \cup {NULL}
    BY <1>2, <2>1 DEF AuthTypeOK, SessionRow
  <2>3. CASE row[t].revoked_at = NULL
    BY <1>1, <1>2, <2>1, <2>2, <2>3 DEF StateOf
  <2>4. CASE row[t].revoked_at # NULL
    BY <1>1, <1>2, <2>1, <2>2, <2>4 DEF StateOf
  <2> QED
    BY <2>3, <2>4
<1>3. \A t \in S : StateMap[t] \in {"live", "recent"}
  BY <1>2 DEF StateMap
<1>4. StateMap' = [t \in Tokens |-> IF t \notin S THEN StateMap[t]
                                    ELSE IF StateMap[t] = "live" THEN "expired" ELSE "stale"]
  <2>1. \A t \in Tokens : StateOf(t)' = IF t \notin S THEN StateMap[t]
                                        ELSE IF StateMap[t] = "live" THEN "expired" ELSE "stale"
    BY <1>2 DEF StateMap
  <2> QED
    BY <2>1 DEF StateMap
<1>5. OwnerMap' = OwnerMap
  BY <1>1 DEF OwnerMap
<1>6. OpenTokens' = OpenTokens
  BY DEF Tick, OpenTokens
<1>7. Ledger!Age(S)
  <2> HIDE DEF S
  <2> QED
    BY <1>3, <1>4, <1>5, <1>6 DEF Ledger!Age, StateMap, OwnerMap
<1> QED
  BY <1>7 DEF Ledger!LedgerNext

\* Every step of the service is a step of the ledger or is not seen there.
LEMMA LedgerStep ==
    ASSUME IInv, AuthNext
    PROVE  Ledger!LedgerNext(Users) \/ UNCHANGED Ledger!ledgerVars
<1>0. AuthTypeOK /\ RequestInv /\ Delivered \subseteq Tokens
  BY DEF IInv, AuthTypeOK, Delivered
<1>1. ASSUME NEW r \in Requests,
             \/ \E u \in Users : StartRegister(r, u) \/ StartLogin(r, u)
             \/ \E t \in Tokens : StartRefresh(r, t) \/ StartLogout(r, t)
      PROVE  UNCHANGED Ledger!ledgerVars
  <2>1. /\ row' = row /\ clock' = clock
        /\ \A q \in Requests : q # r => req'[q] = req[q] /\ pc'[q] = pc[q]
        /\ pc[r] = "idle" /\ pc'[r] \notin {"load_user", "issue"}
    BY <1>0, <1>1 DEF StartRegister, StartLogin, Begin, StartRefresh, StartLogout, GoTo, Answer,
       AuthTypeOK
  <2>2. \A q \in Requests : Carrying(q)' <=> Carrying(q)
    BY <2>1 DEF Carrying
  <2>3. \A q \in Requests : Carrying(q) => req'[q] = req[q]
    BY <2>1 DEF Carrying
  <2> QED
    BY <2>1, <2>2, <2>3, Unseen
<1>2. ASSUME NEW r \in Requests,
             CreateUser(r) \/ CheckPassword(r) \/ FindSession(r) \/ LoadUser(r)
      PROVE  UNCHANGED Ledger!ledgerVars
  <2>1. row' = row /\ clock' = clock /\ req' = req
    BY <1>2 DEF CreateUser, CheckPassword, FindSession, LoadUser
  <2>2. CreateUser(r) \/ CheckPassword(r) => req[r].token = NULL
    BY <1>0 DEF CreateUser, CheckPassword, RequestInv
  <2>3. \A q \in Requests : Carrying(q)' <=> Carrying(q)
    BY <1>0, <1>2, <2>1, <2>2 DEF CreateUser, CheckPassword, FindSession, LoadUser, GoTo, Answer,
       Carrying, AuthTypeOK
  <2> QED
    BY <2>1, <2>3, Unseen
<1> QED
  BY <1>0, <1>1, <1>2, RotateLedger, IssueLedger, RevokeLedger, FailLedger, TickLedger
     DEF AuthNext, Serve

\* The register, login, refresh and logout statements, interleaved with each
\* other, with failures and with the clock, are steps of the token ledger: a
\* token is exchanged at most once, ends once, and is taken away only by its own
\* logout or after a stale token of its user was presented.
THEOREM Implementation == AuthSpec => ImplementsSessionLedger
<1>1. AuthInit => Ledger!LedgerInit
  BY InitLedger
<1>2. IInv /\ [AuthNext]_authVars => [Ledger!LedgerNext(Users)]_(Ledger!ledgerVars)
  <2>1. ASSUME UNCHANGED authVars
        PROVE  UNCHANGED Ledger!ledgerVars
    <3>1. row' = row /\ clock' = clock /\ req' = req /\ pc' = pc
      BY <2>1 DEF authVars
    <3> QED
      BY <3>1, Unseen DEF Carrying
  <2> QED
    BY <2>1, LedgerStep
<1> QED
  BY <1>1, <1>2, Invariance, PTL DEF AuthSpec, ImplementsSessionLedger

===============================================================================
