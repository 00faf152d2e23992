---------------------------- MODULE SessionLedger ----------------------------
(***************************************************************************)
(* What the auth service promises of refresh tokens, with requests, rows   *)
(* and clocks left out.  A login grants a live token.  A live token can be *)
(* rotated once; the rotation opens the right to one successor, which is   *)
(* used (Renew) or lost (Forfeit).  Any other way a token ends leaves no   *)
(* successor.  AuthSessions implements this specification, and             *)
(* RefreshCoordinator runs the browser against it.                         *)
(***************************************************************************)
CONSTANTS Tokens, NULL

VARIABLES
    state,  \* what presenting each token leads to
    owner,  \* whose token it is
    open    \* rotated tokens whose successor is still due

ledgerVars == <<state, owner, open>>

\* recent: revoked inside the concurrent window; stale: longer ago.
States == {"unborn", "live", "expired", "recent", "stale"}

Grant(t, u) ==
    /\ state[t] = "unborn"
    /\ state' = [state EXCEPT ![t] = "live"]
    /\ owner' = [owner EXCEPT ![t] = u]

Login(t, u) == Grant(t, u) /\ UNCHANGED open

\* The winner of the rotation may go on to a successor.
Rotate(t) ==
    /\ state[t] = "live"
    /\ state' = [state EXCEPT ![t] = "recent"]
    /\ open' = open \cup {t}
    /\ UNCHANGED owner

\* A rotation that commits while its winner fails.
RotateUnheard(t) ==
    /\ state[t] = "live"
    /\ state' = [state EXCEPT ![t] = "recent"]
    /\ UNCHANGED <<owner, open>>

Renew(t, n) ==
    /\ t \in open
    /\ Grant(n, owner[t])
    /\ open' = open \ {t}

Forfeit(t) ==
    /\ t \in open
    /\ open' = open \ {t}
    /\ UNCHANGED <<state, owner>>

Unrevoked == {t \in Tokens : state[t] \in {"live", "expired"}}

End(S) == state' = [t \in Tokens |-> IF t \in S THEN "recent" ELSE state[t]]

Logout(t) ==
    /\ t \in Unrevoked
    /\ End({t})
    /\ UNCHANGED <<owner, open>>

\* A stale token was presented: every unrevoked token of its owner ends.
EndAll(t) ==
    /\ state[t] = "stale"
    /\ End({s \in Unrevoked : owner[s] = owner[t]})
    /\ UNCHANGED <<owner, open>>

\* Tokens that were revoked become stale, live ones expire.
Age(S) ==
    /\ \A t \in S : state[t] \in {"live", "recent"}
    /\ state' = [t \in Tokens |->
                    IF t \notin S THEN state[t]
                    ELSE IF state[t] = "live" THEN "expired" ELSE "stale"]
    /\ UNCHANGED <<owner, open>>

LedgerInit ==
    /\ state = [t \in Tokens |-> "unborn"]
    /\ owner = [t \in Tokens |-> NULL]
    /\ open = {}

LedgerNext(Users) ==
    \/ \E t \in Tokens, u \in Users : Login(t, u)
    \/ \E t \in Tokens : Rotate(t) \/ RotateUnheard(t) \/ Forfeit(t) \/ Logout(t) \/ EndAll(t)
    \/ \E t, n \in Tokens : Renew(t, n)
    \/ \E S \in SUBSET Tokens : Age(S)
=============================================================================
