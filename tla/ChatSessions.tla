---------------------------- MODULE ChatSessions ----------------------------
(***************************************************************************)
(* The chat sessions of the shop: rows that are opened for a browser, are  *)
(* bound to a guest identity, slide their expiry with every use, and are   *)
(* deleted by an hourly cleanup some time after they expired.  Every       *)
(* operator is one database statement; ChatTurn and the cleanup below put  *)
(* them in order.  A row is NULL before it is created and after it is gone.*)
(***************************************************************************)
EXTENDS Naturals, FiniteSets

CONSTANTS
    ChatIDs,     \* ids of chat sessions, 1 .. n
    Guests,      \* guest identities
    Orders,      \* orders, which a marker of the chat names
    GuestSessionTTL,
    Grace,       \* AITimeout plus chatSessionCleanupGraceExtra
    NULL

VARIABLES
    chat,        \* the rows: guest, selected, expires, marker
    deleted,     \* rows the cleanup has deleted
    live,        \* guest identities that have not expired
    clock,
    cleaning     \* what the cleanup has selected, NULL when it does not run

sessionVars == <<chat, deleted, live, clock, cleaning>>

\* A row of chat_sessions.
ChatRow ==
    [guest : Guests \cup {NULL}, selected : BOOLEAN, expires : Nat, marker : Orders \cup {NULL}]

\* The row a browser without a usable cookie is given.
NewChat(guest) ==
    [guest |-> guest, selected |-> FALSE, expires |-> clock + GuestSessionTTL, marker |-> NULL]

Exists(c) == c # NULL /\ chat[c] # NULL
Expired(c) == chat[c].expires <= clock

\* ResolveGuestSession: the session of the cookie, if it is there and not over.
Usable(c) == Exists(c) /\ ~Expired(c)

Unused == {c \in ChatIDs : chat[c] = NULL /\ c \notin deleted}

\* Ids are random; the first that is unused stands for all.  None is left when
\* the bound on them is reached.
Fresh == {c \in Unused : \A d \in Unused : c <= d}

CreateChatSession(c, guest) == chat' = [chat EXCEPT ![c] = NewChat(guest)]

\* Mutant: the blind UPDATE.
MayBind_blind(c, guest) == Exists(c)

\* BindChatSessionGuest: the row has no guest, this one, or a dead one.
MayBind(c, guest) == Exists(c) /\ (chat[c].guest = NULL \/ chat[c].guest = guest \/ chat[c].guest \notin live)

\* An UPDATE of a row that is gone changes nothing and is no error.
Set(c, row) == chat' = IF Exists(c) THEN [chat EXCEPT ![c] = row] ELSE chat

UpdateChatSessionSelectedTrip(c) == Set(c, [chat[c] EXCEPT !.selected = TRUE])
UpdateChatSessionActivity(c, expires) == Set(c, [chat[c] EXCEPT !.expires = expires])

\* The order marker is a system message of the chat; the newest one is found.
AddOrderMarker(c, order) == Set(c, [chat[c] EXCEPT !.marker = order])

-----------------------------------------------------------------------------
\* Mutant: the cutoff is now.
Due_now == {c \in ChatIDs : Exists(c) /\ chat[c].expires < clock}

\* Sessions that expired before the cutoff.
Due == {c \in ChatIDs : Exists(c) /\ chat[c].expires + Grace < clock}

\* DeleteExpiredChatSessions selects the ids, and deletes the messages, the logs
\* and the sessions by id at its commit; a failing statement rolls it back.
CleanupSelects ==
    /\ cleaning = NULL
    /\ Due # {}
    /\ cleaning' = Due
    /\ UNCHANGED <<chat, deleted, live, clock>>

CleanupDeletes ==
    /\ cleaning # NULL
    /\ chat' = [c \in ChatIDs |-> IF c \in cleaning THEN NULL ELSE chat[c]]
    /\ deleted' = deleted \cup cleaning
    /\ cleaning' = NULL
    /\ UNCHANGED <<live, clock>>

CleanupFails ==
    /\ cleaning # NULL
    /\ cleaning' = NULL
    /\ UNCHANGED <<chat, deleted, live, clock>>

\* A guest identity expires.
ExpireGuest(g) ==
    /\ g \in live
    /\ live' = live \ {g}
    /\ UNCHANGED <<chat, deleted, clock, cleaning>>

Tick ==
    /\ clock' = clock + 1
    /\ UNCHANGED <<chat, deleted, live, cleaning>>

\* GetGuestHistory reads the session and slides it; SelectPackage of the web page
\* is the select_package tool without a turn.
GuestHistory(c) ==
    /\ Usable(c)
    /\ UpdateChatSessionActivity(c, clock + GuestSessionTTL)
    /\ UNCHANGED <<deleted, live, clock, cleaning>>

GuestSelectPackage(c) ==
    /\ Usable(c)
    /\ UpdateChatSessionSelectedTrip(c)
    /\ UNCHANGED <<deleted, live, clock, cleaning>>

SessionsInit ==
    /\ chat = [c \in ChatIDs |-> IF c # 1 THEN NULL ELSE
            [guest |-> NULL, selected |-> FALSE, expires |-> GuestSessionTTL, marker |-> NULL]]
    /\ deleted = {}
    /\ live = Guests
    /\ clock = 0
    /\ cleaning = NULL
=============================================================================
