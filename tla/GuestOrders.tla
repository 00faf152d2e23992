---------------------------- MODULE GuestOrders ----------------------------
(***************************************************************************)
(* Guest orders, account bookings and the claim that moves a guest order   *)
(* to an account, as the booking and guest services run them against       *)
(* PostgreSQL at READ COMMITTED.                                           *)
(*                                                                         *)
(* A request is one HTTP call.  Its control state pc[r] names the next     *)
(* database statement; the writes of an open transaction follow from pc[r] *)
(* (and held[r]) and reach session, booking and entitlement only when the  *)
(* transaction commits.  Row locks follow from pc[r] too: Holds(q, g) says *)
(* that q's open transaction has locked the row of guest session g.        *)
(***************************************************************************)
EXTENDS Naturals, FiniteSets

CONSTANTS
    Guests,            \* ids of guest_sessions rows
    Accounts,          \* ids of registered users
    Shop,              \* the shared guest user that owns unclaimed orders
    Requests,          \* HTTP requests; also the ids of the bookings they create
    Keys,              \* Idempotency-Key values (valid length)
    Emails, Phones,    \* normalised contact values
    Legacy,            \* guests whose order may have been claimed before claim markers existed
    MaxClaimedScopes,  \* maxClaimedGuestIdempotencyScopes
    NULL

ASSUME ConstantsAssumption ==
    /\ Legacy \subseteq Guests
    /\ Shop \notin Accounts
    /\ Guests \cap Accounts = {}
    /\ Guests \cap Requests = {}
    /\ IsFiniteSet(Guests)
    /\ MaxClaimedScopes \in Nat
    /\ NULL \notin Guests \cup Accounts \cup Requests \cup Emails \cup Phones \cup {Shop}

Orders == Requests \cup Legacy
Contacts == Emails \cup Phones

VARIABLES
    session,      \* guest_sessions
    booking,      \* bookings, committed rows only
    entitlement,  \* guest_order_entitlements: contact key -> booking
    req,          \* what each request carries
    pc,           \* the statement each request runs next
    held,         \* contact keys its open transaction has inserted
    reply,        \* the answer decided so far
    announced     \* bookings for which booking_created was published

vars == <<session, booking, entitlement, req, pc, held, reply, announced>>

SessionRow ==
    [state : {"none", "live", "expired"}, order_count : 0..1,
     first_order_id : Orders \cup {NULL}, claimed_user_id : Accounts \cup {NULL},
     claimed_at : Nat]

BookingRow ==
    [user_id : Accounts \cup {Shop}, guest_session_id : Guests \cup {NULL},
     hash : (Guests \cup Accounts) \X Keys, contact : SUBSET Contacts]

Request ==
    [kind : {"guest", "user", "claim"}, guest : Guests \cup {NULL},
     user : Accounts \cup {Shop}, key : Keys \cup {NULL},
     email : Emails \cup {NULL}, phone : Phones \cup {NULL}]

\* NULL is no row, no request and no ledger entry.
ASSUME NullAssumption ==
    /\ NULL \notin BookingRow \cup Request
    /\ NULL \notin [placed_by : Guests \cup Accounts, key : Keys, contact : SUBSET Contacts,
                    owner : Accounts \cup {Shop}]

Steps == {"idle", "lookup", "claimed", "lock", "entitle", "insert", "consume", "anchor",
          "commit", "publish", "recover", "claim", "move", "mark", "settle", "done"}

Codes == {"none", "ok", "limit", "error", "transferred", "replayed", "conflict", "nothing"}

Reply == [code : Codes, order : Orders \cup {NULL}]

-----------------------------------------------------------------------------
(* Row locks, unique indexes and lookups. *)

\* Statements that run after the guest row was locked FOR UPDATE.
HoldsGuestRow == {"entitle", "insert", "consume", "anchor", "commit", "move", "mark", "settle"}

Holds(q, g) == req[q] # NULL /\ req[q].guest = g /\ pc[q] \in HoldsGuestRow

RowFree_unlocked(r, g) == TRUE   \* mutant: SELECT without FOR UPDATE
RowFree(r, g) == \A q \in Requests \ {r} : ~Holds(q, g)

\* A key that another open transaction has inserted blocks a second insert of it.
KeyFree_nonunique(r, c) == TRUE   \* mutant: no unique index on the contact key
KeyFree(r, c) == \A q \in Requests \ {r} : c \notin held[q]

\* hashIdempotency: the key is scoped to its owner, a guest session or an account.
hashIdempotency(owner, key) == <<owner, key>>

ScopeOf(r) == IF req[r].kind = "guest" THEN req[r].guest ELSE req[r].user

HashOf(r) == hashIdempotency(ScopeOf(r), req[r].key)

InsertPending(q) == req[q] # NULL /\ pc[q] \in {"consume", "anchor", "commit"}

HashFree(r) == \A q \in Requests \ {r} : InsertPending(q) => HashOf(q) # HashOf(r)

\* Mutant: the key alone, whoever placed the booking.
FindBookingByIdempotency_anyowner(owner, guest, hash) ==
    {b \in Orders : booking[b] # NULL /\ booking[b].hash[2] = hash[2]}

FindBookingByIdempotency(owner, guest, hash) ==
    {b \in Orders :
        /\ booking[b] # NULL
        /\ booking[b].hash = hash
        /\ IF guest THEN booking[b].guest_session_id = owner
                    ELSE booking[b].user_id = owner /\ booking[b].guest_session_id = NULL}

FindOwn(r) == FindBookingByIdempotency(ScopeOf(r), req[r].kind = "guest", HashOf(r))

ListClaimedGuestSessionIDs(u) ==
    {g \in Guests :
        /\ session[g].claimed_user_id = u
        /\ Cardinality({h \in Guests : /\ session[h].claimed_user_id = u
                                       /\ session[h].claimed_at > session[g].claimed_at})
             < MaxClaimedScopes}

findClaimedGuestIdempotencyReplay(u, key) ==
    UNION {FindBookingByIdempotency(u, FALSE, hashIdempotency(g, key)) :
             g \in ListClaimedGuestSessionIDs(u)}

\* guestContactAnchors: the e-mail anchor first, then the phone anchor.
Anchors(r) == {req[r].email, req[r].phone} \ {NULL}

NextAnchor(r) ==
    IF req[r].email # NULL /\ req[r].email \notin held[r] THEN req[r].email ELSE req[r].phone

-----------------------------------------------------------------------------
LegacyOrder(g, u, k) ==
    [user_id |-> u, guest_session_id |-> NULL, hash |-> hashIdempotency(g, k), contact |-> {}]

\* The rows of a database in which the guests of old have such an order.
OldSessions(old) ==
    [g \in Guests |->
        [state |-> IF g \in old THEN "live" ELSE "none",
         order_count |-> IF g \in old THEN 1 ELSE 0,
         first_order_id |-> IF g \in old THEN g ELSE NULL,
         claimed_user_id |-> NULL, claimed_at |-> 0]]

OldBookings(old, owner, key) ==
    [b \in Orders |-> IF b \in old THEN LegacyOrder(b, owner[b], key[b]) ELSE NULL]

Init ==
    /\ \E old \in SUBSET Legacy, owner \in [Legacy -> Accounts], key \in [Legacy -> Keys] :
         session = OldSessions(old) /\ booking = OldBookings(old, owner, key)
    /\ entitlement = [c \in Contacts |-> NULL]
    /\ req = [r \in Requests |-> NULL]
    /\ pc = [r \in Requests |-> "idle"]
    /\ held = [r \in Requests |-> {}]
    /\ reply = [r \in Requests |-> [code |-> "none", order |-> NULL]]
    /\ announced = {}

-----------------------------------------------------------------------------
(* Control of one request. *)

Goto(r, l) == pc' = [pc EXCEPT ![r] = l]

Answer(r, code, b) == reply' = [reply EXCEPT ![r] = [code |-> code, order |-> b]]

\* Mutant: the failed transaction is left open.
Rollback_open(r, code) == Goto(r, "recover") /\ Answer(r, code, NULL) /\ UNCHANGED held

\* The transaction callback returned an error: its writes and locks are gone and
\* the service looks the key up once more before it reports the error.
Rollback(r, code) ==
    /\ Goto(r, "recover")
    /\ Answer(r, code, NULL)
    /\ held' = [held EXCEPT ![r] = {}]

Found(r, b) == Goto(r, "publish") /\ Answer(r, "ok", b) /\ UNCHANGED held

database == <<session, booking, entitlement>>

-----------------------------------------------------------------------------
(* GuestCreateOrder, CreateBooking and the claim entry points. *)

\* Resolve: a live cookie keeps its guest session; without one a session is minted.
StartGuestOrder(r, g, k, e, p) ==
    /\ pc[r] = "idle"
    /\ session[g].state \in {"none", "live"}
    /\ session' = [session EXCEPT ![g].state = "live"]
    /\ req' = [req EXCEPT ![r] = [kind |-> "guest", guest |-> g, user |-> Shop,
                                  key |-> k, email |-> e, phone |-> p]]
    /\ Goto(r, "lookup")
    /\ UNCHANGED <<booking, entitlement, held, reply, announced>>

StartBooking(r, u, k) ==
    /\ pc[r] = "idle"
    /\ req' = [req EXCEPT ![r] = [kind |-> "user", guest |-> NULL, user |-> u,
                                  key |-> k, email |-> NULL, phone |-> NULL]]
    /\ Goto(r, "lookup")
    /\ UNCHANGED <<database, held, reply, announced>>

\* ClaimOrder: Authenticate reads the live session of the cookie and its order.
StartClaim(r, u, g) ==
    /\ pc[r] = "idle"
    /\ session[g].state # "none"
    /\ req' = [req EXCEPT ![r] = [kind |-> "claim", guest |-> g, user |-> u,
                                  key |-> NULL, email |-> NULL, phone |-> NULL]]
    /\ IF session[g].state = "live" /\ session[g].first_order_id # NULL
       THEN Goto(r, "claim") /\ UNCHANGED reply
       ELSE Goto(r, "done") /\ Answer(r, "nothing", NULL)
    /\ UNCHANGED <<database, held, announced>>

ExpireGuest(g) ==
    /\ session[g].state = "live"
    /\ session' = [session EXCEPT ![g].state = "expired"]
    /\ UNCHANGED <<booking, entitlement, req, pc, held, reply, announced>>

-----------------------------------------------------------------------------
(* BookingService.create, one action per statement that can interleave. *)

Lookup(r) ==
    /\ pc[r] = "lookup"
    /\ IF FindOwn(r) # {}
       THEN \E b \in FindOwn(r) : Found(r, b)
       ELSE /\ Goto(r, IF req[r].kind = "guest" THEN "lock" ELSE "claimed")
            /\ UNCHANGED <<held, reply>>
    /\ UNCHANGED <<database, req, announced>>

LookupClaimed(r) ==
    /\ pc[r] = "claimed"
    /\ LET replay == findClaimedGuestIdempotencyReplay(req[r].user, req[r].key)
       IN  IF replay # {}
           THEN \E b \in replay : Found(r, b)
           ELSE Goto(r, "insert") /\ UNCHANGED <<held, reply>>
    /\ UNCHANGED <<database, req, announced>>

\* LockGuestSession, the order_count test with its second idempotency lookup,
\* and the test that the order carries a contact anchor.
LockGuest(r) ==
    /\ pc[r] = "lock"
    /\ RowFree(r, req[r].guest)
    /\ LET guest == session[req[r].guest]
           spent == guest.order_count >= 1
       IN  \/ guest.state # "live" /\ Rollback(r, "error")
           \/ guest.state = "live" /\ spent /\ \E b \in FindOwn(r) : Found(r, b)
           \/ guest.state = "live" /\ spent /\ FindOwn(r) = {} /\ Rollback(r, "limit")
           \/ guest.state = "live" /\ ~spent /\ Anchors(r) = {} /\ Rollback(r, "error")
           \/ /\ guest.state = "live" /\ ~spent /\ Anchors(r) # {}
              /\ Goto(r, "entitle") /\ UNCHANGED <<held, reply>>
    /\ UNCHANGED <<database, req, announced>>

FindGuestOrderEntitlement(r) ==
    /\ pc[r] = "entitle"
    /\ IF \E c \in Anchors(r) : entitlement[c] # NULL
       THEN Rollback(r, "limit")
       ELSE Goto(r, "insert") /\ UNCHANGED <<held, reply>>
    /\ UNCHANGED <<database, req, announced>>

\* The trip, pax, date and contact checks, any of which may refuse the order.
RefuseBooking(r) ==
    /\ pc[r] = "insert"
    /\ Rollback(r, "error")
    /\ UNCHANGED <<database, req, announced>>

\* INSERT INTO bookings: waits for an open insert of the same hash, fails on a
\* committed one (unique index idx_bookings_idempotency_key_hash).
CreateBooking(r) ==
    /\ pc[r] = "insert"
    /\ HashFree(r)
    /\ IF \E b \in Orders : booking[b] # NULL /\ booking[b].hash = HashOf(r)
       THEN Rollback(r, "error")
       ELSE /\ Goto(r, IF req[r].kind = "guest" THEN "consume" ELSE "commit")
            /\ UNCHANGED <<held, reply>>
    /\ UNCHANGED <<database, req, announced>>

\* UPDATE guest_sessions ... WHERE order_count = 0.
ConsumeGuestOrder(r) ==
    /\ pc[r] = "consume"
    /\ RowFree(r, req[r].guest)
    /\ IF session[req[r].guest].order_count = 0
       THEN Goto(r, "anchor") /\ UNCHANGED <<held, reply>>
       ELSE Rollback(r, "limit")
    /\ UNCHANGED <<database, req, announced>>

\* INSERT ... ON CONFLICT DO NOTHING, one contact key at a time.
ConsumeGuestOrderEntitlement(r) ==
    /\ pc[r] = "anchor"
    /\ LET c == NextAnchor(r)
       IN  /\ KeyFree(r, c)
           /\ IF entitlement[c] # NULL
              THEN Rollback(r, "limit")
              ELSE /\ held' = [held EXCEPT ![r] = @ \cup {c}]
                   /\ Goto(r, IF Anchors(r) \subseteq held[r] \cup {c} THEN "commit" ELSE "anchor")
                   /\ UNCHANGED reply
    /\ UNCHANGED <<database, req, announced>>

SpendAllowance(r) ==
    [g \in Guests |->
        IF g = req[r].guest
        THEN [session[g] EXCEPT !.order_count = 1, !.first_order_id = r]
        ELSE session[g]]

\* Mutant: only the e-mail address is anchored.
AnchorContacts_email(r) ==
    [c \in Contacts |-> IF c \in held[r] \cap Emails THEN r ELSE entitlement[c]]

AnchorContacts(r) == [c \in Contacts |-> IF c \in held[r] THEN r ELSE entitlement[c]]

\* COMMIT: the booking, the spent allowance and the contact anchors together.
\* The acknowledgement may be lost, and then the service sees an error.
CommitBooking(r) ==
    /\ pc[r] = "commit"
    /\ booking' = [booking EXCEPT ![r] =
            [user_id |-> req[r].user, guest_session_id |-> req[r].guest,
             hash |-> HashOf(r), contact |-> Anchors(r)]]
    /\ session' = SpendAllowance(r)
    /\ entitlement' = AnchorContacts(r)
    /\ held' = [held EXCEPT ![r] = {}]
    /\ \/ Goto(r, "publish") /\ Answer(r, "ok", r)
       \/ Goto(r, "recover") /\ Answer(r, "error", NULL)
    /\ UNCHANGED <<req, announced>>

\* Mutant: booking_created goes out on the error path too.
Recover_published(r) ==
    /\ pc[r] = "recover"
    /\ Goto(r, "publish")
    /\ UNCHANGED <<database, req, held, reply, announced>>

\* The lookup outside the failed transaction: the winner's booking, or the error.
Recover(r) ==
    /\ pc[r] = "recover"
    /\ Goto(r, "done")
    /\ \/ \E b \in FindOwn(r) : Answer(r, "ok", b)
       \/ UNCHANGED reply
    /\ UNCHANGED <<database, req, held, announced>>

\* booking_created goes out for a new booking and for a replay alike.
PublishCreated(r) ==
    /\ pc[r] = "publish"
    /\ announced' = announced \cup {reply[r].order}
    /\ Goto(r, "done")
    /\ UNCHANGED <<database, req, held, reply>>

-----------------------------------------------------------------------------
(* ClaimGuestOrder. *)

\* The service's verdict on the owner the repository reports.
Verdict(r, owner) == IF owner = req[r].user THEN "replayed" ELSE "conflict"

EndClaim(r, code, b) == Goto(r, "done") /\ Answer(r, code, b)

ClaimLock(r) ==
    /\ pc[r] = "claim"
    /\ RowFree(r, req[r].guest)
    /\ LET guest == session[req[r].guest]
       IN  IF guest.state # "live" \/ guest.first_order_id = NULL
           THEN EndClaim(r, "nothing", NULL)
           ELSE IF guest.claimed_user_id # NULL
           THEN EndClaim(r, Verdict(r, guest.claimed_user_id), guest.first_order_id)
           ELSE Goto(r, "move") /\ UNCHANGED reply
    /\ UNCHANGED <<database, req, held, announced>>

\* The conditional UPDATE of the booking, and resolveUnmarkedGuestOrderClaim when
\* it touches no row.
ClaimMove(r) ==
    /\ pc[r] = "move"
    /\ LET b == session[req[r].guest].first_order_id
       IN  IF booking[b].guest_session_id = req[r].guest
           THEN Goto(r, "mark") /\ UNCHANGED reply
           ELSE IF booking[b].guest_session_id # NULL
           THEN EndClaim(r, "nothing", NULL)
           ELSE EndClaim(r, Verdict(r, booking[b].user_id), b)
    /\ UNCHANGED <<database, req, held, announced>>

\* The marker UPDATE ... WHERE claimed_user_id IS NULL.
ClaimMark(r) ==
    /\ pc[r] = "mark"
    /\ RowFree(r, req[r].guest)
    /\ IF session[req[r].guest].claimed_user_id = NULL
       THEN Goto(r, "settle") /\ UNCHANGED reply
       ELSE EndClaim(r, "nothing", NULL)
    /\ UNCHANGED <<database, req, held, announced>>

MarkedGuests == {g \in Guests : session[g].claimed_user_id # NULL}

\* Mutant: the marker takes the owner that the order had before it was moved.
ClaimMarker_stale(g, u) ==
    [session[g] EXCEPT !.claimed_user_id = booking[session[g].first_order_id].user_id,
                       !.claimed_at = Cardinality(MarkedGuests) + 1]

ClaimMarker(g, u) ==
    [session[g] EXCEPT !.claimed_user_id = u, !.claimed_at = Cardinality(MarkedGuests) + 1]

CommitClaim(r) ==
    /\ pc[r] = "settle"
    /\ LET g == req[r].guest
           b == session[g].first_order_id
       IN  /\ booking' = [booking EXCEPT ![b] =
                  [@ EXCEPT !.user_id = req[r].user, !.guest_session_id = NULL]]
           /\ session' = [session EXCEPT ![g] = ClaimMarker(g, req[r].user)]
           /\ \/ EndClaim(r, "transferred", b)
              \/ EndClaim(r, "error", NULL)
    /\ UNCHANGED <<entitlement, req, held, announced>>

MovedUnmarked ==
    {g \in Guests :
        /\ session[g].first_order_id # NULL
        /\ session[g].claimed_user_id = NULL
        /\ booking[session[g].first_order_id].guest_session_id = NULL}

\* migrateGuestOrderClaimMarker, run by every starting server.
BackfillClaimMarkers ==
    /\ MovedUnmarked # {}
    /\ \A g \in MovedUnmarked, q \in Requests : ~Holds(q, g)
    /\ session' = [g \in Guests |->
          IF g \in MovedUnmarked
          THEN [session[g] EXCEPT !.claimed_user_id = booking[session[g].first_order_id].user_id]
          ELSE session[g]]
    /\ UNCHANGED <<booking, entitlement, req, pc, held, reply, announced>>

-----------------------------------------------------------------------------
(* Failures: a statement or the connection fails, or the server dies. *)

InTransaction(r) == pc[r] \in Steps \ {"idle", "publish", "recover", "done"}

\* What create makes of a failed statement: the errors of the two Consume calls are
\* all turned into ErrGuestOrderLimitReached.
FailureCode(r) == IF pc[r] \in {"consume", "anchor"} THEN "limit" ELSE "error"

Abort(r) ==
    /\ InTransaction(r)
    /\ IF req[r].kind = "claim" THEN EndClaim(r, "error", NULL) /\ UNCHANGED held
                                ELSE Rollback(r, FailureCode(r))
    /\ UNCHANGED <<database, req, announced>>

\* The process dies: the open transaction is rolled back, nothing is answered.
Crash(r) ==
    /\ pc[r] \notin {"idle", "done"}
    /\ Goto(r, "done")
    /\ Answer(r, "none", NULL)
    /\ held' = [held EXCEPT ![r] = {}]
    /\ UNCHANGED <<database, req, announced>>

Start(r) ==
    \/ \E g \in Guests, k \in Keys, e \in Emails \cup {NULL}, p \in Phones \cup {NULL} :
         StartGuestOrder(r, g, k, e, p)
    \/ \E u \in Accounts, k \in Keys : StartBooking(r, u, k)
    \/ \E u \in Accounts, g \in Guests : StartClaim(r, u, g)

Advance(r) ==
    \/ Lookup(r) \/ LookupClaimed(r) \/ LockGuest(r) \/ FindGuestOrderEntitlement(r)
    \/ CreateBooking(r) \/ ConsumeGuestOrder(r) \/ ConsumeGuestOrderEntitlement(r)
    \/ CommitBooking(r) \/ Recover(r) \/ PublishCreated(r)
    \/ ClaimLock(r) \/ ClaimMove(r) \/ ClaimMark(r) \/ CommitClaim(r)

Next ==
    \/ \E r \in Requests : Start(r) \/ Advance(r) \/ RefuseBooking(r) \/ Abort(r) \/ Crash(r)
    \/ \E g \in Guests : ExpireGuest(g)
    \/ BackfillClaimMarkers

Spec == Init /\ [][Next]_vars

\* Every handler goroutine keeps running and PostgreSQL grants a free lock.
FairSpec == Spec /\ \A r \in Requests : WF_vars(Advance(r))

-----------------------------------------------------------------------------
(* Properties. *)

TypeOK ==
    /\ session \in [Guests -> SessionRow]
    /\ booking \in [Orders -> BookingRow \cup {NULL}]
    /\ entitlement \in [Contacts -> Orders \cup {NULL}]
    /\ req \in [Requests -> Request \cup {NULL}]
    /\ pc \in [Requests -> Steps]
    /\ held \in [Requests -> SUBSET Contacts]
    /\ reply \in [Requests -> Reply]
    /\ announced \subseteq Orders

\* The guest session an order was placed by: it survives the claim in the hash.
PlacedBy(b, g) == booking[b] # NULL /\ booking[b].hash[1] = g

GuestOrder(b) == \E g \in Guests : PlacedBy(b, g)

\* A guest session never has two orders, whatever its requests interleave with,
\* and not even after the first one was claimed away from it (order_count stays 1).
OneOrderPerGuest ==
    \A g \in Guests, a, b \in Orders : PlacedBy(a, g) /\ PlacedBy(b, g) => a = b

\* Two guest orders never share a contact, even when the visitor drops the cookie
\* and orders as a freshly minted guest session at the same moment.
OneOrderPerContact ==
    \A a, b \in Orders :
        /\ GuestOrder(a) /\ GuestOrder(b)
        /\ booking[a].contact \cap booking[b].contact # {}
        => a = b

\* A guest order, the allowance it spent and the contact keys it anchored stand or
\* fall together: no allowance is lost to a refused order and none is left unspent.
OrderAndAllowanceAgree ==
    /\ \A g \in Guests : session[g].order_count = 1 <=> session[g].first_order_id # NULL
    /\ \A g \in Guests : session[g].first_order_id # NULL => PlacedBy(session[g].first_order_id, g)
    /\ \A b \in Orders, g \in Guests : PlacedBy(b, g) => session[g].first_order_id = b
    /\ \A b \in Orders, c \in Contacts :
         GuestOrder(b) => (c \in booking[b].contact <=> entitlement[c] = b)

\* The claim marker and the owner of the order never disagree, so a claim can be
\* answered from the marker alone; an order still on its guest has no marker.
MarkerMatchesOwner ==
    \A g \in Guests :
        LET b == session[g].first_order_id
        IN  IF session[g].claimed_user_id # NULL
            THEN /\ b # NULL
                 /\ booking[b].user_id = session[g].claimed_user_id
                 /\ booking[b].guest_session_id = NULL
            ELSE b # NULL => \/ booking[b].guest_session_id = g /\ booking[b].user_id = Shop
                             \/ booking[b].guest_session_id = NULL /\ booking[b].user_id \in Accounts

\* What callers and listeners are told is durable and theirs: a successful answer
\* hands out the guest's single order or a booking of the account, never somebody
\* else's with the same key; two claims of one order never both report success to
\* different accounts; booking_created is published for committed bookings only.
RepliesAreTrue ==
    /\ \A r \in Requests : reply[r].code = "ok" =>
            /\ booking[reply[r].order] # NULL
            /\ req[r].kind = "guest" => session[req[r].guest].first_order_id = reply[r].order
            /\ req[r].kind = "user" => booking[reply[r].order].user_id = req[r].user
            /\ booking[reply[r].order].hash[2] = req[r].key
    /\ \A q, r \in Requests :
            /\ {reply[q].code, reply[r].code} \subseteq {"transferred", "replayed"}
            /\ reply[q].order = reply[r].order
            => req[q].user = req[r].user
    /\ \A b \in announced : booking[b] # NULL

\* Ownership is decided once: a booking never disappears, an account's booking
\* never changes hands, and a guest's order moves to an account only.
OwnershipDecidedOnce ==
    [][\A b \in Orders : booking[b] # NULL =>
        /\ booking'[b] # NULL
        /\ booking[b].user_id \in Accounts => booking'[b].user_id = booking[b].user_id
        /\ booking[b].guest_session_id = NULL => booking'[b].guest_session_id = NULL]_vars

\* Every request that started is eventually answered or lost with its server: no
\* cycle of row locks and unique-index waits holds the requests of a guest forever.
EveryRequestEnds == \A r \in Requests : (pc[r] # "idle") ~> (pc[r] = "done")

\* The orders as the services promise them, whatever statement each request is at.
LedgerView ==
    [b \in Orders |->
        IF booking[b] = NULL THEN NULL
        ELSE [placed_by |-> booking[b].hash[1], key |-> booking[b].hash[2],
              contact |-> booking[b].contact, owner |-> booking[b].user_id]]

Ledger == INSTANCE OrderLedger WITH ledger <- LedgerView

\* The statements of the create and claim transactions, run by any number of
\* requests at once, take effect as one ledger entry or transfer at their commit.
ImplementsLedger == Ledger!Spec
=============================================================================
