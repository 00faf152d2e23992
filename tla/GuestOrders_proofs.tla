------------------------- MODULE GuestOrders_proofs -------------------------
(***************************************************************************)
(* Proofs about GuestOrders for every set of guests, accounts, requests,   *)
(* keys and contacts.                                                      *)
(*                                                                         *)
(* The properties are not inductive: they speak of committed rows, and a   *)
(* commit is safe because of what its transaction has locked and read      *)
(* before.  IInv adds that: which rows and index entries an open           *)
(* transaction holds, that no two hold the same one, and that what it read *)
(* while holding them is still so.                                         *)
(***************************************************************************)
EXTENDS GuestOrders, FiniteSetTheorems, TLAPS

ClaimSteps == {"claim", "move", "mark", "settle"}

\* The guest order transaction after it locked its session and found it unspent.
Spending == {"entitle", "insert", "consume", "anchor", "commit"}

\* What a request carries fits its kind, and its kind fits the statement it is at.
RequestInv ==
    \A r \in Requests :
        /\ pc[r] # "idle" => req[r] # NULL
        /\ req[r] # NULL =>
             \/ req[r].kind = "guest" /\ req[r].guest \in Guests /\ req[r].user = Shop /\ req[r].key \in Keys
             \/ /\ req[r].kind = "user" /\ req[r].guest = NULL /\ req[r].user \in Accounts /\ req[r].key \in Keys
                /\ req[r].email = NULL /\ req[r].phone = NULL
             \/ req[r].kind = "claim" /\ req[r].guest \in Guests /\ req[r].user \in Accounts
        /\ pc[r] \in {"lock", "entitle", "consume", "anchor"} => req[r].kind = "guest"
        /\ pc[r] = "claimed" => req[r].kind = "user"
        /\ pc[r] \in {"lookup", "insert", "commit", "publish", "recover"} => req[r].kind # "claim"
        /\ pc[r] \in ClaimSteps => req[r].kind = "claim"
        /\ pc[r] = "publish" => reply[r].order \in Orders

\* A request creates its booking at its commit, not before.
FreshInv ==
    \A r \in Requests :
        pc[r] \in {"idle", "lookup", "claimed", "lock"} \cup Spending => booking[r] = NULL

\* FOR UPDATE excludes: one open transaction at most holds a guest row.
LockInv ==
    \A q, r \in Requests, g \in Guests : Holds(q, g) /\ Holds(r, g) => q = r

\* What a transaction read of its guest session is still so while it holds the row.
ReadInv ==
    \A r \in Requests :
        /\ pc[r] \in Spending /\ req[r].kind = "guest" =>
             session[req[r].guest].order_count = 0 /\ Anchors(r) # {}
        /\ pc[r] \in {"move", "mark", "settle"} =>
             /\ session[req[r].guest].first_order_id # NULL
             /\ session[req[r].guest].claimed_user_id = NULL
        /\ pc[r] \in {"mark", "settle"} =>
             booking[session[req[r].guest].first_order_id].guest_session_id = req[r].guest

\* Contact keys: held by one transaction at most, and not committed while held.
AnchorInv ==
    /\ \A r \in Requests, c \in Contacts : c \in held[r] =>
         /\ pc[r] \in {"anchor", "commit"} /\ req[r].kind = "guest"
         /\ c \in Anchors(r)
         /\ entitlement[c] = NULL
    /\ \A q, r \in Requests, c \in Contacts : c \in held[q] /\ c \in held[r] => q = r
    /\ \A r \in Requests :
         /\ pc[r] = "anchor" => ~(Anchors(r) \subseteq held[r])
         /\ pc[r] = "commit" => Anchors(r) = held[r]

\* Idempotency hashes: one booking each, counting the inserts still open.
HashInv ==
    /\ \A a, b \in Orders :
         booking[a] # NULL /\ booking[b] # NULL /\ booking[a].hash = booking[b].hash => a = b
    /\ \A r \in Requests, b \in Orders :
         InsertPending(r) /\ booking[b] # NULL => booking[b].hash # HashOf(r)
    /\ \A q, r \in Requests :
         InsertPending(q) /\ InsertPending(r) /\ HashOf(q) = HashOf(r) => q = r

\* A booking an account placed is its own from the start and anchors no contact.
AccountBookingInv ==
    \A b \in Orders : booking[b] # NULL /\ booking[b].hash[1] \notin Guests =>
        /\ booking[b].contact = {}
        /\ booking[b].user_id = booking[b].hash[1]
        /\ booking[b].guest_session_id = NULL

\* A contact key names a booking that is there.
EntitledInv ==
    \A c \in Contacts : entitlement[c] # NULL => booking[entitlement[c]] # NULL

IInv ==
    /\ TypeOK
    /\ RequestInv
    /\ FreshInv
    /\ LockInv
    /\ ReadInv
    /\ AnchorInv
    /\ HashInv
    /\ AccountBookingInv
    /\ EntitledInv
    /\ OrderAndAllowanceAgree
    /\ MarkerMatchesOwner

-----------------------------------------------------------------------------
(* Typing. *)

LEMMA InitTyped == Init => TypeOK
  <1> USE ConstantsAssumption, NullAssumption
  <1> SUFFICES ASSUME Init PROVE TypeOK
    OBVIOUS
  <1>1. PICK old \in SUBSET Legacy, owner \in [Legacy -> Accounts], key \in [Legacy -> Keys] :
          /\ session = OldSessions(old)
          /\ booking = OldBookings(old, owner, key)
    BY DEF Init
  <1>2. session \in [Guests -> SessionRow]
    BY <1>1 DEF OldSessions, SessionRow, Orders
  <1>3. booking \in [Orders -> BookingRow \cup {NULL}]
    BY <1>1 DEF OldBookings, BookingRow, Orders, LegacyOrder, hashIdempotency
  <1>4. QED
    BY <1>2, <1>3 DEF Init, TypeOK, Steps, Reply, Codes

LEMMA StepNames ==
  /\ "lookup" \in Steps /\ "claimed" \in Steps /\ "lock" \in Steps /\ "entitle" \in Steps
  /\ "insert" \in Steps /\ "consume" \in Steps /\ "anchor" \in Steps /\ "commit" \in Steps
  /\ "publish" \in Steps /\ "recover" \in Steps /\ "claim" \in Steps /\ "move" \in Steps
  /\ "mark" \in Steps /\ "settle" \in Steps /\ "done" \in Steps
  BY DEF Steps

LEMMA CodeNames ==
  /\ "none" \in Codes /\ "ok" \in Codes /\ "limit" \in Codes /\ "error" \in Codes
  /\ "transferred" \in Codes /\ "nothing" \in Codes
  /\ \A r, owner : Verdict(r, owner) \in Codes
  /\ \A r : FailureCode(r) \in Codes
  BY DEF Codes, Verdict, FailureCode

LEMMA GotoTyped ==
  ASSUME TypeOK, NEW r \in Requests, NEW l \in Steps, Goto(r, l)
  PROVE  pc' \in [Requests -> Steps]
  BY DEF TypeOK, Goto

LEMMA AnswerTyped ==
  ASSUME TypeOK, NEW r \in Requests, NEW c \in Codes, NEW b \in Orders \cup {NULL}, Answer(r, c, b)
  PROVE  reply' \in [Requests -> Reply]
  BY DEF TypeOK, Answer, Reply

\* The part of the state that the control of a request changes.
ControlTyped ==
    /\ pc' \in [Requests -> Steps]
    /\ held' \in [Requests -> SUBSET Contacts]
    /\ reply' \in [Requests -> Reply]

LEMMA RollbackTyped ==
  ASSUME TypeOK, NEW r \in Requests, NEW c \in Codes, Rollback(r, c)
  PROVE  ControlTyped
  <1>1. held' \in [Requests -> SUBSET Contacts]
    BY DEF Rollback, TypeOK
  <1>2. QED
    BY <1>1, GotoTyped, AnswerTyped, StepNames DEF Rollback, ControlTyped

LEMMA FoundTyped ==
  ASSUME TypeOK, NEW r \in Requests, NEW b \in Orders, Found(r, b)
  PROVE  ControlTyped
  <1>1. held' \in [Requests -> SUBSET Contacts]
    BY DEF Found, TypeOK
  <1>2. QED
    BY <1>1, GotoTyped, AnswerTyped, StepNames, CodeNames DEF Found, ControlTyped

LEMMA EndClaimTyped ==
  ASSUME TypeOK, NEW r \in Requests, NEW c \in Codes, NEW b \in Orders \cup {NULL}, EndClaim(r, c, b)
  PROVE  pc' \in [Requests -> Steps] /\ reply' \in [Requests -> Reply]
  BY GotoTyped, AnswerTyped, StepNames DEF EndClaim

LEMMA StayTyped ==
  ASSUME TypeOK, NEW r \in Requests, NEW l \in Steps, Goto(r, l), UNCHANGED <<held, reply>>
  PROVE  ControlTyped
  BY GotoTyped DEF TypeOK, ControlTyped

LEMMA FindOwnTyped == \A r \in Requests : FindOwn(r) \subseteq Orders
  BY DEF FindOwn, FindBookingByIdempotency

LEMMA ReplayTyped ==
  \A u, k : findClaimedGuestIdempotencyReplay(u, k) \subseteq Orders
  BY DEF findClaimedGuestIdempotencyReplay, FindBookingByIdempotency

LEMMA NextTyped == IInv /\ [Next]_vars => TypeOK'
  <1> USE ConstantsAssumption, NullAssumption
  <1> SUFFICES ASSUME TypeOK, RequestInv, ReadInv, AnchorInv, OrderAndAllowanceAgree,
                      MarkerMatchesOwner, [Next]_vars
               PROVE  TypeOK'
    BY DEF IInv
  <1> DEFINE QuietTyped ==
        ControlTyped /\ UNCHANGED <<database, req>> /\ (announced' \subseteq Orders)
  <1>0. QuietTyped => TypeOK'
    BY DEF ControlTyped, TypeOK, database
  <1>1. ASSUME NEW r \in Requests, NEW g \in Guests, NEW k \in Keys,
               NEW e \in Emails \cup {NULL}, NEW p \in Phones \cup {NULL},
               StartGuestOrder(r, g, k, e, p)
        PROVE  TypeOK'
    <2>1. session' \in [Guests -> SessionRow]
      BY SMTT(40), <1>1 DEF StartGuestOrder, SessionRow, TypeOK
    <2>2. req' \in [Requests -> Request \cup {NULL}]
      BY <1>1 DEF StartGuestOrder, Request, TypeOK
    <2>3. QED
      BY <1>1, <2>1, <2>2, GotoTyped, StepNames DEF StartGuestOrder, TypeOK
  <1>2. ASSUME NEW r \in Requests, NEW u \in Accounts, NEW k \in Keys, StartBooking(r, u, k)
        PROVE  TypeOK'
    <2>1. req' \in [Requests -> Request \cup {NULL}]
      BY <1>2 DEF StartBooking, Request, TypeOK
    <2>2. QED
      BY <1>2, <2>1, GotoTyped, StepNames DEF StartBooking, TypeOK, database
  <1>3. ASSUME NEW r \in Requests, NEW u \in Accounts, NEW g \in Guests, StartClaim(r, u, g)
        PROVE  TypeOK'
    <2>1. req' \in [Requests -> Request \cup {NULL}]
      BY <1>3 DEF StartClaim, Request, TypeOK
    <2>2. QED
      BY <1>3, <2>1, GotoTyped, AnswerTyped, StepNames, CodeNames DEF StartClaim, TypeOK, database
  <1>4. ASSUME NEW r \in Requests, Lookup(r) PROVE TypeOK'
    BY <1>0, <1>4, FindOwnTyped, FoundTyped, StayTyped, StepNames DEF Lookup, TypeOK
  <1>5. ASSUME NEW r \in Requests, LookupClaimed(r) PROVE TypeOK'
    BY <1>0, <1>5, ReplayTyped, FoundTyped, StayTyped, StepNames DEF LookupClaimed, TypeOK
  <1>6. ASSUME NEW r \in Requests, LockGuest(r) PROVE TypeOK'
    BY <1>0, <1>6, FindOwnTyped, FoundTyped, RollbackTyped, StayTyped, StepNames, CodeNames
       DEF LockGuest, TypeOK
  <1>7. ASSUME NEW r \in Requests, FindGuestOrderEntitlement(r) PROVE TypeOK'
    BY <1>0, <1>7, RollbackTyped, StayTyped, StepNames, CodeNames DEF FindGuestOrderEntitlement, TypeOK
  <1>8. ASSUME NEW r \in Requests, CreateBooking(r) PROVE TypeOK'
    BY <1>0, <1>8, RollbackTyped, StayTyped, StepNames, CodeNames DEF CreateBooking, TypeOK
  <1>9. ASSUME NEW r \in Requests, ConsumeGuestOrder(r) PROVE TypeOK'
    BY <1>0, <1>9, RollbackTyped, StayTyped, StepNames, CodeNames DEF ConsumeGuestOrder, TypeOK
  <1>10. ASSUME NEW r \in Requests, ConsumeGuestOrderEntitlement(r) PROVE TypeOK'
    <2>1. NextAnchor(r) \in Contacts
      BY <1>10 DEF ConsumeGuestOrderEntitlement, TypeOK, Contacts, NextAnchor, RequestInv,
         Request, Anchors, AnchorInv
    <2>2. CASE entitlement[NextAnchor(r)] # NULL
      BY <1>0, <1>10, <2>2, RollbackTyped, CodeNames DEF ConsumeGuestOrderEntitlement, TypeOK
    <2>3. CASE entitlement[NextAnchor(r)] = NULL
      <3>1. held' \in [Requests -> SUBSET Contacts]
        BY <1>10, <2>1, <2>3 DEF ConsumeGuestOrderEntitlement, TypeOK
      <3>2. pc' \in [Requests -> Steps]
        BY <1>10, <2>3, GotoTyped, StepNames DEF ConsumeGuestOrderEntitlement
      <3>3. QED
        BY <1>0, <1>10, <2>3, <3>1, <3>2 DEF ConsumeGuestOrderEntitlement, TypeOK, ControlTyped
    <2>4. QED
      BY <2>2, <2>3
  <1>11. ASSUME NEW r \in Requests, CommitBooking(r) PROVE TypeOK'
    <2>1. session' \in [Guests -> SessionRow]
      <3>1. r \in Orders
        BY DEF Orders
      <3>2. ASSUME NEW g \in Guests PROVE session'[g] \in SessionRow
        <4>1. session[g] \in SessionRow
          BY DEF TypeOK
        <4>2. [session[g] EXCEPT !.order_count = 1, !.first_order_id = r] \in SessionRow
          <5>1. 1 \in 0..1
            OBVIOUS
          <5>2. QED
            BY <3>1, <4>1, <5>1 DEF SessionRow
        <4>3. QED
          BY <1>11, <4>1, <4>2 DEF CommitBooking, SpendAllowance
      <3>3. QED
        BY <1>11, <3>2 DEF CommitBooking, SpendAllowance
    <2>2. booking' \in [Orders -> BookingRow \cup {NULL}]
      <3>1. /\ req[r] \in Request
            /\ req[r].key \in Keys /\ ScopeOf(r) \in Guests \cup Accounts
        BY <1>11 DEF CommitBooking, TypeOK, RequestInv, ScopeOf
      <3>2. Anchors(r) \in SUBSET Contacts
        BY <3>1 DEF Anchors, Contacts, Request
      <3>3. HashOf(r) \in (Guests \cup Accounts) \X Keys
        BY <3>1 DEF HashOf, hashIdempotency
      <3>4. [user_id |-> req[r].user, guest_session_id |-> req[r].guest,
             hash |-> HashOf(r), contact |-> Anchors(r)] \in BookingRow
        BY <3>1, <3>2, <3>3 DEF BookingRow, Request
      <3>5. QED
        BY <1>11, <3>4 DEF CommitBooking, TypeOK
    <2>3. entitlement' \in [Contacts -> Orders \cup {NULL}]
      BY <1>11 DEF CommitBooking, AnchorContacts, TypeOK, Orders
    <2>4. ControlTyped
      <3>1. held' \in [Requests -> SUBSET Contacts]
        BY <1>11 DEF CommitBooking, TypeOK
      <3>2. QED
        BY <1>11, <3>1, GotoTyped, AnswerTyped, StepNames, CodeNames DEF CommitBooking, ControlTyped, Orders
    <2>5. QED
      BY <1>11, <2>1, <2>2, <2>3, <2>4 DEF CommitBooking, ControlTyped, TypeOK
  <1>12. ASSUME NEW r \in Requests, Recover(r) PROVE TypeOK'
    BY <1>12, FindOwnTyped, GotoTyped, AnswerTyped, StepNames, CodeNames DEF Recover, TypeOK, database
  <1>13. ASSUME NEW r \in Requests, PublishCreated(r) PROVE TypeOK'
    BY <1>13, GotoTyped, StepNames DEF PublishCreated, TypeOK, database, RequestInv
  <1>14. ASSUME NEW r \in Requests, ClaimLock(r) PROVE TypeOK'
    <2>1. session[req[r].guest].first_order_id \in Orders \cup {NULL}
      BY <1>14 DEF ClaimLock, RequestInv, TypeOK, SessionRow, ClaimSteps
    <2>2. pc' \in [Requests -> Steps] /\ reply' \in [Requests -> Reply]
      BY <1>14, <2>1, EndClaimTyped, GotoTyped, StepNames, CodeNames DEF ClaimLock, TypeOK
    <2>3. QED
      BY <1>14, <2>2 DEF ClaimLock, TypeOK, database
  <1>15. ASSUME NEW r \in Requests, ClaimMove(r) PROVE TypeOK'
    <2>1. session[req[r].guest].first_order_id \in Orders \cup {NULL}
      BY <1>15 DEF ClaimMove, RequestInv, TypeOK, SessionRow, ClaimSteps
    <2>2. pc' \in [Requests -> Steps] /\ reply' \in [Requests -> Reply]
      BY <1>15, <2>1, EndClaimTyped, GotoTyped, StepNames, CodeNames DEF ClaimMove, TypeOK
    <2>3. QED
      BY <1>15, <2>2 DEF ClaimMove, TypeOK, database
  <1>16. ASSUME NEW r \in Requests, ClaimMark(r) PROVE TypeOK'
    <2>2. pc' \in [Requests -> Steps] /\ reply' \in [Requests -> Reply]
      BY <1>16, EndClaimTyped, GotoTyped, StepNames, CodeNames DEF ClaimMark, TypeOK
    <2>3. QED
      BY <1>16, <2>2 DEF ClaimMark, TypeOK, database
  <1>17. ASSUME NEW r \in Requests, CommitClaim(r) PROVE TypeOK'
    <2> DEFINE g == req[r].guest
               b == session[g].first_order_id
    <2>1. g \in Guests /\ req[r].user \in Accounts /\ b \in Orders /\ booking[b].guest_session_id = g
      BY <1>17 DEF CommitClaim, RequestInv, ReadInv, ClaimSteps, TypeOK, SessionRow
    <2>2. booking' \in [Orders -> BookingRow \cup {NULL}]
      <3>1. booking[b] \in BookingRow
        BY <2>1 DEF TypeOK, OrderAndAllowanceAgree, PlacedBy, Orders
      <3>2. [booking[b] EXCEPT !.user_id = req[r].user, !.guest_session_id = NULL] \in BookingRow
        BY <2>1, <3>1 DEF BookingRow
      <3>3. QED
        BY <1>17, <2>1, <3>2 DEF CommitClaim, TypeOK
    <2>3. Cardinality(MarkedGuests) \in Nat
      BY FS_Subset, FS_CardinalityType DEF MarkedGuests
    <2>4. session' \in [Guests -> SessionRow]
      <3>1. session[g] \in SessionRow
        BY <2>1 DEF TypeOK
      <3>2. [session[g] EXCEPT !.claimed_user_id = req[r].user,
                               !.claimed_at = Cardinality(MarkedGuests) + 1] \in SessionRow
        <4>1. Cardinality(MarkedGuests) + 1 \in Nat
          BY <2>3
        <4>2. QED
          BY <2>1, <3>1, <4>1 DEF SessionRow
      <3>3. QED
        BY <1>17, <2>1, <3>2 DEF CommitClaim, ClaimMarker, TypeOK
    <2>5. pc' \in [Requests -> Steps] /\ reply' \in [Requests -> Reply]
      BY <1>17, <2>1, EndClaimTyped, CodeNames DEF CommitClaim
    <2>6. QED
      BY <1>17, <2>2, <2>4, <2>5 DEF CommitClaim, TypeOK
  <1>18. ASSUME NEW r \in Requests, RefuseBooking(r) \/ Abort(r) PROVE TypeOK'
    BY <1>0, <1>18, RollbackTyped, EndClaimTyped, CodeNames
       DEF RefuseBooking, Abort, TypeOK, ControlTyped
  <1>19. ASSUME NEW r \in Requests, Crash(r) PROVE TypeOK'
    BY <1>0, <1>19, GotoTyped, AnswerTyped, StepNames, CodeNames DEF Crash, TypeOK, ControlTyped
  <1>20. ASSUME NEW g \in Guests, ExpireGuest(g) PROVE TypeOK'
    <2>1. session' \in [Guests -> SessionRow]
      BY <1>20 DEF ExpireGuest, SessionRow, TypeOK
    <2>2. QED
      BY <1>20, <2>1 DEF ExpireGuest, TypeOK
  <1>21. CASE BackfillClaimMarkers
    <2>1. ASSUME NEW g \in Guests PROVE session'[g] \in SessionRow
      <3>1. session[g] \in SessionRow
        BY DEF TypeOK
      <3>2. ASSUME NEW u \in Accounts
            PROVE  [session[g] EXCEPT !.claimed_user_id = u] \in SessionRow
        BY <3>1 DEF SessionRow
      <3>3. session'[g] # session[g] =>
              \E u \in Accounts : session'[g] = [session[g] EXCEPT !.claimed_user_id = u]
        BY <1>21 DEF BackfillClaimMarkers, MovedUnmarked, MarkerMatchesOwner
      <3>4. QED
        BY <3>1, <3>2, <3>3
    <2>2. session' \in [Guests -> SessionRow]
      BY <1>21, <2>1 DEF BackfillClaimMarkers
    <2>3. QED
      BY <1>21, <2>2 DEF BackfillClaimMarkers, TypeOK
  <1>22. CASE UNCHANGED vars
    BY <1>22 DEF vars, TypeOK
  <1>23. QED
    BY <1>1, <1>2, <1>3, <1>4, <1>5, <1>6, <1>7, <1>8, <1>9, <1>10, <1>11, <1>12, <1>13,
       <1>14, <1>15, <1>16, <1>17, <1>18, <1>19, <1>20, <1>21, <1>22 DEF Next, Start, Advance

-----------------------------------------------------------------------------
(* What a step can do, by the part of the state it touches.  The sixteen    *)
(* actions of a request that leave the database alone fall into EndStep,    *)
(* AdvanceStep and AnchorStep; the invariant is then proved once for each.  *)

Others(r) ==
    \A q \in Requests : q # r =>
        /\ pc'[q] = pc[q] /\ held'[q] = held[q]
        /\ reply'[q] = reply[q] /\ req'[q] = req[q]

\* The guest rows change in nothing but their expiry.
SameRows ==
    \A g \in Guests :
        /\ session'[g].order_count = session[g].order_count
        /\ session'[g].first_order_id = session[g].first_order_id
        /\ session'[g].claimed_user_id = session[g].claimed_user_id

StartStep(r) ==
    /\ pc[r] = "idle" /\ req'[r] # NULL /\ held' = held
    /\ Others(r) /\ SameRows /\ UNCHANGED <<booking, entitlement>>
    /\ \/ /\ pc'[r] = "lookup" /\ req'[r].kind = "guest"
          /\ req'[r].guest \in Guests /\ req'[r].user = Shop /\ req'[r].key \in Keys
       \/ /\ pc'[r] = "lookup" /\ req'[r].kind = "user" /\ req'[r].guest = NULL
          /\ req'[r].user \in Accounts /\ req'[r].key \in Keys
          /\ req'[r].email = NULL /\ req'[r].phone = NULL
       \/ /\ pc'[r] \in {"claim", "done"} /\ req'[r].kind = "claim"
          /\ req'[r].guest \in Guests /\ req'[r].user \in Accounts

EndStep(r) ==
    /\ pc[r] # "idle" /\ pc'[r] \in {"recover", "publish", "done"} /\ held'[r] = {}
    /\ pc'[r] # "done" => req[r].kind # "claim"
    /\ pc'[r] = "publish" => reply'[r].order \in Orders
    /\ Others(r) /\ UNCHANGED <<database, req>>

AdvanceStep(r) ==
    /\ held' = held /\ Others(r) /\ UNCHANGED <<database, req>>
    /\ \/ pc[r] = "lookup" /\ pc'[r] = "lock" /\ req[r].kind = "guest"
       \/ pc[r] = "lookup" /\ pc'[r] = "claimed" /\ req[r].kind = "user"
       \/ pc[r] = "claimed" /\ pc'[r] = "insert"
       \/ /\ pc[r] = "lock" /\ pc'[r] = "entitle" /\ RowFree(r, req[r].guest)
          /\ session[req[r].guest].order_count = 0 /\ Anchors(r) # {}
       \/ pc[r] = "entitle" /\ pc'[r] = "insert"
       \/ /\ pc[r] = "insert" /\ HashFree(r)
          /\ \A b \in Orders : booking[b] # NULL => booking[b].hash # HashOf(r)
          /\ \/ pc'[r] = "consume" /\ req[r].kind = "guest"
             \/ pc'[r] = "commit" /\ req[r].kind = "user"
       \/ pc[r] = "consume" /\ pc'[r] = "anchor"
       \/ /\ pc[r] = "claim" /\ pc'[r] = "move" /\ RowFree(r, req[r].guest)
          /\ session[req[r].guest].first_order_id # NULL
          /\ session[req[r].guest].claimed_user_id = NULL
       \/ /\ pc[r] = "move" /\ pc'[r] = "mark"
          /\ booking[session[req[r].guest].first_order_id].guest_session_id = req[r].guest
       \/ pc[r] = "mark" /\ pc'[r] = "settle"

AnchorStep(r) ==
    /\ pc[r] = "anchor" /\ Others(r) /\ UNCHANGED <<database, req>>
    /\ \E c \in Anchors(r) :
         /\ c \in Contacts /\ c \notin held[r] /\ KeyFree(r, c) /\ entitlement[c] = NULL
         /\ held'[r] = held[r] \cup {c}
         /\ pc'[r] = IF Anchors(r) \subseteq held'[r] THEN "commit" ELSE "anchor"

IdleStep ==
    /\ UNCHANGED <<booking, entitlement, req, pc, held, reply>>
    /\ SameRows

LEMMA GotoEffect ==
  ASSUME TypeOK, NEW r \in Requests, NEW l, Goto(r, l)
  PROVE  pc'[r] = l /\ \A q \in Requests : q # r => pc'[q] = pc[q]
  BY DEF TypeOK, Goto

LEMMA AnswerEffect ==
  ASSUME TypeOK, NEW r \in Requests, NEW c, NEW b, Answer(r, c, b)
  PROVE  reply'[r].order = b /\ \A q \in Requests : q # r => reply'[q] = reply[q]
  BY DEF TypeOK, Answer

LEMMA RollbackEffect ==
  ASSUME TypeOK, NEW r \in Requests, NEW c, Rollback(r, c)
  PROVE  /\ pc'[r] = "recover" /\ held'[r] = {}
         /\ \A q \in Requests : q # r =>
              pc'[q] = pc[q] /\ held'[q] = held[q] /\ reply'[q] = reply[q]
  <1>1. held'[r] = {} /\ \A q \in Requests : q # r => held'[q] = held[q]
    BY DEF Rollback, TypeOK
  <1>2. QED
    BY <1>1, GotoEffect, AnswerEffect DEF Rollback

\* Only the anchor and commit statements of a guest order hold contact keys.
LEMMA NothingHeld ==
  ASSUME TypeOK, AnchorInv, NEW r \in Requests, pc[r] \notin {"anchor", "commit"}
  PROVE  held[r] = {}
  BY DEF TypeOK, AnchorInv

LEMMA FoundEffect ==
  ASSUME TypeOK, AnchorInv, NEW r \in Requests, NEW b \in Orders, Found(r, b),
         pc[r] \notin {"anchor", "commit"}
  PROVE  /\ pc'[r] = "publish" /\ held'[r] = {} /\ reply'[r].order \in Orders
         /\ \A q \in Requests : q # r =>
              pc'[q] = pc[q] /\ held'[q] = held[q] /\ reply'[q] = reply[q]
  BY NothingHeld, GotoEffect, AnswerEffect DEF Found

LEMMA EndClaimEffect ==
  ASSUME TypeOK, AnchorInv, NEW r \in Requests, NEW c, NEW b, EndClaim(r, c, b), UNCHANGED held,
         pc[r] \notin {"anchor", "commit"}
  PROVE  /\ pc'[r] = "done" /\ held'[r] = {}
         /\ \A q \in Requests : q # r =>
              pc'[q] = pc[q] /\ held'[q] = held[q] /\ reply'[q] = reply[q]
  BY NothingHeld, GotoEffect, AnswerEffect DEF EndClaim

LEMMA StepShape ==
  ASSUME IInv, Next
  PROVE  \/ \E r \in Requests : \/ StartStep(r) \/ EndStep(r) \/ AdvanceStep(r) \/ AnchorStep(r)
                                \/ CommitBooking(r) \/ CommitClaim(r)
         \/ IdleStep \/ BackfillClaimMarkers
  <1> USE ConstantsAssumption, NullAssumption
  <1>0. TypeOK /\ RequestInv /\ AnchorInv /\ ReadInv
    BY DEF IInv
  <1>1. ASSUME NEW r \in Requests, Start(r) PROVE StartStep(r)
    <2>1. ASSUME NEW g \in Guests, NEW k \in Keys,
                 NEW e \in Emails \cup {NULL}, NEW p \in Phones \cup {NULL},
                 StartGuestOrder(r, g, k, e, p)
          PROVE  StartStep(r)
      <3>1. req'[r] = [kind |-> "guest", guest |-> g, user |-> Shop, key |-> k, email |-> e, phone |-> p]
            /\ \A q \in Requests : q # r => req'[q] = req[q]
        BY <1>0, <2>1 DEF StartGuestOrder, TypeOK
      <3>2. [kind |-> "guest", guest |-> g, user |-> Shop, key |-> k, email |-> e, phone |-> p] \in Request
        BY DEF Request
      <3>3. SameRows
        BY <1>0, <2>1 DEF StartGuestOrder, TypeOK, SameRows, SessionRow
      <3>4. QED
        BY <1>0, <2>1, <3>1, <3>2, <3>3, GotoEffect DEF StartGuestOrder, StartStep, Others
    <2>2. ASSUME NEW u \in Accounts, NEW k \in Keys, StartBooking(r, u, k) PROVE StartStep(r)
      <3>1. req'[r] = [kind |-> "user", guest |-> NULL, user |-> u, key |-> k, email |-> NULL, phone |-> NULL]
            /\ \A q \in Requests : q # r => req'[q] = req[q]
        BY <1>0, <2>2 DEF StartBooking, TypeOK
      <3>2. [kind |-> "user", guest |-> NULL, user |-> u, key |-> k, email |-> NULL, phone |-> NULL] \in Request
        BY DEF Request
      <3>4. QED
        BY <1>0, <2>2, <3>1, <3>2, GotoEffect DEF StartBooking, StartStep, Others, SameRows, database
    <2>3. ASSUME NEW u \in Accounts, NEW g \in Guests, StartClaim(r, u, g) PROVE StartStep(r)
      <3>1. req'[r] = [kind |-> "claim", guest |-> g, user |-> u, key |-> NULL, email |-> NULL, phone |-> NULL]
            /\ \A q \in Requests : q # r => req'[q] = req[q]
        BY <1>0, <2>3 DEF StartClaim, TypeOK
      <3>2. [kind |-> "claim", guest |-> g, user |-> u, key |-> NULL, email |-> NULL, phone |-> NULL] \in Request
        BY DEF Request
      <3>4. QED
        BY <1>0, <2>3, <3>1, <3>2, GotoEffect, AnswerEffect DEF StartClaim, StartStep, Others, SameRows, database
    <2>4. QED
      BY <1>1, <2>1, <2>2, <2>3 DEF Start
  <1>2. ASSUME NEW r \in Requests, Lookup(r) PROVE EndStep(r) \/ AdvanceStep(r)
    BY <1>0, <1>2, FindOwnTyped, FoundEffect, GotoEffect
       DEF Lookup, EndStep, AdvanceStep, Others, RequestInv
  <1>3. ASSUME NEW r \in Requests, LookupClaimed(r) PROVE EndStep(r) \/ AdvanceStep(r)
    BY <1>0, <1>3, ReplayTyped, FoundEffect, GotoEffect
       DEF LookupClaimed, EndStep, AdvanceStep, Others, RequestInv
  <1>4. ASSUME NEW r \in Requests, LockGuest(r) PROVE EndStep(r) \/ AdvanceStep(r)
    <2>1. req[r].kind = "guest" /\ req[r].guest \in Guests
      BY <1>0, <1>4 DEF LockGuest, RequestInv
    <2>2. session[req[r].guest].order_count \in 0..1
      BY <1>0, <2>1 DEF TypeOK, SessionRow
    <2>3. QED
      BY <1>0, <1>4, <2>1, <2>2, FindOwnTyped, FoundEffect, RollbackEffect, GotoEffect
         DEF LockGuest, EndStep, AdvanceStep, Others
  <1>5. ASSUME NEW r \in Requests, FindGuestOrderEntitlement(r) PROVE EndStep(r) \/ AdvanceStep(r)
    BY <1>0, <1>5, RollbackEffect, GotoEffect
       DEF FindGuestOrderEntitlement, EndStep, AdvanceStep, Others, RequestInv
  <1>6. ASSUME NEW r \in Requests, CreateBooking(r) PROVE EndStep(r) \/ AdvanceStep(r)
    BY <1>0, <1>6, RollbackEffect, GotoEffect
       DEF CreateBooking, EndStep, AdvanceStep, Others, RequestInv
  <1>7. ASSUME NEW r \in Requests, ConsumeGuestOrder(r) PROVE EndStep(r) \/ AdvanceStep(r)
    BY <1>0, <1>7, RollbackEffect, GotoEffect
       DEF ConsumeGuestOrder, EndStep, AdvanceStep, Others, RequestInv
  <1>8. ASSUME NEW r \in Requests, ConsumeGuestOrderEntitlement(r) PROVE EndStep(r) \/ AnchorStep(r)
    <2>0. pc[r] = "anchor" /\ req[r].kind = "guest" /\ req[r] \in Request
      BY <1>0, <1>8 DEF ConsumeGuestOrderEntitlement, RequestInv, TypeOK
    <2>1. NextAnchor(r) \in Anchors(r) /\ NextAnchor(r) \in Contacts /\ NextAnchor(r) \notin held[r]
      BY <1>0, <2>0 DEF NextAnchor, Anchors, AnchorInv, Contacts, Request
    <2>2. CASE entitlement[NextAnchor(r)] # NULL
      BY <1>0, <1>8, <2>0, <2>2, RollbackEffect DEF ConsumeGuestOrderEntitlement, EndStep, Others
    <2>3. CASE entitlement[NextAnchor(r)] = NULL
      <3>1. /\ held'[r] = held[r] \cup {NextAnchor(r)}
            /\ \A q \in Requests : q # r => held'[q] = held[q]
        BY <1>0, <1>8, <2>3 DEF ConsumeGuestOrderEntitlement, TypeOK
      <3>2. QED
        BY <1>0, <1>8, <2>0, <2>1, <2>3, <3>1, GotoEffect DEF ConsumeGuestOrderEntitlement, AnchorStep, Others
    <2>4. QED
      BY <2>2, <2>3
  <1>9. ASSUME NEW r \in Requests, Recover(r) PROVE EndStep(r)
    BY <1>0, <1>9, NothingHeld, GotoEffect, AnswerEffect DEF Recover, EndStep, Others
  <1>10. ASSUME NEW r \in Requests, PublishCreated(r) PROVE EndStep(r)
    BY <1>0, <1>10, NothingHeld, GotoEffect DEF PublishCreated, EndStep, Others
  <1>11. ASSUME NEW r \in Requests, ClaimLock(r) PROVE EndStep(r) \/ AdvanceStep(r)
    BY <1>0, <1>11, EndClaimEffect, GotoEffect DEF ClaimLock, EndStep, AdvanceStep, Others
  <1>12. ASSUME NEW r \in Requests, ClaimMove(r) PROVE EndStep(r) \/ AdvanceStep(r)
    BY <1>0, <1>12, EndClaimEffect, GotoEffect DEF ClaimMove, EndStep, AdvanceStep, Others
  <1>13. ASSUME NEW r \in Requests, ClaimMark(r) PROVE EndStep(r) \/ AdvanceStep(r)
    BY <1>0, <1>13, EndClaimEffect, GotoEffect DEF ClaimMark, EndStep, AdvanceStep, Others
  <1>14. ASSUME NEW r \in Requests, RefuseBooking(r) PROVE EndStep(r)
    BY <1>0, <1>14, RollbackEffect DEF RefuseBooking, EndStep, Others, RequestInv
  <1>15. ASSUME NEW r \in Requests, Abort(r) PROVE EndStep(r)
    <2>1. pc[r] # "idle"
      BY <1>15 DEF Abort, InTransaction
    <2>2. CASE req[r].kind = "claim"
      <3>1. pc[r] \notin {"anchor", "commit"}
        BY <1>0, <2>1, <2>2 DEF RequestInv
      <3>2. QED
        BY <1>0, <1>15, <2>1, <2>2, <3>1, EndClaimEffect DEF Abort, EndStep, Others
    <2>3. CASE req[r].kind # "claim"
      BY <1>0, <1>15, <2>1, <2>3, RollbackEffect DEF Abort, EndStep, Others
    <2>4. QED
      BY <2>2, <2>3
  <1>16. ASSUME NEW r \in Requests, Crash(r) PROVE EndStep(r)
    <2>1. held'[r] = {} /\ \A q \in Requests : q # r => held'[q] = held[q]
      BY <1>0, <1>16 DEF Crash, TypeOK
    <2>2. QED
      BY <1>0, <1>16, <2>1, GotoEffect, AnswerEffect DEF Crash, EndStep, Others
  <1>17. ASSUME NEW g \in Guests, ExpireGuest(g) PROVE IdleStep
    BY <1>0, <1>17 DEF ExpireGuest, IdleStep, SameRows, TypeOK, SessionRow
  <1>18. QED
    BY <1>1, <1>2, <1>3, <1>4, <1>5, <1>6, <1>7, <1>8, <1>9, <1>10, <1>11, <1>12, <1>13, <1>14,
       <1>15, <1>16, <1>17 DEF Next, Advance

-----------------------------------------------------------------------------
(* The invariant, one lemma per shape of step. *)

LEMMA InitInv == Init => IInv
  <1> USE ConstantsAssumption, NullAssumption
  <1> SUFFICES ASSUME Init PROVE IInv
    OBVIOUS
  <1>1. PICK old \in SUBSET Legacy, owner \in [Legacy -> Accounts], key \in [Legacy -> Keys] :
          /\ session = OldSessions(old)
          /\ booking = OldBookings(old, owner, key)
    BY DEF Init
  <1>2. ASSUME NEW b \in Orders, booking[b] # NULL
        PROVE  /\ b \in old /\ b \in Guests /\ booking[b].hash = <<b, key[b]>>
               /\ booking[b].guest_session_id = NULL /\ booking[b].user_id \in Accounts
               /\ booking[b].contact = {}
    BY <1>1, <1>2 DEF OldBookings, LegacyOrder, hashIdempotency
  <1>3. ASSUME NEW b \in old PROVE booking[b] # NULL
    <2>1. TypeOK /\ b \in Orders
      BY InitTyped DEF Orders
    <2>2. booking[b] = LegacyOrder(b, owner[b], key[b])
      BY <1>1, <2>1 DEF OldBookings
    <2>3. LegacyOrder(b, owner[b], key[b]) \in BookingRow
      BY DEF LegacyOrder, BookingRow, hashIdempotency
    <2>4. QED
      BY <2>2, <2>3
  <1>4. \A g \in Guests : /\ session[g].claimed_user_id = NULL
                          /\ g \in old => session[g].first_order_id = g /\ session[g].order_count = 1
                          /\ g \notin old => session[g].first_order_id = NULL /\ session[g].order_count = 0
    BY <1>1 DEF OldSessions
  <1>5. TypeOK
    BY InitTyped
  <1>6. RequestInv /\ FreshInv /\ LockInv /\ ReadInv /\ AnchorInv
    <2>1. ASSUME NEW r \in Requests PROVE r \notin old /\ booking[r] = NULL
      BY <1>2 DEF Orders
    <2>2. QED
      BY <2>1 DEF Init, RequestInv, FreshInv, LockInv, ReadInv, AnchorInv, Holds, HoldsGuestRow, Spending, ClaimSteps
  <1>7. HashInv
    BY <1>2 DEF Init, HashInv, InsertPending
  <1>8. AccountBookingInv
    BY <1>2 DEF AccountBookingInv
  <1>12. EntitledInv
    BY DEF Init, EntitledInv
  <1>9. OrderAndAllowanceAgree
    <2>1. \A g \in old : NULL # g
      OBVIOUS
    <2>2. \A b \in Orders, g \in Guests : PlacedBy(b, g) => b \in old /\ b = g
      BY <1>2 DEF PlacedBy
    <2>3. \A g \in old : PlacedBy(g, g)
      BY <1>2, <1>3 DEF PlacedBy, Orders
    <2>4. \A b \in Orders, c \in Contacts : booking[b] # NULL => booking[b].contact = {} /\ entitlement[c] # b
      BY <1>2 DEF Init
    <2>5. QED
      BY <1>4, <2>1, <2>2, <2>3, <2>4 DEF OrderAndAllowanceAgree, GuestOrder, PlacedBy
  <1>10. MarkerMatchesOwner
    BY <1>2, <1>3, <1>4 DEF MarkerMatchesOwner, Orders
  <1>11. QED
    BY <1>5, <1>6, <1>7, <1>8, <1>9, <1>10, <1>12 DEF IInv

\* Orders and guest rows as they were: the invariants about them stay.
LEMMA RowsKept ==
  ASSUME IInv, SameRows, UNCHANGED <<booking, entitlement>>
  PROVE  AccountBookingInv' /\ EntitledInv' /\ OrderAndAllowanceAgree' /\ MarkerMatchesOwner'
  BY DEF IInv, SameRows, AccountBookingInv, EntitledInv, OrderAndAllowanceAgree, MarkerMatchesOwner, GuestOrder, PlacedBy

LEMMA StartStepInv ==
  ASSUME IInv, NEW r \in Requests, StartStep(r), TypeOK'
  PROVE  IInv'
  <1> USE ConstantsAssumption, NullAssumption
  <1>0. TypeOK /\ RequestInv /\ FreshInv /\ LockInv /\ ReadInv /\ AnchorInv /\ HashInv
    BY DEF IInv
  <1>1. RequestInv'
    BY <1>0 DEF RequestInv, StartStep, Others, ClaimSteps
  <1>2. FreshInv'
    BY <1>0 DEF FreshInv, StartStep, Others, Spending
  <1>3. LockInv'
    BY <1>0 DEF LockInv, StartStep, Others, Holds, HoldsGuestRow
  <1>4. ReadInv'
    <2>1. ASSUME NEW q \in Requests, pc'[q] \in Spending \cup {"move", "mark", "settle"}
          PROVE  q # r /\ pc'[q] = pc[q] /\ req'[q] = req[q] /\ Anchors(q)' = Anchors(q)
      BY <2>1 DEF StartStep, Others, Spending, Anchors
    <2>2. ASSUME NEW q \in Requests, pc'[q] \in Spending, req'[q].kind = "guest"
          PROVE  session'[req'[q].guest].order_count = 0 /\ Anchors(q)' # {}
      <3>1. pc[q] \in Spending /\ req[q].kind = "guest" /\ Anchors(q)' = Anchors(q) /\ req'[q] = req[q]
        BY <2>1, <2>2
      <3>2. req[q].guest \in Guests
        BY <1>0, <3>1 DEF RequestInv, Spending
      <3>3. QED
        BY <1>0, <3>1, <3>2 DEF ReadInv, StartStep, SameRows
    <2>3. ASSUME NEW q \in Requests, pc'[q] \in {"move", "mark", "settle"}
          PROVE  req'[q] = req[q] /\ pc[q] = pc'[q] /\ req[q].guest \in Guests
      BY <1>0, <2>1, <2>3 DEF RequestInv, ClaimSteps
    <2>4. QED
      BY SMTT(60), <1>0, <2>2, <2>3 DEF ReadInv, StartStep, SameRows
  <1>5. AnchorInv'
    BY <1>0, NothingHeld DEF AnchorInv, StartStep, Others, Anchors
  <1>6. HashInv'
    BY <1>0 DEF HashInv, StartStep, Others, InsertPending, HashOf, ScopeOf
  <1>7. QED
    BY <1>1, <1>2, <1>3, <1>4, <1>5, <1>6, RowsKept DEF IInv, StartStep

LEMMA EndStepInv ==
  ASSUME IInv, NEW r \in Requests, EndStep(r), TypeOK'
  PROVE  IInv'
  <1> USE ConstantsAssumption, NullAssumption
  <1>0. TypeOK /\ RequestInv /\ FreshInv /\ LockInv /\ ReadInv /\ AnchorInv /\ HashInv
    BY DEF IInv
  <1>1. RequestInv'
    BY <1>0 DEF RequestInv, EndStep, Others, ClaimSteps
  <1>2. FreshInv'
    BY <1>0 DEF FreshInv, EndStep, Others, Spending, database
  <1>3. LockInv'
    BY <1>0 DEF LockInv, EndStep, Others, Holds, HoldsGuestRow
  <1>4. ReadInv'
    BY <1>0 DEF ReadInv, RequestInv, EndStep, Others, database, Spending, Anchors
  <1>5. AnchorInv'
    BY <1>0 DEF AnchorInv, EndStep, Others, Anchors, database
  <1>6. HashInv'
    BY <1>0 DEF HashInv, EndStep, Others, InsertPending, HashOf, ScopeOf, database
  <1>7. QED
    BY <1>1, <1>2, <1>3, <1>4, <1>5, <1>6, RowsKept DEF IInv, EndStep, SameRows, database

LEMMA AdvanceStepInv ==
  ASSUME IInv, NEW r \in Requests, AdvanceStep(r), TypeOK'
  PROVE  IInv'
  <1> USE ConstantsAssumption, NullAssumption
  <1>0. TypeOK /\ RequestInv /\ FreshInv /\ LockInv /\ ReadInv /\ AnchorInv /\ HashInv
    BY DEF IInv
  <1>1. RequestInv'
    BY <1>0 DEF RequestInv, AdvanceStep, Others, ClaimSteps
  <1>2. FreshInv'
    BY <1>0 DEF FreshInv, RequestInv, AdvanceStep, Others, Spending, database, ClaimSteps
  <1>3. LockInv'
    <2>1. \A q \in Requests \ {r}, g \in Guests : Holds(q, g)' <=> Holds(q, g)
      BY DEF AdvanceStep, Others, Holds
    <2>2. \A g \in Guests : Holds(r, g)' => Holds(r, g) \/ RowFree(r, g)
      BY <1>0 DEF AdvanceStep, Holds, HoldsGuestRow, RequestInv
    <2>3. QED
      BY <1>0, <2>1, <2>2 DEF LockInv, RowFree
  <1>4. ReadInv'
    BY ZenonT(60), <1>0 DEF ReadInv, RequestInv, AdvanceStep, Others, database, Spending, Anchors
  <1>5. AnchorInv'
    <2>1. \A q \in Requests : Anchors(q)' = Anchors(q)
      BY DEF AdvanceStep, Anchors
    <2>2. pc'[r] = "anchor" => held[r] = {} /\ Anchors(r) # {}
      BY <1>0, NothingHeld DEF AdvanceStep, ReadInv, RequestInv, Spending
    <2>3. pc'[r] = "commit" => held[r] = {} /\ Anchors(r) = {}
      BY <1>0, NothingHeld DEF AdvanceStep, RequestInv, Anchors
    <2>4. pc[r] \notin {"anchor", "commit"} /\ held[r] = {} /\ pc[r] # pc'[r]
      BY <1>0, NothingHeld DEF AdvanceStep
    <2>5. ASSUME NEW q \in Requests
          PROVE  /\ \A c \in Contacts : c \in held'[q] =>
                      /\ pc'[q] \in {"anchor", "commit"} /\ req'[q].kind = "guest"
                      /\ c \in Anchors(q)' /\ entitlement'[c] = NULL
                 /\ pc'[q] = "anchor" => ~(Anchors(q)' \subseteq held'[q])
                 /\ pc'[q] = "commit" => Anchors(q)' = held'[q]
      <3>1. CASE q = r
        BY <2>1, <2>2, <2>3, <2>4, <3>1 DEF AdvanceStep
      <3>2. CASE q # r
        BY <1>0, <2>1, <3>2 DEF AnchorInv, AdvanceStep, Others, database
      <3>3. QED
        BY <3>1, <3>2
    <2>6. QED
      BY <1>0, <2>5 DEF AnchorInv, AdvanceStep
  <1>6. HashInv'
    <2>1. booking' = booking /\ \A q \in Requests : HashOf(q)' = HashOf(q)
      BY DEF AdvanceStep, HashOf, ScopeOf, database
    <2>2. \A q \in Requests \ {r} : InsertPending(q)' <=> InsertPending(q)
      BY DEF AdvanceStep, Others, InsertPending
    <2>3. ASSUME InsertPending(r)'
          PROVE  \/ InsertPending(r)
                 \/ HashFree(r) /\ \A b \in Orders : booking[b] # NULL => booking[b].hash # HashOf(r)
      BY <2>3 DEF AdvanceStep, InsertPending
    <2>4. \A q, p \in Requests :
             InsertPending(q)' /\ InsertPending(p)' /\ HashOf(q) = HashOf(p) => q = p
      BY <1>0, <2>2, <2>3 DEF HashInv, HashFree
    <2>5. \A q \in Requests, b \in Orders :
             InsertPending(q)' /\ booking[b] # NULL => booking[b].hash # HashOf(q)
      BY <1>0, <2>2, <2>3 DEF HashInv
    <2>6. QED
      BY <1>0, <2>1, <2>4, <2>5 DEF HashInv
  <1>7. QED
    BY <1>1, <1>2, <1>3, <1>4, <1>5, <1>6, RowsKept DEF IInv, AdvanceStep, SameRows, database

LEMMA AnchorStepInv ==
  ASSUME IInv, NEW r \in Requests, AnchorStep(r), TypeOK'
  PROVE  IInv'
  <1> USE ConstantsAssumption, NullAssumption
  <1>0. TypeOK /\ RequestInv /\ FreshInv /\ LockInv /\ ReadInv /\ AnchorInv /\ HashInv
    BY DEF IInv
  <1>1. RequestInv'
    BY <1>0 DEF RequestInv, AnchorStep, Others, ClaimSteps
  <1>2. FreshInv'
    BY <1>0 DEF FreshInv, AnchorStep, Others, Spending, database
  <1>3. LockInv'
    BY <1>0 DEF LockInv, AnchorStep, Others, Holds, HoldsGuestRow
  <1>4. ReadInv'
    BY SMTT(40), <1>0 DEF ReadInv, AnchorStep, Others, database, Spending, Anchors
  <1>5. AnchorInv'
    <2>1. Anchors(r)' = Anchors(r) /\ req[r].kind = "guest" /\ req' = req
      BY <1>0 DEF AnchorStep, RequestInv, Anchors
    <2>2. held'[r] \subseteq Anchors(r)
      BY <1>0 DEF AnchorStep, AnchorInv, TypeOK
    <2>3. QED
      BY <1>0, <2>1, <2>2 DEF AnchorInv, AnchorStep, Others, Anchors, database, KeyFree, TypeOK
  <1>6. HashInv'
    BY <1>0 DEF HashInv, AnchorStep, Others, InsertPending, HashOf, ScopeOf, database
  <1>7. QED
    BY <1>1, <1>2, <1>3, <1>4, <1>5, <1>6, RowsKept DEF IInv, AnchorStep, SameRows, database

\* The rows after a booking commits.
LEMMA CommitBookingEffect ==
  ASSUME IInv, NEW r \in Requests, CommitBooking(r)
  PROVE  /\ req[r] \in Request /\ req[r].key \in Keys /\ r \in Orders /\ booking[r] = NULL
         /\ booking'[r] # NULL /\ booking'[r].hash = HashOf(r) /\ booking'[r].contact = Anchors(r)
         /\ booking'[r].user_id = req[r].user /\ booking'[r].guest_session_id = req[r].guest
         /\ \A b \in Orders : b # r => booking'[b] = booking[b]
         /\ \A c \in Contacts : entitlement'[c] = IF c \in held[r] THEN r ELSE entitlement[c]
         /\ \A g \in Guests : session'[g].claimed_user_id = session[g].claimed_user_id
         /\ \A g \in Guests : g # req[r].guest => session'[g] = session[g]
         /\ req[r].guest \in Guests => /\ session'[req[r].guest].order_count = 1
                                       /\ session'[req[r].guest].first_order_id = r
         /\ pc[r] = "commit" /\ pc'[r] \in {"publish", "recover"} /\ held'[r] = {}
         /\ pc'[r] = "publish" => reply'[r].order = r
         /\ Others(r) /\ req' = req
  <1> USE ConstantsAssumption, NullAssumption
  <1>0. TypeOK /\ RequestInv /\ FreshInv
    BY DEF IInv
  <1>1. req[r] \in Request /\ req[r].key \in Keys /\ r \in Orders /\ booking[r] = NULL /\ pc[r] = "commit"
    BY <1>0 DEF CommitBooking, TypeOK, RequestInv, FreshInv, Spending, Orders
  <1>2. ScopeOf(r) \in Guests \cup Accounts
    BY <1>0, <1>1 DEF RequestInv, ScopeOf
  <1>3. [user_id |-> req[r].user, guest_session_id |-> req[r].guest,
         hash |-> HashOf(r), contact |-> Anchors(r)] \in BookingRow
    BY <1>1, <1>2 DEF BookingRow, Request, HashOf, hashIdempotency, Anchors, Contacts
  <1>4. /\ booking'[r] = [user_id |-> req[r].user, guest_session_id |-> req[r].guest,
                          hash |-> HashOf(r), contact |-> Anchors(r)]
        /\ \A b \in Orders : b # r => booking'[b] = booking[b]
    BY <1>0, <1>1 DEF CommitBooking, TypeOK
  <1>5. \A c \in Contacts : entitlement'[c] = IF c \in held[r] THEN r ELSE entitlement[c]
    BY DEF CommitBooking, AnchorContacts
  <1>6. ASSUME NEW g \in Guests
        PROVE  /\ g # req[r].guest => session'[g] = session[g]
               /\ session'[g].claimed_user_id = session[g].claimed_user_id
               /\ g = req[r].guest => session'[g].order_count = 1 /\ session'[g].first_order_id = r
    <2>1. session[g] \in SessionRow
      BY <1>0 DEF TypeOK
    <2>2. session'[g] = IF g = req[r].guest
                        THEN [session[g] EXCEPT !.order_count = 1, !.first_order_id = r] ELSE session[g]
      BY DEF CommitBooking, SpendAllowance
    <2>3. QED
      BY <2>1, <2>2 DEF SessionRow
  <1>7. held'[r] = {} /\ \A q \in Requests : q # r => held'[q] = held[q]
    BY <1>0 DEF CommitBooking, TypeOK
  <1>8. QED
    BY <1>0, <1>1, <1>3, <1>4, <1>5, <1>6, <1>7, GotoEffect, AnswerEffect DEF CommitBooking, Others

LEMMA CommitBookingInv ==
  ASSUME IInv, NEW r \in Requests, CommitBooking(r), TypeOK'
  PROVE  IInv'
  <1> USE ConstantsAssumption, NullAssumption, CommitBookingEffect
  <1>0. TypeOK /\ RequestInv /\ FreshInv /\ LockInv /\ ReadInv /\ AnchorInv /\ HashInv
        /\ AccountBookingInv /\ EntitledInv /\ OrderAndAllowanceAgree /\ MarkerMatchesOwner
    BY DEF IInv
  <1>a. req[r].kind = "guest" \/ req[r].kind = "user"
    BY <1>0 DEF RequestInv
  <1>1. RequestInv'
    BY <1>0 DEF RequestInv, Others, ClaimSteps
  <1>2. FreshInv'
    BY <1>0 DEF FreshInv, Others, Spending, Orders
  <1>3. LockInv'
    BY <1>0 DEF LockInv, Others, Holds, HoldsGuestRow
  <1>4. ReadInv'
    \* Another transaction in its critical part holds a different guest row.
    <2>1. ASSUME NEW q \in Requests, q # r, req[q].guest \in Guests, req[q] # NULL, pc[q] \in HoldsGuestRow
          PROVE  session'[req[q].guest] = session[req[q].guest]
      BY <1>0, <2>1 DEF LockInv, Holds, HoldsGuestRow, RequestInv
    <2>2. ASSUME NEW q \in Requests, pc'[q] \in Spending \cup {"move", "mark", "settle"}
          PROVE  q # r /\ pc'[q] = pc[q] /\ req'[q] = req[q] /\ Anchors(q)' = Anchors(q)
                 /\ pc[q] \in HoldsGuestRow /\ req[q] # NULL
      BY <1>0, <2>2 DEF Others, Spending, HoldsGuestRow, Anchors, RequestInv
    <2>3. ASSUME NEW q \in Requests, pc'[q] \in Spending, req'[q].kind = "guest"
          PROVE  session'[req'[q].guest].order_count = 0 /\ Anchors(q)' # {}
      <3>1. req[q].guest \in Guests
        BY <1>0, <2>2, <2>3 DEF RequestInv
      <3>2. QED
        BY <1>0, <2>1, <2>2, <2>3, <3>1 DEF ReadInv
    <2>4. ASSUME NEW q \in Requests, pc'[q] \in {"move", "mark", "settle"}
          PROVE  /\ req'[q] = req[q] /\ pc[q] = pc'[q] /\ session'[req[q].guest] = session[req[q].guest]
                 /\ session[req[q].guest].first_order_id \in Orders
                 /\ session[req[q].guest].first_order_id # r
      <3>1. req[q].guest \in Guests /\ pc[q] \in {"move", "mark", "settle"}
        BY <1>0, <2>2, <2>4 DEF RequestInv, ClaimSteps
      <3>2. session[req[q].guest].first_order_id # NULL /\ session[req[q].guest] \in SessionRow
        BY <1>0, <3>1 DEF ReadInv, TypeOK
      <3>3. PlacedBy(session[req[q].guest].first_order_id, req[q].guest)
        BY <1>0, <3>1, <3>2 DEF OrderAndAllowanceAgree
      <3>4. QED
        <4>1. session'[req[q].guest] = session[req[q].guest]
          BY <2>1, <2>2, <2>4, <3>1
        <4>2. session[req[q].guest].first_order_id \in Orders
          BY <3>2 DEF SessionRow
        <4>3. session[req[q].guest].first_order_id # r
          BY <3>3 DEF PlacedBy
        <4>4. QED
          BY <2>2, <2>4, <4>1, <4>2, <4>3
    <2>5. QED
      BY <1>0, <2>3, <2>4 DEF ReadInv
  <1>5. AnchorInv'
    <2>1. \A q \in Requests : Anchors(q)' = Anchors(q)
      BY DEF Anchors
    <2>2. \A q \in Requests, c \in Contacts : c \in held[q] /\ q # r => c \notin held[r]
      BY <1>0 DEF AnchorInv
    <2>3. QED
      BY <1>0, <2>1, <2>2 DEF AnchorInv, Others
  <1>6. HashInv'
    <2>1. InsertPending(r) /\ ~InsertPending(r)'
      BY <1>0 DEF InsertPending, RequestInv
    <2>2. \A q \in Requests : HashOf(q)' = HashOf(q)
      BY DEF HashOf, ScopeOf
    <2>3. \A q \in Requests : q # r => (InsertPending(q)' <=> InsertPending(q))
      BY DEF InsertPending, Others
    <2>4. QED
      BY <1>0, <2>1, <2>2, <2>3 DEF HashInv
  <1>7. AccountBookingInv'
    <2>1. booking'[r].hash[1] = ScopeOf(r)
      BY DEF HashOf, hashIdempotency
    <2>2. QED
      BY <1>0, <1>a, <2>1 DEF AccountBookingInv, RequestInv, ScopeOf, Anchors
  <1>8. OrderAndAllowanceAgree'
    <2>1. booking'[r].hash[1] = ScopeOf(r)
      BY DEF HashOf, hashIdempotency
    <2>2. CASE req[r].kind = "guest"
      <3>1. req[r].guest \in Guests /\ ScopeOf(r) = req[r].guest
        BY <1>0, <2>2 DEF RequestInv, ScopeOf
      <3>2. session[req[r].guest].first_order_id = NULL
        BY <1>0, <2>2, <3>1 DEF ReadInv, OrderAndAllowanceAgree, Spending, TypeOK
      <3>3. \A b \in Orders : ~PlacedBy(b, req[r].guest)
        BY <1>0, <3>1, <3>2 DEF OrderAndAllowanceAgree, Orders
      <3>4. \A b \in Orders, g \in Guests : PlacedBy(b, g)' <=> PlacedBy(b, g) \/ (b = r /\ g = req[r].guest)
        BY <2>1, <3>1 DEF PlacedBy
      <3>5. held[r] = Anchors(r) /\ \A c \in Contacts : c \in held[r] => entitlement[c] = NULL
        BY <1>0 DEF AnchorInv
      <3>6. \A g \in Guests : session'[g].order_count = 1 <=> session'[g].first_order_id # NULL
        BY <1>0, <3>1 DEF OrderAndAllowanceAgree
      <3>7. ASSUME NEW g \in Guests, session'[g].first_order_id # NULL
            PROVE  PlacedBy(session[g].first_order_id, g)'
        <4>1. CASE g = req[r].guest
          BY <2>1, <3>1, <4>1 DEF PlacedBy
        <4>2. CASE g # req[r].guest
          <5>1. session'[g] = session[g] /\ session[g].first_order_id \in Orders
            BY <1>0, <3>7, <4>2 DEF TypeOK, SessionRow
          <5>2. PlacedBy(session[g].first_order_id, g)
            BY <1>0, <3>7, <5>1 DEF OrderAndAllowanceAgree
          <5>3. QED
            BY <5>1, <5>2 DEF PlacedBy
        <4>3. QED
          BY <4>1, <4>2
      <3>8. \A b \in Orders, g \in Guests : PlacedBy(b, g)' => session'[g].first_order_id = b
        BY <1>0, <3>1, <3>3, <3>4 DEF OrderAndAllowanceAgree
      <3>9. ASSUME NEW b \in Orders, NEW c \in Contacts, GuestOrder(b)'
            PROVE  c \in booking'[b].contact <=> entitlement'[c] = b
        <4>1. CASE b = r
          <5>1. entitlement[c] # r
            BY <1>0 DEF EntitledInv
          <5>2. QED
            BY <3>5, <4>1, <5>1
        <4>2. CASE b # r
          <5>1. GuestOrder(b)
            BY <3>4, <3>9, <4>2 DEF GuestOrder
          <5>2. QED
            BY <1>0, <3>5, <4>2, <5>1 DEF OrderAndAllowanceAgree, Orders
        <4>3. QED
          BY <4>1, <4>2
      <3>10. QED
        BY <3>6, <3>7, <3>8, <3>9 DEF OrderAndAllowanceAgree
    <2>3. CASE req[r].kind = "user"
      <3>1. req[r].guest = NULL /\ ScopeOf(r) \in Accounts /\ req[r].email = NULL /\ req[r].phone = NULL
        BY <1>0, <2>3 DEF RequestInv, ScopeOf
      <3>2. \A b \in Orders, g \in Guests : PlacedBy(b, g)' <=> PlacedBy(b, g)
        BY <2>1, <3>1 DEF PlacedBy
      <3>3. held[r] = {}
        BY <1>0, <3>1 DEF AnchorInv, Anchors
      <3>4. \A g \in Guests : session'[g] = session[g]
        BY <3>1
      <3>5. \A b \in Orders : GuestOrder(b)' => GuestOrder(b) /\ b # r
        BY <3>2 DEF GuestOrder, PlacedBy
      <3>6. \A g \in Guests : session[g].first_order_id \in Orders \cup {NULL}
        BY <1>0 DEF TypeOK, SessionRow
      <3>7. QED
        BY <1>0, <3>2, <3>3, <3>4, <3>5, <3>6 DEF OrderAndAllowanceAgree
    <2>4. QED
      BY <1>a, <2>2, <2>3
  <1>9. MarkerMatchesOwner'
    <2>1. ASSUME NEW g \in Guests, g = req[r].guest
          PROVE  session[g].first_order_id = NULL /\ session[g].claimed_user_id = NULL /\ req[r].user = Shop
      <3>1. req[r].kind = "guest"
        BY <1>0, <1>a, <2>1 DEF RequestInv
      <3>2. session[g].order_count = 0 /\ session[g].first_order_id = NULL
        BY <1>0, <2>1, <3>1 DEF ReadInv, OrderAndAllowanceAgree, Spending
      <3>3. QED
        BY <1>0, <2>1, <3>1, <3>2 DEF RequestInv, MarkerMatchesOwner
    <2>2. ASSUME NEW g \in Guests, g # req[r].guest
          PROVE  /\ session'[g] = session[g]
                 /\ session[g].first_order_id # NULL =>
                      booking'[session[g].first_order_id] = booking[session[g].first_order_id]
      <3>1. session[g].first_order_id # NULL =>
              session[g].first_order_id \in Orders /\ booking[session[g].first_order_id] # NULL
        BY <1>0 DEF OrderAndAllowanceAgree, PlacedBy, TypeOK, SessionRow
      <3>2. QED
        BY <2>2, <3>1
    <2>3. QED
      BY <1>0, <2>1, <2>2 DEF MarkerMatchesOwner
  <1>10. EntitledInv'
    BY <1>0 DEF EntitledInv, TypeOK
  <1>11. QED
    BY <1>1, <1>2, <1>3, <1>4, <1>5, <1>6, <1>7, <1>8, <1>9, <1>10 DEF IInv

\* The rows after a claim commits.
LEMMA CommitClaimEffect ==
  ASSUME IInv, NEW r \in Requests, CommitClaim(r), NEW g, NEW b,
         g = req[r].guest, b = session[g].first_order_id
  PROVE  /\ pc[r] = "settle" /\ g \in Guests /\ b \in Orders /\ req[r].user \in Accounts
         /\ PlacedBy(b, g) /\ booking[b].guest_session_id = g
         /\ booking'[b] # NULL /\ booking'[b].hash = booking[b].hash
         /\ booking'[b].contact = booking[b].contact
         /\ booking'[b].user_id = req[r].user /\ booking'[b].guest_session_id = NULL
         /\ \A a \in Orders : a # b => booking'[a] = booking[a]
         /\ \A h \in Guests : h # g => session'[h] = session[h]
         /\ \A h \in Guests : session'[h].order_count = session[h].order_count
         /\ \A h \in Guests : session'[h].first_order_id = session[h].first_order_id
         /\ session'[g].claimed_user_id = req[r].user
         /\ pc'[r] = "done" /\ held' = held /\ held[r] = {}
         /\ Others(r) /\ UNCHANGED <<entitlement, req>>
  <1> USE ConstantsAssumption, NullAssumption
  <1>0. TypeOK /\ RequestInv /\ ReadInv /\ AnchorInv /\ OrderAndAllowanceAgree
    BY DEF IInv
  <1>1. pc[r] = "settle" /\ g \in Guests /\ req[r].user \in Accounts
    BY <1>0 DEF CommitClaim, RequestInv, ClaimSteps
  <1>2. session[g] \in SessionRow /\ b \in Orders /\ booking[b].guest_session_id = g /\ PlacedBy(b, g)
    BY <1>0, <1>1 DEF TypeOK, SessionRow, ReadInv, OrderAndAllowanceAgree
  <1>3. booking[b] \in BookingRow
    BY <1>0, <1>2 DEF TypeOK, PlacedBy
  <1>4. [booking[b] EXCEPT !.user_id = req[r].user, !.guest_session_id = NULL] \in BookingRow
    BY <1>1, <1>3 DEF BookingRow
  <1>5. /\ booking'[b] = [booking[b] EXCEPT !.user_id = req[r].user, !.guest_session_id = NULL]
        /\ \A a \in Orders : a # b => booking'[a] = booking[a]
    BY <1>0, <1>2 DEF CommitClaim, TypeOK
  <1>6. /\ booking'[b] # NULL /\ booking'[b].hash = booking[b].hash
        /\ booking'[b].contact = booking[b].contact
        /\ booking'[b].user_id = req[r].user /\ booking'[b].guest_session_id = NULL
    BY <1>3, <1>4, <1>5 DEF BookingRow
  <1>7. /\ session'[g] = ClaimMarker(g, req[r].user)
        /\ \A h \in Guests : h # g => session'[h] = session[h]
    BY <1>0, <1>1 DEF CommitClaim, TypeOK
  <1>8. /\ session'[g].claimed_user_id = req[r].user
        /\ session'[g].order_count = session[g].order_count
        /\ session'[g].first_order_id = session[g].first_order_id
    BY <1>2, <1>7 DEF ClaimMarker, SessionRow
  <1>9. UNCHANGED <<entitlement, req, held>> /\ held[r] = {}
    BY <1>0, <1>1, NothingHeld DEF CommitClaim
  <1>10. pc'[r] = "done" /\ Others(r)
    BY <1>0, <1>9, EndClaimEffect, <1>1 DEF CommitClaim, Others
  <1>11. QED
    BY <1>1, <1>2, <1>5, <1>6, <1>7, <1>8, <1>9, <1>10

LEMMA CommitClaimInv ==
  ASSUME IInv, NEW r \in Requests, CommitClaim(r), TypeOK'
  PROVE  IInv'
  <1> USE ConstantsAssumption, NullAssumption
  <1> DEFINE g == req[r].guest
             b == session[g].first_order_id
  <1> USE CommitClaimEffect
  <1>0. TypeOK /\ RequestInv /\ FreshInv /\ LockInv /\ ReadInv /\ AnchorInv /\ HashInv
        /\ AccountBookingInv /\ EntitledInv /\ OrderAndAllowanceAgree /\ MarkerMatchesOwner
    BY DEF IInv
  <1>a. \A a \in Orders : /\ booking'[a] # NULL <=> booking[a] # NULL
                          /\ booking[a] # NULL => /\ booking'[a].hash = booking[a].hash
                                                  /\ booking'[a].contact = booking[a].contact
    BY DEF PlacedBy
  <1>b. \A a \in Orders, h \in Guests : PlacedBy(a, h)' <=> PlacedBy(a, h)
    BY <1>a DEF PlacedBy
  <1>1. RequestInv'
    BY <1>0 DEF RequestInv, Others, ClaimSteps
  <1>2. FreshInv'
    BY <1>0, <1>a DEF FreshInv, Others, Spending, Orders
  <1>3. LockInv'
    BY <1>0 DEF LockInv, Others, Holds, HoldsGuestRow
  <1>4. ReadInv'
    \* Any other transaction that holds a guest row holds another one.
    <2>1. ASSUME NEW q \in Requests, q # r, pc[q] \in HoldsGuestRow, req[q] # NULL, req[q].guest \in Guests
          PROVE  req[q].guest # g
      BY <1>0, <2>1 DEF LockInv, Holds, HoldsGuestRow, RequestInv
    <2>2. ASSUME NEW q \in Requests, pc'[q] \in Spending \cup {"move", "mark", "settle"}
          PROVE  q # r /\ pc'[q] = pc[q] /\ req'[q] = req[q] /\ Anchors(q)' = Anchors(q)
                 /\ pc[q] \in HoldsGuestRow /\ req[q] # NULL
      BY <1>0, <2>2 DEF Others, Spending, HoldsGuestRow, Anchors, RequestInv
    <2>3. ASSUME NEW q \in Requests, pc'[q] \in Spending, req'[q].kind = "guest"
          PROVE  session'[req'[q].guest].order_count = 0 /\ Anchors(q)' # {}
      <3>1. req[q].guest \in Guests
        BY <1>0, <2>2, <2>3 DEF RequestInv
      <3>2. QED
        BY <1>0, <2>2, <2>3, <3>1 DEF ReadInv
    <2>4. ASSUME NEW q \in Requests, pc'[q] \in {"move", "mark", "settle"}
          PROVE  /\ req'[q] = req[q] /\ pc[q] = pc'[q] /\ session'[req[q].guest] = session[req[q].guest]
                 /\ session[req[q].guest].first_order_id \in Orders
                 /\ session[req[q].guest].first_order_id # b
      <3>1. req[q].guest \in Guests /\ pc[q] \in {"move", "mark", "settle"}
        BY <1>0, <2>2, <2>4 DEF RequestInv, ClaimSteps
      <3>2. session[req[q].guest].first_order_id # NULL /\ session[req[q].guest] \in SessionRow
        BY <1>0, <3>1 DEF ReadInv, TypeOK
      <3>3. PlacedBy(session[req[q].guest].first_order_id, req[q].guest)
        BY <1>0, <3>1, <3>2 DEF OrderAndAllowanceAgree
      <3>4. req[q].guest # g
        BY <2>1, <2>2, <2>4, <3>1
      <3>5. QED
        BY <2>2, <2>4, <3>1, <3>2, <3>3, <3>4 DEF PlacedBy, SessionRow
    <2>5. QED
      BY <1>0, <2>3, <2>4 DEF ReadInv
  <1>5. AnchorInv'
    <2>1. \A q \in Requests : Anchors(q)' = Anchors(q)
      BY DEF Anchors
    <2>2. QED
      BY <1>0, <2>1 DEF AnchorInv, Others
  <1>6. HashInv'
    <2>1. \A q \in Requests : HashOf(q)' = HashOf(q)
      BY DEF HashOf, ScopeOf
    <2>2. \A q \in Requests : InsertPending(q)' => InsertPending(q)
      BY DEF InsertPending, Others
    <2>3. QED
      BY <1>0, <1>a, <2>1, <2>2 DEF HashInv
  <1>7. AccountBookingInv'
    <2>1. booking[b].hash[1] \in Guests
      BY DEF PlacedBy
    <2>2. QED
      BY <1>0, <1>a, <2>1 DEF AccountBookingInv
  <1>8. EntitledInv'
    BY <1>0, <1>a DEF EntitledInv, TypeOK
  <1>9. OrderAndAllowanceAgree'
    <2>1. \A a \in Orders : GuestOrder(a)' <=> GuestOrder(a)
      BY <1>b DEF GuestOrder
    <2>2. \A a \in Orders : GuestOrder(a) => booking[a] # NULL
      BY DEF GuestOrder, PlacedBy
    <2>3. \A h \in Guests : session'[h].first_order_id = session[h].first_order_id
                            /\ session[h].first_order_id \in Orders \cup {NULL}
      BY SMTT(40), <1>0 DEF TypeOK, SessionRow
    <2>4. \A h \in Guests : (PlacedBy(session[h].first_order_id, h))' <=>
                              booking'[session[h].first_order_id] # NULL
                              /\ booking'[session[h].first_order_id].hash[1] = h
      BY <2>3 DEF PlacedBy
    <2>5. ASSUME NEW h \in Guests, session[h].first_order_id # NULL
          PROVE  (PlacedBy(session[h].first_order_id, h))'
      BY <1>0, <1>a, <2>3, <2>4, <2>5 DEF OrderAndAllowanceAgree, PlacedBy
    <2>6. QED
      BY <1>0, <1>a, <1>b, <2>1, <2>2, <2>3, <2>5 DEF OrderAndAllowanceAgree
  <1>10. MarkerMatchesOwner'
    <2>1. ASSUME NEW h \in Guests, h # g, session[h].first_order_id # NULL
          PROVE  session[h].first_order_id \in Orders /\ session[h].first_order_id # b
      BY <1>0, <2>1 DEF OrderAndAllowanceAgree, PlacedBy, TypeOK, SessionRow
    <2>2. ASSUME NEW h \in Guests, h # g
          PROVE  session'[h] = session[h] /\
                 (session[h].first_order_id # NULL =>
                    booking'[session[h].first_order_id] = booking[session[h].first_order_id])
      BY <2>1, <2>2
    <2>3. b # NULL
      BY DEF Orders
    <2>4. QED
      BY <1>0, <2>2, <2>3 DEF MarkerMatchesOwner
  <1>11. QED
    BY <1>1, <1>2, <1>3, <1>4, <1>5, <1>6, <1>7, <1>8, <1>9, <1>10 DEF IInv

LEMMA BackfillInv ==
  ASSUME IInv, BackfillClaimMarkers, TypeOK'
  PROVE  IInv'
  <1> USE ConstantsAssumption, NullAssumption
  <1>0. TypeOK /\ RequestInv /\ FreshInv /\ LockInv /\ ReadInv /\ AnchorInv /\ HashInv
        /\ AccountBookingInv /\ EntitledInv /\ OrderAndAllowanceAgree /\ MarkerMatchesOwner
    BY DEF IInv
  <1>1. UNCHANGED <<booking, entitlement, req, pc, held, reply, announced>>
    BY DEF BackfillClaimMarkers
  <1>2. ASSUME NEW g \in Guests
        PROVE  /\ session'[g].order_count = session[g].order_count
               /\ session'[g].first_order_id = session[g].first_order_id
               /\ g \notin MovedUnmarked => session'[g] = session[g]
               /\ g \in MovedUnmarked =>
                    session'[g].claimed_user_id = booking[session[g].first_order_id].user_id
    <2>1. session[g] \in SessionRow
      BY <1>0 DEF TypeOK
    <2>2. session'[g] = IF g \in MovedUnmarked
                        THEN [session[g] EXCEPT !.claimed_user_id = booking[session[g].first_order_id].user_id]
                        ELSE session[g]
      BY DEF BackfillClaimMarkers
    <2>3. QED
      BY <2>1, <2>2 DEF SessionRow
  <1>3. ReadInv'
    <2>1. ASSUME NEW q \in Requests, pc[q] \in {"move", "mark", "settle"}
          PROVE  req[q].guest \in Guests /\ req[q].guest \notin MovedUnmarked
      BY <1>0, <2>1 DEF BackfillClaimMarkers, Holds, HoldsGuestRow, RequestInv, ClaimSteps
    <2>2. ASSUME NEW q \in Requests, pc[q] \in Spending, req[q].kind = "guest"
          PROVE  req[q].guest \in Guests
      BY <1>0, <2>2 DEF RequestInv, Spending
    <2>3. \A q \in Requests : Anchors(q)' = Anchors(q)
      BY <1>1 DEF Anchors
    <2>4. QED
      BY <1>0, <1>1, <1>2, <2>1, <2>2, <2>3 DEF ReadInv
  <1>4. RequestInv' /\ FreshInv' /\ LockInv'
    BY <1>0, <1>1 DEF RequestInv, FreshInv, LockInv, Holds
  <1>5. AnchorInv'
    BY <1>0, <1>1 DEF AnchorInv, Anchors
  <1>6. HashInv'
    BY <1>0, <1>1 DEF HashInv, InsertPending, HashOf, ScopeOf
  <1>7. AccountBookingInv' /\ EntitledInv'
    BY <1>0, <1>1 DEF AccountBookingInv, EntitledInv
  <1>8. OrderAndAllowanceAgree'
    BY <1>0, <1>1, <1>2 DEF OrderAndAllowanceAgree, GuestOrder, PlacedBy
  <1>9. MarkerMatchesOwner'
    BY <1>0, <1>1, <1>2 DEF MarkerMatchesOwner, MovedUnmarked
  <1>10. QED
    BY <1>3, <1>4, <1>5, <1>6, <1>7, <1>8, <1>9 DEF IInv

LEMMA IdleStepInv ==
  ASSUME IInv, IdleStep \/ UNCHANGED vars, TypeOK'
  PROVE  IInv'
  <1> USE ConstantsAssumption
  <1>0. TypeOK /\ RequestInv /\ FreshInv /\ LockInv /\ ReadInv /\ AnchorInv /\ HashInv
    BY DEF IInv
  <1>1. SameRows /\ UNCHANGED <<booking, entitlement, req, pc, held, reply>>
    BY DEF IdleStep, SameRows, vars
  <1>2. RequestInv' /\ FreshInv' /\ LockInv'
    BY <1>0, <1>1 DEF RequestInv, FreshInv, LockInv, Holds
  <1>3. ReadInv'
    <2>1. \A q \in Requests : pc[q] \in {"move", "mark", "settle"} => req[q].guest \in Guests
      BY <1>0 DEF RequestInv, ClaimSteps
    <2>2. \A q \in Requests : pc[q] \in Spending /\ req[q].kind = "guest" => req[q].guest \in Guests
      BY <1>0 DEF RequestInv, Spending
    <2>3. \A q \in Requests : Anchors(q)' = Anchors(q)
      BY <1>1 DEF Anchors
    <2>4. QED
      BY <1>0, <1>1, <2>1, <2>2, <2>3 DEF ReadInv, SameRows
  <1>4. AnchorInv'
    BY <1>0, <1>1 DEF AnchorInv, Anchors
  <1>5. HashInv'
    BY <1>0, <1>1 DEF HashInv, InsertPending, HashOf, ScopeOf
  <1>6. QED
    BY <1>1, <1>2, <1>3, <1>4, <1>5, RowsKept DEF IInv

LEMMA NextInv == IInv /\ [Next]_vars => IInv'
  <1> SUFFICES ASSUME IInv, [Next]_vars PROVE IInv'
    OBVIOUS
  <1>1. TypeOK'
    BY NextTyped
  <1>2. CASE Next
    BY <1>1, <1>2, StepShape, StartStepInv, EndStepInv, AdvanceStepInv, AnchorStepInv,
       CommitBookingInv, CommitClaimInv, BackfillInv, IdleStepInv
  <1>3. CASE UNCHANGED vars
    BY <1>1, <1>3, IdleStepInv
  <1>4. QED
    BY <1>2, <1>3

-----------------------------------------------------------------------------
(* The theorems. *)

\* The strengthened invariant holds in every reachable state: what an open create or
\* claim transaction has locked and read stays so until it commits.
THEOREM Invariance == Spec => []IInv
  <1>1. Init => IInv
    BY InitInv
  <1>2. IInv /\ [Next]_vars => IInv'
    BY NextInv
  <1>3. QED
    BY <1>1, <1>2, PTL DEF Spec

\* Every variable keeps its type: row ids, owners and control states are what the
\* tables and the handlers declare, for any number of guests, accounts and requests.
THEOREM TypeCorrect == Spec => []TypeOK
  BY Invariance, PTL DEF IInv

\* create never gives a guest session a second order, however many requests of it
\* run at once, fail, crash or are claimed in between.
THEOREM OneGuestOneOrder == Spec => []OneOrderPerGuest
  <1>1. IInv => OneOrderPerGuest
    BY DEF IInv, OrderAndAllowanceAgree, OneOrderPerGuest
  <1>2. QED
    BY <1>1, Invariance, PTL

\* No two guest orders share a contact: the entitlement rows stop a visitor who
\* drops the guest cookie, whatever the interleaving of the two transactions.
THEOREM OneContactOneOrder == Spec => []OneOrderPerContact
  <1>1. IInv => OneOrderPerContact
    <2> SUFFICES ASSUME IInv, NEW a \in Orders, NEW b \in Orders, GuestOrder(a), GuestOrder(b),
                        booking[a].contact \cap booking[b].contact # {}
                 PROVE  a = b
      BY DEF OneOrderPerContact
    <2>1. booking[a] \in BookingRow
      BY DEF IInv, TypeOK, GuestOrder, PlacedBy
    <2>2. PICK c \in Contacts : c \in booking[a].contact /\ c \in booking[b].contact
      BY <2>1 DEF BookingRow
    <2>3. entitlement[c] = a /\ entitlement[c] = b
      BY <2>2 DEF IInv, OrderAndAllowanceAgree
    <2>4. QED
      BY <2>3
  <1>2. QED
    BY <1>1, Invariance, PTL

\* A committed guest order, its spent allowance and its contact keys are there
\* together or not at all, after any failure between the statements of create.
THEOREM OrdersAndAllowances == Spec => []OrderAndAllowanceAgree
  BY Invariance, PTL DEF IInv

\* The claim marker names the owner of the order, so ClaimGuestOrder may answer a
\* repeated claim from the marker without reading the booking.
THEOREM MarkersMatchOwners == Spec => []MarkerMatchesOwner
  BY Invariance, PTL DEF IInv

\* A claim moves an order from its guest to one account, once; no later claim, no
\* backfill and no booking changes the owner again.
THEOREM OwnershipIsFinal == Spec => OwnershipDecidedOnce
  <1> DEFINE Kept == \A b \in Orders : booking[b] # NULL =>
        /\ booking'[b] # NULL
        /\ booking[b].user_id \in Accounts => booking'[b].user_id = booking[b].user_id
        /\ booking[b].guest_session_id = NULL => booking'[b].guest_session_id = NULL
  <1>1. IInv /\ [Next]_vars => [Kept]_vars
    <2> SUFFICES ASSUME IInv, Next PROVE Kept
      OBVIOUS
    <2>1. booking' = booking => Kept
      OBVIOUS
    <2>2. ASSUME NEW r \in Requests, CommitBooking(r) PROVE Kept
      BY <2>2, CommitBookingEffect
    <2>3. ASSUME NEW r \in Requests, CommitClaim(r) PROVE Kept
      <3> DEFINE g == req[r].guest
                 a == session[g].first_order_id
      <3>1. /\ g \in Guests /\ a \in Orders /\ booking[a].guest_session_id = g /\ booking'[a] # NULL
            /\ \A b \in Orders : b # a => booking'[b] = booking[b]
            /\ booking'[a].guest_session_id = NULL
        BY <2>3, CommitClaimEffect
      <3>2. g # NULL
        BY <3>1, ConstantsAssumption
      <3>3. session[g].claimed_user_id = NULL /\ a # NULL
        BY <2>3, <3>1, ConstantsAssumption DEF CommitClaim, IInv, ReadInv, Orders
      <3>4. booking[a].user_id = Shop
        BY <3>1, <3>2, <3>3 DEF IInv, MarkerMatchesOwner
      <3>5. QED
        BY <3>1, <3>2, <3>4, ConstantsAssumption
    <2>4. QED
      BY <2>1, <2>2, <2>3, StepShape
         DEF StartStep, EndStep, AdvanceStep, AnchorStep, IdleStep, BackfillClaimMarkers, database
  <1>2. QED
    BY <1>1, Invariance, PTL DEF Spec, OwnershipDecidedOnce

-----------------------------------------------------------------------------
(* The statements of any number of transactions implement the ledger. *)

LEMMA ViewOf ==
  \A b \in Orders : LedgerView[b] =
     IF booking[b] = NULL THEN NULL
     ELSE [placed_by |-> booking[b].hash[1], key |-> booking[b].hash[2],
           contact |-> booking[b].contact, owner |-> booking[b].user_id]
  BY DEF LedgerView

LEMMA ViewEntered ==
  ASSUME TypeOK, NEW b \in Orders
  PROVE  LedgerView[b] # NULL <=> booking[b] # NULL
  <1>1. ASSUME booking[b] # NULL
        PROVE  LedgerView[b] \in [placed_by : Guests \cup Accounts, key : Keys,
                                  contact : SUBSET Contacts, owner : Accounts \cup {Shop}]
    <2>1. booking[b] \in BookingRow
      BY <1>1 DEF TypeOK
    <2>2. booking[b].hash[1] \in Guests \cup Accounts /\ booking[b].hash[2] \in Keys
      BY <2>1 DEF BookingRow
    <2>3. [placed_by |-> booking[b].hash[1], key |-> booking[b].hash[2],
           contact |-> booking[b].contact, owner |-> booking[b].user_id]
            \in [placed_by : Guests \cup Accounts, key : Keys,
                 contact : SUBSET Contacts, owner : Accounts \cup {Shop}]
      BY <2>1, <2>2 DEF BookingRow
    <2>4. QED
      BY <1>1, <2>3, ViewOf
  <1>2. QED
    BY <1>1, ViewOf, NullAssumption

LEMMA ViewUpdate ==
  ASSUME NEW b \in Orders, NEW entry, LedgerView'[b] = entry,
         \A a \in Orders : a # b => LedgerView'[a] = LedgerView[a]
  PROVE  LedgerView' = [LedgerView EXCEPT ![b] = entry]
  <1>1. /\ LedgerView = [a \in Orders |-> LedgerView[a]]
        /\ LedgerView' = [a \in Orders |-> LedgerView'[a]]
    BY DEF LedgerView
  <1>2. QED
    BY <1>1

LEMMA ViewFields ==
  ASSUME NEW b \in Orders, booking[b] # NULL
  PROVE  /\ LedgerView[b].placed_by = booking[b].hash[1] /\ LedgerView[b].key = booking[b].hash[2]
         /\ LedgerView[b].contact = booking[b].contact /\ LedgerView[b].owner = booking[b].user_id
  <1>1. LedgerView[b] = [placed_by |-> booking[b].hash[1], key |-> booking[b].hash[2],
                         contact |-> booking[b].contact, owner |-> booking[b].user_id]
    BY ViewOf
  <1>2. QED
    BY <1>1

LEMMA InitLedger == Init => Ledger!Init
  <1> SUFFICES ASSUME Init PROVE Ledger!Init
    OBVIOUS
  <1>1. PICK old \in SUBSET Legacy, owner \in [Legacy -> Accounts], key \in [Legacy -> Keys] :
          /\ session = OldSessions(old)
          /\ booking = OldBookings(old, owner, key)
    BY DEF Init
  <1>2. ASSUME NEW b \in old
        PROVE  booking[b] # NULL /\ booking[b] = LegacyOrder(b, owner[b], key[b])
    <2>1. b \in Orders
      BY DEF Orders
    <2>2. booking[b] = LegacyOrder(b, owner[b], key[b])
      BY <1>1, <2>1 DEF OldBookings
    <2>3. LegacyOrder(b, owner[b], key[b]) \in BookingRow
      BY ConstantsAssumption DEF LegacyOrder, BookingRow, hashIdempotency
    <2>4. QED
      BY <2>2, <2>3, NullAssumption
  <1>3. \A b \in Orders : LedgerView[b] =
          IF b \in old THEN Ledger!Entry(b, key[b], {}, owner[b]) ELSE NULL
    BY <1>1, <1>2, ViewOf DEF OldBookings, Ledger!Entry, LegacyOrder, hashIdempotency
  <1>4. LedgerView = [b \in Orders |->
          IF b \in old THEN Ledger!Entry(b, key[b], {}, owner[b]) ELSE NULL]
    BY <1>3 DEF LedgerView
  <1>5. QED
    BY <1>4 DEF Ledger!Init

LEMMA BookingLedger ==
  ASSUME IInv, NEW r \in Requests, CommitBooking(r)
  PROVE  Ledger!Next
  <1> USE ConstantsAssumption, NullAssumption
  <1> DEFINE entry == [placed_by |-> ScopeOf(r), key |-> req[r].key,
                       contact |-> Anchors(r), owner |-> req[r].user]
  <1>0. TypeOK /\ RequestInv /\ ReadInv /\ HashInv /\ AnchorInv /\ AccountBookingInv
        /\ OrderAndAllowanceAgree
    BY DEF IInv
  <1>1. /\ pc[r] = "commit" /\ req[r] \in Request /\ req[r].key \in Keys /\ r \in Orders
        /\ booking[r] = NULL /\ booking'[r] # NULL
        /\ booking'[r].hash = HashOf(r) /\ booking'[r].contact = Anchors(r)
        /\ booking'[r].user_id = req[r].user
        /\ \A b \in Orders : b # r => booking'[b] = booking[b]
    BY CommitBookingEffect
  <1>2. LedgerView' = [LedgerView EXCEPT ![r] = entry]
    <2>1. LedgerView'[r] = entry
      BY <1>1 DEF LedgerView, HashOf, hashIdempotency
    <2>2. \A b \in Orders : b # r => LedgerView'[b] = LedgerView[b]
      BY <1>1 DEF LedgerView
    <2>3. QED
      BY <1>1, <2>1, <2>2, ViewUpdate
  <1>3. \A b \in Orders : LedgerView[b] # NULL => booking[b] # NULL
    BY ViewOf
  <1>4. ~Ledger!Entered(r)
    BY <1>1, ViewOf DEF Ledger!Entered
  <1>5. CASE req[r].kind = "guest"
    <2>1. req[r].guest \in Guests /\ ScopeOf(r) = req[r].guest /\ req[r].user = Shop
      BY <1>0, <1>1, <1>5 DEF RequestInv, ScopeOf
    <2>2. session[req[r].guest].first_order_id = NULL /\ Anchors(r) # {}
      BY <1>0, <1>1, <1>5, <2>1 DEF ReadInv, OrderAndAllowanceAgree, Spending
    <2>3. Anchors(r) \in SUBSET Contacts /\ Anchors(r) = held[r]
      BY <1>0, <1>1 DEF Anchors, Contacts, Request, AnchorInv
    <2>4. ASSUME NEW a \in Orders, LedgerView[a] # NULL
          PROVE  LedgerView[a].placed_by # req[r].guest /\ LedgerView[a].contact \cap Anchors(r) = {}
      <3>1. booking[a] # NULL /\ a # NULL /\ booking[a] \in BookingRow
        BY <1>0, <1>3, <2>4 DEF TypeOK, Orders
      <3>2. LedgerView[a].placed_by = booking[a].hash[1] /\ LedgerView[a].contact = booking[a].contact
        BY <3>1, ViewFields
      <3>3. booking[a].hash[1] # req[r].guest
        BY <1>0, <2>1, <2>2, <3>1 DEF OrderAndAllowanceAgree, PlacedBy
      <3>4. ASSUME NEW c \in Contacts, c \in booking[a].contact, c \in held[r] PROVE FALSE
        <4>1. entitlement[c] = NULL
          BY <1>0, <3>4 DEF AnchorInv
        <4>2. booking[a].hash[1] \in Guests
          BY <1>0, <3>1, <3>4 DEF AccountBookingInv
        <4>3. GuestOrder(a)
          BY <3>1, <4>2 DEF GuestOrder, PlacedBy
        <4>4. QED
          BY <1>0, <3>1, <3>4, <4>1, <4>3 DEF OrderAndAllowanceAgree
      <3>5. QED
        BY <2>3, <3>2, <3>3, <3>4
    <2>5. Ledger!PlaceGuestOrder(r)
      BY ZenonT(60), <1>1, <1>2, <1>4, <2>1, <2>2, <2>3, <2>4
         DEF Ledger!PlaceGuestOrder, Ledger!Entered, Ledger!Entry
    <2>6. QED
      BY <1>1, <2>5 DEF Ledger!Next
  <1>6. CASE req[r].kind = "user"
    <2>1. /\ req[r].user \in Accounts /\ ScopeOf(r) = req[r].user
          /\ req[r].email = NULL /\ req[r].phone = NULL
      BY <1>0, <1>1, <1>6 DEF RequestInv, ScopeOf
    <2>2. Anchors(r) = {}
      BY <2>1 DEF Anchors
    <2>3. ASSUME NEW a \in Orders, LedgerView[a] # NULL
          PROVE  ~(LedgerView[a].placed_by = req[r].user /\ LedgerView[a].key = req[r].key)
      <3>1. booking[a] # NULL /\ booking[a] \in BookingRow
        BY <1>0, <1>3, <2>3 DEF TypeOK
      <3>2. booking[a].hash # HashOf(r)
        BY <1>0, <1>1, <3>1 DEF HashInv, InsertPending
      <3>3. booking[a].hash = <<booking[a].hash[1], booking[a].hash[2]>>
        BY <3>1 DEF BookingRow
      <3>4. QED
        BY <2>1, <3>1, <3>2, <3>3, ViewFields DEF HashOf, hashIdempotency
    <2>4. Ledger!PlaceBooking(r)
      BY ZenonT(60), <1>1, <1>2, <1>4, <2>1, <2>2, <2>3 DEF Ledger!PlaceBooking, Ledger!Entered, Ledger!Entry
    <2>5. QED
      BY <1>1, <2>4 DEF Ledger!Next
  <1>7. QED
    BY <1>0, <1>1, <1>5, <1>6 DEF RequestInv

LEMMA ClaimLedger ==
  ASSUME IInv, NEW r \in Requests, CommitClaim(r)
  PROVE  Ledger!Next
  <1> USE ConstantsAssumption, NullAssumption
  <1> DEFINE g == req[r].guest
             b == session[g].first_order_id
  <1>0. TypeOK /\ ReadInv /\ MarkerMatchesOwner
    BY DEF IInv
  <1>1. /\ pc[r] = "settle" /\ g \in Guests /\ b \in Orders /\ req[r].user \in Accounts
        /\ PlacedBy(b, g) /\ booking[b].guest_session_id = g
        /\ booking'[b] # NULL /\ booking'[b].hash = booking[b].hash
        /\ booking'[b].contact = booking[b].contact /\ booking'[b].user_id = req[r].user
        /\ \A a \in Orders : a # b => booking'[a] = booking[a]
    BY CommitClaimEffect
  <1>2. booking[b] # NULL /\ b # NULL /\ session[g].claimed_user_id = NULL /\ g # NULL
    BY <1>0, <1>1 DEF PlacedBy, ReadInv, Orders
  <1>3. booking[b].user_id = Shop
    BY <1>0, <1>1, <1>2 DEF MarkerMatchesOwner
  <1>4. LedgerView[b] = [placed_by |-> booking[b].hash[1], key |-> booking[b].hash[2],
                         contact |-> booking[b].contact, owner |-> Shop]
    BY <1>1, <1>2, <1>3, ViewOf
  <1>5. LedgerView' = [LedgerView EXCEPT ![b] =
          Ledger!Entry(LedgerView[b].placed_by, LedgerView[b].key, LedgerView[b].contact, req[r].user)]
    <2>1. LedgerView'[b] = [placed_by |-> booking[b].hash[1], key |-> booking[b].hash[2],
                            contact |-> booking[b].contact, owner |-> req[r].user]
      <3>1. LedgerView'[b] = [placed_by |-> booking'[b].hash[1], key |-> booking'[b].hash[2],
                              contact |-> booking'[b].contact, owner |-> booking'[b].user_id]
        <4> HIDE DEF b, g
        <4>1. b \in Orders /\ booking'[b] # NULL
          BY <1>1
        <4>2. QED
          BY <4>1 DEF LedgerView
      <3>2. QED
        BY <1>1, <3>1
    <2>2. \A a \in Orders : a # b => LedgerView'[a] = LedgerView[a]
      BY <1>1 DEF LedgerView
    <2>3. LedgerView'[b] = Ledger!Entry(LedgerView[b].placed_by, LedgerView[b].key,
                                        LedgerView[b].contact, req[r].user)
      BY <1>1, <1>2, <2>1, ViewFields DEF Ledger!Entry
    <2>4. QED
      BY ZenonT(60), <1>1, <2>2, <2>3, ViewUpdate
  <1>6. LedgerView[b] # NULL /\ LedgerView[b].owner = Shop
    <2> HIDE DEF b, g
    <2>1. LedgerView[b] # NULL
      BY <1>0, <1>1, <1>2, ViewEntered
    <2>2. LedgerView[b].owner = Shop
      BY <1>4
    <2>3. QED
      BY <2>1, <2>2
  <1>7. Ledger!Transfer(b)
    BY <1>1, <1>5, <1>6 DEF Ledger!Transfer, Ledger!Entered
  <1>8. QED
    BY <1>1, <1>7 DEF Ledger!Next

\* The create and claim transactions, interleaved statement by statement, take
\* effect as single ledger steps: nothing else ever becomes visible.
THEOREM Implementation == Spec => ImplementsLedger
  <1>1. Init => Ledger!Init
    BY InitLedger
  <1>2. IInv /\ [Next]_vars => [Ledger!Next]_LedgerView
    <2> SUFFICES ASSUME IInv, [Next]_vars PROVE Ledger!Next \/ UNCHANGED LedgerView
      OBVIOUS
    <2>1. booking' = booking => UNCHANGED LedgerView
      BY DEF LedgerView
    <2>2. CASE UNCHANGED vars
      BY <2>1, <2>2 DEF vars
    <2>3. CASE Next
      BY <2>1, <2>3, BookingLedger, ClaimLedger, StepShape
         DEF StartStep, EndStep, AdvanceStep, AnchorStep, IdleStep, BackfillClaimMarkers, database
    <2>4. QED
      BY <2>2, <2>3
  <1>3. QED
    BY <1>1, <1>2, Invariance, PTL DEF Spec, ImplementsLedger, Ledger!Spec

-----------------------------------------------------------------------------
(* Answers.  An answer is decided at one statement and stays while other     *)
(* requests commit and claim.  It stays true because what it says of a       *)
(* booking (its hash, and the account that owns it) no later step changes;   *)
(* Told says that of every answer, in terms of the booking alone.            *)

\* The booking b answers the idempotency key of r and belongs to its caller.
Answered(r, b) ==
    /\ req[r] # NULL /\ b \in Orders /\ booking[b] # NULL
    /\ booking[b].hash[2] = req[r].key
    /\ \/ req[r].kind = "guest" /\ req[r].guest \in Guests /\ booking[b].hash[1] = req[r].guest
       \/ req[r].kind = "user" /\ req[r].user \in Accounts /\ booking[b].user_id = req[r].user

\* The account of r owns the booking b.
Claimed(r, b) ==
    /\ req[r] # NULL /\ b \in Orders /\ booking[b] # NULL
    /\ req[r].user \in Accounts /\ booking[b].user_id = req[r].user

Told(r) ==
    /\ pc[r] = "idle" => reply[r].code = "none"
    /\ pc[r] = "publish" => reply[r].code = "ok"
    /\ reply[r].code = "ok" => Answered(r, reply[r].order)
    /\ reply[r].code \in {"transferred", "replayed"} => Claimed(r, reply[r].order)

AnnouncedExist == \A b \in announced : b \in Orders /\ booking[b] # NULL

RepliesInv == (\A r \in Requests : Told(r)) /\ AnnouncedExist

-----------------------------------------------------------------------------
(* What no step changes. *)

\* The part of a booking that answers speak of.
Kept ==
    \A b \in Orders : booking[b] # NULL =>
        /\ booking'[b] # NULL
        /\ booking'[b].hash = booking[b].hash
        /\ booking[b].user_id \in Accounts => booking'[b].user_id = booking[b].user_id

LEMMA BookingsKept == ASSUME IInv, Next PROVE Kept
  <1>1. booking' = booking => Kept
    BY DEF Kept
  <1>2. ASSUME NEW r \in Requests, CommitBooking(r) PROVE Kept
    BY <1>2, CommitBookingEffect DEF Kept
  <1>3. ASSUME NEW r \in Requests, CommitClaim(r) PROVE Kept
    <2> DEFINE g == req[r].guest
               a == session[g].first_order_id
    <2>1. /\ g \in Guests /\ a \in Orders /\ booking[a].guest_session_id = g /\ booking'[a] # NULL
          /\ booking'[a].hash = booking[a].hash
          /\ \A b \in Orders : b # a => booking'[b] = booking[b]
      BY <1>3, CommitClaimEffect
    <2>2. g # NULL /\ a # NULL
      BY <2>1, ConstantsAssumption, NullAssumption DEF Orders
    <2>3. session[g].claimed_user_id = NULL
      BY <1>3 DEF CommitClaim, IInv, ReadInv
    <2>4. booking[a].user_id = Shop
      BY <2>1, <2>2, <2>3 DEF IInv, MarkerMatchesOwner
    <2>5. QED
      BY <2>1, <2>4, ConstantsAssumption DEF Kept
  <1>4. QED
    BY <1>1, <1>2, <1>3, StepShape
       DEF StartStep, EndStep, AdvanceStep, AnchorStep, IdleStep, BackfillClaimMarkers, database

\* r itself takes no step.
Rests(r) == reply'[r] = reply[r] /\ req'[r] = req[r] /\ pc'[r] = pc[r]

\* r goes on and has no answer of success yet.
Pending(r) == pc'[r] \notin {"idle", "publish"} /\ reply'[r].code \notin {"ok", "transferred", "replayed"}

LEMMA StillTold ==
  ASSUME Kept, NEW r \in Requests, Told(r), Rests(r)
  PROVE  Told(r)'
  BY DEF Kept, Told, Rests, Answered, Claimed

LEMMA PendingTold ==
  ASSUME NEW r \in Requests, Pending(r)
  PROVE  Told(r)'
  BY DEF Pending, Told

\* The answer of success follows its request to the end.
LEMMA FinishTold ==
  ASSUME Kept, NEW r \in Requests, Told(r), reply'[r] = reply[r], req'[r] = req[r],
         pc'[r] \notin {"idle", "publish"}
  PROVE  Told(r)'
  BY DEF Kept, Told, Answered, Claimed
LEMMA AnswerWhole ==
  ASSUME TypeOK, NEW r \in Requests, NEW c, NEW b, Answer(r, c, b)
  PROVE  /\ reply'[r].code = c /\ reply'[r].order = b
         /\ \A q \in Requests : q # r => reply'[q] = reply[q]
  BY DEF TypeOK, Answer

ActsAlone(r) == \A q \in Requests : q # r => Rests(q)

\* A step of r that decides no answer, or one that is no success.
LEMMA MovesOn ==
  ASSUME TypeOK, RepliesInv, Kept, NEW r \in Requests, NEW l, Goto(r, l), l \notin {"idle", "publish"},
         UNCHANGED <<reply, req>>
  PROVE  Told(r)' /\ ActsAlone(r)
  <1>1. pc'[r] = l /\ \A q \in Requests : q # r => pc'[q] = pc[q]
    BY GotoEffect
  <1>2. QED
    BY <1>1, FinishTold DEF RepliesInv, ActsAlone, Rests

LEMMA Refused ==
  ASSUME TypeOK, NEW r \in Requests, NEW c, NEW b, NEW l, Goto(r, l), l \notin {"idle", "publish"},
         Answer(r, c, b), c \notin {"ok", "transferred", "replayed"}, req' = req
  PROVE  Told(r)' /\ ActsAlone(r)
  <1>1. pc'[r] = l /\ \A q \in Requests : q # r => pc'[q] = pc[q]
    BY GotoEffect
  <1>2. reply'[r].code = c /\ \A q \in Requests : q # r => reply'[q] = reply[q]
    BY AnswerWhole
  <1>3. QED
    BY <1>1, <1>2, PendingTold DEF ActsAlone, Rests, Pending

LEMMA Success ==
  ASSUME TypeOK, NEW r \in Requests, NEW b, NEW l, Goto(r, l), l \in {"publish", "done"},
         Answer(r, "ok", b), Answered(r, b)', req' = req
  PROVE  Told(r)' /\ ActsAlone(r)
  <1>1. pc'[r] = l /\ \A q \in Requests : q # r => pc'[q] = pc[q]
    BY GotoEffect
  <1>2. /\ reply'[r].code = "ok" /\ reply'[r].order = b
        /\ \A q \in Requests : q # r => reply'[q] = reply[q]
    BY AnswerWhole
  <1>3. QED
    BY <1>1, <1>2 DEF ActsAlone, Rests, Told

LEMMA ClaimSuccess ==
  ASSUME TypeOK, NEW r \in Requests, NEW c \in {"transferred", "replayed", "conflict"}, NEW b,
         EndClaim(r, c, b), c # "conflict" => Claimed(r, b)', req' = req
  PROVE  Told(r)' /\ ActsAlone(r)
  <1>1. pc'[r] = "done" /\ \A q \in Requests : q # r => pc'[q] = pc[q]
    BY GotoEffect DEF EndClaim
  <1>2. /\ reply'[r].code = c /\ reply'[r].order = b
        /\ \A q \in Requests : q # r => reply'[q] = reply[q]
    BY AnswerWhole DEF EndClaim
  <1>3. QED
    BY <1>1, <1>2 DEF ActsAlone, Rests, Told

-----------------------------------------------------------------------------
(* What the lookups find answers the key of the caller. *)

LEMMA FindOwnAnswers ==
  ASSUME IInv, NEW r \in Requests, pc[r] \in {"lookup", "lock", "recover"}, NEW b \in FindOwn(r)
  PROVE  Answered(r, b)
  <1>1. /\ b \in Orders /\ booking[b] # NULL /\ booking[b].hash = HashOf(r)
        /\ req[r].kind # "guest" => booking[b].user_id = ScopeOf(r)
    BY DEF FindOwn, FindBookingByIdempotency
  <1>2. /\ req[r] # NULL
        /\ \/ req[r].kind = "guest" /\ req[r].guest \in Guests
           \/ req[r].kind = "user" /\ req[r].user \in Accounts
    BY DEF IInv, RequestInv
  <1>3. QED
    BY <1>1, <1>2 DEF Answered, HashOf, hashIdempotency, ScopeOf

LEMMA ReplayAnswers ==
  ASSUME IInv, NEW r \in Requests, pc[r] = "claimed",
         NEW b \in findClaimedGuestIdempotencyReplay(req[r].user, req[r].key)
  PROVE  Answered(r, b)
  <1>1. PICK g \in Guests :
          b \in FindBookingByIdempotency(req[r].user, FALSE, hashIdempotency(g, req[r].key))
    BY DEF findClaimedGuestIdempotencyReplay, ListClaimedGuestSessionIDs
  <1>2. /\ b \in Orders /\ booking[b] # NULL /\ booking[b].hash = <<g, req[r].key>>
        /\ booking[b].user_id = req[r].user
    BY <1>1 DEF FindBookingByIdempotency, hashIdempotency
  <1>3. req[r] # NULL /\ req[r].kind = "user" /\ req[r].user \in Accounts
    BY DEF IInv, RequestInv
  <1>4. QED
    BY <1>2, <1>3 DEF Answered

LEMMA AnsweredLater ==
  ASSUME Kept, NEW r \in Requests, NEW b, Answered(r, b), req' = req
  PROVE  Answered(r, b)'
  BY DEF Kept, Answered
-----------------------------------------------------------------------------
(* Every step, by the request that takes it. *)

LEMMA StartTold ==
  ASSUME IInv, RepliesInv, Kept, NEW r \in Requests, Start(r)
  PROVE  Told(r)' /\ ActsAlone(r)
  <1>0. TypeOK /\ Told(r)
    BY DEF IInv, RepliesInv
  <1>1. ASSUME NEW g \in Guests, NEW k \in Keys, NEW e \in Emails \cup {NULL}, NEW p \in Phones \cup {NULL},
               StartGuestOrder(r, g, k, e, p)
        PROVE  Told(r)' /\ ActsAlone(r)
    <2>1. pc[r] = "idle" /\ pc'[r] = "lookup" /\ reply' = reply
          /\ \A q \in Requests : q # r => pc'[q] = pc[q] /\ req'[q] = req[q]
      BY <1>0, <1>1, GotoEffect DEF StartGuestOrder, TypeOK
    <2>2. QED
      BY <1>0, <2>1, PendingTold DEF Told, Pending, ActsAlone, Rests
  <1>2. ASSUME NEW u \in Accounts, NEW k \in Keys, StartBooking(r, u, k)
        PROVE  Told(r)' /\ ActsAlone(r)
    <2>1. pc[r] = "idle" /\ pc'[r] = "lookup" /\ reply' = reply
          /\ \A q \in Requests : q # r => pc'[q] = pc[q] /\ req'[q] = req[q]
      BY <1>0, <1>2, GotoEffect DEF StartBooking, TypeOK
    <2>2. QED
      BY <1>0, <2>1, PendingTold DEF Told, Pending, ActsAlone, Rests
  <1>3. ASSUME NEW u \in Accounts, NEW g \in Guests, StartClaim(r, u, g)
        PROVE  Told(r)' /\ ActsAlone(r)
    <2>1. pc[r] = "idle" /\ \A q \in Requests : q # r => req'[q] = req[q]
      BY <1>0, <1>3 DEF StartClaim, TypeOK
    <2>2. CASE Goto(r, "claim") /\ UNCHANGED reply
      <3>1. pc'[r] = "claim" /\ \A q \in Requests : q # r => pc'[q] = pc[q]
        BY <1>0, <2>2, GotoEffect
      <3>2. QED
        BY <1>0, <2>1, <2>2, <3>1, PendingTold DEF Told, Pending, ActsAlone, Rests
    <2>3. CASE Goto(r, "done") /\ Answer(r, "nothing", NULL)
      <3>1. pc'[r] = "done" /\ \A q \in Requests : q # r => pc'[q] = pc[q]
        BY <1>0, <2>3, GotoEffect
      <3>2. reply'[r].code = "nothing" /\ \A q \in Requests : q # r => reply'[q] = reply[q]
        BY <1>0, <2>3, AnswerWhole
      <3>3. QED
        BY <2>1, <3>1, <3>2, PendingTold DEF Pending, ActsAlone, Rests
    <2>4. QED
      BY <1>3, <2>2, <2>3 DEF StartClaim
  <1>4. QED
    BY <1>1, <1>2, <1>3 DEF Start

\* The failure codes are no success.
LEMMA Failures == \A r : FailureCode(r) \notin {"ok", "transferred", "replayed"}
  BY DEF FailureCode

LEMMA BookingTold ==
  ASSUME IInv, RepliesInv, Kept, NEW r \in Requests,
         \/ Lookup(r) \/ LookupClaimed(r) \/ LockGuest(r) \/ FindGuestOrderEntitlement(r)
         \/ RefuseBooking(r) \/ CreateBooking(r) \/ ConsumeGuestOrder(r)
         \/ ConsumeGuestOrderEntitlement(r) \/ Recover(r)
  PROVE  Told(r)' /\ ActsAlone(r)
  <1> USE DEF Found, Rollback
  <1>0. TypeOK /\ RequestInv
    BY DEF IInv
  <1>1. ASSUME NEW b, Found(r, b), Answered(r, b), req' = req
        PROVE  Told(r)' /\ ActsAlone(r)
    BY <1>0, <1>1, Success, AnsweredLater
  <1>2. ASSUME NEW c, Rollback(r, c), c \notin {"ok", "transferred", "replayed"}, req' = req
        PROVE  Told(r)' /\ ActsAlone(r)
    BY <1>0, <1>2, Refused
  <1>3. ASSUME NEW l, Goto(r, l), l \notin {"idle", "publish"}, UNCHANGED <<reply, req>>
        PROVE  Told(r)' /\ ActsAlone(r)
    BY <1>0, <1>3, MovesOn
  <1>4. CASE Lookup(r)
    <2>1. \A b \in FindOwn(r) : Answered(r, b)
      BY <1>4, FindOwnAnswers DEF Lookup
    <2>2. QED
      BY <1>4, <2>1, <1>1, <1>3 DEF Lookup
  <1>5. CASE LookupClaimed(r)
    <2>1. \A b \in findClaimedGuestIdempotencyReplay(req[r].user, req[r].key) : Answered(r, b)
      BY <1>5, ReplayAnswers DEF LookupClaimed
    <2>2. QED
      BY <1>5, <2>1, <1>1, <1>3 DEF LookupClaimed
  <1>6. CASE LockGuest(r)
    <2>1. \A b \in FindOwn(r) : Answered(r, b)
      BY <1>6, FindOwnAnswers DEF LockGuest
    <2>2. QED
      BY <1>6, <2>1, <1>1, <1>2, <1>3 DEF LockGuest
  <1>7. CASE FindGuestOrderEntitlement(r)
    BY <1>7, <1>2, <1>3 DEF FindGuestOrderEntitlement
  <1>8. CASE RefuseBooking(r)
    BY <1>8, <1>2 DEF RefuseBooking
  <1>9. CASE CreateBooking(r)
    BY <1>9, <1>2, <1>3 DEF CreateBooking
  <1>10. CASE ConsumeGuestOrder(r)
    BY <1>10, <1>2, <1>3 DEF ConsumeGuestOrder
  <1>11. CASE ConsumeGuestOrderEntitlement(r)
    BY <1>11, <1>2, <1>3 DEF ConsumeGuestOrderEntitlement
  <1>12. CASE Recover(r)
    <2>1. \A b \in FindOwn(r) : Answered(r, b)
      BY <1>12, FindOwnAnswers DEF Recover
    <2>2. ASSUME NEW b \in FindOwn(r), Answer(r, "ok", b) PROVE Told(r)' /\ ActsAlone(r)
      BY <1>0, <1>12, <2>1, <2>2, Success, AnsweredLater DEF Recover
    <2>3. QED
      BY <1>12, <2>2, <1>3 DEF Recover
  <1>13. QED
    BY <1>4, <1>5, <1>6, <1>7, <1>8, <1>9, <1>10, <1>11, <1>12
LEMMA CommitTold ==
  ASSUME IInv, RepliesInv, Kept, NEW r \in Requests, CommitBooking(r)
  PROVE  Told(r)' /\ ActsAlone(r)
  <1>0. TypeOK /\ req' = req
    BY DEF IInv, CommitBooking
  <1>1. CASE Goto(r, "publish") /\ Answer(r, "ok", r)
    <2>1. r \in Orders /\ booking'[r] # NULL /\ booking'[r].hash = HashOf(r) /\ booking'[r].user_id = req[r].user
      BY CommitBookingEffect
    <2>2. /\ req[r] # NULL
          /\ \/ req[r].kind = "guest" /\ req[r].guest \in Guests
             \/ req[r].kind = "user" /\ req[r].user \in Accounts
      BY DEF IInv, RequestInv, CommitBooking
    <2>3. Answered(r, r)'
      BY <1>0, <2>1, <2>2 DEF Answered, HashOf, hashIdempotency, ScopeOf
    <2>4. QED
      BY <1>0, <1>1, <2>3, Success
  <1>2. CASE Goto(r, "recover") /\ Answer(r, "error", NULL)
    BY <1>0, <1>2, Refused
  <1>3. QED
    BY <1>1, <1>2 DEF CommitBooking

LEMMA PublishTold ==
  ASSUME IInv, RepliesInv, Kept, NEW r \in Requests, PublishCreated(r)
  PROVE  Told(r)' /\ ActsAlone(r) /\ AnnouncedExist'
  <1>1. Told(r)' /\ ActsAlone(r)
    BY MovesOn DEF IInv, PublishCreated
  <1>2. reply[r].order \in Orders /\ booking[reply[r].order] # NULL
    BY DEF RepliesInv, Told, Answered, PublishCreated
  <1>3. QED
    BY <1>1, <1>2 DEF PublishCreated, RepliesInv, AnnouncedExist, database

\* What a claim is told of the owner: the marker or the booking itself.
LEMMA ClaimTold ==
  ASSUME IInv, RepliesInv, Kept, NEW r \in Requests,
         ClaimLock(r) \/ ClaimMove(r) \/ ClaimMark(r) \/ CommitClaim(r)
  PROVE  Told(r)' /\ ActsAlone(r)
  <1> DEFINE g == req[r].guest
  <1>b. PICK b : b = session[g].first_order_id
    OBVIOUS
  <1>0. /\ TypeOK /\ req' = req
        /\ req[r] # NULL /\ req[r].guest \in Guests /\ req[r].user \in Accounts
        /\ b # NULL => b \in Orders /\ booking[b] # NULL
    <2>1. /\ TypeOK /\ req' = req
          /\ req[r] # NULL /\ req[r].guest \in Guests /\ req[r].user \in Accounts
      BY DEF IInv, RequestInv, ClaimSteps, ClaimLock, ClaimMove, ClaimMark, CommitClaim
    <2>2. session[g].first_order_id \in Orders \cup {NULL}
      BY <2>1 DEF TypeOK, SessionRow
    <2>3. b # NULL => booking[b] # NULL
      BY <1>b, <2>1 DEF IInv, OrderAndAllowanceAgree, PlacedBy
    <2>4. QED
      BY <1>b, <2>1, <2>2, <2>3
  <1>1. ASSUME Goto(r, "move") \/ Goto(r, "mark") \/ Goto(r, "settle"), UNCHANGED reply
        PROVE  Told(r)' /\ ActsAlone(r)
    BY <1>0, <1>1, MovesOn
  <1>2. ASSUME NEW c \in {"nothing", "error"}, EndClaim(r, c, NULL) PROVE Told(r)' /\ ActsAlone(r)
    BY <1>0, <1>2, Refused DEF EndClaim
  <1>3. ASSUME NEW owner, EndClaim(r, Verdict(r, owner), b), b # NULL, booking' = booking,
               booking[b].user_id = owner
        PROVE  Told(r)' /\ ActsAlone(r)
    <2>1. Verdict(r, owner) \in {"replayed", "conflict"}
          /\ (Verdict(r, owner) = "replayed" => owner = req[r].user)
      BY DEF Verdict
    <2>2. Verdict(r, owner) # "conflict" => Claimed(r, b)'
      BY <1>0, <1>3, <2>1 DEF Claimed
    <2>3. QED
      BY <1>0, <1>3, <2>1, <2>2, ClaimSuccess
  <1>4. CASE ClaimLock(r)
    <2>1. session[g].claimed_user_id # NULL => b # NULL /\ booking[b].user_id = session[g].claimed_user_id
      BY <1>b, <1>0 DEF IInv, MarkerMatchesOwner
    <2>2. QED
      BY <1>b, <1>4, <2>1, <1>1, <1>2, <1>3 DEF ClaimLock, database
  <1>5. CASE ClaimMove(r)
    <2>1. b # NULL
      BY <1>b, <1>5 DEF IInv, ReadInv, ClaimMove
    <2>2. QED
      BY <1>b, <1>5, <2>1, <1>1, <1>2, <1>3 DEF ClaimMove, database
  <1>6. CASE ClaimMark(r)
    BY <1>6, <1>1, <1>2 DEF ClaimMark
  <1>7. CASE CommitClaim(r)
    <2>1. b \in Orders /\ booking'[b] # NULL /\ booking'[b].user_id = req[r].user
      BY <1>b, <1>7, CommitClaimEffect
    <2>2. Claimed(r, b)'
      BY <1>0, <2>1 DEF Claimed
    <2>3. QED
      BY <1>b, <1>0, <1>7, <2>2, <1>2, ClaimSuccess DEF CommitClaim
  <1>8. QED
    BY <1>4, <1>5, <1>6, <1>7

LEMMA FailureTold ==
  ASSUME IInv, RepliesInv, Kept, NEW r \in Requests, Abort(r) \/ Crash(r)
  PROVE  Told(r)' /\ ActsAlone(r)
  <1>0. TypeOK /\ req' = req
    BY DEF IInv, Abort, Crash
  <1>1. CASE Abort(r)
    <2>1. Rollback(r, FailureCode(r)) => Told(r)' /\ ActsAlone(r)
      BY <1>0, Failures, Refused DEF Rollback
    <2>2. EndClaim(r, "error", NULL) => Told(r)' /\ ActsAlone(r)
      BY <1>0, Refused DEF EndClaim
    <2>3. QED
      BY <1>1, <2>1, <2>2 DEF Abort
  <1>2. CASE Crash(r)
    BY <1>0, <1>2, Refused DEF Crash
  <1>3. QED
    BY <1>1, <1>2

-----------------------------------------------------------------------------
(* The theorem. *)

LEMMA RepliesNext == IInv /\ RepliesInv /\ [Next]_vars => RepliesInv'
  <1> SUFFICES ASSUME IInv, RepliesInv, [Next]_vars PROVE RepliesInv'
    OBVIOUS
  <1>1. CASE UNCHANGED vars
    BY <1>1 DEF vars, RepliesInv, Told, Answered, Claimed, AnnouncedExist
  <1>2. CASE Next
    <2>0. Kept
      BY <1>2, BookingsKept
    <2>1. ASSUME NEW r \in Requests, Told(r)', ActsAlone(r) PROVE \A q \in Requests : Told(q)'
      BY <2>0, <2>1, StillTold DEF RepliesInv, ActsAlone
    <2>2. announced' = announced => AnnouncedExist'
      BY <2>0 DEF RepliesInv, AnnouncedExist, Kept
    <2>3. ASSUME NEW r \in Requests, Start(r) \/ Advance(r) \/ RefuseBooking(r) \/ Abort(r) \/ Crash(r)
          PROVE  RepliesInv'
      <3>1. Told(r)' /\ ActsAlone(r)
        BY <2>0, <2>3, StartTold, BookingTold, CommitTold, PublishTold, ClaimTold, FailureTold DEF Advance
      <3>2. CASE PublishCreated(r)
        BY <2>0, <2>1, <3>1, <3>2, PublishTold DEF RepliesInv
      <3>3. CASE ~PublishCreated(r)
        <4>1. announced' = announced
          BY <2>3, <3>3
             DEF Start, StartGuestOrder, StartBooking, StartClaim, Advance, Lookup, LookupClaimed, LockGuest,
                 FindGuestOrderEntitlement, CreateBooking, ConsumeGuestOrder, ConsumeGuestOrderEntitlement,
                 CommitBooking, Recover, ClaimLock, ClaimMove, ClaimMark, CommitClaim, RefuseBooking, Abort, Crash
        <4>2. QED
          BY <2>1, <2>2, <3>1, <4>1 DEF RepliesInv
      <3>4. QED
        BY <3>2, <3>3
    <2>4. ASSUME UNCHANGED <<req, pc, reply, announced>> PROVE RepliesInv'
      BY <2>0, <2>2, <2>4, StillTold DEF RepliesInv, Rests
    <2>5. QED
      BY <1>2, <2>3, <2>4 DEF Next, ExpireGuest, BackfillClaimMarkers
  <1>3. QED
    BY <1>1, <1>2

LEMMA RepliesInit == Init => RepliesInv
  BY DEF Init, RepliesInv, Told, AnnouncedExist

LEMMA RepliesMean == IInv /\ RepliesInv => RepliesAreTrue
  <1> SUFFICES ASSUME IInv, RepliesInv PROVE RepliesAreTrue
    OBVIOUS
  <1>1. ASSUME NEW r \in Requests, reply[r].code = "ok"
        PROVE  /\ booking[reply[r].order] # NULL
               /\ req[r].kind = "guest" => session[req[r].guest].first_order_id = reply[r].order
               /\ req[r].kind = "user" => booking[reply[r].order].user_id = req[r].user
               /\ booking[reply[r].order].hash[2] = req[r].key
    <2>1. Answered(r, reply[r].order)
      BY <1>1 DEF RepliesInv, Told
    <2>2. ASSUME req[r].kind = "guest" PROVE session[req[r].guest].first_order_id = reply[r].order
      BY <2>1, <2>2 DEF Answered, PlacedBy, IInv, OrderAndAllowanceAgree
    <2>3. QED
      BY <2>1, <2>2 DEF Answered
  <1>2. ASSUME NEW q \in Requests, NEW r \in Requests,
               {reply[q].code, reply[r].code} \subseteq {"transferred", "replayed"},
               reply[q].order = reply[r].order
        PROVE  req[q].user = req[r].user
    BY <1>2 DEF RepliesInv, Told, Claimed
  <1>3. \A b \in announced : booking[b] # NULL
    BY DEF RepliesInv, AnnouncedExist
  <1>4. QED
    BY <1>1, <1>2, <1>3 DEF RepliesAreTrue

\* Whatever requests race, fail, crash or claim meanwhile, an answer that reported
\* success stays true: the caller's own booking for its key, one account per claimed
\* order, and booking_created for committed bookings only.
THEOREM AnswersAreTrue == Spec => []RepliesAreTrue
  <1>1. Init => IInv /\ RepliesInv
    BY InitInv, RepliesInit
  <1>2. (IInv /\ RepliesInv) /\ [Next]_vars => (IInv /\ RepliesInv)'
    BY NextInv, RepliesNext
  <1>3. IInv /\ RepliesInv => RepliesAreTrue
    BY RepliesMean
  <1>4. QED
    BY <1>1, <1>2, <1>3, PTL DEF Spec
=============================================================================
