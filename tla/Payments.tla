------------------------------ MODULE Payments ------------------------------
(***************************************************************************)
(* Payments and the provider's webhook.  The provider may deliver any      *)
(* status of a payment, in any order and more than once; deliveries are    *)
(* served concurrently and each action of one is a single database         *)
(* statement or a single publication.                                      *)
(*                                                                         *)
(* A delivery is one HTTP request.  What it carries is chosen when it      *)
(* arrives; stored and published are history.                              *)
(***************************************************************************)
EXTENDS Naturals, FiniteSets

CONSTANTS
    PaymentIDs,        \* payments that may be created
    Deliveries,        \* webhook requests
    Reported,          \* the statuses the provider reports, normalized
    MaxInterruptions,  \* bound on crashes and on answers of the database that are lost
    NULL

\* paymentSuccessSet
SuccessStatuses == {"paid", "settlement", "verified"}
\* NormalizePaymentStatus; a status that it does not know is stored as it is ("other").
PaymentStatuses == SuccessStatuses \cup {"pending", "failed", "expired", "cancelled", "other"}

ASSUME PaymentAssumption ==
    /\ Reported \subseteq PaymentStatuses
    /\ MaxInterruptions \in Nat
    /\ NULL \notin PaymentStatuses

VARIABLES
    status,         \* status of each payment row, NULL before it exists
    request,        \* what each delivery carries
    pc,             \* the step each delivery takes next
    seen,           \* the status each delivery read last
    reply,          \* what each delivery was answered
    updated,        \* the status each delivery published in payment_updated
    confirmed,      \* deliveries that published booking_confirmed and called N8N
    stored,         \* every status each row has had
    interruptions

payVars == <<status, request, pc, seen, reply, updated, confirmed, stored, interruptions>>

Request == [payment : PaymentIDs, status : Reported, verified : BOOLEAN, amountOK : BOOLEAN]

ASSUME RequestAssumption == NULL \notin Request

PayInit ==
    /\ status = [p \in PaymentIDs |-> NULL]
    /\ request = [d \in Deliveries |-> NULL]
    /\ pc = [d \in Deliveries |-> "idle"]
    /\ seen = [d \in Deliveries |-> NULL]
    /\ reply = [d \in Deliveries |-> "none"]
    /\ updated = [d \in Deliveries |-> NULL]
    /\ confirmed = {}
    /\ stored = [p \in PaymentIDs |-> {}]
    /\ interruptions = 0

IsPaymentSuccess(s) == s \in SuccessStatuses

PaymentOf(d) == request[d].payment
NewStatus(d) == request[d].status

Store(p, s) ==
    /\ status' = [status EXCEPT ![p] = s]
    /\ stored' = [stored EXCEPT ![p] = @ \cup {s}]

Goes(d, step) == pc' = [pc EXCEPT ![d] = step]

Answer(d, r) ==
    /\ reply' = [reply EXCEPT ![d] = r]
    /\ Goes(d, "done")

-----------------------------------------------------------------------------
\* A payment starts pending, for the amount of its booking.
Create(p) ==
    /\ status[p] = NULL
    /\ Store(p, "pending")
    /\ UNCHANGED <<request, pc, seen, reply, updated, confirmed, interruptions>>

\* The signature, its timestamp and the amount are checked before the status is
\* looked at; a delivery that fails a check is answered 400.
Deliver(d) ==
    /\ pc[d] = "idle"
    /\ \E r \in Request :
         /\ request' = [request EXCEPT ![d] = r]
         /\ IF r.verified THEN Goes(d, "find") /\ UNCHANGED reply ELSE Answer(d, "rejected")
    /\ UNCHANGED <<status, seen, updated, confirmed, stored, interruptions>>

\* FindPaymentByExternalID, then the idempotency checks on what it returned: a
\* settled payment takes no other status, and its own status only once.
Find(d) ==
    /\ pc[d] = "find"
    /\ LET current == status[PaymentOf(d)] IN
         /\ seen' = [seen EXCEPT ![d] = current]
         /\ CASE current = NULL \/ ~request[d].amountOK -> Answer(d, "rejected")
              [] IsPaymentSuccess(current) /\ ~IsPaymentSuccess(NewStatus(d)) -> Answer(d, "rejected")
              [] IsPaymentSuccess(current) /\ current = NewStatus(d) -> Answer(d, "ok")
              [] OTHER -> Goes(d, "update") /\ UNCHANGED reply
    /\ UNCHANGED <<status, request, updated, confirmed, stored, interruptions>>

\* Mutant: the UPDATE has no status in its WHERE clause.
UpdateStatus_blind(d) ==
    /\ pc[d] = "update"
    /\ Store(PaymentOf(d), NewStatus(d))
    /\ seen' = [seen EXCEPT ![d] = NewStatus(d)]
    /\ Goes(d, "publish")
    /\ UNCHANGED <<request, reply, updated, confirmed, interruptions>>

\* UpdatePaymentStatusAtomic
UpdateStatus(d) ==
    /\ pc[d] = "update"
    /\ IF status[PaymentOf(d)] = seen[d]
       THEN /\ Store(PaymentOf(d), NewStatus(d))
            /\ seen' = [seen EXCEPT ![d] = NewStatus(d)]
            /\ Goes(d, "publish")
       ELSE Goes(d, "reread") /\ UNCHANGED <<status, stored, seen>>
    /\ UNCHANGED <<request, reply, updated, confirmed, interruptions>>

\* Mutant: the loser announces the status it wanted to store.
Reread_own(d) ==
    /\ pc[d] = "reread"
    /\ seen' = [seen EXCEPT ![d] = NewStatus(d)]
    /\ Goes(d, "publish")
    /\ UNCHANGED <<status, request, reply, updated, confirmed, stored, interruptions>>

\* The loser of the update decides on what it finds now; a status it does not
\* regard as conflicting is announced and the delivery answered 200.
Reread(d) ==
    /\ pc[d] = "reread"
    /\ LET fresh == status[PaymentOf(d)] IN
         /\ seen' = [seen EXCEPT ![d] = fresh]
         /\ CASE IsPaymentSuccess(fresh) /\ ~IsPaymentSuccess(NewStatus(d)) -> Answer(d, "rejected")
              [] fresh = NewStatus(d) -> Answer(d, "ok")
              [] OTHER -> Goes(d, "publish") /\ UNCHANGED reply
    /\ UNCHANGED <<status, request, updated, confirmed, stored, interruptions>>

\* payment_updated
PublishUpdated(d) ==
    /\ pc[d] = "publish"
    /\ updated' = [updated EXCEPT ![d] = seen[d]]
    /\ IF IsPaymentSuccess(seen[d])
       THEN Goes(d, "confirm") /\ UNCHANGED reply
       ELSE Answer(d, "ok")
    /\ UNCHANGED <<status, request, seen, confirmed, stored, interruptions>>

\* booking_confirmed and the N8N call, whose outcome is ignored.
PublishConfirmed(d) ==
    /\ pc[d] = "confirm"
    /\ confirmed' = confirmed \cup {d}
    /\ Answer(d, "ok")
    /\ UNCHANGED <<status, request, seen, updated, stored, interruptions>>

\* A statement fails, or the request's context ends while it is at the server: the
\* UPDATE may have committed, and the delivery is answered 400 either way.
StatementFails(d) ==
    /\ pc[d] \in {"find", "update", "reread"}
    /\ interruptions < MaxInterruptions
    /\ interruptions' = interruptions + 1
    /\ \/ pc[d] = "update" /\ status[PaymentOf(d)] = seen[d] /\ Store(PaymentOf(d), NewStatus(d))
       \/ UNCHANGED <<status, stored>>
    /\ Answer(d, "failed")
    /\ UNCHANGED <<request, seen, updated, confirmed>>

\* The process dies: no delivery in service is answered.
Crash ==
    /\ interruptions < MaxInterruptions
    /\ \E d \in Deliveries : pc[d] \notin {"idle", "done"}
    /\ interruptions' = interruptions + 1
    /\ pc' = [d \in Deliveries |-> IF pc[d] = "idle" THEN "idle" ELSE "done"]
    /\ UNCHANGED <<status, request, seen, reply, updated, confirmed, stored>>

Quiet == \A d \in Deliveries : pc[d] = "done"

Finished == Quiet /\ UNCHANGED payVars

PayNext ==
    \/ \E p \in PaymentIDs : Create(p)
    \/ \E d \in Deliveries :
         \/ Deliver(d) \/ Find(d) \/ UpdateStatus(d) \/ Reread(d)
         \/ PublishUpdated(d) \/ PublishConfirmed(d) \/ StatementFails(d)
    \/ Crash \/ Finished

PaySpec == PayInit /\ [][PayNext]_payVars

-----------------------------------------------------------------------------
\* A settled payment is never downgraded, whatever the order in which concurrent
\* deliveries read it and update it.
SettledStaysSettled ==
    [][\A p \in PaymentIDs : IsPaymentSuccess(status[p]) => IsPaymentSuccess(status'[p])]_status

\* What payment_updated announces was stored at some time, a confirmation is only
\* ever published for a settled payment, and once every delivery has been served
\* each settled payment has been confirmed by one of them, unless a crash or a lost
\* answer cut one short.
AnnouncedIsSettled ==
    /\ \A d \in Deliveries :
        /\ updated[d] # NULL => updated[d] \in stored[PaymentOf(d)]
        /\ d \in confirmed => IsPaymentSuccess(status[PaymentOf(d)])
    /\ Quiet /\ interruptions = 0 =>
        \A p \in PaymentIDs :
            IsPaymentSuccess(status[p]) => \E d \in confirmed : PaymentOf(d) = p

SuccessesFor(p) == {d \in Deliveries : request[d] # NULL /\ PaymentOf(d) = p
                                         /\ IsPaymentSuccess(NewStatus(d))}

\* Deliveries of one and the same success status confirm the booking at most
\* once between them, however they race each other and the failures reported
\* in between.
DuplicatesConfirmOnce ==
    \A p \in PaymentIDs :
        Cardinality({NewStatus(d) : d \in SuccessesFor(p)}) = 1 =>
            Cardinality(confirmed \cap SuccessesFor(p)) <= 1
=============================================================================
