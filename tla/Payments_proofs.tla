--------------------------- MODULE Payments_proofs ---------------------------
(***************************************************************************)
(* Theorems of Payments, for all sets of payments, deliveries and reported *)
(* statuses and any number of interruptions.                               *)
(*                                                                         *)
(* The argument: a delivery reaches its UPDATE only with a status that may *)
(* replace the one it has seen, and the UPDATE takes effect only if that   *)
(* is still there.  So a settled row stays settled, and a second delivery  *)
(* of one status finds the row settled with that status.                   *)
(***************************************************************************)
EXTENDS Payments, FiniteSetTheorems, TLAPS

Pcs == {"idle", "find", "update", "reread", "publish", "confirm", "done"}

PayTypes ==
    /\ status \in [PaymentIDs -> PaymentStatuses \cup {NULL}]
    /\ request \in [Deliveries -> Request \cup {NULL}]
    /\ pc \in [Deliveries -> Pcs]
    /\ seen \in [Deliveries -> PaymentStatuses \cup {NULL}]
    /\ updated \in [Deliveries -> PaymentStatuses \cup {NULL}]
    /\ confirmed \subseteq Deliveries
    /\ stored \in [PaymentIDs -> SUBSET PaymentStatuses]
    /\ interruptions \in Nat

\* d has settled its payment, or found it settled, and confirms it.
Confirms(d) == d \in confirmed \/ (pc[d] \in {"publish", "confirm"} /\ IsPaymentSuccess(seen[d]))

\* What a delivery knows at each step.
Knows(d) ==
    /\ pc[d] = "idle" <=> request[d] = NULL
    /\ pc[d] = "idle" => updated[d] = NULL /\ d \notin confirmed
    /\ pc[d] \in {"update", "reread", "publish", "confirm"} => status[PaymentOf(d)] # NULL
    /\ pc[d] = "update" => seen[d] # NULL
    /\ pc[d] = "update" /\ IsPaymentSuccess(seen[d]) => IsPaymentSuccess(NewStatus(d)) /\ seen[d] # NewStatus(d)
    /\ pc[d] = "publish" => seen[d] \in stored[PaymentOf(d)]
    /\ pc[d] = "confirm" => IsPaymentSuccess(seen[d])
    /\ Confirms(d) => IsPaymentSuccess(status[PaymentOf(d)])
    /\ updated[d] # NULL => updated[d] \in stored[PaymentOf(d)]

\* Where the status of a row comes from.
Accounted(p) ==
    /\ status[p] # NULL => status[p] \in stored[p]
    /\ IsPaymentSuccess(status[p]) =>
         \E d \in Deliveries : request[d] # NULL /\ PaymentOf(d) = p /\ NewStatus(d) = status[p]

\* Without interruptions somebody confirms a settled payment.
WillConfirm(p) == interruptions = 0 /\ IsPaymentSuccess(status[p]) =>
    \E d \in Deliveries : request[d] # NULL /\ PaymentOf(d) = p /\ Confirms(d)

Differ(p) == \E f, g \in SuccessesFor(p) : NewStatus(f) # NewStatus(g)

\* Two deliveries confirm one payment only when different successes were reported.
ConfirmOnce == \A p \in PaymentIDs : \A d, e \in SuccessesFor(p) :
    Confirms(d) /\ Confirms(e) => d = e \/ Differ(p)

IInv ==
    /\ PayTypes
    /\ \A d \in Deliveries : Knows(d)
    /\ \A p \in PaymentIDs : Accounted(p) /\ WillConfirm(p)
    /\ ConfirmOnce

-----------------------------------------------------------------------------
(* Shapes of a step.                                                          *)

\* Rows, and what deliveries carry, are never taken back.
Grows ==
    /\ \A p \in PaymentIDs :
         /\ status[p] # NULL => status'[p] # NULL
         /\ IsPaymentSuccess(status[p]) => IsPaymentSuccess(status'[p])
         /\ stored[p] \subseteq stored'[p]
    /\ \A d \in Deliveries : request[d] # NULL => request'[d] = request[d]

\* A step leaves the local state of d alone.
Same(d) ==
    /\ pc'[d] = pc[d] /\ request'[d] = request[d] /\ seen'[d] = seen[d] /\ updated'[d] = updated[d]
    /\ d \in confirmed' <=> d \in confirmed

\* A success is a status, and NULL is none.
LEMMA Successes ==
    ASSUME NEW s, IsPaymentSuccess(s)
    PROVE  s \in PaymentStatuses /\ s # NULL
  BY PaymentAssumption DEF IsPaymentSuccess, PaymentStatuses

\* A delivery that carries something carries a payment and a status.
LEMMA Carried ==
    ASSUME PayTypes, NEW d \in Deliveries, request[d] # NULL
    PROVE  /\ request[d] \in Request
           /\ PaymentOf(d) \in PaymentIDs
           /\ NewStatus(d) \in PaymentStatuses /\ NewStatus(d) # NULL
  BY PaymentAssumption DEF PayTypes, Request, PaymentOf, NewStatus

\* What a delivery knows stays true while others act.
LEMMA KnowsStays ==
    ASSUME PayTypes, NEW d \in Deliveries, Knows(d), Grows, Same(d)
    PROVE  Knows(d)'
<1>1. CASE request[d] = NULL
  <2>1. /\ pc'[d] = "idle" /\ request'[d] = NULL /\ updated'[d] = NULL /\ d \notin confirmed'
    BY <1>1 DEF Knows, Same
  <2> QED BY <2>1 DEF Knows, Confirms
<1>2. CASE request[d] # NULL
  <2>1. PaymentOf(d) \in PaymentIDs /\ PaymentOf(d)' = PaymentOf(d) /\ NewStatus(d)' = NewStatus(d)
    BY <1>2, Carried DEF Same, PaymentOf, NewStatus
  <2>2. /\ status[PaymentOf(d)] # NULL => status'[PaymentOf(d)] # NULL
        /\ IsPaymentSuccess(status[PaymentOf(d)]) => IsPaymentSuccess(status'[PaymentOf(d)])
        /\ stored[PaymentOf(d)] \subseteq stored'[PaymentOf(d)]
    BY <2>1 DEF Grows
  <2>3. Confirms(d)' <=> Confirms(d)
    BY DEF Confirms, Same, IsPaymentSuccess
  <2> QED BY <2>1, <2>2, <2>3, <1>2 DEF Knows, Same, IsPaymentSuccess
<1> QED BY <1>1, <1>2

\* A row that does not change is accounted for by the same delivery.
LEMMA RowStays ==
    ASSUME PayTypes, Grows, NEW p \in PaymentIDs, Accounted(p), status'[p] = status[p]
    PROVE  Accounted(p)'
<1>1. status'[p] # NULL => status'[p] \in stored'[p]
  BY DEF Accounted, Grows
<1>2. ASSUME IsPaymentSuccess(status[p])
      PROVE  \E d \in Deliveries : request'[d] # NULL /\ PaymentOf(d)' = p /\ NewStatus(d)' = status'[p]
  <2>1. PICK d \in Deliveries : request[d] # NULL /\ PaymentOf(d) = p /\ NewStatus(d) = status[p]
    BY <1>2 DEF Accounted
  <2>2. request'[d] = request[d]
    BY <2>1 DEF Grows
  <2> QED BY <2>1, <2>2 DEF PaymentOf, NewStatus
<1> QED BY <1>1, <1>2 DEF Accounted, IsPaymentSuccess

\* A row that takes the status of a delivery is accounted for by it.
LEMMA RowTakes ==
    ASSUME PayTypes, Grows, NEW d \in Deliveries, request[d] # NULL,
           status'[PaymentOf(d)] = NewStatus(d), NewStatus(d) \in stored'[PaymentOf(d)]
    PROVE  Accounted(PaymentOf(d))'
<1>1. request'[d] = request[d]
  BY DEF Grows
<1>2. PaymentOf(d)' = PaymentOf(d) /\ NewStatus(d)' = NewStatus(d)
  BY <1>1 DEF PaymentOf, NewStatus
<1>3. (PaymentOf(d) \in PaymentIDs /\ request'[d] # NULL)
  BY <1>1, Carried
<1> QED BY <1>1, <1>2, <1>3 DEF Accounted

\* A delivery that is to confirm keeps doing so, and the row was settled before.
LEMMA StillConfirms ==
    ASSUME PayTypes, Grows, NEW p \in PaymentIDs, WillConfirm(p),
           interruptions' = 0 => interruptions = 0,
           interruptions' = 0 => \A d \in Deliveries : Confirms(d) => Confirms(d)',
           IsPaymentSuccess(status'[p]) => IsPaymentSuccess(status[p])
    PROVE  WillConfirm(p)'
<1>1. SUFFICES ASSUME interruptions' = 0, IsPaymentSuccess(status'[p])
               PROVE  \E d \in Deliveries : request'[d] # NULL /\ PaymentOf(d)' = p /\ Confirms(d)'
  BY DEF WillConfirm, IsPaymentSuccess
<1>2. PICK d \in Deliveries : request[d] # NULL /\ PaymentOf(d) = p /\ Confirms(d)
  BY <1>1 DEF WillConfirm
<1>3. request'[d] = request[d] /\ Confirms(d)'
  BY <1>1, <1>2 DEF Grows
<1> QED BY <1>2, <1>3 DEF PaymentOf

\* Different successes stay different.
LEMMA DifferStays ==
    ASSUME PayTypes, Grows, NEW p \in PaymentIDs, Differ(p)
    PROVE  Differ(p)'
<1>1. PICK f, g \in SuccessesFor(p) : NewStatus(f) # NewStatus(g)
  BY DEF Differ
<1>2. request'[f] = request[f] /\ request'[g] = request[g] /\ f \in Deliveries /\ g \in Deliveries
  BY <1>1 DEF SuccessesFor, Grows
<1>3. f \in SuccessesFor(p)' /\ g \in SuccessesFor(p)' /\ NewStatus(f)' # NewStatus(g)'
  BY <1>1, <1>2 DEF SuccessesFor, PaymentOf, NewStatus, IsPaymentSuccess
<1> QED BY <1>3 DEF Differ

\* A step makes one delivery at most confirm, and only when it may.
LEMMA OnceStays ==
    ASSUME IInv, Grows, NEW d \in Deliveries,
           \A e \in Deliveries : e # d /\ Confirms(e)' => Confirms(e),
           Confirms(d)' /\ ~Confirms(d) => request[d] # NULL /\
              \A p \in PaymentIDs : \A e \in SuccessesFor(p) :
                 d \in SuccessesFor(p) /\ e # d /\ Confirms(e) => Differ(p)
    PROVE  ConfirmOnce'
<1>1. SUFFICES ASSUME NEW p \in PaymentIDs, NEW a \in SuccessesFor(p)', NEW b \in SuccessesFor(p)',
                      Confirms(a)', Confirms(b)', a # b
               PROVE  Differ(p)'
  BY DEF ConfirmOnce
<1>2. ASSUME NEW e \in SuccessesFor(p)', Confirms(e)'
      PROVE  e \in SuccessesFor(p) /\ (Confirms(e) \/ e = d)
  <2>1. e \in Deliveries /\ (Confirms(e) \/ e = d)
    BY <1>2 DEF SuccessesFor
  <2>2. request[e] # NULL
    <3>1. CASE Confirms(e)
      BY <3>1, <2>1 DEF IInv, Knows, Confirms
    <3>2. CASE ~Confirms(e)
      BY <3>2, <2>1, <1>2
    <3> QED BY <3>1, <3>2
  <2>3. request'[e] = request[e]
    BY <2>1, <2>2 DEF Grows
  <2> QED BY <1>2, <2>1, <2>2, <2>3 DEF SuccessesFor, PaymentOf, NewStatus, IsPaymentSuccess
<1>3. /\ a \in SuccessesFor(p) /\ (Confirms(a) \/ a = d)
      /\ b \in SuccessesFor(p) /\ (Confirms(b) \/ b = d)
  BY <1>1, <1>2
<1>4. Differ(p)
  <2>1. CASE Confirms(a) /\ Confirms(b)
    BY <2>1, <1>1, <1>3 DEF IInv, ConfirmOnce
  <2>2. CASE ~Confirms(a)
    BY <2>2, <1>1, <1>3
  <2>3. CASE ~Confirms(b)
    BY <2>3, <1>1, <1>3
  <2> QED BY <2>1, <2>2, <2>3
<1> QED BY <1>4, DifferStays DEF IInv

\* A step of one delivery that leaves the rows alone.
LEMMA QuietStep ==
    ASSUME IInv, PayTypes', NEW d \in Deliveries,
           UNCHANGED <<status, stored, interruptions>>,
           request[d] # NULL => request'[d] = request[d],
           \A e \in Deliveries \ {d} : Same(e),
           Knows(d)',
           Confirms(d) => Confirms(d)',
           Confirms(d)' /\ ~Confirms(d) => request[d] # NULL /\
              \A p \in PaymentIDs : \A e \in SuccessesFor(p) :
                 d \in SuccessesFor(p) /\ e # d /\ Confirms(e) => Differ(p)
    PROVE  IInv'
<1>1. Grows
  BY DEF Grows, Same, IInv, IsPaymentSuccess
<1>2. \A e \in Deliveries : Knows(e)'
  BY <1>1, KnowsStays DEF IInv
<1>3. \A e \in Deliveries \ {d} : Confirms(e)' <=> Confirms(e)
  BY DEF Same, Confirms, IsPaymentSuccess
<1>4. ASSUME NEW p \in PaymentIDs
      PROVE  Accounted(p)' /\ WillConfirm(p)'
  <2>1. Accounted(p)'
    BY <1>1, RowStays DEF IInv
  <2>2. WillConfirm(p)
    BY DEF IInv
  <2>3. \A e \in Deliveries : Confirms(e) => Confirms(e)'
    BY <1>3
  <2>4. IsPaymentSuccess(status'[p]) => IsPaymentSuccess(status[p])
    OBVIOUS
  <2>5. WillConfirm(p)'
    BY <1>1, <2>2, <2>3, <2>4, StillConfirms DEF IInv
  <2> QED BY <2>1, <2>5
<1>5. ConfirmOnce'
  BY <1>1, <1>3, OnceStays
<1> QED BY <1>2, <1>4, <1>5 DEF IInv

-----------------------------------------------------------------------------
(* One lemma per action.                                                      *)

LEMMA InitInv == PayInit => IInv
<1> SUFFICES ASSUME PayInit PROVE IInv
  OBVIOUS
<1>1. PayTypes
  BY DEF PayInit, PayTypes, Pcs
<1>2. ASSUME NEW d \in Deliveries
      PROVE  Knows(d) /\ ~Confirms(d)
  BY PaymentAssumption DEF PayInit, Knows, Confirms, IsPaymentSuccess
<1>3. ASSUME NEW p \in PaymentIDs
      PROVE  Accounted(p) /\ WillConfirm(p)
  <2>1. status[p] = NULL /\ ~IsPaymentSuccess(status[p])
    BY Successes DEF PayInit
  <2> QED BY <2>1 DEF Accounted, WillConfirm
<1>4. ConfirmOnce
  BY <1>2 DEF ConfirmOnce, SuccessesFor
<1> QED BY <1>1, <1>2, <1>3, <1>4 DEF IInv

\* A new row is pending: nothing is settled by it.
LEMMA CreateStep ==
    ASSUME IInv, NEW p \in PaymentIDs, Create(p)
    PROVE  IInv'
<1>1. PayTypes /\ \A d \in Deliveries : Knows(d)
  BY DEF IInv
<1>2. /\ status' = [status EXCEPT ![p] = "pending"]
      /\ stored' = [stored EXCEPT ![p] = @ \cup {"pending"}]
      /\ UNCHANGED <<request, pc, seen, updated, confirmed, interruptions>>
      /\ status[p] = NULL
  BY DEF Create, Store
<1>3. PayTypes'
  BY <1>1, <1>2 DEF PayTypes, PaymentStatuses
<1>4. ~IsPaymentSuccess(status[p]) /\ ~IsPaymentSuccess("pending") /\ "pending" # NULL
  BY <1>2, Successes, PaymentAssumption DEF IsPaymentSuccess, SuccessStatuses, PaymentStatuses
<1>5. Grows
  BY <1>1, <1>2, <1>4 DEF Grows, PayTypes, IsPaymentSuccess
<1>6. \A d \in Deliveries : Same(d) /\ (Confirms(d)' <=> Confirms(d))
  BY <1>2 DEF Same, Confirms, IsPaymentSuccess
<1>7. \A d \in Deliveries : Knows(d)'
  BY <1>1, <1>5, <1>6, KnowsStays
<1>8. ASSUME NEW q \in PaymentIDs
      PROVE  Accounted(q)' /\ WillConfirm(q)'
  <2>1. CASE q = p
    <3>1. status'[p] = "pending" /\ "pending" \in stored'[p]
      BY <1>1, <1>2 DEF PayTypes
    <3> QED BY <2>1, <3>1, <1>4 DEF Accounted, WillConfirm, IsPaymentSuccess
  <2>2. CASE q # p
    <3>1. status'[q] = status[q] /\ Accounted(q) /\ WillConfirm(q)
      BY <2>2, <1>1, <1>2 DEF PayTypes, IInv
    <3>2. IsPaymentSuccess(status'[q]) => IsPaymentSuccess(status[q])
      BY <3>1
    <3> QED BY <3>1, <3>2, <1>1, <1>2, <1>5, <1>6, RowStays, StillConfirms
  <2> QED BY <2>1, <2>2
<1>9. ConfirmOnce'
  <2>1. CASE Deliveries = {}
    BY <2>1 DEF ConfirmOnce, SuccessesFor
  <2>2. ASSUME NEW d \in Deliveries PROVE ConfirmOnce'
    BY <1>5, <1>6, OnceStays
  <2> QED BY <2>1, <2>2
<1> QED BY <1>3, <1>7, <1>8, <1>9 DEF IInv

LEMMA DeliverStep ==
    ASSUME IInv, NEW d \in Deliveries, Deliver(d)
    PROVE  IInv'
<1>1. PayTypes /\ Knows(d)
  BY DEF IInv
<1>2. PICK r \in Request : request' = [request EXCEPT ![d] = r]
                           /\ pc' \in {[pc EXCEPT ![d] = "find"], [pc EXCEPT ![d] = "done"]}
  BY DEF Deliver, Goes, Answer
<1>3. pc[d] = "idle" /\ UNCHANGED <<status, seen, updated, confirmed, stored, interruptions>>
  BY DEF Deliver
<1>4. request'[d] = r /\ pc'[d] \in {"find", "done"}
  BY <1>1, <1>2 DEF PayTypes
<1>5. PayTypes'
  BY <1>1, <1>2, <1>3 DEF PayTypes, Pcs
<1>6. \A e \in Deliveries \ {d} : Same(e)
  BY <1>1, <1>2, <1>3 DEF Same, PayTypes
<1>7. request[d] = NULL /\ updated'[d] = NULL /\ d \notin confirmed'
  BY <1>1, <1>3 DEF Knows
<1>8. ~Confirms(d) /\ ~Confirms(d)'
  BY <1>3, <1>4, <1>7 DEF Confirms
<1>9. Knows(d)'
  BY <1>4, <1>7, <1>8, RequestAssumption DEF Knows
<1> QED BY <1>3, <1>5, <1>6, <1>7, <1>8, <1>9, QuietStep

LEMMA FindStep ==
    ASSUME IInv, NEW d \in Deliveries, Find(d)
    PROVE  IInv'
<1>1. PayTypes /\ Knows(d) /\ pc[d] = "find"
  BY DEF IInv, Find
<1>2. request[d] # NULL
  BY <1>1 DEF Knows
<1>3. PaymentOf(d) \in PaymentIDs
  BY <1>1, <1>2, Carried
<1> DEFINE current == status[PaymentOf(d)]
<1>4. /\ seen' = [seen EXCEPT ![d] = current]
      /\ UNCHANGED <<status, request, updated, confirmed, stored, interruptions>>
      /\ \/ pc' = [pc EXCEPT ![d] = "done"]
         \/ /\ pc' = [pc EXCEPT ![d] = "update"]
            /\ current # NULL
            /\ ~(IsPaymentSuccess(current) /\ ~IsPaymentSuccess(NewStatus(d)))
            /\ ~(IsPaymentSuccess(current) /\ current = NewStatus(d))
  BY DEF Find, Answer, Goes
<1>5. PayTypes'
  BY <1>1, <1>3, <1>4 DEF PayTypes, Pcs
<1>6. \A e \in Deliveries \ {d} : Same(e)
  BY <1>1, <1>4 DEF Same, PayTypes
<1>7. seen'[d] = current /\ pc'[d] \in {"update", "done"}
  BY <1>1, <1>4 DEF PayTypes
<1>8. (Confirms(d) <=> d \in confirmed) /\ (Confirms(d)' <=> d \in confirmed)
  BY <1>1, <1>4, <1>7 DEF Confirms
<1>9. Knows(d)'
  <2>1. PaymentOf(d)' = PaymentOf(d) /\ NewStatus(d)' = NewStatus(d)
    BY <1>4 DEF PaymentOf, NewStatus
  <2>2. pc'[d] = "update" => /\ current # NULL
                             /\ IsPaymentSuccess(current) => IsPaymentSuccess(NewStatus(d)) /\ current # NewStatus(d)
    BY <1>1, <1>4 DEF PayTypes
  <2> QED BY <1>1, <1>2, <1>4, <1>7, <1>8, <2>1, <2>2 DEF Knows, IsPaymentSuccess
<1> QED BY <1>4, <1>5, <1>6, <1>8, <1>9, QuietStep

\* An UPDATE that takes effect: the row is still what the delivery has seen.
Takes(d) ==
    /\ pc[d] = "update" /\ status[PaymentOf(d)] = seen[d]
    /\ Store(PaymentOf(d), NewStatus(d))
    /\ UNCHANGED <<request, updated, confirmed>>

LEMMA TakesRow ==
    ASSUME IInv, NEW d \in Deliveries, Takes(d)
    PROVE  /\ request[d] # NULL /\ PaymentOf(d) \in PaymentIDs
           /\ status'[PaymentOf(d)] = NewStatus(d) /\ NewStatus(d) # NULL
           /\ NewStatus(d) \in stored'[PaymentOf(d)]
           /\ PaymentOf(d)' = PaymentOf(d) /\ NewStatus(d)' = NewStatus(d)
           /\ \A p \in PaymentIDs \ {PaymentOf(d)} : status'[p] = status[p]
           /\ status' \in [PaymentIDs -> PaymentStatuses \cup {NULL}]
           /\ stored' \in [PaymentIDs -> SUBSET PaymentStatuses]
           /\ Grows
<1>1. PayTypes /\ Knows(d) /\ pc[d] = "update" /\ status[PaymentOf(d)] = seen[d]
  BY DEF IInv, Takes
<1>2. request[d] # NULL
  BY <1>1 DEF Knows
<1>3. PaymentOf(d) \in PaymentIDs /\ NewStatus(d) \in PaymentStatuses /\ NewStatus(d) # NULL
  BY <1>1, <1>2, Carried
<1>4. /\ status' = [status EXCEPT ![PaymentOf(d)] = NewStatus(d)]
      /\ stored' = [stored EXCEPT ![PaymentOf(d)] = @ \cup {NewStatus(d)}]
      /\ request' = request
  BY DEF Takes, Store
<1>5. IsPaymentSuccess(seen[d]) => IsPaymentSuccess(NewStatus(d))
  BY <1>1 DEF Knows
<1>6. /\ status'[PaymentOf(d)] = NewStatus(d) /\ NewStatus(d) \in stored'[PaymentOf(d)]
      /\ \A p \in PaymentIDs \ {PaymentOf(d)} : status'[p] = status[p]
      /\ \A p \in PaymentIDs : stored[p] \subseteq stored'[p]
      /\ status' \in [PaymentIDs -> PaymentStatuses \cup {NULL}]
      /\ stored' \in [PaymentIDs -> SUBSET PaymentStatuses]
  BY <1>1, <1>3, <1>4 DEF PayTypes
<1>7. Grows
  BY <1>1, <1>3, <1>4, <1>5, <1>6 DEF Grows
<1>8. PaymentOf(d)' = PaymentOf(d) /\ NewStatus(d)' = NewStatus(d)
  BY <1>4 DEF PaymentOf, NewStatus
<1> QED BY <1>2, <1>3, <1>6, <1>7, <1>8

\* Whoever confirms d's payment already saw another success reported for it.
LEMMA SecondSuccess ==
    ASSUME IInv, NEW d \in Deliveries, request[d] # NULL,
           IsPaymentSuccess(status[PaymentOf(d)]) => status[PaymentOf(d)] # NewStatus(d)
    PROVE  \A p \in PaymentIDs : \A e \in SuccessesFor(p) :
              d \in SuccessesFor(p) /\ e # d /\ Confirms(e) => Differ(p)
<1>1. SUFFICES ASSUME NEW p \in PaymentIDs, NEW e \in SuccessesFor(p), d \in SuccessesFor(p), Confirms(e)
               PROVE  Differ(p)
  OBVIOUS
<1>2. e \in Deliveries /\ PaymentOf(e) = p /\ PaymentOf(d) = p
  BY <1>1 DEF SuccessesFor
<1>3. IsPaymentSuccess(status[p])
  BY <1>1, <1>2 DEF IInv, Knows
<1>4. PICK f \in Deliveries : request[f] # NULL /\ PaymentOf(f) = p /\ NewStatus(f) = status[p]
  BY <1>3 DEF IInv, Accounted
<1>5. f \in SuccessesFor(p) /\ NewStatus(f) # NewStatus(d)
  BY <1>2, <1>3, <1>4 DEF SuccessesFor
<1> QED BY <1>1, <1>5 DEF Differ

\* What the store does to the rows and to those who confirm.
LEMMA TakesStep ==
    ASSUME IInv, NEW d \in Deliveries, Takes(d), PayTypes',
           \A e \in Deliveries \ {d} : Same(e),
           Knows(d)',
           \/ interruptions' # 0
           \/ /\ UNCHANGED interruptions
              /\ pc'[d] = "publish" /\ seen'[d] = NewStatus(d)
    PROVE  IInv'
<1>1. PayTypes /\ Knows(d) /\ pc[d] = "update" /\ status[PaymentOf(d)] = seen[d]
  BY DEF IInv, Takes
<1>2. /\ request[d] # NULL /\ PaymentOf(d) \in PaymentIDs
      /\ status'[PaymentOf(d)] = NewStatus(d) /\ NewStatus(d) \in stored'[PaymentOf(d)]
      /\ PaymentOf(d)' = PaymentOf(d) /\ NewStatus(d)' = NewStatus(d)
      /\ \A p \in PaymentIDs \ {PaymentOf(d)} : status'[p] = status[p]
      /\ Grows
  BY TakesRow
<1>3. \A e \in Deliveries : Knows(e)'
  BY <1>2, KnowsStays DEF IInv
<1>4. \A e \in Deliveries \ {d} : Confirms(e)' <=> Confirms(e)
  BY DEF Same, Confirms, IsPaymentSuccess
<1>5. ASSUME NEW p \in PaymentIDs PROVE Accounted(p)'
  <2>1. CASE p = PaymentOf(d)
    BY <2>1, <1>1, <1>2, RowTakes
  <2>2. CASE p # PaymentOf(d)
    BY <2>2, <1>1, <1>2, RowStays DEF IInv
  <2> QED BY <2>1, <2>2
<1>6. ASSUME NEW p \in PaymentIDs PROVE WillConfirm(p)'
  <2>1. CASE interruptions' # 0
    BY <2>1 DEF WillConfirm
  <2>2. CASE interruptions' = interruptions /\ pc'[d] = "publish" /\ seen'[d] = NewStatus(d)
    <3>1. CASE p = PaymentOf(d)
      <4>1. SUFFICES ASSUME IsPaymentSuccess(status'[p]) PROVE WillConfirm(p)'
        BY DEF WillConfirm, IsPaymentSuccess
      <4>2. Confirms(d)' /\ PaymentOf(d)' = p /\ request'[d] # NULL
        BY <4>1, <3>1, <2>2, <1>2 DEF Confirms, IsPaymentSuccess, Grows
      <4> QED BY <4>2 DEF WillConfirm
    <3>2. CASE p # PaymentOf(d)
      <4>1. status'[p] = status[p] /\ WillConfirm(p)
        BY <3>2, <1>2 DEF IInv
      <4>2. ~Confirms(d) \/ Confirms(d)'
        <5>1. pc[d] = "update" => (Confirms(d) <=> d \in confirmed)
          BY DEF Confirms
        <5> QED BY <5>1, <1>1 DEF Confirms, Takes
      <4>3. \A e \in Deliveries : Confirms(e) => Confirms(e)'
        BY <1>4, <4>2
      <4>4. IsPaymentSuccess(status'[p]) => IsPaymentSuccess(status[p])
        BY <4>1
      <4> QED BY <1>1, <1>2, <2>2, <4>1, <4>3, <4>4, StillConfirms
    <3> QED BY <3>1, <3>2
  <2> QED BY <2>1, <2>2
<1>7. ConfirmOnce'
  <2>1. IsPaymentSuccess(status[PaymentOf(d)]) => status[PaymentOf(d)] # NewStatus(d)
    BY <1>1 DEF Knows
  <2> QED BY <1>2, <1>4, <2>1, SecondSuccess, OnceStays
<1> QED BY <1>3, <1>5, <1>6, <1>7 DEF IInv

LEMMA UpdateStatusStep ==
    ASSUME IInv, NEW d \in Deliveries, UpdateStatus(d)
    PROVE  IInv'
<1>1. PayTypes /\ Knows(d) /\ pc[d] = "update" /\ request[d] # NULL
  BY DEF IInv, UpdateStatus, Knows
<1>2. UNCHANGED <<request, updated, confirmed, interruptions>>
  BY DEF UpdateStatus
<1>3. CASE status[PaymentOf(d)] = seen[d]
  <2>1. /\ seen' = [seen EXCEPT ![d] = NewStatus(d)] /\ pc' = [pc EXCEPT ![d] = "publish"]
        /\ Takes(d)
    BY <1>1, <1>2, <1>3 DEF UpdateStatus, Goes, Takes
  <2>2. /\ PaymentOf(d) \in PaymentIDs
        /\ status'[PaymentOf(d)] = NewStatus(d) /\ NewStatus(d) # NULL
        /\ NewStatus(d) \in stored'[PaymentOf(d)]
        /\ PaymentOf(d)' = PaymentOf(d) /\ NewStatus(d)' = NewStatus(d)
        /\ status' \in [PaymentIDs -> PaymentStatuses \cup {NULL}]
        /\ stored' \in [PaymentIDs -> SUBSET PaymentStatuses]
        /\ Grows
    BY <2>1, TakesRow
  <2>3. PayTypes'
    BY <1>1, <1>2, <2>1, <2>2, Carried DEF PayTypes, Pcs
  <2>4. \A e \in Deliveries \ {d} : Same(e)
    BY <1>1, <1>2, <2>1 DEF Same, PayTypes
  <2>5. pc'[d] = "publish" /\ seen'[d] = NewStatus(d)
    BY <1>1, <2>1 DEF PayTypes
  <2>6. Knows(d)'
    <3>1. Confirms(d)' => IsPaymentSuccess(status'[PaymentOf(d)])
      BY <1>1, <1>2, <2>2, <2>5 DEF Confirms, Knows, Grows, IsPaymentSuccess
    <3>2. updated'[d] # NULL => updated'[d] \in stored'[PaymentOf(d)]
      BY <1>1, <1>2, <2>2 DEF Knows, Grows
    <3> QED BY <1>1, <1>2, <2>2, <2>5, <3>1, <3>2 DEF Knows, IsPaymentSuccess
  <2> QED BY <1>2, <2>1, <2>3, <2>4, <2>5, <2>6, TakesStep
<1>4. CASE status[PaymentOf(d)] # seen[d]
  <2>1. pc' = [pc EXCEPT ![d] = "reread"] /\ UNCHANGED <<status, stored, seen>>
    BY <1>4 DEF UpdateStatus, Goes
  <2>2. PayTypes' /\ pc'[d] = "reread" /\ \A e \in Deliveries \ {d} : Same(e)
    BY <1>1, <1>2, <2>1 DEF PayTypes, Pcs, Same
  <2>3. (Confirms(d) <=> d \in confirmed) /\ (Confirms(d)' <=> d \in confirmed)
    BY <1>1, <1>2, <2>2 DEF Confirms
  <2>4. Knows(d)'
    BY <1>1, <1>2, <2>1, <2>2, <2>3 DEF Knows, PaymentOf, IsPaymentSuccess
  <2> QED BY <1>2, <2>1, <2>2, <2>3, <2>4, QuietStep
<1> QED BY <1>3, <1>4

LEMMA RereadStep ==
    ASSUME IInv, NEW d \in Deliveries, Reread(d)
    PROVE  IInv'
<1>1. PayTypes /\ Knows(d) /\ pc[d] = "reread" /\ request[d] # NULL
  BY DEF IInv, Reread, Knows
<1>2. PaymentOf(d) \in PaymentIDs
  BY <1>1, Carried
<1> DEFINE fresh == status[PaymentOf(d)]
<1>3. /\ seen' = [seen EXCEPT ![d] = fresh]
      /\ UNCHANGED <<status, request, updated, confirmed, stored, interruptions>>
      /\ \/ pc' = [pc EXCEPT ![d] = "done"]
         \/ pc' = [pc EXCEPT ![d] = "publish"] /\ fresh # NewStatus(d)
  BY DEF Reread, Answer, Goes
<1>4. PayTypes'
  BY <1>1, <1>2, <1>3 DEF PayTypes, Pcs
<1>5. \A e \in Deliveries \ {d} : Same(e)
  BY <1>1, <1>3 DEF Same, PayTypes
<1>6. seen'[d] = fresh /\ pc'[d] \in {"publish", "done"} /\ (pc'[d] = "publish" => fresh # NewStatus(d))
  BY <1>1, <1>3 DEF PayTypes
<1>7. Confirms(d) <=> d \in confirmed
  BY <1>1 DEF Confirms
<1>8. Confirms(d)' => d \in confirmed \/ (pc'[d] = "publish" /\ IsPaymentSuccess(fresh))
  BY <1>3, <1>6 DEF Confirms, IsPaymentSuccess
<1>9. Knows(d)'
  <2>1. fresh # NULL /\ fresh \in stored[PaymentOf(d)]
    BY <1>1, <1>2 DEF Knows, IInv, Accounted
  <2>2. Confirms(d)' => IsPaymentSuccess(fresh)
    BY <1>1, <1>7, <1>8 DEF Knows
  <2> QED BY <1>1, <1>3, <1>6, <2>1, <2>2 DEF Knows, PaymentOf, IsPaymentSuccess
<1>10. Confirms(d) => Confirms(d)'
  BY <1>3, <1>7 DEF Confirms
<1>11. Confirms(d)' /\ ~Confirms(d) => fresh # NewStatus(d)
  BY <1>6, <1>7, <1>8
<1> QED BY <1>1, <1>3, <1>4, <1>5, <1>9, <1>10, <1>11, SecondSuccess, QuietStep

LEMMA PublishUpdatedStep ==
    ASSUME IInv, NEW d \in Deliveries, PublishUpdated(d)
    PROVE  IInv'
<1>1. PayTypes /\ Knows(d) /\ pc[d] = "publish" /\ request[d] # NULL
  BY DEF IInv, PublishUpdated, Knows
<1>2. /\ updated' = [updated EXCEPT ![d] = seen[d]]
      /\ UNCHANGED <<status, request, seen, confirmed, stored, interruptions>>
      /\ pc' = [pc EXCEPT ![d] = IF IsPaymentSuccess(seen[d]) THEN "confirm" ELSE "done"]
  BY DEF PublishUpdated, Answer, Goes
<1>3. PayTypes'
  BY <1>1, <1>2 DEF PayTypes, Pcs
<1>4. \A e \in Deliveries \ {d} : Same(e)
  BY <1>1, <1>2 DEF Same, PayTypes
<1>5. updated'[d] = seen[d] /\ pc'[d] = IF IsPaymentSuccess(seen[d]) THEN "confirm" ELSE "done"
  BY <1>1, <1>2 DEF PayTypes
<1>6. Confirms(d)' <=> Confirms(d)
  BY <1>1, <1>2, <1>5 DEF Confirms, IsPaymentSuccess
<1>7. Knows(d)'
  BY <1>1, <1>2, <1>5, <1>6 DEF Knows, PaymentOf, IsPaymentSuccess
<1> QED BY <1>1, <1>2, <1>3, <1>4, <1>6, <1>7, QuietStep

LEMMA PublishConfirmedStep ==
    ASSUME IInv, NEW d \in Deliveries, PublishConfirmed(d)
    PROVE  IInv'
<1>1. PayTypes /\ Knows(d) /\ pc[d] = "confirm" /\ request[d] # NULL
  BY DEF IInv, PublishConfirmed, Knows
<1>2. /\ confirmed' = confirmed \cup {d}
      /\ UNCHANGED <<status, request, seen, updated, stored, interruptions>>
      /\ pc' = [pc EXCEPT ![d] = "done"]
  BY DEF PublishConfirmed, Answer, Goes
<1>3. PayTypes'
  BY <1>1, <1>2 DEF PayTypes, Pcs
<1>4. \A e \in Deliveries \ {d} : Same(e)
  BY <1>1, <1>2 DEF Same, PayTypes
<1>5. pc'[d] = "done" /\ d \in confirmed'
  BY <1>1, <1>2 DEF PayTypes
<1>6. Confirms(d)' /\ Confirms(d)
  BY <1>1, <1>5 DEF Confirms, Knows
<1>7. Knows(d)'
  BY <1>1, <1>2, <1>5, <1>6 DEF Knows, PaymentOf, IsPaymentSuccess
<1> QED BY <1>1, <1>2, <1>3, <1>4, <1>6, <1>7, QuietStep

LEMMA StatementFailsStep ==
    ASSUME IInv, NEW d \in Deliveries, StatementFails(d)
    PROVE  IInv'
<1>1. PayTypes /\ Knows(d) /\ pc[d] \in {"find", "update", "reread"} /\ request[d] # NULL
  BY DEF IInv, StatementFails, Knows
<1>2. /\ UNCHANGED <<request, seen, updated, confirmed>>
      /\ interruptions' = interruptions + 1
      /\ pc' = [pc EXCEPT ![d] = "done"]
  BY DEF StatementFails, Answer, Goes
<1>3. interruptions' \in Nat /\ interruptions' # 0
  BY <1>1, <1>2 DEF PayTypes
<1>4. pc'[d] = "done" /\ \A e \in Deliveries \ {d} : Same(e)
  BY <1>1, <1>2 DEF PayTypes, Same
<1>5. (Confirms(d) <=> d \in confirmed) /\ (Confirms(d)' <=> d \in confirmed)
  BY <1>1, <1>2, <1>4 DEF Confirms
<1>6. CASE pc[d] = "update" /\ status[PaymentOf(d)] = seen[d] /\ Store(PaymentOf(d), NewStatus(d))
  <2>1. Takes(d)
    BY <1>1, <1>2, <1>6 DEF Takes
  <2>2. /\ PaymentOf(d) \in PaymentIDs /\ PaymentOf(d)' = PaymentOf(d)
        /\ status' \in [PaymentIDs -> PaymentStatuses \cup {NULL}]
        /\ stored' \in [PaymentIDs -> SUBSET PaymentStatuses]
        /\ Grows
    BY <2>1, TakesRow
  <2>3. PayTypes'
    BY <1>1, <1>2, <1>3, <2>2 DEF PayTypes, Pcs
  <2>4. Knows(d)'
    BY <1>1, <1>2, <1>4, <1>5, <2>2 DEF Knows, Grows, IsPaymentSuccess
  <2> QED BY <1>3, <1>4, <2>1, <2>3, <2>4, TakesStep
<1>7. CASE UNCHANGED <<status, stored>>
  <2>1. UNCHANGED <<status, stored>>
    BY <1>7
  <2>2. PayTypes' /\ Grows
    BY <1>1, <1>2, <1>3, <2>1 DEF PayTypes, Pcs, Grows
  <2>3. Knows(d)'
    BY <1>1, <1>2, <1>4, <1>5, <2>1 DEF Knows, PaymentOf, IsPaymentSuccess
  <2>4. \A e \in Deliveries : Knows(e)'
    BY <1>1, <1>4, <2>2, <2>3, KnowsStays DEF IInv
  <2>5. \A p \in PaymentIDs : Accounted(p)' /\ WillConfirm(p)'
    BY <1>1, <1>3, <2>1, <2>2, RowStays DEF IInv, WillConfirm
  <2>6. \A e \in Deliveries \ {d} : Confirms(e)' => Confirms(e)
    BY <1>4 DEF Same, Confirms, IsPaymentSuccess
  <2>7. ConfirmOnce'
    BY <1>5, <2>2, <2>6, OnceStays
  <2> QED BY <2>2, <2>4, <2>5, <2>7 DEF IInv
<1> QED BY <1>6, <1>7 DEF StatementFails

LEMMA CrashStep ==
    ASSUME IInv, Crash
    PROVE  IInv'
<1>1. PayTypes /\ \A d \in Deliveries : Knows(d)
  BY DEF IInv
<1>2. /\ interruptions' = interruptions + 1
      /\ pc' = [d \in Deliveries |-> IF pc[d] = "idle" THEN "idle" ELSE "done"]
      /\ UNCHANGED <<status, request, seen, reply, updated, confirmed, stored>>
  BY DEF Crash
<1>3. PayTypes' /\ Grows /\ interruptions' # 0
  BY <1>1, <1>2 DEF PayTypes, Pcs, Grows
<1>4. ASSUME NEW d \in Deliveries PROVE Knows(d)' /\ (Confirms(d)' => Confirms(d))
  <2>1. pc'[d] = IF pc[d] = "idle" THEN "idle" ELSE "done"
    BY <1>2
  <2>2. Confirms(d)' => d \in confirmed
    BY <1>2, <2>1 DEF Confirms
  <2>3. d \in confirmed => Confirms(d)
    BY DEF Confirms
  <2>4. Knows(d)
    BY <1>1
  <2>5. Knows(d)'
    BY <1>2, <2>1, <2>2, <2>3, <2>4 DEF Knows, PaymentOf, IsPaymentSuccess
  <2> QED BY <2>2, <2>3, <2>5
<1>5. \A p \in PaymentIDs : Accounted(p)' /\ WillConfirm(p)'
  BY <1>1, <1>2, <1>3, RowStays DEF IInv, WillConfirm
<1>6. PICK d \in Deliveries : pc[d] \notin {"idle", "done"}
  BY DEF Crash
<1>7. ConfirmOnce'
  BY <1>3, <1>4, OnceStays
<1> QED BY <1>3, <1>4, <1>5, <1>7 DEF IInv

LEMMA NextInv == IInv /\ [PayNext]_payVars => IInv'
<1> SUFFICES ASSUME IInv, [PayNext]_payVars PROVE IInv'
  OBVIOUS
<1>1. ASSUME NEW p \in PaymentIDs, Create(p) PROVE IInv'
  BY <1>1, CreateStep
<1>2. ASSUME NEW d \in Deliveries,
             \/ Deliver(d) \/ Find(d) \/ UpdateStatus(d) \/ Reread(d)
             \/ PublishUpdated(d) \/ PublishConfirmed(d) \/ StatementFails(d)
      PROVE  IInv'
  BY <1>2, DeliverStep, FindStep, UpdateStatusStep, RereadStep, PublishUpdatedStep,
     PublishConfirmedStep, StatementFailsStep
<1>3. CASE Crash
  BY <1>3, CrashStep
<1>4. CASE Finished \/ UNCHANGED payVars
  <2>1. UNCHANGED payVars
    BY <1>4 DEF Finished
  <2>2. PayTypes' /\ Grows /\ \A d \in Deliveries : Same(d)
    BY <2>1 DEF IInv, payVars, PayTypes, Grows, Same
  <2>3. \A d \in Deliveries : Knows(d)'
    BY <2>2, KnowsStays DEF IInv
  <2>4. \A d \in Deliveries : Confirms(d)' <=> Confirms(d)
    BY <2>2 DEF Same, Confirms, IsPaymentSuccess
  <2>5. \A p \in PaymentIDs : status'[p] = status[p] /\ interruptions' = interruptions
    BY <2>1 DEF payVars
  <2>6. \A p \in PaymentIDs : Accounted(p)'
    BY <2>2, <2>5, RowStays DEF IInv
  <2>7. ASSUME NEW p \in PaymentIDs PROVE WillConfirm(p)'
    <3>1. WillConfirm(p)
      BY DEF IInv
    <3>2. IsPaymentSuccess(status'[p]) => IsPaymentSuccess(status[p])
      BY <2>5
    <3> QED BY <2>2, <2>4, <2>5, <3>1, <3>2, StillConfirms DEF IInv
  <2>8. ConfirmOnce'
    <3>1. CASE Deliveries = {}
      BY <3>1 DEF ConfirmOnce, SuccessesFor
    <3>2. ASSUME NEW d \in Deliveries PROVE ConfirmOnce'
      BY <2>2, <2>4, OnceStays
    <3> QED BY <3>1, <3>2
  <2> QED BY <2>2, <2>3, <2>6, <2>7, <2>8 DEF IInv
<1> QED BY <1>1, <1>2, <1>3, <1>4 DEF PayNext

-----------------------------------------------------------------------------
(* The theorems.                                                              *)

\* The inductive invariant holds in every reachable state.
THEOREM Invariance == PaySpec => []IInv
  BY InitInv, NextInv, PTL DEF PaySpec

\* Every step keeps a settled payment settled.
LEMMA SettledStep ==
    ASSUME IInv, [PayNext]_payVars, NEW p \in PaymentIDs, IsPaymentSuccess(status[p])
    PROVE  IsPaymentSuccess(status'[p])
<1>1. PayTypes /\ status[p] # NULL
  BY Successes DEF IInv
<1>2. ASSUME NEW q \in PaymentIDs, Create(q) PROVE IsPaymentSuccess(status'[p])
  <2>1. q # p /\ status' = [status EXCEPT ![q] = "pending"]
    BY <1>1, <1>2 DEF Create, Store
  <2>2. status'[p] = status[p]
    BY <1>1, <2>1 DEF PayTypes
  <2> QED BY <2>2
<1>3. ASSUME NEW d \in Deliveries, UpdateStatus(d) \/ StatementFails(d)
      PROVE  IsPaymentSuccess(status'[p])
  <2>1. CASE UNCHANGED status
    BY <2>1
  <2>2. CASE ~UNCHANGED status
    <3>1. Takes(d)
      BY <1>3, <2>2 DEF UpdateStatus, StatementFails, Takes
    <3> QED BY <3>1, TakesRow DEF Grows
  <2> QED BY <2>1, <2>2
<1>4. ASSUME NEW d \in Deliveries,
             Deliver(d) \/ Find(d) \/ Reread(d) \/ PublishUpdated(d) \/ PublishConfirmed(d)
      PROVE  status' = status
  BY <1>4 DEF Deliver, Find, Reread, PublishUpdated, PublishConfirmed
<1>5. CASE Crash \/ Finished \/ UNCHANGED payVars
  BY <1>5 DEF Crash, Finished, payVars
<1> QED BY <1>2, <1>3, <1>4, <1>5 DEF PayNext

\* No delivery, race or retry takes a settled payment back (payment_service.go:140).
THEOREM SettledIsFinal == PaySpec => SettledStaysSettled
<1>1. IInv /\ [PayNext]_payVars =>
        [\A p \in PaymentIDs : IsPaymentSuccess(status[p]) => IsPaymentSuccess(status'[p])]_status
  BY SettledStep
<1> QED BY <1>1, Invariance, PTL DEF PaySpec, SettledStaysSettled

\* Announcements and confirmations are of statuses the row had, and a settled
\* payment is confirmed when nothing was cut short.
THEOREM AnnouncementsAreSettled == PaySpec => []AnnouncedIsSettled
<1>1. IInv => AnnouncedIsSettled
  <2> SUFFICES ASSUME IInv PROVE AnnouncedIsSettled
    OBVIOUS
  <2>1. ASSUME NEW d \in Deliveries
        PROVE  /\ updated[d] # NULL => updated[d] \in stored[PaymentOf(d)]
               /\ d \in confirmed => IsPaymentSuccess(status[PaymentOf(d)])
    BY DEF IInv, Knows, Confirms
  <2>2. ASSUME Quiet, interruptions = 0, NEW p \in PaymentIDs, IsPaymentSuccess(status[p])
        PROVE  \E d \in confirmed : PaymentOf(d) = p
    <3>1. PICK d \in Deliveries : PaymentOf(d) = p /\ Confirms(d)
      BY <2>2 DEF IInv, WillConfirm
    <3> QED BY <2>2, <3>1 DEF Quiet, Confirms
  <2> QED BY <2>1, <2>2 DEF AnnouncedIsSettled
<1> QED BY <1>1, Invariance, PTL

\* Deliveries of one success confirm once (payment_service.go:146-167).
THEOREM DuplicatesAreHarmless == PaySpec => []DuplicatesConfirmOnce
<1>1. IInv => DuplicatesConfirmOnce
  <2> SUFFICES ASSUME IInv, NEW p \in PaymentIDs,
                      Cardinality({NewStatus(d) : d \in SuccessesFor(p)}) = 1
               PROVE  Cardinality(confirmed \cap SuccessesFor(p)) <= 1
    BY DEF DuplicatesConfirmOnce
  <2> DEFINE reported == {NewStatus(d) : d \in SuccessesFor(p)}
  <2>1. IsFiniteSet(reported)
    <3>1. reported \subseteq SuccessStatuses
      BY DEF SuccessesFor, IsPaymentSuccess
    <3>2. IsFiniteSet(SuccessStatuses)
      <4>1. IsFiniteSet({"verified"})
        BY FS_Singleton
      <4>2. IsFiniteSet({"verified"} \cup {"paid"})
        BY <4>1, FS_AddElement
      <4>3. IsFiniteSet({"verified"} \cup {"paid"} \cup {"settlement"})
        BY <4>2, FS_AddElement
      <4>4. SuccessStatuses = {"verified"} \cup {"paid"} \cup {"settlement"}
        BY DEF SuccessStatuses
      <4> QED BY <4>3, <4>4
    <3> QED BY <3>1, <3>2, FS_Subset
  <2>2. PICK s : reported = {s}
    BY <2>1, FS_Singleton
  <2>3. ~Differ(p)
    BY <2>2 DEF Differ
  <2>4. \A d, e \in confirmed \cap SuccessesFor(p) : d = e
    BY <2>3 DEF IInv, ConfirmOnce, Confirms
  <2>5. CASE confirmed \cap SuccessesFor(p) = {}
    BY <2>5, FS_EmptySet
  <2>6. ASSUME NEW d \in confirmed \cap SuccessesFor(p)
        PROVE  Cardinality(confirmed \cap SuccessesFor(p)) <= 1
    <3>1. confirmed \cap SuccessesFor(p) = {d}
      BY <2>4
    <3> QED BY <3>1, FS_Singleton
  <2> QED BY <2>5, <2>6
<1> QED BY <1>1, Invariance, PTL
=============================================================================
