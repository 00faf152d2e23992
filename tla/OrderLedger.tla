---------------------------- MODULE OrderLedger ----------------------------
(***************************************************************************)
(* What the booking and guest services promise of the orders they accept,  *)
(* with requests, transactions, locks and failures left out: an order is   *)
(* entered at one instant, and a guest order is transferred at one instant.*)
(* GuestOrders implements this specification.                              *)
(***************************************************************************)
CONSTANTS Guests, Accounts, Shop, Orders, Keys, Contacts, Legacy, NULL

VARIABLE ledger   \* order id -> the order, or NULL before it is accepted

LedgerEntry ==
    [placed_by : Guests \cup Accounts, key : Keys, contact : SUBSET Contacts,
     owner : Accounts \cup {Shop}]

Entered(b) == ledger[b] # NULL

Entry(placer, key, contact, owner) ==
    [placed_by |-> placer, key |-> key, contact |-> contact, owner |-> owner]

Init ==
    \E old \in SUBSET Legacy, owner \in [Legacy -> Accounts], key \in [Legacy -> Keys] :
        ledger = [b \in Orders |->
            IF b \in old THEN Entry(b, key[b], {}, owner[b]) ELSE NULL]

\* A guest has one order, and no contact is used by two guest orders.
PlaceGuestOrder(b) ==
    /\ ~Entered(b)
    /\ \E g \in Guests, key \in Keys, contact \in SUBSET Contacts :
         /\ contact # {}
         /\ ledger' = [ledger EXCEPT ![b] = Entry(g, key, contact, Shop)]
         /\ \A a \in Orders : Entered(a) =>
              /\ ledger[a].placed_by # g
              /\ ledger[a].contact \cap contact = {}

\* An account has any number of bookings, one for each key.
PlaceBooking(b) ==
    /\ ~Entered(b)
    /\ \E u \in Accounts, key \in Keys :
         /\ ledger' = [ledger EXCEPT ![b] = Entry(u, key, {}, u)]
         /\ \A a \in Orders :
              Entered(a) => ~(ledger[a].placed_by = u /\ ledger[a].key = key)

\* A guest order is transferred to an account once.
Transfer(b) ==
    /\ Entered(b)
    /\ ledger[b].owner = Shop
    /\ \E u \in Accounts :
         ledger' = [ledger EXCEPT ![b] =
            Entry(ledger[b].placed_by, ledger[b].key, ledger[b].contact, u)]

Next == \E b \in Orders : PlaceGuestOrder(b) \/ PlaceBooking(b) \/ Transfer(b)

Spec == Init /\ [][Next]_ledger
=============================================================================
