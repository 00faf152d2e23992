---------------------------- MODULE ToolResults ----------------------------
(***************************************************************************)
(* What the AI service reads out of the tool results of one chat turn.     *)
(* A result is a record of the tool, its outcome and the orders it names,  *)
(* one at most.  Outcomes stand for the status and the fields of Data that *)
(* the service looks at:                                                   *)
(*   search  "initial", "alternative" (success), "conflict" (a package is  *)
(*           already selected), "failed"                                   *)
(*   select, info   "ok", "failed"                                         *)
(*   book    "created", "exists", "limit", "failed"                        *)
(*   status  "ok": the answer of check_order_status                        *)
(*   any     "duplicate": the success that answers a repeated call         *)
(***************************************************************************)
EXTENDS Naturals, Sequences

Result(tool, outcome) == [tool |-> tool, outcome |-> outcome, orders |-> {}]
OrderResult(tool, outcome, order) == [tool |-> tool, outcome |-> outcome, orders |-> {order}]

\* The status of the result is "success".
Succeeded(r) == r.outcome \in {"initial", "alternative", "ok", "created", "duplicate"}

Has(results, tool, outcomes) == \E i \in DOMAIN results :
    results[i].tool = tool /\ results[i].outcome \in outcomes

HasSearchTripsAlternative(results) == Has(results, "search", {"alternative"})

\* Mutant: the status is looked at, and not the success flag of the data.
HasSuccessfulCreateBooking_status(results) == \E i \in DOMAIN results :
    results[i].tool = "book" /\ Succeeded(results[i])
HasSuccessfulCreateBooking(results) == Has(results, "book", {"created"})

\* An informational tool succeeded; the answer to a repeated call counts.
HasSuccessfulInfoTool(results) == \E i \in DOMAIN results :
    results[i].tool = "info" /\ Succeeded(results[i])

FailedSearchTripsAlreadySelected(results) == Has(results, "search", {"conflict"})

GuestOrderLimitReached(results) == Has(results, "book", {"limit"})

\* The first successful search decides, and the answer to a repeated search
\* carries no packages.
ExtractRecommendedPackages(results) ==
    LET found == {i \in DOMAIN results : results[i].tool = "search" /\ Succeeded(results[i])} IN
    \E i \in found : results[i].outcome # "duplicate" /\ \A j \in found : i <= j

RecommendationStreamEvent(results) ==
    ExtractRecommendedPackages(results) /\ ~HasSuccessfulCreateBooking(results)

\* The last booking with one of the outcomes, if there is one.
LastBooked(results, outcomes) ==
    LET booked == {i \in DOMAIN results : results[i].tool = "book" /\ results[i].outcome \in outcomes} IN
    {results[i] : i \in {k \in booked : \A j \in booked : j <= k}}

\* Mutant: the last result decides.
ChatOrderGateFromToolResults_last(results) == LastBooked(results, {"created", "limit", "exists"})

\* The gate, if there is one: a created order before the guest limit before the
\* duplicate guard, and the last one of a kind.
ChatOrderGateFromToolResults(results) ==
    LET last(outcome) == LastBooked(results, {outcome}) IN
    IF last("created") # {} THEN last("created")
    ELSE IF last("limit") # {} THEN last("limit") ELSE last("exists")
=============================================================================
