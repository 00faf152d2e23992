------------------------------ MODULE ChatTurn ------------------------------
(***************************************************************************)
(* Chat turns of the customer site: a request is bound to a chat session,  *)
(* the provider is asked in rounds, streamed or not, its tool calls are    *)
(* executed, and the answer is persisted.  An action is a database         *)
(* statement, a provider event or a step without either; turns interleave. *)
(* The orders are those of OrderLedger, what the booking service promises. *)
(*                                                                         *)
(* The provider and the customer are the environment: what they may ask    *)
(* for is the workload, chosen in the initial state.                       *)
(***************************************************************************)
EXTENDS ChatSessions, ToolResults, ContextBudget

CONSTANTS
    Turns, Account, Shop, Payloads, Contact,
    MaxToolCallRounds,
    Workloads
\* A workload: turns, the requests that come; calls, the tool calls the model
\* makes, at most calls_max in a turn; signed and stream, the kinds of request;
\* guests that send them, and the cookies they carry; histories, the rows of the
\* chat; limit, the token budget; clicks, what the page does beside the turns;
\* dying, the guests that may expire; ticks and faults, bounds on the clock and on
\* failures.

Call(tool, arg) == [tool |-> tool, arg |-> arg]

ASSUME ChatAssumption ==
    /\ MaxToolCallRounds \in Nat \ {0} /\ GuestSessionTTL \in Nat /\ Grace \in Nat
    /\ \A w \in Workloads :
         /\ w.turns \subseteq Turns /\ w.dying \cup w.guests \subseteq Guests
         /\ w.cookies \subseteq ChatIDs \cup {NULL}
         /\ w.signed \cup w.stream \subseteq BOOLEAN /\ w.clicks \subseteq {"select", "history"}
         /\ {w.limit, w.calls_max, w.ticks, w.faults} \subseteq Nat
         /\ w.histories \subseteq Seq(Roles)
         /\ \A call \in w.calls : call.tool \in {"search", "select", "info", "status", "book"}

\* A session lives for hours (GUEST_SESSION_TTL_HOURS), and the cleanup waits for
\* the seconds an answer of the provider may take and half a minute.
ASSUME GraceAssumption == Grace <= GuestSessionTTL

\* Ids, accounts and rows are of different types, and NULL is none of them.
ASSUME ChatNullAssumption ==
    /\ Account \notin Guests
    /\ NULL \notin ChatIDs \cup Guests \cup Orders \cup Turns \cup {Account}
    /\ NULL \notin ChatRow

VARIABLES
    ledger,   \* the orders
    origin,   \* the turn that entered each order
    turn,     \* the local state of each turn
    load,     \* the workload
    faults    \* failures so far

chatVars == <<sessionVars, ledger, origin, turn, load, faults>>

Ledger == INSTANCE OrderLedger
            WITH Accounts <- {Account}, Keys <- Payloads, Contacts <- {Contact}, Legacy <- {}

ASSUME EntryAssumption == NULL \notin Ledger!LedgerEntry

\* shown: text of the provider has reached the client (providerDeltaSent), in
\* this round (committed); after: the turns that were over when this one began.
NewTurn ==
    [pc |-> "idle", signed |-> FALSE, stream |-> FALSE, guest |-> NULL, chat |-> NULL, checked |-> 0,
     selected |-> FALSE, after |-> {}, cancelled |-> FALSE, history |-> <<>>, context |-> NULL,
     round |-> 1, tool |-> FALSE, committed |-> FALSE, shown |-> FALSE, offered |-> FALSE,
     called |-> {}, arg |-> NULL, owner |-> NULL, order |-> NULL, results |-> <<>>,
     answer |-> NULL, reply |-> "none"]

\* In its steps a turn t moves from its local state to another.
At(t, step) == turn[t].pc = step
Become(t, new) == turn' = [turn EXCEPT ![t] = new]
Goes(t, step) == Become(t, [turn[t] EXCEPT !.pc = step])

\* Only what was said is kept of a turn that is over.
Over(me, reply) == [NewTurn EXCEPT !.pc = "over", !.reply = reply, !.signed = me.signed, !.guest = me.guest,
    !.chat = me.chat, !.selected = me.selected, !.after = me.after, !.committed = me.committed,
    !.shown = me.shown, !.results = IF reply = "done" THEN me.results ELSE <<>>,
    !.answer = IF reply = "done" THEN me.answer ELSE NULL]

Active == {t \in Turns : turn[t].pc \notin {"idle", "over"}}

\* A statement works unless its client has gone or the database fails it.
Works(t) == ~turn[t].cancelled /\ UNCHANGED faults
Breaks(t) ==
    \/ turn[t].cancelled /\ UNCHANGED faults
    \/ faults < load.faults /\ faults' = faults + 1

Others == <<deleted, live, clock, cleaning, load>>
NoChat == UNCHANGED <<chat, Others>>
NoOrder == UNCHANGED <<ledger, origin>>

-----------------------------------------------------------------------------
(* The handler, and the statements before the model. *)

\* The session of the cookie, or a new one.
ResolveGuestSession(cookie) == IF Usable(cookie) THEN {cookie} ELSE Fresh

\* GuestChat: the session, and the guest identity.
Arrive(t) ==
    /\ At(t, "idle") /\ t \in load.turns
    /\ \E signed \in load.signed, stream \in load.stream, g \in load.guests \cap live, cookie \in load.cookies :
         \E c \in ResolveGuestSession(cookie) :
         /\ Become(t, [NewTurn EXCEPT !.pc = "attach", !.signed = signed, !.stream = stream, !.guest = g,
               !.chat = c, !.checked = clock, !.after = {u \in Turns : At(u, "over")}])
         /\ IF Usable(cookie) THEN UNCHANGED chat ELSE CreateChatSession(c, NULL)
    /\ UNCHANGED <<Others, faults>> /\ NoOrder

\* rebindGuestChatSession: a session of another identity is replaced by a new one.
RebindGuestChatSession(t) == \E c \in Fresh :
    /\ CreateChatSession(c, turn[t].guest)
    /\ Become(t, [turn[t] EXCEPT !.pc = "check", !.chat = c])

AttachChat(t) ==
    /\ At(t, "attach") /\ Works(t)
    /\ LET c == turn[t].chat
           g == turn[t].guest
       IN  IF MayBind(c, g)
           THEN Set(c, [chat[c] EXCEPT !.guest = g]) /\ Goes(t, "check")
           ELSE RebindGuestChatSession(t)
    /\ UNCHANGED Others /\ NoOrder

\* Chat and ChatStream read the session; one that is gone or over is refused.
Check(t) ==
    /\ At(t, "check") /\ Works(t)
    /\ LET c == turn[t].chat IN
       Become(t, IF Usable(c)
                 THEN [turn[t] EXCEPT !.pc = "prepare", !.checked = clock, !.selected = chat[c].selected]
                 ELSE Over(turn[t], "error"))
    /\ NoChat /\ NoOrder

\* A statement of the handler or the check fails.
RefuseEarly(t) ==
    /\ turn[t].pc \in {"attach", "check"} /\ Breaks(t)
    /\ Become(t, Over(turn[t], "error"))
    /\ NoChat /\ NoOrder

\* The list is trimmed for every request; the final round has no tools.
Asks(me) == [me EXCEPT !.pc = IF me.stream THEN "stream" ELSE "generate",
    !.context = MessagesForRequest(@, load.limit), !.tool = FALSE, !.committed = FALSE]

\* prepareChatPreLLM slides the session and stores the prompt, at once, and waits
\* for both; when either fails the other may have been done.  Then buildMessages,
\* on whatever rows the chat has.
Prepare(t) ==
    /\ At(t, "prepare")
    /\ \/ /\ Works(t)
          /\ UpdateChatSessionActivity(turn[t].chat, turn[t].checked + GuestSessionTTL)
          /\ \E h \in load.histories : Become(t, Asks([turn[t] EXCEPT !.history = h,
                !.context = BuildMessages(h, turn[t].selected)]))
       \/ /\ Breaks(t)
          /\ UNCHANGED chat \/ UpdateChatSessionActivity(turn[t].chat, turn[t].checked + GuestSessionTTL)
          /\ Become(t, Over(turn[t], "error"))
    /\ UNCHANGED Others /\ NoOrder

-----------------------------------------------------------------------------
(* The rounds with the provider. *)

FinalRound(t) == turn[t].round > MaxToolCallRounds

\* A chunk of the stream: the tool fragments are classified before its text, and
\* text after a classification is not shown, except in the final round.
StreamChunk(t) ==
    /\ At(t, "stream") /\ ~turn[t].cancelled
    /\ \E fragment, text \in BOOLEAN :
         LET tool == turn[t].tool \/ (fragment /\ ~FinalRound(t))
             shows == text /\ ~tool
         IN  Become(t, [turn[t] EXCEPT !.tool = tool, !.committed = @ \/ shows, !.shown = @ \/ shows])
    /\ UNCHANGED faults /\ NoChat /\ NoOrder

Answer(text, claim, options) == [text |-> text, claim |-> claim, options |-> options, recs |-> FALSE]

\* The model's last text becomes the answer; it may claim an order was made and
\* may mention the options of a selection.  The client puts a text of its own for
\* an empty one, unless the model calls tools in the final round.
Finishes(t, source) ==
    \E claim \in {FALSE} \cup {c.tool = "book" : c \in load.calls},
       options \in {FALSE} \cup {c.tool = "search" : c \in load.calls},
       text \in {source} \cup IF FinalRound(t) /\ ~turn[t].committed THEN {"empty"} ELSE {} :
         /\ text = "empty" => ~claim /\ ~options
         /\ Become(t, [turn[t] EXCEPT !.pc = "finalize", !.answer = Answer(text, claim, options)])

\* The response of a round, from source: tool calls, or text.
Responds(t, source, calls) ==
    IF calls /\ ~FinalRound(t) /\ Len(turn[t].results) < load.calls_max
    THEN Become(t, [turn[t] EXCEPT !.pc = "tools", !.context = AppendMessage(@, "assistant")])
    ELSE Finishes(t, source)

\* [DONE] or a finish reason; fragments without a function name are no calls.
StreamEnds(t) ==
    /\ At(t, "stream") /\ ~turn[t].cancelled
    /\ \E calls \in {FALSE, turn[t].tool} : Responds(t, "stream", calls)
    /\ UNCHANGED faults /\ NoChat /\ NoOrder

\* The error of the tool loop: a stream that was cancelled or has shown text ends
\* there, any other turn apologizes.
Fails(t) == Become(t,
    IF turn[t].stream /\ (turn[t].cancelled \/ turn[t].shown) THEN Over(turn[t], "error")
    ELSE [turn[t] EXCEPT !.pc = "finalize",
            !.answer = Answer("apology", FALSE, TRUE)])

\* Mutant: a broken stream is always asked for again.
StreamBreaks_again(t) ==
    /\ At(t, "stream")
    /\ IF FinalRound(t) \/ turn[t].cancelled THEN Fails(t) ELSE Goes(t, "generate")
    /\ UNCHANGED faults /\ NoChat /\ NoOrder

\* An error event, an end without [DONE], a timeout or a cancelled read.
StreamBreaks(t) ==
    /\ At(t, "stream")
    /\ IF FinalRound(t) \/ turn[t].committed \/ turn[t].cancelled THEN Fails(t) ELSE Goes(t, "generate")
    /\ UNCHANGED faults /\ NoChat /\ NoOrder

\* Generate: the whole response at once, also as the fallback of a stream.
Generate(t) ==
    /\ At(t, "generate")
    /\ \/ ~turn[t].cancelled /\ \E calls \in BOOLEAN : Responds(t, "generate", calls)
       \/ Fails(t)
    /\ UNCHANGED faults /\ NoChat /\ NoOrder

-----------------------------------------------------------------------------
(* The tool calls of a round, one after another.  They are at most            *)
(* load.calls_max in a turn.                                                  *)

\* The result of a call is kept and told the model.
Returned(me, r) == [me EXCEPT !.pc = "more", !.arg = NULL, !.owner = NULL, !.order = NULL,
    !.results = Append(@, r), !.context = AppendMessage(@, "tool")]

\* executeToolCall: a booking after the guest limit is refused, and a call that
\* was made before is answered, without a statement.
Blocked(t, call) == call.tool = "book" /\ GuestOrderLimitReached(turn[t].results)

MayCall(t) == turn[t].pc \in {"tools", "more"} /\ Len(turn[t].results) < load.calls_max

Repeated(t) ==
    /\ MayCall(t)
    /\ \E call \in load.calls :
         \/ Blocked(t, call) /\ Become(t, Returned(turn[t], Result("book", "limit")))
         \/ ~Blocked(t, call) /\ call \in turn[t].called /\ Become(t, Returned(turn[t], Result(call.tool, "duplicate")))
    /\ UNCHANGED faults /\ NoChat /\ NoOrder

\* Any other call is noted, and its first statement is executed.
NewCalls(t, tool) == {call \in load.calls :
    MayCall(t) /\ call.tool = tool /\ call \notin turn[t].called /\ ~Blocked(t, call)}
Noted(t, call) == [turn[t] EXCEPT !.called = @ \cup {call}, !.arg = call.arg]
Returns(t, call, outcome) == Become(t, Returned(Noted(t, call), Result(call.tool, outcome)))

\* All calls of the round are made; a stream offers its recommendations once.
NextRound(t) ==
    /\ At(t, "more")
    /\ Become(t, Asks([turn[t] EXCEPT !.round = @ + 1,
          !.offered = @ \/ (turn[t].stream /\ RecommendationStreamEvent(turn[t].results))]))
    /\ UNCHANGED faults /\ NoChat /\ NoOrder

\* search_trips: a plain search is refused once a package is selected.
ExecuteSearchTrips(t) ==
    /\ \E call \in NewCalls(t, "search") :
         LET c == turn[t].chat IN
         \/ Works(t) /\ Returns(t, call, IF ~Exists(c) THEN "failed"
                                         ELSE IF call.arg = "alternative" THEN "alternative"
                                         ELSE IF chat[c].selected THEN "conflict" ELSE "initial")
         \/ Breaks(t) /\ Returns(t, call, "failed")
    /\ NoChat /\ NoOrder

\* The tools that read the catalogue; an argument of the model may be refused.
ExecuteInfo(t) ==
    /\ \E call \in NewCalls(t, "info") :
         \/ Works(t) /\ Returns(t, call, "ok")
         \/ UNCHANGED faults /\ Returns(t, call, "failed")
    /\ NoChat /\ NoOrder

\* select_package reads the session; the selection is stored by a second statement.
ExecuteSelectPackage(t) ==
    /\ \E call \in NewCalls(t, "select") :
         \/ Works(t) /\ Usable(turn[t].chat) /\ Become(t, [Noted(t, call) EXCEPT !.pc = "select"])
         \/ Works(t) /\ ~Usable(turn[t].chat) /\ Returns(t, call, "failed")
         \/ Breaks(t) /\ Returns(t, call, "failed")
    /\ NoChat /\ NoOrder

StoreSelection(t) ==
    /\ At(t, "select")
    /\ \/ /\ Works(t) /\ UpdateChatSessionSelectedTrip(turn[t].chat)
          /\ Become(t, Returned(turn[t], Result("select", "ok")))
       \/ /\ Breaks(t) /\ UNCHANGED chat
          /\ Become(t, Returned(turn[t], Result("select", "failed")))
    /\ UNCHANGED Others /\ NoOrder

\* findSessionOrder: no order is found when the rows cannot be read, or when the
\* marker is not among the newest 200, which counts as a fault here.
FindSessionOrder(t) ==
    IF Exists(turn[t].chat) /\ chat[turn[t].chat].marker # NULL THEN {chat[turn[t].chat].marker} ELSE {}

\* check_order_status.
ExecuteCheckOrderStatus(t) ==
    /\ \E call \in NewCalls(t, "status") :
         LET told(orders) == Become(t, Returned(Noted(t, call), [Result("status", "ok") EXCEPT !.orders = orders])) IN
         \/ Works(t) /\ told(FindSessionOrder(t))
         \/ Breaks(t) /\ told({})
    /\ NoChat /\ NoOrder

\* Mutant: the guard is for guests.
ExecuteCreateBooking_guests(t) ==
    /\ \E call \in NewCalls(t, "book") :
         LET passes == Become(t, [Noted(t, call) EXCEPT !.pc = "owner"])
             found == IF turn[t].signed THEN {} ELSE FindSessionOrder(t)
         IN  Works(t) /\ (\/ \E b \in found : Become(t, Returned(Noted(t, call), OrderResult("book", "exists", b)))
                          \/ found = {} /\ passes)
    /\ NoChat /\ NoOrder

\* create_booking: the duplicate guard, and the checks of the arguments.
ExecuteCreateBooking(t) ==
    /\ \E call \in NewCalls(t, "book") :
         LET passes == Become(t, [Noted(t, call) EXCEPT !.pc = "owner"]) IN
         \/ /\ Works(t)
            /\ \/ \E b \in FindSessionOrder(t) : Become(t, Returned(Noted(t, call), OrderResult("book", "exists", b)))
               \/ FindSessionOrder(t) = {} /\ (passes \/ Returns(t, call, "failed"))
         \/ Breaks(t) /\ passes
    /\ NoChat /\ NoOrder

\* The account, or the live guest that the session is bound to.
ReadOwner(t) ==
    /\ At(t, "owner")
    /\ LET c == turn[t].chat
           owner == IF turn[t].signed THEN Account ELSE IF Exists(c) THEN chat[c].guest ELSE NULL
           refused == Become(t, Returned(turn[t], Result("book", "failed")))
       IN  \/ Works(t) /\ owner \in live \cup {Account} /\ Become(t, [turn[t] EXCEPT !.pc = "place", !.owner = owner])
           \/ Works(t) /\ owner \notin live \cup {Account} /\ refused
           \/ Breaks(t) /\ refused
    /\ NoChat /\ NoOrder

\* The idempotency key of a call: the chat session and the arguments.
Key(t) == <<turn[t].chat, turn[t].arg>>
Replay(t) == {b \in Orders : ledger[b] # NULL /\ ledger[b].placed_by = turn[t].owner /\ ledger[b].key = Key(t)}

\* Ids are given in any order; the first that is free stands for all.
NextOrder == {b \in Orders : ledger[b] = NULL /\ \A a \in Orders : ledger[a] = NULL => b <= a}

\* The order is entered at one instant, which is all that OrderLedger promises.
Enters(t, b) ==
    /\ IF turn[t].owner = Account THEN Ledger!PlaceBooking(b) ELSE Ledger!PlaceGuestOrder(b)
    /\ ledger'[b].placed_by = turn[t].owner /\ ledger'[b].key = Key(t)
    /\ origin' = [origin EXCEPT ![b] = t]

\* A guest that has ordered, or a contact that was used, is told to sign in.
Spent(t) == turn[t].owner # Account /\ \E b \in Orders : ledger[b] # NULL /\ ledger[b].placed_by # Account

Placed(t, b) == Become(t, [turn[t] EXCEPT !.pc = "mark", !.order = b])

\* BookingService: an earlier order of the key, the limit, or a new order; a
\* guest that died is refused, and a transaction that breaks may have committed.
PlaceOrder(t) ==
    /\ At(t, "place")
    /\ LET told(outcome) == Become(t, Returned(turn[t], Result("book", outcome)))
           alive == turn[t].owner \in live \cup {Account}
       IN  \/ Works(t) /\ \E b \in Replay(t) : Placed(t, b) /\ NoOrder
           \/ Works(t) /\ Replay(t) = {} /\ alive /\ Spent(t) /\ told("limit") /\ NoOrder
           \/ Works(t) /\ Replay(t) = {} /\ alive /\ \E b \in NextOrder : Enters(t, b) /\ Placed(t, b)
           \/ Works(t) /\ Replay(t) = {} /\ ~alive /\ told("failed") /\ NoOrder
           \/ Breaks(t) /\ told("failed") /\ (NoOrder \/ (alive /\ \E b \in NextOrder : Enters(t, b)))
    /\ NoChat

\* The order marker is best effort.
WriteMarker(t) ==
    /\ At(t, "mark")
    /\ \/ Works(t) /\ AddOrderMarker(turn[t].chat, turn[t].order)
       \/ Breaks(t) /\ UNCHANGED chat
    /\ Become(t, Returned(turn[t], OrderResult("book", "created", turn[t].order)))
    /\ UNCHANGED Others /\ NoOrder

-----------------------------------------------------------------------------
(* finalizeChat. *)

\* An order is claimed that no result of this turn reports.
ClaimGuard(answer, results) ==
    IF answer.claim /\ ~HasSuccessfulCreateBooking(results) THEN Answer("blocked", FALSE, FALSE) ELSE answer

\* A search was refused, and the answer neither says so nor answers something else.
SelectedBackstop(answer, results) ==
    IF /\ FailedSearchTripsAlreadySelected(results) /\ ~answer.options
       /\ ~HasSuccessfulInfoTool(results) /\ ~HasSearchTripsAlternative(results)
    THEN Answer("conflict", FALSE, TRUE) ELSE answer

Guarded(answer, results) == SelectedBackstop(ClaimGuard(answer, results), results)

\* Mutant: the selection that was read before the model ran is used.
FinalizeChat_stale(t) ==
    /\ At(t, "finalize") /\ Works(t)
    /\ LET results == turn[t].results
           recs == ExtractRecommendedPackages(results) /\ ~HasSuccessfulCreateBooking(results)
                   /\ (~turn[t].selected \/ HasSearchTripsAlternative(results))
       IN  Become(t, [turn[t] EXCEPT !.pc = "persist", !.answer = [Guarded(@, results) EXCEPT !.recs = recs]])
    /\ NoChat /\ NoOrder

\* The session is read again; when it cannot be read nothing is recommended.
FinalizeChat(t) ==
    /\ At(t, "finalize")
    /\ LET results == turn[t].results
           c == turn[t].chat
           known(k) == \/ Works(t) /\ k = Exists(c)
                       \/ Breaks(t) /\ k = FALSE
           recs == ExtractRecommendedPackages(results) /\ ~HasSuccessfulCreateBooking(results)
                   /\ (~chat[c].selected \/ HasSearchTripsAlternative(results))
       IN  \E k \in BOOLEAN : known(k) /\ Become(t, [turn[t] EXCEPT !.pc = "persist",
                !.answer = [Guarded(@, results) EXCEPT !.recs = k /\ recs]])
    /\ NoChat /\ NoOrder

\* The answer is a row of the chat before it is the reply.
Persist(t) ==
    /\ At(t, "persist")
    /\ \/ Works(t) /\ Become(t, Over(turn[t], "done"))
       \/ Breaks(t) /\ Become(t, Over(turn[t], "error"))
    /\ NoChat /\ NoOrder

-----------------------------------------------------------------------------
(* What happens beside the steps of the turns. *)

\* The client goes away; it is seen by the next statement or read.
Cancel(t) ==
    /\ t \in Active /\ ~turn[t].cancelled /\ faults < load.faults
    /\ Become(t, [turn[t] EXCEPT !.cancelled = TRUE])
    /\ faults' = faults + 1
    /\ NoChat /\ NoOrder

\* Time passes, up to load.ticks: a turn slides its session within Grace of the
\* moment it was read, and is over before that session expires.
Passes ==
    /\ clock < load.ticks
    /\ \A t \in Active : clock < turn[t].checked + (IF turn[t].pc \in {"attach", "check", "prepare"}
                                                    THEN Grace ELSE GuestSessionTTL)
    /\ Tick

Beside == UNCHANGED <<ledger, origin, turn, load, faults>>

Cleanup == (CleanupSelects \/ CleanupDeletes \/ CleanupFails) /\ Beside
SelectClick == "select" \in load.clicks /\ (\E c \in ChatIDs : GuestSelectPackage(c)) /\ Beside
HistoryLoad == "history" \in load.clicks /\ (\E c \in ChatIDs : GuestHistory(c)) /\ Beside
IdentityExpires == (\E g \in load.dying : ExpireGuest(g)) /\ Beside
TimePasses == Passes /\ Beside

Steps(t) ==
    \/ AttachChat(t) \/ Check(t) \/ RefuseEarly(t) \/ Prepare(t)
    \/ StreamEnds(t) \/ StreamBreaks(t) \/ Generate(t) \/ Repeated(t) \/ NextRound(t)
    \/ ExecuteSearchTrips(t) \/ ExecuteInfo(t) \/ ExecuteSelectPackage(t) \/ StoreSelection(t)
    \/ ExecuteCheckOrderStatus(t) \/ ExecuteCreateBooking(t) \/ ReadOwner(t) \/ PlaceOrder(t)
    \/ WriteMarker(t) \/ FinalizeChat(t) \/ Persist(t)

Init ==
    /\ SessionsInit
    /\ ledger = [b \in Orders |-> NULL]
    /\ origin = [b \in Orders |-> NULL]
    /\ turn = [t \in Turns |-> NewTurn]
    /\ load \in Workloads
    /\ faults = 0

Next ==
    \/ \E t \in Turns : Arrive(t) \/ StreamChunk(t) \/ Steps(t) \/ Cancel(t)
    \/ Cleanup \/ SelectClick \/ HistoryLoad \/ IdentityExpires \/ TimePasses

Spec == Init /\ [][Next]_chatVars

-----------------------------------------------------------------------------
(* Properties. *)

Answered(t) == turn[t].reply = "done"
PlacedIn(t) == {b \in Orders : origin[b] = t}
ToldCreated(t) == {i \in DOMAIN turn[t].results : turn[t].results[i].outcome = "created"}

\* An answer that says an order was made was persisted only after an order of this
\* conversation was entered for this caller, whatever the model wrote.
ClaimsAreTrue == \A t \in Turns : Answered(t) /\ turn[t].answer.claim =>
    \E b \in Orders : /\ ledger[b] # NULL /\ ledger[b].key[1] = turn[t].chat
                      /\ (ledger[b].placed_by = Account) = turn[t].signed

\* The order gate of the page: when nothing failed a turn that entered an order
\* announces that order; and no turn is told to sign in and given an order after.
GateTellsTheLedger ==
    /\ \A t \in Turns : Answered(t) /\ faults = 0 /\ PlacedIn(t) # {} =>
         \E gate \in ChatOrderGateFromToolResults(turn[t].results) :
            gate.outcome = "created" /\ gate.orders = PlacedIn(t)
    /\ \A t \in Turns : \A i \in ToldCreated(t) : \A j \in 1 .. i :
         turn[t].results[j].outcome # "limit"

\* While nothing fails, two orders of one conversation were entered by two turns
\* that overlapped: neither began after the other was over.
OneOrderPerConversation == faults = 0 =>
    \A a, b \in Orders : (a # b /\ ledger[a] # NULL /\ ledger[b] # NULL /\ ledger[a].key[1] = ledger[b].key[1]) =>
        /\ origin[a] # origin[b]
        /\ origin[a] \notin turn[origin[b]].after /\ origin[b] \notin turn[origin[a]].after

\* A turn that selected a package, or found one selected, recommends packages only
\* after a search for alternatives.
NoRecommendationAfterSelection == \A t \in Turns :
    (Answered(t) /\ turn[t].answer.recs /\ ~HasSearchTripsAlternative(turn[t].results)) =>
        ~turn[t].selected /\ ~Has(turn[t].results, "select", {"ok"})

\* Text the client has seen in the last round is the text of the answer or was
\* replaced by a guard: never repeated by a second request, never an apology.
PartialAnswerIsFinal == \A t \in Turns : Answered(t) =>
    /\ turn[t].committed => turn[t].answer.text \in {"stream", "blocked", "conflict"}
    /\ turn[t].shown => turn[t].answer.text # "apology"

\* A session that a turn found usable is not deleted under that turn.
LiveChatsSurvive == \A t \in Active :
    turn[t].pc \notin {"attach", "check"} => Exists(turn[t].chat)

\* A guest order belongs to the identity that sent the request, unless that
\* identity is dead and its conversation was taken over.
GuestOrdersAreTheCallers == \A b \in Orders :
    (ledger[b] # NULL /\ ledger[b].placed_by # Account) =>
        turn[origin[b]].guest \in {ledger[b].placed_by} \cup (Guests \ live)

\* What a request to the provider always holds: every system row, the four rows
\* before the prompt, the prompt and the tool messages of this turn, and no row of
\* an older turn without the user's row that began it.
ContextKeepsTheTurn == \A t \in Turns : turn[t].pc \in {"stream", "generate"} =>
    LET c == turn[t].context
        h == turn[t].history
        kept == {c.msgs[i].id : i \in 2 .. c.start}
        rows == DOMAIN h
        began(i) == {j \in rows : j <= i /\ h[j] = "user" /\ \A k \in j + 1 .. i : h[k] # "user"}
    IN  /\ c.msgs[1].role = "system"
        /\ c.msgs[c.start] = Message("user", Len(h) + 1)
        /\ Len(c.msgs) - c.start = Len(turn[t].results) + turn[t].round - 1
        /\ {i \in rows : h[i] = "system" \/ i > Len(h) - 4 \/ turn[t].selected} \subseteq kept
        /\ \A i \in kept \cap rows : h[i] # "system" => began(i) \subseteq kept
=============================================================================
