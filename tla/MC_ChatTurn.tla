----------------------------- MODULE MC_ChatTurn -----------------------------
(* Workloads of ChatTurn for TLC; each brings about one part of the service. *)
EXTENDS ChatTurn

CONSTANT g1

Quiet == [turns |-> {1}, calls |-> {}, calls_max |-> 1, signed |-> {FALSE}, stream |-> {FALSE},
    guests |-> {g1}, cookies |-> {1}, histories |-> {<<>>}, limit |-> 100, clicks |-> {}, dying |-> {}, ticks |-> 0,
    faults |-> 0]

Booking == {Call("book", "p1"), Call("book", "p2")}

\* Two turns of one browser that book once, and one turn that books and fails.
Overlapping == [Quiet EXCEPT !.turns = {1, 2}, !.signed = BOOLEAN, !.calls = Booking, !.faults = 1]
Retrying == [Quiet EXCEPT !.signed = BOOLEAN, !.calls = Booking, !.calls_max = 3, !.faults = 2]

\* One streamed turn that searches, asks and selects, beside the page's buttons.
Selecting == [Quiet EXCEPT !.stream = {TRUE}, !.clicks = {"select"}, !.calls_max = 3,
    !.calls = {Call("search", "plain"), Call("search", "alternative"), Call("select", "p1"),
               Call("info", "p1")}]
Failing == [Selecting EXCEPT !.calls_max = 2, !.faults = 1, !.clicks = {}, !.stream = BOOLEAN,
    !.calls = {Call("search", "plain"), Call("select", "p1"), Call("status", "p1")}]

\* Two browsers that share a cookie, while sessions expire or an identity does.
Expiring == [Quiet EXCEPT !.turns = {1, 2}, !.clicks = {"history"}, !.ticks = 5]
Dying == [Quiet EXCEPT !.turns = {1, 2}, !.guests = Guests, !.dying = {g1}, !.calls = Booking]

\* Long conversations and a small budget.
Talking == [Quiet EXCEPT !.clicks = {"select"}, !.calls_max = 2, !.calls = {Call("info", "p1")}, !.limit = 8,
    !.histories = {<<"user", "assistant", "user", "assistant", "user", "assistant", "user", "assistant">>,
                   <<"assistant", "user", "system", "assistant", "user", "user", "assistant", "user", "assistant">>,
                   <<"user", "assistant", "user", "system", "assistant", "assistant", "user", "assistant">>}]

\* Trimming at once is the loop, in a first request and in one after a tool call.
Tails == {<<>>, <<"user", "assistant", "user", "assistant">>, <<"assistant", "user", "assistant", "assistant">>}
ASSUME TrimmingIsTheLoop ==
    \A n \in 0 .. 5, tail \in Tails, limit \in {2, 6, 8}, selected \in BOOLEAN :
    \A rows \in [1 .. n -> {"user", "assistant", "system"}] :
        LET first == BuildMessages(rows \o tail, selected)
            again == AppendMessage(TrimLoop(first, limit + 1), "tool")
        IN  /\ MessagesForRequest(first, limit) = TrimLoop(first, limit)
            /\ MessagesForRequest(again, limit) = TrimLoop(again, limit)

MCWorkloads == {Overlapping, Retrying, Selecting, Failing, Expiring, Dying, Talking}
MCPayloads == {<<c, p>> : c \in ChatIDs, p \in {"p1", "p2"}}
=============================================================================
