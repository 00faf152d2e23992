--------------------------- MODULE ContextBudget ---------------------------
(***************************************************************************)
(* The messages one chat turn sends to the AI provider, and how they are   *)
(* trimmed to the token budget.  A message is its role and a number that   *)
(* tells it apart; every message weighs one unit.                          *)
(***************************************************************************)
EXTENDS Naturals, Sequences, FiniteSets, SequencesExt

Roles == {"user", "assistant", "system"}
Message(role, id) == [role |-> role, id |-> id]

\* The system prompt, the persisted rows, and the prompt of this turn; msgs is
\* the list, start the index of the prompt, protected says a trip is selected.
BuildMessages(history, selected) ==
    LET rows == [i \in DOMAIN history |-> Message(history[i], i)] IN
    [msgs |-> <<Message("system", 0)>> \o rows \o <<Message("user", Len(history) + 1)>>,
     start |-> Len(history) + 2,
     protected |-> selected]

AppendMessage(c, role) == [c EXCEPT !.msgs = Append(@, Message(role, 0))]

EstimateContextTokens(c) == Len(c.msgs)

\* Mutant: the boundary is not moved back to the row of the user.
EligibleEnd_unaligned(c) == IF c.start > 6 THEN c.start - 4 ELSE 0

\* Four rows before the prompt are kept, and so is the part before them of the
\* user turn that they are in.
EligibleEnd(c) ==
    LET users == {i \in 3 .. c.start - 4 : c.msgs[i].role = "user"} IN
    IF users = {} THEN 0 ELSE CHOOSE i \in users : \A j \in users : j <= i

\* The rows that may go: those before the boundary that are not system rows.
Eligible(c) == {i \in 2 .. EligibleEnd(c) - 1 : c.msgs[i].role # "system"}

\* The list without the messages at some indices; those behind move up.
Rank(S, i) == Cardinality({j \in S : j <= i})
Place(S, k) == CHOOSE i \in S : Rank(S, i) = k
Without(c, gone) ==
    LET kept == DOMAIN c.msgs \ gone IN
    [c EXCEPT !.msgs = [k \in 1 .. Cardinality(kept) |-> c.msgs[Place(kept, k)]],
              !.start = @ - Cardinality({i \in gone : i < c.start})]

\* Whole turns go, the oldest first, until the list fits or nothing may go: a row
\* goes if the list is too long without the turns before that row's own.  A list
\* with a selected trip is left alone.
OlderThan(c, i) == {j \in Eligible(c) : \E u \in j + 1 .. i : c.msgs[u].role = "user"}
TooLong(c, limit) ==
    {i \in Eligible(c) : EstimateContextTokens(c) - Cardinality(OlderThan(c, i)) > limit}
MessagesForRequest(c, limit) == IF c.protected THEN c ELSE Without(c, TooLong(c, limit))

\* The same as the code goes about it, one turn after the other: from the first
\* row that may go up to the next row of a user.
OldestEligibleTurn(c) == {i \in Eligible(c) : OlderThan(c, i) = {}}
TrimLoop(c, limit) ==
    LET trim(d, m) == IF EstimateContextTokens(d) <= limit THEN d ELSE Without(d, OldestEligibleTurn(d))
    IN  IF c.protected THEN c ELSE FoldLeft(trim, c, c.msgs)
=============================================================================
