-------------------------- MODULE BookingWorkflow --------------------------
(***************************************************************************)
(* The status of one booking: the backoffice consoles that show it and ask *)
(* for the next one, and BookingService.UpdateStatus that serves them.     *)
(*                                                                         *)
(* A console acts on the status its screen shows, which may be out of      *)
(* date: a list is answered with the status at one moment and reaches the  *)
(* screen at another, in any order.  A call is one PUT /bookings/:id; each *)
(* of its steps at the service is one statement or the publication.        *)
(*                                                                         *)
(* passed, toasts and announced are history.                               *)
(***************************************************************************)
EXTENDS Naturals, FiniteSets

CONSTANTS
    Staff,             \* consoles
    Calls,             \* status updates asked for
    MaxInterruptions,  \* bound on statements that fail after the status has changed
    NULL

Statuses == {"pending", "processing", "confirmed", "completed", "cancelled"}

Terminal == {"completed", "cancelled"}

ASSUME WorkflowAssumption ==
    /\ Staff \cap Calls = {}
    /\ MaxInterruptions \in Nat
    /\ NULL \notin Statuses

VARIABLES
    status,     \* booking_status
    passed,     \* every status the booking has had
    screen,     \* the status each console shows, NULL before the first list
    busy,       \* busyId is this booking: its buttons are disabled
    candidate,  \* the cancel dialog of the console is open
    call,       \* who asked for what, and what the service read
    pc,         \* the step each call takes next at the service
    waiting,    \* calls whose console still waits for the answer
    load,       \* the list each console asked for last, and the one after each call
    toasts,     \* targets that a console was told were reached
    announced,  \* statuses published in booking_created and booking_updated
    interruptions

consoleVars == <<screen, busy, candidate, waiting, load, toasts>>
serviceVars == <<status, passed, announced, interruptions>>
flowVars == <<status, passed, screen, busy, candidate, call, pc, waiting, load, toasts,
              announced, interruptions>>

\* Lists are named by the console that opened the page or by the call that was
\* followed by one.
Lists == Staff \cup Calls

Call == [staff : Staff, target : Statuses, read : Statuses \cup {NULL}]

\* The pages are opened on a booking that earlier calls have brought this far.
Stages == {{"pending"}, {"pending", "processing"}, {"pending", "processing", "confirmed"}}

FlowInit ==
    /\ passed \in Stages
    /\ status = CASE "confirmed" \in passed -> "confirmed"
                  [] "processing" \in passed -> "processing"
                  [] OTHER -> "pending"
    /\ announced = passed
    /\ screen = [s \in Staff |-> NULL]
    /\ busy = [s \in Staff |-> FALSE]
    /\ candidate = [s \in Staff |-> FALSE]
    /\ call = [c \in Calls |-> NULL]
    /\ pc = [c \in Calls |-> "idle"]
    /\ waiting = {}
    /\ load = [l \in Lists |-> IF l \in Staff THEN "asked" ELSE "none"]
    /\ toasts = {}
    /\ interruptions = 0

\* bookingStatusTransitions; a status that is not a key has no successor.
Transitions ==
    [pending |-> {"processing", "confirmed", "cancelled"},
     processing |-> {"confirmed", "cancelled"},
     confirmed |-> {"completed", "cancelled"},
     completed |-> {},
     cancelled |-> {}]

CanTransitionTo(from, target) == target \in Transitions[from]

\* Mutant: a console offers to confirm a new order.
NextStatus_skip == [pending |-> "confirmed", processing |-> "confirmed", confirmed |-> "completed"]

\* nextStatus of the orders panel.
NextStatus == [pending |-> "processing", processing |-> "confirmed", confirmed |-> "completed"]

-----------------------------------------------------------------------------
\* Consoles.

Ask(c, s, target) ==
    /\ pc[c] = "idle"
    /\ call' = [call EXCEPT ![c] = [staff |-> s, target |-> target, read |-> NULL]]
    /\ pc' = [pc EXCEPT ![c] = "find"]
    /\ waiting' = waiting \cup {c}
    /\ busy' = [busy EXCEPT ![s] = TRUE]
    /\ UNCHANGED <<serviceVars, screen, candidate, load, toasts>>

\* handleAdvance, from the button of a card or of the drawer.
HandleAdvance(c, s) ==
    /\ screen[s] \in DOMAIN NextStatus
    /\ ~busy[s]
    /\ Ask(c, s, NextStatus[screen[s]])

\* requestCancel opens a dialog that keeps the order as it was shown then.
RequestCancel(s) ==
    /\ screen[s] \notin Terminal \cup {NULL}
    /\ ~busy[s] /\ ~candidate[s]
    /\ candidate' = [candidate EXCEPT ![s] = TRUE]
    /\ UNCHANGED <<serviceVars, call, pc, screen, busy, waiting, load, toasts>>

HandleCancel(c, s) ==
    /\ candidate[s]
    /\ ~busy[s]
    /\ Ask(c, s, "cancelled")

\* The dialog is closed without cancelling.
Back(s) ==
    /\ candidate[s]
    /\ ~busy[s]
    /\ candidate' = [candidate EXCEPT ![s] = FALSE]
    /\ UNCHANGED <<serviceVars, call, pc, screen, busy, waiting, load, toasts>>

\* busyId names one order: acting on another one frees the buttons of this one.
WorkOnOtherOrder(s) ==
    /\ busy[s]
    /\ busy' = [busy EXCEPT ![s] = FALSE]
    /\ UNCHANGED <<serviceVars, call, pc, screen, candidate, waiting, load, toasts>>

ListOwner(l) == IF l \in Staff THEN l ELSE call[l].staff

\* GET /bookings is answered with the status at that moment.
AnswerList(l) ==
    /\ load[l] = "asked"
    /\ load' = [load EXCEPT ![l] = status]
    /\ UNCHANGED <<serviceVars, call, pc, screen, busy, candidate, waiting, toasts>>

\* Whatever list arrives last is what the screen shows.
ListArrives(l) ==
    /\ load[l] \in Statuses
    /\ screen' = [screen EXCEPT ![ListOwner(l)] = load[l]]
    /\ load' = [load EXCEPT ![l] = "none"]
    /\ UNCHANGED <<serviceVars, call, pc, busy, candidate, waiting, toasts>>

ListFails(l) ==
    /\ load[l] = "asked"
    /\ load' = [load EXCEPT ![l] = "none"]
    /\ UNCHANGED <<serviceVars, call, pc, screen, busy, candidate, waiting, toasts>>

\* The page is opened again, or its retry button pressed.
Reload(s) ==
    /\ load[s] = "none"
    /\ load' = [load EXCEPT ![s] = "asked"]
    /\ UNCHANGED <<serviceVars, call, pc, screen, busy, candidate, waiting, toasts>>

\* The answer of an update reaches its console: a success shows what the service
\* returned, says that the target was reached and loads the list again.
AnswerArrives(c) ==
    /\ c \in waiting
    /\ pc[c] \in {"ok", "error"}
    /\ LET s == call[c].staff IN
         /\ IF pc[c] = "ok"
            THEN /\ screen' = [screen EXCEPT ![s] = call[c].read]
                 /\ toasts' = toasts \cup {call[c].target}
                 /\ candidate' = [candidate EXCEPT ![s] = @ /\ call[c].target # "cancelled"]
                 /\ load' = [load EXCEPT ![c] = "asked"]
            ELSE UNCHANGED <<screen, toasts, candidate, load>>
         /\ busy' = [busy EXCEPT ![s] = FALSE]
    /\ waiting' = waiting \ {c}
    /\ UNCHANGED <<serviceVars, call, pc>>

\* Mutant: busyId is only reset when an answer arrives.
AnswerLost_busy(c) ==
    /\ c \in waiting
    /\ waiting' = waiting \ {c}
    /\ UNCHANGED <<serviceVars, call, pc, screen, busy, candidate, load, toasts>>

\* The console gives up on an answer; the service goes on.
AnswerLost(c) ==
    /\ c \in waiting
    /\ waiting' = waiting \ {c}
    /\ busy' = [busy EXCEPT ![call[c].staff] = FALSE]
    /\ UNCHANGED <<serviceVars, call, pc, screen, candidate, load, toasts>>

-----------------------------------------------------------------------------
\* The service.

Goes(c, step) == pc' = [pc EXCEPT ![c] = step]
Reads(c) == call' = [call EXCEPT ![c].read = status]

\* An error is answered without the booking.
Refuse(c) == Goes(c, "error") /\ call' = [call EXCEPT ![c].read = NULL]

\* UpdateStatus reads the booking and checks the transition against it.
Find(c) ==
    /\ pc[c] = "find"
    /\ \/ status = call[c].target /\ Reads(c) /\ Goes(c, "ok")
       \/ CanTransitionTo(status, call[c].target) /\ Reads(c) /\ Goes(c, "update")
       \/ status # call[c].target /\ ~CanTransitionTo(status, call[c].target) /\ Refuse(c)
    /\ UNCHANGED <<serviceVars, consoleVars>>

Becomes(s) ==
    /\ status' = s
    /\ passed' = passed \cup {s}

\* Mutant: the UPDATE has no status in its WHERE clause.
UpdateBookingStatus_blind(c) ==
    /\ pc[c] = "update"
    /\ Becomes(call[c].target)
    /\ Goes(c, "refetch")
    /\ UNCHANGED <<announced, interruptions, call, consoleVars>>

\* UpdateBookingStatusAtomic; the loser of a race is answered with an error.
UpdateBookingStatus(c) ==
    /\ pc[c] = "update"
    /\ IF status = call[c].read
       THEN Becomes(call[c].target) /\ Goes(c, "refetch") /\ UNCHANGED call
       ELSE Refuse(c) /\ UNCHANGED <<status, passed>>
    /\ UNCHANGED <<announced, interruptions, consoleVars>>

\* Mutant: the booking that was read before the update is returned.
Refetch_stale(c) ==
    /\ pc[c] = "refetch"
    /\ Goes(c, "publish")
    /\ UNCHANGED <<serviceVars, call, consoleVars>>

\* The booking is read once more: it may have moved on already.
Refetch(c) ==
    /\ pc[c] = "refetch"
    /\ Reads(c)
    /\ Goes(c, "publish")
    /\ UNCHANGED <<serviceVars, consoleVars>>

\* A statement fails, or the process dies: the answer is an error and nothing is
\* published, although the status may have changed.
ServiceFails(c) ==
    /\ pc[c] \in {"find", "update", "refetch", "publish"}
    /\ interruptions < MaxInterruptions
    /\ interruptions' = interruptions + 1
    /\ Refuse(c)
    /\ UNCHANGED <<status, passed, announced, consoleVars>>

Publish(c) ==
    /\ pc[c] = "publish"
    /\ announced' = announced \cup {call[c].read}
    /\ Goes(c, "ok")
    /\ UNCHANGED <<status, passed, interruptions, call, consoleVars>>

FlowNext ==
    \/ \E s \in Staff :
         \/ \E c \in Calls : HandleAdvance(c, s) \/ HandleCancel(c, s)
         \/ RequestCancel(s) \/ Back(s) \/ WorkOnOtherOrder(s) \/ Reload(s)
    \/ \E l \in Lists : AnswerList(l) \/ ListArrives(l) \/ ListFails(l)
    \/ \E c \in Calls :
         \/ AnswerArrives(c) \/ AnswerLost(c)
         \/ Find(c) \/ UpdateBookingStatus(c) \/ Refetch(c) \/ ServiceFails(c) \/ Publish(c)

FlowSpec == FlowInit /\ [][FlowNext]_flowVars

-----------------------------------------------------------------------------
\* The stored status only moves along the transitions of the booking, so a
\* completed or cancelled booking stays so, although every call decides on a
\* status it has read before.
StatusFollowsTransitions == [][status' \in Transitions[status]]_status

\* The buttons of a booking are only disabled while a call of that console is
\* still to be answered, however calls on this and other orders overlap.
ButtonsComeBack == \A s \in Staff : busy[s] => \E c \in waiting : call[c].staff = s

\* The service lets a pending booking be confirmed at once; the consoles never
\* bring that about, however old the status is that they show, because no screen
\* is ever ahead of the booking. A console that says an order was changed to a
\* status is right: the booking has been in it, whoever moved it there.
ScreensAreNeverAhead ==
    /\ "confirmed" \in passed => "processing" \in passed
    /\ "completed" \in passed => "confirmed" \in passed
    /\ toasts \subseteq passed

Settled == \A c \in Calls : pc[c] \in {"idle", "ok", "error"}

\* When no call is in service, the current status of the booking has been
\* announced, although announcements race later updates; only a call cut short
\* after its update announces nothing.
StatusIsAnnounced ==
    Settled /\ interruptions = 0 => status \in announced
=============================================================================
