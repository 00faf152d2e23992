------------------------ MODULE BookingWorkflow_proofs ------------------------
(***************************************************************************)
(* Theorems of BookingWorkflow, for any number of consoles, calls and      *)
(* interruptions.                                                          *)
(*                                                                         *)
(* Everything that travels between the service and a console is a status   *)
(* the booking has had, and a console asks for the successor of what it    *)
(* shows; so each target comes right after a status the booking has had.   *)
(***************************************************************************)
EXTENDS BookingWorkflow, TLAPS

Pcs == {"idle", "find", "update", "refetch", "publish", "ok", "error"}

FlowTypes ==
    /\ status \in Statuses
    /\ passed \subseteq Statuses
    /\ screen \in [Staff -> Statuses \cup {NULL}]
    /\ busy \in [Staff -> BOOLEAN]
    /\ candidate \in [Staff -> BOOLEAN]
    /\ call \in [Calls -> Call \cup {NULL}]
    /\ pc \in [Calls -> Pcs]
    /\ waiting \subseteq Calls
    /\ load \in [Lists -> Statuses \cup {"asked", "none"}]
    /\ interruptions \in Nat

\* The booking has been where a console would ask for this target.
Follows(target) ==
    /\ target = "confirmed" => "processing" \in passed
    /\ target = "completed" => "confirmed" \in passed

\* What is true of a call in service.
Called(c) == pc[c] # "idle" =>
    /\ call[c] \in Call
    /\ Follows(call[c].target)
    /\ call[c].read \in passed \cup {NULL}
    /\ pc[c] = "update" => call[c].target \in Transitions[call[c].read]
    /\ pc[c] \in {"refetch", "publish", "ok"} => call[c].target \in passed
    /\ pc[c] \in {"publish", "ok"} => call[c].read \in passed

\* A call that is waited for, or followed by a list, was made.
Made(c) == c \in waiting \/ load[c] # "none" => pc[c] # "idle"

\* What consoles show or are about to show.
Shown ==
    /\ \A s \in Staff : screen[s] \in passed \cup {NULL}
    /\ \A l \in Lists : load[l] \in passed \cup {"asked", "none"}

Passed == status \in passed /\ ScreensAreNeverAhead

\* c will publish the status the booking has.
WillPublish(c) == pc[c] = "refetch" \/ (pc[c] = "publish" /\ call[c].read = status)

WillAnnounce == interruptions = 0 => status \in announced \/ \E c \in Calls : WillPublish(c)

IInv ==
    /\ FlowTypes
    /\ \A c \in Calls : Called(c) /\ Made(c)
    /\ Shown
    /\ Passed
    /\ ButtonsComeBack
    /\ WillAnnounce

-----------------------------------------------------------------------------
(* Shapes of a step.                                                          *)

\* What is known of a call stays true while the booking moves on.
LEMMA CalledStays ==
    ASSUME passed \subseteq passed', NEW c \in Calls, Called(c), call'[c] = call[c], pc'[c] = pc[c]
    PROVE  Called(c)'
  BY DEF Called, Follows

LEMMA ShownStays ==
    ASSUME passed \subseteq passed', UNCHANGED <<screen, load>>, Shown
    PROVE  Shown'
  BY DEF Shown

\* Two sets of statuses and marks.
LEMMA Marks == "asked" \notin Statuses /\ "none" \notin Statuses /\ Staff \cap Calls = {}
  BY WorkflowAssumption DEF Statuses

\* A step of the consoles: the service does not move.
LEMMA ConsoleStep ==
    ASSUME IInv, FlowTypes', UNCHANGED <<serviceVars, call, pc>>,
           \A c \in Calls : Made(c)', Shown', toasts' \subseteq passed, ButtonsComeBack'
    PROVE  IInv'
<1>1. \A c \in Calls : Called(c)'
  BY CalledStays DEF IInv, serviceVars
<1>2. Passed'
  BY DEF IInv, Passed, ScreensAreNeverAhead, serviceVars
<1>3. WillAnnounce'
  BY DEF IInv, WillAnnounce, WillPublish, serviceVars
<1> QED BY <1>1, <1>2, <1>3 DEF IInv

\* A step of a call at the service: the consoles do not move.
LEMMA ServiceStep ==
    ASSUME IInv, FlowTypes', UNCHANGED consoleVars, passed \subseteq passed',
           NEW c \in Calls, pc[c] # "idle", pc'[c] # "idle", call'[c].staff = call[c].staff,
           \A e \in Calls \ {c} : call'[e] = call[e] /\ pc'[e] = pc[e],
           Called(c)', Passed', WillAnnounce'
    PROVE  IInv'
<1>1. \A e \in Calls : Called(e)'
  BY CalledStays DEF IInv
<1>2. \A e \in Calls : Made(e)'
  BY DEF IInv, Made, consoleVars
<1>3. Shown'
  BY ShownStays DEF IInv, consoleVars
<1>4. ButtonsComeBack'
  BY DEF IInv, ButtonsComeBack, consoleVars, FlowTypes
<1> QED BY <1>1, <1>2, <1>3, <1>4 DEF IInv

-----------------------------------------------------------------------------
(* One lemma per action, or per group of actions that differ little.          *)

LEMMA InitInv == FlowInit => IInv
<1> SUFFICES ASSUME FlowInit PROVE IInv
  OBVIOUS
<1>1. /\ status \in passed /\ passed \subseteq Statuses /\ status \in Statuses
      /\ "confirmed" \in passed => "processing" \in passed
      /\ "completed" \notin passed
  BY DEF FlowInit, Stages, Statuses
<1>2. FlowTypes
  BY <1>1 DEF FlowInit, FlowTypes, Pcs, Lists
<1>3. \A c \in Calls : Called(c) /\ Made(c)
  BY Marks DEF FlowInit, Called, Made, Lists
<1>4. Shown
  BY DEF FlowInit, Shown, Lists
<1>5. Passed /\ ButtonsComeBack /\ WillAnnounce
  BY <1>1 DEF FlowInit, Passed, ScreensAreNeverAhead, ButtonsComeBack, WillAnnounce
<1> QED BY <1>2, <1>3, <1>4, <1>5 DEF IInv

\* A console asks for a target that follows a status the booking has had.
LEMMA AskStep ==
    ASSUME IInv, NEW c \in Calls, NEW s \in Staff, NEW target \in Statuses,
           Follows(target), Ask(c, s, target)
    PROVE  IInv'
<1>1. FlowTypes /\ pc[c] = "idle"
  BY DEF IInv, Ask
<1>2. /\ call' = [call EXCEPT ![c] = [staff |-> s, target |-> target, read |-> NULL]]
      /\ pc' = [pc EXCEPT ![c] = "find"]
      /\ waiting' = waiting \cup {c}
      /\ busy' = [busy EXCEPT ![s] = TRUE]
      /\ UNCHANGED <<serviceVars, screen, candidate, load, toasts>>
  BY DEF Ask
<1>3. [staff |-> s, target |-> target, read |-> NULL] \in Call
  BY DEF Call
<1>4. FlowTypes'
  BY <1>1, <1>2, <1>3 DEF FlowTypes, Pcs, serviceVars
<1>5. /\ pc'[c] = "find" /\ call'[c] = [staff |-> s, target |-> target, read |-> NULL]
      /\ \A e \in Calls \ {c} : call'[e] = call[e] /\ pc'[e] = pc[e]
  BY <1>1, <1>2 DEF FlowTypes
<1>6. ASSUME NEW e \in Calls PROVE Called(e)' /\ Made(e)'
  <2>1. CASE e = c
    BY <2>1, <1>2, <1>3, <1>5 DEF Called, Made, Follows, serviceVars
  <2>2. CASE e # c
    <3>1. Called(e)'
      BY <2>2, <1>2, <1>5, CalledStays DEF IInv, serviceVars
    <3>2. Made(e)'
      BY <2>2, <1>2, <1>5 DEF IInv, Made
    <3> QED BY <3>1, <3>2
  <2> QED BY <2>1, <2>2
<1>7. Shown' /\ Passed'
  BY <1>2, ShownStays DEF IInv, Passed, ScreensAreNeverAhead, serviceVars
<1>8. ButtonsComeBack'
  <2>1. SUFFICES ASSUME NEW r \in Staff, busy'[r] PROVE \E e \in waiting' : call'[e].staff = r
    BY DEF ButtonsComeBack
  <2>2. CASE r = s
    BY <2>2, <1>2, <1>5
  <2>3. CASE r # s
    <3>1. PICK e \in waiting : call[e].staff = r
      BY <2>1, <2>3, <1>1, <1>2 DEF IInv, ButtonsComeBack, FlowTypes
    <3>2. e # c /\ e \in Calls
      BY <1>1 DEF IInv, Made, FlowTypes
    <3> QED BY <3>1, <3>2, <1>2, <1>5
  <2> QED BY <2>2, <2>3
<1>9. WillAnnounce'
  <2>1. \A e \in Calls : WillPublish(e) => WillPublish(e)'
    <3>1. ~WillPublish(c)
      BY <1>1 DEF WillPublish
    <3> QED BY <3>1, <1>2, <1>5 DEF WillPublish, serviceVars
  <2> QED BY <2>1, <1>2 DEF IInv, WillAnnounce, serviceVars
<1> QED BY <1>4, <1>6, <1>7, <1>8, <1>9 DEF IInv

LEMMA AskingSteps ==
    ASSUME IInv, NEW c \in Calls, NEW s \in Staff, HandleAdvance(c, s) \/ HandleCancel(c, s)
    PROVE  IInv'
<1>1. CASE HandleCancel(c, s)
  <2>1. "cancelled" \in Statuses /\ Follows("cancelled") /\ Ask(c, s, "cancelled")
    BY <1>1 DEF HandleCancel, Statuses, Follows
  <2> QED BY <2>1, AskStep
<1>2. CASE HandleAdvance(c, s)
  <2>1. screen[s] \in {"pending", "processing", "confirmed"} /\ Ask(c, s, NextStatus[screen[s]])
    BY <1>2 DEF HandleAdvance, NextStatus
  <2>2. screen[s] \in passed
    BY <2>1, WorkflowAssumption DEF IInv, Shown, Statuses
  <2>3. CASE screen[s] = "pending"
    <3>1. NextStatus[screen[s]] = "processing" /\ Follows("processing") /\ "processing" \in Statuses
      BY <2>3 DEF NextStatus, Follows, Statuses
    <3> QED BY <2>1, <3>1, AskStep
  <2>4. CASE screen[s] = "processing"
    <3>1. NextStatus[screen[s]] = "confirmed" /\ Follows("confirmed") /\ "confirmed" \in Statuses
      BY <2>2, <2>4 DEF NextStatus, Follows, Statuses
    <3> QED BY <2>1, <3>1, AskStep
  <2>5. CASE screen[s] = "confirmed"
    <3>1. NextStatus[screen[s]] = "completed" /\ Follows("completed") /\ "completed" \in Statuses
      BY <2>2, <2>5 DEF NextStatus, Follows, Statuses
    <3> QED BY <2>1, <3>1, AskStep
  <2> QED BY <2>1, <2>3, <2>4, <2>5
<1> QED BY <1>1, <1>2

\* The cancel dialog, and work on another order.
LEMMA ButtonSteps ==
    ASSUME IInv, NEW s \in Staff, RequestCancel(s) \/ Back(s) \/ WorkOnOtherOrder(s)
    PROVE  IInv'
<1>1. /\ UNCHANGED <<serviceVars, call, pc, screen, waiting, load, toasts>>
      /\ candidate' \in [Staff -> BOOLEAN] /\ busy' \in [Staff -> BOOLEAN]
      /\ \A r \in Staff : busy'[r] => busy[r]
  BY DEF IInv, FlowTypes, RequestCancel, Back, WorkOnOtherOrder
<1>2. FlowTypes'
  BY <1>1 DEF IInv, FlowTypes, serviceVars
<1>3. (\A c \in Calls : Made(c)') /\ ButtonsComeBack' /\ toasts' \subseteq passed
  BY <1>1 DEF IInv, Made, ButtonsComeBack, Passed, ScreensAreNeverAhead
<1>4. Shown'
  BY <1>1, ShownStays DEF IInv, serviceVars
<1> QED BY <1>1, <1>2, <1>3, <1>4, ConsoleStep

\* A list is asked for, answered, shown or given up.
LEMMA ListSteps ==
    ASSUME IInv, NEW l \in Lists, AnswerList(l) \/ ListArrives(l) \/ ListFails(l) \/ (l \in Staff /\ Reload(l))
    PROVE  IInv'
<1>1. FlowTypes /\ Shown /\ status \in passed /\ passed \subseteq Statuses
  BY DEF IInv, Passed, FlowTypes
<1>2. UNCHANGED <<serviceVars, call, pc, busy, candidate, waiting, toasts>>
  BY DEF AnswerList, ListArrives, ListFails, Reload
<1>3. PICK value \in passed \cup {"asked", "none"} :
         /\ load' = [load EXCEPT ![l] = value]
         /\ value = "none" \/ l \in Staff \/ load[l] # "none"
  BY <1>1, Marks DEF AnswerList, ListArrives, ListFails, Reload
<1>4. load' \in [Lists -> Statuses \cup {"asked", "none"}] /\ \A m \in Lists : load'[m] \in passed \cup {"asked", "none"}
  BY <1>1, <1>3 DEF FlowTypes, Shown
<1>5. \A c \in Calls : Made(c)'
  <2>1. \A c \in Calls : load'[c] # "none" => load[c] # "none"
    BY <1>1, <1>3, Marks DEF FlowTypes, Lists
  <2> QED BY <1>2, <2>1 DEF IInv, Made
<1>6. screen' \in [Staff -> Statuses \cup {NULL}] /\ \A s \in Staff : screen'[s] \in passed \cup {NULL}
  <2>1. CASE AnswerList(l) \/ ListFails(l) \/ (l \in Staff /\ Reload(l))
    <3>1. screen' = screen
      BY <2>1 DEF AnswerList, ListFails, Reload
    <3> QED BY <3>1, <1>1 DEF FlowTypes, Shown
  <2>2. CASE ListArrives(l)
    <3>1. load[l] \in Statuses /\ screen' = [screen EXCEPT ![ListOwner(l)] = load[l]]
      BY <2>2 DEF ListArrives
    <3>2. load[l] \in passed
      BY <1>1, <3>1, Marks DEF Shown
    <3> QED BY <1>1, <3>1, <3>2 DEF FlowTypes, Shown
  <2> QED BY <2>1, <2>2
<1>7. FlowTypes' /\ Shown'
  BY <1>1, <1>2, <1>4, <1>6 DEF FlowTypes, Shown, serviceVars
<1>8. ButtonsComeBack' /\ toasts' \subseteq passed
  BY <1>2 DEF IInv, ButtonsComeBack, Passed, ScreensAreNeverAhead
<1> QED BY <1>2, <1>5, <1>7, <1>8, ConsoleStep

\* A console stops to wait for a call, and frees its own buttons only.
LEMMA ButtonsStay ==
    ASSUME FlowTypes, ButtonsComeBack, NEW c \in Calls,
           call' = call, waiting' = waiting \ {c}, busy' = [busy EXCEPT ![call[c].staff] = FALSE]
    PROVE  ButtonsComeBack'
<1>1. SUFFICES ASSUME NEW r \in Staff, busy'[r] PROVE \E e \in waiting' : call'[e].staff = r
  BY DEF ButtonsComeBack
<1>2. busy[r] /\ r # call[c].staff
  BY <1>1 DEF FlowTypes
<1>3. PICK e \in waiting : call[e].staff = r
  BY <1>2 DEF ButtonsComeBack
<1> QED BY <1>2, <1>3

LEMMA AnswerArrivesStep ==
    ASSUME IInv, NEW c \in Calls, AnswerArrives(c)
    PROVE  IInv'
<1>1. FlowTypes /\ Shown /\ passed \subseteq Statuses /\ pc[c] \in {"ok", "error"} /\ Called(c)
  BY DEF IInv, FlowTypes, AnswerArrives
<1>2. /\ UNCHANGED <<serviceVars, call, pc>> /\ waiting' = waiting \ {c}
      /\ busy' = [busy EXCEPT ![call[c].staff] = FALSE]
  BY DEF AnswerArrives
<1>3. /\ candidate' \in [Staff -> BOOLEAN]
      /\ screen' = screen \/ (pc[c] = "ok" /\ screen' = [screen EXCEPT ![call[c].staff] = call[c].read])
      /\ load' = load \/ load' = [load EXCEPT ![c] = "asked"]
      /\ toasts' = toasts \/ (pc[c] = "ok" /\ toasts' = toasts \cup {call[c].target})
  BY <1>1 DEF AnswerArrives, FlowTypes
<1>4. pc[c] = "ok" => call[c].read \in passed /\ call[c].target \in passed
  BY <1>1 DEF Called
<1>5. c \in Lists
  BY DEF Lists
<1>6. screen' \in [Staff -> Statuses \cup {NULL}] /\ \A s \in Staff : screen'[s] \in passed \cup {NULL}
  BY <1>1, <1>3, <1>4 DEF FlowTypes, Shown
<1>7. /\ load' \in [Lists -> Statuses \cup {"asked", "none"}]
      /\ \A l \in Lists : load'[l] \in passed \cup {"asked", "none"}
      /\ \A e \in Calls \ {c} : load'[e] = load[e]
  BY <1>1, <1>3, <1>5 DEF FlowTypes, Shown, Lists
<1>8. FlowTypes'
  BY <1>1, <1>2, <1>3, <1>6, <1>7 DEF FlowTypes, serviceVars
<1>9. Shown'
  BY <1>2, <1>6, <1>7 DEF Shown, serviceVars
<1>10. \A e \in Calls : Made(e)'
  BY <1>1, <1>2, <1>7 DEF IInv, Made
<1>11. toasts' \subseteq passed
  BY <1>3, <1>4 DEF IInv, Passed, ScreensAreNeverAhead
<1>12. ButtonsComeBack'
  BY <1>1, <1>2, ButtonsStay DEF IInv
<1> QED BY <1>2, <1>8, <1>9, <1>10, <1>11, <1>12, ConsoleStep

LEMMA AnswerLostStep ==
    ASSUME IInv, NEW c \in Calls, AnswerLost(c)
    PROVE  IInv'
<1>1. FlowTypes
  BY DEF IInv
<1>2. /\ UNCHANGED <<serviceVars, call, pc, screen, candidate, load, toasts>>
      /\ waiting' = waiting \ {c} /\ busy' = [busy EXCEPT ![call[c].staff] = FALSE]
  BY DEF AnswerLost
<1>3. FlowTypes'
  BY <1>1, <1>2 DEF FlowTypes, serviceVars
<1>4. (\A e \in Calls : Made(e)') /\ toasts' \subseteq passed
  BY <1>2 DEF IInv, Made, Passed, ScreensAreNeverAhead
<1>5. Shown'
  BY <1>2, ShownStays DEF IInv, serviceVars
<1>6. ButtonsComeBack'
  BY <1>1, <1>2, ButtonsStay DEF IInv
<1> QED BY <1>2, <1>3, <1>4, <1>5, <1>6, ConsoleStep

\* A call in service and what it carries.
LEMMA InService ==
    ASSUME IInv, NEW c \in Calls, pc[c] # "idle"
    PROVE  call[c] \in Call /\ call[c].target \in Statuses /\ call[c].read \in Statuses \cup {NULL}
  BY DEF IInv, Called, Call

\* The service answers an error: nothing is known of the booking.
LEMMA RefuseStep ==
    ASSUME IInv, NEW c \in Calls, pc[c] # "idle", Refuse(c), UNCHANGED consoleVars,
           UNCHANGED <<status, passed, announced>>, interruptions' \in Nat,
           \/ interruptions' # 0
           \/ interruptions' = interruptions /\ ~WillPublish(c)
    PROVE  IInv'
<1>1. FlowTypes /\ call[c] \in Call /\ Called(c)
  BY InService DEF IInv
<1>2. call' = [call EXCEPT ![c].read = NULL] /\ pc' = [pc EXCEPT ![c] = "error"]
  BY DEF Refuse, Goes
<1>3. /\ pc'[c] = "error" /\ call'[c] = [call[c] EXCEPT !.read = NULL]
      /\ \A e \in Calls \ {c} : call'[e] = call[e] /\ pc'[e] = pc[e]
  BY <1>1, <1>2 DEF FlowTypes
<1>4. /\ call'[c] \in Call /\ call'[c].staff = call[c].staff /\ call'[c].target = call[c].target
      /\ call'[c].read = NULL
  BY <1>1, <1>3 DEF Call
<1>5. FlowTypes'
  BY <1>1, <1>2, <1>3, <1>4 DEF FlowTypes, Pcs, consoleVars
<1>6. Called(c)'
  BY <1>1, <1>3, <1>4 DEF Called, Follows
<1>7. Passed'
  BY DEF IInv, Passed, ScreensAreNeverAhead, consoleVars
<1>8. WillAnnounce'
  BY <1>3 DEF IInv, WillAnnounce, WillPublish
<1> QED BY <1>3, <1>4, <1>5, <1>6, <1>7, <1>8, ServiceStep

\* The service reads the booking for c, and c goes on.
LEMMA ReadsStep ==
    ASSUME IInv, NEW c \in Calls, NEW step \in {"update", "publish", "ok"}, pc[c] \in {"find", "refetch"},
           Reads(c), Goes(c, step), UNCHANGED <<serviceVars, consoleVars>>,
           step = "update" => call[c].target \in Transitions[status],
           step # "update" => call[c].target \in passed,
           pc[c] = "refetch" => step = "publish"
    PROVE  IInv'
<1>1. FlowTypes /\ call[c] \in Call /\ Called(c) /\ status \in passed
  BY InService DEF IInv, Passed
<1>2. call' = [call EXCEPT ![c].read = status] /\ pc' = [pc EXCEPT ![c] = step]
  BY DEF Reads, Goes
<1>3. /\ pc'[c] = step /\ call'[c] = [call[c] EXCEPT !.read = status]
      /\ \A e \in Calls \ {c} : call'[e] = call[e] /\ pc'[e] = pc[e]
  BY <1>1, <1>2 DEF FlowTypes
<1>4. /\ call'[c] \in Call /\ call'[c].staff = call[c].staff /\ call'[c].target = call[c].target
      /\ call'[c].read = status
  BY <1>1, <1>3 DEF Call, FlowTypes
<1>5. FlowTypes'
  BY <1>1, <1>2, <1>3, <1>4 DEF FlowTypes, Pcs, consoleVars, serviceVars
<1>6. Called(c)'
  BY <1>1, <1>3, <1>4 DEF Called, Follows, serviceVars
<1>7. Passed'
  BY DEF IInv, Passed, ScreensAreNeverAhead, consoleVars, serviceVars
<1>8. WillAnnounce'
  <2>1. WillPublish(c) => WillPublish(c)'
    BY <1>3, <1>4 DEF WillPublish, serviceVars
  <2>2. \A e \in Calls \ {c} : WillPublish(e) => WillPublish(e)'
    BY <1>3 DEF WillPublish, serviceVars
  <2> QED BY <2>1, <2>2 DEF IInv, WillAnnounce, serviceVars
<1>9. pc[c] # "idle" /\ pc'[c] # "idle" /\ UNCHANGED consoleVars /\ passed \subseteq passed'
  BY <1>3 DEF serviceVars
<1> QED BY <1>3, <1>4, <1>5, <1>6, <1>7, <1>8, <1>9, ServiceStep

LEMMA FindStep ==
    ASSUME IInv, NEW c \in Calls, Find(c)
    PROVE  IInv'
<1>1. pc[c] = "find" /\ UNCHANGED <<serviceVars, consoleVars>> /\ status \in passed /\ interruptions \in Nat
  BY DEF IInv, Find, Passed, FlowTypes
<1>2. CASE status = call[c].target /\ Reads(c) /\ Goes(c, "ok")
  BY <1>1, <1>2, ReadsStep
<1>3. CASE CanTransitionTo(status, call[c].target) /\ Reads(c) /\ Goes(c, "update")
  BY <1>1, <1>3, ReadsStep DEF CanTransitionTo
<1>4. CASE Refuse(c)
  BY <1>1, <1>4, RefuseStep DEF WillPublish, serviceVars
<1> QED BY <1>2, <1>3, <1>4 DEF Find

LEMMA RefetchStep ==
    ASSUME IInv, NEW c \in Calls, Refetch(c)
    PROVE  IInv'
<1>1. pc[c] = "refetch" /\ Reads(c) /\ Goes(c, "publish") /\ UNCHANGED <<serviceVars, consoleVars>>
  BY DEF Refetch
<1>2. call[c].target \in passed
  BY <1>1 DEF IInv, Called
<1> QED BY <1>1, <1>2, ReadsStep

LEMMA ServiceFailsStep ==
    ASSUME IInv, NEW c \in Calls, ServiceFails(c)
    PROVE  IInv'
<1>1. interruptions' \in Nat /\ interruptions' # 0
  BY DEF IInv, FlowTypes, ServiceFails
<1> QED BY <1>1, RefuseStep DEF ServiceFails

\* The status the booking has had when a target is reached.
LEMMA BecomesPassed ==
    ASSUME Passed, NEW target \in Statuses, Follows(target), Becomes(target), toasts' = toasts
    PROVE  Passed'
  BY DEF Passed, ScreensAreNeverAhead, Follows, Becomes

LEMMA UpdateStep ==
    ASSUME IInv, NEW c \in Calls, UpdateBookingStatus(c)
    PROVE  IInv'
<1>1. /\ FlowTypes /\ call[c] \in Call /\ Called(c) /\ pc[c] = "update"
      /\ UNCHANGED <<announced, interruptions, consoleVars>>
      /\ call[c].target \in Statuses
  BY InService DEF IInv, UpdateBookingStatus
<1>2. CASE status = call[c].read
  <2>1. Becomes(call[c].target) /\ pc' = [pc EXCEPT ![c] = "refetch"] /\ call' = call
    BY <1>2 DEF UpdateBookingStatus, Goes
  <2>2. pc'[c] = "refetch" /\ \A e \in Calls \ {c} : pc'[e] = pc[e]
    BY <1>1, <2>1 DEF FlowTypes
  <2>3. FlowTypes'
    BY <1>1, <2>1 DEF FlowTypes, Pcs, Becomes, consoleVars
  <2>4. Called(c)'
    BY <1>1, <2>1, <2>2 DEF Called, Becomes, Follows
  <2>5. Passed'
    BY <1>1, <2>1, BecomesPassed DEF IInv, Called, consoleVars
  <2>6. WillAnnounce'
    BY <2>2 DEF WillAnnounce, WillPublish
  <2>7. passed \subseteq passed'
    BY <2>1 DEF Becomes
  <2> QED BY <1>1, <2>1, <2>2, <2>3, <2>4, <2>5, <2>6, <2>7, ServiceStep
<1>3. CASE status # call[c].read
  <2>1. Refuse(c) /\ UNCHANGED <<status, passed>> /\ ~WillPublish(c) /\ interruptions' \in Nat
    BY <1>1, <1>3 DEF UpdateBookingStatus, WillPublish, FlowTypes
  <2> QED BY <1>1, <2>1, RefuseStep
<1> QED BY <1>2, <1>3

LEMMA PublishStep ==
    ASSUME IInv, NEW c \in Calls, Publish(c)
    PROVE  IInv'
<1>1. /\ FlowTypes /\ Called(c) /\ pc[c] = "publish"
      /\ UNCHANGED <<status, passed, interruptions, call, consoleVars>>
      /\ announced' = announced \cup {call[c].read} /\ pc' = [pc EXCEPT ![c] = "ok"]
  BY DEF IInv, Publish, Goes
<1>2. pc'[c] = "ok" /\ \A e \in Calls \ {c} : pc'[e] = pc[e]
  BY <1>1 DEF FlowTypes
<1>3. FlowTypes'
  BY <1>1 DEF FlowTypes, Pcs, consoleVars
<1>4. Called(c)'
  BY <1>1, <1>2 DEF Called, Follows
<1>5. Passed'
  BY <1>1 DEF IInv, Passed, ScreensAreNeverAhead, consoleVars
<1>6. WillAnnounce'
  <2>1. WillPublish(c) => status' \in announced'
    BY <1>1 DEF WillPublish
  <2>2. \A e \in Calls \ {c} : WillPublish(e) => WillPublish(e)'
    BY <1>1, <1>2 DEF WillPublish
  <2> QED BY <1>1, <2>1, <2>2 DEF IInv, WillAnnounce
<1> QED BY <1>1, <1>2, <1>3, <1>4, <1>5, <1>6, ServiceStep

LEMMA NextInv == IInv /\ [FlowNext]_flowVars => IInv'
<1> SUFFICES ASSUME IInv, [FlowNext]_flowVars PROVE IInv'
  OBVIOUS
<1>1. ASSUME NEW s \in Staff,
             \/ \E c \in Calls : HandleAdvance(c, s) \/ HandleCancel(c, s)
             \/ RequestCancel(s) \/ Back(s) \/ WorkOnOtherOrder(s) \/ Reload(s)
      PROVE  IInv'
  <2>1. s \in Lists
    BY DEF Lists
  <2> QED BY <1>1, <2>1, AskingSteps, ButtonSteps, ListSteps
<1>2. ASSUME NEW l \in Lists, AnswerList(l) \/ ListArrives(l) \/ ListFails(l)
      PROVE  IInv'
  BY <1>2, ListSteps
<1>3. ASSUME NEW c \in Calls,
             \/ AnswerArrives(c) \/ AnswerLost(c)
             \/ Find(c) \/ UpdateBookingStatus(c) \/ Refetch(c) \/ ServiceFails(c) \/ Publish(c)
      PROVE  IInv'
  BY <1>3, AnswerArrivesStep, AnswerLostStep, FindStep, UpdateStep, RefetchStep, ServiceFailsStep, PublishStep
<1>4. CASE UNCHANGED flowVars
  <2>1. UNCHANGED <<serviceVars, call, pc>> /\ UNCHANGED consoleVars
    BY <1>4 DEF flowVars, serviceVars, consoleVars
  <2>2. FlowTypes' /\ (\A c \in Calls : Made(c)') /\ toasts' \subseteq passed /\ ButtonsComeBack'
    BY <1>4 DEF IInv, FlowTypes, Made, Passed, ScreensAreNeverAhead, ButtonsComeBack, flowVars
  <2>3. Shown'
    BY <2>1, ShownStays DEF IInv, serviceVars, consoleVars
  <2> QED BY <2>1, <2>2, <2>3, ConsoleStep
<1> QED BY <1>1, <1>2, <1>3, <1>4 DEF FlowNext

-----------------------------------------------------------------------------
(* The theorems.                                                              *)

\* The inductive invariant holds in every reachable state.
THEOREM Invariance == FlowSpec => []IInv
  BY InitInv, NextInv, PTL DEF FlowSpec

\* The stored status moves along bookingStatusTransitions only, whoever decided
\* on what (models.go, booking_service.go:276).
THEOREM TransitionsAreFollowed == FlowSpec => StatusFollowsTransitions
<1>1. IInv /\ [FlowNext]_flowVars => [status' \in Transitions[status]]_status
  <2> SUFFICES ASSUME IInv, FlowNext PROVE status' = status \/ status' \in Transitions[status]
    BY DEF flowVars
  <2>1. ASSUME NEW c \in Calls, UpdateBookingStatus(c)
        PROVE  status' = status \/ status' \in Transitions[status]
    <3>1. pc[c] = "update" => call[c].target \in Transitions[call[c].read]
      BY DEF IInv, Called
    <3> QED BY <2>1, <3>1 DEF UpdateBookingStatus, Becomes
  <2>2. ASSUME NEW s \in Staff,
             \/ \E c \in Calls : HandleAdvance(c, s) \/ HandleCancel(c, s)
             \/ RequestCancel(s) \/ Back(s) \/ WorkOnOtherOrder(s) \/ Reload(s)
        PROVE  status' = status
    BY <2>2 DEF HandleAdvance, HandleCancel, Ask, RequestCancel, Back, WorkOnOtherOrder, Reload, serviceVars
  <2>3. ASSUME NEW l \in Lists, AnswerList(l) \/ ListArrives(l) \/ ListFails(l)
        PROVE  status' = status
    BY <2>3 DEF AnswerList, ListArrives, ListFails, serviceVars
  <2>4. ASSUME NEW c \in Calls, \/ AnswerArrives(c) \/ AnswerLost(c) \/ Find(c)
                                \/ Refetch(c) \/ ServiceFails(c) \/ Publish(c)
        PROVE  status' = status
    BY <2>4 DEF AnswerArrives, AnswerLost, Find, Refetch, ServiceFails, Publish, serviceVars
  <2> QED BY <2>1, <2>2, <2>3, <2>4 DEF FlowNext
<1> QED BY <1>1, Invariance, PTL DEF FlowSpec, StatusFollowsTransitions

\* The buttons of a console are disabled only while it waits (orders-panel.tsx:571).
THEOREM ButtonsAreFreed == FlowSpec => []ButtonsComeBack
  BY Invariance, PTL DEF IInv

\* No screen, list or call is ahead of the booking (orders-panel.tsx:567).
THEOREM ScreensFollow == FlowSpec => []ScreensAreNeverAhead
<1>1. IInv => ScreensAreNeverAhead
  BY DEF IInv, Passed
<1> QED BY <1>1, Invariance, PTL

\* The status the booking rests in was published (booking_service.go:291-300).
THEOREM StatusIsPublished == FlowSpec => []StatusIsAnnounced
<1>1. IInv => StatusIsAnnounced
  BY DEF IInv, WillAnnounce, WillPublish, StatusIsAnnounced, Settled
<1> QED BY <1>1, Invariance, PTL
=============================================================================
