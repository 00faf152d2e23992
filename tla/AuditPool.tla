----------------------------- MODULE AuditPool -----------------------------
(***************************************************************************)
(* The background pool of the chat service: a bounded queue and a few      *)
(* workers that write the audit rows of MCP tool calls and refresh the     *)
(* memory summary of a chat session, coalescing the refreshes of a session *)
(* and draining at shutdown.                                               *)
(*                                                                         *)
(* A critical section of the pool (summaryMu, with mu inside it) is one    *)
(* action; a worker releases every lock between its actions.  The messages *)
(* of a session are counted: a summary is the number of messages of the    *)
(* tail it was built from.  due and lost are history.                      *)
(***************************************************************************)
EXTENDS Naturals, Sequences, FiniteSets, Functions

CONSTANTS
    Sessions,      \* chat sessions
    ToolCalls,     \* MCP tool executions
    Workers,       \* auditPoolWorkers goroutines
    Buffer,        \* auditPoolBuffer
    SummaryAfter,  \* AIMemorySummaryAfter
    MaxMessages,   \* bound on the messages of a session
    MaxTimeouts,   \* bound on the timers that fire
    MaxFailures,   \* bound on the statements that fail and the refreshes that panic
    NULL

ASSUME PoolAssumption ==
    /\ Buffer \in Nat
    /\ SummaryAfter \in Nat
    /\ MaxMessages \in Nat
    /\ MaxTimeouts \in Nat
    /\ MaxFailures \in Nat
    /\ Workers # {}

VARIABLES
    messages,     \* chat_messages of each session
    summary,      \* memory_summary of each session
    unscheduled,  \* turns answered whose ScheduleMemorySummary call is still to come
    called,       \* tool executions that have submitted their audit job
    accepted,     \* audit jobs the queue took
    toolRows,     \* tool_calls rows
    logRows,      \* ai_logs rows
    jobs,         \* the channel
    stopped,
    summaries,    \* the memorySummaryState of each session that has one
    worker,       \* what each worker does
    stop,         \* where Stop is
    due,          \* messages that the latest accepted submission of a session wanted covered
    lost,         \* the latest refresh of a session failed or ran out of time
    timeouts,
    failures

dbVars == <<messages, summary, toolRows, logRows>>
poolVars == <<messages, summary, unscheduled, called, accepted, toolRows, logRows, jobs, stopped,
              summaries, worker, stop, due, lost, timeouts, failures>>

AuditJob(c) == [kind |-> "audit", of |-> c]
SummaryJob(s) == [kind |-> "summary", of |-> s]
Jobs == {AuditJob(c) : c \in ToolCalls} \cup {SummaryJob(s) : s \in Sessions}

MemorySummaryState == [dirty : BOOLEAN, running : BOOLEAN]

ASSUME PoolNullAssumption == NULL \notin MemorySummaryState \cup Jobs

Steps == {"receive", "tool_call", "ai_log", "begin", "count", "tail", "write", "settle", "exited"}

\* expired: the job's ten seconds are over; cancelled: the iteration was cancelled
\* by a newer submission; seen: the tail the refresh has read.
Worker == [at : Steps, job : Jobs \cup {NULL}, expired : BOOLEAN, cancelled : BOOLEAN, seen : Nat]

IdleWorker == [at |-> "receive", job |-> NULL, expired |-> FALSE, cancelled |-> FALSE, seen |-> 0]

PoolInit ==
    /\ messages = [s \in Sessions |-> 0]
    /\ summary = [s \in Sessions |-> 0]
    /\ unscheduled = [s \in Sessions |-> 0]
    /\ called = {} /\ accepted = {} /\ toolRows = {} /\ logRows = {}
    /\ jobs = <<>>
    /\ stopped = FALSE
    /\ summaries = [s \in Sessions |-> NULL]
    /\ worker = [w \in Workers |-> IdleWorker]
    /\ stop = "no"
    /\ due = [s \in Sessions |-> 0]
    /\ lost = [s \in Sessions |-> FALSE]
    /\ timeouts = 0 /\ failures = 0

\* main returns after Stop, and the process ends with it.
Exited == stop \in {"drained", "timed_out"}

-----------------------------------------------------------------------------
\* Requests.

\* A turn stores its messages; a turn that fails after storing the user's
\* message schedules nothing.
ChatTurn(s) ==
    /\ ~Exited
    /\ messages[s] < MaxMessages
    /\ messages' = [messages EXCEPT ![s] = @ + 1]
    /\ \E answered \in {0, 1} : unscheduled' = [unscheduled EXCEPT ![s] = @ + answered]
    /\ UNCHANGED <<summary, called, accepted, toolRows, logRows, jobs, stopped, summaries, worker,
                   stop, due, lost, timeouts, failures>>

\* Mutant: the send ignores stopped.
Accepts_stopped == Len(jobs) < Buffer

\* The non-blocking send, made while stopped cannot change.
Accepts == ~stopped /\ Len(jobs) < Buffer

Submit(c) ==
    /\ ~Exited
    /\ c \notin called
    /\ called' = called \cup {c}
    /\ IF Accepts
       THEN jobs' = Append(jobs, AuditJob(c)) /\ accepted' = accepted \cup {c}
       ELSE UNCHANGED <<jobs, accepted>>
    /\ UNCHANGED <<messages, summary, unscheduled, toolRows, logRows, stopped, summaries, worker,
                   stop, due, lost, timeouts, failures>>

\* Mutant: the refresh is cancelled and nothing says it is wanted again.
Coalesce_notdirty(s) ==
    /\ summaries[s] # NULL
    /\ worker' = [w \in Workers |->
                    IF summaries[s].running /\ worker[w].job = SummaryJob(s)
                    THEN [worker[w] EXCEPT !.cancelled = TRUE]
                    ELSE worker[w]]
    /\ due' = [due EXCEPT ![s] = messages[s]]
    /\ UNCHANGED <<jobs, summaries>>

\* A submission for a session that is queued or running: it marks the state
\* dirty and cancels the refresh under way.
Coalesce(s) ==
    /\ summaries[s] # NULL
    /\ summaries' = [summaries EXCEPT ![s].dirty = TRUE]
    /\ worker' = [w \in Workers |->
                    IF summaries[s].running /\ worker[w].job = SummaryJob(s)
                    THEN [worker[w] EXCEPT !.cancelled = TRUE]
                    ELSE worker[w]]
    /\ due' = [due EXCEPT ![s] = messages[s]]
    /\ UNCHANGED jobs

\* A submission for any other session queues a job, or is dropped.
Enqueue(s) ==
    /\ summaries[s] = NULL
    /\ IF Accepts
       THEN /\ summaries' = [summaries EXCEPT ![s] = [dirty |-> FALSE, running |-> FALSE]]
            /\ jobs' = Append(jobs, SummaryJob(s))
            /\ due' = [due EXCEPT ![s] = messages[s]]
       ELSE UNCHANGED <<summaries, jobs, due>>
    /\ UNCHANGED worker

ScheduleMemorySummary(s) ==
    /\ ~Exited
    /\ unscheduled[s] > 0
    /\ unscheduled' = [unscheduled EXCEPT ![s] = @ - 1]
    /\ Coalesce(s) \/ Enqueue(s)
    /\ UNCHANGED <<dbVars, called, accepted, stopped, stop, lost, timeouts, failures>>

-----------------------------------------------------------------------------
\* Workers.

At(w, step) == ~Exited /\ worker[w].at = step

Goes(w, step) == worker' = [worker EXCEPT ![w].at = step]

Receive(w) ==
    /\ At(w, "receive")
    /\ jobs # <<>>
    /\ jobs' = Tail(jobs)
    /\ worker' = [worker EXCEPT ![w] =
                    [IdleWorker EXCEPT !.job = Head(jobs),
                                       !.at = IF Head(jobs).kind = "audit"
                                              THEN "tool_call" ELSE "begin"]]
    /\ UNCHANGED <<dbVars, unscheduled, called, accepted, stopped, summaries, stop, due, lost,
                   timeouts, failures>>

\* range over the closed channel ends once it is empty.
WorkerExits(w) ==
    /\ At(w, "receive")
    /\ stopped
    /\ jobs = <<>>
    /\ Goes(w, "exited")
    /\ UNCHANGED <<dbVars, unscheduled, called, accepted, jobs, stopped, summaries, stop, due,
                   lost, timeouts, failures>>

\* A statement of the job can fail: because its context is over, or by itself.
Fails(w) ==
    \/ worker[w].expired /\ UNCHANGED failures
    \/ failures < MaxFailures /\ failures' = failures + 1

\* persist: the two rows are written one after the other, each may fail alone.
PersistToolCall(w) ==
    /\ At(w, "tool_call")
    /\ \/ toolRows' = toolRows \cup {worker[w].job.of} /\ UNCHANGED failures
       \/ Fails(w) /\ UNCHANGED toolRows
    /\ Goes(w, "ai_log")
    /\ UNCHANGED <<messages, summary, logRows, unscheduled, called, accepted, jobs, stopped,
                   summaries, stop, due, lost, timeouts>>

PersistAILog(w) ==
    /\ At(w, "ai_log")
    /\ \/ logRows' = logRows \cup {worker[w].job.of} /\ UNCHANGED failures
       \/ Fails(w) /\ UNCHANGED logRows
    /\ worker' = [worker EXCEPT ![w] = IdleWorker]
    /\ UNCHANGED <<messages, summary, toolRows, unscheduled, called, accepted, jobs, stopped,
                   summaries, stop, due, lost, timeouts>>

SessionOf(w) == worker[w].job.of

\* An iteration starts with a context of its own.
BeginRefresh(w) ==
    /\ At(w, "begin")
    /\ summaries' = [summaries EXCEPT ![SessionOf(w)].running = TRUE]
    /\ worker' = [worker EXCEPT ![w].at = "count", ![w].cancelled = FALSE]
    /\ lost' = [lost EXCEPT ![SessionOf(w)] = FALSE]
    /\ UNCHANGED <<dbVars, unscheduled, called, accepted, jobs, stopped, stop, due, timeouts,
                   failures>>

\* refreshMemorySummary: a count, the tail, the update.  A cancelled or expired
\* context does not undo a statement that was already answered.
CountMessages(w) ==
    /\ At(w, "count")
    /\ Goes(w, IF messages[SessionOf(w)] < SummaryAfter THEN "settle" ELSE "tail")
    /\ UNCHANGED <<dbVars, unscheduled, called, accepted, jobs, stopped, summaries, stop, due,
                   lost, timeouts, failures>>

ReadTail(w) ==
    /\ At(w, "tail")
    /\ worker' = [worker EXCEPT ![w].at = "write", ![w].seen = messages[SessionOf(w)]]
    /\ UNCHANGED <<dbVars, unscheduled, called, accepted, jobs, stopped, summaries, stop, due,
                   lost, timeouts, failures>>

WriteSummary(w) ==
    /\ At(w, "write")
    /\ summary' = [summary EXCEPT ![SessionOf(w)] = worker[w].seen]
    /\ Goes(w, "settle")
    /\ UNCHANGED <<messages, toolRows, logRows, unscheduled, called, accepted, jobs, stopped,
                   summaries, stop, due, lost, timeouts, failures>>

\* Mutant: the error of the tail query is ignored and an empty tail is stored.
RefreshFails_ignored(w) ==
    /\ ~Exited
    /\ worker[w].at = "tail"
    /\ Fails(w)
    /\ worker' = [worker EXCEPT ![w].at = "write", ![w].seen = 0]
    /\ UNCHANGED <<dbVars, unscheduled, called, accepted, jobs, stopped, summaries, stop, due,
                   lost, timeouts>>

\* The refresh gives up: a newer submission cancelled it, its time is over, a
\* statement failed, or it panicked.
RefreshFails(w) ==
    /\ ~Exited
    /\ worker[w].at \in {"count", "tail", "write"}
    /\ \/ worker[w].cancelled /\ UNCHANGED <<lost, failures>>
       \/ Fails(w) /\ lost' = [lost EXCEPT ![SessionOf(w)] = TRUE]
    /\ Goes(w, "settle")
    /\ UNCHANGED <<dbVars, unscheduled, called, accepted, jobs, stopped, summaries, stop, due,
                   timeouts>>

\* Mutant: the follow-up loop is missing.
Settle_once(w) ==
    /\ At(w, "settle")
    /\ summaries' = [summaries EXCEPT ![SessionOf(w)] = NULL]
    /\ worker' = [worker EXCEPT ![w] = IdleWorker]
    /\ UNCHANGED <<dbVars, unscheduled, called, accepted, jobs, stopped, stop, due, lost,
                   timeouts, failures>>

\* A dirty session is refreshed again, unless the time of the job is over.
Settle(w) ==
    /\ At(w, "settle")
    /\ LET s == SessionOf(w) IN
         IF summaries[s].dirty /\ ~worker[w].expired
         THEN /\ summaries' = [summaries EXCEPT ![s] = [dirty |-> FALSE, running |-> FALSE]]
              /\ Goes(w, "begin")
              /\ UNCHANGED lost
         ELSE /\ lost' = [lost EXCEPT ![s] = @ \/ summaries[s].dirty]
              /\ summaries' = [summaries EXCEPT ![s] = NULL]
              /\ worker' = [worker EXCEPT ![w] = IdleWorker]
    /\ UNCHANGED <<dbVars, unscheduled, called, accepted, jobs, stopped, stop, due, timeouts,
                   failures>>

\* The ten seconds of a job, shared by all its iterations, are over.
JobTimesOut(w) ==
    /\ ~Exited
    /\ worker[w].at \notin {"receive", "exited"}
    /\ ~worker[w].expired
    /\ timeouts < MaxTimeouts
    /\ timeouts' = timeouts + 1
    /\ worker' = [worker EXCEPT ![w].expired = TRUE]
    /\ UNCHANGED <<dbVars, unscheduled, called, accepted, jobs, stopped, summaries, stop, due,
                   lost, failures>>

-----------------------------------------------------------------------------
\* Shutdown.

\* Mutant: the channel is never closed.
Stop_open ==
    /\ stop = "no"
    /\ stop' = "waiting"
    /\ UNCHANGED <<dbVars, unscheduled, called, accepted, jobs, stopped, summaries, worker, due,
                   lost, timeouts, failures>>

Stop ==
    /\ stop = "no"
    /\ stop' = "waiting"
    /\ stopped' = TRUE
    /\ UNCHANGED <<dbVars, unscheduled, called, accepted, jobs, summaries, worker, due, lost,
                   timeouts, failures>>

\* done is closed when every worker has returned.
Drained ==
    /\ stop = "waiting"
    /\ \A w \in Workers : worker[w].at = "exited"
    /\ stop' = "drained"
    /\ UNCHANGED <<dbVars, unscheduled, called, accepted, jobs, stopped, summaries, worker, due,
                   lost, timeouts, failures>>

DrainTimesOut ==
    /\ stop = "waiting"
    /\ timeouts < MaxTimeouts
    /\ timeouts' = timeouts + 1
    /\ stop' = "timed_out"
    /\ UNCHANGED <<dbVars, unscheduled, called, accepted, jobs, stopped, summaries, worker, due,
                   lost, failures>>

\* The process has ended.
Ended == Exited /\ UNCHANGED poolVars

WorkerSteps(w) ==
    \/ Receive(w) \/ WorkerExits(w)
    \/ PersistToolCall(w) \/ PersistAILog(w)
    \/ BeginRefresh(w) \/ CountMessages(w) \/ ReadTail(w) \/ WriteSummary(w)
    \/ RefreshFails(w) \/ Settle(w)

PoolNext ==
    \/ \E s \in Sessions : ChatTurn(s) \/ ScheduleMemorySummary(s)
    \/ \E c \in ToolCalls : Submit(c)
    \/ \E w \in Workers : WorkerSteps(w) \/ JobTimesOut(w)
    \/ Stop \/ Drained \/ DrainTimesOut \/ Ended

PoolSpec == PoolInit /\ [][PoolNext]_poolVars

\* The scheduler runs every goroutine, a statement is answered, and main waits.
PoolLiveSpec ==
    /\ PoolSpec
    /\ \A w \in Workers : WF_poolVars(WorkerSteps(w))
    /\ WF_poolVars(Drained)

-----------------------------------------------------------------------------
Carriers(s) == {w \in Workers : worker[w].job = SummaryJob(s)}

\* A session that has a state has exactly one job, queued or being run by one
\* worker; one without a state has none, and its summary covers the messages every
\* accepted submission was made after, unless its last refresh failed or ran out of
\* time. Submissions, cancelled iterations and the follow-up loop neither make two
\* refreshes of a session nor leave a cancelled one without its follow-up.
OneRefreshUpToDate ==
    \A s \in Sessions :
        LET queued == {i \in DOMAIN jobs : jobs[i] = SummaryJob(s)} IN
        /\ Cardinality(queued) + Cardinality(Carriers(s)) = IF summaries[s] = NULL THEN 0 ELSE 1
        /\ summaries[s] = NULL /\ ~lost[s] /\ due[s] >= SummaryAfter => summary[s] >= due[s]

\* The stored summary is never replaced by one built from an older tail,
\* whichever refreshes were cancelled, coalesced or repeated in between.
SummaryNeverGoesBack == [][\A s \in Sessions : summary'[s] >= summary[s]]_summary

\* When Stop returns because the workers are done, every job the pool accepted
\* has run: the audit rows are written and no summary is owed, as long as no
\* statement failed and no timer fired.
DrainRunsEverything ==
    stop = "drained" /\ failures = 0 /\ timeouts = 0 =>
        /\ accepted \subseteq toolRows \cap logRows
        /\ \A s \in Sessions : due[s] >= SummaryAfter => summary[s] >= due[s]

\* Each accepted submission is eventually covered by a stored summary, unless its
\* refresh failed or ran out of time, or the process ended with the drain's timeout.
SubmissionsAreServed == \A s \in Sessions :
    due[s] >= SummaryAfter /\ due[s] > summary[s]
        ~> summary[s] >= due[s] \/ lost[s] \/ stop = "timed_out"

\* A server that stops ends: by draining, or with its timeout.
StopDrains == stop = "waiting" ~> stop \in {"drained", "timed_out"}
=============================================================================
