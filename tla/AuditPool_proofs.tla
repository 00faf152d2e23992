-------------------------- MODULE AuditPool_proofs --------------------------
(***************************************************************************)
(* Theorems of AuditPool, for all sets of sessions, tool calls and         *)
(* workers, every buffer and any number of timers and failures.            *)
(*                                                                         *)
(* The argument: a session has at most one job, in the queue or with one   *)
(* worker.  So the worker that writes a summary has read the tail after    *)
(* every summary stored before, and it is the only one that can leave a    *)
(* submission uncovered; a submission it has not seen has marked the       *)
(* state dirty.                                                            *)
(***************************************************************************)
EXTENDS AuditPool, SequenceTheorems, FiniteSetTheorems, TLAPS

Stops == {"no", "waiting", "drained", "timed_out"}

PoolTypes ==
    /\ messages \in [Sessions -> Nat]
    /\ summary \in [Sessions -> Nat]
    /\ due \in [Sessions -> Nat]
    /\ lost \in [Sessions -> BOOLEAN]
    /\ summaries \in [Sessions -> MemorySummaryState \cup {NULL}]
    /\ worker \in [Workers -> Worker]
    /\ jobs \in Seq(Jobs)
    /\ accepted \subseteq ToolCalls
    /\ stop \in Stops
    /\ timeouts \in Nat
    /\ failures \in Nat

Auditing == {"tool_call", "ai_log"}
Refreshing == {"begin", "count", "tail", "write", "settle"}

\* The job of a worker fits its step.
Busy(w) ==
    /\ worker[w].at \in {"receive", "exited"} <=> worker[w].job = NULL
    /\ worker[w].at \in Auditing => \E c \in ToolCalls : worker[w].job = AuditJob(c)
    /\ worker[w].at \in Refreshing => \E s \in Sessions : worker[w].job = SummaryJob(s)

Queued(j) == \E i \in 1..Len(jobs) : jobs[i] = j

\* A session with a state has one job, a session without has none.
OneJob(s) ==
    /\ \A i, j \in 1..Len(jobs) : jobs[i] = SummaryJob(s) /\ jobs[j] = SummaryJob(s) => i = j
    /\ \A v, w \in Carriers(s) : v = w
    /\ Queued(SummaryJob(s)) => Carriers(s) = {}
    /\ summaries[s] = NULL <=> ~Queued(SummaryJob(s)) /\ Carriers(s) = {}

Covered(s) == ~lost[s] /\ due[s] >= SummaryAfter => summary[s] >= due[s]

\* What the refresh of s has read, and what it still owes.
Owes(s, w) ==
    /\ worker[w].at = "write" => worker[w].seen >= summary[s] /\ worker[w].seen <= messages[s]
    /\ worker[w].at = "write" /\ ~summaries[s].dirty => worker[w].seen >= due[s]
    /\ worker[w].at = "settle" /\ ~summaries[s].dirty => Covered(s)
    /\ worker[w].at \in {"count", "tail", "write"} /\ worker[w].cancelled => summaries[s].dirty

Fresh(s) ==
    /\ due[s] <= messages[s] /\ summary[s] <= messages[s]
    /\ summaries[s] = NULL => Covered(s)
    /\ \A w \in Carriers(s) : Owes(s, w)

Clean == failures = 0 /\ timeouts = 0

\* An accepted audit job waits, is being run, or has written its rows.
Audited(c) ==
    \/ Queued(AuditJob(c))
    \/ \E w \in Workers : worker[w].job = AuditJob(c)
    \/ c \in toolRows \cap logRows

\* While nothing has failed, nothing is lost.
Undisturbed == Clean =>
    /\ \A s \in Sessions : ~lost[s]
    /\ \A w \in Workers : ~worker[w].expired
    /\ \A w \in Workers : worker[w].at = "ai_log" => worker[w].job.of \in toolRows
    /\ \A c \in accepted : Audited(c)

\* Workers leave when the closed queue is empty, and it stays empty.
Stopping ==
    /\ stop # "no" => stopped
    /\ \A w \in Workers : worker[w].at = "exited" => stopped /\ jobs = <<>>
    /\ stop = "drained" => \A w \in Workers : worker[w].at = "exited"

IInv ==
    /\ PoolTypes
    /\ \A w \in Workers : Busy(w)
    /\ \A s \in Sessions : OneJob(s) /\ Fresh(s)
    /\ Undisturbed
    /\ Stopping

-----------------------------------------------------------------------------
(* Jobs and the queue. *)

LEMMA JobKinds ==
  /\ \A s, t : SummaryJob(s) = SummaryJob(t) => s = t
  /\ \A c, s : AuditJob(c) # SummaryJob(s)
  /\ \A c \in ToolCalls : AuditJob(c) \in Jobs /\ AuditJob(c) # NULL /\ AuditJob(c).of = c
                          /\ AuditJob(c).kind = "audit"
  /\ \A s \in Sessions : SummaryJob(s) \in Jobs /\ SummaryJob(s) # NULL /\ SummaryJob(s).of = s
                         /\ SummaryJob(s).kind # "audit"
  <1>1. \A s, t : SummaryJob(s) = SummaryJob(t) => s = t
    BY DEF SummaryJob
  <1>2. \A c, s : AuditJob(c) # SummaryJob(s)
    BY DEF AuditJob, SummaryJob
  <1>3. \A c \in ToolCalls : AuditJob(c) \in Jobs
    BY DEF Jobs
  <1>4. \A s \in Sessions : SummaryJob(s) \in Jobs
    BY DEF Jobs
  <1>5. QED
    BY <1>1, <1>2, <1>3, <1>4, PoolNullAssumption DEF AuditJob, SummaryJob

LEMMA QueueGrows ==
  ASSUME jobs \in Seq(Jobs), NEW j \in Jobs, jobs' = Append(jobs, j)
  PROVE  /\ jobs' \in Seq(Jobs) /\ Len(jobs') = Len(jobs) + 1 /\ Len(jobs) \in Nat
         /\ jobs'[Len(jobs) + 1] = j
         /\ \A i \in 1..Len(jobs) : jobs'[i] = jobs[i]
         /\ \A k : Queued(k)' <=> Queued(k) \/ k = j
  <1>1. /\ jobs' \in Seq(Jobs) /\ Len(jobs') = Len(jobs) + 1 /\ Len(jobs) \in Nat
        /\ jobs'[Len(jobs) + 1] = j
        /\ \A i \in 1..Len(jobs) : jobs'[i] = jobs[i]
    BY AppendProperties
  <1>2. 1..Len(jobs') = 1..Len(jobs) \cup {Len(jobs) + 1}
    BY <1>1
  <1>3. QED
    BY <1>1, <1>2 DEF Queued

LEMMA QueueShrinks ==
  ASSUME jobs \in Seq(Jobs), jobs # <<>>, jobs' = Tail(jobs)
  PROVE  /\ jobs' \in Seq(Jobs) /\ Len(jobs') = Len(jobs) - 1 /\ Len(jobs) \in Nat \ {0}
         /\ jobs[1] \in Jobs /\ Head(jobs) = jobs[1]
         /\ \A i \in 1..Len(jobs') : jobs'[i] = jobs[i + 1]
         /\ \A k : Queued(k) <=> Queued(k)' \/ k = jobs[1]
  <1>1. /\ jobs' \in Seq(Jobs) /\ Len(jobs') = Len(jobs) - 1 /\ Len(jobs) \in Nat \ {0}
        /\ jobs[1] \in Jobs /\ Head(jobs) = jobs[1]
        /\ \A i \in 1..Len(jobs') : jobs'[i] = jobs[i + 1]
    BY HeadTailProperties
  <1>2. ASSUME NEW k, Queued(k) PROVE Queued(k)' \/ k = jobs[1]
    <2>1. PICK i \in 1..Len(jobs) : jobs[i] = k
      BY <1>2 DEF Queued
    <2>2. CASE i = 1
      BY <2>1, <2>2
    <2>3. CASE i # 1
      <3>1. i - 1 \in 1..Len(jobs') /\ jobs'[i - 1] = k
        BY <1>1, <2>1, <2>3
      <3>2. QED
        BY <3>1 DEF Queued
    <2>4. QED
      BY <2>2, <2>3
  <1>3. ASSUME NEW k, Queued(k)' PROVE Queued(k)
    <2>1. PICK i \in 1..Len(jobs') : jobs'[i] = k
      BY <1>3 DEF Queued
    <2>2. i + 1 \in 1..Len(jobs) /\ jobs[i + 1] = k
      BY <1>1, <2>1
    <2>3. QED
      BY <2>2 DEF Queued
  <1>4. Queued(jobs[1])
    BY <1>1 DEF Queued
  <1>5. QED
    BY <1>1, <1>2, <1>3, <1>4

LEMMA EmptyQueue == ASSUME jobs = <<>>, NEW j PROVE ~Queued(j)
  BY DEF Queued

-----------------------------------------------------------------------------
(* Sessions that a step does not concern. *)

LEMMA SameJobs ==
  ASSUME NEW s \in Sessions, OneJob(s), jobs' = jobs,
         \A w \in Workers : worker'[w].job = SummaryJob(s) <=> worker[w].job = SummaryJob(s),
         summaries'[s] = NULL <=> summaries[s] = NULL
  PROVE  OneJob(s)'
  <1>1. Carriers(s)' = Carriers(s) /\ (Queued(SummaryJob(s))' <=> Queued(SummaryJob(s)))
    BY DEF Carriers, Queued, SummaryJob
  <1>2. QED
    BY <1>1 DEF OneJob, SummaryJob

LEMMA SameWork ==
  ASSUME NEW w, Busy(w), worker'[w].job = worker[w].job, worker'[w].at = worker[w].at
  PROVE  Busy(w)'
  BY DEF Busy, AuditJob, SummaryJob

\* The refresh of s is where it was, and only messages were added.
LEMMA StaysFresh ==
  ASSUME NEW s \in Sessions, Fresh(s), PoolTypes, messages'[s] \in Nat, messages'[s] >= messages[s],
         summary'[s] = summary[s], due'[s] = due[s], lost'[s] = lost[s], summaries'[s] = summaries[s],
         \A w \in Workers : worker'[w].job = SummaryJob(s) =>
            /\ worker'[w].job = worker[w].job /\ worker'[w].at = worker[w].at
            /\ worker'[w].seen = worker[w].seen /\ worker'[w].cancelled = worker[w].cancelled
  PROVE  Fresh(s)'
  <1>1. messages[s] \in Nat /\ summary[s] \in Nat /\ due[s] \in Nat /\ \A w \in Workers : worker[w].seen \in Nat
    BY DEF PoolTypes, Worker
  <1>2. Covered(s)' <=> Covered(s)
    BY DEF Covered
  <1>3. due'[s] <= messages'[s] /\ summary'[s] <= messages'[s] /\ (summaries'[s] = NULL => Covered(s)')
    BY <1>1, <1>2 DEF Fresh
  <1>4. ASSUME NEW w \in Carriers(s)' PROVE Owes(s, w)'
    <2>1. w \in Workers /\ worker'[w].job = SummaryJob(s)
      BY <1>4 DEF Carriers, SummaryJob
    <2>2. w \in Carriers(s) /\ Owes(s, w)
      BY <2>1 DEF Carriers, Fresh
    <2>3. QED
      BY <1>1, <1>2, <2>1, <2>2 DEF Owes
  <1>5. QED
    BY <1>3, <1>4 DEF Fresh

-----------------------------------------------------------------------------
(* Steps by their shape. *)

\* Nothing of the jobs changes.
QuietStep ==
    /\ UNCHANGED <<summary, accepted, toolRows, logRows, jobs, summaries, due, lost, failures>>
    /\ Clean' => worker' = worker
    /\ \A w \in Workers : /\ worker'[w].job = worker[w].job /\ worker'[w].at = worker[w].at
                          /\ worker'[w].seen = worker[w].seen /\ worker'[w].cancelled = worker[w].cancelled
    /\ \A s \in Sessions : messages'[s] >= messages[s]
    /\ Clean' => Clean

LEMMA QuietInv ==
  ASSUME IInv, QuietStep, PoolTypes', Stopping'
  PROVE  IInv'
  <1>1. ASSUME NEW w \in Workers PROVE Busy(w)'
    BY DEF IInv, QuietStep, Busy, AuditJob, SummaryJob
  <1>2. ASSUME NEW s \in Sessions PROVE OneJob(s)'
    BY SameJobs DEF IInv, QuietStep
  <1>3. ASSUME NEW s \in Sessions PROVE Fresh(s)'
    <2>1. messages'[s] \in Nat
      BY DEF PoolTypes
    <2>2. Fresh(s) /\ PoolTypes
      BY DEF IInv
    <2>3. QED
      BY <2>1, <2>2, StaysFresh DEF QuietStep
  <1>4. ASSUME Clean' PROVE Undisturbed'
    BY <1>4 DEF IInv, QuietStep, Undisturbed, Audited, Queued, AuditJob
  <1>5. QED
    BY <1>1, <1>2, <1>3, <1>4 DEF IInv, Undisturbed

\* Worker w takes a step in the refresh of session s.
RefreshStep(w, s) ==
    /\ worker[w].job = SummaryJob(s) /\ worker'[w].job = SummaryJob(s)
    /\ worker'[w].at \in Refreshing /\ worker'[w].expired = worker[w].expired
    /\ \A v \in Workers : v # w => worker'[v] = worker[v]
    /\ \A t \in Sessions : t # s => summary'[t] = summary[t] /\ lost'[t] = lost[t] /\ summaries'[t] = summaries[t]
    /\ summaries'[s] # NULL
    /\ UNCHANGED <<messages, due, jobs, accepted, toolRows, logRows, stop, stopped>>
    /\ Clean' => Clean /\ ~lost'[s]
    /\ summary'[s] <= messages[s]
    /\ Owes(s, w)'

LEMMA RefreshInv ==
  ASSUME IInv, NEW w \in Workers, NEW s \in Sessions, RefreshStep(w, s), PoolTypes'
  PROVE  IInv'
  <1>0. /\ PoolTypes /\ Undisturbed /\ Stopping
        /\ \A v \in Workers : Busy(v) /\ \A t \in Sessions : OneJob(t) /\ Fresh(t)
    BY DEF IInv
  <1>a. /\ worker[w].job = SummaryJob(s) /\ worker'[w].job = SummaryJob(s)
        /\ worker'[w].at \in Refreshing
        /\ \A v \in Workers : v # w => worker'[v] = worker[v]
        /\ UNCHANGED <<messages, due, jobs, accepted, toolRows, logRows, stop, stopped>>
    BY DEF RefreshStep
  <1>b. w \in Carriers(s) /\ summaries[s] # NULL
    BY <1>0, <1>a DEF Carriers, OneJob
  <1>c. \A v \in Workers : worker'[v].job = worker[v].job
    BY <1>a
  <1>1. ASSUME NEW v \in Workers PROVE Busy(v)'
    <2>1. CASE v = w
      BY <1>a, <2>1, JobKinds DEF Busy, Refreshing, Auditing, SummaryJob
    <2>2. CASE v # w
      BY <1>0, <1>a, <2>2 DEF Busy, AuditJob, SummaryJob
    <2>3. QED
      BY <2>1, <2>2
  <1>2. ASSUME NEW t \in Sessions PROVE OneJob(t)'
    <2>1. summaries'[t] = NULL <=> summaries[t] = NULL
      BY <1>b DEF RefreshStep
    <2>2. QED
      BY <1>0, <1>a, <1>c, <2>1, SameJobs
  <1>3. ASSUME NEW t \in Sessions PROVE Fresh(t)'
    <2>1. CASE t = s
      <3>1. \A v \in Carriers(s)' : v = w
        BY <1>0, <1>b, <1>c DEF Carriers, SummaryJob, OneJob
      <3>2. QED
        BY <1>0, <2>1, <3>1 DEF Fresh, RefreshStep
    <2>2. CASE t # s
      <3>1. worker'[w].job # SummaryJob(t)
        BY <1>a, <2>2, JobKinds
      <3>2. messages'[t] \in Nat /\ messages'[t] >= messages[t]
        BY <1>0, <1>a DEF PoolTypes
      <3>3. \A v \in Workers : worker'[v].job = SummaryJob(t) => worker'[v] = worker[v]
        BY <1>a, <3>1
      <3>4. summary'[t] = summary[t] /\ due'[t] = due[t] /\ lost'[t] = lost[t] /\ summaries'[t] = summaries[t]
        BY <2>2 DEF RefreshStep
      <3>5. QED
        BY <1>0, <3>2, <3>3, <3>4, StaysFresh
    <2>3. QED
      BY <2>1, <2>2
  <1>4. ASSUME Clean' PROVE Undisturbed'
    <2>1. Clean /\ \A t \in Sessions : ~lost'[t]
      BY <1>0, <1>4 DEF RefreshStep, Undisturbed
    <2>2. \A v \in Workers : ~worker'[v].expired
      BY <1>0, <2>1 DEF RefreshStep, Undisturbed
    <2>3. \A v \in Workers : worker'[v].at = "ai_log" => worker'[v].job.of \in toolRows'
      BY <1>0, <1>a, <2>1 DEF Undisturbed, Refreshing
    <2>4. \A c \in accepted' : Audited(c)'
      BY <1>0, <1>a, <1>c, <2>1 DEF Undisturbed, Audited, Queued, AuditJob
    <2>5. QED
      BY <2>1, <2>2, <2>3, <2>4 DEF Undisturbed
  <1>5. Stopping'
    <2>1. worker[w].at # "exited"
      BY <1>0, <1>a, JobKinds DEF Busy
    <2>2. QED
      BY <1>0, <1>a, <2>1 DEF Stopping, Refreshing
  <1>6. QED
    BY <1>1, <1>2, <1>3, <1>4, <1>5 DEF IInv, Undisturbed

-----------------------------------------------------------------------------
(* The refresh of a session, statement by statement. *)

LEMMA StepNames ==
  /\ {"begin", "count", "tail", "write", "settle"} \subseteq Refreshing \cap Steps
  /\ {"receive", "exited", "tool_call", "ai_log"} \subseteq Steps
  BY DEF Refreshing, Steps

\* What a worker remembers when it moves on in its refresh.
Moved(r, l, n) == [r EXCEPT !.at = l, !.seen = n]
Begun(r) == [r EXCEPT !.at = "count", !.cancelled = FALSE]

LEMMA WorkerMoves ==
  ASSUME NEW r \in Worker, NEW l \in Steps, NEW n \in Nat
  PROVE  /\ Moved(r, l, n) \in Worker /\ Moved(r, l, n).at = l /\ Moved(r, l, n).seen = n
         /\ Moved(r, l, n).job = r.job
         /\ Moved(r, l, n).expired = r.expired /\ Moved(r, l, n).cancelled = r.cancelled
  BY DEF Worker, Moved

LEMMA WorkerBegins ==
  ASSUME NEW r \in Worker
  PROVE  /\ Begun(r) \in Worker /\ Begun(r).at = "count" /\ Begun(r).job = r.job
         /\ Begun(r).expired = r.expired /\ Begun(r).cancelled = FALSE
  BY StepNames DEF Worker, Begun

LEMMA Refresher ==
  ASSUME IInv, NEW w \in Workers, worker[w].at \in Refreshing
  PROVE  /\ SessionOf(w) \in Sessions /\ worker[w].job = SummaryJob(SessionOf(w))
         /\ w \in Carriers(SessionOf(w)) /\ Owes(SessionOf(w), w)
         /\ summaries[SessionOf(w)] \in MemorySummaryState /\ summaries[SessionOf(w)] # NULL
  <1>1. PICK s \in Sessions : worker[w].job = SummaryJob(s)
    BY DEF IInv, Busy
  <1>2. SessionOf(w) = s
    BY <1>1, JobKinds DEF SessionOf
  <1>3. w \in Carriers(s) /\ OneJob(s) /\ Fresh(s)
    BY <1>1 DEF Carriers, IInv
  <1>4. summaries[s] # NULL /\ Owes(s, w)
    BY <1>3 DEF OneJob, Fresh
  <1>5. QED
    BY <1>1, <1>2, <1>3, <1>4 DEF IInv, PoolTypes

LEMMA FailuresCount ==
  ASSUME IInv, NEW w \in Workers, Fails(w), timeouts' = timeouts
  PROVE  failures' \in Nat /\ ~Clean'
  <1>1. CASE worker[w].expired /\ UNCHANGED failures
    BY <1>1 DEF IInv, PoolTypes, Undisturbed, Clean
  <1>2. CASE failures < MaxFailures /\ failures' = failures + 1
    BY <1>2 DEF IInv, PoolTypes, Clean
  <1>3. QED
    BY <1>1, <1>2 DEF Fails

LEMMA BeginInv == ASSUME IInv, NEW w \in Workers, BeginRefresh(w) PROVE IInv'
  <1>s. PICK s : s = SessionOf(w)
    OBVIOUS
  <1>0. PoolTypes /\ worker[w].at \in Refreshing
    BY DEF IInv, BeginRefresh, At, Refreshing
  <1>1. /\ s \in Sessions /\ worker[w].job = SummaryJob(s) /\ summaries[s] \in MemorySummaryState
        /\ Fresh(s)
    BY <1>0, <1>s, Refresher DEF IInv
  <1>2. /\ worker'[w] = Begun(worker[w]) /\ worker[w] \in Worker
        /\ \A v \in Workers : v # w => worker'[v] = worker[v]
        /\ worker' = [worker EXCEPT ![w] = Begun(worker[w])]
    BY <1>0 DEF BeginRefresh, PoolTypes, Begun
  <1>3. worker'[w].at = "count" /\ worker'[w].job = worker[w].job /\ worker'[w].expired = worker[w].expired
        /\ worker'[w].cancelled = FALSE /\ worker'[w] \in Worker
    BY <1>2, WorkerBegins
  <1>4. /\ summaries'[s] = [summaries[s] EXCEPT !.running = TRUE]
        /\ \A t \in Sessions : t # s => summaries'[t] = summaries[t] /\ lost'[t] = lost[t]
        /\ lost'[s] = FALSE
        /\ lost' \in [Sessions -> BOOLEAN]
    BY <1>0, <1>s, <1>1 DEF BeginRefresh, PoolTypes
  <1>5. summaries'[s] \in MemorySummaryState /\ summaries'[s] # NULL
    BY <1>1, <1>4, PoolNullAssumption DEF MemorySummaryState
  <1>6. summaries' \in [Sessions -> MemorySummaryState \cup {NULL}]
    BY <1>0, <1>s, <1>1, <1>5 DEF BeginRefresh, PoolTypes
  <1>7. worker' \in [Workers -> Worker]
    BY <1>0, <1>2, <1>3 DEF PoolTypes
  <1>8. PoolTypes'
    BY <1>0, <1>4, <1>6, <1>7 DEF PoolTypes, BeginRefresh, dbVars
  <1>9. RefreshStep(w, s)
    BY <1>s, <1>1, <1>2, <1>3, <1>4, <1>5
       DEF RefreshStep, BeginRefresh, dbVars, Clean, Owes, Refreshing, Fresh
  <1>10. QED
    BY <1>1, <1>8, <1>9, RefreshInv

\* A step that moves w on within its refresh and changes none of the tables.
LEMMA GoesOn ==
  ASSUME IInv, NEW w \in Workers, worker[w].at \in Refreshing, NEW l \in Refreshing \cap Steps, NEW n \in Nat,
         worker' = [worker EXCEPT ![w] = Moved(worker[w], l, n)]
  PROVE  /\ worker' \in [Workers -> Worker]
         /\ worker'[w].at = l /\ worker'[w].job = SummaryJob(SessionOf(w)) /\ worker'[w].seen = n
         /\ worker'[w].expired = worker[w].expired /\ worker'[w].cancelled = worker[w].cancelled
         /\ \A v \in Workers : v # w => worker'[v] = worker[v]
  <1>0. worker \in [Workers -> Worker]
    BY DEF IInv, PoolTypes
  <1>1. /\ worker'[w] = Moved(worker[w], l, n)
        /\ worker[w] \in Worker
        /\ \A v \in Workers : v # w => worker'[v] = worker[v]
    BY <1>0
  <1>2. /\ worker'[w] \in Worker /\ worker'[w].at = l /\ worker'[w].seen = n
        /\ worker'[w].job = worker[w].job
        /\ worker'[w].expired = worker[w].expired /\ worker'[w].cancelled = worker[w].cancelled
    BY <1>1, WorkerMoves
  <1>3. QED
    BY <1>0, <1>1, <1>2, Refresher

LEMMA GoesSame ==
  ASSUME PoolTypes, NEW w \in Workers, NEW l, Goes(w, l)
  PROVE  worker' = [worker EXCEPT ![w] = Moved(worker[w], l, worker[w].seen)] /\ worker[w].seen \in Nat
  <1>1. worker[w] \in Worker /\ worker' = [worker EXCEPT ![w] = [worker[w] EXCEPT !.at = l]]
    BY DEF PoolTypes, Goes
  <1>2. PICK r \in Worker : r = worker[w]
    BY <1>1
  <1>3. [r EXCEPT !.at = l] = Moved(r, l, r.seen) /\ r.seen \in Nat
    BY DEF Worker, Moved
  <1>4. QED
    BY <1>1, <1>2, <1>3

LEMMA CountInv == ASSUME IInv, NEW w \in Workers, CountMessages(w) PROVE IInv'
  <1>s. PICK s : s = SessionOf(w)
    OBVIOUS
  <1>l. PICK l \in {"settle", "tail"} : l = "settle" <=> messages[s] < SummaryAfter
    OBVIOUS
  <1>0. PoolTypes /\ worker[w].at = "count" /\ worker[w].at \in Refreshing /\ l \in Refreshing \cap Steps
    BY StepNames DEF IInv, CountMessages, At, Refreshing
  <1>1. /\ s \in Sessions /\ worker[w].job = SummaryJob(s) /\ summaries[s] # NULL
        /\ Fresh(s) /\ Owes(s, w)
    BY <1>0, <1>s, Refresher DEF IInv
  <1>2. /\ worker' \in [Workers -> Worker]
        /\ worker'[w].at = l /\ worker'[w].job = SummaryJob(s)
        /\ worker'[w].expired = worker[w].expired /\ worker'[w].cancelled = worker[w].cancelled
        /\ \A v \in Workers : v # w => worker'[v] = worker[v]
    <2>1. Goes(w, l)
      BY <1>s, <1>l DEF CountMessages
    <2>2. QED
      BY <1>0, <1>s, <2>1, GoesSame, GoesOn
  <1>3. UNCHANGED <<messages, summary, toolRows, logRows, accepted, jobs, stopped, summaries, stop, due, lost,
                    timeouts, failures>>
    BY DEF CountMessages, dbVars
  <1>4. messages[s] < SummaryAfter => Covered(s)
    BY <1>0, <1>1, PoolAssumption DEF Fresh, Covered, PoolTypes
  <1>5. Owes(s, w)'
    BY <1>l, <1>0, <1>1, <1>2, <1>3, <1>4 DEF Owes, Covered
  <1>6. PoolTypes'
    BY <1>0, <1>2, <1>3 DEF PoolTypes
  <1>7. Clean' => Clean /\ ~lost'[s]
    BY <1>1, <1>3 DEF Clean, IInv, Undisturbed
  <1>8. RefreshStep(w, s)
    BY <1>0, <1>1, <1>2, <1>3, <1>5, <1>7 DEF RefreshStep, Fresh
  <1>9. QED
    BY <1>1, <1>6, <1>8, RefreshInv

LEMMA TailInv == ASSUME IInv, NEW w \in Workers, ReadTail(w) PROVE IInv'
  <1>s. PICK s : s = SessionOf(w)
    OBVIOUS
  <1>0. PoolTypes /\ worker[w].at = "tail" /\ worker[w].at \in Refreshing
    BY DEF IInv, ReadTail, At, Refreshing
  <1>1. /\ s \in Sessions /\ worker[w].job = SummaryJob(s) /\ summaries[s] # NULL
        /\ Fresh(s) /\ Owes(s, w) /\ messages[s] \in Nat
    BY <1>0, <1>s, Refresher DEF IInv, PoolTypes
  <1>2. /\ worker' \in [Workers -> Worker]
        /\ worker'[w].at = "write" /\ worker'[w].job = SummaryJob(s) /\ worker'[w].seen = messages[s]
        /\ worker'[w].expired = worker[w].expired /\ worker'[w].cancelled = worker[w].cancelled
        /\ \A v \in Workers : v # w => worker'[v] = worker[v]
    <2>1. PICK n \in Nat : n = messages[s]
      BY <1>1
    <2>2. worker' = [worker EXCEPT ![w] = Moved(worker[w], "write", n)]
      BY <1>0, <1>s, <2>1 DEF ReadTail, PoolTypes, Moved
    <2>3. "write" \in Refreshing \cap Steps
      BY StepNames
    <2>4. /\ worker' \in [Workers -> Worker]
          /\ worker'[w].at = "write" /\ worker'[w].job = SummaryJob(SessionOf(w)) /\ worker'[w].seen = n
          /\ worker'[w].expired = worker[w].expired /\ worker'[w].cancelled = worker[w].cancelled
          /\ \A v \in Workers : v # w => worker'[v] = worker[v]
      BY <1>0, <2>2, <2>3, GoesOn, Zenon
    <2>5. QED
      BY <1>s, <2>1, <2>4
  <1>3. UNCHANGED <<messages, summary, toolRows, logRows, accepted, jobs, stopped, summaries, stop, due, lost,
                    timeouts, failures>>
    BY DEF ReadTail, dbVars
  <1>4. Owes(s, w)'
    BY <1>0, <1>1, <1>2, <1>3 DEF Owes, Fresh, PoolTypes
  <1>5. PoolTypes'
    BY <1>0, <1>2, <1>3 DEF PoolTypes
  <1>6. Clean' => Clean /\ ~lost'[s]
    BY <1>1, <1>3 DEF Clean, IInv, Undisturbed
  <1>7. RefreshStep(w, s)
    BY <1>0, <1>1, <1>2, <1>3, <1>4, <1>6 DEF RefreshStep, Fresh, Refreshing
  <1>8. QED
    BY <1>1, <1>5, <1>7, RefreshInv

LEMMA WriteInv == ASSUME IInv, NEW w \in Workers, WriteSummary(w) PROVE IInv'
  <1>s. PICK s : s = SessionOf(w)
    OBVIOUS
  <1>0. PoolTypes /\ worker[w].at = "write" /\ worker[w].at \in Refreshing
    BY DEF IInv, WriteSummary, At, Refreshing
  <1>1. /\ s \in Sessions /\ worker[w].job = SummaryJob(s) /\ summaries[s] # NULL
        /\ Fresh(s) /\ Owes(s, w)
    BY <1>0, <1>s, Refresher DEF IInv
  <1>2. /\ worker' \in [Workers -> Worker] /\ worker[w].seen \in Nat
        /\ worker'[w].at = "settle" /\ worker'[w].job = SummaryJob(s)
        /\ worker'[w].expired = worker[w].expired
        /\ \A v \in Workers : v # w => worker'[v] = worker[v]
    <2>1. Goes(w, "settle")
      BY DEF WriteSummary
    <2>2. QED
      BY <1>0, <1>s, <2>1, GoesSame, GoesOn, StepNames
  <1>3. UNCHANGED <<messages, toolRows, logRows, accepted, jobs, stopped, summaries, stop, due, lost,
                    timeouts, failures>>
    BY DEF WriteSummary
  <1>4. /\ summary' \in [Sessions -> Nat] /\ summary'[s] = worker[w].seen
        /\ \A t \in Sessions : t # s => summary'[t] = summary[t]
    BY <1>0, <1>s, <1>1, <1>2 DEF WriteSummary, PoolTypes
  <1>5. Owes(s, w)' /\ summary'[s] <= messages[s]
    BY <1>0, <1>1, <1>2, <1>3, <1>4 DEF Owes, Covered
  <1>6. PoolTypes'
    BY <1>0, <1>2, <1>3, <1>4 DEF PoolTypes
  <1>7. Clean' => Clean /\ ~lost'[s]
    BY <1>1, <1>3 DEF Clean, IInv, Undisturbed
  <1>8. RefreshStep(w, s)
    BY <1>0, <1>1, <1>2, <1>3, <1>4, <1>5, <1>7 DEF RefreshStep, Refreshing
  <1>9. QED
    BY <1>1, <1>6, <1>8, RefreshInv

LEMMA FailInv == ASSUME IInv, NEW w \in Workers, RefreshFails(w) PROVE IInv'
  <1>s. PICK s : s = SessionOf(w)
    OBVIOUS
  <1>0. PoolTypes /\ worker[w].at \in {"count", "tail", "write"} /\ worker[w].at \in Refreshing
    BY DEF IInv, RefreshFails, Refreshing
  <1>1. /\ s \in Sessions /\ worker[w].job = SummaryJob(s) /\ summaries[s] # NULL
        /\ Fresh(s) /\ Owes(s, w)
    BY <1>0, <1>s, Refresher DEF IInv
  <1>2. /\ worker' \in [Workers -> Worker]
        /\ worker'[w].at = "settle" /\ worker'[w].job = SummaryJob(s)
        /\ worker'[w].expired = worker[w].expired
        /\ \A v \in Workers : v # w => worker'[v] = worker[v]
    <2>1. Goes(w, "settle")
      BY DEF RefreshFails
    <2>2. QED
      BY <1>0, <1>s, <2>1, GoesSame, GoesOn, StepNames
  <1>3. UNCHANGED <<messages, summary, toolRows, logRows, accepted, jobs, stopped, summaries, stop, due,
                    timeouts>>
    BY DEF RefreshFails, dbVars
  <1>4. CASE worker[w].cancelled /\ UNCHANGED <<lost, failures>>
    <2>1. summaries[s].dirty
      BY <1>0, <1>1, <1>4 DEF Owes
    <2>2. Owes(s, w)'
      BY <1>2, <1>3, <2>1 DEF Owes
    <2>3. Clean' => Clean /\ ~lost'[s]
      BY <1>1, <1>3, <1>4 DEF Clean, IInv, Undisturbed
    <2>4. PoolTypes'
      BY <1>0, <1>2, <1>3, <1>4 DEF PoolTypes
    <2>5. RefreshStep(w, s)
      BY <1>0, <1>1, <1>2, <1>3, <1>4, <2>2, <2>3 DEF RefreshStep, Fresh, Refreshing
    <2>6. QED
      BY <1>1, <2>4, <2>5, RefreshInv
  <1>5. CASE Fails(w) /\ lost' = [lost EXCEPT ![s] = TRUE]
    <2>1. failures' \in Nat /\ ~Clean'
      BY <1>3, <1>5, FailuresCount
    <2>2. lost' \in [Sessions -> BOOLEAN] /\ lost'[s] = TRUE /\ \A t \in Sessions : t # s => lost'[t] = lost[t]
      BY <1>0, <1>1, <1>5 DEF PoolTypes
    <2>3. Owes(s, w)'
      BY <1>2, <1>3, <2>2 DEF Owes, Covered
    <2>4. PoolTypes'
      BY <1>0, <1>2, <1>3, <2>1, <2>2 DEF PoolTypes
    <2>5. RefreshStep(w, s)
      BY <1>0, <1>1, <1>2, <1>3, <2>1, <2>2, <2>3 DEF RefreshStep, Fresh, Refreshing
    <2>6. QED
      BY <1>1, <2>4, <2>5, RefreshInv
  <1>6. QED
    BY <1>s, <1>4, <1>5 DEF RefreshFails

LEMMA Idle ==
  /\ IdleWorker \in Worker /\ IdleWorker.at = "receive" /\ IdleWorker.job = NULL
  /\ IdleWorker.expired = FALSE
  BY StepNames DEF IdleWorker, Worker

LEMMA SettleInv == ASSUME IInv, NEW w \in Workers, Settle(w) PROVE IInv'
  <1>s. PICK s : s = SessionOf(w)
    OBVIOUS
  <1>0. PoolTypes /\ worker[w].at = "settle" /\ worker[w].at \in Refreshing
    BY DEF IInv, Settle, At, Refreshing
  <1>1. /\ s \in Sessions /\ worker[w].job = SummaryJob(s) /\ summaries[s] # NULL
        /\ summaries[s] \in MemorySummaryState
        /\ w \in Carriers(s) /\ OneJob(s) /\ Fresh(s) /\ Owes(s, w)
    BY <1>0, <1>s, Refresher DEF IInv
  <1>2. UNCHANGED <<messages, summary, toolRows, logRows, accepted, jobs, stopped, stop, due,
                    timeouts, failures>>
    BY DEF Settle, dbVars
  <1>3. CASE /\ summaries' = [summaries EXCEPT ![s] = [dirty |-> FALSE, running |-> FALSE]]
             /\ Goes(w, "begin") /\ UNCHANGED lost
    <2>1. /\ worker' \in [Workers -> Worker]
          /\ worker'[w].at = "begin" /\ worker'[w].job = SummaryJob(s)
          /\ worker'[w].expired = worker[w].expired
          /\ \A v \in Workers : v # w => worker'[v] = worker[v]
      BY <1>0, <1>s, <1>3, GoesSame, GoesOn, StepNames
    <2>2. [dirty |-> FALSE, running |-> FALSE] \in MemorySummaryState
      BY DEF MemorySummaryState
    <2>3. /\ summaries' \in [Sessions -> MemorySummaryState \cup {NULL}] /\ summaries'[s] # NULL
          /\ \A t \in Sessions : t # s => summaries'[t] = summaries[t]
      BY <1>0, <1>1, <1>3, <2>2, PoolNullAssumption DEF PoolTypes
    <2>4. PoolTypes'
      BY <1>0, <1>2, <1>3, <2>1, <2>3 DEF PoolTypes
    <2>5. Clean' => Clean /\ ~lost'[s]
      BY <1>1, <1>2, <1>3 DEF Clean, IInv, Undisturbed
    <2>6. RefreshStep(w, s)
      BY <1>1, <1>2, <1>3, <2>1, <2>3, <2>5 DEF RefreshStep, Fresh, Refreshing, Owes
    <2>7. QED
      BY <1>1, <2>4, <2>6, RefreshInv
  <1>4. CASE /\ ~(summaries[s].dirty /\ ~worker[w].expired)
             /\ lost' = [lost EXCEPT ![s] = @ \/ summaries[s].dirty]
             /\ summaries' = [summaries EXCEPT ![s] = NULL]
             /\ worker' = [worker EXCEPT ![w] = IdleWorker]
    <2>1. /\ worker'[w] = IdleWorker /\ worker' \in [Workers -> Worker]
          /\ \A v \in Workers : v # w => worker'[v] = worker[v]
      BY <1>0, <1>4, Idle DEF PoolTypes
    <2>2. /\ summaries' \in [Sessions -> MemorySummaryState \cup {NULL}] /\ summaries'[s] = NULL
          /\ \A t \in Sessions : t # s => summaries'[t] = summaries[t]
      BY <1>0, <1>1, <1>4 DEF PoolTypes
    <2>3. /\ lost' \in [Sessions -> BOOLEAN] /\ (lost'[s] <=> lost[s] \/ summaries[s].dirty)
          /\ \A t \in Sessions : t # s => lost'[t] = lost[t]
      BY <1>0, <1>1, <1>4 DEF PoolTypes, MemorySummaryState
    <2>4. PoolTypes'
      BY <1>0, <1>2, <2>1, <2>2, <2>3 DEF PoolTypes
    <2>5. ASSUME NEW v \in Workers PROVE Busy(v)'
      <3>1. CASE v = w
        BY <2>1, <3>1, Idle DEF Busy, Auditing, Refreshing
      <3>2. CASE v # w
        BY <2>1, <3>2 DEF IInv, Busy, AuditJob, SummaryJob
      <3>3. QED
        BY <3>1, <3>2
    <2>6. \A v \in Workers : worker'[v].job # SummaryJob(s)
      BY <1>1, <2>1, JobKinds, Idle DEF OneJob, Carriers
    <2>7. ASSUME NEW t \in Sessions PROVE OneJob(t)'
      <3>1. CASE t = s
        <4>1. Carriers(s)' = {}
          BY <2>6 DEF Carriers, SummaryJob
        <4>2. ~Queued(SummaryJob(s))'
          BY <1>1, <1>2 DEF OneJob, Queued, SummaryJob
        <4>3. \A i, j \in 1..Len(jobs') : jobs'[i] = SummaryJob(s) /\ jobs'[j] = SummaryJob(s) => i = j
          BY <1>1, <1>2 DEF OneJob
        <4>4. QED
          BY <2>2, <3>1, <4>1, <4>2, <4>3 DEF OneJob, SummaryJob
      <3>2. CASE t # s
        <4>1. \A v \in Workers : worker'[v].job = SummaryJob(t) <=> worker[v].job = SummaryJob(t)
          BY <1>1, <2>1, <3>2, JobKinds, Idle
        <4>2. OneJob(t) /\ (summaries'[t] = NULL <=> summaries[t] = NULL)
          BY <2>2, <3>2 DEF IInv
        <4>3. QED
          BY <1>2, <4>1, <4>2, SameJobs
      <3>3. QED
        BY <3>1, <3>2
    <2>8. ASSUME NEW t \in Sessions PROVE Fresh(t)'
      <3>1. CASE t = s
        <4>1. Covered(s)'
          BY <1>0, <1>1, <1>2, <2>3 DEF Owes, Covered
        <4>2. Carriers(s)' = {}
          BY <2>6 DEF Carriers, SummaryJob
        <4>3. QED
          BY <1>1, <1>2, <3>1, <4>1, <4>2 DEF Fresh
      <3>2. CASE t # s
        <4>1. messages'[t] \in Nat /\ messages'[t] >= messages[t]
          BY <1>0, <1>2 DEF PoolTypes
        <4>2. \A v \in Workers : worker'[v].job = SummaryJob(t) => worker'[v] = worker[v]
          BY <2>1, JobKinds, Idle
        <4>3. Fresh(t)
          BY DEF IInv
        <4>4. QED
          BY <1>0, <1>2, <2>2, <2>3, <3>2, <4>1, <4>2, <4>3, StaysFresh
      <3>3. QED
        BY <3>1, <3>2
    <2>9. ASSUME Clean' PROVE Undisturbed'
      <3>1. Clean /\ Undisturbed
        BY <1>2, <2>9 DEF Clean, IInv
      <3>2. \A t \in Sessions : ~lost'[t]
        BY <1>1, <1>4, <2>3, <3>1 DEF Undisturbed
      <3>3. \A v \in Workers : ~worker'[v].expired /\ (worker'[v].at = "ai_log" => worker'[v].job.of \in toolRows')
        BY <1>2, <2>1, <3>1, Idle DEF Undisturbed
      <3>4. ASSUME NEW c \in accepted' PROVE Audited(c)'
        <4>1. worker[w].job # AuditJob(c)
          BY <1>1, JobKinds
        <4>2. Audited(c)
          BY <1>2, <3>1, <3>4 DEF Undisturbed
        <4>3. QED
          BY <1>2, <2>1, <4>1, <4>2 DEF Audited, Queued, AuditJob
      <3>5. QED
        BY <3>2, <3>3, <3>4 DEF Undisturbed
    <2>10. Stopping'
      BY <1>2, <2>1, Idle DEF IInv, Stopping, Settle, At, Exited
    <2>11. QED
      BY <2>4, <2>5, <2>7, <2>8, <2>9, <2>10 DEF IInv, Undisturbed
  <1>5. QED
    BY <1>s, <1>3, <1>4 DEF Settle

-----------------------------------------------------------------------------
(* The queue's end of a worker, and audit jobs. *)

LEMMA NewWork ==
  ASSUME NEW w, NEW j \in Jobs, worker'[w].job = j,
         worker'[w].at = IF j.kind = "audit" THEN "tool_call" ELSE "begin"
  PROVE  Busy(w)'
  <1>0. j # NULL
    BY PoolNullAssumption
  <1>1. CASE \E c \in ToolCalls : j = AuditJob(c)
    <2>1. worker'[w].at = "tool_call"
      BY <1>1, JobKinds
    <2>2. QED
      BY <1>0, <1>1, <2>1 DEF Busy, Auditing, Refreshing, AuditJob
  <1>2. CASE \E s \in Sessions : j = SummaryJob(s)
    <2>1. worker'[w].at = "begin"
      BY <1>2, JobKinds
    <2>2. QED
      BY <1>0, <1>2, <2>1 DEF Busy, Auditing, Refreshing, SummaryJob
  <1>3. QED
    BY <1>1, <1>2 DEF Jobs

LEMMA ReceiveInv == ASSUME IInv, NEW w \in Workers, Receive(w) PROVE IInv'
  <1> DEFINE j == jobs[1]
             new == [IdleWorker EXCEPT !.job = j, !.at = IF j.kind = "audit" THEN "tool_call" ELSE "begin"]
  <1>0. /\ PoolTypes /\ worker[w].at = "receive" /\ jobs # <<>> /\ jobs' = Tail(jobs)
        /\ Undisturbed /\ Stopping
    BY DEF IInv, Receive, At
  <1>1. /\ jobs' \in Seq(Jobs) /\ Len(jobs') = Len(jobs) - 1 /\ Len(jobs) \in Nat \ {0}
        /\ j \in Jobs /\ Head(jobs) = j
        /\ \A i \in 1..Len(jobs') : jobs'[i] = jobs[i + 1]
        /\ \A k : Queued(k) <=> Queued(k)' \/ k = j
    BY <1>0, QueueShrinks DEF PoolTypes
  <1>2. UNCHANGED <<messages, summary, toolRows, logRows, accepted, stopped, summaries, stop, due, lost,
                    timeouts, failures>>
    BY DEF Receive, dbVars
  <1>3. worker' = [worker EXCEPT ![w] = new]
    BY <1>1 DEF Receive
  <1>4. /\ new \in Worker /\ new.job = j /\ new.expired = FALSE
        /\ new.at = IF j.kind = "audit" THEN "tool_call" ELSE "begin"
    BY <1>1, Idle, StepNames DEF Worker
  <1>5. /\ worker'[w] = new /\ worker' \in [Workers -> Worker]
        /\ \A v \in Workers : v # w => worker'[v] = worker[v]
    BY <1>0, <1>3, <1>4 DEF PoolTypes
  <1>6. PoolTypes'
    BY <1>0, <1>1, <1>2, <1>5 DEF PoolTypes
  <1>7. worker[w].job = NULL
    BY <1>0 DEF IInv, Busy
  <1>8. ASSUME NEW v \in Workers PROVE Busy(v)'
    <2>1. CASE v = w
      BY <1>1, <1>4, <1>5, <2>1, NewWork
    <2>2. CASE v # w
      BY <1>5, <2>2, SameWork DEF IInv
    <2>3. QED
      BY <2>1, <2>2
  <1>9. ASSUME NEW s \in Sessions PROVE OneJob(s)'
    <2>0. OneJob(s) /\ SummaryJob(s) # NULL /\ SummaryJob(s)' = SummaryJob(s)
      BY JobKinds DEF IInv, SummaryJob
    <2>1. \A i, k \in 1..Len(jobs') : jobs'[i] = SummaryJob(s) /\ jobs'[k] = SummaryJob(s) => i = k
      <3> SUFFICES ASSUME NEW i \in 1..Len(jobs'), NEW k \in 1..Len(jobs'),
                          jobs'[i] = SummaryJob(s), jobs'[k] = SummaryJob(s)
                   PROVE  i = k
        OBVIOUS
      <3>1. i + 1 \in 1..Len(jobs) /\ k + 1 \in 1..Len(jobs)
        BY <1>1
      <3>2. i + 1 = k + 1
        BY <1>1, <2>0, <3>1 DEF OneJob
      <3>3. QED
        BY <3>2, <1>1
    <2>2. CASE j = SummaryJob(s)
      <3>1. Carriers(s) = {} /\ Queued(j)
        BY <1>1, <2>0, <2>2 DEF OneJob
      <3>2. Carriers(s)' = {w}
        BY <1>4, <1>5, <2>0, <2>2, <3>1 DEF Carriers
      <3>3. ~Queued(SummaryJob(s))'
        <4>1. SUFFICES ASSUME NEW i \in 1..Len(jobs'), jobs'[i] = SummaryJob(s) PROVE FALSE
          BY <2>0 DEF Queued
        <4>2. i + 1 \in 1..Len(jobs) /\ jobs[i + 1] = SummaryJob(s) /\ 1 \in 1..Len(jobs)
          BY <1>1, <4>1
        <4>3. i + 1 = 1
          BY <2>0, <2>2, <4>2 DEF OneJob
        <4>4. QED
          BY <4>3
      <3>4. summaries'[s] # NULL
        BY <1>2, <2>0, <2>2, <3>1 DEF OneJob
      <3>5. QED
        BY <2>1, <2>0, <3>2, <3>3, <3>4 DEF OneJob
    <2>3. CASE j # SummaryJob(s)
      <3>1. Carriers(s)' = Carriers(s)
        BY <1>4, <1>5, <1>7, <2>0, <2>3 DEF Carriers
      <3>2. Queued(SummaryJob(s))' <=> Queued(SummaryJob(s))
        BY <1>1, <2>0, <2>3
      <3>3. QED
        BY <1>2, <2>0, <2>1, <3>1, <3>2 DEF OneJob
    <2>4. QED
      BY <2>2, <2>3
  <1>10. ASSUME NEW s \in Sessions PROVE Fresh(s)'
    <2>0. Fresh(s)
      BY DEF IInv
    <2>1. CASE j = SummaryJob(s)
      <3>1. worker'[w].at = "begin"
        BY <1>1, <1>4, <1>5, <2>1, JobKinds
      <3>2. Queued(j) /\ Carriers(s) = {}
        BY <1>1, <2>1 DEF IInv, OneJob
      <3>3. \A v \in Carriers(s)' : v = w
        BY <1>5, <3>2 DEF Carriers, SummaryJob
      <3>4. summaries'[s] # NULL
        BY <1>2, <2>1, <3>2 DEF IInv, OneJob
      <3>5. \A v \in Carriers(s)' : Owes(s, v)'
        BY <3>1, <3>3 DEF Owes
      <3>6. QED
        BY <1>2, <2>0, <3>4, <3>5 DEF Fresh
    <2>2. CASE j # SummaryJob(s)
      <3>1. \A v \in Workers : worker'[v].job = SummaryJob(s) => worker'[v] = worker[v]
        BY <1>4, <1>5, <2>2
      <3>2. messages'[s] \in Nat /\ messages'[s] >= messages[s]
        BY <1>0, <1>2 DEF PoolTypes
      <3>3. QED
        BY <1>0, <1>2, <2>0, <3>1, <3>2, StaysFresh
    <2>3. QED
      BY <2>1, <2>2
  <1>11. ASSUME Clean' PROVE Undisturbed'
    <2>0. Clean
      BY <1>2, <1>11 DEF Clean
    <2>1. \A s \in Sessions : ~lost'[s]
      BY <1>0, <1>2, <2>0 DEF Undisturbed
    <2>2. ASSUME NEW v \in Workers
          PROVE  ~worker'[v].expired /\ (worker'[v].at = "ai_log" => worker'[v].job.of \in toolRows')
      <3>1. CASE v = w
        <4>1. worker'[v].expired = FALSE /\ worker'[v].at \in {"tool_call", "begin"}
          BY <1>4, <1>5, <3>1
        <4>2. QED
          BY <4>1
      <3>2. CASE v # w
        BY <1>0, <1>2, <1>5, <2>0, <3>2 DEF Undisturbed
      <3>3. QED
        BY <3>1, <3>2
    <2>3. ASSUME NEW c \in accepted' PROVE Audited(c)'
      <3>0. c \in ToolCalls /\ Audited(c) /\ AuditJob(c)' = AuditJob(c) /\ AuditJob(c) # NULL
        BY <1>0, <1>2, <2>0, <2>3, JobKinds DEF Undisturbed, PoolTypes, AuditJob
      <3>1. CASE Queued(AuditJob(c))
        BY <1>1, <1>4, <1>5, <3>0, <3>1 DEF Audited
      <3>2. CASE \E v \in Workers : worker[v].job = AuditJob(c)
        BY <1>5, <1>7, <3>0, <3>2 DEF Audited
      <3>3. CASE c \in toolRows \cap logRows
        BY <1>2, <3>3 DEF Audited
      <3>4. QED
        BY <3>0, <3>1, <3>2, <3>3 DEF Audited
    <2>4. QED
      BY <2>1, <2>2, <2>3 DEF Undisturbed
  <1>12. Stopping'
    BY <1>0, <1>2, <1>4, <1>5 DEF Stopping, Receive, At, Exited
  <1>13. QED
    BY <1>6, <1>8, <1>9, <1>10, <1>11, <1>12 DEF IInv, Undisturbed

LEMMA ExitInv == ASSUME IInv, NEW w \in Workers, WorkerExits(w) PROVE IInv'
  <1>0. /\ PoolTypes /\ worker[w].at = "receive" /\ stopped /\ jobs = <<>>
        /\ Undisturbed /\ Stopping
    BY DEF IInv, WorkerExits, At
  <1>1. UNCHANGED <<messages, summary, toolRows, logRows, accepted, jobs, stopped, summaries, stop, due, lost,
                    timeouts, failures>>
    BY DEF WorkerExits, dbVars
  <1>2. /\ worker'[w] = [worker[w] EXCEPT !.at = "exited"] /\ worker[w] \in Worker
        /\ \A v \in Workers : v # w => worker'[v] = worker[v]
        /\ worker' = [worker EXCEPT ![w] = [worker[w] EXCEPT !.at = "exited"]]
    BY <1>0 DEF WorkerExits, Goes, PoolTypes
  <1>3. /\ worker'[w] \in Worker /\ worker'[w].at = "exited" /\ worker'[w].job = worker[w].job
        /\ worker'[w].expired = worker[w].expired /\ worker[w].job = NULL
    BY <1>0, <1>2, StepNames DEF Worker, IInv, Busy
  <1>4. worker' \in [Workers -> Worker]
    BY <1>0, <1>2, <1>3 DEF PoolTypes
  <1>5. PoolTypes'
    BY <1>0, <1>1, <1>4 DEF PoolTypes
  <1>6. ASSUME NEW v \in Workers PROVE Busy(v)'
    <2>1. CASE v = w
      BY <1>3, <2>1 DEF Busy, Auditing, Refreshing
    <2>2. CASE v # w
      BY <1>2, <2>2, SameWork DEF IInv
    <2>3. QED
      BY <2>1, <2>2
  <1>7. \A v \in Workers : worker'[v].job = worker[v].job /\ worker'[v].expired = worker[v].expired
    BY <1>2, <1>3
  <1>8. ASSUME NEW s \in Sessions PROVE OneJob(s)' /\ Fresh(s)'
    <2>1. OneJob(s) /\ Fresh(s) /\ messages'[s] \in Nat /\ messages'[s] >= messages[s]
      BY <1>0, <1>1 DEF IInv, PoolTypes
    <2>2. \A v \in Workers : worker'[v].job = SummaryJob(s) => worker'[v] = worker[v]
      BY <1>2, <1>3, JobKinds
    <2>3. QED
      BY <1>0, <1>1, <1>7, <2>1, <2>2, SameJobs, StaysFresh
  <1>9. ASSUME Clean' PROVE Undisturbed'
    <2>1. Clean
      BY <1>1, <1>9 DEF Clean
    <2>2. \A c \in accepted' : Audited(c)'
      BY <1>0, <1>1, <1>7, <2>1 DEF Undisturbed, Audited, Queued, AuditJob
    <2>3. QED
      BY <1>0, <1>1, <1>2, <1>3, <2>1, <2>2 DEF Undisturbed
  <1>10. Stopping'
    BY <1>0, <1>1, <1>2, <1>3 DEF Stopping, WorkerExits, At, Exited
  <1>11. QED
    BY <1>5, <1>6, <1>8, <1>9, <1>10 DEF IInv, Undisturbed

\* Worker w takes a step in the audit job of call c.
AuditStep(w, c) ==
    /\ worker[w].job = AuditJob(c) /\ worker[w].at \in Auditing
    /\ worker'[w].expired => worker[w].expired
    /\ \/ worker'[w].job = AuditJob(c) /\ worker'[w].at = "ai_log" /\ (Clean' => c \in toolRows')
       \/ worker'[w].job = NULL /\ worker'[w].at = "receive" /\ (Clean' => c \in toolRows' \cap logRows')
    /\ \A v \in Workers : v # w => worker'[v] = worker[v]
    /\ toolRows \subseteq toolRows' /\ logRows \subseteq logRows'
    /\ UNCHANGED <<messages, summary, accepted, jobs, stopped, summaries, stop, due, lost>>
    /\ Clean' => Clean

LEMMA AuditInv ==
  ASSUME IInv, NEW w \in Workers, NEW c \in ToolCalls, AuditStep(w, c), PoolTypes', ~Exited
  PROVE  IInv'
  <1>0. PoolTypes /\ Undisturbed /\ Stopping
    BY DEF IInv
  <1>1. ASSUME NEW v \in Workers PROVE Busy(v)'
    <2>1. CASE v = w
      BY <2>1, JobKinds DEF AuditStep, Busy, Auditing, Refreshing, AuditJob
    <2>2. CASE v # w
      BY <2>2 DEF IInv, AuditStep, Busy, AuditJob, SummaryJob
    <2>3. QED
      BY <2>1, <2>2
  <1>2. ASSUME NEW s \in Sessions PROVE OneJob(s)' /\ Fresh(s)'
    <2>1. OneJob(s) /\ Fresh(s) /\ messages'[s] \in Nat /\ messages'[s] >= messages[s]
      BY <1>0 DEF IInv, PoolTypes, AuditStep
    <2>2. worker[w].job # SummaryJob(s) /\ worker'[w].job # SummaryJob(s)
      BY JobKinds DEF AuditStep
    <2>3. \A v \in Workers : /\ worker'[v].job = SummaryJob(s) => worker'[v] = worker[v]
                             /\ worker'[v].job = SummaryJob(s) <=> worker[v].job = SummaryJob(s)
      BY <2>2 DEF AuditStep
    <2>4. UNCHANGED <<jobs, summaries, summary, due, lost, messages>>
      BY DEF AuditStep
    <2>5. OneJob(s)'
      BY <2>1, <2>3, <2>4, SameJobs
    <2>6. Fresh(s)'
      BY <1>0, <2>1, <2>3, <2>4, StaysFresh
    <2>7. QED
      BY <2>5, <2>6
  <1>3. ASSUME Clean' PROVE Undisturbed'
    <2>0. Clean
      BY <1>3 DEF AuditStep
    <2>1. \A s \in Sessions : ~lost'[s]
      BY <1>0, <2>0 DEF AuditStep, Undisturbed
    <2>2. ASSUME NEW v \in Workers
          PROVE  ~worker'[v].expired /\ (worker'[v].at = "ai_log" => worker'[v].job.of \in toolRows')
      <3>1. CASE v = w
        BY <1>0, <1>3, <2>0, <3>1, JobKinds DEF AuditStep, Undisturbed
      <3>2. CASE v # w
        BY <1>0, <2>0, <3>2 DEF AuditStep, Undisturbed
      <3>3. QED
        BY <3>1, <3>2
    <2>3. ASSUME NEW b \in accepted' PROVE Audited(b)'
      <3>1. Audited(b) /\ AuditJob(b)' = AuditJob(b)
        BY <1>0, <2>0, <2>3 DEF AuditStep, Undisturbed, AuditJob
      <3>2. CASE Queued(AuditJob(b))
        BY <3>1, <3>2 DEF AuditStep, Audited, Queued
      <3>3. CASE b \in toolRows \cap logRows
        BY <3>3 DEF AuditStep, Audited
      <3>4. ASSUME NEW v \in Workers, worker[v].job = AuditJob(b) PROVE Audited(b)'
        <4>1. CASE v # w
          BY <3>1, <3>4, <4>1 DEF AuditStep, Audited
        <4>2. CASE v = w
          <5>1. b = c
            BY <3>4, <4>2 DEF AuditStep, AuditJob
          <5>2. QED
            BY <1>3, <3>1, <5>1 DEF AuditStep, Audited
        <4>3. QED
          BY <4>1, <4>2
      <3>5. QED
        BY <3>1, <3>2, <3>3, <3>4 DEF Audited
    <2>4. QED
      BY <2>1, <2>2, <2>3 DEF Undisturbed
  <1>4. Stopping'
    BY <1>0 DEF AuditStep, Stopping, Exited
  <1>5. QED
    BY <1>1, <1>2, <1>3, <1>4 DEF IInv, Undisturbed

LEMMA ToolCallInv == ASSUME IInv, NEW w \in Workers, PersistToolCall(w) PROVE IInv'
  <1>0. PoolTypes /\ worker[w].at = "tool_call" /\ ~Exited
    BY DEF IInv, PersistToolCall, At
  <1>1. PICK c \in ToolCalls : worker[w].job = AuditJob(c)
    BY <1>0 DEF IInv, Busy, Auditing
  <1>2. UNCHANGED <<messages, summary, logRows, accepted, jobs, stopped, summaries, stop, due, lost, timeouts>>
    BY DEF PersistToolCall
  <1>3. /\ worker'[w] = [worker[w] EXCEPT !.at = "ai_log"] /\ worker[w] \in Worker
        /\ \A v \in Workers : v # w => worker'[v] = worker[v]
        /\ worker' = [worker EXCEPT ![w] = [worker[w] EXCEPT !.at = "ai_log"]]
    BY <1>0 DEF PersistToolCall, Goes, PoolTypes
  <1>4. /\ worker'[w] \in Worker /\ worker'[w].at = "ai_log" /\ worker'[w].job = worker[w].job
        /\ worker'[w].expired = worker[w].expired
    BY <1>3, StepNames DEF Worker
  <1>5. /\ toolRows \subseteq toolRows' /\ failures' \in Nat
        /\ Clean' => Clean /\ c \in toolRows'
    <2>1. CASE toolRows' = toolRows \cup {worker[w].job.of} /\ UNCHANGED failures
      BY <1>0, <1>1, <1>2, <2>1, JobKinds DEF Clean, PoolTypes
    <2>2. CASE Fails(w) /\ UNCHANGED toolRows
      BY <1>2, <2>2, FailuresCount
    <2>3. QED
      BY <2>1, <2>2 DEF PersistToolCall
  <1>6. worker' \in [Workers -> Worker]
    BY <1>0, <1>3, <1>4 DEF PoolTypes
  <1>7. PoolTypes'
    BY <1>0, <1>2, <1>5, <1>6 DEF PoolTypes
  <1>8. AuditStep(w, c)
    BY <1>0, <1>1, <1>2, <1>3, <1>4, <1>5 DEF AuditStep, Auditing
  <1>9. QED
    BY <1>0, <1>7, <1>8, AuditInv

LEMMA AILogInv == ASSUME IInv, NEW w \in Workers, PersistAILog(w) PROVE IInv'
  <1>0. PoolTypes /\ worker[w].at = "ai_log" /\ ~Exited
    BY DEF IInv, PersistAILog, At
  <1>1. PICK c \in ToolCalls : worker[w].job = AuditJob(c)
    BY <1>0 DEF IInv, Busy, Auditing
  <1>2. UNCHANGED <<messages, summary, toolRows, accepted, jobs, stopped, summaries, stop, due, lost, timeouts>>
    BY DEF PersistAILog
  <1>3. /\ worker'[w] = IdleWorker /\ worker' \in [Workers -> Worker]
        /\ \A v \in Workers : v # w => worker'[v] = worker[v]
    BY <1>0, Idle DEF PersistAILog, PoolTypes
  <1>4. /\ logRows \subseteq logRows' /\ failures' \in Nat
        /\ Clean' => Clean /\ c \in logRows'
    <2>1. CASE logRows' = logRows \cup {worker[w].job.of} /\ UNCHANGED failures
      BY <1>0, <1>1, <1>2, <2>1, JobKinds DEF Clean, PoolTypes
    <2>2. CASE Fails(w) /\ UNCHANGED logRows
      BY <1>2, <2>2, FailuresCount
    <2>3. QED
      BY <2>1, <2>2 DEF PersistAILog
  <1>5. Clean => c \in toolRows
    BY <1>0, <1>1, JobKinds DEF IInv, Undisturbed
  <1>6. PoolTypes'
    BY <1>0, <1>2, <1>3, <1>4 DEF PoolTypes
  <1>7. AuditStep(w, c)
    BY <1>0, <1>1, <1>2, <1>3, <1>4, <1>5, Idle DEF AuditStep, Auditing
  <1>8. QED
    BY <1>0, <1>6, <1>7, AuditInv

LEMMA TimeoutInv == ASSUME IInv, NEW w \in Workers, JobTimesOut(w) PROVE IInv'
  <1>0. PoolTypes /\ Stopping
    BY DEF IInv
  <1>1. UNCHANGED <<messages, summary, toolRows, logRows, accepted, jobs, stopped, summaries, stop, due, lost,
                    failures>> /\ timeouts' = timeouts + 1
    BY DEF JobTimesOut, dbVars
  <1>2. /\ worker'[w] = [worker[w] EXCEPT !.expired = TRUE] /\ worker[w] \in Worker
        /\ \A v \in Workers : v # w => worker'[v] = worker[v]
        /\ worker' = [worker EXCEPT ![w] = [worker[w] EXCEPT !.expired = TRUE]]
    BY <1>0 DEF JobTimesOut, PoolTypes
  <1>3. /\ worker'[w] \in Worker /\ worker'[w].at = worker[w].at /\ worker'[w].job = worker[w].job
        /\ worker'[w].seen = worker[w].seen /\ worker'[w].cancelled = worker[w].cancelled
    <2>1. PICK r \in Worker : r = worker[w]
      BY <1>2
    <2>2. PICK q : q = [r EXCEPT !.expired = TRUE]
      OBVIOUS
    <2>3. q \in Worker /\ q.at = r.at /\ q.job = r.job /\ q.seen = r.seen /\ q.cancelled = r.cancelled
      BY <2>2 DEF Worker
    <2>4. QED
      BY <1>2, <2>1, <2>2, <2>3
  <1>4. worker' \in [Workers -> Worker]
    BY <1>0, <1>2, <1>3 DEF PoolTypes
  <1>5. PoolTypes' /\ ~Clean'
    BY <1>0, <1>1, <1>4 DEF PoolTypes, Clean
  <1>6. QuietStep
    BY <1>0, <1>1, <1>2, <1>3, <1>5 DEF QuietStep, PoolTypes
  <1>7. Stopping'
    BY <1>0, <1>1, <1>2, <1>3 DEF Stopping
  <1>8. QED
    BY <1>5, <1>6, <1>7, QuietInv

-----------------------------------------------------------------------------
(* Requests and shutdown. *)

LEMMA TurnInv == ASSUME IInv, NEW s \in Sessions, ChatTurn(s) PROVE IInv'
  <1>0. PoolTypes /\ Stopping
    BY DEF IInv
  <1>1. /\ messages' \in [Sessions -> Nat] /\ \A t \in Sessions : messages'[t] >= messages[t]
        /\ UNCHANGED <<summary, accepted, toolRows, logRows, jobs, stopped, summaries, worker, stop, due, lost,
                       timeouts, failures>>
    BY <1>0 DEF ChatTurn, PoolTypes
  <1>2. PoolTypes' /\ QuietStep /\ Stopping'
    BY <1>0, <1>1 DEF PoolTypes, QuietStep, Clean, Stopping
  <1>3. QED
    BY <1>2, QuietInv

LEMMA StopInv == ASSUME IInv, Stop \/ Drained \/ DrainTimesOut \/ UNCHANGED poolVars PROVE IInv'
  <1>0. PoolTypes /\ Stopping
    BY DEF IInv
  <1>1. /\ UNCHANGED <<messages, summary, accepted, toolRows, logRows, jobs, summaries, worker, due, lost, failures>>
        /\ timeouts' \in Nat /\ (timeouts' = timeouts \/ timeouts' = timeouts + 1) /\ stop' \in Stops
    BY <1>0 DEF Stop, Drained, DrainTimesOut, poolVars, dbVars, PoolTypes, Stops
  <1>2. PoolTypes' /\ QuietStep
    BY <1>0, <1>1 DEF PoolTypes, QuietStep, Clean
  <1>3. Stopping'
    BY <1>0 DEF Stopping, Stop, Drained, DrainTimesOut, poolVars, PoolTypes, Stops
  <1>4. QED
    BY <1>2, <1>3, QuietInv

LEMMA SubmitInv == ASSUME IInv, NEW c \in ToolCalls, Submit(c) PROVE IInv'
  <1>0. PoolTypes /\ Stopping /\ Undisturbed
    BY DEF IInv
  <1>1. UNCHANGED <<messages, summary, toolRows, logRows, stopped, summaries, worker, stop, due, lost,
                    timeouts, failures>>
    BY DEF Submit
  <1>2. CASE ~Accepts
    <2>1. PoolTypes' /\ QuietStep /\ Stopping'
      BY <1>0, <1>1, <1>2 DEF Submit, PoolTypes, QuietStep, Clean, Stopping
    <2>2. QED
      BY <2>1, QuietInv
  <1>3. CASE Accepts
    <2>1. jobs' = Append(jobs, AuditJob(c)) /\ accepted' = accepted \cup {c} /\ ~stopped /\ AuditJob(c) \in Jobs
      BY <1>3, JobKinds DEF Submit, Accepts
    <2>2. /\ jobs' \in Seq(Jobs) /\ Len(jobs') = Len(jobs) + 1 /\ Len(jobs) \in Nat
          /\ jobs'[Len(jobs) + 1] = AuditJob(c)
          /\ \A i \in 1..Len(jobs) : jobs'[i] = jobs[i]
          /\ \A k : Queued(k)' <=> Queued(k) \/ k = AuditJob(c)
      BY <1>0, <2>1, QueueGrows DEF PoolTypes
    <2>3. PoolTypes'
      BY <1>0, <1>1, <2>1, <2>2 DEF PoolTypes
    <2>4. ASSUME NEW w \in Workers PROVE Busy(w)'
      BY <1>1 DEF IInv, Busy, AuditJob, SummaryJob
    <2>5. ASSUME NEW s \in Sessions PROVE OneJob(s)'
      <3>0. OneJob(s) /\ SummaryJob(s)' = SummaryJob(s) /\ SummaryJob(s) # AuditJob(c)
        BY JobKinds DEF IInv, SummaryJob
      <3>1. \A i \in 1..Len(jobs') : jobs'[i] = SummaryJob(s) => i \in 1..Len(jobs) /\ jobs[i] = SummaryJob(s)
        BY <2>2, <3>0
      <3>2. Carriers(s)' = Carriers(s)
        BY <1>1, <3>0 DEF Carriers
      <3>3. QED
        BY <1>1, <2>2, <3>0, <3>1, <3>2 DEF OneJob
    <2>6. ASSUME NEW s \in Sessions PROVE Fresh(s)'
      <3>1. Fresh(s) /\ messages'[s] \in Nat /\ messages'[s] >= messages[s]
        BY <1>0, <1>1 DEF IInv, PoolTypes
      <3>2. QED
        BY <1>0, <1>1, <3>1, StaysFresh
    <2>7. ASSUME Clean' PROVE Undisturbed'
      <3>1. Clean
        BY <1>1, <2>7 DEF Clean
      <3>2. \A b \in accepted' : Audited(b)'
        BY <1>0, <1>1, <2>1, <2>2, <3>1 DEF Undisturbed, Audited, AuditJob
      <3>3. QED
        BY <1>0, <1>1, <3>1, <3>2 DEF Undisturbed
    <2>8. Stopping'
      BY <1>0, <1>1, <2>1 DEF Stopping
    <2>9. QED
      BY <2>3, <2>4, <2>5, <2>6, <2>7, <2>8 DEF IInv, Undisturbed
  <1>4. QED
    BY <1>2, <1>3

LEMMA CoalesceInv ==
  ASSUME IInv, NEW s \in Sessions, Coalesce(s),
         UNCHANGED <<dbVars, accepted, stopped, stop, lost, timeouts, failures>>
  PROVE  IInv'
  <1>0. PoolTypes /\ Stopping /\ Undisturbed /\ OneJob(s) /\ Fresh(s)
    BY DEF IInv
  <1>1. UNCHANGED <<messages, summary, toolRows, logRows, accepted, jobs, stopped, stop, lost, timeouts, failures>>
    BY DEF Coalesce, dbVars
  <1>2. /\ summaries[s] \in MemorySummaryState
        /\ summaries'[s] = [summaries[s] EXCEPT !.dirty = TRUE]
        /\ summaries' = [summaries EXCEPT ![s] = [summaries[s] EXCEPT !.dirty = TRUE]]
        /\ \A t \in Sessions : t # s => summaries'[t] = summaries[t]
    BY <1>0 DEF Coalesce, PoolTypes
  <1>3. summaries'[s] \in MemorySummaryState /\ summaries'[s] # NULL /\ summaries'[s].dirty
    BY <1>2, PoolNullAssumption DEF MemorySummaryState
  <1>4. summaries' \in [Sessions -> MemorySummaryState \cup {NULL}]
    BY <1>0, <1>2, <1>3 DEF PoolTypes
  <1>5. /\ due' \in [Sessions -> Nat] /\ due'[s] = messages[s]
        /\ \A t \in Sessions : t # s => due'[t] = due[t]
    BY <1>0 DEF Coalesce, PoolTypes
  <1>6. ASSUME NEW w \in Workers
        PROVE  /\ worker'[w] \in Worker
               /\ worker'[w].job = worker[w].job /\ worker'[w].at = worker[w].at
               /\ worker'[w].seen = worker[w].seen /\ worker'[w].expired = worker[w].expired
               /\ worker[w].job # SummaryJob(s) => worker'[w] = worker[w]
    <2>1. worker[w] \in Worker
      BY <1>0 DEF PoolTypes
    <2>2. worker'[w] = IF summaries[s].running /\ worker[w].job = SummaryJob(s)
                       THEN [worker[w] EXCEPT !.cancelled = TRUE] ELSE worker[w]
      BY DEF Coalesce
    <2>3. QED
      BY <2>1, <2>2 DEF Worker
  <1>7. worker' \in [Workers -> Worker]
    BY <1>6 DEF Coalesce
  <1>8. PoolTypes'
    BY <1>0, <1>1, <1>4, <1>5, <1>7 DEF PoolTypes
  <1>9. ASSUME NEW w \in Workers PROVE Busy(w)'
    BY <1>6, SameWork DEF IInv
  <1>10. ASSUME NEW t \in Sessions PROVE OneJob(t)'
    <2>1. OneJob(t) /\ (summaries'[t] = NULL <=> summaries[t] = NULL)
      BY <1>2, <1>3 DEF IInv, Coalesce
    <2>2. QED
      BY <1>1, <1>6, <2>1, SameJobs
  <1>11. ASSUME NEW t \in Sessions PROVE Fresh(t)'
    <2>1. CASE t = s
      <3>1. messages[s] \in Nat
        BY <1>0 DEF PoolTypes
      <3>2. ASSUME NEW w \in Carriers(s)' PROVE Owes(s, w)'
        <4>1. w \in Carriers(s) /\ w \in Workers
          BY <1>6, <3>2 DEF Carriers, SummaryJob
        <4>2. QED
          BY <1>0, <1>1, <1>3, <1>6, <4>1 DEF Fresh, Owes
      <3>3. QED
        BY <1>0, <1>1, <1>3, <1>5, <2>1, <3>1, <3>2 DEF Fresh
    <2>2. CASE t # s
      <3>1. \A w \in Workers : worker'[w].job = SummaryJob(t) => worker'[w] = worker[w]
        BY <1>6, <2>2, JobKinds
      <3>2. Fresh(t) /\ messages'[t] \in Nat /\ messages'[t] >= messages[t]
        BY <1>0, <1>1 DEF IInv, PoolTypes
      <3>3. QED
        BY <1>0, <1>1, <1>2, <1>5, <2>2, <3>1, <3>2, StaysFresh
    <2>3. QED
      BY <2>1, <2>2
  <1>12. ASSUME Clean' PROVE Undisturbed'
    <2>1. Clean
      BY <1>1, <1>12 DEF Clean
    <2>2. \A c \in accepted' : Audited(c)'
      BY <1>0, <1>1, <1>6, <2>1 DEF Undisturbed, Audited, Queued, AuditJob
    <2>3. QED
      BY <1>0, <1>1, <1>6, <2>1, <2>2 DEF Undisturbed
  <1>13. Stopping'
    BY <1>0, <1>1, <1>6 DEF Stopping
  <1>14. QED
    BY <1>8, <1>9, <1>10, <1>11, <1>12, <1>13 DEF IInv, Undisturbed

LEMMA EnqueueInv ==
  ASSUME IInv, NEW s \in Sessions, Enqueue(s),
         UNCHANGED <<dbVars, accepted, stopped, stop, lost, timeouts, failures>>
  PROVE  IInv'
  <1>0. PoolTypes /\ Stopping /\ Undisturbed /\ OneJob(s) /\ Fresh(s) /\ summaries[s] = NULL
    BY DEF IInv, Enqueue
  <1>1. UNCHANGED <<messages, summary, toolRows, logRows, accepted, worker, stopped, stop, lost, timeouts, failures>>
    BY DEF Enqueue, dbVars
  <1>2. CASE ~Accepts
    <2>1. PoolTypes' /\ QuietStep /\ Stopping'
      BY <1>0, <1>1, <1>2 DEF Enqueue, PoolTypes, QuietStep, Clean, Stopping
    <2>2. QED
      BY <2>1, QuietInv
  <1>3. CASE Accepts
    <2>1. /\ jobs' = Append(jobs, SummaryJob(s)) /\ ~stopped /\ SummaryJob(s) \in Jobs
          /\ summaries' = [summaries EXCEPT ![s] = [dirty |-> FALSE, running |-> FALSE]]
          /\ due' = [due EXCEPT ![s] = messages[s]]
      BY <1>3, JobKinds DEF Enqueue, Accepts
    <2>2. /\ jobs' \in Seq(Jobs) /\ Len(jobs') = Len(jobs) + 1 /\ Len(jobs) \in Nat
          /\ jobs'[Len(jobs) + 1] = SummaryJob(s)
          /\ \A i \in 1..Len(jobs) : jobs'[i] = jobs[i]
          /\ \A k : Queued(k)' <=> Queued(k) \/ k = SummaryJob(s)
      BY <1>0, <2>1, QueueGrows DEF PoolTypes
    <2>3. [dirty |-> FALSE, running |-> FALSE] \in MemorySummaryState
      BY DEF MemorySummaryState
    <2>4. /\ summaries' \in [Sessions -> MemorySummaryState \cup {NULL}] /\ summaries'[s] # NULL
          /\ \A t \in Sessions : t # s => summaries'[t] = summaries[t]
          /\ due' \in [Sessions -> Nat] /\ due'[s] = messages[s]
          /\ \A t \in Sessions : t # s => due'[t] = due[t]
      BY <1>0, <2>1, <2>3, PoolNullAssumption DEF PoolTypes
    <2>5. PoolTypes'
      BY <1>0, <1>1, <2>2, <2>4 DEF PoolTypes
    <2>6. ASSUME NEW w \in Workers PROVE Busy(w)'
      BY <1>1 DEF IInv, Busy, AuditJob, SummaryJob
    <2>7. ~Queued(SummaryJob(s)) /\ Carriers(s) = {}
      BY <1>0 DEF OneJob
    <2>8. ASSUME NEW t \in Sessions PROVE OneJob(t)'
      <3>0. /\ OneJob(t) /\ SummaryJob(t)' = SummaryJob(t) /\ Carriers(t)' = Carriers(t)
            /\ (t # s => SummaryJob(s) # SummaryJob(t))
        BY <1>1, JobKinds DEF IInv, SummaryJob, Carriers
      <3>1. CASE t = s
        <4>1. \A i \in 1..Len(jobs') : jobs'[i] = SummaryJob(s) => i = Len(jobs) + 1
          BY <2>2, <2>7 DEF Queued
        <4>2. \A i, k \in 1..Len(jobs') : jobs'[i] = SummaryJob(s) /\ jobs'[k] = SummaryJob(s) => i = k
          BY <4>1
        <4>3. Queued(SummaryJob(s))'
          BY <2>2
        <4>4. QED
          BY <2>4, <2>7, <3>0, <3>1, <4>2, <4>3 DEF OneJob
      <3>2. CASE t # s
        <4>1. \A i \in 1..Len(jobs') : jobs'[i] = SummaryJob(t) => i \in 1..Len(jobs) /\ jobs[i] = SummaryJob(t)
          BY <2>2, <3>0, <3>2
        <4>2. QED
          BY <2>2, <2>4, <3>0, <3>2, <4>1 DEF OneJob
      <3>3. QED
        BY <3>1, <3>2
    <2>9. ASSUME NEW t \in Sessions PROVE Fresh(t)'
      <3>1. CASE t = s
        <4>1. Carriers(s)' = {} /\ messages[s] \in Nat
          BY <1>0, <1>1, <2>7 DEF Carriers, SummaryJob, PoolTypes
        <4>2. QED
          BY <1>0, <1>1, <2>4, <3>1, <4>1 DEF Fresh
      <3>2. CASE t # s
        <4>1. Fresh(t) /\ messages'[t] \in Nat /\ messages'[t] >= messages[t]
          BY <1>0, <1>1 DEF IInv, PoolTypes
        <4>2. QED
          BY <1>0, <1>1, <2>4, <3>2, <4>1, StaysFresh
      <3>3. QED
        BY <3>1, <3>2
    <2>10. ASSUME Clean' PROVE Undisturbed'
      <3>1. Clean
        BY <1>1, <2>10 DEF Clean
      <3>2. \A c \in accepted' : Audited(c)'
        BY <1>0, <1>1, <2>2, <3>1 DEF Undisturbed, Audited, AuditJob
      <3>3. QED
        BY <1>0, <1>1, <3>1, <3>2 DEF Undisturbed
    <2>11. Stopping'
      BY <1>0, <1>1, <2>1 DEF Stopping
    <2>12. QED
      BY <2>5, <2>6, <2>8, <2>9, <2>10, <2>11 DEF IInv, Undisturbed
  <1>4. QED
    BY <1>2, <1>3

-----------------------------------------------------------------------------
(* The theorems. *)

LEMMA InitInv == PoolInit => IInv
  <1> SUFFICES ASSUME PoolInit PROVE IInv
    OBVIOUS
  <1>1. PoolTypes
    BY Idle DEF PoolInit, PoolTypes, Stops
  <1>2. \A w \in Workers : worker[w] = IdleWorker
    BY DEF PoolInit
  <1>3. ASSUME NEW w \in Workers PROVE Busy(w)
    BY <1>2, Idle DEF Busy, Auditing, Refreshing
  <1>4. ASSUME NEW s \in Sessions PROVE OneJob(s) /\ Fresh(s)
    <2>1. jobs = <<>> /\ summaries[s] = NULL /\ messages[s] = 0 /\ due[s] = 0 /\ summary[s] = 0
      BY DEF PoolInit
    <2>2. Carriers(s) = {}
      BY <1>2, Idle, JobKinds DEF Carriers
    <2>3. ~Queued(SummaryJob(s)) /\ 1..Len(jobs) = {}
      BY <2>1, EmptyQueue
    <2>4. OneJob(s)
      BY <2>1, <2>2, <2>3 DEF OneJob
    <2>5. QED
      BY <2>1, <2>2, <2>4 DEF Fresh, Covered
  <1>5. Undisturbed /\ Stopping
    BY <1>2, Idle DEF PoolInit, Undisturbed, Stopping
  <1>6. QED
    BY <1>1, <1>3, <1>4, <1>5 DEF IInv

LEMMA NextInv == IInv /\ [PoolNext]_poolVars => IInv'
  <1> SUFFICES ASSUME IInv, [PoolNext]_poolVars PROVE IInv'
    OBVIOUS
  <1>1. ASSUME NEW s \in Sessions, ScheduleMemorySummary(s) PROVE IInv'
    <2>1. UNCHANGED <<dbVars, accepted, stopped, stop, lost, timeouts, failures>>
      BY <1>1 DEF ScheduleMemorySummary
    <2>2. QED
      BY <1>1, <2>1, CoalesceInv, EnqueueInv DEF ScheduleMemorySummary
  <1>2. ASSUME NEW w \in Workers, WorkerSteps(w) PROVE IInv'
    BY <1>2, ReceiveInv, ExitInv, ToolCallInv, AILogInv, BeginInv, CountInv, TailInv, WriteInv, FailInv, SettleInv
       DEF WorkerSteps
  <1>3. QED
    BY <1>1, <1>2, TurnInv, SubmitInv, TimeoutInv, StopInv DEF PoolNext, Ended

\* A session has a job if it has a state, and one at most, which still owes what the
\* stored summary does not cover.
THEOREM Invariance == PoolSpec => []IInv
  <1>1. QED
    BY InitInv, NextInv, PTL DEF PoolSpec

\* ScheduleMemorySummary, the workers and the follow-up loop keep one refresh per
\* session, and an idle session whose last refresh came through is covered.
THEOREM RefreshesAreCoalesced == PoolSpec => []OneRefreshUpToDate
  <1>1. IInv => OneRefreshUpToDate
    <2> SUFFICES ASSUME IInv, NEW s \in Sessions
                 PROVE  /\ Cardinality({i \in DOMAIN jobs : jobs[i] = SummaryJob(s)}) + Cardinality(Carriers(s))
                             = IF summaries[s] = NULL THEN 0 ELSE 1
                        /\ summaries[s] = NULL /\ ~lost[s] /\ due[s] >= SummaryAfter => summary[s] >= due[s]
      BY DEF OneRefreshUpToDate
    <2> DEFINE queued == {i \in DOMAIN jobs : jobs[i] = SummaryJob(s)}
    <2>1. OneJob(s) /\ Fresh(s) /\ DOMAIN jobs = 1..Len(jobs)
      BY DEF IInv, PoolTypes
    <2>2. queued # {} <=> Queued(SummaryJob(s))
      BY <2>1 DEF Queued
    <2>3. \A i, j \in queued : i = j
      BY <2>1 DEF OneJob
    <2>4. \A v, w \in Carriers(s) : v = w
      BY <2>1 DEF OneJob
    <2>5. Cardinality({}) = 0
      BY FS_EmptySet
    <2>6. CASE summaries[s] = NULL
      <3>1. queued = {} /\ Carriers(s) = {}
        BY <2>1, <2>2, <2>6 DEF OneJob
      <3>2. Cardinality(queued) + Cardinality(Carriers(s)) = 0
        BY <2>5, <3>1
      <3>3. ~lost[s] /\ due[s] >= SummaryAfter => summary[s] >= due[s]
        BY <2>1, <2>6 DEF Fresh, Covered
      <3>4. QED
        BY <2>6, <3>2, <3>3
    <2>7. CASE Queued(SummaryJob(s))
      <3>1. PICK i : i \in queued
        BY <2>2, <2>7
      <3>2. queued = {i} /\ Carriers(s) = {} /\ summaries[s] # NULL
        BY <2>1, <2>3, <2>7, <3>1 DEF OneJob
      <3>3. Cardinality(queued) = 1
        BY <3>2, FS_Singleton
      <3>4. QED
        BY <2>5, <3>2, <3>3
    <2>8. CASE ~Queued(SummaryJob(s)) /\ summaries[s] # NULL
      <3>1. PICK w : w \in Carriers(s)
        BY <2>1, <2>8 DEF OneJob
      <3>2. queued = {} /\ Carriers(s) = {w}
        BY <2>2, <2>4, <2>8, <3>1
      <3>3. Cardinality(Carriers(s)) = 1
        BY <3>2, FS_Singleton
      <3>4. QED
        BY <2>5, <2>8, <3>2, <3>3
    <2>9. QED
      BY <2>6, <2>7, <2>8
  <1>2. QED
    BY <1>1, Invariance, PTL

\* refreshMemorySummary never replaces a summary by one of an older tail, whatever
\* was cancelled, repeated or timed out in between.
THEOREM SummariesAdvance == PoolSpec => SummaryNeverGoesBack
  <1>1. IInv /\ [PoolNext]_poolVars => [\A s \in Sessions : summary'[s] >= summary[s]]_summary
    <2> SUFFICES ASSUME IInv, [PoolNext]_poolVars, summary' # summary, NEW s \in Sessions
                 PROVE  summary'[s] >= summary[s]
      OBVIOUS
    <2>1. PICK w \in Workers : WriteSummary(w)
      BY DEF PoolNext, poolVars, dbVars, ChatTurn, ScheduleMemorySummary, Submit, WorkerSteps, Receive, WorkerExits,
             PersistToolCall, PersistAILog, BeginRefresh, CountMessages, ReadTail, RefreshFails, Settle,
             JobTimesOut, Stop, Drained, DrainTimesOut, Ended
    <2>2. worker[w].at = "write" /\ worker[w].at \in Refreshing
      BY <2>1 DEF WriteSummary, At, Refreshing
    <2>3. worker[w].seen >= summary[SessionOf(w)]
      BY <2>2, Refresher DEF Owes
    <2>4. summary \in [Sessions -> Nat] /\ summary' = [summary EXCEPT ![SessionOf(w)] = worker[w].seen]
      BY <2>1 DEF IInv, PoolTypes, WriteSummary
    <2>5. QED
      BY <2>3, <2>4
  <1>2. QED
    BY <1>1, Invariance, PTL DEF PoolSpec, SummaryNeverGoesBack

\* A Stop that returned because the workers were done has run every accepted job,
\* while nothing failed and no timer fired.
THEOREM DrainIsComplete == PoolSpec => []DrainRunsEverything
  <1>1. IInv => DrainRunsEverything
    <2> SUFFICES ASSUME IInv, stop = "drained", Clean
                 PROVE  /\ accepted \subseteq toolRows \cap logRows
                        /\ \A s \in Sessions : due[s] >= SummaryAfter => summary[s] >= due[s]
      BY DEF DrainRunsEverything, Clean
    <2>1. \A w \in Workers : worker[w].at = "exited" /\ worker[w].job = NULL
      BY DEF IInv, Stopping, Busy
    <2>2. jobs = <<>>
      BY <2>1, PoolAssumption DEF IInv, Stopping
    <2>3. ASSUME NEW c \in accepted PROVE c \in toolRows \cap logRows
      <3>1. c \in ToolCalls /\ Audited(c)
        BY DEF IInv, Undisturbed, PoolTypes
      <3>2. QED
        BY <2>1, <2>2, <3>1, JobKinds, EmptyQueue DEF Audited
    <2>4. ASSUME NEW s \in Sessions, due[s] >= SummaryAfter PROVE summary[s] >= due[s]
      <3>1. Carriers(s) = {} /\ ~Queued(SummaryJob(s))
        BY <2>1, <2>2, JobKinds, EmptyQueue DEF Carriers
      <3>2. summaries[s] = NULL /\ ~lost[s]
        BY <3>1 DEF IInv, OneJob, Undisturbed
      <3>3. QED
        BY <2>4, <3>2 DEF IInv, Fresh, Covered
    <2>5. QED
      BY <2>3, <2>4
  <1>2. QED
    BY <1>1, Invariance, PTL
=============================================================================
