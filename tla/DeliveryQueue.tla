--------------------------- MODULE DeliveryQueue ---------------------------
(***************************************************************************)
(* The durable delivery queue of the notifier: the deliveries table, the   *)
(* dispatcher that claims due rows, the bounded jobs channel, the worker   *)
(* pool that sends and records the outcome, shutdown, crash and restart.   *)
(*                                                                         *)
(* src/internal/notifier/delivery.go and src/internal/storage/deliveries.go*)
(*                                                                         *)
(* Time is relative: a row keeps the number of ticks left until its        *)
(* next_attempt_at, so "next_attempt_at <= now" is due = 0.  The order in  *)
(* which overdue rows are claimed (next_attempt_at, id) is left open.      *)
(***************************************************************************)
EXTENDS Naturals, Sequences, FiniteSets, Functions

CONSTANTS
  Ids,            \* the delivery ids that can be enqueued
  Providers,      \* provider names
  Workers,        \* cfg.Workers goroutines
  QueueSize,      \* capacity of the jobs channel
  BatchSize,      \* dispatchBatchSize
  MaxAttempts,    \* cfg.MaxAttempts, copied into each row
  Backoff,        \* Backoff[a]: ticks until the attempt after attempt a
  MaxRestarts,    \* bound: starts of the process
  MaxFaults       \* bound: failing statements and ambiguous sends

ASSUME QueueAssumption ==
  /\ QueueSize \in Nat \ {0}
  /\ BatchSize \in Nat \ {0}
  /\ MaxAttempts \in Nat \ {0}
  /\ Backoff \in [1..MaxAttempts -> Nat]
  /\ MaxRestarts \in Nat
  /\ MaxFaults \in Nat
  /\ IsFiniteSet(Ids)
  /\ Providers # {}

VARIABLES
  row,        \* the deliveries table
  provider,   \* the providers table, as far as a delivery sees it
  engine,     \* the process: down, running, stopping (context cancelled)
  dispatcher, \* program counter of the dispatch goroutine
  batch,      \* claimed rows the dispatcher has yet to push
  fullBatch,  \* the last claim returned BatchSize rows
  jobs,       \* the jobs channel
  pc,         \* program counter of each worker goroutine
  job,        \* the job a worker is busy with
  outcome,    \* what the worker is about to record
  wake,       \* the wake channel holds its one token
  unnudged,   \* a caller has enqueued rows and not called nudge yet
  restarts, faults,                \* bounded counters
  sends,      \* history: Send calls begun, per delivery
  accepted,   \* history: messages the provider took, per delivery
  unrecorded, \* history: attempts whose outcome never reached the table
  lost        \* history: rows whose outcome this process failed to write

tables   == <<row, provider>>
workers  == <<pc, job, outcome>>
threads  == <<engine, dispatcher, batch, fullBatch, jobs, workers>>
signals  == <<wake, unnudged>>
counters == <<restarts, faults>>
history  == <<sends, accepted, unrecorded, lost>>
vars == <<tables, threads, signals, counters, history>>

-----------------------------------------------------------------------------
(* Rows and jobs.                                                          *)

Statuses  == {"absent", "pending", "in_progress", "failed", "success", "dead"}
Terminal  == {"success", "dead"}
Claimable == {"pending", "failed"}

\* A job is the row as it was when it was claimed.
JobOf(i) == [id |-> i, attempts |-> row[i].attempts]
Job      == [id : Ids, attempts : 0..MaxAttempts]

NoJob     == <<>>
NoOutcome == "none"
Outcomes  == {NoOutcome, "ok", "error", "fatal"}

BusyAt  == {"load", "event", "send", "record"}
Busy(w) == pc[w] \in BusyAt

\* Worker w goes to l with the job j, about to record o.
Goto(w, l, j, o) == /\ pc' = [pc EXCEPT ![w] = l]
                    /\ job' = [job EXCEPT ![w] = j]
                    /\ outcome' = [outcome EXCEPT ![w] = o]

\* Every worker starts over at l.
AllWorkers(l) == /\ pc' = [w \in Workers |-> l]
                 /\ job' = [w \in Workers |-> NoJob]
                 /\ outcome' = [w \in Workers |-> NoOutcome]

\* One more failing statement or misleading answer, within the bound.
Fault == faults < MaxFaults /\ faults' = faults + 1
NoFault == UNCHANGED faults

\* A worker is sending delivery i or about to write what became of it.
InFlight(i) == \E w \in Workers : pc[w] \in {"send", "record"} /\ job[w].id = i

-----------------------------------------------------------------------------
Init ==
  /\ row = [i \in Ids |-> [status |-> "absent", attempts |-> 0, due |-> 0,
                            provider |-> CHOOSE p \in Providers : TRUE]]
  /\ provider \in [Providers -> {"enabled", "disabled", "missing"}]
  /\ engine = "down" /\ dispatcher = "exited"
  /\ batch = <<>> /\ fullBatch = FALSE /\ jobs = <<>>
  /\ pc = [w \in Workers |-> "done"]
  /\ job = [w \in Workers |-> NoJob]
  /\ outcome = [w \in Workers |-> NoOutcome]
  /\ wake = FALSE /\ unnudged = FALSE
  /\ restarts = 0 /\ faults = 0
  /\ sends = [i \in Ids |-> 0]
  /\ accepted = [i \in Ids |-> 0]
  /\ unrecorded = [i \in Ids |-> 0]
  /\ lost = {}

-----------------------------------------------------------------------------
(* The process.                                                            *)

\* A row the reset of Start makes claimable at once, its attempt not counted.
Reopened(r) == [r EXCEPT !.status = "pending", !.due = 0]

ResetInProgress_Nothing(r) == r
ResetInProgress_DeadToo(r) ==
  IF r.status \in {"in_progress", "dead"} THEN Reopened(r) ELSE r
ResetInProgress(r) ==
  IF r.status = "in_progress" THEN Reopened(r) ELSE r

\* Start: put back what an earlier process left in progress, then launch the
\* workers and the dispatcher.
Start ==
  /\ engine = "down" /\ restarts < MaxRestarts
  /\ restarts' = restarts + 1
  /\ row' = [i \in Ids |-> ResetInProgress(row[i])]
  /\ engine' = "running" /\ dispatcher' = "claim"
  /\ batch' = <<>> /\ fullBatch' = FALSE /\ jobs' = <<>>
  /\ AllWorkers("idle")
  /\ lost' = {}
  /\ UNCHANGED <<provider, signals, faults, sends, accepted, unrecorded>>

\* SIGTERM: main cancels the delivery context and waits in Stop.
Cancel ==
  /\ engine = "running" /\ restarts < MaxRestarts
  /\ engine' = "stopping"
  /\ UNCHANGED <<tables, dispatcher, batch, fullBatch, jobs, workers, signals,
                 counters, history>>

\* Stop returns: the dispatcher and every worker have finished.
Stopped ==
  /\ engine = "stopping" /\ dispatcher = "exited"
  /\ \A w \in Workers : pc[w] = "done"
  /\ engine' = "down" /\ wake' = FALSE /\ unnudged' = FALSE
  /\ UNCHANGED <<tables, dispatcher, batch, fullBatch, jobs, workers, counters,
                 history>>

\* The process dies; whatever it held in memory is gone.
Crash ==
  /\ engine # "down" /\ restarts < MaxRestarts
  /\ engine' = "down" /\ dispatcher' = "exited"
  /\ batch' = <<>> /\ fullBatch' = FALSE /\ jobs' = <<>>
  /\ AllWorkers("done")
  /\ wake' = FALSE /\ unnudged' = FALSE
  /\ unrecorded' = [i \in Ids |-> unrecorded[i] + (IF InFlight(i) THEN 1 ELSE 0)]
  /\ UNCHANGED <<tables, counters, sends, accepted, lost>>

-----------------------------------------------------------------------------
(* Callers.                                                                *)

\* Process, Deliver and SendFallback insert the row and later nudge.  Plugins
\* run before Start and may already deliver then.
EnqueueDelivery(i, p) ==
  /\ row[i].status = "absent"
  /\ row' = [row EXCEPT ![i] = [status |-> "pending", attempts |-> 0,
                                due |-> 0, provider |-> p]]
  /\ unnudged' = TRUE
  /\ UNCHANGED <<provider, threads, wake, counters, history>>

\* A full wake channel means the token is already there.
Nudge ==
  /\ unnudged
  /\ wake' = TRUE /\ unnudged' = FALSE
  /\ UNCHANGED <<tables, threads, counters, history>>

\* A later statement of the caller fails and it returns without the nudge.
AbandonNudge ==
  /\ unnudged /\ Fault
  /\ unnudged' = FALSE
  /\ UNCHANGED <<tables, threads, wake, restarts, history>>

\* An administrator enables or disables a provider or replaces its settings:
\* "disabled" is also one whose settings cannot be built.  A provider is never
\* deleted, a missing one may be created.
SetProvider(p, s) ==
  /\ provider[p] # s
  /\ provider' = [provider EXCEPT ![p] = s]
  /\ UNCHANGED <<row, threads, signals, counters, history>>

Tick ==
  /\ \E i \in Ids : row[i].due > 0
  /\ row' = [i \in Ids |-> IF row[i].due > 0
                           THEN [row[i] EXCEPT !.due = @ - 1] ELSE row[i]]
  /\ UNCHANGED <<provider, threads, signals, counters, history>>

-----------------------------------------------------------------------------
(* The dispatcher.                                                         *)

Due_InProgressToo ==
  {i \in Ids : row[i].status \in Claimable \cup {"in_progress"} /\ row[i].due = 0}
Due_IgnoresBackoff == {i \in Ids : row[i].status \in Claimable}
Due == {i \in Ids : row[i].status \in Claimable /\ row[i].due = 0}

\* The ways to list k of the due rows.
Claims(k) == {s \in [1..k -> Due] : \A m, n \in 1..k : s[m] = s[n] => m = n}

\* ClaimDueDeliveries: one transaction marks up to BatchSize due rows.
ClaimDueDeliveries ==
  /\ dispatcher = "claim" /\ engine = "running" /\ Due # {}
  /\ \E k \in 1..BatchSize :
       /\ k = BatchSize \/ k = Cardinality(Due)
       /\ \E s \in Claims(k) :
            /\ batch' = [n \in 1..k |-> JobOf(s[n])]
            /\ row' = [i \in Ids |-> IF \E n \in 1..k : s[n] = i
                                     THEN [row[i] EXCEPT !.status = "in_progress"]
                                     ELSE row[i]]
       /\ fullBatch' = (k = BatchSize)
  /\ dispatcher' = "push"
  /\ UNCHANGED <<provider, engine, jobs, workers, signals, counters, history>>

\* Nothing due, or the claim failed: wait for the ticker or a nudge.
ClaimNothing ==
  /\ dispatcher = "claim" /\ engine = "running"
  /\ \/ Due = {} /\ NoFault
     \/ Fault
  /\ dispatcher' = "wait"
  /\ UNCHANGED <<tables, engine, batch, fullBatch, jobs, workers, signals,
                 restarts, history>>

Push_DropsWhenFull ==
  /\ dispatcher = "push"
  /\ jobs' = IF Len(jobs) < QueueSize THEN Append(jobs, Head(batch)) ELSE jobs
  /\ batch' = Tail(batch)
  /\ dispatcher' = IF Len(batch) > 1 THEN "push"
                   ELSE IF fullBatch THEN "claim" ELSE "wait"
  /\ UNCHANGED <<tables, engine, fullBatch, workers, signals, counters, history>>

Push_ThenAlwaysWaits ==
  /\ dispatcher = "push" /\ Len(jobs) < QueueSize
  /\ jobs' = Append(jobs, Head(batch))
  /\ batch' = Tail(batch)
  /\ dispatcher' = IF Len(batch) > 1 THEN "push" ELSE "wait"
  /\ UNCHANGED <<tables, engine, fullBatch, workers, signals, counters, history>>

\* Push blocks while the channel is full.  A full batch is followed by another
\* claim, a short one by the wait.
Push ==
  /\ dispatcher = "push" /\ Len(jobs) < QueueSize
  /\ jobs' = Append(jobs, Head(batch))
  /\ batch' = Tail(batch)
  /\ dispatcher' = IF Len(batch) > 1 THEN "push"
                   ELSE IF fullBatch THEN "claim" ELSE "wait"
  /\ UNCHANGED <<tables, engine, fullBatch, workers, signals, counters, history>>

Awake ==
  /\ dispatcher = "wait" /\ engine = "running"
  /\ wake /\ wake' = FALSE
  /\ dispatcher' = "claim"
  /\ UNCHANGED <<tables, engine, batch, fullBatch, jobs, workers, unnudged,
                 counters, history>>

Poll ==
  /\ dispatcher = "wait" /\ engine = "running"
  /\ dispatcher' = "claim"
  /\ UNCHANGED <<tables, engine, batch, fullBatch, jobs, workers, signals,
                 counters, history>>

DispatcherExit_BatchOnly ==
  /\ engine = "stopping" /\ dispatcher = "push"
  /\ dispatcher' = "wait" /\ batch' = <<>>
  /\ UNCHANGED <<tables, engine, fullBatch, jobs, workers, signals, counters,
                 history>>

\* Cancelled: give up what is still in the batch and close the channel.
DispatcherExit ==
  /\ engine = "stopping" /\ dispatcher \in {"claim", "push", "wait"}
  /\ dispatcher' = "exited" /\ batch' = <<>>
  /\ UNCHANGED <<tables, engine, fullBatch, jobs, workers, signals, counters,
                 history>>

-----------------------------------------------------------------------------
(* The workers.                                                            *)

\* Receive a job; after the cancellation it is dropped, its row left for the
\* next start to recover.
Take(w) ==
  /\ pc[w] = "idle" /\ jobs # <<>>
  /\ jobs' = Tail(jobs)
  /\ IF engine = "running" THEN Goto(w, "load", Head(jobs), NoOutcome)
                           ELSE UNCHANGED workers
  /\ UNCHANGED <<tables, engine, dispatcher, batch, fullBatch, signals,
                 counters, history>>


\* deliver, GetProvider and Build: a provider that is gone, disabled or cannot
\* be built is fatal, a failing read is retried.
LoadProvider(w) ==
  /\ pc[w] = "load"
  /\ LET enabled == provider[row[job[w].id].provider] = "enabled"
     IN  \/ enabled /\ Goto(w, "event", job[w], NoOutcome) /\ NoFault
         \/ ~enabled /\ Goto(w, "record", job[w], "fatal") /\ NoFault
         \/ Goto(w, "record", job[w], "error") /\ Fault
  /\ UNCHANGED <<tables, engine, dispatcher, batch, fullBatch, jobs, signals,
                 restarts, history>>

\* deliver, GetEvent: any error, a passing one too, is fatal.
LoadEvent(w) ==
  /\ pc[w] = "event"
  /\ \/ /\ Goto(w, "send", job[w], NoOutcome) /\ NoFault
        /\ sends' = [sends EXCEPT ![job[w].id] = @ + 1]
     \/ /\ Goto(w, "record", job[w], "fatal") /\ Fault
        /\ UNCHANGED sends
  /\ UNCHANGED <<tables, engine, dispatcher, batch, fullBatch, jobs, signals,
                 restarts, accepted, unrecorded, lost>>

\* Send returns.  An error need not mean that the provider did not take the
\* message: the answer may be lost or late (the last disjunct).  A panic is
\* recovered by safeDeliver and kills the delivery.
Send(w) ==
  /\ pc[w] = "send"
  /\ LET returns(o) == Goto(w, "record", job[w], o)
         takes      == accepted' = [accepted EXCEPT ![job[w].id] = @ + 1]
     IN  \/ returns("ok") /\ takes /\ NoFault
         \/ returns("error") /\ UNCHANGED accepted /\ NoFault
         \/ returns("fatal") /\ UNCHANGED accepted /\ Fault
         \/ returns("error") /\ takes /\ Fault
  /\ UNCHANGED <<tables, engine, dispatcher, batch, fullBatch, jobs, signals,
                 restarts, sends, unrecorded, lost>>

Recorded_OneRetryTooMany(r, out, n) ==
  LET done(s) == [r EXCEPT !.status = s, !.attempts = n]
  IN  IF out = "ok" THEN done("success")
      ELSE IF out = "fatal" \/ n > MaxAttempts THEN done("dead")
      ELSE [done("failed") EXCEPT !.due = Backoff[MaxAttempts]]

Recorded_AttemptNotCounted(r, out, n) ==
  LET done(s) == [r EXCEPT !.status = s, !.attempts = n]
  IN  IF out = "ok" THEN done("success")
      ELSE IF out = "fatal" \/ n >= MaxAttempts THEN done("dead")
      ELSE [r EXCEPT !.status = "failed", !.due = Backoff[n]]

\* What the outcome of attempt n writes: MarkDeliverySuccess, and for an error
\* scheduleRetryOrDie's MarkDeliveryRetry or MarkDeliveryDead.
Recorded(r, out, n) ==
  LET done(s) == [r EXCEPT !.status = s, !.attempts = n]
  IN  IF out = "ok" THEN done("success")
      ELSE IF out = "fatal" \/ n >= MaxAttempts THEN done("dead")
      ELSE [done("failed") EXCEPT !.due = Backoff[n]]

\* The outcome is written with a background context, so shutdown does not
\* stop it.  When the write itself fails the error is only logged.
Record(w) ==
  /\ pc[w] = "record"
  /\ LET i == job[w].id
     IN  \/ /\ NoFault
            /\ row' = [row EXCEPT ![i] = Recorded(@, outcome[w], job[w].attempts + 1)]
            /\ UNCHANGED <<unrecorded, lost>>
         \/ /\ Fault
            /\ unrecorded' = [unrecorded EXCEPT ![i] = @ + 1]
            /\ lost' = lost \cup {i}
            /\ UNCHANGED row
  /\ Goto(w, "idle", NoJob, NoOutcome)
  /\ UNCHANGED <<provider, engine, dispatcher, batch, fullBatch, jobs, signals,
                 restarts, sends, accepted>>

\* The channel is closed and drained.
WorkerExit(w) ==
  /\ pc[w] = "idle" /\ jobs = <<>> /\ dispatcher = "exited"
  /\ Goto(w, "done", NoJob, NoOutcome)
  /\ UNCHANGED <<tables, engine, dispatcher, batch, fullBatch, jobs, signals,
                 counters, history>>

-----------------------------------------------------------------------------
ProcessStep    == Start \/ Cancel \/ Stopped \/ Crash
DispatcherStep == \/ ClaimDueDeliveries \/ ClaimNothing \/ Push
                  \/ Awake \/ Poll \/ DispatcherExit
WorkerStep(w)  == \/ Take(w) \/ LoadProvider(w) \/ LoadEvent(w) \/ Send(w)
                  \/ Record(w) \/ WorkerExit(w)
CallerStep     == \/ \E i \in Ids, p \in Providers : EnqueueDelivery(i, p)
                  \/ Nudge \/ AbandonNudge
                  \/ \E p \in Providers, s \in {"enabled", "disabled"} :
                       SetProvider(p, s)

Next == \/ ProcessStep \/ DispatcherStep \/ CallerStep \/ Tick
        \/ \E w \in Workers : WorkerStep(w)

Spec == Init /\ [][Next]_vars

(* The goroutines are scheduled, a Send returns (it is bound to SendTimeout),
   the ticker ticks, and a process that went down is started again (compose
   restarts the container).  Callers, administrators, crashes and shutdowns
   are not fair: they may never come. *)
Fairness ==
  /\ WF_vars(Start) /\ WF_vars(Stopped) /\ WF_vars(Tick)
  /\ WF_vars(ClaimDueDeliveries \/ ClaimNothing) /\ WF_vars(Push)
  /\ WF_vars(Poll) /\ WF_vars(DispatcherExit)
  /\ \A w \in Workers : WF_vars(WorkerStep(w))

FairSpec == Spec /\ Fairness

-----------------------------------------------------------------------------
(* Properties.                                                             *)

RowType == [status : Statuses, attempts : 0..MaxAttempts, due : Nat,
            provider : Providers]

(* Every variable has its type; the statuses are those of models/delivery.go. *)
TypeOK ==
  /\ row \in [Ids -> RowType]
  /\ provider \in [Providers -> {"enabled", "disabled", "missing"}]
  /\ engine \in {"down", "running", "stopping"}
  /\ dispatcher \in {"claim", "push", "wait", "exited"}
  /\ batch \in Seq(Job) /\ jobs \in Seq(Job)
  /\ pc \in [Workers -> {"idle", "done"} \cup BusyAt]
  /\ job \in [Workers -> Job \cup {NoJob}]
  /\ \A w \in Workers : Busy(w) => job[w] \in Job
  /\ outcome \in [Workers -> Outcomes]
  /\ fullBatch \in BOOLEAN /\ wake \in BOOLEAN /\ unnudged \in BOOLEAN
  /\ restarts \in 0..MaxRestarts /\ faults \in 0..MaxFaults
  /\ sends \in [Ids -> Nat] /\ accepted \in [Ids -> Nat]
  /\ unrecorded \in [Ids -> Nat] /\ lost \subseteq Ids

\* The jobs in memory.
AtWorkers == {job[w] : w \in {v \in Workers : Busy(v)}}
InMemory  == Range(batch) \cup Range(jobs) \cup AtWorkers

Distinct(s) == \A m, n \in DOMAIN s : s[m].id = s[n].id => m = n

(* A claimed delivery is in one place only: the dispatcher's batch, the jobs
   channel or one worker.  The Mark* updates have no condition on the status, so
   nothing but this keeps two workers from sending and recording one row. *)
SingleHolder ==
  /\ Distinct(batch) /\ Distinct(jobs)
  /\ \A v, w \in Workers : Busy(v) /\ Busy(w) /\ job[v].id = job[w].id => v = w
  /\ \A j \in Range(batch), k \in Range(jobs) \cup AtWorkers : j.id # k.id
  /\ \A j \in Range(jobs), k \in AtWorkers : j.id # k.id

Fresh(j) == /\ row[j.id].status = "in_progress"
            /\ row[j.id].attempts = j.attempts
            /\ row[j.id].due = 0

(* The attempt count a job carries is still the row's, and the row is still
   claimed and due, however long the job waited for a worker: what the worker
   writes back is never computed from a stale copy. *)
JobsAreFresh == \A j \in InMemory : Fresh(j)

(* While the engine runs, a row in_progress that nobody holds is one whose
   outcome this very process could not write: a full channel strands nothing,
   and what a shutdown or a crash left behind the next Start has put back. *)
NothingStranded ==
  \A i \in Ids : engine = "running" /\ row[i].status = "in_progress"
                    => i \in lost \/ \E j \in InMemory : j.id = i

(* A retry is pending only while attempts are left, and no row counts more
   attempts than max_attempts, whatever path recorded them. *)
AttemptsBounded ==
  \A i \in Ids : /\ row[i].attempts <= MaxAttempts
                 /\ row[i].status \in {"pending", "in_progress", "failed"}
                     => row[i].attempts < MaxAttempts

(* Each Send is counted by the row, or its attempt was cut off by a crash or a
   failed write, or it is under way: a restart adds at most the attempt it
   interrupted to the messages a provider may see twice.  A delivery recorded as
   a success was taken by its provider, once if nothing cut an attempt off. *)
SendsAccounted ==
  \A i \in Ids : /\ sends[i] <= row[i].attempts + unrecorded[i] + (IF InFlight(i) THEN 1 ELSE 0)
                 /\ row[i].status = "success" => accepted[i] > 0
                 /\ faults = 0 /\ unrecorded[i] = 0 => accepted[i] <= 1

(* Without a failing statement a nudge is never lost: a dispatcher that waits
   without a token has seen every new row, so the poll interval only paces
   retries. *)
NoLostWakeup ==
  faults = 0 =>
    \A i \in Ids : engine = "running" /\ dispatcher = "wait" /\ ~wake /\ ~unnudged
                      => row[i].status # "pending"

(* Success and dead are final: no retry, restart or late outcome of another
   attempt reopens or changes such a row. *)
TerminalIsFinal ==
  [][\A i \in Ids : row[i].status \in Terminal => row'[i] = row[i]]_vars

(* Every enqueued delivery ends as success or dead, unless the last process
   failed to write its outcome and no restart has followed. *)
EverySettles ==
  \A i \in Ids : <>[](row[i].status \in {"absent"} \cup Terminal \/ i \in lost)

(* Stop returns: neither a dispatcher blocked on a full channel nor a worker
   waiting for jobs keeps the process from shutting down. *)
StopReturns == engine = "stopping" ~> engine = "down"

-----------------------------------------------------------------------------
(* The queue keeps the promise of DeliveryPromise.                         *)
Promise == INSTANCE DeliveryPromise WITH
  phase <- [i \in Ids |-> IF row[i].status \in {"pending", "in_progress", "failed"}
                          THEN "queued" ELSE row[i].status],
  tried <- [i \in Ids |-> row[i].attempts],
  taken <- accepted

KeepsPromise == Promise!Spec
=============================================================================
