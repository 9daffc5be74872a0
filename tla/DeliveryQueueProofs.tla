------------------------ MODULE DeliveryQueueProofs ------------------------
(***************************************************************************)
(* Theorems about DeliveryQueue, for every number of deliveries, workers,  *)
(* channel and batch sizes, attempts, restarts and faults.                 *)
(***************************************************************************)
EXTENDS DeliveryQueue, TLAPS

\* The dispatcher is in the middle of a batch exactly when it has one to push.
BatchInv == dispatcher = "push" <=> batch # <<>>

\* Only a failed attempt puts the next one off.
BackoffInv == \A i \in Ids : row[i].due > 0 => row[i].status = "failed"

Inv == /\ TypeOK /\ BatchInv /\ SingleHolder /\ JobsAreFresh /\ AttemptsBounded
       /\ BackoffInv

-----------------------------------------------------------------------------
(* Sequences of jobs.                                                      *)

\* Taking the head off a sequence without duplicates.
LEMMA TailDistinct ==
  ASSUME NEW s \in Seq(Job), s # <<>>, Distinct(s)
  PROVE  /\ Head(s) \in Range(s) /\ Head(s) \in Job
         /\ Tail(s) \in Seq(Job) /\ Distinct(Tail(s))
         /\ \A j \in Range(Tail(s)) : j \in Range(s) /\ j.id # Head(s).id
  <1>1. /\ Len(s) \in Nat \ {0} /\ Head(s) = s[1] /\ Tail(s) \in Seq(Job)
        /\ DOMAIN s = 1..Len(s) /\ DOMAIN Tail(s) = 1..(Len(s) - 1)
        /\ \A n \in DOMAIN Tail(s) : Tail(s)[n] = s[n + 1]
    OBVIOUS
  <1>2. \A n \in DOMAIN Tail(s) : n + 1 \in DOMAIN s /\ n + 1 # 1
    BY <1>1
  <1>3. Distinct(Tail(s))
    BY <1>1, <1>2 DEF Distinct
  <1>4. \A j \in Range(Tail(s)) : j \in Range(s) /\ j.id # Head(s).id
    BY <1>1, <1>2 DEF Distinct, Range
  <1> QED BY <1>1, <1>3, <1>4 DEF Range

\* Appending a job that is not in the sequence yet.
LEMMA AppendDistinct ==
  ASSUME NEW s \in Seq(Job), Distinct(s), NEW j \in Job,
         \A k \in Range(s) : k.id # j.id
  PROVE  /\ Append(s, j) \in Seq(Job) /\ Distinct(Append(s, j))
         /\ Range(Append(s, j)) = Range(s) \cup {j}
  <1>1. /\ Len(s) \in Nat /\ Append(s, j) \in Seq(Job)
        /\ DOMAIN s = 1..Len(s) /\ DOMAIN Append(s, j) = 1..(Len(s) + 1)
        /\ \A n \in DOMAIN s : Append(s, j)[n] = s[n]
        /\ Append(s, j)[Len(s) + 1] = j
    OBVIOUS
  <1>2. \A n \in DOMAIN Append(s, j) : n \in DOMAIN s \/ n = Len(s) + 1
    BY <1>1
  <1>3. Distinct(Append(s, j))
    BY <1>1, <1>2 DEF Distinct, Range
  <1>4. Range(Append(s, j)) = Range(s) \cup {j}
    BY <1>1, <1>2 DEF Range
  <1> QED BY <1>1, <1>3, <1>4

\* An empty batch has no jobs twice.
LEMMA EmptyBatch == Distinct(<<>>) /\ Range(<<>>) = {} /\ <<>> \in Seq(Job)
  BY DEF Distinct, Range

\* A batch lists each claimed row once, as it was when it was claimed.
LEMMA ClaimedBatch ==
  ASSUME TypeOK, NEW k \in Nat, NEW s \in Claims(k)
  PROVE  LET b == [n \in 1..k |-> JobOf(s[n])]
         IN  /\ b \in Seq(Job) /\ Distinct(b)
             /\ \A j \in Range(b) : j.id \in Due /\ j.attempts = row[j.id].attempts
             /\ \A j \in Range(b) : \E n \in 1..k : s[n] = j.id
  <1> DEFINE b == [n \in 1..k |-> JobOf(s[n])]
  <1>1. /\ s \in [1..k -> Due] /\ \A m, n \in 1..k : s[m] = s[n] => m = n
    BY DEF Claims
  <1>2. \A i \in Due : i \in Ids /\ JobOf(i) \in Job
    BY DEF Due, JobOf, Job, TypeOK, RowType
  <1>3. b \in [1..k -> Job]
    BY <1>1, <1>2
  <1>4. b \in Seq(Job) /\ DOMAIN b = 1..k
    BY <1>3
  <1>5. \A n \in 1..k : b[n].id = s[n] /\ b[n].attempts = row[s[n]].attempts
    BY DEF JobOf
  <1>6. Distinct(b)
    BY <1>1, <1>4, <1>5 DEF Distinct
  <1>7. \A j \in Range(b) : /\ j.id \in Due /\ j.attempts = row[j.id].attempts
                            /\ \E n \in 1..k : s[n] = j.id
    BY <1>1, <1>4, <1>5 DEF Range
  <1> QED BY <1>4, <1>6, <1>7
-----------------------------------------------------------------------------
(* The worker table.                                                       *)

\* A worker that goes on with the job it has changes nothing in memory.
LEMMA KeepsJob ==
  ASSUME Inv, NEW w \in Workers, Busy(w), NEW l \in BusyAt, NEW o \in Outcomes,
         Goto(w, l, job[w], o), UNCHANGED <<row, batch, jobs, dispatcher>>
  PROVE  /\ pc' \in [Workers -> {"idle", "done"} \cup BusyAt]
         /\ job' \in [Workers -> Job \cup {NoJob}]
         /\ \A v \in Workers : Busy(v)' => job'[v] \in Job
         /\ outcome' \in [Workers -> Outcomes]
         /\ BatchInv' /\ SingleHolder' /\ JobsAreFresh' /\ AttemptsBounded'
         /\ BackoffInv'
  <1>1. /\ pc \in [Workers -> {"idle", "done"} \cup BusyAt]
        /\ job \in [Workers -> Job \cup {NoJob}]
        /\ outcome \in [Workers -> Outcomes]
        /\ \A v \in Workers : Busy(v) => job[v] \in Job
    BY DEF Inv, TypeOK
  <1>2. job' = job
    BY <1>1 DEF Goto
  <1>3. /\ pc' \in [Workers -> {"idle", "done"} \cup BusyAt]
        /\ outcome' \in [Workers -> Outcomes]
        /\ \A v \in Workers : Busy(v)' <=> Busy(v)
    BY <1>1 DEF Goto, Busy
  <1>4. AtWorkers' = AtWorkers
    BY <1>2, <1>3 DEF AtWorkers
  <1>5. SingleHolder'
    BY <1>2, <1>3, <1>4 DEF Inv, SingleHolder
  <1>6. JobsAreFresh'
    BY <1>4 DEF Inv, JobsAreFresh, InMemory, Fresh
  <1> QED BY <1>1, <1>2, <1>3, <1>5, <1>6 DEF Inv, BatchInv, AttemptsBounded, BackoffInv

\* A worker that is done with its job only takes it out of memory.
LEMMA DropsJob ==
  ASSUME Inv, NEW w \in Workers, NEW l \in {"idle", "done"},
         Goto(w, l, NoJob, NoOutcome)
  PROVE  /\ pc' \in [Workers -> {"idle", "done"} \cup BusyAt]
         /\ job' \in [Workers -> Job \cup {NoJob}]
         /\ \A v \in Workers : Busy(v)' => job'[v] \in Job
         /\ outcome' \in [Workers -> Outcomes]
         /\ \A v \in Workers : Busy(v)' => v # w /\ Busy(v) /\ job'[v] = job[v]
         /\ AtWorkers' \subseteq AtWorkers
  <1>1. /\ pc \in [Workers -> {"idle", "done"} \cup BusyAt]
        /\ job \in [Workers -> Job \cup {NoJob}]
        /\ outcome \in [Workers -> Outcomes]
        /\ \A v \in Workers : Busy(v) => job[v] \in Job
    BY DEF Inv, TypeOK
  <1>2. \A v \in Workers : Busy(v)' => v # w /\ Busy(v) /\ job'[v] = job[v]
    BY <1>1 DEF Goto, Busy, BusyAt
  <1>3. /\ pc' \in [Workers -> {"idle", "done"} \cup BusyAt]
        /\ job' \in [Workers -> Job \cup {NoJob}]
        /\ outcome' \in [Workers -> Outcomes]
    BY <1>1 DEF Goto, Outcomes
  <1>4. AtWorkers' \subseteq AtWorkers
    BY <1>2 DEF AtWorkers
  <1> QED BY <1>1, <1>2, <1>3, <1>4

\* With all workers back at the start nothing is in their hands.
LEMMA NoWorkers ==
  ASSUME NEW l \in {"idle", "done"}, AllWorkers(l)
  PROVE  /\ pc' \in [Workers -> {"idle", "done"} \cup BusyAt]
         /\ job' \in [Workers -> Job \cup {NoJob}]
         /\ outcome' \in [Workers -> Outcomes]
         /\ \A v \in Workers : ~Busy(v)'
         /\ AtWorkers' = {}
  <1>1. \A v \in Workers : ~Busy(v)'
    BY DEF AllWorkers, Busy, BusyAt
  <1>2. AtWorkers' = {}
    BY <1>1 DEF AtWorkers
  <1> QED BY <1>1, <1>2 DEF AllWorkers, Outcomes

\* An empty memory is in order.
LEMMA EmptyMemory ==
  ASSUME batch = <<>>, jobs = <<>>, \A v \in Workers : ~Busy(v)
  PROVE  SingleHolder /\ JobsAreFresh
  <1>1. AtWorkers = {}
    BY DEF AtWorkers
  <1> QED BY <1>1, EmptyBatch DEF SingleHolder, JobsAreFresh, InMemory

-----------------------------------------------------------------------------
(* Each step preserves the invariant.                                      *)

\* An empty queue has the invariant.
LEMMA InitInv == Init => Inv
  <1> SUFFICES ASSUME Init PROVE Inv
    OBVIOUS
  <1>1. \A v \in Workers : ~Busy(v)
    BY DEF Init, Busy, BusyAt
  <1>2. TypeOK
    <2>1. (CHOOSE p \in Providers : TRUE) \in Providers
      BY QueueAssumption DEF QueueAssumption
    <2>2. row \in [Ids -> RowType]
      BY <2>1, QueueAssumption DEF Init, RowType, Statuses, QueueAssumption
    <2>3. /\ pc \in [Workers -> {"idle", "done"} \cup BusyAt]
          /\ job \in [Workers -> Job \cup {NoJob}]
          /\ outcome \in [Workers -> Outcomes]
      BY DEF Init, Outcomes
    <2>4. /\ restarts \in 0..MaxRestarts /\ faults \in 0..MaxFaults
          /\ sends \in [Ids -> Nat] /\ accepted \in [Ids -> Nat]
          /\ unrecorded \in [Ids -> Nat] /\ lost \subseteq Ids
      BY QueueAssumption DEF Init, QueueAssumption
    <2>5. batch \in Seq(Job) /\ jobs \in Seq(Job)
      BY EmptyBatch DEF Init
    <2> QED BY <1>1, <2>2, <2>3, <2>4, <2>5 DEF TypeOK, Init
  <1>3. BatchInv
    BY DEF Init, BatchInv
  <1>4. SingleHolder /\ JobsAreFresh
    BY <1>1, EmptyMemory DEF Init
  <1>5. AttemptsBounded
    BY QueueAssumption DEF Init, AttemptsBounded, QueueAssumption
  <1>6. BackoffInv
    BY DEF Init, BackoffInv
  <1> QED BY <1>2, <1>3, <1>4, <1>5, <1>6 DEF Inv

\* A start keeps it: what was in delivery goes back to the queue.
LEMMA StartInv == ASSUME Inv, Start PROVE Inv'
  <1>1. /\ AtWorkers' = {} /\ (\A v \in Workers : ~Busy(v)')
        /\ pc' \in [Workers -> {"idle", "done"} \cup BusyAt]
        /\ job' \in [Workers -> Job \cup {NoJob}]
        /\ outcome' \in [Workers -> Outcomes]
    BY NoWorkers DEF Start
  <1>2. \A i \in Ids : /\ ResetInProgress(row[i]) \in RowType
                       /\ ResetInProgress(row[i]).attempts = row[i].attempts
                       /\ ResetInProgress(row[i]).status \in Claimable
                            => row[i].status \in Claimable \cup {"in_progress"}
                       /\ ResetInProgress(row[i]).status # "in_progress"
                       /\ ResetInProgress(row[i]) = row[i]
                            \/ ResetInProgress(row[i]).due = 0
    BY DEF Inv, TypeOK, RowType, Statuses, ResetInProgress, Reopened, Claimable
  <1>3. row' \in [Ids -> RowType]
    BY <1>2 DEF Start
  <1>4. TypeOK'
    <2>1. restarts' \in 0..MaxRestarts
      BY QueueAssumption DEF QueueAssumption, Inv, TypeOK, Start
    <2> QED BY <1>1, <1>3, <2>1, EmptyBatch DEF Inv, TypeOK, Start, signals
  <1>5. SingleHolder' /\ JobsAreFresh'
    BY <1>1, EmptyBatch DEF SingleHolder, JobsAreFresh, InMemory, Start
  <1>6. AttemptsBounded'
    BY <1>2 DEF Inv, AttemptsBounded, Start, Claimable
  <1>7. BatchInv'
    BY DEF Start, BatchInv
  <1>8. BackoffInv'
    BY <1>2 DEF Inv, BackoffInv, Start
  <1> QED BY <1>4, <1>5, <1>6, <1>7, <1>8 DEF Inv

\* A crash keeps it: only memory is lost.
LEMMA CrashInv == ASSUME Inv, Crash PROVE Inv'
  <1>1. /\ AtWorkers' = {} /\ (\A v \in Workers : ~Busy(v)')
        /\ pc' \in [Workers -> {"idle", "done"} \cup BusyAt]
        /\ job' \in [Workers -> Job \cup {NoJob}]
        /\ outcome' \in [Workers -> Outcomes]
    BY NoWorkers DEF Crash
  <1>2. unrecorded' \in [Ids -> Nat]
    BY DEF Inv, TypeOK, Crash
  <1>3. TypeOK'
    BY <1>1, <1>2, EmptyBatch DEF Inv, TypeOK, Crash, tables, counters
  <1>4. SingleHolder' /\ JobsAreFresh'
    BY <1>1, EmptyBatch DEF SingleHolder, JobsAreFresh, InMemory, Crash
  <1> QED BY <1>3, <1>4 DEF Inv, AttemptsBounded, BatchInv, BackoffInv, Crash, tables

\* So does a worker that takes a job.
LEMMA TakeInv == ASSUME Inv, NEW w \in Workers, Take(w) PROVE Inv'
  <1> USE DEF tables, signals, counters, history, workers
  <1>1. /\ Head(jobs) \in Range(jobs) /\ Head(jobs) \in Job
        /\ jobs' \in Seq(Job) /\ Distinct(jobs')
        /\ \A j \in Range(jobs') : j \in Range(jobs) /\ j.id # Head(jobs).id
    BY TailDistinct DEF Inv, TypeOK, SingleHolder, Take
  <1>2. /\ pc \in [Workers -> {"idle", "done"} \cup BusyAt]
        /\ job \in [Workers -> Job \cup {NoJob}]
        /\ outcome \in [Workers -> Outcomes]
        /\ \A v \in Workers : Busy(v) => job[v] \in Job
    BY DEF Inv, TypeOK
  <1>3. /\ pc' \in [Workers -> {"idle", "done"} \cup BusyAt]
        /\ job' \in [Workers -> Job \cup {NoJob}]
        /\ outcome' \in [Workers -> Outcomes]
    BY <1>1, <1>2 DEF Take, Goto, BusyAt, Outcomes
  <1>4. /\ \A v \in Workers : v # w => (Busy(v)' <=> Busy(v)) /\ job'[v] = job[v]
        /\ Busy(w)' => job'[w] = Head(jobs)
        /\ ~Busy(w)
    BY <1>2 DEF Take, Goto, Busy, BusyAt
  <1>5. \A j \in AtWorkers' : j \in AtWorkers \/ j = Head(jobs)
    BY <1>4 DEF AtWorkers
  <1>6. TypeOK'
    BY <1>1, <1>2, <1>3, <1>4 DEF Inv, TypeOK, Take
  <1>7. \A u, v \in Workers : Busy(u)' /\ Busy(v)' /\ job'[u].id = job'[v].id => u = v
    BY <1>1, <1>4 DEF Inv, SingleHolder, AtWorkers
  <1>8. SingleHolder'
    BY <1>1, <1>5, <1>7 DEF Inv, SingleHolder, Take
  <1>9. JobsAreFresh'
    BY <1>1, <1>5 DEF Inv, JobsAreFresh, InMemory, Fresh, Take
  <1> QED BY <1>6, <1>8, <1>9 DEF Inv, BatchInv, AttemptsBounded, BackoffInv, Take

\* The worker loads the provider.
LEMMA LoadProviderInv == ASSUME Inv, NEW w \in Workers, LoadProvider(w) PROVE Inv'
  <1> USE DEF tables, signals, counters, history
  <1>1. Busy(w) /\ UNCHANGED <<row, batch, jobs, dispatcher>>
    BY DEF LoadProvider, Busy, BusyAt
  <1>2. \E l \in BusyAt, o \in Outcomes : Goto(w, l, job[w], o)
    BY DEF LoadProvider, BusyAt, Outcomes
  <1>3. faults' \in 0..MaxFaults
    BY QueueAssumption DEF QueueAssumption, Inv, TypeOK, LoadProvider, Fault, NoFault
  <1> QED BY <1>1, <1>2, <1>3, KeepsJob DEF Inv, TypeOK, LoadProvider

\* It loads the event.
LEMMA LoadEventInv == ASSUME Inv, NEW w \in Workers, LoadEvent(w) PROVE Inv'
  <1> USE DEF tables, signals, counters, history
  <1>1. Busy(w) /\ UNCHANGED <<row, batch, jobs, dispatcher>>
    BY DEF LoadEvent, Busy, BusyAt
  <1>2. \E l \in BusyAt, o \in Outcomes : Goto(w, l, job[w], o)
    BY DEF LoadEvent, BusyAt, Outcomes
  <1>3. faults' \in 0..MaxFaults
    BY QueueAssumption DEF QueueAssumption, Inv, TypeOK, LoadEvent, Fault, NoFault
  <1>4. sends' \in [Ids -> Nat]
    <2>1. sends \in [Ids -> Nat] /\ job[w].id \in Ids
      BY <1>1 DEF Inv, TypeOK, Job
    <2>2. sends' = [sends EXCEPT ![job[w].id] = @ + 1] \/ UNCHANGED sends
      BY DEF LoadEvent
    <2> QED BY <2>1, <2>2
  <1> QED BY <1>1, <1>2, <1>3, <1>4, KeepsJob DEF Inv, TypeOK, LoadEvent

\* It sends.
LEMMA SendInv == ASSUME Inv, NEW w \in Workers, Send(w) PROVE Inv'
  <1> USE DEF tables, signals, counters, history
  <1>1. Busy(w) /\ UNCHANGED <<row, batch, jobs, dispatcher>>
    BY DEF Send, Busy, BusyAt
  <1>2. \E l \in BusyAt, o \in Outcomes : Goto(w, l, job[w], o)
    BY DEF Send, BusyAt, Outcomes
  <1>3. faults' \in 0..MaxFaults
    BY QueueAssumption DEF QueueAssumption, Inv, TypeOK, Send, Fault, NoFault
  <1>4. accepted' \in [Ids -> Nat]
    <2>1. accepted \in [Ids -> Nat] /\ job[w].id \in Ids
      BY <1>1 DEF Inv, TypeOK, Job
    <2>2. accepted' = [accepted EXCEPT ![job[w].id] = @ + 1] \/ UNCHANGED accepted
      BY DEF Send
    <2> QED BY <2>1, <2>2
  <1> QED BY <1>1, <1>2, <1>3, <1>4, KeepsJob DEF Inv, TypeOK, Send

\* What Recorded makes of a claimed row that has attempts left.
LEMMA RecordedRow ==
  ASSUME NEW r \in RowType, NEW o \in Outcomes, r.attempts < MaxAttempts
  PROVE  LET q == Recorded(r, o, r.attempts + 1)
         IN  /\ q \in RowType /\ q.attempts = r.attempts + 1
             /\ q.status \in {"success", "dead", "failed"}
             /\ q.status = "failed" => q.attempts < MaxAttempts
             /\ q.status = "success" <=> o = "ok"
             /\ q.status # "failed" => q.due = r.due
  <1> DEFINE n == r.attempts + 1
  <1>1. n \in 1..MaxAttempts /\ n \in 0..MaxAttempts /\ Backoff[n] \in Nat
    BY QueueAssumption DEF QueueAssumption, RowType
  <1>2. CASE o = "ok"
    <2>1. Recorded(r, o, n) = [r EXCEPT !.status = "success", !.attempts = n]
      BY <1>2 DEF Recorded
    <2>2. Recorded(r, o, n) \in RowType
      BY <1>1, <2>1 DEF RowType, Statuses
    <2> QED BY <1>2, <2>1, <2>2 DEF RowType
  <1>3. CASE o # "ok" /\ (o = "fatal" \/ n >= MaxAttempts)
    <2>1. Recorded(r, o, n) = [r EXCEPT !.status = "dead", !.attempts = n]
      BY <1>3 DEF Recorded
    <2> QED BY <1>1, <1>3, <2>1 DEF RowType, Statuses
  <1>4. CASE ~(o = "ok" \/ o = "fatal" \/ n >= MaxAttempts)
    <2>1. Recorded(r, o, n) = [[r EXCEPT !.status = "failed", !.attempts = n]
                                 EXCEPT !.due = Backoff[n]]
      BY <1>4 DEF Recorded
    <2>2. Recorded(r, o, n) \in RowType
      BY <1>1, <2>1 DEF RowType, Statuses
    <2>3. n < MaxAttempts
      BY <1>1, <1>4, QueueAssumption DEF QueueAssumption
    <2> QED BY <1>4, <2>1, <2>2, <2>3 DEF RowType
  <1> QED BY <1>2, <1>3, <1>4

\* It records the outcome.
LEMMA RecordInv == ASSUME Inv, NEW w \in Workers, Record(w) PROVE Inv'
  <1> USE DEF signals
  <1> DEFINE i == job[w].id
  <1>1. /\ Busy(w) /\ job[w] \in AtWorkers /\ job[w] \in InMemory
        /\ i \in Ids /\ row[i] \in RowType /\ outcome[w] \in Outcomes
    BY DEF Inv, TypeOK, Record, Busy, BusyAt, Job, AtWorkers, InMemory
  <1>2. /\ row[i].status = "in_progress" /\ row[i].attempts = job[w].attempts
        /\ row[i].attempts < MaxAttempts /\ row[i].due = 0
    <2>1. Fresh(job[w])
      BY <1>1 DEF Inv, JobsAreFresh
    <2>2. /\ row[i].status = "in_progress" /\ row[i].attempts = job[w].attempts
          /\ row[i].due = 0
      BY <2>1 DEF Fresh
    <2>3. \A k \in Ids : row[k].status = "in_progress" => row[k].attempts < MaxAttempts
      BY DEF Inv, AttemptsBounded
    <2> QED BY <1>1, <2>2, <2>3
  <1>3. /\ pc' \in [Workers -> {"idle", "done"} \cup BusyAt]
        /\ job' \in [Workers -> Job \cup {NoJob}]
        /\ \A v \in Workers : Busy(v)' => job'[v] \in Job
        /\ outcome' \in [Workers -> Outcomes]
        /\ \A v \in Workers : Busy(v)' => v # w /\ Busy(v) /\ job'[v] = job[v]
        /\ AtWorkers' \subseteq AtWorkers
    BY DropsJob DEF Record
  <1>4. \/ row' = row
        \/ row' = [row EXCEPT ![i] = Recorded(row[i], outcome[w], row[i].attempts + 1)]
    <2>1. job[w].attempts + 1 = row[i].attempts + 1
      BY <1>2
    <2>2. UNCHANGED row \/ row' = [row EXCEPT ![i] = Recorded(@, outcome[w], job[w].attempts + 1)]
      BY Zenon DEF Record
    <2> QED BY <2>1, <2>2
  <1>5. /\ row' \in [Ids -> RowType]
        /\ \A k \in Ids : k # i => row'[k] = row[k]
        /\ row'[i].attempts <= MaxAttempts
        /\ row'[i].status \in {"pending", "in_progress", "failed"}
             => row'[i].attempts < MaxAttempts
        /\ row'[i].due > 0 => row'[i].status = "failed"
    <2>1. row \in [Ids -> RowType] /\ row[i].due = 0
      BY <1>1, <1>2 DEF Inv, TypeOK
    <2>2. /\ row[i].attempts \in Nat /\ MaxAttempts \in Nat
          /\ row[i].attempts + 1 <= MaxAttempts
      BY <1>1, <1>2, QueueAssumption DEF QueueAssumption, RowType
    <2> DEFINE q == Recorded(row[i], outcome[w], row[i].attempts + 1)
    <2>3. /\ q \in RowType /\ q.attempts = row[i].attempts + 1
          /\ q.status \in {"success", "dead", "failed"}
          /\ q.status = "failed" => q.attempts < MaxAttempts
          /\ q.status # "failed" => q.due = row[i].due
      BY <1>1, <1>2, RecordedRow
    <2> HIDE DEF q
    <2>4. CASE row' = row
      BY <1>1, <1>2, <2>1, <2>2, <2>4
    <2>5. CASE row' = [row EXCEPT ![i] = q]
      BY <1>1, <2>1, <2>2, <2>3, <2>5
    <2> QED BY <1>4, <2>4, <2>5 DEF q
  <1>6. faults' \in 0..MaxFaults
    BY QueueAssumption DEF QueueAssumption, Inv, TypeOK, Record, Fault, NoFault
  <1>7. unrecorded' \in [Ids -> Nat] /\ lost' \subseteq Ids
    <2>1. unrecorded \in [Ids -> Nat] /\ lost \subseteq Ids
      BY DEF Inv, TypeOK
    <2>2. \/ UNCHANGED <<unrecorded, lost>>
          \/ unrecorded' = [unrecorded EXCEPT ![i] = @ + 1] /\ lost' = lost \cup {i}
      BY DEF Record
    <2> QED BY <1>1, <2>1, <2>2
  <1>8. TypeOK'
    BY <1>3, <1>5, <1>6, <1>7 DEF Inv, TypeOK, Record
  <1>9. SingleHolder'
    BY <1>3 DEF Inv, SingleHolder, Record
  <1>10. \A j \in InMemory' : j \in InMemory /\ j.id # i /\ j.id \in Ids
    <2>1. \A j \in AtWorkers' : j.id # i
      BY <1>1, <1>3 DEF Inv, SingleHolder, AtWorkers
    <2>2. \A j \in Range(batch) \cup Range(jobs) : j.id # i
      BY <1>1 DEF Inv, SingleHolder
    <2>3. \A j \in Range(batch) \cup Range(jobs) \cup AtWorkers : j \in Job
      BY DEF Inv, TypeOK, Range, AtWorkers
    <2> QED BY <1>3, <2>1, <2>2, <2>3 DEF InMemory, Record, Job
  <1>11. JobsAreFresh'
    BY <1>5, <1>10 DEF Inv, JobsAreFresh, Fresh
  <1>12. AttemptsBounded'
    BY <1>5 DEF Inv, AttemptsBounded
  <1>13. BackoffInv'
    BY <1>5 DEF Inv, BackoffInv
  <1> QED BY <1>8, <1>9, <1>11, <1>12, <1>13 DEF Inv, BatchInv, Record

\* It ends.
LEMMA WorkerExitInv == ASSUME Inv, NEW w \in Workers, WorkerExit(w) PROVE Inv'
  <1> USE DEF tables, signals, counters, history
  <1>1. /\ pc' \in [Workers -> {"idle", "done"} \cup BusyAt]
        /\ job' \in [Workers -> Job \cup {NoJob}]
        /\ \A v \in Workers : Busy(v)' => job'[v] \in Job
        /\ outcome' \in [Workers -> Outcomes]
        /\ \A v \in Workers : Busy(v)' => v # w /\ Busy(v) /\ job'[v] = job[v]
        /\ AtWorkers' \subseteq AtWorkers
    BY DropsJob DEF WorkerExit
  <1>2. TypeOK'
    BY <1>1 DEF Inv, TypeOK, WorkerExit
  <1>3. SingleHolder'
    BY <1>1 DEF Inv, SingleHolder, WorkerExit
  <1>4. JobsAreFresh'
    BY <1>1 DEF Inv, JobsAreFresh, InMemory, Fresh, WorkerExit
  <1> QED BY <1>2, <1>3, <1>4 DEF Inv, BatchInv, AttemptsBounded, BackoffInv, WorkerExit

\* The batch moves to the channel one job at a time.
LEMMA PushInv == ASSUME Inv, Push PROVE Inv'
  <1> USE DEF tables, signals, counters, history, workers
  <1>1. batch \in Seq(Job) /\ jobs \in Seq(Job) /\ batch # <<>>
        /\ Distinct(batch) /\ Distinct(jobs)
    BY DEF Inv, TypeOK, BatchInv, SingleHolder, Push
  <1>2. /\ Head(batch) \in Range(batch) /\ Head(batch) \in Job
        /\ batch' \in Seq(Job) /\ Distinct(batch')
        /\ \A j \in Range(batch') : j \in Range(batch) /\ j.id # Head(batch).id
    BY <1>1, TailDistinct DEF Push
  <1>3. \A k \in Range(jobs) : k.id # Head(batch).id
    BY <1>2 DEF Inv, SingleHolder
  <1>4. /\ jobs' \in Seq(Job) /\ Distinct(jobs')
        /\ Range(jobs') = Range(jobs) \cup {Head(batch)}
    BY <1>1, <1>2, <1>3, AppendDistinct DEF Push
  <1>5. AtWorkers' = AtWorkers
    BY DEF Push, AtWorkers, Busy
  <1>6. dispatcher' \in {"claim", "push", "wait"} /\ BatchInv'
    BY <1>1 DEF Push, BatchInv
  <1>7. TypeOK'
    BY <1>2, <1>4, <1>6 DEF Inv, TypeOK, Push, Busy
  <1>8. SingleHolder'
    BY <1>2, <1>3, <1>4, <1>5 DEF Inv, SingleHolder, Push, Busy
  <1>9. JobsAreFresh'
    BY <1>2, <1>4, <1>5 DEF Inv, JobsAreFresh, InMemory, Fresh, Push
  <1> QED BY <1>6, <1>7, <1>8, <1>9 DEF Inv, AttemptsBounded, BackoffInv, Push

\* Claimed rows were due, so nobody held them.
LEMMA ClaimInv == ASSUME Inv, ClaimDueDeliveries PROVE Inv'
  <1> USE DEF signals, counters, history, workers
  <1> DEFINE Claimed(k, s) ==
               /\ batch' = [n \in 1..k |-> JobOf(s[n])]
               /\ row' = [i \in Ids |-> IF \E n \in 1..k : s[n] = i
                                        THEN [row[i] EXCEPT !.status = "in_progress"]
                                        ELSE row[i]]
               /\ fullBatch' = (k = BatchSize)
  <1>0. PICK k \in 1..BatchSize : \E s \in Claims(k) : Claimed(k, s)
    BY DEF ClaimDueDeliveries
  <1>1. PICK s \in Claims(k) : Claimed(k, s)
    BY <1>0
  <1>2. k \in Nat \ {0}
    BY QueueAssumption DEF QueueAssumption
  <1>3. /\ batch' \in Seq(Job) /\ Distinct(batch')
        /\ \A j \in Range(batch') : /\ j.id \in Due /\ j.attempts = row[j.id].attempts
                                    /\ \E n \in 1..k : s[n] = j.id
    BY <1>1, <1>2, ClaimedBatch DEF Inv
  <1>4. batch' # <<>>
    BY <1>1, <1>2
  <1>5. \A i \in Ids : /\ row[i] \in RowType /\ row'[i] \in RowType
                       /\ row'[i].attempts = row[i].attempts
                       /\ row'[i].due = row[i].due
                       /\ row'[i].status = "in_progress" \/ row'[i] = row[i]
                       /\ (\E n \in 1..k : s[n] = i) => row'[i].status = "in_progress"
    BY <1>1 DEF Inv, TypeOK, RowType, Statuses
  <1>6. \A i \in Ids : row'[i].status \in {"pending", "in_progress", "failed"}
                         => row[i].status \in {"pending", "in_progress", "failed"}
    <2>1. \A n \in 1..k : s[n] \in Due
      BY DEF Claims
    <2> QED BY <1>1, <1>5, <2>1 DEF Due, Claimable
  <1>7. row' \in [Ids -> RowType]
    BY <1>1, <1>5
  <1>8. AtWorkers' = AtWorkers
    BY DEF ClaimDueDeliveries, AtWorkers, Busy
  <1>9. \A j \in Range(jobs) \cup AtWorkers : j.id \notin Due /\ j.id \in Ids
    <2>1. \A j \in Range(jobs) \cup AtWorkers : j \in Job /\ Fresh(j)
      BY DEF Inv, TypeOK, JobsAreFresh, InMemory, Range, AtWorkers
    <2> QED BY <2>1 DEF Due, Claimable, Fresh, Job
  <1>10. TypeOK'
    BY <1>1, <1>3, <1>7 DEF Inv, TypeOK, ClaimDueDeliveries, Busy
  <1>11. BatchInv'
    BY <1>4 DEF BatchInv, ClaimDueDeliveries
  <1>12. SingleHolder'
    BY <1>3, <1>8, <1>9 DEF Inv, SingleHolder, ClaimDueDeliveries, Busy
  <1>13. JobsAreFresh'
    <2>1. \A j \in Range(batch') : Fresh(j)'
      BY <1>3, <1>5 DEF Fresh, Due
    <2>2. \A j \in Range(jobs) \cup AtWorkers : Fresh(j)'
      BY <1>5, <1>9 DEF Inv, JobsAreFresh, InMemory, Fresh
    <2> QED BY <1>8, <2>1, <2>2 DEF JobsAreFresh, InMemory, ClaimDueDeliveries
  <1>14. AttemptsBounded'
    BY <1>5, <1>6 DEF Inv, AttemptsBounded
  <1>15. BackoffInv'
    <2>1. \A i \in Ids : row'[i] = row[i] \/ row[i].due = 0
      <3>1. \A n \in 1..k : s[n] \in Due
        BY DEF Claims
      <3> QED BY <1>1, <3>1 DEF Inv, TypeOK, Due
    <2> QED BY <1>5, <2>1 DEF Inv, BackoffInv
  <1> QED BY <1>10, <1>11, <1>12, <1>13, <1>14, <1>15 DEF Inv

\* The remaining steps leave rows and workers alone or change only statuses
\* that nobody in memory cares about.
LEMMA QuietStep ==
  ASSUME Inv, UNCHANGED <<row, batch, jobs, workers>>,
         (dispatcher' = "push") <=> (dispatcher = "push")
  PROVE  /\ BatchInv' /\ SingleHolder' /\ JobsAreFresh' /\ AttemptsBounded'
         /\ BackoffInv'
         /\ \A v \in Workers : Busy(v)' <=> Busy(v)
  <1>1. \A v \in Workers : Busy(v)' <=> Busy(v)
    BY DEF workers, Busy
  <1>2. AtWorkers' = AtWorkers
    BY <1>1 DEF workers, AtWorkers
  <1>3. SingleHolder'
    BY <1>1, <1>2 DEF Inv, SingleHolder, workers
  <1>4. JobsAreFresh'
    BY <1>2 DEF Inv, JobsAreFresh, InMemory, Fresh
  <1> QED BY <1>1, <1>3, <1>4 DEF Inv, BatchInv, AttemptsBounded, BackoffInv

\* The process is told to end, and has ended.
LEMMA ProcessInv == ASSUME Inv, Cancel \/ Stopped PROVE Inv'
  <1> USE DEF tables, counters, history
  <1>1. UNCHANGED <<row, batch, jobs, dispatcher, workers>>
    BY DEF Cancel, Stopped
  <1>2. TypeOK'
    BY <1>1, QuietStep DEF Inv, TypeOK, Cancel, Stopped, signals, workers
  <1> QED BY <1>1, <1>2, QuietStep DEF Inv

\* A delivery is enqueued under an id of its own: nobody holds it yet.
LEMMA EnqueueInv ==
  ASSUME Inv, NEW i \in Ids, NEW p \in Providers, EnqueueDelivery(i, p) PROVE Inv'
  <1> USE DEF threads, counters, history, workers
  <1>1. /\ row' \in [Ids -> RowType]
        /\ \A k \in Ids : k # i => row'[k] = row[k]
        /\ row'[i].attempts = 0 /\ row'[i].due = 0
    BY QueueAssumption
       DEF QueueAssumption, Inv, TypeOK, EnqueueDelivery, RowType, Statuses
  <1>2. AtWorkers' = AtWorkers /\ \A v \in Workers : Busy(v)' <=> Busy(v)
    BY DEF EnqueueDelivery, AtWorkers, Busy
  <1>3. TypeOK'
    BY <1>1, <1>2 DEF Inv, TypeOK, EnqueueDelivery
  <1>4. \A j \in InMemory : j.id \in Ids /\ j.id # i
    <2>1. \A j \in InMemory : j \in Job
      BY DEF Inv, TypeOK, InMemory, Range, AtWorkers
    <2>2. \A j \in InMemory : row[j.id].status = "in_progress"
      BY DEF Inv, JobsAreFresh, Fresh
    <2> QED BY <2>1, <2>2 DEF EnqueueDelivery, Job
  <1>5. JobsAreFresh'
    BY <1>1, <1>2, <1>4 DEF Inv, JobsAreFresh, InMemory, Fresh, EnqueueDelivery
  <1>6. SingleHolder'
    BY <1>2 DEF Inv, SingleHolder, EnqueueDelivery
  <1>7. AttemptsBounded'
    BY <1>1, QueueAssumption DEF QueueAssumption, Inv, AttemptsBounded
  <1>8. BackoffInv'
    BY <1>1 DEF Inv, BackoffInv
  <1> QED BY <1>3, <1>5, <1>6, <1>7, <1>8 DEF Inv, BatchInv, EnqueueDelivery

\* A nudge comes or is given up, or a provider is switched.
LEMMA CallerInv ==
  ASSUME Inv, Nudge \/ AbandonNudge \/ \E p \in Providers, s \in {"enabled", "disabled"} :
                                          SetProvider(p, s)
  PROVE  Inv'
  <1> USE DEF tables, threads, counters, history, signals
  <1>1. UNCHANGED <<row, batch, jobs, dispatcher, workers>>
    BY DEF Nudge, AbandonNudge, SetProvider
  <1>2. faults' \in 0..MaxFaults
    BY QueueAssumption
       DEF QueueAssumption, Inv, TypeOK, Nudge, AbandonNudge, SetProvider, Fault
  <1>3. provider' \in [Providers -> {"enabled", "disabled", "missing"}]
    BY DEF Inv, TypeOK, Nudge, AbandonNudge, SetProvider
  <1>4. TypeOK'
    BY <1>1, <1>2, <1>3, QuietStep
       DEF Inv, TypeOK, Nudge, AbandonNudge, SetProvider, workers
  <1> QED BY <1>1, <1>4, QuietStep DEF Inv

\* Waiting brings only rows closer that are not due, so no claimed one.
LEMMA TickInv == ASSUME Inv, Tick PROVE Inv'
  <1> USE DEF threads, counters, history, signals, workers
  <1>1. /\ row' \in [Ids -> RowType]
        /\ \A k \in Ids : /\ row'[k].status = row[k].status
                          /\ row'[k].attempts = row[k].attempts
                          /\ row[k].due = 0 => row'[k] = row[k]
                          /\ row'[k].due > 0 => row[k].due > 0
    <2>1. row \in [Ids -> RowType]
      BY DEF Inv, TypeOK
    <2>2. \A k \in Ids : row[k].due > 0 =>
            LET r == [row[k] EXCEPT !.due = @ - 1]
            IN  r \in RowType /\ r.status = row[k].status /\ r.attempts = row[k].attempts
      BY <2>1 DEF RowType
    <2>3. row' = [k \in Ids |-> IF row[k].due > 0
                                THEN [row[k] EXCEPT !.due = @ - 1] ELSE row[k]]
      BY DEF Tick
    <2> QED BY <2>1, <2>2, <2>3
  <1>2. AtWorkers' = AtWorkers /\ \A v \in Workers : Busy(v)' <=> Busy(v)
    BY DEF Tick, AtWorkers, Busy
  <1>3. TypeOK'
    BY <1>1, <1>2 DEF Inv, TypeOK, Tick
  <1>4. \A j \in InMemory : j.id \in Ids
    <2>1. \A j \in InMemory : j \in Job
      BY DEF Inv, TypeOK, InMemory, Range, AtWorkers
    <2> QED BY <2>1 DEF Job
  <1>5. JobsAreFresh'
    BY <1>1, <1>2, <1>4 DEF Inv, JobsAreFresh, InMemory, Fresh, Tick
  <1>6. SingleHolder'
    BY <1>2 DEF Inv, SingleHolder, Tick
  <1>7. AttemptsBounded'
    BY <1>1 DEF Inv, AttemptsBounded
  <1>8. BackoffInv'
    BY <1>1 DEF Inv, BackoffInv
  <1> QED BY <1>3, <1>5, <1>6, <1>7, <1>8 DEF Inv, BatchInv, Tick

\* The dispatcher finds nothing, or wakes up.
LEMMA WaitInv == ASSUME Inv, ClaimNothing \/ Awake \/ Poll PROVE Inv'
  <1> USE DEF tables, counters, history, signals
  <1>1. /\ UNCHANGED <<row, batch, jobs, workers>>
        /\ dispatcher' \in {"claim", "wait"} /\ dispatcher # "push"
    BY DEF ClaimNothing, Awake, Poll
  <1>2. faults' \in 0..MaxFaults
    BY QueueAssumption
       DEF QueueAssumption, Inv, TypeOK, ClaimNothing, Awake, Poll, Fault, NoFault
  <1>3. TypeOK'
    BY <1>1, <1>2, QuietStep DEF Inv, TypeOK, ClaimNothing, Awake, Poll, workers
  <1> QED BY <1>1, <1>3, QuietStep DEF Inv

\* The dispatcher ends.
LEMMA DispatcherExitInv == ASSUME Inv, DispatcherExit PROVE Inv'
  <1> USE DEF tables, counters, history, signals, workers
  <1>1. AtWorkers' = AtWorkers /\ \A v \in Workers : Busy(v)' <=> Busy(v)
    BY DEF DispatcherExit, AtWorkers, Busy
  <1>2. batch' = <<>> /\ Range(batch') = {} /\ Distinct(batch') /\ batch' \in Seq(Job)
    BY EmptyBatch DEF DispatcherExit
  <1>3. TypeOK'
    BY <1>1, <1>2 DEF Inv, TypeOK, DispatcherExit
  <1>4. SingleHolder'
    BY <1>1, <1>2 DEF Inv, SingleHolder, DispatcherExit
  <1>5. JobsAreFresh'
    BY <1>1, <1>2 DEF Inv, JobsAreFresh, InMemory, Fresh, DispatcherExit
  <1> QED BY <1>2, <1>3, <1>4, <1>5 DEF Inv, BatchInv, AttemptsBounded, BackoffInv, DispatcherExit

\* Nothing happens.
LEMMA StutterInv == ASSUME Inv, UNCHANGED vars PROVE Inv'
  <1> USE DEF vars, tables, threads, counters, history, signals
  <1>1. UNCHANGED <<row, batch, jobs, dispatcher, workers>>
    OBVIOUS
  <1>2. TypeOK'
    BY <1>1, QuietStep DEF Inv, TypeOK, workers
  <1> QED BY <1>1, <1>2, QuietStep DEF Inv

\* So every step keeps the invariant.
LEMMA NextInv == ASSUME Inv, [Next]_vars PROVE Inv'
  <1>1. CASE ProcessStep
    BY <1>1, StartInv, CrashInv, ProcessInv DEF ProcessStep
  <1>2. CASE DispatcherStep
    BY <1>2, ClaimInv, PushInv, WaitInv, DispatcherExitInv DEF DispatcherStep
  <1>3. CASE CallerStep
    BY <1>3, EnqueueInv, CallerInv DEF CallerStep
  <1>4. CASE Tick
    BY <1>4, TickInv
  <1>5. CASE \E w \in Workers : WorkerStep(w)
    BY <1>5, TakeInv, LoadProviderInv, LoadEventInv, SendInv, RecordInv,
       WorkerExitInv DEF WorkerStep
  <1> QED BY <1>1, <1>2, <1>3, <1>4, <1>5, StutterInv DEF Next

(* The inductive invariant holds in every reachable state: nothing that can
   happen to the queue leaves two holders of a delivery, a stale job or a retry
   beyond the last attempt. *)
THEOREM Invariance == Spec => []Inv
  BY InitInv, NextInv, PTL DEF Spec

(* Type correctness of every reachable state. *)
THEOREM TypeCorrect == Spec => []TypeOK
  <1>1. Inv => TypeOK
    BY DEF Inv
  <1> QED BY <1>1, Invariance, PTL

(* However many workers, a claimed delivery is in one place at a time: the
   batch, the jobs channel or one worker. *)
THEOREM OneHolder == Spec => []SingleHolder
  <1>1. Inv => SingleHolder
    BY DEF Inv
  <1> QED BY <1>1, Invariance, PTL

(* The attempt count a worker computes its update from is the row's. *)
THEOREM NoStaleJob == Spec => []JobsAreFresh
  <1>1. Inv => JobsAreFresh
    BY DEF Inv
  <1> QED BY <1>1, Invariance, PTL

(* No row counts more than max_attempts, none that is out of attempts waits
   for another. *)
THEOREM NoExcessAttempt == Spec => []AttemptsBounded
  <1>1. Inv => AttemptsBounded
    BY DEF Inv
  <1> QED BY <1>1, Invariance, PTL

-----------------------------------------------------------------------------
(* Success and dead are final.                                             *)

\* No step changes a row whose status is terminal.
LEMMA TerminalStep ==
  ASSUME Inv, [Next]_vars, NEW i \in Ids, row[i].status \in Terminal
  PROVE  row'[i] = row[i]
  <1> USE DEF Terminal
  <1>1. row \in [Ids -> RowType]
    BY DEF Inv, TypeOK
  <1>2. CASE Start
    BY <1>1, <1>2 DEF Start, ResetInProgress
  <1>3. ASSUME NEW k \in Ids, NEW p \in Providers, EnqueueDelivery(k, p)
        PROVE  row'[i] = row[i]
    BY <1>1, <1>3 DEF EnqueueDelivery
  <1>4. CASE Tick
    <2>1. ~ (row[i].due > 0)
      BY DEF Inv, BackoffInv
    <2> QED BY <1>1, <1>4, <2>1 DEF Tick
  <1>5. CASE ClaimDueDeliveries
    <2>1. i \notin Due
      BY DEF Due, Claimable
    <2>2. PICK k \in 1..BatchSize : \E s \in Claims(k) :
            row' = [j \in Ids |-> IF \E n \in 1..k : s[n] = j
                                  THEN [row[j] EXCEPT !.status = "in_progress"]
                                  ELSE row[j]]
      BY <1>5 DEF ClaimDueDeliveries
    <2>3. \A s \in Claims(k) : ~ \E n \in 1..k : s[n] = i
      BY <2>1 DEF Claims
    <2> QED BY <1>1, <2>2, <2>3
  <1>6. ASSUME NEW w \in Workers, Record(w) PROVE row'[i] = row[i]
    <2>1. job[w] \in InMemory
      BY <1>6 DEF Record, Busy, BusyAt, AtWorkers, InMemory
    <2>2. job[w].id # i
      BY <2>1 DEF Inv, JobsAreFresh, Fresh
    <2>3. \/ UNCHANGED row
          \/ \E q : row' = [row EXCEPT ![job[w].id] = q]
      BY <1>6, Zenon DEF Record
    <2> QED BY <1>1, <2>2, <2>3
  <1>7. \/ UNCHANGED row \/ Start \/ Tick \/ ClaimDueDeliveries
        \/ \E k \in Ids, p \in Providers : EnqueueDelivery(k, p)
        \/ \E w \in Workers : Record(w)
    BY DEF Next, vars, tables, ProcessStep, DispatcherStep, CallerStep, WorkerStep,
           Cancel, Stopped, Crash, ClaimNothing, Push, Awake, Poll, DispatcherExit,
           Nudge, AbandonNudge, SetProvider, Take, LoadProvider, LoadEvent, Send,
           WorkerExit
  <1> QED BY <1>2, <1>3, <1>4, <1>5, <1>6, <1>7

(* No step of the program changes a delivery that has succeeded or died. *)
THEOREM TerminalStays == Spec => TerminalIsFinal
  <1>1. ASSUME Inv, [Next]_vars
        PROVE  [\A i \in Ids : row[i].status \in Terminal => row'[i] = row[i]]_vars
    BY <1>1, TerminalStep
  <1> QED BY <1>1, Invariance, PTL DEF Spec, TerminalIsFinal
=============================================================================
