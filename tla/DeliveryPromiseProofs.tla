----------------------- MODULE DeliveryPromiseProofs -----------------------
(***************************************************************************)
(* What DeliveryQueue promises about each delivery, for every number of    *)
(* deliveries, workers, channel and batch sizes, attempts, restarts and    *)
(* faults: its sends are accounted for, no claimed row is forgotten, no    *)
(* nudge is lost, and it implements DeliveryPromise.                       *)
(***************************************************************************)
EXTENDS DeliveryQueueProofs, FiniteSetTheorems

\* A worker is about to record that its message was taken.
Succeeded(w) == pc[w] = "record" /\ outcome[w] = "ok"

\* No goroutine outlives the process.
ParkedInv == engine = "down" => \A w \in Workers : pc[w] = "done"

\* Attempts are counted from the insert on.
AbsentInv == \A i \in Ids : row[i].status = "absent" => row[i].attempts = 0

SendsInv == \A i \in Ids :
  sends[i] <= row[i].attempts + unrecorded[i] + (IF InFlight(i) THEN 1 ELSE 0)

\* Only what the provider took becomes a success.
TakenInv == /\ \A w \in Workers : Succeeded(w) => accepted[job[w].id] > 0
            /\ \A i \in Ids : row[i].status = "success" => accepted[i] > 0

\* Without a fault a taken message ends the delivery, so that it is the only
\* one, unless an attempt was cut off.
OnceInv == faults = 0 =>
  \A i \in Ids : unrecorded[i] = 0 =>
    \/ accepted[i] = 0
    \/ /\ accepted[i] = 1
       /\ row[i].status = "success" \/ \E w \in Workers : Succeeded(w) /\ job[w].id = i

\* A dispatcher that is going to wait, and that nobody has called, has left no
\* new row behind.
WakeInv ==
  faults = 0 /\ engine = "running" /\ ~wake /\ ~unnudged
  /\ (dispatcher = "wait" \/ (dispatcher = "push" /\ ~fullBatch))
    => \A i \in Ids : row[i].status # "pending"

AccountInv == ParkedInv /\ AbsentInv /\ SendsInv /\ TakenInv /\ OnceInv

-----------------------------------------------------------------------------
(* Accounting.                                                             *)

\* What a busy worker and its row look like.
LEMMA HeldRow ==
  ASSUME Inv, NEW w \in Workers, Busy(w)
  PROVE  /\ job[w] \in Job /\ job[w].id \in Ids /\ row[job[w].id] \in RowType
         /\ row[job[w].id].status = "in_progress"
         /\ row[job[w].id].attempts = job[w].attempts
         /\ job[w].attempts < MaxAttempts
         /\ \A v \in Workers : Busy(v) /\ job[v].id = job[w].id => v = w
  <1>1. job[w] \in Job /\ job[w].id \in Ids
    BY DEF Inv, TypeOK, Job
  <1>2. Fresh(job[w])
    BY DEF Inv, JobsAreFresh, InMemory, AtWorkers
  <1>3. row[job[w].id] \in RowType
    BY <1>1 DEF Inv, TypeOK
  <1>4. row[job[w].id].attempts < MaxAttempts
    BY <1>1, <1>2 DEF Inv, AttemptsBounded, Fresh
  <1>5. \A v \in Workers : Busy(v) /\ job[v].id = job[w].id => v = w
    BY DEF Inv, SingleHolder
  <1> QED BY <1>1, <1>2, <1>3, <1>4, <1>5 DEF Fresh

\* A step of worker w moves w only.
LEMMA OthersStay ==
  ASSUME Inv, NEW w \in Workers, NEW l, NEW j, NEW o, Goto(w, l, j, o)
  PROVE  /\ pc'[w] = l /\ job'[w] = j /\ outcome'[w] = o
         /\ \A v \in Workers : v # w => /\ pc'[v] = pc[v] /\ job'[v] = job[v]
                                        /\ outcome'[v] = outcome[v]
  BY DEF Inv, TypeOK, Goto

\* The outcome is written to the row, or its loss is known.
LEMMA RecordedOrLost ==
  ASSUME Inv, NEW w \in Workers, Record(w), NEW i \in Ids, i = job[w].id
  PROVE  /\ row[i] \in RowType /\ row[i].status = "in_progress"
         /\ row[i].attempts < MaxAttempts /\ outcome[w] \in Outcomes
         /\ \/ /\ row' = [row EXCEPT ![i] = Recorded(row[i], outcome[w], row[i].attempts + 1)]
               /\ NoFault /\ UNCHANGED <<unrecorded, lost>>
            \/ /\ UNCHANGED row /\ Fault /\ lost' = lost \cup {i}
               /\ unrecorded' = [unrecorded EXCEPT ![i] = @ + 1]
  <1>1. /\ row[i] \in RowType /\ row[i].status = "in_progress"
        /\ row[i].attempts < MaxAttempts /\ outcome[w] \in Outcomes
        /\ job[w].attempts + 1 = row[i].attempts + 1
    BY HeldRow DEF Inv, TypeOK, Record, Busy, BusyAt
  <1>2. \/ /\ row' = [row EXCEPT ![i] = Recorded(@, outcome[w], job[w].attempts + 1)]
           /\ NoFault /\ UNCHANGED <<unrecorded, lost>>
        \/ /\ UNCHANGED row /\ Fault /\ lost' = lost \cup {i}
           /\ unrecorded' = [unrecorded EXCEPT ![i] = @ + 1]
    BY Zenon DEF Record
  <1> QED BY <1>1, <1>2

\* The numbers the accounts are kept in.
LEMMA Counts ==
  ASSUME Inv, NEW i \in Ids
  PROVE  /\ row[i] \in RowType /\ row[i].attempts \in Nat
         /\ sends[i] \in Nat /\ accepted[i] \in Nat /\ unrecorded[i] \in Nat
         /\ faults \in Nat
  BY QueueAssumption DEF QueueAssumption, Inv, TypeOK, RowType

\* Before the start nothing is sent.
LEMMA InitAccount == Init => AccountInv
  <1> SUFFICES ASSUME Init PROVE AccountInv
    OBVIOUS
  <1>1. \A i \in Ids : row[i].status = "absent" /\ row[i].attempts = 0
    BY DEF Init
  <1>2. \A w \in Workers : pc[w] = "done"
    BY DEF Init
  <1>3. \A i \in Ids : ~InFlight(i)
    BY <1>2 DEF InFlight
  <1>4. SendsInv
    BY <1>1, <1>3 DEF Init, SendsInv
  <1> QED BY <1>1, <1>2, <1>4
       DEF AccountInv, ParkedInv, AbsentInv, TakenInv, OnceInv, Succeeded, Init

\* Steps without a worker that leave the accounts as they are.
LEMMA QuietAccount ==
  ASSUME Inv, AccountInv,
         UNCHANGED <<pc, job, outcome, sends, accepted, unrecorded>>,
         engine' = "down" => engine = "down" \/ \A w \in Workers : pc[w] = "done",
         faults' = 0 => faults = 0,
         \A i \in Ids : /\ row'[i].attempts = row[i].attempts
                        /\ row'[i].status = "absent" => row[i].status = "absent"
                        /\ row'[i].status = "success" <=> row[i].status = "success"
  PROVE  AccountInv'
  <1> USE DEF AccountInv
  <1>1. \A i \in Ids : InFlight(i)' <=> InFlight(i)
    BY DEF InFlight
  <1>2. \A w \in Workers : Succeeded(w)' <=> Succeeded(w)
    BY DEF Succeeded
  <1>3. ParkedInv' /\ AbsentInv'
    BY DEF ParkedInv, AbsentInv
  <1>4. SendsInv'
    BY <1>1 DEF SendsInv
  <1>5. TakenInv'
    BY <1>2 DEF TakenInv
  <1>6. OnceInv'
    BY <1>2 DEF OnceInv
  <1> QED BY <1>3, <1>4, <1>5, <1>6

\* A start.
LEMMA StartAccount == ASSUME Inv, AccountInv, Start PROVE AccountInv'
  <1> USE DEF AccountInv
  <1>1. \A w \in Workers : pc[w] = "done" /\ pc'[w] = "idle"
    BY DEF ParkedInv, Start, AllWorkers
  <1>2. \A i \in Ids : ~InFlight(i) /\ ~InFlight(i)'
    BY <1>1 DEF InFlight
  <1>3. \A w \in Workers : ~Succeeded(w) /\ ~Succeeded(w)'
    BY <1>1 DEF Succeeded
  <1>4. \A i \in Ids : /\ row'[i].attempts = row[i].attempts
                       /\ row'[i].status = "absent" <=> row[i].status = "absent"
                       /\ row'[i].status = "success" <=> row[i].status = "success"
    BY Counts DEF Start, ResetInProgress, Reopened, RowType
  <1>5. ParkedInv' /\ AbsentInv'
    BY <1>4 DEF ParkedInv, AbsentInv, Start
  <1>6. SendsInv'
    BY <1>2, <1>4 DEF SendsInv, Start
  <1>7. TakenInv'
    BY <1>3, <1>4 DEF TakenInv, Start
  <1>8. OnceInv'
    BY <1>3, <1>4 DEF OnceInv, Start
  <1> QED BY <1>5, <1>6, <1>7, <1>8

\* The attempts that were under way become ones whose outcome nobody knows.
LEMMA CrashAccount == ASSUME Inv, AccountInv, Crash PROVE AccountInv'
  <1> USE DEF AccountInv, tables, counters
  <1>1. \A w \in Workers : pc'[w] = "done"
    BY DEF Crash, AllWorkers
  <1>2. \A i \in Ids : ~InFlight(i)'
    BY <1>1 DEF InFlight
  <1>3. \A i \in Ids :
          unrecorded'[i] = unrecorded[i] + (IF InFlight(i) THEN 1 ELSE 0)
    BY DEF Crash
  <1>4. ParkedInv' /\ AbsentInv'
    BY <1>1 DEF ParkedInv, AbsentInv, Crash
  <1>5. SendsInv'
    BY <1>2, <1>3, Counts DEF SendsInv, Crash
  <1>6. TakenInv'
    BY <1>1 DEF TakenInv, Succeeded, Crash
  <1>7. OnceInv'
    <2> SUFFICES ASSUME faults = 0, NEW i \in Ids, unrecorded'[i] = 0
                 PROVE  accepted[i] = 0 \/ (accepted[i] = 1 /\ row[i].status = "success")
      BY DEF OnceInv, Crash
    <2>1. unrecorded[i] = 0 /\ ~InFlight(i)
      BY <1>3, Counts
    <2>2. ~ \E w \in Workers : Succeeded(w) /\ job[w].id = i
      BY <2>1 DEF InFlight, Succeeded
    <2> QED BY <2>1, <2>2 DEF OnceInv
  <1> QED BY <1>4, <1>5, <1>6, <1>7

\* A worker that takes a job, gives one up before its send or leaves.
LEMMA NotSendingAccount ==
  ASSUME Inv, AccountInv, NEW w \in Workers, Take(w) \/ LoadProvider(w) \/ WorkerExit(w)
  PROVE  AccountInv'
  <1> USE DEF AccountInv, tables, workers, signals, counters, history
  <1>1. /\ UNCHANGED <<row, sends, accepted, unrecorded, engine>>
        /\ faults' = 0 => faults = 0
    BY QueueAssumption
       DEF QueueAssumption, Inv, TypeOK, Take, LoadProvider, WorkerExit, Fault, NoFault
  <1>2. /\ pc[w] \in {"idle", "load"} /\ (pc[w] = "load" => job'[w] = job[w])
        /\ outcome'[w] # "ok" \/ pc'[w] # "record"
        /\ \A v \in Workers : v # w => /\ pc'[v] = pc[v] /\ job'[v] = job[v]
                                       /\ outcome'[v] = outcome[v]
        /\ engine = "down" => pc'[w] = "done"
    <2>1. CASE Take(w)
      BY <2>1, OthersStay DEF Take, ParkedInv
    <2>2. CASE LoadProvider(w)
      <3>1. PICK l \in {"event", "record"}, o \in {"none", "fatal", "error"} :
              Goto(w, l, job[w], o)
        BY <2>2 DEF LoadProvider, NoOutcome
      <3> QED BY <2>2, <3>1, OthersStay DEF LoadProvider, ParkedInv
    <2>3. CASE WorkerExit(w)
      BY <2>3, OthersStay DEF WorkerExit, ParkedInv
    <2> QED BY <2>1, <2>2, <2>3
  <1>3. \A i \in Ids : InFlight(i) => InFlight(i)'
    BY <1>2 DEF InFlight
  <1>4. \A v \in Workers : /\ Succeeded(v)' <=> Succeeded(v)
                           /\ Succeeded(v) => job'[v] = job[v]
    BY <1>2 DEF Succeeded
  <1>5. ParkedInv' /\ AbsentInv'
    BY <1>1, <1>2 DEF ParkedInv, AbsentInv
  <1>6. SendsInv'
    BY <1>1, <1>3, Counts DEF SendsInv
  <1>7. TakenInv'
    BY <1>1, <1>4 DEF TakenInv
  <1>8. OnceInv'
    BY <1>1, <1>4 DEF OnceInv
  <1> QED BY <1>5, <1>6, <1>7, <1>8

\* A send begins: its worker is the only one that holds the delivery, so none
\* was under way.
LEMMA LoadEventAccount ==
  ASSUME Inv, AccountInv, NEW w \in Workers, LoadEvent(w) PROVE AccountInv'
  <1> USE DEF AccountInv, tables, signals
  <1>0. PICK i \in Ids : i = job[w].id
    BY HeldRow DEF LoadEvent, Busy, BusyAt
  <1>1. /\ UNCHANGED <<row, accepted, unrecorded, engine>>
        /\ faults' = 0 => faults = 0
    BY QueueAssumption DEF QueueAssumption, Inv, TypeOK, LoadEvent, Fault, NoFault
  <1>2. Busy(w) /\ i \in Ids /\ \A v \in Workers : Busy(v) /\ job[v].id = i => v = w
    BY <1>0, HeldRow DEF LoadEvent, Busy, BusyAt
  <1>3. /\ pc[w] = "event" /\ pc'[w] \in {"send", "record"} /\ outcome'[w] # "ok"
        /\ job'[w] = job[w]
        /\ \A v \in Workers : v # w => /\ pc'[v] = pc[v] /\ job'[v] = job[v]
                                       /\ outcome'[v] = outcome[v]
    <2>1. PICK l \in {"send", "record"}, o \in {"none", "fatal"} : Goto(w, l, job[w], o)
      BY DEF LoadEvent, NoOutcome
    <2> QED BY <2>1, OthersStay DEF LoadEvent
  <1>4. /\ ~InFlight(i) /\ InFlight(i)'
        /\ \A k \in Ids : InFlight(k) => InFlight(k)'
    BY <1>0, <1>2, <1>3 DEF InFlight, Busy, BusyAt
  <1>5. \A v \in Workers : /\ Succeeded(v)' <=> Succeeded(v)
                           /\ job'[v] = job[v]
    BY <1>3 DEF Succeeded
  <1>6. ParkedInv' /\ AbsentInv'
    BY <1>1, <1>3 DEF ParkedInv, AbsentInv
  <1>7. SendsInv'
    <2>1. \/ sends' = [sends EXCEPT ![i] = @ + 1]
          \/ UNCHANGED sends
      BY <1>0 DEF LoadEvent
    <2>2. /\ \A k \in Ids : k # i => sends'[k] = sends[k]
          /\ sends'[i] \in {sends[i], sends[i] + 1}
      BY <1>2, <2>1 DEF Inv, TypeOK
    <2>3. sends'[i] <= row[i].attempts + unrecorded[i] + 1
      BY <1>2, <1>4, <2>2, Counts DEF SendsInv
    <2> SUFFICES ASSUME NEW k \in Ids
                 PROVE  sends'[k] <= row[k].attempts + unrecorded[k]
                                       + (IF InFlight(k)' THEN 1 ELSE 0)
      BY <1>1 DEF SendsInv
    <2>4. CASE k = i
      BY <1>4, <2>3, <2>4
    <2>5. CASE k # i
      <3>1. sends[k] <= row[k].attempts + unrecorded[k] + (IF InFlight(k) THEN 1 ELSE 0)
        BY DEF SendsInv
      <3> QED BY <1>4, <2>2, <2>5, <3>1, Counts
    <2> QED BY <2>4, <2>5
  <1>8. TakenInv'
    BY <1>1, <1>5 DEF TakenInv
  <1>9. OnceInv'
    BY <1>1, <1>5 DEF OnceInv
  <1> QED BY <1>6, <1>7, <1>8, <1>9

\* A send ends: without a fault it is taken only when it is told so.
LEMMA SendAccount ==
  ASSUME Inv, AccountInv, NEW w \in Workers, Send(w) PROVE AccountInv'
  <1> USE DEF AccountInv, tables, signals
  <1> DEFINE i == job[w].id
  <1>1. /\ UNCHANGED <<row, sends, unrecorded, engine>>
        /\ faults' = 0 => faults = 0
    BY QueueAssumption DEF QueueAssumption, Inv, TypeOK, Send, Fault, NoFault
  <1>2. /\ Busy(w) /\ i \in Ids /\ row[i].status = "in_progress"
        /\ \A v \in Workers : Busy(v) /\ job[v].id = i => v = w
    BY HeldRow DEF Send, Busy, BusyAt
  <1>3. PICK o \in {"ok", "error", "fatal"} :
          /\ Goto(w, "record", job[w], o)
          /\ \/ accepted' = [accepted EXCEPT ![i] = @ + 1] /\ (o = "ok" \/ Fault)
             \/ UNCHANGED accepted /\ o # "ok"
    BY DEF Send
  <1>4. /\ pc[w] = "send" /\ pc'[w] = "record" /\ outcome'[w] = o /\ job'[w] = job[w]
        /\ \A v \in Workers : v # w => /\ pc'[v] = pc[v] /\ job'[v] = job[v]
                                       /\ outcome'[v] = outcome[v]
    BY <1>3, OthersStay DEF Send
  <1>5. /\ \A k \in Ids : k # i => accepted'[k] = accepted[k]
        /\ \/ accepted'[i] = accepted[i] + 1 /\ (o = "ok" \/ Fault)
           \/ accepted'[i] = accepted[i] /\ o # "ok"
    BY <1>2, <1>3 DEF Inv, TypeOK
  <1>6. /\ \A k \in Ids : InFlight(k) <=> InFlight(k)'
        /\ \A v \in Workers : Succeeded(v) => v # w /\ Succeeded(v)'
        /\ Succeeded(w)' <=> o = "ok"
        /\ \A v \in Workers : job'[v] = job[v] /\ (Succeeded(v) => job[v].id # i)
    BY <1>2, <1>4 DEF InFlight, Succeeded, Busy, BusyAt
  <1>7. ParkedInv' /\ AbsentInv'
    BY <1>1, <1>4 DEF ParkedInv, AbsentInv
  <1>8. SendsInv'
    BY <1>1, <1>6 DEF SendsInv
  <1>9. TakenInv'
    <2>1. \A v \in Workers : v # w /\ Succeeded(v)' => Succeeded(v) /\ job[v].id \in Ids
      BY <1>4, HeldRow DEF Succeeded, Busy, BusyAt
    <2>2. ASSUME NEW v \in Workers, Succeeded(v)' PROVE accepted'[job'[v].id] > 0
      <3>1. CASE v = w
        BY <1>2, <1>5, <1>6, <2>2, <3>1, Counts
      <3>2. CASE v # w
        BY <1>5, <1>6, <2>1, <2>2, <3>2 DEF TakenInv
      <3> QED BY <3>1, <3>2
    <2>3. ASSUME NEW k \in Ids, row'[k].status = "success" PROVE accepted'[k] > 0
      BY <1>1, <1>2, <1>5, <2>3 DEF TakenInv
    <2> QED BY <2>2, <2>3 DEF TakenInv
  <1>10. OnceInv'
    <2> SUFFICES ASSUME faults' = 0, NEW k \in Ids, unrecorded[k] = 0
                 PROVE  \/ accepted'[k] = 0
                        \/ /\ accepted'[k] = 1
                           /\ \/ row[k].status = "success"
                              \/ \E v \in Workers : Succeeded(v)' /\ job'[v].id = k
      BY <1>1 DEF OnceInv
    <2>1. ~Fault
      BY <1>1, Counts DEF Fault
    <2>2. CASE k = i
      <3>1. accepted[i] = 0
        BY <1>1, <1>2, <1>6, <2>2 DEF OnceInv
      <3> QED BY <1>5, <1>6, <2>1, <2>2, <3>1
    <2>3. CASE k # i
      BY <1>1, <1>5, <1>6, <2>3 DEF OnceInv
    <2> QED BY <2>2, <2>3
  <1> QED BY <1>7, <1>8, <1>9, <1>10

\* The outcome is written, and counted, or is lost and known to be.
LEMMA RecordAccount ==
  ASSUME Inv, AccountInv, NEW w \in Workers, Record(w) PROVE AccountInv'
  <1> USE DEF AccountInv, signals
  <1>0. PICK i \in Ids : i = job[w].id
    BY HeldRow DEF Record, Busy, BusyAt
  <1> DEFINE q == Recorded(row[i], outcome[w], row[i].attempts + 1)
  <1>1. /\ UNCHANGED <<sends, accepted, engine>>
        /\ faults' = 0 => faults = 0
    BY QueueAssumption DEF QueueAssumption, Inv, TypeOK, Record, Fault, NoFault
  <1>2. /\ Busy(w) /\ i \in Ids /\ row[i] \in RowType /\ row[i].status = "in_progress"
        /\ row[i].attempts = job[w].attempts /\ row[i].attempts < MaxAttempts
        /\ \A v \in Workers : Busy(v) /\ job[v].id = i => v = w
    BY <1>0, HeldRow DEF Record, Busy, BusyAt
  <1>3. /\ pc[w] = "record" /\ pc'[w] = "idle"
        /\ \A v \in Workers : v # w => /\ pc'[v] = pc[v] /\ job'[v] = job[v]
                                       /\ outcome'[v] = outcome[v]
    BY OthersStay DEF Record
  <1>4. /\ InFlight(i) /\ ~InFlight(i)'
        /\ \A k \in Ids : k # i => (InFlight(k)' <=> InFlight(k))
    <2>1. \A v \in Workers : v # w /\ pc[v] \in {"send", "record"} => job[v].id # i
      BY <1>2 DEF Busy, BusyAt
    <2> QED BY <1>0, <1>3, <2>1 DEF InFlight
  <1>5. /\ \A v \in Workers : v # w => (Succeeded(v)' <=> Succeeded(v)) /\ job'[v] = job[v]
        /\ ~Succeeded(w)' /\ (Succeeded(w) <=> outcome[w] = "ok")
    BY <1>3 DEF Succeeded
  <1>6. \/ /\ row' = [row EXCEPT ![i] = q] /\ NoFault
           /\ UNCHANGED unrecorded
        \/ /\ UNCHANGED row /\ Fault
           /\ unrecorded' = [unrecorded EXCEPT ![i] = @ + 1]
    BY <1>0, RecordedOrLost
  <1>7. /\ q \in RowType /\ q.attempts = row[i].attempts + 1 /\ q.status # "absent"
        /\ q.status = "success" <=> outcome[w] = "ok"
    <2>1. outcome[w] \in Outcomes
      BY DEF Inv, TypeOK
    <2> QED BY <1>2, <2>1, RecordedRow
  <1> HIDE DEF q
  <1>8. /\ \A k \in Ids : k # i => row'[k] = row[k] /\ unrecorded'[k] = unrecorded[k]
        /\ \/ row'[i] = q /\ unrecorded'[i] = unrecorded[i] /\ NoFault
           \/ row'[i] = row[i] /\ unrecorded'[i] = unrecorded[i] + 1 /\ Fault
    BY <1>2, <1>6 DEF Inv, TypeOK
  <1>9. ParkedInv' /\ AbsentInv'
    <2>1. engine # "down"
      BY <1>3 DEF ParkedInv
    <2> QED BY <1>1, <1>2, <1>7, <1>8, <2>1 DEF ParkedInv, AbsentInv
  <1>10. SendsInv'
    <2>1. sends[i] <= row'[i].attempts + unrecorded'[i]
      BY <1>2, <1>4, <1>7, <1>8, Counts DEF SendsInv
    <2> SUFFICES ASSUME NEW k \in Ids
                 PROVE  sends[k] <= row'[k].attempts + unrecorded'[k]
                                      + (IF InFlight(k)' THEN 1 ELSE 0)
      BY <1>1 DEF SendsInv
    <2>2. CASE k = i
      BY <1>4, <2>1, <2>2, <1>2, <1>7, <1>8, Counts
    <2>3. CASE k # i
      <3>1. sends[k] <= row[k].attempts + unrecorded[k] + (IF InFlight(k) THEN 1 ELSE 0)
        BY DEF SendsInv
      <3> QED BY <1>4, <1>8, <2>3, <3>1
    <2> QED BY <2>2, <2>3
  <1>11. TakenInv'
    <2>1. \A v \in Workers : Succeeded(v)' => accepted[job'[v].id] > 0
      BY <1>5 DEF TakenInv
    <2>2. \A k \in Ids : row'[k].status = "success" => accepted[k] > 0
      BY <1>0, <1>2, <1>5, <1>7, <1>8 DEF TakenInv
    <2> QED BY <1>1, <2>1, <2>2 DEF TakenInv
  <1>12. OnceInv'
    <2> SUFFICES ASSUME faults' = 0, NEW k \in Ids, unrecorded'[k] = 0
                 PROVE  \/ accepted[k] = 0
                        \/ /\ accepted[k] = 1
                           /\ \/ row'[k].status = "success"
                              \/ \E v \in Workers : Succeeded(v)' /\ job'[v].id = k
      BY <1>1 DEF OnceInv
    <2>1. CASE k = i
      <3>1. row'[i] = q /\ unrecorded[i] = 0
        BY <1>8, <2>1, Counts
      <3>2. \A v \in Workers : Succeeded(v) /\ job[v].id = i => v = w
        BY <1>2 DEF Succeeded, Busy, BusyAt
      <3> QED BY <1>0, <1>1, <1>2, <1>5, <1>7, <2>1, <3>1, <3>2 DEF OnceInv
    <2>2. CASE k # i
      BY <1>0, <1>1, <1>5, <1>8, <2>2 DEF OnceInv
    <2> QED BY <2>1, <2>2
  <1> QED BY <1>9, <1>10, <1>11, <1>12

\* What the claim makes of the rows.
LEMMA ClaimedRows ==
  ASSUME Inv, ClaimDueDeliveries, NEW i \in Ids
  PROVE  \/ row'[i] = row[i]
         \/ i \in Due /\ row'[i] = [row[i] EXCEPT !.status = "in_progress"]
  <1>1. PICK k \in 1..BatchSize : \E s \in Claims(k) :
          row' = [j \in Ids |-> IF \E n \in 1..k : s[n] = j
                                THEN [row[j] EXCEPT !.status = "in_progress"]
                                ELSE row[j]]
    BY DEF ClaimDueDeliveries
  <1>2. PICK s \in Claims(k) :
          row' = [j \in Ids |-> IF \E n \in 1..k : s[n] = j
                                THEN [row[j] EXCEPT !.status = "in_progress"]
                                ELSE row[j]]
    BY <1>1
  <1>3. \A n \in 1..k : s[n] \in Due
    BY DEF Claims
  <1> QED BY <1>2, <1>3

\* Each step keeps the account.
LEMMA NextAccount == ASSUME Inv, AccountInv, [Next]_vars PROVE AccountInv'
  <1> USE DEF tables, threads, workers, signals, counters, history
  <1>1. CASE ProcessStep
    <2>1. CASE Cancel \/ Stopped
      BY <2>1, QuietAccount DEF Cancel, Stopped
    <2> QED BY <1>1, <2>1, StartAccount, CrashAccount DEF ProcessStep
  <1>2. CASE DispatcherStep
    <2>1. CASE ClaimDueDeliveries
      <3>1. \A i \in Ids : /\ row'[i].attempts = row[i].attempts
                           /\ row'[i].status = "absent" => row[i].status = "absent"
                           /\ row'[i].status = "success" <=> row[i].status = "success"
        BY <2>1, ClaimedRows, Counts DEF Due, Claimable, RowType
      <3> QED BY <2>1, <3>1, QuietAccount DEF ClaimDueDeliveries
    <2>2. CASE ClaimNothing
      <3>1. faults' = 0 => faults = 0
        BY <2>2, QueueAssumption DEF QueueAssumption, Inv, TypeOK, ClaimNothing, Fault, NoFault
      <3> QED BY <2>2, <3>1, QuietAccount DEF ClaimNothing
    <2>3. CASE Push \/ Awake \/ Poll \/ DispatcherExit
      BY <2>3, QuietAccount DEF Push, Awake, Poll, DispatcherExit
    <2> QED BY <1>2, <2>1, <2>2, <2>3 DEF DispatcherStep
  <1>3. CASE CallerStep
    <2>1. ASSUME NEW i \in Ids, NEW p \in Providers, EnqueueDelivery(i, p)
          PROVE  AccountInv'
      <3>1. row[i].attempts = 0 /\ row[i].status = "absent"
        BY <2>1 DEF AccountInv, AbsentInv, EnqueueDelivery
      <3>2. \A k \in Ids : /\ row'[k].attempts = row[k].attempts
                           /\ row'[k].status = "absent" => row[k].status = "absent"
                           /\ row'[k].status = "success" <=> row[k].status = "success"
        BY <2>1, <3>1 DEF Inv, TypeOK, EnqueueDelivery
      <3> QED BY <2>1, <3>2, QuietAccount DEF EnqueueDelivery
    <2>2. CASE AbandonNudge
      <3>1. faults' = 0 => faults = 0
        BY <2>2, QueueAssumption DEF QueueAssumption, Inv, TypeOK, AbandonNudge, Fault
      <3> QED BY <2>2, <3>1, QuietAccount DEF AbandonNudge
    <2>3. CASE Nudge
      BY <2>3, QuietAccount DEF Nudge
    <2>4. CASE \E p \in Providers, s \in {"enabled", "disabled"} : SetProvider(p, s)
      BY <2>4, QuietAccount DEF SetProvider
    <2> QED BY <1>3, <2>1, <2>2, <2>3, <2>4 DEF CallerStep
  <1>4. CASE Tick
    <2>1. \A i \in Ids : row'[i].attempts = row[i].attempts /\ row'[i].status = row[i].status
      BY <1>4, Counts DEF Tick, RowType
    <2> QED BY <1>4, <2>1, QuietAccount DEF Tick
  <1>5. CASE \E w \in Workers : WorkerStep(w)
    BY <1>5, NotSendingAccount, LoadEventAccount, SendAccount, RecordAccount DEF WorkerStep
  <1>6. CASE UNCHANGED vars
    BY <1>6, QuietAccount DEF vars
  <1> QED BY <1>1, <1>2, <1>3, <1>4, <1>5, <1>6 DEF Next

-----------------------------------------------------------------------------
(* Nothing is stranded.                                                    *)

\* The first job and the others are all there is.
LEMMA HeadOrTail ==
  ASSUME NEW s \in Seq(Job), s # <<>>
  PROVE  Range(s) \subseteq {Head(s)} \cup Range(Tail(s))
  <1>1. /\ Len(s) \in Nat \ {0} /\ Head(s) = s[1]
        /\ DOMAIN s = 1..Len(s) /\ DOMAIN Tail(s) = 1..(Len(s) - 1)
        /\ \A n \in DOMAIN Tail(s) : Tail(s)[n] = s[n + 1]
    OBVIOUS
  <1>2. \A n \in DOMAIN s : n = 1 \/ (n - 1 \in DOMAIN Tail(s) /\ s[n] = Tail(s)[n - 1])
    BY <1>1
  <1> SUFFICES ASSUME NEW n \in DOMAIN s
               PROVE  s[n] \in {Head(s)} \cup Range(Tail(s))
    BY DEF Range
  <1>3. CASE n = 1
    BY <1>1, <1>3
  <1>4. CASE n # 1
    BY <1>2, <1>4 DEF Range
  <1> QED BY <1>3, <1>4

\* A step that lets nothing go and claims nothing strands nothing.
LEMMA QuietStranding ==
  ASSUME NothingStranded,
         engine' = "running" => engine = "running",
         lost \subseteq lost',
         \A i \in Ids : row'[i].status = "in_progress" => row[i].status = "in_progress",
         \A j \in InMemory : j \in InMemory' \/ row'[j.id].status # "in_progress" \/ j.id \in lost'
  PROVE  NothingStranded'
  BY DEF NothingStranded

\* The jobs of the other workers stay where they are.
LEMMA WorkersKeep ==
  ASSUME Inv, NEW w \in Workers, NEW l, NEW j, NEW o, Goto(w, l, j, o)
  PROVE  /\ \A k \in AtWorkers : k \in AtWorkers' \/ (Busy(w) /\ k = job[w])
         /\ l \in BusyAt => j \in AtWorkers'
  <1>1. \A v \in Workers : v # w => job'[v] = job[v] /\ (Busy(v) => Busy(v)')
    BY OthersStay DEF Busy
  <1>2. l \in BusyAt => Busy(w)' /\ job'[w] = j
    BY OthersStay DEF Busy
  <1> QED BY <1>1, <1>2 DEF AtWorkers

\* A claimed row is in the batch; what was claimed before is not in the batch,
\* which is empty, and stays where it is.
LEMMA ClaimStranding ==
  ASSUME Inv, NothingStranded, ClaimDueDeliveries PROVE NothingStranded'
  <1> USE DEF signals, counters, history, workers
  <1>1. PICK k \in 1..BatchSize : \E s \in Claims(k) :
          /\ batch' = [n \in 1..k |-> JobOf(s[n])]
          /\ row' = [i \in Ids |-> IF \E n \in 1..k : s[n] = i
                                   THEN [row[i] EXCEPT !.status = "in_progress"]
                                   ELSE row[i]]
    BY DEF ClaimDueDeliveries
  <1>2. PICK s \in Claims(k) :
          /\ batch' = [n \in 1..k |-> JobOf(s[n])]
          /\ row' = [i \in Ids |-> IF \E n \in 1..k : s[n] = i
                                   THEN [row[i] EXCEPT !.status = "in_progress"]
                                   ELSE row[i]]
    BY <1>1
  <1> SUFFICES ASSUME NEW i \in Ids, row'[i].status = "in_progress", i \notin lost
               PROVE  \E j \in InMemory' : j.id = i
    BY DEF NothingStranded, ClaimDueDeliveries
  <1>3. CASE \E n \in 1..k : s[n] = i
    <2>1. PICK n \in 1..k : s[n] = i
      BY <1>3
    <2>2. DOMAIN batch' = 1..k /\ batch'[n] = JobOf(i)
      BY <1>2, <2>1
    <2>3. JobOf(i) \in InMemory'
      BY <2>2 DEF InMemory, Range
    <2> QED BY <2>3 DEF JobOf
  <1>4. CASE ~ \E n \in 1..k : s[n] = i
    <2>1. PICK j \in InMemory : j.id = i
      BY <1>2, <1>4 DEF NothingStranded, ClaimDueDeliveries
    <2>2. j \in Range(jobs) \cup AtWorkers
      BY EmptyBatch DEF Inv, BatchInv, ClaimDueDeliveries, InMemory
    <2>3. AtWorkers' = AtWorkers
      BY DEF ClaimDueDeliveries, AtWorkers, Busy
    <2>4. j \in InMemory'
      BY <2>2, <2>3 DEF InMemory, ClaimDueDeliveries
    <2> QED BY <2>1, <2>4
  <1> QED BY <1>3, <1>4

\* A job of the batch goes to the channel.
LEMMA PushStranding == ASSUME Inv, NothingStranded, Push PROVE NothingStranded'
  <1> USE DEF tables, signals, counters, history, workers
  <1>1. batch \in Seq(Job) /\ jobs \in Seq(Job) /\ batch # <<>>
        /\ Distinct(batch) /\ Distinct(jobs)
    BY DEF Inv, TypeOK, BatchInv, SingleHolder, Push
  <1>2. Range(batch) \subseteq {Head(batch)} \cup Range(batch')
    BY <1>1, HeadOrTail DEF Push
  <1>3. Range(jobs') = Range(jobs) \cup {Head(batch)}
    <2>1. /\ Head(batch) \in Job
          /\ \A k \in Range(jobs) : k.id # Head(batch).id
      BY <1>1, TailDistinct DEF Inv, SingleHolder
    <2> QED BY <1>1, <2>1, AppendDistinct DEF Push
  <1>4. AtWorkers' = AtWorkers
    BY DEF Push, AtWorkers, Busy
  <1>5. InMemory \subseteq InMemory'
    BY <1>2, <1>3, <1>4 DEF InMemory
  <1> QED BY <1>5, QuietStranding DEF Push

\* While the engine runs a worker starts on every job it receives.
LEMMA TakeStranding ==
  ASSUME Inv, NothingStranded, NEW w \in Workers, Take(w) PROVE NothingStranded'
  <1> USE DEF tables, signals, counters, history
  <1>1. CASE engine = "running"
    <2>1. Goto(w, "load", Head(jobs), NoOutcome) /\ ~Busy(w)
      BY <1>1 DEF Take, Busy, BusyAt
    <2>2. AtWorkers \subseteq AtWorkers' /\ Head(jobs) \in AtWorkers'
      BY <2>1, WorkersKeep DEF BusyAt
    <2>3. Range(jobs) \subseteq {Head(jobs)} \cup Range(jobs')
      BY HeadOrTail DEF Inv, TypeOK, Take
    <2>4. InMemory \subseteq InMemory'
      BY <2>2, <2>3 DEF InMemory, Take
    <2> QED BY <2>4, QuietStranding DEF Take
  <1>2. CASE engine # "running"
    BY <1>2 DEF NothingStranded, Take
  <1> QED BY <1>1, <1>2

\* A worker that goes on keeps its job; one that records lets it go when the
\* row says what became of it, or is lost.
LEMMA WorkerStranding ==
  ASSUME Inv, NothingStranded, NEW w \in Workers,
         LoadProvider(w) \/ LoadEvent(w) \/ Send(w) \/ Record(w) \/ WorkerExit(w)
  PROVE  NothingStranded'
  <1> USE DEF tables, signals, counters, history
  <1>1. UNCHANGED <<batch, jobs, engine>> /\ lost \subseteq lost'
    BY DEF LoadProvider, LoadEvent, Send, Record, WorkerExit
  <1>2. CASE LoadProvider(w) \/ LoadEvent(w) \/ Send(w)
    <2>1. \E l \in BusyAt, o \in Outcomes : Goto(w, l, job[w], o)
      BY <1>2 DEF LoadProvider, LoadEvent, Send, BusyAt, Outcomes
    <2>2. AtWorkers \subseteq AtWorkers'
      BY <2>1, WorkersKeep
    <2>3. UNCHANGED row /\ InMemory \subseteq InMemory'
      BY <1>1, <1>2, <2>2 DEF InMemory, LoadProvider, LoadEvent, Send
    <2> QED BY <1>1, <2>3, QuietStranding
  <1>3. CASE WorkerExit(w)
    <2>1. Goto(w, "done", NoJob, NoOutcome) /\ ~Busy(w)
      BY <1>3 DEF WorkerExit, Busy, BusyAt
    <2>2. AtWorkers \subseteq AtWorkers'
      BY <2>1, WorkersKeep
    <2>3. UNCHANGED row /\ InMemory \subseteq InMemory'
      BY <1>1, <1>3, <2>2 DEF InMemory, WorkerExit
    <2> QED BY <1>1, <2>3, QuietStranding
  <1>4. CASE Record(w)
    <2>1. Goto(w, "idle", NoJob, NoOutcome) /\ Busy(w)
      BY <1>4 DEF Record, Busy, BusyAt
    <2>2. \A j \in InMemory : j \in InMemory' \/ j = job[w]
      BY <1>1, <2>1, WorkersKeep DEF InMemory
    <2>3. PICK i \in Ids : i = job[w].id
      BY <2>1, HeldRow
    <2>4. /\ row[i] \in RowType /\ row[i].attempts < MaxAttempts /\ outcome[w] \in Outcomes
          /\ \/ row' = [row EXCEPT ![i] = Recorded(row[i], outcome[w], row[i].attempts + 1)]
             \/ UNCHANGED row /\ i \in lost'
      BY <1>4, <2>3, RecordedOrLost
    <2>5. Recorded(row[i], outcome[w], row[i].attempts + 1).status # "in_progress"
      BY <2>4, RecordedRow
    <2>6. /\ \A k \in Ids : row'[k].status = "in_progress" => row[k].status = "in_progress"
          /\ row'[i].status # "in_progress" \/ i \in lost'
      BY <2>4, <2>5 DEF Inv, TypeOK
    <2> QED BY <1>1, <2>2, <2>3, <2>6, QuietStranding
  <1> QED BY <1>2, <1>3, <1>4

\* Each step leaves no row behind.
LEMMA NextStranding == ASSUME Inv, NothingStranded, [Next]_vars PROVE NothingStranded'
  <1> USE DEF tables, threads, workers, signals, counters, history
  <1>1. CASE Start
    <2>1. \A i \in Ids : row'[i].status # "in_progress"
      BY <1>1, Counts DEF Start, ResetInProgress, Reopened, RowType
    <2> QED BY <2>1 DEF NothingStranded
  <1>2. CASE Cancel \/ Stopped \/ Crash \/ DispatcherExit
    BY <1>2 DEF NothingStranded, Cancel, Stopped, Crash, DispatcherExit
  <1>3. CASE ClaimNothing \/ Awake \/ Poll \/ CallerStep \/ Tick \/ UNCHANGED vars
    <2>1. /\ UNCHANGED <<engine, batch, jobs, workers, lost>>
      BY <1>3 DEF ClaimNothing, Awake, Poll, CallerStep, EnqueueDelivery, Nudge,
                  AbandonNudge, SetProvider, Tick, vars
    <2>2. InMemory' = InMemory
      BY <2>1 DEF InMemory, AtWorkers, Busy
    <2>3. \A i \in Ids : row'[i].status = "in_progress" => row[i].status = "in_progress"
      <3>1. CASE Tick
        BY <3>1, Counts DEF Tick, RowType
      <3>2. ASSUME NEW k \in Ids, NEW p \in Providers, EnqueueDelivery(k, p)
            PROVE  \A i \in Ids : row'[i].status = "in_progress" => row[i].status = "in_progress"
        BY <3>2 DEF EnqueueDelivery, Inv, TypeOK
      <3>3. CASE UNCHANGED row
        BY <3>3
      <3> QED BY <1>3, <3>1, <3>2, <3>3 DEF ClaimNothing, Awake, Poll, CallerStep, Nudge,
                                            AbandonNudge, SetProvider, vars
    <2> QED BY <2>1, <2>2, <2>3, QuietStranding
  <1>4. CASE \E w \in Workers : WorkerStep(w)
    BY <1>4, TakeStranding, WorkerStranding DEF WorkerStep
  <1> QED BY <1>1, <1>2, <1>3, <1>4, ClaimStranding, PushStranding
       DEF Next, ProcessStep, DispatcherStep

-----------------------------------------------------------------------------
(* No nudge is lost.                                                       *)

\* A claim that is not full has taken every due row: it lists as many
\* different ones as there are.
LEMMA ShortClaimTakesAll ==
  ASSUME Inv, ClaimDueDeliveries, ~fullBatch'
  PROVE  \A i \in Due : row'[i].status = "in_progress"
  <1>1. PICK k \in 1..BatchSize :
          /\ k = BatchSize \/ k = Cardinality(Due)
          /\ fullBatch' = (k = BatchSize)
          /\ \E s \in Claims(k) :
               row' = [i \in Ids |-> IF \E n \in 1..k : s[n] = i
                                    THEN [row[i] EXCEPT !.status = "in_progress"]
                                    ELSE row[i]]
    BY DEF ClaimDueDeliveries
  <1>2. PICK s \in Claims(k) :
               row' = [i \in Ids |-> IF \E n \in 1..k : s[n] = i
                                    THEN [row[i] EXCEPT !.status = "in_progress"]
                                    ELSE row[i]]
    BY <1>1
  <1>3. k = Cardinality(Due) /\ k \in Nat
    <2>1. k # BatchSize
      BY <1>1, Zenon
    <2> QED BY <1>1, <2>1, QueueAssumption DEF QueueAssumption
  <1>4. IsFiniteSet(Due)
    <2>1. Due \in SUBSET Ids
      BY DEF Due
    <2> QED BY <2>1, FS_Subset, QueueAssumption DEF QueueAssumption
  <1>5. Cardinality(1..k) = k
    BY <1>3, FS_Interval
  <1>6. s \in Injection(1..k, Due)
    BY DEF Claims, Injection, IsInjective
  <1>7. s \in Surjection(1..k, Due)
    BY <1>3, <1>4, <1>5, <1>6, FS_Injection
  <1>8. \A i \in Due : \E n \in 1..k : s[n] = i
    BY <1>7 DEF Surjection
  <1>9. Due \subseteq Ids
    BY DEF Due
  <1> QED BY <1>2, <1>8, <1>9, Counts DEF RowType

\* A new row is due at once.
LEMMA PendingIsDue ==
  ASSUME Inv, NEW i \in Ids, row[i].status = "pending" PROVE i \in Due
  <1>1. row[i].due \in Nat /\ ~(row[i].due > 0)
    BY DEF Inv, BackoffInv, TypeOK, RowType
  <1> QED BY <1>1 DEF Due, Claimable

\* Each step keeps the wake-up.
LEMMA NextWake == ASSUME Inv, WakeInv, [Next]_vars PROVE WakeInv'
  <1> USE DEF tables, threads, workers, signals, counters, history
  <1> SUFFICES ASSUME faults' = 0, engine' = "running", ~wake', ~unnudged',
                      dispatcher' = "wait" \/ (dispatcher' = "push" /\ ~fullBatch'),
                      NEW i \in Ids
               PROVE  row'[i].status # "pending"
    BY DEF WakeInv
  <1>1. CASE ClaimDueDeliveries
    <2>1. row'[i] = row[i] \/ row'[i].status = "in_progress"
      BY <1>1, ClaimedRows, Counts DEF RowType
    <2>2. row[i].status = "pending" => i \in Due
      BY PendingIsDue
    <2>3. ~fullBatch'
      BY <1>1 DEF ClaimDueDeliveries
    <2> QED BY <1>1, <2>1, <2>2, <2>3, ShortClaimTakesAll
  <1>2. CASE ClaimNothing
    <2>1. ~Fault
      BY Counts DEF Fault
    <2> QED BY <1>2, <2>1, PendingIsDue DEF ClaimNothing
  <1>3. CASE Push
    BY <1>3, Counts DEF Push, WakeInv
  <1>4. CASE CallerStep
    <2>1. ~Fault
      BY Counts DEF Fault
    <2> QED BY <1>4, <2>1 DEF CallerStep, EnqueueDelivery, Nudge, AbandonNudge, SetProvider,
                              WakeInv
  <1>5. CASE Tick
    <2>1. row'[i].status = row[i].status
      BY <1>5, Counts DEF Tick, RowType
    <2> QED BY <1>5, <2>1 DEF Tick, WakeInv
  <1>6. ASSUME NEW w \in Workers, WorkerStep(w) PROVE row'[i].status # "pending"
    <2>1. /\ UNCHANGED <<engine, dispatcher, fullBatch, wake, unnudged>> /\ faults = 0
      BY <1>6, Counts DEF WorkerStep, Take, LoadProvider, LoadEvent, Send, Record, WorkerExit,
                          Fault, NoFault
    <2>2. row[i].status # "pending"
      BY <2>1 DEF WakeInv
    <2>3. CASE Record(w)
      <3>1. PICK k \in Ids : k = job[w].id
        BY <2>3, HeldRow DEF Record, Busy, BusyAt
      <3>2. /\ row[k] \in RowType /\ row[k].attempts < MaxAttempts /\ outcome[w] \in Outcomes
            /\ \/ row' = [row EXCEPT ![k] = Recorded(row[k], outcome[w], row[k].attempts + 1)]
               \/ UNCHANGED row
        BY <2>3, <3>1, RecordedOrLost
      <3>3. Recorded(row[k], outcome[w], row[k].attempts + 1).status # "pending"
        BY <3>2, RecordedRow
      <3> QED BY <2>2, <3>2, <3>3 DEF Inv, TypeOK
    <2>4. CASE UNCHANGED row
      BY <2>2, <2>4
    <2> QED BY <1>6, <2>3, <2>4 DEF WorkerStep, Take, LoadProvider, LoadEvent, Send, WorkerExit
  <1>7. CASE UNCHANGED vars
    BY <1>7 DEF vars, WakeInv
  <1>8. CASE ProcessStep \/ Awake \/ Poll \/ DispatcherExit
    BY <1>8 DEF ProcessStep, Start, Cancel, Stopped, Crash, Awake, Poll, DispatcherExit
  <1> QED BY <1>1, <1>2, <1>3, <1>4, <1>5, <1>6, <1>7, <1>8 DEF Next, DispatcherStep

-----------------------------------------------------------------------------
(* The refinement of DeliveryPromise.                                      *)

Phase(r) == IF r.status \in {"pending", "in_progress", "failed"} THEN "queued" ELSE r.status

\* The invariant of the queue under which it keeps its promise.
Kept == Inv /\ AccountInv

\* Rows that keep their phase and count, and a provider that takes nothing.
LEMMA PromiseStutters ==
  ASSUME Kept, UNCHANGED accepted,
         \A i \in Ids : Phase(row'[i]) = Phase(row[i]) /\ row'[i].attempts = row[i].attempts
  PROVE  UNCHANGED Promise!vars
  <1>1. [i \in Ids |-> Phase(row[i])] = [i \in Ids |-> Phase(row'[i])]
    OBVIOUS
  <1>2. [i \in Ids |-> row[i].attempts] = [i \in Ids |-> row'[i].attempts]
    OBVIOUS
  <1> QED BY <1>1, <1>2 DEF Promise!vars, Phase

\* The first states map to first states.
LEMMA InitPromise == Init => Promise!Init
  BY DEF Init, Promise!Init

\* An insert is an acceptance.
LEMMA EnqueuePromise ==
  ASSUME Kept, NEW i \in Ids, NEW p \in Providers, EnqueueDelivery(i, p)
  PROVE  Promise!Accept(i)
  <1>1. row \in [Ids -> RowType] /\ row[i].attempts = 0 /\ row[i].status = "absent"
    BY DEF Kept, Inv, TypeOK, AccountInv, AbsentInv, EnqueueDelivery
  <1>2. /\ row'[i].status = "pending" /\ row'[i].attempts = 0
        /\ \A k \in Ids : k # i => row'[k] = row[k]
    BY <1>1 DEF EnqueueDelivery
  <1>3. [k \in Ids |-> Phase(row'[k])] = [[k \in Ids |-> Phase(row[k])] EXCEPT ![i] = "queued"]
    BY <1>2 DEF Phase
  <1>4. [k \in Ids |-> row'[k].attempts] = [k \in Ids |-> row[k].attempts]
    BY <1>1, <1>2
  <1>5. UNCHANGED accepted
    BY DEF EnqueueDelivery, history
  <1> QED BY <1>1, <1>3, <1>4, <1>5 DEF Promise!Accept, Phase

\* A message that the provider takes is a delivery, whatever the worker is told.
LEMMA SendPromise ==
  ASSUME Kept, NEW w \in Workers, Send(w)
  PROVE  (\E i \in Ids : Promise!Deliver(i)) \/ UNCHANGED Promise!vars
  <1> USE DEF tables, signals
  <1>1. PICK i \in Ids : i = job[w].id /\ row[i].status = "in_progress"
    BY HeldRow DEF Kept, Send, Busy, BusyAt
  <1>2. UNCHANGED row
    BY DEF Send
  <1>3. CASE accepted' = [accepted EXCEPT ![i] = @ + 1]
    BY <1>1, <1>2, <1>3 DEF Promise!Deliver
  <1>4. CASE UNCHANGED accepted
    BY <1>2, <1>4, PromiseStutters
  <1> QED BY <1>1, <1>3, <1>4 DEF Send

\* What is recorded is a retry while attempts are left, or the end.
LEMMA RecordPromise ==
  ASSUME Kept, NEW w \in Workers, Record(w)
  PROVE  (\E i \in Ids : Promise!Retry(i) \/ Promise!Settle(i)) \/ UNCHANGED Promise!vars
  <1>1. PICK i \in Ids : i = job[w].id
    BY HeldRow DEF Kept, Record, Busy, BusyAt
  <1> DEFINE q == Recorded(row[i], outcome[w], row[i].attempts + 1)
  <1>2. /\ row \in [Ids -> RowType] /\ row[i].status = "in_progress"
        /\ row[i].attempts < MaxAttempts
        /\ row' = [row EXCEPT ![i] = q] \/ UNCHANGED row
    BY <1>1, RecordedOrLost DEF Kept, Inv, TypeOK
  <1>3. /\ q.attempts = row[i].attempts + 1 /\ q.status \in {"success", "dead", "failed"}
        /\ q.status = "failed" => q.attempts < MaxAttempts
        /\ q.status = "success" => outcome[w] = "ok"
    BY <1>1, RecordedOrLost, RecordedRow DEF Kept
  <1>4. q.status = "success" => accepted[i] > 0
    BY <1>1, <1>3 DEF Kept, AccountInv, TakenInv, Succeeded, Record
  <1>5. UNCHANGED accepted
    BY DEF Record
  <1> HIDE DEF q
  <1>6. CASE UNCHANGED row
    BY <1>5, <1>6, PromiseStutters
  <1>7. CASE row' = [row EXCEPT ![i] = q]
    <2>1. row'[i] = q /\ \A k \in Ids : k # i => row'[k] = row[k]
      BY <1>2, <1>7
    <2>2. [k \in Ids |-> row'[k].attempts]
            = [[k \in Ids |-> row[k].attempts] EXCEPT ![i] = @ + 1]
      BY <1>3, <2>1
    <2>3. CASE q.status = "failed"
      <3>1. [k \in Ids |-> Phase(row'[k])] = [k \in Ids |-> Phase(row[k])]
        BY <1>2, <2>1, <2>3 DEF Phase
      <3>2. Promise!Retry(i)
        BY <1>2, <1>3, <1>5, <2>2, <2>3, <3>1 DEF Promise!Retry, Phase
      <3> QED BY <3>2
    <2>4. CASE q.status \in {"success", "dead"}
      <3>1. [k \in Ids |-> Phase(row'[k])]
              = [[k \in Ids |-> Phase(row[k])] EXCEPT ![i] = q.status]
        BY <2>1, <2>4 DEF Phase
      <3>2. Promise!Settle(i)
        BY <1>2, <1>4, <1>5, <2>2, <2>4, <3>1 DEF Promise!Settle, Promise!Finish, Phase
      <3> QED BY <3>2
    <2> QED BY <1>3, <2>3, <2>4
  <1> QED BY <1>2, <1>6, <1>7

\* Each step is a step of the promise or none.
LEMMA NextPromise == ASSUME Kept, [Next]_vars PROVE [Promise!Next]_(Promise!vars)
  <1> USE DEF tables, threads, workers, signals, counters, history
  <1>1. CASE Start \/ Tick \/ ClaimDueDeliveries
    <2>1. ASSUME NEW i \in Ids
          PROVE  Phase(row'[i]) = Phase(row[i]) /\ row'[i].attempts = row[i].attempts
      <3>1. row \in [Ids -> RowType] /\ row[i] \in RowType
        BY DEF Kept, Inv, TypeOK
      <3>2. CASE Start
        BY <3>1, <3>2 DEF Start, ResetInProgress, Reopened, Phase, RowType
      <3>3. CASE Tick
        BY <3>1, <3>3 DEF Tick, Phase, RowType
      <3>4. CASE ClaimDueDeliveries
        <4>1. \/ row'[i] = row[i]
              \/ i \in Due /\ row'[i] = [row[i] EXCEPT !.status = "in_progress"]
          BY <3>4, ClaimedRows DEF Kept
        <4>2. i \in Due => row[i].status \in {"pending", "failed"}
          BY DEF Due, Claimable
        <4> QED BY <3>1, <4>1, <4>2 DEF Phase, RowType
      <3> QED BY <1>1, <3>2, <3>3, <3>4
    <2>2. UNCHANGED accepted
      BY <1>1 DEF Start, Tick, ClaimDueDeliveries
    <2> QED BY <2>1, <2>2, PromiseStutters
  <1>2. ASSUME NEW i \in Ids, NEW p \in Providers, EnqueueDelivery(i, p)
        PROVE  [Promise!Next]_(Promise!vars)
    BY <1>2, EnqueuePromise DEF Promise!Next
  <1>3. ASSUME NEW w \in Workers, Send(w) PROVE [Promise!Next]_(Promise!vars)
    BY <1>3, SendPromise DEF Promise!Next
  <1>4. ASSUME NEW w \in Workers, Record(w) PROVE [Promise!Next]_(Promise!vars)
    BY <1>4, RecordPromise DEF Promise!Next
  <1>5. CASE UNCHANGED <<row, accepted>>
    BY <1>5, PromiseStutters
  <1>6. \/ Start \/ Tick \/ ClaimDueDeliveries \/ UNCHANGED <<row, accepted>>
        \/ \E i \in Ids, p \in Providers : EnqueueDelivery(i, p)
        \/ \E w \in Workers : Send(w) \/ Record(w)
    BY DEF Next, vars, ProcessStep, DispatcherStep, CallerStep, WorkerStep,
           Cancel, Stopped, Crash, ClaimNothing, Push, Awake, Poll, DispatcherExit,
           Nudge, AbandonNudge, SetProvider, Take, LoadProvider, LoadEvent, WorkerExit
  <1> QED BY <1>1, <1>2, <1>3, <1>4, <1>5, <1>6

-----------------------------------------------------------------------------
(* The theorems.                                                           *)

(* In every reachable state the accounts of sends, messages and successes are
   in order, next to the invariant of the queue. *)
THEOREM Accounts == Spec => []Kept
  <1>1. Init => Kept
    BY InitInv, InitAccount DEF Kept
  <1>2. Kept /\ [Next]_vars => Kept'
    BY NextInv, NextAccount DEF Kept
  <1> QED BY <1>1, <1>2, PTL DEF Spec

(* Every send is counted by its row or was cut off, a success was taken by its
   provider, and taken once when nothing failed: for any number of workers,
   crashes and restarts. *)
THEOREM SendsAreAccounted == Spec => []SendsAccounted
  <1>1. Kept => SendsAccounted
    <2> SUFFICES ASSUME Kept, NEW i \in Ids
                 PROVE  /\ sends[i] <= row[i].attempts + unrecorded[i] + (IF InFlight(i) THEN 1 ELSE 0)
                        /\ row[i].status = "success" => accepted[i] > 0
                        /\ faults = 0 /\ unrecorded[i] = 0 => accepted[i] <= 1
      BY DEF SendsAccounted
    <2> QED BY Counts DEF Kept, AccountInv, SendsInv, TakenInv, OnceInv
  <1> QED BY <1>1, Accounts, PTL

(* While the engine runs, a claimed row is held by somebody, or its outcome is
   one that this process failed to write: a full channel strands nothing. *)
THEOREM NoRowIsStranded == Spec => []NothingStranded
  <1>1. Init => NothingStranded
    BY DEF Init, NothingStranded
  <1>2. Inv /\ NothingStranded /\ [Next]_vars => NothingStranded'
    BY NextStranding
  <1> QED BY <1>1, <1>2, Invariance, PTL DEF Spec

(* Without a fault, a dispatcher that sleeps with no token to wake it has left
   no new delivery behind: a nudge is never lost. *)
THEOREM NudgesArrive == Spec => []NoLostWakeup
  <1>1. Init => WakeInv
    BY DEF Init, WakeInv
  <1>2. Inv /\ WakeInv /\ [Next]_vars => WakeInv'
    BY NextWake
  <1>3. WakeInv => NoLostWakeup
    BY DEF WakeInv, NoLostWakeup
  <1> QED BY <1>1, <1>2, <1>3, Invariance, PTL DEF Spec

(* The queue implements DeliveryPromise: each step of its goroutines, of a crash
   or of a restart is a step of the promise or changes nothing in it. *)
THEOREM QueueKeepsPromise == Spec => KeepsPromise
  <1>1. Kept /\ [Next]_vars => [Promise!Next]_(Promise!vars)
    BY NextPromise
  <1> QED BY <1>1, InitPromise, Accounts, PTL DEF Spec, KeepsPromise, Promise!Spec
=============================================================================
