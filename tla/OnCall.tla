------------------------------- MODULE OnCall -------------------------------
(***************************************************************************)
(* The on-call plugin, src/internal/plugins/oncall: incidents, escalation, *)
(* what people do with them, and overrides.                                *)
(*                                                                         *)
(* Everything that changes state runs under the plugin's mutex, so a       *)
(* handler is one action.  It works on the copy in memory and sends the    *)
(* database one statement after the other, without a transaction: when a   *)
(* statement fails the handler returns with memory as far as it got, and   *)
(* when the process dies the memory is read again from what was written.   *)
(* A handler is therefore a chain of steps on a record s, its place:       *)
(*   m, d           the memory and the database so far                     *)
(*   fault, left    what is to go wrong, at the left-th statement from here *)
(*   hit, err       it went wrong; what follows in the function is skipped *)
(*   pages, opened  who has been paged, which incidents were ever opened   *)
(***************************************************************************)
EXTENDS Integers, Sequences, FiniteSets, SequencesExt

CONSTANTS
  Rota, Days, Day, DayStart, Shifts, MaxOverrides,  \* see Rotation
  Alerts,       \* alerts: a service and a fingerprint
  AutoResolve,  \* those of services with auto_resolve
  Inbox,        \* delivery -> the [alert, status, at] that it brings
  Posts,        \* idempotency key -> the request that carries it
  Policies,     \* policy -> [repeat, levels], a level a [delay, onRota, users]
  HomePolicy,   \* the policy of the services
  Team,         \* the users of the services' team
  Capable,      \* the users with the capabilities
  Reachable,    \* the users with a contact or a phone
  MaxPosts,     \* bound: requests answered
  LastArrival,  \* bound: deliveries and requests come until then
  MaxTime, MaxFaults,  \* bounds: the clock; failing statements and crashes
  MaxLate       \* bound: an incident is not due for longer, as the ticker ticks

None  == 0   \* no incident, no level
Never == -1  \* no time

ASSUME OnCallAssumption ==
  /\ HomePolicy \in DOMAIN Policies
  /\ \A p \in DOMAIN Policies :
       /\ Policies[p].repeat \in Nat
       /\ Policies[p].levels # <<>> /\ Policies[p].levels \in Seq(ToSet(Policies[p].levels))
       /\ \A level \in ToSet(Policies[p].levels) :
            level.delay \in Nat /\ level.users \in Seq(ToSet(level.users))
  /\ \A i \in DOMAIN Inbox : /\ Inbox[i].alert \in Alerts /\ Inbox[i].at \in Nat
                             /\ Inbox[i].status \in {"firing", "resolved", "none"}
  /\ \A k \in DOMAIN Posts : Posts[k].what \in {"create", "hand", "override", "acknowledge", "resolve",
                                               "reassign", "escalate", "note"}
  /\ {MaxPosts, LastArrival, MaxTime, MaxFaults, MaxLate} \subseteq Nat

VARIABLES
  clock,    \* the plugin's clock
  mem,      \* the fields of Plugin
  db,       \* its database
  waiting,  \* deliveries that Notify has not recorded as sent
  fails, crashes,  \* bounded counters
  opened,   \* history: where each incident that was ever opened came from
  taken,    \* history: deliveries that ingest has returned nil for
  quiet,    \* history: incidents [incident, birth] that a person was told are handled
  stray     \* history: users paged for an incident while it was quiet

history == <<opened, taken, quiet, stray>>
vars == <<clock, mem, db, waiting, fails, crashes, history>>

Rot == INSTANCE Rotation WITH overrides <- mem.overrides

Counters(m) == [next |-> m.next, seq |-> m.seq, oncallSeq |-> m.oncallSeq]

\* load.
Load(d) == [incidents |-> d.incidents, overrides |-> d.overrides, next |-> d.counters.next,
            seq |-> d.counters.seq, oncallSeq |-> d.counters.oncallSeq, last |-> d.last]

EmptyDb == [incidents |-> <<>>, overrides |-> <<>>,
            counters |-> [next |-> 0, seq |-> 0, oncallSeq |-> 0], last |-> "unknown",
            alerts |-> [a \in Alerts |-> None], ended |-> [a \in Alerts |-> Never],
            seen |-> {}, answered |-> {}]

Init ==
  /\ clock = 0 /\ fails = 0 /\ crashes = 0
  /\ db = EmptyDb /\ mem = Load(EmptyDb)
  /\ waiting = DOMAIN Inbox
  /\ opened = <<>> /\ taken = {} /\ quiet = {} /\ stray = {}

-----------------------------------------------------------------------------
(* Steps.                                                                  *)

Begin(fault, left) == [m |-> mem, d |-> db, fault |-> fault, left |-> left, hit |-> FALSE,
                       err |-> FALSE, pages |-> {}, opened |-> opened]

\* An assignment to the fields in memory.
Set(s, m) == IF s.err THEN s ELSE [s EXCEPT !.m = m]

\* A statement that makes the database d.
Write(s, d) ==
  IF s.err THEN s
  ELSE IF s.left = 1 THEN [s EXCEPT !.left = 0, !.hit = TRUE, !.err = TRUE]
  ELSE [s EXCEPT !.left = @ - 1, !.d = d]

\* The caller logs the error and goes on.
Logged(s) == [s EXCEPT !.err = s.hit /\ s.fault = "crash"]

With(f, n, x) == [k \in DOMAIN f \cup {n} |-> IF k = n THEN x ELSE f[k]]
SetIncident(s, n, inc) == Set(s, [s.m EXCEPT !.incidents = With(@, n, inc)])

\* An event of the feed, which only the display reads; or of an incident's timeline.
AddEvent(s) == Write(s, s.d)
Record(s) == AddEvent(s)

SaveCounters(s) == Write(s, [s.d EXCEPT !.counters = Counters(s.m)])

PutIncident(s, n) == Write(s, [s.d EXCEPT !.incidents = With(@, n, s.m.incidents[n])])

Touch_KeepsChanged(s, n) == SaveCounters(PutIncident(Set(s, [s.m EXCEPT !.seq = @ + 1]), n))
Touch_KeepsCounters(s, n) ==
  PutIncident(Set(s, [s.m EXCEPT !.seq = @ + 1, !.incidents[n].changed = s.m.seq + 1]), n)
Touch(s, n) ==
  SaveCounters(PutIncident(
    Set(s, [s.m EXCEPT !.seq = @ + 1, !.incidents[n].changed = s.m.seq + 1]), n))

-----------------------------------------------------------------------------
(* Escalation.                                                             *)

Levels(inc) == Policies[inc.policy].levels
Wraps(inc)  == inc.level >= Len(Levels(inc)) /\ inc.loops > 0

\* next: the level an incident escalates to, None when the policy is used up.
NextLevel_NoLoops(inc) == IF inc.level < Len(Levels(inc)) THEN inc.level + 1 ELSE None
NextLevel(inc) == IF inc.level < Len(Levels(inc)) THEN inc.level + 1
                  ELSE IF Wraps(inc) THEN 1 ELSE None

\* Whom a level pages: who is on the schedule, then its users.
LevelUsers(level) ==
  LET on == Rot!OnCallAt(clock).user
  IN  (IF level.onRota /\ on # "nobody" THEN <<on>> ELSE <<>>) \o level.users

\* Notify's answer to the request for a page is only noted, and so is that
\* somebody has no contact and no phone.
Page(s, n, u) ==
  LET asked == [incident |-> n, birth |-> s.m.incidents[n].birth, user |-> u]
  IN  Record(IF s.err \/ u \notin Reachable THEN s ELSE [s EXCEPT !.pages = @ \cup {asked}])

\* Each user once.
PageAll(s, n, users) ==
  LET paged[j \in 0..Len(users)] ==
        IF j = 0 THEN s
        ELSE IF \E i \in 1..(j - 1) : users[i] = users[j] THEN paged[j - 1]
        ELSE Page(Record(paged[j - 1]), n, users[j])
  IN  paged[Len(users)]

EscalatesAt(inc) == IF NextLevel(inc) = None THEN Never ELSE clock + Levels(inc)[inc.level].delay

Assign(s, n, level) ==
  LET inc   == [s.m.incidents[n] EXCEPT !.level = level]
      users == LevelUsers(Levels(inc)[level])
      s1    == SetIncident(s, n, [inc EXCEPT !.due = EscalatesAt(inc), !.assigned = ToSet(users)])
  IN  IF users = <<>> THEN Record(s1) ELSE PageAll(s1, n, users)

EscalateDue(s, n) ==
  LET inc == s.m.incidents[n]
  IN  IF NextLevel(inc) = None
      THEN Touch(SetIncident(s, n, [inc EXCEPT !.due = Never]), n)
      ELSE Touch(Assign(SetIncident(s, n, [inc EXCEPT !.loops = @ - (IF Wraps(inc) THEN 1 ELSE 0)]),
                        n, NextLevel(inc)), n)

\* An error of one does not keep the next.
EscalateAll(s, order) ==
  LET escalated[j \in 0..Len(order)] ==
        IF j = 0 THEN s ELSE Logged(EscalateDue(escalated[j - 1], order[j]))
  IN  escalated[Len(order)]

\* Who came on call since the last look; the first look only takes note.
Handoffs(s) ==
  LET on == Rot!OnCallAt(clock).user
      s1 == Set(s, [s.m EXCEPT !.last = on])
      s2 == IF s.m.last = "unknown" \/ on = "nobody" THEN s1 ELSE AddEvent(s1)
      s3 == Set(s2, [s2.m EXCEPT !.seq = @ + 1, !.oncallSeq = s2.m.seq + 1])
  IN  IF s.m.last = on THEN s
      ELSE SaveCounters(Write(s3, [s3.d EXCEPT !.last = s3.m.last]))

-----------------------------------------------------------------------------
(* Incidents.                                                              *)

NextNumber(s) == IF s.m.next < 1 THEN 1 ELSE s.m.next

\* from is the delivery or the request the incident comes from.
OpenIncident(s, alert, from) ==
  LET n   == NextNumber(s)
      inc == [status |-> "triggered", policy |-> HomePolicy, level |-> 0,
              loops |-> Policies[HomePolicy].repeat, due |-> Never, assigned |-> {}, acked |-> {},
              alert |-> alert, alerts |-> IF alert = "manual" THEN 0 ELSE 1, notes |-> 0,
              changed |-> 0, birth |-> Len(s.opened) + 1]
      s1  == [SetIncident(s, n, inc) EXCEPT !.m.next = n + 1, !.opened = Append(@, from)]
  IN  Touch(Assign(Record(s1), n, 1), n)

\* The incident an alert belongs to.
IncidentOf(s, alert) == s.d.alerts[alert]

DropAlerts(s, n) ==
  Write(s, [s.d EXCEPT !.alerts = [a \in Alerts |-> IF @[a] = n THEN None ELSE @[a]]])

Resolve(s, n) ==
  LET s1 == SetIncident(s, n, [s.m.incidents[n] EXCEPT !.status = "resolved", !.due = Never])
  IN  Touch(DropAlerts(Record(s1), n), n)

Known(s, n)  == n \in DOMAIN s.m.incidents
IsOpen(s, n) == Known(s, n) /\ s.m.incidents[n].status # "resolved"

-----------------------------------------------------------------------------
(* Ingest.                                                                 *)

\* Stamps are in half seconds.  They are stored as text, where a whole second,
\* which ends in a Z, is greater than the same second with a fraction.
Second(t) == t \div 2
TextMax_Last(a, b) == b
TextMax(a, b) ==
  IF \/ Second(a) > Second(b)
     \/ Second(a) = Second(b) /\ a % 2 = 0
  THEN a ELSE b
PutResolved(s, alert, at) ==
  Write(s, [s.d EXCEPT !.ended[alert] = IF @ = Never THEN at ELSE TextMax(@, at)])

\* A firing that an earlier resolve has overtaken.
Stale(s, e) == e.status = "firing" /\ s.d.ended[e.alert] # Never /\ e.at <= s.d.ended[e.alert]

PutAlert_Never(s, alert, n) == s
PutAlert(s, alert, n) == Write(s, [s.d EXCEPT !.alerts[alert] = n])

IngestLocked(s, e, from) ==
  LET n      == IncidentOf(s, e.alert)
      inc    == s.m.incidents[n]
      ended  == PutResolved(s, e.alert, e.at)
      new    == OpenIncident(s, e.alert, from)
      number == NextNumber(s)
  IN  CASE e.status = "resolved" ->
             IF ~IsOpen(s, n) THEN DropAlerts(ended, n)
             ELSE IF e.alert \notin AutoResolve THEN Touch(Record(ended), n)
             ELSE Resolve(ended, n)
        [] Stale(s, e) -> s
        [] e.status = "firing" /\ ~Stale(s, e) /\ IsOpen(s, n) ->
             Touch(Record(SetIncident(s, n, [inc EXCEPT !.alerts = @ + 1])), n)
        [] e.status = "firing" /\ ~Stale(s, e) /\ ~IsOpen(s, n) ->
             PutAlert(new, e.alert, number)
        [] OTHER -> new

MarkDelivery(s, i) == Write(s, [s.d EXCEPT !.seen = @ \cup {i}])

HasDelivery(s, i) == i \in s.d.seen

HandleDelivery(s, i) ==
  IF HasDelivery(s, i) THEN s
  ELSE MarkDelivery(IngestLocked(s, Inbox[i], <<"delivery", i>>), i)

-----------------------------------------------------------------------------
(* What people ask for.                                                    *)

Reopen(inc) ==
  IF inc.status = "acknowledged" THEN [inc EXCEPT !.status = "triggered", !.acked = {}] ELSE inc

Reassign(s, n, p) ==
  LET inc == Reopen(s.m.incidents[n])
      s1  == SetIncident(s, n, [inc EXCEPT !.assigned = {p.to},
                                           !.due = IF inc.level \in DOMAIN Levels(inc)
                                                   THEN EscalatesAt(inc) ELSE Never])
      s2  == SetIncident(s, n, [inc EXCEPT !.policy = p.to, !.loops = Policies[p.to].repeat])
  IN  IF p.to \in DOMAIN Policies THEN Assign(s2, n, 1) ELSE Page(Record(s1), n, p.to)

Acknowledge_StaysTriggered(s, n, p) ==
  IF p.by \in s.m.incidents[n].acked THEN s
  ELSE Touch(Record(SetIncident(s, n, [s.m.incidents[n] EXCEPT !.acked = @ \cup {p.by}])), n)
Acknowledge_KeepsTime(s, n, p) ==
  IF p.by \in s.m.incidents[n].acked THEN s
  ELSE Touch(Record(SetIncident(s, n, [s.m.incidents[n] EXCEPT
               !.status = "acknowledged", !.acked = @ \cup {p.by}])), n)
Acknowledge(s, n, p) ==
  IF p.by \in s.m.incidents[n].acked THEN s
  ELSE Touch(Record(SetIncident(s, n, [s.m.incidents[n] EXCEPT
               !.status = "acknowledged", !.acked = @ \cup {p.by}, !.due = Never])), n)

Note(s, n) == Touch(Record(SetIncident(s, n, [s.m.incidents[n] EXCEPT !.notes = @ + 1])), n)

PutOverride(s, o) == Write(s, [s.d EXCEPT !.overrides = Append(@, o)])

\* An override's id is the change it will be, and has to be new.
CreateOverride(s, p) ==
  LET o  == [id |-> s.m.seq + 1, user |-> p.user, from |-> p.from, to |-> p.to]
      s1 == PutOverride(s, o)
      s2 == AddEvent(Set(s1, [s1.m EXCEPT !.overrides = Append(@, o)]))
  IN  SaveCounters(Set(s2, [s2.m EXCEPT !.seq = @ + 1, !.oncallSeq = s2.m.seq + 1]))

\* The request is not refused with a 4xx.  "hand" opens an incident for somebody.
Accepts(s, p) ==
  CASE p.what \in {"create", "hand"} -> p.by \in Capable
    [] p.what = "override" -> /\ p.by \in Capable /\ p.to > p.from
                              /\ \A j \in DOMAIN s.d.overrides : s.d.overrides[j].id # s.m.seq + 1
    [] p.what = "acknowledge" ->
         /\ IsOpen(s, p.on) /\ p.by \in s.m.incidents[p.on].assigned \cup Team
    [] p.what = "resolve"  -> Known(s, p.on) /\ p.by \in Capable
    [] p.what = "reassign" -> IsOpen(s, p.on) /\ p.by \in Capable
    [] p.what = "escalate" -> /\ IsOpen(s, p.on) /\ p.by \in Capable
                              /\ p.level > s.m.incidents[p.on].level
                              /\ p.level \in DOMAIN Levels(s.m.incidents[p.on])
    [] p.what = "note"     -> Known(s, p.on)

Act(s, k) ==
  LET p == Posts[k]
      n == p.on
      new == OpenIncident(s, "manual", <<"request", k>>)
  IN  CASE p.what = "create"      -> new
        [] p.what = "hand"        -> Touch(Reassign(new, NextNumber(s), p), NextNumber(s))
        [] p.what = "override"    -> CreateOverride(s, p)
        [] p.what = "acknowledge" -> Acknowledge(s, n, p)
        [] p.what = "resolve"     -> IF IsOpen(s, n) THEN Resolve(s, n) ELSE s
        [] p.what = "reassign"    -> Touch(Reassign(s, n, p), n)
        [] p.what = "escalate"    ->
             Touch(Assign(SetIncident(s, n, Reopen(s.m.incidents[n])), n, p.level), n)
        [] p.what = "note"        -> Note(s, n)

\* The key has been answered.
Replays(k) == k \in db.answered

\* The answer is kept under its key; that it could not be is only logged.
Remember(s, k) ==
  IF s.err THEN s ELSE Logged(Write(s, [s.d EXCEPT !.answered = @ \cup {k}]))

\* getChanges: what a client with this cursor is told to fetch.
Changes(m, since) == {n \in DOMAIN m.incidents : m.incidents[n].changed > since}
OnCallChanged(m, since) == since = 0 \/ m.oncallSeq > since

-----------------------------------------------------------------------------
(* Actions.                                                                *)

\* The ways a handler may go: through, or with one of its statements that fails
\* or that the process does not live to see.
Runs(Handler(_)) ==
  LET through == Handler(Begin("none", 0))
      ahead   == IF fails + crashes < MaxFaults THEN {"fail", "crash"} ELSE {}
  IN  {through} \cup {Handler(Begin(f, i)) : f \in ahead, i \in 1..-through.left}

Died(s) == s.hit /\ s.fault = "crash"

\* What an incident is known by, as its number may come again.
Incident(x) == [incident |-> x.incident, birth |-> x.birth]

End(s) ==
  /\ mem' = IF Died(s) THEN Load(s.d) ELSE s.m
  /\ db' = s.d /\ opened' = s.opened
  /\ stray' = stray \cup {p.user : p \in {x \in s.pages : Incident(x) \in quiet'}}
  /\ fails' = fails + (IF s.hit /\ ~Died(s) THEN 1 ELSE 0)
  /\ crashes' = crashes + (IF Died(s) THEN 1 ELSE 0)

\* A delivery comes again until Send has returned nil.
Ingest(i) ==
  /\ i \in waiting /\ clock <= LastArrival
  /\ \E s \in Runs(LAMBDA b : HandleDelivery(b, i)) :
       /\ waiting' = IF s.err THEN waiting ELSE waiting \ {i}
       /\ taken' = IF s.err THEN taken ELSE taken \cup {i}
       /\ UNCHANGED quiet
       /\ End(s)
  /\ UNCHANGED clock

DueNow(n) == LET inc == mem.incidents[n]
             IN  inc.status = "triggered" /\ inc.due # Never /\ inc.due <= clock

\* The due incidents come in no order.
Tick ==
  /\ UNCHANGED <<clock, waiting, taken, quiet>>
  /\ \E order \in SetToSeqs({n \in DOMAIN mem.incidents : DueNow(n)}) :
       \E s \in Runs(LAMBDA b : Logged(Handoffs(EscalateAll(b, order)))) : End(s)

\* serve for a request that changes something.  A key that has been answered is
\* answered again from the table, and a refusal changes nothing.
Post(k) ==
  LET p  == Posts[k]
      me == [incident |-> p.on, birth |-> mem.incidents[p.on].birth]
  IN  /\ clock <= LastArrival /\ ~Replays(k) /\ Cardinality(db.answered) < MaxPosts
      /\ Accepts(Begin("none", 0), p)
      /\ \E s \in Runs(LAMBDA b : Remember(Act(b, k), k)) :
           /\ quiet' = IF p.what \in {"reassign", "escalate"} THEN quiet \ {me}
                       ELSE IF ~s.err /\ p.what \in {"acknowledge", "resolve"} THEN quiet \cup {me}
                       ELSE quiet
           /\ End(s)
      /\ UNCHANGED <<clock, waiting, taken>>

\* The process dies between two handlers.  A delivery that was just taken in may
\* not have been recorded, and comes again.
Crash ==
  /\ fails + crashes < MaxFaults /\ crashes' = crashes + 1
  /\ mem' = Load(db)
  /\ \/ UNCHANGED waiting
     \/ \E i \in taken : waiting' = waiting \cup {i}
  /\ UNCHANGED <<clock, db, fails, history>>

Advance ==
  /\ clock < MaxTime /\ clock' = clock + 1
  /\ \A n \in DOMAIN mem.incidents : DueNow(n) => clock - mem.incidents[n].due < MaxLate
  /\ UNCHANGED <<mem, db, waiting, fails, crashes, history>>

Next == \/ Tick \/ Advance \/ Crash
        \/ \E i \in DOMAIN Inbox : Ingest(i)
        \/ \E k \in DOMAIN Posts : Post(k)

Spec == Init /\ [][Next]_vars

\* What makes a tick change something: ENABLED <<Tick>>_vars.
HasWork == \/ \E n \in DOMAIN mem.incidents : DueNow(n)
           \/ mem.last # Rot!OnCallAt(clock).user

(* The plugin's ticker ticks and time passes; nobody has to do anything.  The
   last conjunct is WF_vars(Tick), written out. *)
FairSpec == /\ Spec /\ WF_vars(Advance)
            /\ ([]<>~HasWork \/ []<><<Tick>>_vars)

-----------------------------------------------------------------------------
(* Properties.                                                             *)

(* Incidents have a status, a level of their policy and a time only while
   triggered; memory and database are of one shape; the counters keep to their
   bounds. *)
TypeOK ==
  /\ clock \in 0..MaxTime /\ fails + crashes \in 0..MaxFaults
  /\ waiting \subseteq DOMAIN Inbox /\ taken \subseteq DOMAIN Inbox
  /\ DOMAIN mem = DOMAIN Load(db)
  /\ \A n \in DOMAIN mem.incidents :
       LET inc == mem.incidents[n]
       IN  /\ inc.status \in {"triggered", "acknowledged", "resolved"}
           /\ inc.level \in 0..Len(Levels(inc)) /\ inc.loops \in Nat
           /\ inc.due # Never => inc.status = "triggered"

(* The comment over the schema in store.go: "the process holds the working copy
   in memory and writes every change through".  As long as no statement has
   failed, a restart between two handlers finds what the memory had: incidents,
   escalation times, overrides, who was last on call, and every counter. *)
RestartLosesNothing == fails = 0 => mem = Load(db)

(* docs/plugins/oncall.md, Escalation: "Acknowledging stops it".  Nobody is paged
   for an incident after a person was told that it is acknowledged or resolved,
   until somebody reassigns or escalates it, whatever else happens, a crash
   included, unless a statement has failed. *)
QuietOnceHandled ==
  fails = 0 => stray = {}

FromFiring(o) == o[1] = "delivery" /\ Inbox[o[2]].status = "firing"
NewlyOpened == (Len(opened) + 1)..Len(opened')

(* The comment in ingestLocked: "a resolve can overtake its firing: remember when
   the alert ended, and a firing from before then is stale".  Once a resolve has
   been taken in, a firing from an earlier second opens nothing, however many
   resolves came, in whatever order.  And a delivery that was taken in opens
   nothing when it comes again, because Notify died before it recorded the
   success.  Both hold through crashes and failed statements. *)
WhatIsOverOpensNothing ==
  [][\A k \in NewlyOpened : opened'[k][1] = "delivery" =>
       LET i == opened'[k][2]
       IN  /\ i \notin taken
           /\ FromFiring(opened'[k]) =>
                \A r \in taken : Inbox[r].status = "resolved" /\ Inbox[r].alert = Inbox[i].alert
                  => Second(Inbox[i].at) >= Second(Inbox[r].at)]_vars

(* docs/plugins/oncall.md, Alerts: a repeat "adds to the open incident".  As long
   as nothing failed or died, an alert that fires has one open incident, which is
   the one its resolve will find. *)
OneIncidentPerAlert ==
  fails + crashes = 0 =>
    \A n \in DOMAIN mem.incidents :
      LET inc == mem.incidents[n]
      IN  inc.status # "resolved" /\ FromFiring(opened[inc.birth]) => db.alerts[inc.alert] = n

(* docs/plugins/oncall.md, The truth for the app: "GET /changes?since= gives a
   cursor".  A client that holds the latest cursor is told of every incident that
   is changed after it, by whatever step, a restart included, unless a statement
   has failed; and of overrides and handoffs as long as nothing died either. *)
EveryChangeIsListed ==
  [][/\ fails' = 0 => \A n \in DOMAIN mem'.incidents :
           n \notin DOMAIN mem.incidents \/ mem'.incidents[n] # mem.incidents[n]
             => n \in Changes(mem', mem.seq)
     /\ fails' + crashes' = 0 /\ (mem'.overrides # mem.overrides \/ mem'.last # mem.last)
             => OnCallChanged(mem', mem.seq)]_vars

(* docs/plugins/oncall.md, Escalation: "After the last level, repeat starts again
   from level 1."  An incident that nobody takes goes through its whole policy,
   through restarts, unless a statement has failed. *)
Unhandled(n) == n \in DOMAIN mem.incidents /\ mem.incidents[n].status = "triggered"
UsedUp(n) == LET inc == mem.incidents[n] IN inc.level = Len(Levels(inc)) /\ inc.loops = 0
EscalatesToTheEnd ==
  \A n \in 1..(Cardinality(DOMAIN Inbox) + MaxPosts) :
    Unhandled(n) ~> fails > 0 \/ ~Unhandled(n) \/ UsedUp(n)
=============================================================================
