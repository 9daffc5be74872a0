----------------------------- MODULE VoiceCalls -----------------------------
(***************************************************************************)
(* Voice calls: src/internal/voice (service.go, devices.go, history.go,    *)
(* policy.go) over the calls table of src/internal/storage/calls.go.       *)
(*                                                                         *)
(* The ticker's pass, a phone's report and a call back hold the service's  *)
(* mutex, so at most one of them is under way: it is the engine here, one  *)
(* statement per step.  Creating a call, cancelling one and a spoken turn  *)
(* take no mutex and come between any two of those steps.                  *)
(*                                                                         *)
(* One agent and one recipient.  Columns nothing reads any more (the       *)
(* deadline of a call that stopped ringing, the last activity of one that  *)
(* is not in progress) are cleared, where the table keeps them.            *)
(***************************************************************************)
EXTENDS Integers, Sequences, FiniteSets

CONSTANTS
  Callers,      \* goroutines of requests that take no mutex
  Devices,      \* the recipient's phones
  Nobody,       \* no phone
  Requests,     \* what agents ask for
  Deliveries,   \* deliveries to voice_call providers: [id, message]
  DeviceLists,  \* what ListDevices may give
  Quiet,        \* the times in the recipient's quiet hours
  RingTimeout, ActiveTimeout, DefaultExpiry, BusyRetry, RetryDelay, Snooze,
  MaxAttempts,  \* user.Retry.MaxAttempts
  MaxPending,   \* agent.MaxPending
  UserExempt,   \* user.Exceptions.ExplicitUserReminders
  MaxPerHour, Hour, Cooldown,  \* user.RateLimit, zero for none
  DueLimit,     \* calls one pass dispatches (32)
  MaxTurns,     \* bound: turns, before the last is started
  MaxCalls,     \* bound: calls whose end is asked about
  MaxInputs,    \* bound: calls asked for: created, called back or snoozed
  LastRequest,  \* bound: requests, turns and call backs come up to this time
  LastReport,   \* bound: reports, cancellations and answers to turns come up to this time
  MaxTime,      \* bound: clock
  MaxFaults     \* bound: failing statements and crashes

NoKey == <<>>

ASSUME VoiceAssumption ==
  /\ \A r \in Requests : /\ r.delay \in Nat /\ r.origin = "api"
                         /\ r.exempt \in BOOLEAN /\ r.test \in BOOLEAN
                         \* an agent has keys of its own, not those of the service
                         /\ r.key = NoKey \/ r.key[1] = "api"
  /\ UserExempt \in BOOLEAN
  /\ DeviceLists \subseteq SUBSET Devices /\ Nobody \notin Devices
  /\ Quiet \subseteq 0..MaxTime
  /\ {RingTimeout, ActiveTimeout, DefaultExpiry, BusyRetry, RetryDelay, Snooze} \subseteq Nat \ {0}
  /\ {MaxAttempts, MaxPending, DueLimit} \subseteq Nat \ {0}
  /\ {MaxPerHour, Hour, Cooldown, MaxTurns, MaxInputs, LastRequest, LastReport, MaxTime, MaxFaults,
      MaxCalls} \subseteq Nat

VARIABLES
  clock,
  calls,      \* the voice_calls table, by order of insertion
  offered,    \* voice_call_rings: <<call, phone>>
  turns,      \* voice_turns: <<call, seq>>
  engine,     \* the holder of the service's mutex and its locals
  req,        \* what each caller is at, and its locals
  allowed,    \* the configuration lets the agent call the recipient
  fallbacks,  \* SendFallback: the calls a fallback was queued for, in order
  inputs, faults  \* bounded counters

tables   == <<calls, offered, turns>>
counters == <<inputs, faults>>
vars == <<clock, tables, engine, req, allowed, fallbacks, counters>>

-----------------------------------------------------------------------------
(* The calls table.                                                        *)

States == {"scheduled", "ringing", "answered", "active", "completed", "declined",
           "missed", "expired", "failed", "cancelled"}
InProgress == {"answered", "active"}
Live       == {"ringing"} \cup InProgress
Terminal   == States \ ({"scheduled"} \cup Live)

CanTransition_LateAnswer(from, to) ==
  CASE from = "scheduled" -> to \in {"ringing", "cancelled", "expired", "failed"}
    [] from \in InProgress -> to \in {"active", "completed", "failed"} \ {from}
    [] OTHER -> to \in {"answered", "declined", "missed", "cancelled", "failed"}
CanTransition(from, to) ==
  CASE from = "scheduled" -> to \in {"ringing", "cancelled", "expired", "failed"}
    [] from = "ringing"   -> to \in {"answered", "declined", "missed", "cancelled", "failed"}
    [] from = "answered"  -> to \in {"active", "completed", "failed"}
    [] from = "active"    -> to \in {"completed", "failed"}
    [] OTHER -> FALSE

Never == -1
Rows == DOMAIN calls

WasRung(d, i) == <<i, d>> \in offered

\* A call about what c, a request or an earlier call, is about.
Scheduled(c, key, origin, attempt, at, expires) ==
  [state |-> "scheduled", message |-> c.message, exempt |-> c.exempt, test |-> c.test,
   key |-> key, origin |-> origin, attempt |-> attempt, at |-> at, expires |-> expires,
   deadline |-> Never, rang |-> Never, by |-> Nobody, seen |-> Never]

KeyTaken(key) == key # NoKey /\ \E i \in Rows : calls[i].key = key

InsertCall_Unchecked(c) == calls' = Append(calls, c)
\* InsertCall: the key is looked up in the same transaction.
InsertCall(c) == calls' = IF KeyTaken(c.key) THEN calls ELSE Append(calls, c)

\* TransitionCall to the state of c, conditional on the state in the table.
TransitionCall(i, c) ==
  /\ CanTransition(calls[i].state, c.state)
  /\ calls' = [calls EXCEPT ![i] =
                 [c EXCEPT !.seen = IF c.state \in InProgress THEN clock ELSE Never,
                           !.deadline = IF c.state = "ringing" THEN @ ELSE Never]]

To(i, state) == [calls[i] EXCEPT !.state = state]

LiveCalls == {i \in Rows : calls[i].state \in Live}
RangSince_FirstAttempts(t) == {i \in Rows : calls[i].rang >= t /\ calls[i].attempt = 1
                                              /\ calls[i].rang # Never}
RangSince(t) == {i \in Rows : calls[i].rang # Never /\ calls[i].rang >= t}

-----------------------------------------------------------------------------
(* The recipient's policy.                                                 *)

QuietEnd(t) == CHOOSE n \in (t + 1)..(MaxTime + 1) : n \notin Quiet /\ t..(n - 1) \subseteq Quiet

\* The nth latest ring time of the calls of s.
Latest(s, n) == CHOOSE t \in {calls[i].rang : i \in s} :
                  /\ Cardinality({i \in s : calls[i].rang > t}) < n
                  /\ Cardinality({i \in s : calls[i].rang >= t}) >= n

\* The agent and the user agreed on an exception for critical calls (this agent
\* has no grant for reminders), or the user asked on a call and lets reminders
\* of their own ring.
Exempt(c) == c.exempt \/ (c.origin = "user" /\ UserExempt)

Proceed == [reason |-> "none", until |-> 0]

\* Everything but expiry; live are the calls that make the recipient busy.
Limits(c, now, live) ==
  LET rate == RangSince(now - Hour)
      cool == RangSince(now - Cooldown)
  IN  IF now \in Quiet /\ ~Exempt(c) THEN [reason |-> "quiet_hours", until |-> QuietEnd(now)]
      ELSE IF live # {} THEN [reason |-> "busy", until |-> now + BusyRetry]
      ELSE IF MaxPerHour > 0 /\ Cardinality(rate) >= MaxPerHour
           THEN [reason |-> "rate_limit", until |-> Latest(rate, MaxPerHour) + Hour]
      ELSE IF Cooldown > 0 /\ cool # {}
           THEN [reason |-> "cooldown", until |-> Latest(cool, 1) + Cooldown]
      ELSE Proceed

Verdict(do, until, expires) == [do |-> do, until |-> until, expires |-> expires]

\* Quiet hours move the expiry along; any other deferral past it expires the call.
Evaluate(i, now) ==
  LET c == calls[i]
      d == Limits(c, now, LiveCalls \ {i})
  IN  IF now >= c.expires THEN Verdict("expire", 0, 0)
      ELSE IF d.reason = "none" THEN Verdict("ring", 0, 0)
      ELSE IF d.reason = "quiet_hours"
           THEN Verdict("defer", d.until, d.until + (c.expires - c.at))
      ELSE IF d.until >= c.expires THEN Verdict("expire", 0, 0)
      ELSE Verdict("defer", d.until, c.expires)

-----------------------------------------------------------------------------
Free == [at |-> "free", todo |-> {}, call |-> 0, now |-> 0, devices |-> {},
         sent |-> FALSE, verdict |-> Verdict("none", 0, 0), back |-> "free"]
Idle == [at |-> "idle", ask |-> <<>>, now |-> 0, due |-> 0, expires |-> 0, call |-> 0, seq |-> 0]

Init ==
  /\ clock = 0
  /\ calls = <<>> /\ offered = {} /\ turns = {}
  /\ engine = Free
  /\ req = [c \in Callers |-> Idle]
  /\ allowed = TRUE
  /\ fallbacks = <<>>
  /\ inputs = 0 /\ faults = 0

Advance == /\ clock < MaxTime /\ clock' = clock + 1
           /\ UNCHANGED <<tables, engine, req, allowed, fallbacks, counters>>

Fault   == faults < MaxFaults /\ faults' = faults + 1
NoFault == UNCHANGED faults

\* Somebody asks for a call, within the bounds.
Asked == clock <= LastRequest /\ inputs < MaxInputs /\ inputs' = inputs + 1

Engine(e) == engine' = e

\* RecordRing, whose error is only logged: phone d may act on call i.
RecordRing(i, d) == \/ offered' = offered \cup {<<i, d>>} /\ NoFault
                    \/ UNCHANGED offered /\ Fault

-----------------------------------------------------------------------------
(* The pass of the ticker.                                                 *)

\* The pass takes the mutex and asks for three lists in turn.  A list that is
\* empty, or whose statement fails, is passed over: the pass shows from its
\* first list that has a call.  That phase is over when the list is.
Reaches(phases) == engine.at \in {"free"} \cup phases /\ engine.todo = {}
Lists(at, s) == /\ s # {}
                /\ Engine([Free EXCEPT !.at = at, !.todo = s])
                /\ UNCHANGED <<clock, tables, req, allowed, fallbacks, counters>>

RingingPastDeadline ==
  /\ Reaches({})
  /\ Lists("missed", {i \in Rows : calls[i].state = "ringing" /\ calls[i].deadline <= clock})

StaleInProgress_ActiveOnly ==
  /\ Reaches({"missed"})
  /\ Lists("stale", {i \in Rows : /\ calls[i].state = "active"
                                  /\ calls[i].seen <= clock - ActiveTimeout})
StaleInProgress ==
  /\ Reaches({"missed"})
  /\ Lists("stale", {i \in Rows : /\ calls[i].state \in InProgress
                                  /\ calls[i].seen <= clock - ActiveTimeout})

\* The calls of s whose time comes first, at most n.
Soonest(s, n) ==
  {t \in SUBSET s : /\ Cardinality(t) <= n /\ (t # s => Cardinality(t) = n)
                    /\ \A i \in t, j \in s \ t : calls[i].at <= calls[j].at}

DueCalls ==
  /\ Reaches({"missed", "stale"})
  /\ \E t \in Soonest({i \in Rows : calls[i].state = "scheduled" /\ calls[i].at <= clock}, DueLimit) :
       Lists("dispatch", t)

PassDone ==
  /\ engine.at \in {"missed", "stale", "dispatch"} /\ engine.todo = {}
  /\ Engine(Free)
  /\ UNCHANGED <<clock, tables, req, allowed, fallbacks, counters>>

\* finish: one listed call goes to a final state, unless it has moved on or the
\* transaction fails.
Finish(i, state) ==
  LET left == [engine EXCEPT !.todo = @ \ {i}]
  IN  \/ /\ TransitionCall(i, To(i, state)) /\ NoFault
         /\ Engine([left EXCEPT !.at = "ended", !.call = i, !.back = engine.at])
      \/ /\ ~CanTransition(calls[i].state, state) /\ NoFault
         /\ Engine(left) /\ UNCHANGED calls
      \/ /\ Fault /\ Engine(left) /\ UNCHANGED calls

FinishListed ==
  /\ engine.at \in {"missed", "stale"}
  /\ \E i \in engine.todo : Finish(i, IF engine.at = "missed" THEN "missed" ELSE "failed")
  /\ UNCHANGED <<clock, offered, turns, req, allowed, fallbacks, inputs>>

\* dispatch: the next due call is judged by what the tables say now.
Dispatch ==
  /\ engine.at = "dispatch"
  /\ \E t \in Soonest(engine.todo, 1) : \E i \in t :
       \/ /\ NoFault
          /\ Engine([engine EXCEPT !.at = "act", !.todo = @ \ {i}, !.call = i, !.now = clock,
                                   !.verdict = IF allowed THEN Evaluate(i, clock)
                                               ELSE Verdict("fail", 0, 0)])
       \/ /\ Fault
          /\ Engine([engine EXCEPT !.todo = @ \ {i}])
  /\ UNCHANGED <<clock, tables, req, allowed, fallbacks, inputs>>

\* DeferCall moves a call that is still scheduled.
DeferCall(i, v) ==
  calls' = IF calls[i].state = "scheduled"
           THEN [calls EXCEPT ![i].at = v.until, ![i].expires = v.expires] ELSE calls

Act ==
  /\ engine.at = "act"
  /\ LET i    == engine.call
         v    == engine.verdict
         next == [engine EXCEPT !.at = "dispatch", !.call = 0, !.now = 0, !.verdict = Free.verdict]
         end(s) == \/ /\ TransitionCall(i, To(i, s)) /\ NoFault
                      /\ Engine([next EXCEPT !.at = "ended", !.call = i, !.back = "dispatch"])
                   \/ /\ ~CanTransition(calls[i].state, s) /\ NoFault
                      /\ Engine(next) /\ UNCHANGED calls
     IN  \/ v.do = "fail" /\ end("failed")
         \/ v.do = "expire" /\ end("expired")
         \/ v.do = "defer" /\ NoFault /\ DeferCall(i, v) /\ Engine(next)
         \/ v.do = "ring" /\ {} \in DeviceLists /\ end("failed")
         \/ /\ v.do = "ring" /\ NoFault
            /\ \E ds \in DeviceLists \ {{}} :
                 \/ /\ TransitionCall(i, [To(i, "ringing") EXCEPT
                                            !.rang = engine.now, !.deadline = engine.now + RingTimeout])
                    /\ Engine([next EXCEPT !.at = "invite", !.call = i, !.devices = ds])
                 \/ /\ calls[i].state # "scheduled"
                    /\ Engine(next) /\ UNCHANGED calls
         \/ Fault /\ Engine(next) /\ UNCHANGED calls
  /\ UNCHANGED <<clock, offered, turns, req, allowed, fallbacks, inputs>>

\* A push that goes out or not.
\* Phones report under the mutex, so nobody sees the state between the two.
Invite ==
  /\ engine.at = "invite"
  /\ \E d \in engine.devices, ok \in BOOLEAN :
       /\ Engine([engine EXCEPT !.devices = @ \ {d}, !.sent = @ \/ ok])
       /\ RecordRing(engine.call, d)
  /\ UNCHANGED <<clock, calls, turns, req, allowed, fallbacks, inputs>>

\* No phone could be rung: the call fails, unless it was cancelled meanwhile.
Invited ==
  /\ engine.at = "invite" /\ engine.devices = {}
  /\ LET i    == engine.call
         next == [engine EXCEPT !.at = "dispatch", !.call = 0, !.sent = FALSE]
     IN  \/ /\ ~engine.sent /\ NoFault
            /\ TransitionCall(i, To(i, "failed"))
            /\ Engine([next EXCEPT !.at = "ended", !.call = i, !.back = "dispatch"])
         \/ /\ engine.sent \/ ~CanTransition(calls[i].state, "failed")
            /\ NoFault /\ Engine(next) /\ UNCHANGED calls
         \/ /\ ~engine.sent /\ Fault /\ Engine(next) /\ UNCHANGED calls
  /\ UNCHANGED <<clock, offered, turns, req, allowed, fallbacks, inputs>>

-----------------------------------------------------------------------------
(* What follows from the end of a call.                                    *)

Unanswered(c) == \/ c.state \in {"missed", "expired"}
                 \/ c.state = "failed" /\ c.by = Nobody

RetryKey(i) == <<"retry", i>>

\* A missed call is tried again at a time before its expiry, while attempts are left.
Retries(c, at) == c.state = "missed" /\ c.attempt < MaxAttempts /\ at < c.expires

\* Who is told that a call went unanswered.
Tell_Missed(i, c) == IF c.state = "missed" /\ ~c.test THEN Append(fallbacks, i) ELSE fallbacks
Tell(i, c) == IF Unanswered(c) /\ ~c.test THEN Append(fallbacks, i) ELSE fallbacks

\* ended: the next attempt of a missed call, or else the fallback.  A crash
\* before this step loses both, which is also what two failures here do.
AfterEnd ==
  /\ engine.at = "ended"
  /\ LET i       == engine.call
         c       == calls[i]
         at      == clock + RetryDelay
         retries == Retries(c, at) /\ ~KeyTaken(RetryKey(i))
     IN  \/ /\ retries /\ NoFault
            /\ InsertCall(Scheduled(c, RetryKey(i), "retry", c.attempt + 1, at, c.expires))
            /\ UNCHANGED fallbacks
         \/ /\ IF retries THEN Fault ELSE NoFault
            /\ fallbacks' = Tell(i, c) /\ UNCHANGED calls
         \/ /\ ~retries /\ Fault
            /\ UNCHANGED <<calls, fallbacks>>
  /\ Engine([engine EXCEPT !.at = engine.back, !.call = 0, !.back = "free"])
  /\ UNCHANGED <<clock, offered, turns, req, allowed, inputs>>

-----------------------------------------------------------------------------
(* Phones, under the mutex.                                                *)

Reports == {"answered", "active", "declined", "missed", "completed", "failed"}

\* DeviceReport: a phone that was rung says what happened.  A report that was
\* applied already, or is no longer allowed, changes nothing.
DeviceReport(d, i, s) ==
  /\ engine.at = "free" /\ clock <= LastReport
  /\ WasRung(d, i) /\ calls[i].by \in {Nobody, d} /\ calls[i].state # s
  /\ TransitionCall(i, [To(i, s) EXCEPT !.by = IF s = "answered" THEN d ELSE @])
  /\ IF s \in Terminal THEN Engine([Free EXCEPT !.at = "ended", !.call = i])
                       ELSE UNCHANGED engine
  /\ UNCHANGED <<clock, offered, turns, req, allowed, fallbacks, counters>>

MayCallBack_WhileBusy(i) == ~calls[i].test /\ allowed
MayCallBack(i) == ~calls[i].test /\ allowed /\ LiveCalls = {}

\* CallBack: a new call about call i, answered by the phone that asks for it.
\* A repeated key returns the call that was made.
CallBack(d, i) ==
  LET key == <<"callback", d>>
  IN  /\ engine.at = "free" /\ Asked
      /\ ~KeyTaken(key) /\ MayCallBack(i)
      /\ InsertCall([Scheduled(calls[i], key, "phone", 1, clock, clock + DefaultExpiry)
                       EXCEPT !.state = "answered", !.by = d, !.seen = clock])
      /\ Engine([Free EXCEPT !.at = "callback", !.call = Len(calls) + 1, !.devices = {d}])
      /\ UNCHANGED <<clock, offered, turns, req, allowed, fallbacks, faults>>

CalledBack ==
  /\ engine.at = "callback"
  /\ \E d \in engine.devices : RecordRing(engine.call, d)
  /\ Engine(Free)
  /\ UNCHANGED <<clock, calls, turns, req, allowed, fallbacks, inputs>>

-----------------------------------------------------------------------------
(* Requests that take no mutex.                                            *)

Goto(c, l) == req' = [req EXCEPT ![c] = l]
\* What a request leaves alone, but for the calls and the bound on them.
apart == <<clock, offered, turns, engine, allowed, fallbacks, faults>>

\* CreateCall reads the time and looks for a call with the same key.
CreateCall(c, r) ==
  /\ req[c].at = "idle" /\ Asked /\ allowed
  /\ IF KeyTaken(r.key) THEN UNCHANGED req
     ELSE Goto(c, [Idle EXCEPT !.at = "duplicate", !.ask = r, !.now = clock,
                               !.due = clock + r.delay, !.expires = clock + r.delay + DefaultExpiry])
  /\ UNCHANGED <<calls, apart>>

\* CreateFromEvent: a delivery's call, which its retries ask for with one key.
CreateFromEvent(c, d) ==
  CreateCall(c, [message |-> d.message, key |-> <<"delivery", d.id>>, origin |-> "route",
                 delay |-> 0, exempt |-> FALSE, test |-> FALSE])

\* FindPendingDuplicate
FindPendingDuplicate(c) ==
  /\ req[c].at = "duplicate"
  /\ LET same == {i \in Rows : /\ calls[i].message = req[c].ask.message
                               /\ calls[i].state \in {"scheduled", "ringing"}}
     IN  Goto(c, IF same # {} THEN Idle
                 ELSE [req[c] EXCEPT !.at = IF req[c].ask.origin = "route" THEN "insert" ELSE "policy"])
  /\ UNCHANGED <<calls, inputs, apart>>

CountPending == Cardinality({i \in Rows : calls[i].state = "scheduled"})

\* CountPending against the agent's limit, and for a call that is to ring now
\* the recipient's policy: over a rate limit it is refused, in quiet hours it
\* is put off.
CheckPolicy(c) ==
  /\ req[c].at = "policy"
  /\ LET l == req[c]
         d == IF l.ask.delay > 0 THEN Proceed
              ELSE Limits([exempt |-> l.ask.exempt, origin |-> "api"], l.now, {})
     IN  Goto(c, IF \/ CountPending >= MaxPending
                    \/ d.reason \in {"rate_limit", "cooldown"}
                 THEN Idle
                 ELSE IF d.reason = "quiet_hours"
                 THEN [l EXCEPT !.at = "insert", !.due = d.until,
                                !.expires = d.until + DefaultExpiry]
                 ELSE [l EXCEPT !.at = "insert"])
  /\ UNCHANGED <<calls, inputs, apart>>

\* recordEvent and InsertCall; the event is not looked at again.
Insert(c) ==
  /\ req[c].at = "insert"
  /\ LET l == req[c]
     IN  InsertCall(Scheduled(l.ask, l.ask.key, l.ask.origin, 1, l.due, l.expires))
  /\ Goto(c, Idle)
  /\ UNCHANGED <<inputs, apart>>

\* Cancel; a cancelled call has no next attempt and no fallback.
Cancel(i) ==
  /\ clock <= LastReport
  /\ TransitionCall(i, To(i, "cancelled"))
  /\ UNCHANGED <<req, inputs, apart>>

\* Turn: the phone that answered sends the next thing that was said, maybe for
\* the second time.
Turn(c, i) ==
  /\ req[c].at = "idle" /\ clock <= LastRequest /\ Cardinality(turns) < MaxTurns
  /\ calls[i].state \in InProgress /\ WasRung(calls[i].by, i)
  /\ Goto(c, [Idle EXCEPT !.at = "turn", !.call = i, !.now = clock,
                          !.seq = Cardinality({t \in turns : t[1] = i}) + 1])
  /\ UNCHANGED <<calls, inputs, apart>>

\* apply: a snooze is a new call, put off to the end of quiet hours; whatever
\* else was said, or is refused, leaves the calls alone.
Apply(i, n, now) ==
  LET new  == Scheduled(calls[i], <<"turn", i, n>>, "user", 1, 0, 0)
      wish == now + Snooze
      at   == IF wish \in Quiet /\ ~Exempt(new) THEN QuietEnd(wish) ELSE wish
  IN  {<<>>, <<[new EXCEPT !.at = at, !.expires = at + DefaultExpiry]>>}

\* RecordTurn, once it has been interpreted: the turn, the activity and a
\* snooze that was asked for are written together, whatever has become of the
\* call; a turn that is there already has been answered.
RecordTurn(c) ==
  /\ req[c].at = "turn" /\ clock <= LastReport /\ Goto(c, Idle)
  /\ LET i       == req[c].call
         n       == req[c].seq
         touched == [calls EXCEPT ![i].seen = IF calls[i].state \in InProgress THEN clock ELSE @]
     IN  IF <<i, n>> \in turns THEN UNCHANGED <<calls, turns, inputs>>
         ELSE /\ turns' = turns \cup {<<i, n>>}
              /\ \E followUp \in Apply(i, n, req[c].now) :
                   /\ calls' = touched \o followUp
                   /\ inputs' = inputs + Len(followUp) /\ inputs' <= MaxInputs
  /\ UNCHANGED <<clock, offered, engine, allowed, fallbacks, faults>>

\* A statement fails and the request is answered with an error.
Fail(c) ==
  /\ req[c].at # "idle" /\ Fault
  /\ Goto(c, Idle)
  /\ UNCHANGED <<clock, tables, engine, allowed, fallbacks, inputs>>

\* The process dies, and starts again with a configuration that may differ.
Crash ==
  /\ Fault
  /\ engine' = Free /\ req' = [c \in Callers |-> Idle]
  /\ allowed' \in BOOLEAN
  /\ UNCHANGED <<clock, tables, fallbacks, inputs>>

-----------------------------------------------------------------------------
Pass == \/ RingingPastDeadline \/ FinishListed \/ StaleInProgress \/ DueCalls \/ PassDone
        \/ Dispatch \/ Act \/ Invite \/ Invited \/ AfterEnd \/ CalledBack

Phone == \E d \in Devices, i \in Rows : \/ \E s \in Reports : DeviceReport(d, i, s)
                                        \/ CallBack(d, i)

Request(c) == \/ \E r \in Requests : CreateCall(c, r)
              \/ \E d \in Deliveries : CreateFromEvent(c, d)
              \/ FindPendingDuplicate(c) \/ CheckPolicy(c) \/ Insert(c)
              \/ \E i \in Rows : Turn(c, i)
              \/ RecordTurn(c) \/ Fail(c)

Next == \/ Advance \/ Pass \/ Phone \/ Crash
        \/ \E i \in Rows : Cancel(i)
        \/ \E c \in Callers : Request(c)

Spec == Init /\ [][Next]_vars

(* The ticker's goroutine goes on and the clock does; the database answers. *)
FairSpec == Spec /\ WF_vars(Pass) /\ WF_vars(Advance)

-----------------------------------------------------------------------------
(* Properties.                                                             *)

(* The recipient is on at most one call: while a phone rings or talks, no other
   call starts to ring and none is called back. *)
OneLiveCall == Cardinality(LiveCalls) <= 1

Consequences(i) == Cardinality({j \in Rows : calls[j].key = RetryKey(i)})
                   + Cardinality({n \in DOMAIN fallbacks : fallbacks[n] = i})

(* Somebody who did not answer is tried again or told through the fallback,
   never both and never twice; nobody else is; and without a failing statement
   or a crash nobody is forgotten. *)
OneConsequence ==
  \A i \in Rows :
    /\ Consequences(i) <= 1
    /\ Consequences(i) = 1 => Unanswered(calls[i])
    /\ faults = 0 /\ Unanswered(calls[i]) /\ ~calls[i].test
         => Consequences(i) = 1 \/ (engine.at = "ended" /\ engine.call = i)

(* By the time each call rang: never in quiet hours without an exception, before
   its expiry, at most MaxPerHour calls in an hour, and Cooldown apart. *)
PolicyKept ==
  LET rung == {i \in Rows : calls[i].rang # Never}
  IN  \A i \in rung :
        /\ calls[i].rang < calls[i].expires
        /\ calls[i].rang \in Quiet => Exempt(calls[i])
        /\ MaxPerHour > 0 => Cardinality({j \in rung : calls[j].rang - calls[i].rang \in 0..(Hour - 1)})
                               <= MaxPerHour
        /\ \A j \in rung \ {i} : calls[j].rang - calls[i].rang \notin 0..(Cooldown - 1)

(* An idempotency key names one call, over requests that race, retries of the
   engine and turns sent twice. *)
OneCallPerKey ==
  \A i, j \in Rows : calls[i].key = calls[j].key /\ calls[i].key # NoKey => i = j

(* A call that has ended stays as it ended, and the phone that answered stays
   the one: no late or second report, sweep or cancellation changes it. *)
FinalIsFinal ==
  [][\A i \in Rows : /\ calls[i].state \in Terminal => calls'[i] = calls[i]
                     /\ calls[i].by # Nobody => calls'[i].by = calls[i].by]_vars

(* Every call ends: rung, put off, answered or forgotten by its phone. *)
EveryCallEnds ==
  \A i \in 1..MaxCalls : (i \in Rows) ~> (i \in Rows /\ calls[i].state \in Terminal)

(* service.go, Tick: "Everything it acts on is read from the database, so a
   restart resumes exactly where it stopped".  Somebody who did not answer is
   tried again or told, as soon as the pass that found out is over. *)
NobodyForgotten ==
  \A i \in Rows : Unanswered(calls[i]) /\ ~calls[i].test /\ engine.at = "free" => Consequences(i) = 1
=============================================================================
