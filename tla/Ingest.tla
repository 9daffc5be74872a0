------------------------------- MODULE Ingest -------------------------------
(***************************************************************************)
(* Ingestion: Process of src/internal/notifier/notifier.go under           *)
(* concurrent requests, and Deliver of direct.go, which plugins call.      *)
(*                                                                         *)
(* One caller is one goroutine with its request.  Every statement it sends *)
(* to the database is a step of its own, any of them may fail (an error, a *)
(* cancelled request), and the process may die between two of them.  What  *)
(* keeps the read-decide-write sequences of two requests apart is the      *)
(* mutex of the fingerprint.                                               *)
(***************************************************************************)
EXTENDS Dedupe, Sequences, FiniteSets

CONSTANTS
  Callers, Fingerprints, Providers,
  Matched,      \* Matched[status]: the route lists ListRoutes and Match may give;
                \* a route need not match every status
  DirectLists,  \* the provider lists plugins deliver to
  Free,         \* no caller
  MaxEvents,    \* bound: requests that arrive
  MaxTime,      \* bound: clock
  MaxFaults     \* bound: failing statements and crashes

\* Every route of every list.
Routes == UNION {{m[n] : n \in DOMAIN m} : m \in UNION {Matched[s] : s \in Statuses}}
RouteNames == {r.name : r \in Routes}
Keys == Fingerprints \X RouteNames

ASSUME IngestAssumption ==
  /\ Matched \in [Statuses -> SUBSET Seq([name : RouteNames, policy : [window : Int, repeat : Int],
                                          providers : Seq(Providers)])]
  /\ \A s \in Statuses : \A m \in Matched[s] : \* the name is the key of the routes table
       \A a, b \in DOMAIN m : m[a].name = m[b].name => a = b
  /\ DirectLists \subseteq Seq(Providers)
  /\ Fingerprints # {} /\ IsFiniteSet(Callers)
  /\ DefaultWindow \in Int /\ DefaultRepeat \in Int
  /\ MaxEvents \in Nat /\ MaxTime \in Nat /\ MaxFaults \in Nat
  /\ Free \notin Callers

VARIABLES
  clock,       \* the wall clock
  call,        \* what each caller is at, and its locals
  lock,        \* fpLocks: the caller that holds the mutex of a fingerprint
  events,      \* the events table: ids 1..events
  state,       \* the states table
  dedup,       \* route_dedup
  deliveries,  \* the deliveries enqueued, in order
  arrived, faults,  \* bounded counters
  decided,     \* history: decisions per fingerprint and route
  owed         \* history: deliveries that a decision to notify asked for

tables  == <<events, state, dedup, deliveries>>
history == <<decided, owed>>
vars == <<clock, call, lock, tables, arrived, faults, history>>

Unseen == [known |-> FALSE, active |-> FALSE, first |-> 0, last |-> 0]

Idle == [pc |-> "idle", direct |-> FALSE, fp |-> CHOOSE f \in Fingerprints : TRUE,
         status |-> "none", now |-> 0, event |-> 0, was |-> Unseen,
         todo |-> <<>>, prev |-> NoRecord, pending |-> <<>>, seen |-> {}]

Init ==
  /\ clock = 0
  /\ call = [c \in Callers |-> Idle]
  /\ lock = [f \in Fingerprints |-> Free]
  /\ events = 0
  /\ state = [f \in Fingerprints |-> Unseen]
  /\ dedup = [k \in Keys |-> NoRecord]
  /\ deliveries = <<>>
  /\ arrived = 0 /\ faults = 0
  /\ decided = [k \in Keys |-> <<>>]
  /\ owed = {}

\* Caller c goes on as the locals l.
Goto(c, l) == call' = [call EXCEPT ![c] = l]

Tick == /\ clock < MaxTime /\ clock' = clock + 1
        /\ UNCHANGED <<call, lock, tables, arrived, faults, history>>

-----------------------------------------------------------------------------
(* Process.                                                                *)

\* The time is read before the mutex is taken.
Begin(c, f, s) ==
  /\ call[c].pc = "idle" /\ arrived < MaxEvents /\ arrived' = arrived + 1
  /\ Goto(c, [Idle EXCEPT !.pc = "lock", !.fp = f, !.status = s, !.now = clock])
  /\ UNCHANGED <<clock, lock, tables, faults, history>>

Lock_Ignored(c) ==
  /\ call[c].pc = "lock"
  /\ lock' = [lock EXCEPT ![call[c].fp] = c]
  /\ Goto(c, [call[c] EXCEPT !.pc = "insert"])
  /\ UNCHANGED <<clock, tables, arrived, faults, history>>
Lock(c) ==
  /\ call[c].pc = "lock" /\ lock[call[c].fp] = Free
  /\ lock' = [lock EXCEPT ![call[c].fp] = c]
  /\ Goto(c, [call[c] EXCEPT !.pc = "insert"])
  /\ UNCHANGED <<clock, tables, arrived, faults, history>>

InsertEvent(c) ==
  /\ call[c].pc = "insert"
  /\ events' = events + 1
  /\ Goto(c, [call[c] EXCEPT !.pc = IF call[c].direct THEN "enqueue" ELSE "getState",
                             !.event = events + 1])
  /\ UNCHANGED <<clock, lock, state, dedup, deliveries, arrived, faults, history>>

GetState(c) ==
  /\ call[c].pc = "getState"
  /\ Goto(c, [call[c] EXCEPT !.pc = "upsertState", !.was = state[call[c].fp]])
  /\ UNCHANGED <<clock, lock, tables, arrived, faults, history>>

\* A stateless event keeps the flag.
ComputeActive_StatelessClears(status, was) == status = "firing"
ComputeActive(status, was) ==
  status = "firing" \/ (status # "resolved" /\ was.known /\ was.active)

\* The statement keeps the first_seen of an existing row.
StoreState(f, st) ==
  state' = [state EXCEPT ![f] = [st EXCEPT !.first = IF state[f].known THEN state[f].first ELSE @]]

UpsertState(c) ==
  /\ call[c].pc = "upsertState"
  /\ LET l == call[c]
     IN  /\ StoreState(l.fp, [known |-> TRUE, active |-> ComputeActive(l.status, l.was),
                              first |-> l.now, last |-> l.now])
         /\ Goto(c, [l EXCEPT !.pc = "routes"])
  /\ UNCHANGED <<clock, lock, events, dedup, deliveries, arrived, faults, history>>

ListRoutes(c) ==
  /\ call[c].pc = "routes"
  /\ \E m \in Matched[call[c].status] : Goto(c, [call[c] EXCEPT !.pc = "next", !.todo = m])
  /\ UNCHANGED <<clock, lock, tables, arrived, faults, history>>

\* The next route of the list, read outside of the statement that writes it.
GetRouteDedup(c) ==
  /\ call[c].pc = "next" /\ call[c].todo # <<>>
  /\ LET l == call[c]
     IN  Goto(c, [l EXCEPT !.pc = "decide", !.prev = dedup[<<l.fp, Head(l.todo).name>>]])
  /\ UNCHANGED <<clock, lock, tables, arrived, faults, history>>

StoreDedup(k, record) == dedup' = [dedup EXCEPT ![k] = record]

\* Decide and UpsertRouteDedup; a decision to notify asks for a delivery to
\* each provider of the route.
UpsertRouteDedup(c) ==
  /\ call[c].pc = "decide"
  /\ LET l      == call[c]
         r      == Head(l.todo)
         k      == <<l.fp, r.name>>
         pol    == EffectivePolicy(r.policy)
         notify == Notifies(l.status, l.prev, pol, l.now)
     IN  /\ StoreDedup(k, NextRecord(l.status, l.prev, pol, l.now))
         /\ decided' = [decided EXCEPT ![k] =
                          Append(@, [status |-> l.status, policy |-> r.policy,
                                     at |-> l.now, notified |-> notify])]
         /\ IF notify
            THEN /\ Goto(c, [l EXCEPT !.pc = "enqueue", !.pending = r.providers])
                 /\ owed' = owed \cup {[event |-> l.event, provider |-> r.providers[n]] :
                                         n \in DOMAIN r.providers}
            ELSE /\ Goto(c, [l EXCEPT !.pc = "next", !.todo = Tail(@)])
                 /\ UNCHANGED owed
  /\ UNCHANGED <<clock, lock, events, state, deliveries, arrived, faults>>

\* The event has a delivery to this provider already.
Skips(l) == Head(l.pending) \in l.seen

Enqueue_StopsAtSeen(c) ==
  /\ call[c].pc = "enqueue" /\ call[c].pending # <<>>
  /\ LET l == call[c]
         p == Head(l.pending)
     IN  IF Skips(l)
         THEN Goto(c, [l EXCEPT !.pending = <<>>]) /\ UNCHANGED deliveries
         ELSE /\ deliveries' = Append(deliveries,
                                      [event |-> l.event, fp |-> l.fp, provider |-> p])
              /\ Goto(c, [l EXCEPT !.pending = Tail(@), !.seen = @ \cup {p}])
  /\ UNCHANGED <<clock, lock, events, state, dedup, arrived, faults, history>>
Enqueue(c) ==
  /\ call[c].pc = "enqueue" /\ call[c].pending # <<>>
  /\ LET l == call[c]
         p == Head(l.pending)
     IN  /\ deliveries' = IF Skips(l) THEN deliveries
                          ELSE Append(deliveries,
                                      [event |-> l.event, fp |-> l.fp, provider |-> p])
         /\ Goto(c, [l EXCEPT !.pending = Tail(@), !.seen = @ \cup {p}])
  /\ UNCHANGED <<clock, lock, events, state, dedup, arrived, faults, history>>

RouteDone(c) ==
  /\ call[c].pc = "enqueue" /\ call[c].pending = <<>> /\ ~call[c].direct
  /\ Goto(c, [call[c] EXCEPT !.pc = "next", !.todo = Tail(@)])
  /\ UNCHANGED <<clock, lock, tables, arrived, faults, history>>

\* The deferred unlock.
Release(c) == lock' = [f \in Fingerprints |-> IF lock[f] = c THEN Free ELSE lock[f]]

Return(c) ==
  /\ \/ call[c].pc = "next" /\ call[c].todo = <<>>
     \/ call[c].pc = "enqueue" /\ call[c].pending = <<>> /\ call[c].direct
  /\ Goto(c, Idle) /\ Release(c)
  /\ UNCHANGED <<clock, tables, arrived, faults, history>>

\* Places with a statement to send.
AtStatement(l) ==
  \/ l.pc \in {"insert", "getState", "upsertState", "routes", "decide"}
  \/ l.pc = "next" /\ l.todo # <<>>
  \/ l.pc = "enqueue" /\ l.pending # <<>> /\ ~Skips(l)

Fault == faults < MaxFaults /\ faults' = faults + 1

Fail_KeepsLock(c) ==
  /\ AtStatement(call[c]) /\ Fault
  /\ Goto(c, Idle)
  /\ UNCHANGED <<clock, lock, tables, arrived, history>>
\* The statement fails: Process and Deliver return the error, what was written
\* before stays.
Fail(c) ==
  /\ AtStatement(call[c]) /\ Fault
  /\ Goto(c, Idle) /\ Release(c)
  /\ UNCHANGED <<clock, tables, arrived, history>>

-----------------------------------------------------------------------------
\* Deliver: no routes, no deduplication, no mutex.
Deliver(c, ps) ==
  /\ call[c].pc = "idle" /\ arrived < MaxEvents /\ arrived' = arrived + 1 /\ ps # <<>>
  /\ Goto(c, [Idle EXCEPT !.pc = "insert", !.direct = TRUE, !.now = clock, !.pending = ps])
  /\ UNCHANGED <<clock, lock, tables, faults, history>>

\* The process dies and starts again; the tables survive.
Crash ==
  /\ Fault
  /\ call' = [c \in Callers |-> Idle]
  /\ lock' = [f \in Fingerprints |-> Free]
  /\ UNCHANGED <<clock, tables, arrived, history>>

-----------------------------------------------------------------------------
Statement(c) == \/ InsertEvent(c) \/ GetState(c) \/ UpsertState(c) \/ ListRoutes(c)
                \/ GetRouteDedup(c) \/ UpsertRouteDedup(c) \/ Enqueue(c)

Step(c) == Lock(c) \/ Statement(c) \/ RouteDone(c) \/ Return(c) \/ Fail(c)

Arrive(c) == \/ \E f \in Fingerprints, s \in Statuses : Begin(c, f, s)
             \/ \E ps \in DirectLists : Deliver(c, ps)

Next == Tick \/ Crash \/ \E c \in Callers : Arrive(c) \/ Step(c)

Spec == Init /\ [][Next]_vars

(* A goroutine goes on, and the mutex is handed to a waiter in the end; events
   need not arrive. *)
FairSpec == Spec /\ \A c \in Callers : WF_vars(Step(c))

-----------------------------------------------------------------------------
(* Properties.                                                             *)

(* A provider gets one delivery per event, over however many routes and however
   often a route or a plugin names it. *)
OneDeliveryPerProvider ==
  \A m, n \in DOMAIN deliveries :
    deliveries[m].event = deliveries[n].event /\ deliveries[m].provider = deliveries[n].provider
      => m = n

InProgress(e) == \E c \in Callers : call[c].pc # "idle" /\ call[c].event = e

(* Without a failing statement or a crash, a decision to notify that has been
   written down leads to its deliveries, once the request is through: one for
   each provider. *)
OwedIsQueued ==
  /\ OneDeliveryPerProvider
  /\ faults = 0 => \A o \in owed : \/ InProgress(o.event)
                                   \/ \E n \in DOMAIN deliveries :
                                        /\ deliveries[n].event = o.event
                                        /\ deliveries[n].provider = o.provider

(* README, Deduplication: "firing -> notify once".  A fingerprint that a route
   takes as firing, and suppresses from then on, has been announced: a delivery
   was queued, or the request is still working on it. *)
FiringIsAnnounced ==
  \A k \in Keys : dedup[k].active /\ lock[k[1]] = Free =>
    \E n \in DOMAIN deliveries : deliveries[n].fp = k[1]

\* The route matches every resolved event, whatever else it matches.
SeesResolves(name) ==
  \A m \in Matched["resolved"] : \E n \in DOMAIN m : m[n].name = name

(* README, Deduplication: "suppressed while still firing".  Unless a statement
   has failed, a route suppresses a firing event only if the alert was firing
   before it, as the states table has it.  That is so for the routes that match
   the resolved events of the alert too: one with a match on status or severity
   may miss the resolve, and then takes the next firing for the same one. *)
SuppressedOnlyWhileFiring ==
  [][\A c \in Callers :
       LET l == call[c]
       IN  faults' = 0 /\ l.pc = "decide" /\ l.status = "firing"
           /\ SeesResolves(Head(l.todo).name) /\ call'[c].pc = "next"
             => l.was.active]_vars

(* A request that arrived is answered: no error path and no other request keeps
   the mutex of its fingerprint. *)
EveryRequestReturns == \A c \in Callers : call[c].pc = "lock" ~> call[c].pc = "idle"

(* Concurrent requests decide as if they came one after the other: the dedup
   table and the decisions are those of DedupHistory, so its rules hold. *)
Serial == INSTANCE DedupHistory WITH
  rec <- dedup, hist <- decided, Times <- 0..MaxTime, MaxHistory <- MaxEvents,
  Policies <- {r.policy : r \in Routes}

DecidesSerially == Serial!Spec
=============================================================================
