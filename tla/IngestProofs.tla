---------------------------- MODULE IngestProofs ----------------------------
(***************************************************************************)
(* Theorems about Ingest, for every number of concurrent requests,         *)
(* fingerprints, routes and providers, wherever a statement fails or the   *)
(* process dies.                                                           *)
(***************************************************************************)
EXTENDS Ingest, FiniteSetTheorems, TLAPS

-----------------------------------------------------------------------------
(* The invariants.                                                         *)

Places == {"idle", "lock", "insert", "getState", "upsertState", "routes", "next",
           "decide", "enqueue"}
Policies   == [window : Int, repeat : Int]
States     == [known : BOOLEAN, active : BOOLEAN, first : 0..MaxTime, last : 0..MaxTime]
Records    == [active : BOOLEAN, notified : 0..MaxTime \cup {Never}]
Decisions  == [status : Statuses, policy : Policies, at : 0..MaxTime, notified : BOOLEAN]
Deliveries == [event : Nat, fp : Fingerprints, provider : Providers]
Locals     == [pc : Places, direct : BOOLEAN, fp : Fingerprints, status : Statuses,
               now : 0..MaxTime, event : Nat, was : States, todo : Seq(Routes),
               prev : Records, pending : Seq(Providers), seen : SUBSET Providers]

TypeOK ==
  /\ clock \in 0..MaxTime
  /\ call \in [Callers -> Locals]
  /\ lock \in [Fingerprints -> Callers \cup {Free}]
  /\ events \in Nat
  /\ state \in [Fingerprints -> States]
  /\ dedup \in [Keys -> Records]
  /\ deliveries \in Seq(Deliveries)
  /\ arrived \in 0..MaxEvents /\ faults \in 0..MaxFaults
  /\ decided \in [Keys -> Seq(Decisions)]
  /\ owed \subseteq [event : Nat, provider : Providers]

\* What is true of the locals of a caller wherever it is.
Flow(l) ==
  /\ l.direct => l.pc \in {"insert", "enqueue"}
  /\ l.pc \in {"idle", "lock", "insert"} => l.seen = {}
  /\ l.pc = "decide" \/ (l.pc = "enqueue" /\ ~l.direct) => l.todo # <<>>
  /\ \A a, b \in DOMAIN l.todo : l.todo[a].name = l.todo[b].name => a = b

FlowInv == \A c \in Callers : Flow(call[c])

\* Process is past the mutex.
Serving(l) == ~l.direct /\ l.pc \notin {"idle", "lock"}

MutexInv == \A c \in Callers : Serving(call[c]) => lock[call[c].fp] = c

\* The record that a decision is about to be made from is not stale.
PrevInv == \A c \in Callers :
  LET l == call[c]
  IN  l.pc = "decide" => l.prev = dedup[<<l.fp, Head(l.todo).name>>]

Base == TypeOK /\ FlowInv /\ MutexInv /\ PrevInv

Names(s) == {s[n].name : n \in DOMAIN s}

\* The routes that a caller has not decided yet, as far as one knows.
Remaining(l) ==
  IF l.direct \/ l.pc = "idle" THEN {}
  ELSE IF l.pc \in {"lock", "insert", "getState", "upsertState", "routes"} THEN RouteNames
  ELSE IF l.pc = "enqueue" THEN Names(Tail(l.todo)) ELSE Names(l.todo)

Deciders(k) == {c \in Callers : call[c].fp = k[1] /\ k[2] \in Remaining(call[c])}

\* Each request decides once for a route.
CountInv == \A k \in Keys : Len(decided[k]) + Cardinality(Deciders(k)) <= arrived

\* The caller's event has its number.
Numbered(l) == l.pc \notin {"idle", "lock", "insert"}

QueuedIn(ds, e, p) == \E n \in DOMAIN ds : ds[n].event = e /\ ds[n].provider = p
Queued(e, p) == QueuedIn(deliveries, e, p)

\* Each event has one caller at most, who knows its deliveries.
EventInv ==
  /\ \A c \in Callers : Numbered(call[c]) => call[c].event \in 1..events
  /\ \A c, d \in Callers : Numbered(call[c]) /\ Numbered(call[d])
                           /\ call[c].event = call[d].event => c = d
  /\ \A n \in DOMAIN deliveries : deliveries[n].event \in 1..events
  /\ \A c \in Callers, n \in DOMAIN deliveries :
       Numbered(call[c]) /\ deliveries[n].event = call[c].event
         => deliveries[n].provider \in call[c].seen
  /\ OneDeliveryPerProvider

\* What is owed is queued, or on the list of its caller.
OwedInv ==
  /\ \A c \in Callers : \A p \in call[c].seen : Queued(call[c].event, p)
  /\ faults = 0 => \A o \in owed :
       \/ Queued(o.event, o.provider)
       \/ \E c \in Callers : /\ call[c].pc = "enqueue" /\ call[c].event = o.event
                             /\ o.provider \in Range(call[c].pending)

\* Past the states table.
Routing(l) == ~l.direct /\ l.pc \in {"routes", "next", "decide", "enqueue"}

\* A record says firing only if the states table does, or its resolve is under way.
FlagInv == faults = 0 =>
  /\ \A f \in Fingerprints : state[f].active => state[f].known
  /\ \A c \in Callers : call[c].was.active => call[c].was.known
  /\ \A c \in Callers : Routing(call[c]) /\ call[c].status = "firing"
                          => state[call[c].fp].active
  /\ \A k \in Keys : SeesResolves(k[2]) /\ dedup[k].active =>
       \/ state[k[1]].active
       \/ \E c \in Callers : /\ Routing(call[c]) /\ call[c].status = "resolved"
                             /\ call[c].fp = k[1] /\ k[2] \in Remaining(call[c])
  /\ \A c \in Callers, r \in RouteNames :
       /\ Routing(call[c]) \/ call[c].pc = "upsertState"
       /\ SeesResolves(r) /\ r \in Remaining(call[c]) /\ dedup[<<call[c].fp, r>>].active
       => call[c].was.active

-----------------------------------------------------------------------------
(* Routes, locals and sequences.                                           *)

\* What the assumptions say of routes and names.
LEMMA Parameters ==
  /\ \A s \in Statuses : \A m \in Matched[s] :
       m \in Seq(Routes) /\ \A a, b \in DOMAIN m : m[a].name = m[b].name => a = b
  /\ \A r \in Routes : /\ r.name \in RouteNames /\ r.policy \in Policies
                        /\ r.providers \in Seq(Providers)
  /\ \A ps \in DirectLists : ps \in Seq(Providers)
  <1> DEFINE R == [name : RouteNames, policy : [window : Int, repeat : Int],
                   providers : Seq(Providers)]
  <1>1. \A s \in Statuses : \A m \in Matched[s] :
          m \in Seq(R) /\ \A a, b \in DOMAIN m : m[a].name = m[b].name => a = b
    BY IngestAssumption DEF IngestAssumption
  <1>2. ASSUME NEW s \in Statuses, NEW m \in Matched[s]
        PROVE  m \in Seq(Routes)
    <2>1. m \in UNION {Matched[t] : t \in Statuses}
      BY <1>2
    <2>2. {m[n] : n \in DOMAIN m} \subseteq Routes
      BY <2>1 DEF Routes
    <2>3. m \in Seq(R) /\ \A n \in DOMAIN m : m[n] \in Routes
      BY <1>1, <2>2
    <2> HIDE DEF R
    <2>4. m \in [1..Len(m) -> Routes] /\ Len(m) \in Nat
      BY <2>3
    <2> QED BY <2>4
  <1>3. ASSUME NEW r \in Routes
        PROVE  r \in R
    <2>1. PICK m \in UNION {Matched[s] : s \in Statuses} : r \in {m[n] : n \in DOMAIN m}
      BY DEF Routes
    <2>2. PICK s \in Statuses : m \in Matched[s]
      BY <2>1
    <2>3. m \in Seq(R)
      BY <1>1, <2>2
    <2> HIDE DEF R
    <2> QED BY <2>1, <2>3
  <1>4. \A ps \in DirectLists : ps \in Seq(Providers)
    BY IngestAssumption DEF IngestAssumption
  <1> QED BY <1>1, <1>2, <1>3, <1>4 DEF Policies

\* The locals of a caller without a request.
LEMMA IdleLocals ==
  /\ Idle \in Locals /\ Flow(Idle) /\ Idle.pc = "idle" /\ ~Idle.direct
  /\ Unseen \in States /\ NoRecord \in Records
  <1>1. MaxTime \in Nat /\ (CHOOSE f \in Fingerprints : TRUE) \in Fingerprints
    BY IngestAssumption DEF IngestAssumption
  <1>2. Unseen \in States /\ NoRecord \in Records
    BY <1>1 DEF Unseen, States, NoRecord, Records, Never
  <1>3. Idle \in Locals
    BY <1>1, <1>2 DEF Idle, Locals, Places, Statuses
  <1>4. Flow(Idle) /\ Idle.pc = "idle" /\ ~Idle.direct
    BY DEF Idle, Flow
  <1> QED BY <1>2, <1>3, <1>4

\* The route at the head of a list that names each one once.
LEMMA TailNames ==
  ASSUME NEW s \in Seq(Routes), s # <<>>,
         \A a, b \in DOMAIN s : s[a].name = s[b].name => a = b
  PROVE  /\ Head(s) \in Routes /\ Tail(s) \in Seq(Routes)
         /\ \A a, b \in DOMAIN Tail(s) : Tail(s)[a].name = Tail(s)[b].name => a = b
         /\ Head(s).name \in Names(s)
         /\ Names(Tail(s)) = Names(s) \ {Head(s).name}
  <1>1. /\ Len(s) \in Nat \ {0} /\ Head(s) = s[1] /\ Tail(s) \in Seq(Routes)
        /\ DOMAIN s = 1..Len(s) /\ DOMAIN Tail(s) = 1..(Len(s) - 1)
        /\ \A n \in DOMAIN Tail(s) : Tail(s)[n] = s[n + 1]
    OBVIOUS
  <1>2. \A n \in DOMAIN Tail(s) : n + 1 \in DOMAIN s /\ n + 1 # 1
    BY <1>1
  <1>3. \A n \in DOMAIN s : n # 1 => n - 1 \in DOMAIN Tail(s) /\ (n - 1) + 1 = n
    BY <1>1
  <1>4. \A a, b \in DOMAIN Tail(s) : Tail(s)[a].name = Tail(s)[b].name => a = b
    BY <1>1, <1>2
  <1>5. Names(Tail(s)) \subseteq Names(s) \ {Head(s).name}
    BY <1>1, <1>2 DEF Names
  <1>6. Names(s) \ {Head(s).name} \subseteq Names(Tail(s))
    BY <1>1, <1>3 DEF Names
  <1>7. 1 \in DOMAIN s /\ Head(s) \in Routes /\ Head(s).name \in Names(s)
    BY <1>1 DEF Names
  <1> QED BY <1>1, <1>4, <1>5, <1>6, <1>7

\* A caller goes on, the others stay where they are.
LEMMA OneCaller ==
  ASSUME call \in [Callers -> Locals], NEW c \in Callers, NEW l \in Locals, Goto(c, l)
  PROVE  /\ call' \in [Callers -> Locals] /\ call'[c] = l
         /\ \A d \in Callers : d # c => call'[d] = call[d]
  BY DEF Goto

-----------------------------------------------------------------------------
(* The mutex keeps the record that a decision reads.                       *)

\* A step of one caller, as far as the mutex and the records go.
LEMMA StepKeepsBase ==
  ASSUME Base, TypeOK', NEW c \in Callers, NEW l \in Locals, Goto(c, l), Flow(l),
         \A f \in Fingerprints : lock[f] \notin {c, Free} => lock'[f] = lock[f],
         Serving(l) => lock'[l.fp] = c,
         \A d \in Callers : d # c /\ call[d].pc = "decide" =>
           LET k == <<call[d].fp, Head(call[d].todo).name>> IN dedup'[k] = dedup[k],
         l.pc = "decide" => l.prev = dedup'[<<l.fp, Head(l.todo).name>>]
  PROVE  Base'
  <1> USE DEF Base
  <1>1. /\ call' \in [Callers -> Locals] /\ call'[c] = l
        /\ \A d \in Callers : d # c => call'[d] = call[d]
    BY OneCaller DEF TypeOK
  <1>2. FlowInv'
    BY <1>1 DEF FlowInv
  <1>3. MutexInv'
    <2> SUFFICES ASSUME NEW d \in Callers, Serving(call'[d])
                 PROVE  lock'[call'[d].fp] = d
      BY DEF MutexInv
    <2>1. CASE d = c
      BY <1>1, <2>1
    <2>2. CASE d # c
      <3>1. call'[d] = call[d] /\ lock[call[d].fp] = d /\ call[d].fp \in Fingerprints
        BY <1>1, <2>2 DEF MutexInv, TypeOK, Locals
      <3> QED BY <3>1, <2>2, IngestAssumption DEF IngestAssumption
    <2> QED BY <2>1, <2>2
  <1>4. PrevInv'
    BY <1>1 DEF PrevInv
  <1> QED BY <1>2, <1>3, <1>4

\* Before the first event.
LEMMA InitBase == Init => Base
  <1> SUFFICES ASSUME Init PROVE Base
    OBVIOUS
  <1>1. MaxTime \in Nat /\ MaxEvents \in Nat /\ MaxFaults \in Nat
    BY IngestAssumption DEF IngestAssumption
  <1>2. TypeOK
    BY <1>1, IdleLocals DEF Init, TypeOK
  <1>3. \A c \in Callers : call[c] = Idle
    BY DEF Init
  <1>4. FlowInv /\ MutexInv /\ PrevInv
    BY <1>3, IdleLocals DEF FlowInv, MutexInv, PrevInv, Serving
  <1> QED BY <1>2, <1>4 DEF Base

\* A request arrives, or waits for its mutex.
LEMMA BaseArrive ==
  ASSUME Base, NEW c \in Callers, Arrive(c) \/ Lock(c)
  PROVE  Base'
  <1> USE DEF Base
  <1>0. MaxTime \in Nat /\ MaxEvents \in Nat /\ MaxFaults \in Nat /\ Free \notin Callers
    BY IngestAssumption DEF IngestAssumption
  <1>1. ASSUME NEW f \in Fingerprints, NEW s \in Statuses, Begin(c, f, s)
        PROVE  Base'
    <2> DEFINE l == [Idle EXCEPT !.pc = "lock", !.fp = f, !.status = s, !.now = clock]
    <2>1. l \in Locals
      BY IdleLocals DEF Locals, Places, TypeOK
    <2>2. l.pc = "lock" /\ ~l.direct /\ l.seen = {} /\ l.todo = <<>>
      BY DEF Idle
    <2>3. Flow(l) /\ ~Serving(l)
      BY <2>2 DEF Flow, Serving
    <2>4. Goto(c, l)
      BY <1>1 DEF Begin
    <2> HIDE DEF l
    <2>5. call' \in [Callers -> Locals]
      BY <2>1, <2>4, OneCaller DEF TypeOK
    <2>6. TypeOK'
      BY <1>0, <1>1, <2>5 DEF TypeOK, Begin, tables, history
    <2> QED BY <2>1, <2>2, <2>3, <2>4, <2>6, <1>1, StepKeepsBase DEF Begin, tables
  <1>2. ASSUME NEW ps \in DirectLists, Deliver(c, ps)
        PROVE  Base'
    <2> DEFINE l == [Idle EXCEPT !.pc = "insert", !.direct = TRUE, !.now = clock,
                                 !.pending = ps]
    <2>1. l \in Locals
      BY IdleLocals, Parameters DEF Locals, Places, TypeOK
    <2>2. l.pc = "insert" /\ l.direct /\ l.seen = {} /\ l.todo = <<>>
      BY DEF Idle
    <2>3. Flow(l) /\ ~Serving(l)
      BY <2>2 DEF Flow, Serving
    <2>4. Goto(c, l)
      BY <1>2 DEF Deliver
    <2> HIDE DEF l
    <2>5. call' \in [Callers -> Locals]
      BY <2>1, <2>4, OneCaller DEF TypeOK
    <2>6. TypeOK'
      BY <1>0, <1>2, <2>5 DEF TypeOK, Deliver, tables, history
    <2> QED BY <2>1, <2>2, <2>3, <2>4, <2>6, <1>2, StepKeepsBase DEF Deliver, tables
  <1>3. CASE Lock(c)
    <2> DEFINE l == [call[c] EXCEPT !.pc = "insert"]
    <2>0. call[c] \in Locals /\ Flow(call[c]) /\ call[c].pc = "lock"
      BY <1>3 DEF TypeOK, FlowInv, Lock
    <2>1. l \in Locals
      BY <2>0 DEF Locals, Places
    <2>2. /\ l.pc = "insert" /\ l.direct = call[c].direct /\ l.seen = call[c].seen
          /\ l.todo = call[c].todo /\ l.fp = call[c].fp
      BY <2>0 DEF Locals
    <2>3. Flow(l)
      BY <2>0, <2>2 DEF Flow
    <2>4. Goto(c, l) /\ lock[call[c].fp] = Free /\ lock' = [lock EXCEPT ![call[c].fp] = c]
      BY <1>3 DEF Lock
    <2> HIDE DEF l
    <2>5. call' \in [Callers -> Locals] /\ call[c].fp \in Fingerprints
      BY <2>0, <2>1, <2>4, OneCaller DEF TypeOK, Locals
    <2>6. TypeOK'
      BY <1>0, <1>3, <2>5 DEF TypeOK, Lock, tables, history
    <2>7. lock'[l.fp] = c /\ \A f \in Fingerprints : lock[f] \notin {c, Free} => lock'[f] = lock[f]
      BY <2>2, <2>4, <2>5 DEF TypeOK
    <2> QED BY <2>1, <2>2, <2>3, <2>4, <2>6, <2>7, <1>3, StepKeepsBase DEF Lock, tables
  <1> QED BY <1>1, <1>2, <1>3 DEF Arrive

\* A request is through, or a statement of it fails: its mutex is free again.
LEMMA BaseLeave ==
  ASSUME Base, NEW c \in Callers, Return(c) \/ Fail(c)
  PROVE  Base'
  <1> USE DEF Base
  <1>0. MaxFaults \in Nat
    BY IngestAssumption DEF IngestAssumption
  <1>1. Goto(c, Idle) /\ Release(c) /\ UNCHANGED <<clock, tables, arrived, history>>
    BY DEF Return, Fail
  <1>2. faults' \in 0..MaxFaults
    BY <1>0 DEF Return, Fail, Fault, TypeOK
  <1>3. call' \in [Callers -> Locals] /\ ~Serving(Idle) /\ Flow(Idle) /\ Idle.pc # "decide"
    BY <1>1, OneCaller, IdleLocals DEF TypeOK, Serving
  <1>4. /\ lock' \in [Fingerprints -> Callers \cup {Free}]
        /\ \A f \in Fingerprints : lock[f] \notin {c, Free} => lock'[f] = lock[f]
    BY <1>1 DEF Release, TypeOK
  <1>5. TypeOK'
    BY <1>1, <1>2, <1>3, <1>4 DEF TypeOK, tables, history
  <1> QED BY <1>1, <1>3, <1>4, <1>5, IdleLocals, StepKeepsBase DEF tables

\* Caller c goes on with its request, the others stay where they are.
Moved(c) ==
  /\ call[c] \in Locals /\ Flow(call[c]) /\ call'[c] \in Locals /\ Flow(call'[c])
  /\ call'[c].direct = call[c].direct /\ call'[c].fp = call[c].fp
  /\ call'[c].status = call[c].status /\ call'[c].now = call[c].now
  /\ \A d \in Callers : d # c => call'[d] = call[d]

\* A caller goes on.
LEMMA StepMoves ==
  ASSUME Base, NEW c \in Callers, NEW l \in Locals, Goto(c, l), Flow(l),
         l.direct = call[c].direct, l.fp = call[c].fp, l.status = call[c].status,
         l.now = call[c].now
  PROVE  Moved(c) /\ call'[c] = l /\ call' \in [Callers -> Locals]
  <1>1. call \in [Callers -> Locals] /\ Flow(call[c])
    BY DEF Base, TypeOK, FlowInv
  <1>2. /\ call' \in [Callers -> Locals] /\ call'[c] = l
        /\ \A d \in Callers : d # c => call'[d] = call[d]
    BY <1>1, OneCaller
  <1> QED BY <1>1, <1>2 DEF Moved

\* Statements that write none of the tables a decision reads, and keep the mutex.
LEMMA MovesKeepBase ==
  ASSUME Base, NEW c \in Callers, Moved(c), TypeOK', UNCHANGED <<lock, dedup>>,
         Serving(call[c]) \/ ~Serving(call'[c]),
         call'[c].pc = "decide" =>
           call'[c].prev = dedup[<<call[c].fp, Head(call'[c].todo).name>>]
  PROVE  Base'
  <1>1. call \in [Callers -> Locals] /\ call' \in [Callers -> Locals]
    BY DEF Base, TypeOK
  <1>2. Goto(c, call'[c])
    BY <1>1 DEF Moved, Goto
  <1>3. Serving(call'[c]) => lock'[call'[c].fp] = c
    BY DEF Base, MutexInv, Moved
  <1> QED BY <1>2, <1>3, StepKeepsBase DEF Moved

\* The event is stored, or the request fails.
LEMMA InsertEventMoves ==
  ASSUME Base, NEW c \in Callers, InsertEvent(c)
  PROVE  LET l == call[c]
             m == call'[c]
         IN  /\ Base' /\ Moved(c) /\ l.pc = "insert"
             /\ m.pc = (IF l.direct THEN "enqueue" ELSE "getState")
             /\ m.event = events + 1 /\ m.was = l.was /\ m.todo = l.todo
             /\ m.pending = l.pending /\ m.seen = l.seen
  <1> DEFINE l == call[c]
             p == IF l.direct THEN "enqueue" ELSE "getState"
             m == [l EXCEPT !.pc = p, !.event = events + 1]
  <1>1. l \in Locals /\ Flow(l) /\ events \in Nat /\ l.pc = "insert" /\ Goto(c, m)
    BY DEF Base, TypeOK, FlowInv, InsertEvent
  <1>p. p \in Places /\ p \in {"enqueue", "getState"} /\ (l.direct <=> p = "enqueue")
    BY DEF Places
  <1> HIDE DEF p
  <1>2. /\ m \in Locals /\ m.pc = p
        /\ m.event = events + 1 /\ m.was = l.was /\ m.todo = l.todo
        /\ m.pending = l.pending /\ m.seen = l.seen /\ m.direct = l.direct
        /\ m.fp = l.fp /\ m.status = l.status /\ m.now = l.now
    <2>1. l \in Locals /\ events + 1 \in Nat /\ p \in Places
      BY <1>1, <1>p
    <2>2. m \in Locals
      BY <2>1 DEF Locals
    <2>3. m.pc = p /\ m.event = events + 1
      BY <2>1 DEF Locals
    <2> QED BY <2>1, <2>2, <2>3 DEF Locals
  <1> HIDE DEF m
  <1>3. Flow(m)
    BY <1>1, <1>2, <1>p DEF Flow
  <1>4. Moved(c) /\ call'[c] = m /\ call' \in [Callers -> Locals]
    BY <1>1, <1>2, <1>3, StepMoves
  <1>5. TypeOK'
    BY <1>1, <1>4 DEF InsertEvent, Base, TypeOK, history
  <1>6. Base'
    BY <1>1, <1>p, <1>2, <1>4, <1>5, MovesKeepBase DEF InsertEvent, Serving
  <1> USE DEF p
  <1> QED BY <1>1, <1>2, <1>4, <1>6

\* The dedup row is read.
LEMMA GetStateMoves ==
  ASSUME Base, NEW c \in Callers, GetState(c)
  PROVE  LET l == call[c]
             m == call'[c]
         IN  /\ Base' /\ Moved(c) /\ l.pc = "getState" /\ m.pc = "upsertState"
             /\ m.event = l.event /\ m.was = state[l.fp] /\ m.todo = l.todo
             /\ m.pending = l.pending /\ m.seen = l.seen
  <1> DEFINE l == call[c]
             w == state[l.fp]
             m == [l EXCEPT !.pc = "upsertState", !.was = w]
  <1>1. l \in Locals /\ Flow(l) /\ l.pc = "getState" /\ Goto(c, m)
    BY DEF Base, TypeOK, FlowInv, GetState
  <1>w. w \in States /\ "upsertState" \in Places
    <2>1. l.fp \in Fingerprints
      BY <1>1 DEF Locals
    <2> QED BY <2>1 DEF Base, TypeOK, Places
  <1> HIDE DEF w
  <1>2. /\ m \in Locals /\ m.pc = "upsertState"
        /\ m.event = l.event /\ m.was = w /\ m.todo = l.todo
        /\ m.pending = l.pending /\ m.seen = l.seen /\ m.direct = l.direct
        /\ m.fp = l.fp /\ m.status = l.status /\ m.now = l.now
    <2>1. m \in Locals
      BY <1>1, <1>w DEF Locals
    <2>2. m.pc = "upsertState" /\ m.was = w
      BY <1>1 DEF Locals
    <2> QED BY <1>1, <2>1, <2>2 DEF Locals
  <1> HIDE DEF m
  <1>3. Flow(m)
    BY <1>1, <1>2 DEF Flow
  <1>4. Moved(c) /\ call'[c] = m /\ call' \in [Callers -> Locals]
    BY <1>1, <1>2, <1>3, StepMoves
  <1>5. TypeOK'
    BY <1>1, <1>4 DEF GetState, Base, TypeOK, history, tables
  <1>6. Base'
    BY <1>1, <1>2, <1>4, <1>5, MovesKeepBase DEF GetState, Serving, Flow, tables
  <1> USE DEF w
  <1> QED BY <1>1, <1>2, <1>4, <1>6

\* The dedup row is written.
LEMMA UpsertStateMoves ==
  ASSUME Base, NEW c \in Callers, UpsertState(c)
  PROVE  LET l == call[c]
             m == call'[c]
         IN  /\ Base' /\ Moved(c) /\ l.pc = "upsertState" /\ m.pc = "routes"
             /\ m.event = l.event /\ m.was = l.was /\ m.todo = l.todo
             /\ m.pending = l.pending /\ m.seen = l.seen
             /\ state'[l.fp].known /\ state'[l.fp].active = ComputeActive(l.status, l.was)
             /\ \A f \in Fingerprints : f # l.fp => state'[f] = state[f]
  <1> DEFINE l == call[c]
             m == [l EXCEPT !.pc = "routes"]
             a == ComputeActive(l.status, l.was)
             s == [known |-> TRUE, active |-> a, first |-> l.now, last |-> l.now]
             b == IF state[l.fp].known THEN state[l.fp].first ELSE s.first
             t == [s EXCEPT !.first = b]
  <1>1. l \in Locals /\ Flow(l) /\ l.pc = "upsertState" /\ Goto(c, m)
    BY DEF Base, TypeOK, FlowInv, UpsertState
  <1>2. /\ m \in Locals /\ m.pc = "routes"
        /\ m.event = l.event /\ m.was = l.was /\ m.todo = l.todo
        /\ m.pending = l.pending /\ m.seen = l.seen /\ m.direct = l.direct
        /\ m.fp = l.fp /\ m.status = l.status /\ m.now = l.now
    BY <1>1 DEF Locals, Places
  <1> HIDE DEF m
  <1>3. Flow(m)
    BY <1>1, <1>2 DEF Flow
  <1>4. Moved(c) /\ call'[c] = m /\ call' \in [Callers -> Locals]
    BY <1>1, <1>2, <1>3, StepMoves
  <1>5. l.fp \in Fingerprints /\ l.now \in 0..MaxTime /\ l.was \in States
    BY <1>1 DEF Locals
  <1>6. a \in BOOLEAN
    BY <1>5 DEF ComputeActive, States
  <1>7. b \in 0..MaxTime
    BY <1>5 DEF Base, TypeOK, States
  <1>8. state' = [state EXCEPT ![l.fp] = t]
    BY DEF UpsertState, StoreState
  <1> HIDE DEF a, b
  <1>9. t \in States /\ t.known /\ t.active = a
    BY <1>5, <1>6, <1>7 DEF States
  <1> HIDE DEF t
  <1>10. /\ state' \in [Fingerprints -> States] /\ state'[l.fp] = t
         /\ \A f \in Fingerprints : f # l.fp => state'[f] = state[f]
    BY <1>5, <1>8, <1>9 DEF Base, TypeOK
  <1>11. TypeOK'
    BY <1>1, <1>4, <1>10 DEF UpsertState, Base, TypeOK, history
  <1>12. Base'
    BY <1>1, <1>2, <1>4, <1>11, MovesKeepBase DEF UpsertState, Serving, Flow
  <1> USE DEF a
  <1> QED BY <1>1, <1>2, <1>4, <1>9, <1>10, <1>12

\* The routes are read.
LEMMA ListRoutesMoves ==
  ASSUME Base, NEW c \in Callers, ListRoutes(c)
  PROVE  LET l == call[c]
             m == call'[c]
         IN  /\ Base' /\ Moved(c) /\ l.pc = "routes" /\ m.pc = "next"
             /\ m.event = l.event /\ m.was = l.was /\ m.todo \in Matched[l.status]
             /\ m.pending = l.pending /\ m.seen = l.seen
  <1> DEFINE l == call[c]
  <1>1. l \in Locals /\ Flow(l) /\ l.pc = "routes" /\ l.status \in Statuses
    BY DEF Base, TypeOK, FlowInv, ListRoutes, Locals
  <1>r. PICK r \in Matched[l.status] : Goto(c, [l EXCEPT !.pc = "next", !.todo = r])
    BY DEF ListRoutes
  <1> DEFINE m == [l EXCEPT !.pc = "next", !.todo = r]
  <1>d. r \in Seq(Routes) /\ \A a, b \in DOMAIN r : r[a].name = r[b].name => a = b
    BY <1>1, Parameters
  <1>2. /\ m \in Locals /\ m.pc = "next"
        /\ m.event = l.event /\ m.was = l.was /\ m.todo = r
        /\ m.pending = l.pending /\ m.seen = l.seen /\ m.direct = l.direct
        /\ m.fp = l.fp /\ m.status = l.status /\ m.now = l.now
    <2>1. l \in Locals /\ "next" \in Places /\ r \in Seq(Routes)
      BY <1>1, <1>d DEF Places
    <2>2. m \in Locals
      BY <2>1 DEF Locals
    <2>3. m.pc = "next" /\ m.todo = r
      BY <2>1 DEF Locals
    <2> QED BY <2>1, <2>2, <2>3 DEF Locals
  <1>g. Goto(c, m)
    BY <1>r
  <1> HIDE DEF m
  <1>3. Flow(m)
    BY <1>1, <1>d, <1>2 DEF Flow
  <1>4. Moved(c) /\ call'[c] = m /\ call' \in [Callers -> Locals]
    BY <1>1, <1>g, <1>2, <1>3, StepMoves
  <1>5. TypeOK'
    BY <1>1, <1>4 DEF ListRoutes, Base, TypeOK, history, tables
  <1>6. Base'
    BY <1>1, <1>2, <1>4, <1>5, MovesKeepBase DEF ListRoutes, Serving, Flow, tables
  <1> QED BY <1>1, <1>2, <1>4, <1>6

\* The row of a route is read.
LEMMA GetRouteDedupMoves ==
  ASSUME Base, NEW c \in Callers, GetRouteDedup(c)
  PROVE  LET l == call[c]
             m == call'[c]
         IN  /\ Base' /\ Moved(c) /\ l.pc = "next" /\ m.pc = "decide"
             /\ l.todo # <<>> /\ m.event = l.event /\ m.was = l.was /\ m.todo = l.todo
             /\ m.pending = l.pending /\ m.seen = l.seen
  <1> DEFINE l == call[c]
             k == <<l.fp, Head(l.todo).name>>
             p == dedup[k]
             m == [l EXCEPT !.pc = "decide", !.prev = p]
  <1>1. l \in Locals /\ Flow(l) /\ l.pc = "next" /\ l.todo # <<>> /\ Goto(c, m)
    BY DEF Base, TypeOK, FlowInv, GetRouteDedup
  <1>p. p \in Records /\ "decide" \in Places
    <2>1. l.fp \in Fingerprints /\ l.todo \in Seq(Routes)
      BY <1>1 DEF Locals
    <2>2. Head(l.todo).name \in RouteNames
      BY <1>1, <2>1, Parameters
    <2>3. k \in Keys
      BY <2>1, <2>2 DEF Keys
    <2> QED BY <2>3 DEF Base, TypeOK, Places
  <1> HIDE DEF p
  <1>2. /\ m \in Locals /\ m.pc = "decide" /\ m.prev = p
        /\ m.event = l.event /\ m.was = l.was /\ m.todo = l.todo
        /\ m.pending = l.pending /\ m.seen = l.seen /\ m.direct = l.direct
        /\ m.fp = l.fp /\ m.status = l.status /\ m.now = l.now
    <2>1. m \in Locals
      BY <1>1, <1>p DEF Locals
    <2>2. m.pc = "decide" /\ m.prev = p
      BY <1>1 DEF Locals
    <2> QED BY <1>1, <2>1, <2>2 DEF Locals
  <1> HIDE DEF m
  <1>3. Flow(m)
    BY <1>1, <1>2 DEF Flow
  <1>4. Moved(c) /\ call'[c] = m /\ call' \in [Callers -> Locals]
    BY <1>1, <1>2, <1>3, StepMoves
  <1>5. TypeOK'
    BY <1>1, <1>4 DEF GetRouteDedup, Base, TypeOK, history, tables
  <1>6. m.prev = dedup[<<l.fp, Head(m.todo).name>>]
    BY <1>2 DEF p
  <1>7. Base'
    BY <1>1, <1>2, <1>4, <1>5, <1>6, MovesKeepBase DEF GetRouteDedup, Serving, Flow, tables
  <1> QED BY <1>1, <1>2, <1>4, <1>7

\* A route is through.
LEMMA RouteDoneMoves ==
  ASSUME Base, NEW c \in Callers, RouteDone(c)
  PROVE  LET l == call[c]
             m == call'[c]
         IN  /\ Base' /\ Moved(c) /\ l.pc = "enqueue" /\ ~l.direct /\ l.pending = <<>>
             /\ m.pc = "next" /\ m.event = l.event /\ m.was = l.was
             /\ m.todo = Tail(l.todo) /\ m.pending = l.pending /\ m.seen = l.seen
  <1> DEFINE l == call[c]
             t == Tail(l.todo)
             m == [l EXCEPT !.pc = "next", !.todo = t]
  <1>1. /\ l \in Locals /\ Flow(l) /\ l.pc = "enqueue" /\ ~l.direct /\ l.todo # <<>>
        /\ l.pending = <<>> /\ Goto(c, m)
    BY DEF Base, TypeOK, FlowInv, RouteDone, Flow
  <1>t. /\ t \in Seq(Routes) /\ "next" \in Places
        /\ \A a, b \in DOMAIN t : t[a].name = t[b].name => a = b
    <2>1. l.todo \in Seq(Routes)
      BY <1>1 DEF Locals
    <2> QED BY <1>1, <2>1, TailNames DEF Flow, Places
  <1> HIDE DEF t
  <1>2. /\ m \in Locals /\ m.pc = "next"
        /\ m.event = l.event /\ m.was = l.was /\ m.todo = t
        /\ m.pending = l.pending /\ m.seen = l.seen /\ m.direct = l.direct
        /\ m.fp = l.fp /\ m.status = l.status /\ m.now = l.now
    <2>1. m \in Locals
      BY <1>1, <1>t DEF Locals
    <2>2. m.pc = "next" /\ m.todo = t
      BY <1>1 DEF Locals
    <2> QED BY <1>1, <2>1, <2>2 DEF Locals
  <1> HIDE DEF m
  <1>3. Flow(m)
    BY <1>1, <1>t, <1>2 DEF Flow
  <1>4. Moved(c) /\ call'[c] = m /\ call' \in [Callers -> Locals]
    BY <1>1, <1>2, <1>3, StepMoves
  <1>5. TypeOK'
    BY <1>1, <1>4 DEF RouteDone, Base, TypeOK, history, tables
  <1>6. Base'
    BY <1>1, <1>2, <1>4, <1>5, MovesKeepBase DEF RouteDone, Serving, tables
  <1> USE DEF t
  <1> QED BY <1>1, <1>2, <1>4, <1>6

\* The provider is the one the caller is at, new for its event or not.
LEMMA EnqueueMoves ==
  ASSUME Base, NEW c \in Callers, Enqueue(c)
  PROVE  LET l == call[c]
             m == call'[c]
             p == Head(l.pending)
             q == [event |-> l.event, fp |-> l.fp, provider |-> p]
         IN  /\ Base' /\ Moved(c) /\ l.pc = "enqueue" /\ l.pending # <<>>
             /\ m.pc = "enqueue" /\ m.event = l.event /\ m.was = l.was
             /\ m.todo = l.todo /\ m.pending = Tail(l.pending)
             /\ m.seen = l.seen \cup {p}
             /\ p \in Providers /\ q \in Deliveries
             /\ IF p \in l.seen THEN deliveries' = deliveries
                ELSE deliveries' = Append(deliveries, q)
  <1> DEFINE l == call[c]
             p == Head(l.pending)
             q == [event |-> l.event, fp |-> l.fp, provider |-> p]
             t == Tail(l.pending)
             s == l.seen \cup {p}
             m == [l EXCEPT !.pending = t, !.seen = s]
  <1>1. /\ l \in Locals /\ Flow(l) /\ l.pc = "enqueue" /\ l.pending # <<>>
        /\ Goto(c, m)
    BY DEF Base, TypeOK, FlowInv, Enqueue
  <1>p. p \in Providers /\ t \in Seq(Providers) /\ s \in SUBSET Providers
    <2>1. l.pending \in Seq(Providers) /\ l.seen \in SUBSET Providers
      BY <1>1 DEF Locals
    <2> QED BY <1>1, <2>1
  <1>q. q \in Deliveries
    BY <1>1, <1>p DEF Locals, Deliveries
  <1>d. IF p \in l.seen THEN deliveries' = deliveries
        ELSE deliveries' = Append(deliveries, q)
    BY DEF Enqueue, Skips
  <1> HIDE DEF p, q, t, s
  <1>2. /\ m \in Locals /\ m.pc = l.pc
        /\ m.event = l.event /\ m.was = l.was /\ m.todo = l.todo
        /\ m.pending = t /\ m.seen = s /\ m.direct = l.direct
        /\ m.fp = l.fp /\ m.status = l.status /\ m.now = l.now
    <2>1. m \in Locals
      BY <1>1, <1>p DEF Locals
    <2>2. m.pending = t /\ m.seen = s
      BY <1>1 DEF Locals
    <2> QED BY <1>1, <2>1, <2>2 DEF Locals
  <1> HIDE DEF m
  <1>3. Flow(m)
    BY <1>1, <1>2 DEF Flow
  <1>4. Moved(c) /\ call'[c] = m /\ call' \in [Callers -> Locals]
    BY <1>1, <1>2, <1>3, StepMoves
  <1>5. deliveries' \in Seq(Deliveries)
    BY <1>q, <1>d DEF Base, TypeOK
  <1>6. TypeOK'
    BY <1>1, <1>4, <1>5 DEF Enqueue, Base, TypeOK, history
  <1>7. Base'
    BY <1>1, <1>2, <1>4, <1>6, MovesKeepBase DEF Enqueue, Serving
  <1> USE DEF p, q, t, s
  <1> QED BY <1>1, <1>2, <1>4, <1>p, <1>q, <1>d, <1>7

\* The decision reads what the table holds, and the next record is stored.
LEMMA UpsertRouteDedupMoves ==
  ASSUME Base, NEW c \in Callers, UpsertRouteDedup(c)
  PROVE  LET l   == call[c]
             m   == call'[c]
             r   == Head(l.todo)
             k   == <<l.fp, r.name>>
             pol == EffectivePolicy(r.policy)
             notify == Notifies(l.status, dedup[k], pol, l.now)
         IN  /\ Base' /\ Moved(c) /\ l.pc = "decide" /\ ~l.direct /\ l.todo # <<>>
             /\ m.event = l.event /\ m.was = l.was /\ m.seen = l.seen
             /\ r \in Routes /\ k \in Keys
             /\ dedup' = [dedup EXCEPT ![k] = NextRecord(l.status, dedup[k], pol, l.now)]
             /\ decided' = [decided EXCEPT ![k] =
                              Append(decided[k], [status |-> l.status, policy |-> r.policy,
                                                  at |-> l.now, notified |-> notify])]
             /\ notify \in BOOLEAN
             /\ \/ /\ notify /\ m.pc = "enqueue" /\ m.todo = l.todo
                   /\ m.pending = r.providers
                   /\ owed' = owed \cup {[event |-> l.event, provider |-> r.providers[n]] :
                                           n \in DOMAIN r.providers}
                \/ /\ ~notify /\ m.pc = "next" /\ m.todo = Tail(l.todo)
                   /\ m.pending = l.pending /\ owed' = owed
  <1> DEFINE l   == call[c]
             r   == Head(l.todo)
             k   == <<l.fp, r.name>>
             pol == EffectivePolicy(r.policy)
             old == dedup[k]
             notify == Notifies(l.status, old, pol, l.now)
             new == NextRecord(l.status, old, pol, l.now)
             e == [status |-> l.status, policy |-> r.policy, at |-> l.now,
                   notified |-> notify]
             t == Tail(l.todo)
             o == {[event |-> l.event, provider |-> r.providers[n]] : n \in DOMAIN r.providers}
             m1 == [l EXCEPT !.pc = "enqueue", !.pending = r.providers]
             m2 == [l EXCEPT !.pc = "next", !.todo = t]
  <1>1. /\ l \in Locals /\ Flow(l) /\ l.pc = "decide" /\ ~l.direct /\ l.todo # <<>>
        /\ l.prev = old /\ Serving(l) /\ lock[l.fp] = c
    BY DEF Base, TypeOK, FlowInv, UpsertRouteDedup, Flow, PrevInv, MutexInv, Serving
  <1>2. /\ l.fp \in Fingerprints /\ l.todo \in Seq(Routes) /\ l.now \in 0..MaxTime
        /\ l.status \in Statuses /\ l.event \in Nat
    BY <1>1 DEF Locals
  <1>3. /\ r \in Routes /\ t \in Seq(Routes) /\ r.policy \in Policies
        /\ \A a, b \in DOMAIN t : t[a].name = t[b].name => a = b
        /\ r.providers \in Seq(Providers) /\ r.name \in RouteNames
    BY <1>1, <1>2, TailNames, Parameters DEF Flow
  <1>4. k \in Keys /\ old \in Records /\ old.active \in BOOLEAN
    BY <1>2, <1>3 DEF Keys, Base, TypeOK, Records
  <1>5. notify \in BOOLEAN
    BY <1>4 DEF Notifies, Statuses
  <1>6. new \in Records
    <2>1. NextActive(l.status, old) \in BOOLEAN
      BY <1>4 DEF NextActive
    <2>2. (IF notify THEN l.now ELSE old.notified) \in 0..MaxTime \cup {Never}
      BY <1>2, <1>4, <1>5 DEF Records
    <2> QED BY <2>1, <2>2 DEF NextRecord, Records
  <1>7. e \in Decisions
    BY <1>2, <1>3, <1>5 DEF Decisions
  <1>8. o \subseteq [event : Nat, provider : Providers]
    BY <1>2, <1>3
  <1>9. /\ dedup' = [dedup EXCEPT ![k] = new]
        /\ decided' = [decided EXCEPT ![k] = Append(decided[k], e)]
        /\ IF notify THEN Goto(c, m1) /\ owed' = owed \cup o
           ELSE Goto(c, m2) /\ owed' = owed
        /\ UNCHANGED <<clock, lock, events, state, deliveries, arrived, faults>>
    BY <1>1 DEF UpsertRouteDedup, StoreDedup
  <1> HIDE DEF pol, old, notify, new, e, t, o
  <1>10. ASSUME NEW m, m = (IF notify THEN m1 ELSE m2)
         PROVE  /\ m \in Locals /\ Flow(m) /\ m.direct = l.direct /\ m.fp = l.fp
                /\ m.status = l.status /\ m.now = l.now
                /\ m.event = l.event /\ m.was = l.was /\ m.seen = l.seen
                /\ notify => m.pc = "enqueue" /\ m.todo = l.todo /\ m.pending = r.providers
                /\ ~notify => m.pc = "next" /\ m.todo = t /\ m.pending = l.pending
    <2>1. CASE notify
      <3>1. m1 \in Locals
        <4>1. r.providers \in Seq(Providers) /\ "enqueue" \in Places
          BY <1>3 DEF Places
        <4> QED BY <4>1, <1>1 DEF Locals
      <3>2. m1.pc = "enqueue" /\ m1.pending = r.providers
        BY <1>1 DEF Locals
      <3>3. /\ m1.direct = l.direct /\ m1.fp = l.fp /\ m1.todo = l.todo
            /\ m1.status = l.status /\ m1.now = l.now
            /\ m1.event = l.event /\ m1.was = l.was /\ m1.seen = l.seen
        BY <1>1 DEF Locals
      <3> HIDE DEF m1
      <3>4. Flow(m1)
        BY <1>1, <3>2, <3>3 DEF Flow
      <3> QED BY <1>10, <2>1, <3>1, <3>2, <3>3, <3>4
    <2>2. CASE ~notify
      <3>1. m2 \in Locals
        <4>1. "next" \in Places
          BY DEF Places
        <4> QED BY <4>1, <1>1, <1>3 DEF Locals
      <3>2. m2.pc = "next" /\ m2.todo = t
        BY <1>1 DEF Locals
      <3>3. /\ m2.direct = l.direct /\ m2.fp = l.fp /\ m2.pending = l.pending
            /\ m2.status = l.status /\ m2.now = l.now
            /\ m2.event = l.event /\ m2.was = l.was /\ m2.seen = l.seen
        BY <1>1 DEF Locals
      <3> HIDE DEF m2
      <3>4. Flow(m2)
        BY <1>1, <1>3, <3>2, <3>3 DEF Flow
      <3> QED BY <1>10, <2>2, <3>1, <3>2, <3>3, <3>4
    <2> QED BY <2>1, <2>2
  <1> DEFINE m == IF notify THEN m1 ELSE m2
  <1>11. Goto(c, m)
    BY <1>9
  <1>12. /\ m \in Locals /\ Flow(m) /\ m.direct = l.direct /\ m.fp = l.fp
         /\ m.status = l.status /\ m.now = l.now
         /\ m.event = l.event /\ m.was = l.was /\ m.seen = l.seen
         /\ notify => m.pc = "enqueue" /\ m.todo = l.todo /\ m.pending = r.providers
         /\ ~notify => m.pc = "next" /\ m.todo = t /\ m.pending = l.pending
    BY <1>10
  <1> HIDE DEF m, m1, m2
  <1>13. Moved(c) /\ call'[c] = m /\ call' \in [Callers -> Locals]
    BY <1>11, <1>12, StepMoves
  <1>14. /\ dedup' \in [Keys -> Records] /\ decided' \in [Keys -> Seq(Decisions)]
         /\ owed' \subseteq [event : Nat, provider : Providers]
         /\ \A j \in Keys : j # k => dedup'[j] = dedup[j]
    <2>1. /\ dedup \in [Keys -> Records] /\ decided \in [Keys -> Seq(Decisions)]
          /\ owed \subseteq [event : Nat, provider : Providers]
      BY DEF Base, TypeOK
    <2> QED BY <2>1, <1>4, <1>6, <1>7, <1>8, <1>9
  <1>15. TypeOK'
    BY <1>9, <1>13, <1>14 DEF Base, TypeOK
  <1>16. ASSUME NEW d \in Callers, d # c, call[d].pc = "decide"
         PROVE  LET j == <<call[d].fp, Head(call[d].todo).name>> IN dedup'[j] = dedup[j]
    <2>1. /\ call[d] \in Locals /\ Flow(call[d]) /\ Serving(call[d]) /\ call[d].todo # <<>>
          /\ lock[call[d].fp] = d
      BY <1>16 DEF Base, TypeOK, FlowInv, MutexInv, Flow, Serving
    <2>2. call[d].fp # l.fp
      BY <1>1, <1>16, <2>1
    <2>3. call[d].fp \in Fingerprints /\ call[d].todo \in Seq(Routes)
      BY <2>1 DEF Locals
    <2>4. Head(call[d].todo).name \in RouteNames
      BY <2>1, <2>3, Parameters
    <2> QED BY <1>14, <2>2, <2>3, <2>4 DEF Keys
  <1>17. Base'
    <2>1. lock'[m.fp] = c
      BY <1>1, <1>9, <1>12
    <2>2. m.pc # "decide"
      BY <1>5, <1>12
    <2> QED BY <1>9, <1>11, <1>12, <1>15, <1>16, <2>1, <2>2, StepKeepsBase
  <1> USE DEF pol, old, notify, new, e, t, o
  <1>18. \/ /\ notify /\ m.pc = "enqueue" /\ m.todo = l.todo
            /\ m.pending = r.providers /\ owed' = owed \cup o
         \/ ~notify /\ m.pc = "next" /\ m.todo = t /\ m.pending = l.pending /\ owed' = owed
    BY <1>5, <1>9, <1>12
  <1> QED BY <1>1, <1>3, <1>4, <1>5, <1>9, <1>12, <1>13, <1>17, <1>18

\* Time passes.
LEMMA BaseTick ==
  ASSUME Base, Tick PROVE Base'
  <1>1. TypeOK'
    BY IngestAssumption DEF IngestAssumption, Base, TypeOK, Tick, tables, history
  <1> QED BY <1>1 DEF Base, Tick, tables, FlowInv, MutexInv, PrevInv

\* The process dies, and its callers with it.
LEMMA BaseCrash ==
  ASSUME Base, Crash
  PROVE  Base' /\ \A c \in Callers : call'[c] = Idle
  <1>1. \A c \in Callers : call'[c] = Idle
    BY DEF Crash
  <1>2. TypeOK'
    BY IdleLocals, IngestAssumption
    DEF IngestAssumption, Base, TypeOK, Crash, Fault, tables, history
  <1>3. (FlowInv /\ MutexInv /\ PrevInv)'
    BY <1>1, IdleLocals DEF FlowInv, MutexInv, PrevInv, Serving
  <1> QED BY <1>1, <1>2, <1>3 DEF Base

\* Each step of a caller, of time or a crash.
LEMMA BaseStep == Base /\ [Next]_vars => Base'
  <1> SUFFICES ASSUME Base, [Next]_vars PROVE Base'
    OBVIOUS
  <1>1. ASSUME NEW c \in Callers, Arrive(c) PROVE Base'
    BY <1>1, BaseArrive
  <1>2. ASSUME NEW c \in Callers, Step(c) PROVE Base'
    BY <1>2, BaseArrive, BaseLeave, InsertEventMoves, GetStateMoves, UpsertStateMoves,
       ListRoutesMoves, GetRouteDedupMoves, UpsertRouteDedupMoves, EnqueueMoves,
       RouteDoneMoves, Zenon DEF Step, Statement
  <1>3. CASE UNCHANGED vars
    BY <1>3 DEF vars, tables, history, Base, TypeOK, FlowInv, MutexInv, PrevInv
  <1> QED BY <1>1, <1>2, <1>3, BaseTick, BaseCrash DEF Next

(* No request decides from a record that another one has changed since, and none
   is past the mutex of a fingerprint that another holds. *)
THEOREM MutexKept == Spec => []Base
  BY InitBase, BaseStep, PTL DEF Spec

-----------------------------------------------------------------------------
(* The number of decisions.                                                *)

\* What is counted is finite.
LEMMA CountFacts ==
  ASSUME Base, NEW k \in Keys
  PROVE  /\ IsFiniteSet(Deciders(k)) /\ Cardinality(Deciders(k)) \in Nat
         /\ Len(decided[k]) \in Nat /\ arrived \in Nat
  <1>1. IsFiniteSet(Deciders(k))
    BY IngestAssumption, FS_Subset DEF IngestAssumption, Deciders
  <1> QED BY <1>1, FS_CardinalityType DEF Base, TypeOK

\* A step in which nobody takes up a route again.
LEMMA CountShrinks ==
  ASSUME Base, Base', CountInv, UNCHANGED <<decided, arrived>>,
         \A k \in Keys : Deciders(k)' \subseteq Deciders(k)
  PROVE  CountInv'
  <1> SUFFICES ASSUME NEW k \in Keys
               PROVE  (Len(decided[k]) + Cardinality(Deciders(k)) <= arrived)'
    BY DEF CountInv
  <1>1. Cardinality(Deciders(k)') <= Cardinality(Deciders(k)) /\ Cardinality(Deciders(k)') \in Nat
    BY CountFacts, FS_Subset, FS_CardinalityType
  <1> QED BY <1>1, CountFacts DEF CountInv

\* A request begins: one more event, and one more caller with decisions to make.
LEMMA CountArrive ==
  ASSUME Base, Base', CountInv, NEW c \in Callers, Arrive(c)
  PROVE  CountInv'
  <1> SUFFICES ASSUME NEW k \in Keys
               PROVE  (Len(decided[k]) + Cardinality(Deciders(k)) <= arrived)'
    BY DEF CountInv
  <1>1. /\ arrived' = arrived + 1 /\ decided' = decided
        /\ \E l : Goto(c, l)
    BY DEF Arrive, Begin, Deliver, history
  <1>2. \A d \in Callers : d # c => call'[d] = call[d]
    BY <1>1 DEF Goto, Base, TypeOK
  <1>3. Deciders(k)' \subseteq Deciders(k) \cup {c}
    BY <1>2 DEF Deciders
  <1>4. /\ IsFiniteSet(Deciders(k) \cup {c}) /\ Cardinality(Deciders(k) \cup {c}) \in Nat
        /\ Cardinality(Deciders(k) \cup {c}) <= Cardinality(Deciders(k)) + 1
    <2>1. IsFiniteSet(Deciders(k)) /\ Cardinality(Deciders(k)) \in Nat
      BY CountFacts
    <2>2. /\ IsFiniteSet(Deciders(k) \cup {c})
          /\ Cardinality(Deciders(k) \cup {c}) =
               IF c \in Deciders(k) THEN Cardinality(Deciders(k))
               ELSE Cardinality(Deciders(k)) + 1
      BY <2>1, FS_AddElement
    <2> QED BY <2>1, <2>2
  <1>5. /\ Cardinality(Deciders(k)') <= Cardinality(Deciders(k) \cup {c})
        /\ Cardinality(Deciders(k)') \in Nat
    BY <1>3, <1>4, FS_Subset, FS_CardinalityType
  <1> QED BY <1>1, <1>4, <1>5, CountFacts DEF CountInv

\* A decision: one more of them, and one less to make.
LEMMA CountDecision ==
  ASSUME Base, CountInv, NEW c \in Callers, UpsertRouteDedup(c)
  PROVE  /\ CountInv'
         /\ Len(decided[<<call[c].fp, Head(call[c].todo).name>>]) < MaxEvents
  <1> DEFINE l == call[c]
             m == call'[c]
             r == Head(l.todo)
  <1>k. <<l.fp, r.name>> \in Keys
    BY UpsertRouteDedupMoves
  <1>K. PICK K \in Keys : K = <<l.fp, r.name>>
    BY <1>k
  <1>1. /\ Base' /\ Moved(c) /\ l.pc = "decide" /\ ~l.direct /\ l.todo # <<>>
        /\ \/ m.pc = "enqueue" /\ m.todo = l.todo
           \/ m.pc = "next" /\ m.todo = Tail(l.todo)
        /\ \E e : decided' = [decided EXCEPT ![K] = Append(decided[K], e)]
        /\ arrived' = arrived
    BY <1>K, UpsertRouteDedupMoves DEF UpsertRouteDedup
  <1>2. r.name \in Names(l.todo) /\ Names(Tail(l.todo)) = Names(l.todo) \ {r.name}
    BY <1>1, TailNames DEF Moved, Flow, Locals
  <1>3. Remaining(l) = Names(l.todo) /\ Remaining(m) = Names(l.todo) \ {r.name}
    BY <1>1, <1>2 DEF Remaining, Moved
  <1>4. c \in Deciders(K) /\ c \notin Deciders(K)'
    BY <1>1, <1>2, <1>3, <1>K DEF Deciders, Moved
  <1>5. \A k \in Keys : Deciders(k)' \subseteq Deciders(k)
    BY <1>1, <1>3 DEF Deciders, Moved
  <1>6. /\ Len(decided'[K]) = Len(decided[K]) + 1
        /\ \A k \in Keys : k # K => decided'[k] = decided[k]
    BY <1>1 DEF Base, TypeOK
  <1>7. Cardinality(Deciders(K)') < Cardinality(Deciders(K)) /\ Cardinality(Deciders(K)') \in Nat
    <2>1. /\ Cardinality(Deciders(K)') <= Cardinality(Deciders(K))
          /\ Cardinality(Deciders(K)') \in Nat
          /\ Cardinality(Deciders(K)) = Cardinality(Deciders(K)') => Deciders(K)' = Deciders(K)
      BY <1>1, <1>5, CountFacts, FS_Subset, FS_CardinalityType
    <2> QED BY <2>1, <1>1, <1>4, CountFacts
  <1>8. Len(decided[K]) + Cardinality(Deciders(K)) <= arrived /\ arrived <= MaxEvents
    BY <1>1 DEF CountInv, Base, TypeOK
  <1>9. Len(decided[K]) < MaxEvents
    BY <1>1, <1>7, <1>8, CountFacts, IngestAssumption DEF IngestAssumption
  <1>10. ASSUME NEW k \in Keys
         PROVE  (Len(decided[k]) + Cardinality(Deciders(k)) <= arrived)'
    <2>1. CASE k = K
      BY <2>1, <1>1, <1>6, <1>7, <1>8, CountFacts
    <2>2. CASE k # K
      <3>1. Cardinality(Deciders(k)') <= Cardinality(Deciders(k)) /\ Cardinality(Deciders(k)') \in Nat
        BY <1>5, CountFacts, FS_Subset, FS_CardinalityType
      <3> QED BY <2>2, <3>1, <1>1, <1>6, CountFacts DEF CountInv
    <2> QED BY <2>1, <2>2
  <1> QED BY <1>9, <1>10, <1>K DEF CountInv

\* A caller without a request has no decisions left.
LEMMA NoneRemain == Remaining(Idle) = {}
  BY DEF Remaining, Idle

\* Before the first event no decision is made.
LEMMA InitCount == Init => CountInv
  <1> SUFFICES ASSUME Init PROVE CountInv
    OBVIOUS
  <1>1. \A k \in Keys : Deciders(k) = {} /\ decided[k] = <<>>
    BY NoneRemain DEF Init, Deciders
  <1>2. arrived = 0
    BY DEF Init
  <1>3. Cardinality({}) = 0
    BY FS_EmptySet
  <1>4. \A k \in Keys : Cardinality(Deciders(k)) = 0 /\ Len(decided[k]) = 0
    <2>1. Len(<<>>) = 0
      OBVIOUS
    <2> QED BY <1>1, <1>3, <2>1, Zenon
  <1> QED BY <1>2, <1>4 DEF CountInv

\* The routes a caller has yet to decide only become fewer on its way.
LEMMA RemainingShrinks ==
  ASSUME Base, NEW c \in Callers, Statement(c) \/ RouteDone(c)
  PROVE  Moved(c) /\ Remaining(call'[c]) \subseteq Remaining(call[c])
  <1> USE DEF Remaining
  <1>1. CASE InsertEvent(c)
    BY <1>1, InsertEventMoves DEF Moved
  <1>2. CASE GetState(c)
    BY <1>2, GetStateMoves DEF Moved
  <1>3. CASE UpsertState(c)
    BY <1>3, UpsertStateMoves DEF Moved
  <1>4. CASE ListRoutes(c)
    <2>1. \A s \in Seq(Routes) : Names(s) \subseteq RouteNames
      BY DEF Names, RouteNames
    <2>2. call'[c].todo \in Seq(Routes)
      BY <1>4, ListRoutesMoves DEF Moved, Locals
    <2> QED BY <1>4, <2>1, <2>2, ListRoutesMoves DEF Moved
  <1>5. CASE GetRouteDedup(c)
    BY <1>5, GetRouteDedupMoves DEF Moved
  <1>6. CASE UpsertRouteDedup(c)
    <2>1. /\ Moved(c) /\ call[c].pc = "decide" /\ ~call[c].direct /\ call[c].todo # <<>>
          /\ \/ call'[c].pc = "enqueue" /\ call'[c].todo = call[c].todo
             \/ call'[c].pc = "next" /\ call'[c].todo = Tail(call[c].todo)
      BY <1>6, UpsertRouteDedupMoves
    <2>2. Names(Tail(call[c].todo)) \subseteq Names(call[c].todo)
      BY <2>1, TailNames DEF Moved, Flow, Locals
    <2> QED BY <2>1, <2>2 DEF Moved
  <1>7. CASE Enqueue(c)
    BY <1>7, EnqueueMoves DEF Moved
  <1>8. CASE RouteDone(c)
    BY <1>8, RouteDoneMoves DEF Moved
  <1> QED BY <1>1, <1>2, <1>3, <1>4, <1>5, <1>6, <1>7, <1>8 DEF Statement

\* Each step keeps the counts.
LEMMA CountStep == Base /\ CountInv /\ [Next]_vars => CountInv'
  <1> SUFFICES ASSUME Base, CountInv, [Next]_vars PROVE CountInv'
    OBVIOUS
  <1>b. Base'
    BY BaseStep
  <1>1. CASE Tick
    BY <1>1, <1>b, CountShrinks DEF Tick, Deciders, history
  <1>2. CASE Crash
    <2>1. \A k \in Keys : Deciders(k)' = {}
      BY <1>2, BaseCrash, NoneRemain DEF Deciders
    <2> QED BY <1>2, <1>b, <2>1, CountShrinks DEF Crash, history
  <1>3. ASSUME NEW c \in Callers, Arrive(c) PROVE CountInv'
    BY <1>3, <1>b, CountArrive
  <1>4. ASSUME NEW c \in Callers, Step(c) PROVE CountInv'
    <2>1. CASE UpsertRouteDedup(c)
      BY <2>1, CountDecision
    <2>2. CASE (Statement(c) /\ ~UpsertRouteDedup(c)) \/ RouteDone(c)
      <3>1. Moved(c) /\ Remaining(call'[c]) \subseteq Remaining(call[c])
        BY <2>2, RemainingShrinks
      <3>2. \A k \in Keys : Deciders(k)' \subseteq Deciders(k)
        BY <3>1 DEF Deciders, Moved
      <3>3. UNCHANGED <<decided, arrived>>
        BY <2>2 DEF Statement, InsertEvent, GetState, UpsertState, ListRoutes,
                    GetRouteDedup, Enqueue, RouteDone, history
      <3> QED BY <1>b, <3>2, <3>3, CountShrinks
    <2>3. CASE Lock(c) \/ Return(c) \/ Fail(c)
      <3>1. PICK l : Goto(c, l) /\ Remaining(l) \subseteq Remaining(call[c]) /\ (l.fp = call[c].fp \/ Remaining(l) = {})
        <4>1. CASE Lock(c)
          <5>1. call[c] \in Locals /\ call[c].pc = "lock" /\ Goto(c, [call[c] EXCEPT !.pc = "insert"])
            BY <4>1 DEF Lock, Base, TypeOK
          <5>2. /\ [call[c] EXCEPT !.pc = "insert"].pc = "insert"
                /\ [call[c] EXCEPT !.pc = "insert"].direct = call[c].direct
                /\ [call[c] EXCEPT !.pc = "insert"].fp = call[c].fp
            BY <5>1 DEF Locals
          <5> QED BY <5>1, <5>2 DEF Remaining
        <4>2. CASE Return(c) \/ Fail(c)
          BY <4>2, NoneRemain DEF Return, Fail
        <4> QED BY <2>3, <4>1, <4>2
      <3>2. call'[c] = l /\ \A d \in Callers : d # c => call'[d] = call[d]
        BY <3>1 DEF Goto, Base, TypeOK
      <3>3. \A k \in Keys : Deciders(k)' \subseteq Deciders(k)
        BY <3>1, <3>2 DEF Deciders
      <3>4. UNCHANGED <<decided, arrived>>
        BY <2>3 DEF Lock, Return, Fail, history
      <3> QED BY <1>b, <3>3, <3>4, CountShrinks
    <2> QED BY <1>4, <2>1, <2>2, <2>3 DEF Step
  <1>5. CASE UNCHANGED vars
    BY <1>5, <1>b, CountShrinks DEF vars, history, Deciders
  <1> QED BY <1>1, <1>2, <1>3, <1>4, <1>5 DEF Next

-----------------------------------------------------------------------------
(* The refinement of DedupHistory.                                         *)

\* The decision of Ingest is the one of DedupHistory.
LEMMA DecisionMaps ==
  ASSUME Base, CountInv, NEW c \in Callers, UpsertRouteDedup(c)
  PROVE  Serial!Next
  <1> DEFINE l == call[c]
             r == Head(l.todo)
             k == <<l.fp, r.name>>
  <1>1. /\ r \in Routes /\ k \in Keys /\ l.status \in Statuses /\ l.now \in 0..MaxTime
    BY UpsertRouteDedupMoves DEF Moved, Locals
  <1>2. Len(decided[k]) < MaxEvents
    BY CountDecision
  <1>3. Serial!Decide(k, l.status, r.policy, l.now)
    <2>1. dedup' = [dedup EXCEPT ![k] = NextRecord(l.status, dedup[k], EffectivePolicy(r.policy), l.now)]
      BY UpsertRouteDedupMoves
    <2>2. decided' = [decided EXCEPT ![k] =
                        Append(decided[k], [status |-> l.status, policy |-> r.policy, at |-> l.now,
                          notified |-> Notifies(l.status, dedup[k], EffectivePolicy(r.policy), l.now)])]
      BY UpsertRouteDedupMoves
    <2> HIDE DEF k, r, l
    <2> QED BY <1>2, <2>1, <2>2
        DEF Serial!Decide, Serial!Entry, Serial!Notifies, Serial!NextRecord,
            Serial!EffectivePolicy, Serial!ResolvePolicyField, Serial!NextActive, Serial!Never,
            Notifies, NextRecord, EffectivePolicy, ResolvePolicyField, NextActive, Never
  <1>4. r.policy \in {q.policy : q \in Routes} /\ l.status \in Serial!Statuses
    BY <1>1 DEF Statuses, Serial!Statuses
  <1> QED BY <1>1, <1>3, <1>4 DEF Serial!Next

\* Each step is a serial decision or none.
LEMMA StepMaps == Base /\ CountInv /\ [Next]_vars => [Serial!Next]_Serial!vars
  <1> SUFFICES ASSUME Base, CountInv, [Next]_vars, UNCHANGED <<dedup, decided>> => FALSE
               PROVE  Serial!Next
    BY DEF Serial!vars
  <1>1. PICK c \in Callers : UpsertRouteDedup(c)
    BY DEF Next, Tick, Crash, Arrive, Begin, Deliver, Step, Lock, Statement, InsertEvent,
           GetState, UpsertState, ListRoutes, GetRouteDedup, Enqueue, RouteDone, Return, Fail,
           vars, tables, history
  <1> QED BY <1>1, DecisionMaps

(* Concurrent requests decide as if they came one after the other: whatever the
   interleaving, the failing statements and the crashes, the dedup table and the
   decisions are those of DedupHistory, whose rules are proved there. *)
THEOREM DecisionsAreSerial == Spec => DecidesSerially
  <1>1. Init => Serial!Init
    BY DEF Init, Serial!Init, NoRecord, Serial!NoRecord, Never, Serial!Never
  <1>2. Spec => [](Base /\ CountInv)
    BY InitBase, BaseStep, InitCount, CountStep, PTL DEF Spec
  <1> QED BY <1>1, <1>2, StepMaps, PTL DEF Spec, DecidesSerially, Serial!Spec

-----------------------------------------------------------------------------
(* The deliveries of an event.                                             *)

\* A step that queues nothing and numbers no event.
LEMMA EventKept ==
  ASSUME EventInv, NEW c \in Callers,
         \A d \in Callers : d # c => call'[d] = call[d],
         UNCHANGED <<events, deliveries>>,
         Numbered(call'[c]) => /\ Numbered(call[c]) /\ call'[c].event = call[c].event
                               /\ call[c].seen \subseteq call'[c].seen
  PROVE  EventInv'
  <1>1. \A d \in Callers : Numbered(call'[d]) =>
          /\ Numbered(call[d]) /\ call'[d].event = call[d].event
          /\ call[d].seen \subseteq call'[d].seen
    OBVIOUS
  <1>2. OneDeliveryPerProvider'
    BY DEF EventInv, OneDeliveryPerProvider
  <1>3. \A d, e \in Callers : Numbered(call'[d]) /\ Numbered(call'[e])
                              /\ call'[d].event = call'[e].event => d = e
    BY <1>1 DEF EventInv
  <1>4. \A d \in Callers, n \in DOMAIN deliveries :
          Numbered(call'[d]) /\ deliveries[n].event = call'[d].event
            => deliveries[n].provider \in call'[d].seen
    BY <1>1 DEF EventInv
  <1>5. \A d \in Callers : Numbered(call'[d]) => call'[d].event \in 1..events
    BY <1>1 DEF EventInv
  <1> HIDE <1>1
  <1> QED BY <1>2, <1>3, <1>4, <1>5 DEF EventInv

\* A step that queues nothing and owes nothing new.
LEMMA OwedKept ==
  ASSUME OwedInv, NEW c \in Callers,
         \A d \in Callers : d # c => call'[d] = call[d],
         UNCHANGED <<deliveries, owed>>,
         \/ call'[c].seen = {}
         \/ call'[c].event = call[c].event /\ call'[c].seen = call[c].seen,
         faults' = 0 =>
           /\ faults = 0
           /\ call[c].pc = "enqueue" =>
                \/ call[c].pending = <<>>
                \/ /\ call'[c].pc = "enqueue" /\ call'[c].event = call[c].event
                   /\ call'[c].pending = call[c].pending
  PROVE  OwedInv'
  <1>1. \A e, p : Queued(e, p)' <=> Queued(e, p)
    BY DEF Queued
  <1>2. \A d \in Callers : \A p \in call'[d].seen : Queued(call'[d].event, p)
    BY DEF OwedInv
  <1>3. ASSUME faults' = 0, NEW o \in owed, ~Queued(o.event, o.provider)
        PROVE  \E d \in Callers : /\ call'[d].pc = "enqueue" /\ call'[d].event = o.event
                                  /\ o.provider \in Range(call'[d].pending)
    <2>1. PICK d \in Callers : /\ call[d].pc = "enqueue" /\ call[d].event = o.event
                               /\ o.provider \in Range(call[d].pending)
      BY <1>3 DEF OwedInv
    <2>2. call[d].pending # <<>>
      BY <2>1 DEF Range
    <2>3. call'[d].pc = "enqueue" /\ call'[d].event = call[d].event
          /\ call'[d].pending = call[d].pending
      BY <1>3, <2>1, <2>2
    <2> QED BY <2>1, <2>3
  <1> QED BY <1>1, <1>2, <1>3 DEF OwedInv

\* The event is stored before its deliveries.
LEMMA InsertEventOwed ==
  ASSUME Base, EventInv, OwedInv, NEW c \in Callers, InsertEvent(c)
  PROVE  EventInv' /\ OwedInv'
  <1> DEFINE l == call[c]
             m == call'[c]
  <1>1. /\ Moved(c) /\ l.pc = "insert" /\ l.seen = {} /\ m.seen = {} /\ m.event = events + 1
        /\ m.pending = l.pending
    BY InsertEventMoves DEF Moved, Flow
  <1>2. /\ events \in Nat /\ events' = events + 1
        /\ UNCHANGED <<deliveries, owed, faults>>
    BY DEF InsertEvent, Base, TypeOK, history
  <1>3. \A d \in Callers : d # c => call'[d] = call[d]
    BY <1>1 DEF Moved
  <1>4. OwedInv'
    BY <1>1, <1>2, <1>3, OwedKept
  <1>5. 1..events \subseteq 1..(events + 1) /\ events + 1 \in 1..(events + 1) /\ events + 1 \notin 1..events
    BY <1>2
  <1>6. /\ \A d \in Callers : Numbered(call'[d]) => call'[d].event \in 1..events'
        /\ \A n \in DOMAIN deliveries : deliveries[n].event \in 1..events'
    BY <1>1, <1>2, <1>3, <1>5 DEF EventInv
  <1>7. \A d, e \in Callers : Numbered(call'[d]) /\ Numbered(call'[e])
                              /\ call'[d].event = call'[e].event => d = e
    BY <1>1, <1>3, <1>5 DEF EventInv
  <1>8. \A d \in Callers, n \in DOMAIN deliveries :
          Numbered(call'[d]) /\ deliveries[n].event = call'[d].event
            => deliveries[n].provider \in call'[d].seen
    BY <1>1, <1>3, <1>5 DEF EventInv
  <1>9. OneDeliveryPerProvider'
    BY <1>2 DEF EventInv, OneDeliveryPerProvider
  <1> QED BY <1>2, <1>4, <1>6, <1>7, <1>8, <1>9 DEF EventInv

\* A delivery is queued.
LEMMA EnqueueOwed ==
  ASSUME Base, EventInv, OwedInv, NEW c \in Callers, Enqueue(c)
  PROVE  EventInv' /\ OwedInv'
  <1> DEFINE l == call[c]
             m == call'[c]
  <1>p. PICK p : p = Head(l.pending)
    OBVIOUS
  <1>q. PICK q : q = [event |-> l.event, fp |-> l.fp, provider |-> p]
    OBVIOUS
  <1>1. /\ Moved(c) /\ l.pc = "enqueue" /\ l.pending # <<>> /\ m.pc = "enqueue"
        /\ m.event = l.event /\ m.pending = Tail(l.pending) /\ m.seen = l.seen \cup {p}
        /\ p \in Providers /\ q \in Deliveries
        /\ IF p \in l.seen THEN deliveries' = deliveries
           ELSE deliveries' = Append(deliveries, q)
    BY <1>p, <1>q, EnqueueMoves
  <1>2. UNCHANGED <<events, owed, faults>> /\ deliveries \in Seq(Deliveries)
    BY DEF Enqueue, history, Base, TypeOK
  <1>3. \A d \in Callers : d # c => call'[d] = call[d]
    BY <1>1 DEF Moved
  <1>4. q.event = l.event /\ q.provider = p /\ Numbered(l) /\ Numbered(m)
    BY <1>q, <1>1 DEF Numbered
  <1>r. Range(l.pending) = {p} \cup Range(m.pending)
    <2>1. l.pending \in Seq(Providers)
      BY <1>1 DEF Moved, Locals
    <2>2. /\ Len(l.pending) \in Nat \ {0} /\ DOMAIN l.pending = 1..Len(l.pending)
          /\ DOMAIN m.pending = 1..(Len(l.pending) - 1) /\ p = l.pending[1]
          /\ \A n \in DOMAIN m.pending : m.pending[n] = l.pending[n + 1]
      BY <1>1, <1>p, <2>1
    <2>3. \A n \in DOMAIN m.pending : n + 1 \in DOMAIN l.pending
      BY <2>2
    <2>4. \A n \in DOMAIN l.pending : n # 1 => n - 1 \in DOMAIN m.pending /\ (n - 1) + 1 = n
      BY <2>2
    <2>5. ASSUME NEW x \in Range(l.pending), x # p
          PROVE  x \in Range(m.pending)
      <3>1. PICK n \in DOMAIN l.pending : x = l.pending[n]
        BY DEF Range
      <3>2. n # 1
        BY <3>1, <2>2, <2>5
      <3>3. PICK i : i \in DOMAIN m.pending /\ i + 1 = n
        BY <3>1, <3>2, <2>4
      <3>4. m.pending[i] = x
        BY <3>1, <3>3, <2>2
      <3> QED BY <3>3, <3>4 DEF Range
    <2>6. {p} \cup Range(m.pending) \subseteq Range(l.pending)
      BY <2>2, <2>3 DEF Range
    <2> QED BY <2>5, <2>6
  <1>5. CASE p \in l.seen
    <2>1. deliveries' = deliveries
      BY <1>1, <1>5
    <2>2. EventInv'
      BY <1>1, <1>2, <1>3, <1>4, <2>1, EventKept
    <2>3. m.seen = l.seen
      BY <1>1, <1>5
    <2>4. Queued(l.event, p)
      BY <1>5 DEF OwedInv
    <2>5. \A e, x : QueuedIn(deliveries', e, x) <=> Queued(e, x)
      BY <2>1 DEF Queued
    <2>6. \A d \in Callers : \A x \in call'[d].seen : Queued(call'[d].event, x)
      BY <1>1, <1>3, <2>3 DEF OwedInv
    <2>7. ASSUME faults = 0, NEW o \in owed, ~Queued(o.event, o.provider)
          PROVE  \E d \in Callers : /\ call'[d].pc = "enqueue" /\ call'[d].event = o.event
                                    /\ o.provider \in Range(call'[d].pending)
      <3>1. PICK d \in Callers : /\ call[d].pc = "enqueue" /\ call[d].event = o.event
                                 /\ o.provider \in Range(call[d].pending)
        BY <2>7 DEF OwedInv
      <3>2. CASE d = c
        BY <1>1, <1>r, <2>4, <2>7, <3>1, <3>2
      <3>3. CASE d # c
        BY <1>3, <3>1, <3>3
      <3> QED BY <3>2, <3>3
    <2>8. OwedInv'
      BY <1>2, <2>5, <2>6, <2>7 DEF OwedInv, Queued
    <2> QED BY <2>2, <2>8
  <1>6. CASE p \notin l.seen
    <2> DEFINE N == Len(deliveries) + 1
    <2>1. /\ N \in Nat /\ DOMAIN deliveries = 1..Len(deliveries)
          /\ DOMAIN deliveries' = 1..N /\ N \notin DOMAIN deliveries
          /\ \A n \in DOMAIN deliveries' : n = N \/ n \in DOMAIN deliveries
          /\ DOMAIN deliveries \subseteq DOMAIN deliveries' /\ N \in DOMAIN deliveries'
          /\ \A n \in DOMAIN deliveries : deliveries'[n] = deliveries[n]
          /\ deliveries'[N] = q
      BY <1>1, <1>2, <1>6
    <2> HIDE DEF N
    <2>2. \A d \in Callers : /\ Numbered(call'[d]) <=> Numbered(call[d])
                             /\ call'[d].event = call[d].event
                             /\ call[d].seen \subseteq call'[d].seen
      BY <1>1, <1>3, <1>4
    <2>3. l.event \in 1..events
      BY <1>4 DEF EventInv
    <2>4. /\ \A d \in Callers : Numbered(call'[d]) => call'[d].event \in 1..events
          /\ \A d, e \in Callers : Numbered(call'[d]) /\ Numbered(call'[e])
                                   /\ call'[d].event = call'[e].event => d = e
      BY <2>2 DEF EventInv
    <2>5. \A n \in DOMAIN deliveries' : deliveries'[n].event \in 1..events
      BY <1>4, <2>1, <2>3 DEF EventInv
    <2>6. ASSUME NEW d \in Callers, NEW n \in DOMAIN deliveries', Numbered(call'[d]),
                 deliveries'[n].event = call'[d].event
          PROVE  deliveries'[n].provider \in call'[d].seen
      <3>1. CASE n = N
        <4>1. d = c
          BY <2>1, <2>2, <2>6, <3>1, <1>4 DEF EventInv
        <4> QED BY <4>1, <2>1, <3>1, <1>1, <1>4
      <3>2. CASE n \in DOMAIN deliveries
        <4>1. deliveries[n].provider \in call[d].seen
          BY <2>1, <2>2, <2>6, <3>2 DEF EventInv
        <4> QED BY <4>1, <2>1, <2>2, <3>2
      <3> QED BY <2>1, <3>1, <3>2
    <2>7. \A n \in DOMAIN deliveries : deliveries[n].event = l.event => deliveries[n].provider # p
      BY <1>4, <1>6 DEF EventInv
    <2>8. OneDeliveryPerProvider'
      <3> SUFFICES ASSUME NEW i \in DOMAIN deliveries', NEW n \in DOMAIN deliveries',
                          deliveries'[i].event = deliveries'[n].event,
                          deliveries'[i].provider = deliveries'[n].provider
                   PROVE  i = n
        BY DEF OneDeliveryPerProvider
      <3>1. CASE i = N /\ n = N
        BY <3>1
      <3>2. CASE i = N /\ n \in DOMAIN deliveries
        BY <3>2, <2>1, <2>7, <1>4
      <3>3. CASE n = N /\ i \in DOMAIN deliveries
        BY <3>3, <2>1, <2>7, <1>4
      <3>4. CASE i \in DOMAIN deliveries /\ n \in DOMAIN deliveries
        BY <3>4, <2>1 DEF EventInv, OneDeliveryPerProvider
      <3> QED BY <2>1, <3>1, <3>2, <3>3, <3>4
    <2>9. EventInv'
      BY <1>2, <2>4, <2>5, <2>6, <2>8 DEF EventInv
    <2>10. /\ \A e, x : Queued(e, x) => QueuedIn(deliveries', e, x)
           /\ QueuedIn(deliveries', l.event, p)
      BY <2>1, <1>4 DEF Queued, QueuedIn
    <2>11. \A d \in Callers : \A x \in call'[d].seen : QueuedIn(deliveries', call'[d].event, x)
      BY <1>1, <1>3, <2>10 DEF OwedInv
    <2>12. ASSUME faults = 0, NEW o \in owed
           PROVE  \/ QueuedIn(deliveries', o.event, o.provider)
                  \/ \E d \in Callers : /\ call'[d].pc = "enqueue" /\ call'[d].event = o.event
                                        /\ o.provider \in Range(call'[d].pending)
      <3>1. CASE Queued(o.event, o.provider)
        BY <3>1, <2>10
      <3>2. CASE ~Queued(o.event, o.provider)
        <4>1. PICK d \in Callers : /\ call[d].pc = "enqueue" /\ call[d].event = o.event
                                   /\ o.provider \in Range(call[d].pending)
          BY <2>12, <3>2 DEF OwedInv
        <4>2. CASE d = c
          <5>1. o.event = l.event /\ (o.provider = p \/ o.provider \in Range(m.pending))
            BY <4>1, <4>2, <1>r
          <5>2. CASE o.provider = p
            BY <2>10, <5>1, <5>2
          <5>3. CASE o.provider \in Range(m.pending)
            BY <1>1, <5>1, <5>3
          <5> QED BY <5>1, <5>2, <5>3
        <4>3. CASE d # c
          BY <1>3, <4>1, <4>3
        <4> QED BY <4>2, <4>3
      <3> QED BY <3>1, <3>2
    <2>13. OwedInv'
      BY <1>2, <2>11, <2>12 DEF OwedInv, Queued
    <2> QED BY <2>9, <2>13
  <1> QED BY <1>5, <1>6

\* A decision to notify owes deliveries that its caller has before it.
LEMMA DecisionOwed ==
  ASSUME Base, EventInv, OwedInv, NEW c \in Callers, UpsertRouteDedup(c)
  PROVE  EventInv' /\ OwedInv'
  <1> DEFINE l == call[c]
             m == call'[c]
             r == Head(l.todo)
  <1>1. /\ Moved(c) /\ l.pc = "decide" /\ m.event = l.event /\ m.seen = l.seen
        /\ \/ /\ m.pc = "enqueue" /\ m.pending = r.providers
              /\ owed' = owed \cup {[event |-> l.event, provider |-> r.providers[n]] :
                                      n \in DOMAIN r.providers}
           \/ m.pc = "next" /\ owed' = owed
    BY UpsertRouteDedupMoves
  <1>2. UNCHANGED <<events, deliveries, faults>>
    BY DEF UpsertRouteDedup
  <1>3. \A d \in Callers : d # c => call'[d] = call[d]
    BY <1>1 DEF Moved
  <1>4. EventInv'
    BY <1>1, <1>2, <1>3, EventKept DEF Numbered
  <1>5. OwedInv'
    <2>1. CASE owed' = owed
      BY <1>1, <1>2, <1>3, <2>1, OwedKept
    <2>2. CASE m.pc = "enqueue" /\ m.pending = r.providers
               /\ owed' = owed \cup {[event |-> l.event, provider |-> r.providers[n]] :
                                       n \in DOMAIN r.providers}
      <3>1. \A e, p : QueuedIn(deliveries', e, p) <=> Queued(e, p)
        BY <1>2 DEF Queued
      <3>2. \A d \in Callers : \A p \in call'[d].seen : Queued(call'[d].event, p)
        BY <1>1, <1>3 DEF OwedInv
      <3>3. ASSUME faults = 0, NEW o \in owed', ~Queued(o.event, o.provider)
            PROVE  \E d \in Callers : /\ call'[d].pc = "enqueue" /\ call'[d].event = o.event
                                      /\ o.provider \in Range(call'[d].pending)
        <4>1. CASE o \in owed
          <5>1. PICK d \in Callers : /\ call[d].pc = "enqueue" /\ call[d].event = o.event
                                     /\ o.provider \in Range(call[d].pending)
            BY <3>3, <4>1 DEF OwedInv
          <5> QED BY <5>1, <1>1, <1>3
        <4>2. CASE o \notin owed
          <5>1. PICK n \in DOMAIN r.providers :
                  o = [event |-> l.event, provider |-> r.providers[n]]
            BY <2>2, <3>3, <4>2
          <5>2. o.provider \in Range(m.pending) /\ o.event = l.event
            BY <5>1, <2>2 DEF Range
          <5> QED BY <5>2, <1>1, <2>2
        <4> QED BY <4>1, <4>2
      <3> QED BY <1>2, <3>1, <3>2, <3>3 DEF OwedInv, Queued
    <2> QED BY <1>1, <2>1, <2>2
  <1> QED BY <1>4, <1>5

\* Before the first event nothing is owed.
LEMMA InitOwed == Init => EventInv /\ OwedInv
  <1> SUFFICES ASSUME Init PROVE EventInv /\ OwedInv
    OBVIOUS
  <1>1. /\ deliveries = <<>> /\ owed = {}
        /\ \A c \in Callers : ~Numbered(call[c]) /\ call[c].seen = {}
    BY IdleLocals DEF Init, Numbered, Flow
  <1>2. DOMAIN deliveries = {}
    BY <1>1
  <1> QED BY <1>1, <1>2 DEF EventInv, OwedInv, OneDeliveryPerProvider

\* Each step keeps what is owed.
LEMMA OwedStep == Base /\ EventInv /\ OwedInv /\ [Next]_vars => EventInv' /\ OwedInv'
  <1> SUFFICES ASSUME Base, EventInv, OwedInv, [Next]_vars PROVE EventInv' /\ OwedInv'
    OBVIOUS
  <1>i. Idle.pc = "idle" /\ Idle.seen = {} /\ ~Numbered(Idle)
    BY IdleLocals DEF Flow, Numbered
  <1>1. CASE Tick \/ UNCHANGED vars
    BY <1>1 DEF Tick, vars, tables, history, EventInv, OwedInv, OneDeliveryPerProvider,
                Queued, QueuedIn
  <1>2. CASE Crash
    <2>1. /\ \A c \in Callers : call'[c] = Idle
          /\ UNCHANGED <<events, deliveries, owed>> /\ faults' # 0
      BY <1>2, BaseCrash DEF Crash, Fault, tables, history, Base, TypeOK
    <2>2. \A c \in Callers : ~Numbered(call'[c]) /\ call'[c].seen = {}
      BY <1>i, <2>1
    <2> QED BY <2>1, <2>2 DEF EventInv, OwedInv, OneDeliveryPerProvider
  <1>3. ASSUME NEW c \in Callers, Arrive(c) \/ Step(c) PROVE EventInv' /\ OwedInv'
    <2>t. call \in [Callers -> Locals] /\ Flow(call[c]) /\ faults \in Nat
      BY DEF Base, TypeOK, FlowInv
    <2>1. CASE InsertEvent(c)
      BY <2>1, InsertEventOwed
    <2>2. CASE UpsertRouteDedup(c)
      BY <2>2, DecisionOwed
    <2>3. CASE Enqueue(c)
      BY <2>3, EnqueueOwed
    <2>4. CASE GetState(c) \/ UpsertState(c) \/ ListRoutes(c) \/ GetRouteDedup(c)
      <3>1. /\ Moved(c) /\ call[c].pc \in {"getState", "upsertState", "routes", "next"}
            /\ call'[c].event = call[c].event /\ call'[c].seen = call[c].seen
        BY <2>4, GetStateMoves, UpsertStateMoves, ListRoutesMoves, GetRouteDedupMoves, Zenon
      <3>2. UNCHANGED <<events, deliveries, owed, faults>>
        BY <2>4 DEF GetState, UpsertState, ListRoutes, GetRouteDedup, tables, history
      <3> QED BY <3>1, <3>2, EventKept, OwedKept DEF Moved, Numbered
    <2>5. CASE RouteDone(c)
      <3>1. /\ Moved(c) /\ call[c].pc = "enqueue" /\ call[c].pending = <<>>
            /\ call'[c].event = call[c].event /\ call'[c].seen = call[c].seen
        BY <2>5, RouteDoneMoves
      <3>2. UNCHANGED <<events, deliveries, owed, faults>>
        BY <2>5 DEF RouteDone, tables, history
      <3> QED BY <3>1, <3>2, EventKept, OwedKept DEF Moved, Numbered
    <2>6. CASE Lock(c) \/ Arrive(c)
      <3>1. PICK l : Goto(c, l) /\ l.seen = {} /\ l.pc \in {"lock", "insert"}
        <4>1. CASE Lock(c)
          <5>1. /\ call[c] \in Locals /\ call[c].seen = {}
                /\ Goto(c, [call[c] EXCEPT !.pc = "insert"])
            BY <2>t, <4>1 DEF Lock, Flow
          <5>2. /\ [call[c] EXCEPT !.pc = "insert"].pc = "insert"
                /\ [call[c] EXCEPT !.pc = "insert"].seen = call[c].seen
            BY <5>1 DEF Locals
          <5> QED BY <5>1, <5>2
        <4>2. ASSUME NEW f \in Fingerprints, NEW s \in Statuses, Begin(c, f, s)
              PROVE  \E l : Goto(c, l) /\ l.seen = {} /\ l.pc \in {"lock", "insert"}
          <5> DEFINE l == [Idle EXCEPT !.pc = "lock", !.fp = f, !.status = s, !.now = clock]
          <5>1. Goto(c, l)
            BY <4>2 DEF Begin
          <5>2. l.seen = {} /\ l.pc = "lock"
            BY <1>i DEF Idle
          <5> QED BY <5>1, <5>2
        <4>3. ASSUME NEW ps \in DirectLists, Deliver(c, ps)
              PROVE  \E l : Goto(c, l) /\ l.seen = {} /\ l.pc \in {"lock", "insert"}
          <5> DEFINE l == [Idle EXCEPT !.pc = "insert", !.direct = TRUE, !.now = clock, !.pending = ps]
          <5>1. Goto(c, l)
            BY <4>3 DEF Deliver
          <5>2. l.seen = {} /\ l.pc = "insert"
            BY <1>i DEF Idle
          <5> QED BY <5>1, <5>2
        <4> QED BY <2>6, <4>1, <4>2, <4>3 DEF Arrive
      <3>2. call'[c] = l /\ \A d \in Callers : d # c => call'[d] = call[d]
        BY <2>t, <3>1 DEF Goto
      <3>3. UNCHANGED <<events, deliveries, owed, faults>> /\ call[c].pc \in {"idle", "lock"}
        BY <2>6 DEF Lock, Arrive, Begin, Deliver, tables, history
      <3> QED BY <3>1, <3>2, <3>3, EventKept, OwedKept DEF Numbered
    <2>7. CASE Return(c) \/ Fail(c)
      <3>1. Goto(c, Idle) /\ UNCHANGED <<events, deliveries, owed>>
        BY <2>7 DEF Return, Fail, tables, history
      <3>2. call'[c] = Idle /\ \A d \in Callers : d # c => call'[d] = call[d]
        BY <2>t, <3>1 DEF Goto
      <3>3. EventInv'
        BY <1>i, <3>1, <3>2, EventKept
      <3>4. faults' = 0 => faults = 0 /\ (call[c].pc = "enqueue" => call[c].pending = <<>>)
        BY <2>t, <2>7 DEF Return, Fail, Fault
      <3>5. OwedInv'
        BY <1>i, <3>1, <3>2, <3>4, OwedKept
      <3> QED BY <3>3, <3>5
    <2> QED BY <1>3, <2>1, <2>2, <2>3, <2>4, <2>5, <2>6, <2>7 DEF Step, Statement
  <1> QED BY <1>1, <1>2, <1>3 DEF Next

(* A provider has at most one delivery per event, and while no statement has
   failed, every delivery that a decision to notify asks for is queued by the time
   its request is answered, whatever other requests and plugins do meanwhile. *)
THEOREM OwedQueued == Spec => []OwedIsQueued
  <1>1. Base /\ EventInv /\ OwedInv => OwedIsQueued
    BY DEF EventInv, OwedInv, OwedIsQueued, InProgress, Queued, QueuedIn
  <1> QED BY InitBase, BaseStep, InitOwed, OwedStep, <1>1, PTL DEF Spec

-----------------------------------------------------------------------------
(* The record of a route and the states table.                             *)

\* A caller other than c that is past the mutex works on another fingerprint.
LEMMA OthersElsewhere ==
  ASSUME Base, NEW c \in Callers, NEW d \in Callers, d # c,
         Serving(call[c]), Serving(call[d])
  PROVE  call[c].fp # call[d].fp
  BY DEF Base, MutexInv

\* Who goes through the routes has the mutex.
LEMMA RoutingServes ==
  \A l : Flow(l) /\ (Routing(l) \/ l.pc = "upsertState") => Serving(l)
  BY DEF Routing, Serving, Flow

\* A step that writes neither table.
LEMMA FlagKept ==
  ASSUME FlagInv, NEW c \in Callers,
         \A d \in Callers : d # c => call'[d] = call[d],
         UNCHANGED <<state, dedup, faults>>,
         faults = 0 => (call'[c].was.active => call'[c].was.known),
         Routing(call'[c]) => /\ Routing(call[c]) /\ call'[c].fp = call[c].fp
                              /\ call'[c].status = call[c].status,
         Routing(call[c]) /\ call[c].status = "resolved" =>
           \A r \in RouteNames : SeesResolves(r) /\ r \in Remaining(call[c]) =>
             /\ Routing(call'[c]) /\ r \in Remaining(call'[c])
             /\ call'[c].fp = call[c].fp /\ call'[c].status = call[c].status,
         faults = 0 /\ (Routing(call'[c]) \/ call'[c].pc = "upsertState") =>
           \A r \in RouteNames :
             SeesResolves(r) /\ r \in Remaining(call'[c]) /\ dedup[<<call'[c].fp, r>>].active
               => call'[c].was.active
  PROVE  FlagInv'
  <1> SUFFICES ASSUME faults = 0 PROVE FlagInv'
    BY DEF FlagInv
  <1>1. \A f \in Fingerprints : state'[f].active => state'[f].known
    BY DEF FlagInv
  <1>2. \A d \in Callers : call'[d].was.active => call'[d].was.known
    BY DEF FlagInv
  <1>3. \A d \in Callers : Routing(call'[d]) /\ call'[d].status = "firing"
                             => state'[call'[d].fp].active
    BY DEF FlagInv
  <1>4. ASSUME NEW k \in Keys, SeesResolves(k[2]), dedup[k].active, ~state[k[1]].active
        PROVE  \E d \in Callers : /\ Routing(call'[d]) /\ call'[d].status = "resolved"
                                  /\ call'[d].fp = k[1] /\ k[2] \in Remaining(call'[d])
    <2>1. PICK d \in Callers : /\ Routing(call[d]) /\ call[d].status = "resolved"
                               /\ call[d].fp = k[1] /\ k[2] \in Remaining(call[d])
      BY <1>4 DEF FlagInv
    <2>2. k[2] \in RouteNames
      BY DEF Keys
    <2> QED BY <1>4, <2>1, <2>2
  <1>5. \A d \in Callers, r \in RouteNames :
          /\ Routing(call'[d]) \/ call'[d].pc = "upsertState"
          /\ SeesResolves(r) /\ r \in Remaining(call'[d]) /\ dedup'[<<call'[d].fp, r>>].active
          => call'[d].was.active
    BY DEF FlagInv
  <1>6. \A r : SeesResolves(r)' <=> SeesResolves(r)
    BY DEF SeesResolves
  <1> HIDE DEF SeesResolves
  <1> QED BY <1>1, <1>2, <1>3, <1>4, <1>5, <1>6 DEF FlagInv

\* The flag is read under the mutex.
LEMMA GetStateFlag ==
  ASSUME Base, FlagInv, NEW c \in Callers, GetState(c)
  PROVE  FlagInv'
  <1> DEFINE l == call[c]
             m == call'[c]
  <1>1. /\ Moved(c) /\ l.pc = "getState" /\ m.pc = "upsertState" /\ m.was = state[l.fp]
    BY GetStateMoves
  <1>2. UNCHANGED <<state, dedup, faults>>
    BY DEF GetState, tables
  <1>3. l.fp \in Fingerprints /\ m.fp = l.fp /\ Serving(l) /\ ~Routing(l) /\ ~Routing(m)
    BY <1>1 DEF Moved, Locals, Flow, Serving, Routing
  <1>4. faults = 0 => (m.was.active => m.was.known)
    BY <1>1, <1>3 DEF FlagInv
  <1>5. ASSUME faults = 0, NEW r \in RouteNames, SeesResolves(r), dedup[<<m.fp, r>>].active
        PROVE  m.was.active
    <2>1. <<l.fp, r>> \in Keys /\ <<l.fp, r>>[1] = l.fp /\ <<l.fp, r>>[2] = r
      BY <1>3 DEF Keys
    <2>2. \/ state[l.fp].active
          \/ \E d \in Callers : Routing(call[d]) /\ call[d].fp = l.fp
      BY <1>3, <1>5, <2>1 DEF FlagInv
    <2>3. ASSUME NEW d \in Callers, Routing(call[d]), call[d].fp = l.fp
          PROVE  FALSE
      <3>1. Serving(call[d]) /\ d # c
        BY <1>3, <2>3, RoutingServes DEF Base, FlowInv
      <3> QED BY <1>3, <2>3, <3>1, OthersElsewhere
    <2> QED BY <1>1, <2>2, <2>3
  <1>6. \A d \in Callers : d # c => call'[d] = call[d]
    BY <1>1 DEF Moved
  <1> HIDE DEF l, m
  <1>7. /\ call[c] = l /\ call'[c] = m
    BY DEF l, m
  <1> QED BY <1>2, <1>3, <1>4, <1>5, <1>6, <1>7, FlagKept

\* The flag of the states table is what the event makes of it.
LEMMA UpsertStateFlag ==
  ASSUME Base, FlagInv, NEW c \in Callers, UpsertState(c)
  PROVE  FlagInv'
  <1> DEFINE l == call[c]
             m == call'[c]
  <1>1. /\ Moved(c) /\ l.pc = "upsertState" /\ m.pc = "routes" /\ m.was = l.was
        /\ state'[l.fp].known /\ state'[l.fp].active = ComputeActive(l.status, l.was)
        /\ \A f \in Fingerprints : f # l.fp => state'[f] = state[f]
    BY UpsertStateMoves
  <1>2. UNCHANGED <<dedup, faults>>
    BY DEF UpsertState
  <1>3. /\ l.fp \in Fingerprints /\ l.status \in Statuses /\ m.fp = l.fp /\ m.status = l.status
        /\ Serving(l) /\ Serving(m) /\ ~Routing(l) /\ Routing(m)
        /\ Remaining(l) = RouteNames /\ Remaining(m) = RouteNames
    BY <1>1 DEF Moved, Locals, Flow, Serving, Routing, Remaining
  <1>4. \A d \in Callers : d # c => call'[d] = call[d]
    BY <1>1 DEF Moved
  <1>5. SUFFICES ASSUME faults = 0 PROVE FlagInv'
    BY <1>2 DEF FlagInv
  <1>6. \A f \in Fingerprints : state'[f].active => state'[f].known
    BY <1>1, <1>3, <1>5 DEF FlagInv
  <1>7. \A d \in Callers : call'[d].was.active => call'[d].was.known
    BY <1>1, <1>4, <1>5 DEF FlagInv
  <1>8. ASSUME NEW d \in Callers, Routing(call'[d]), call'[d].status = "firing"
        PROVE  state'[call'[d].fp].active
    <2>1. CASE d = c
      BY <1>1, <1>3, <1>8, <2>1 DEF ComputeActive
    <2>2. CASE d # c
      <3>1. Serving(call[d]) /\ call[d] \in Locals /\ call'[d] = call[d]
        BY <1>4, <1>8, <2>2, RoutingServes DEF Base, FlowInv, TypeOK
      <3>2. call[d].fp # l.fp /\ call[d].fp \in Fingerprints
        BY <1>3, <2>2, <3>1, OthersElsewhere DEF Locals
      <3> QED BY <1>1, <1>5, <1>8, <3>1, <3>2 DEF FlagInv
    <2> QED BY <2>1, <2>2
  <1>9. ASSUME NEW k \in Keys, SeesResolves(k[2]), dedup[k].active
        PROVE  \/ state'[k[1]].active
               \/ \E d \in Callers : /\ Routing(call'[d]) /\ call'[d].status = "resolved"
                                     /\ call'[d].fp = k[1] /\ k[2] \in Remaining(call'[d])
    <2>1. k[1] \in Fingerprints /\ k[2] \in RouteNames /\ k = <<k[1], k[2]>>
      BY DEF Keys
    <2>2. CASE k[1] # l.fp
      <3>1. state'[k[1]] = state[k[1]]
        BY <1>1, <2>1, <2>2
      <3>2. CASE ~state[k[1]].active
        <4>1. PICK d \in Callers : /\ Routing(call[d]) /\ call[d].status = "resolved"
                                   /\ call[d].fp = k[1] /\ k[2] \in Remaining(call[d])
          BY <1>5, <1>9, <3>2 DEF FlagInv
        <4> QED BY <4>1, <1>4, <2>2
      <3> QED BY <3>1, <3>2
    <2>3. CASE k[1] = l.fp /\ l.status = "resolved"
      BY <1>3, <2>1, <2>3
    <2>4. CASE k[1] = l.fp /\ l.status = "firing"
      BY <1>1, <2>4 DEF ComputeActive
    <2>5. CASE k[1] = l.fp /\ l.status = "none"
      <3>1. l.was.active
        BY <1>1, <1>3, <1>5, <1>9, <2>1, <2>5 DEF FlagInv
      <3>2. l.was.known
        BY <1>5, <3>1 DEF FlagInv
      <3> QED BY <1>1, <2>5, <3>1, <3>2 DEF ComputeActive
    <2> QED BY <1>3, <2>2, <2>3, <2>4, <2>5 DEF Statuses
  <1>10. \A d \in Callers, r \in RouteNames :
           /\ Routing(call'[d]) \/ call'[d].pc = "upsertState"
           /\ SeesResolves(r) /\ r \in Remaining(call'[d]) /\ dedup'[<<call'[d].fp, r>>].active
           => call'[d].was.active
    <2> SUFFICES ASSUME NEW d \in Callers, NEW r \in RouteNames,
                        Routing(call'[d]) \/ call'[d].pc = "upsertState",
                        SeesResolves(r), r \in Remaining(call'[d]),
                        dedup[<<call'[d].fp, r>>].active
                 PROVE  call'[d].was.active
      BY <1>2
    <2>1. CASE d = c
      BY <1>1, <1>3, <1>5, <2>1 DEF FlagInv
    <2>2. CASE d # c
      BY <1>4, <1>5, <2>2 DEF FlagInv
    <2> QED BY <2>1, <2>2
  <1>11. \A r : SeesResolves(r)' <=> SeesResolves(r)
    BY DEF SeesResolves
  <1> HIDE DEF l, m
  <1> QED BY <1>2, <1>6, <1>7, <1>8, <1>9, <1>10, <1>11 DEF FlagInv

\* A decision leaves the flag as the status of the event says.
LEMMA DecisionFlag ==
  ASSUME Base, FlagInv, NEW c \in Callers, UpsertRouteDedup(c)
  PROVE  FlagInv'
  <1> DEFINE l == call[c]
             m == call'[c]
             r == Head(l.todo)
  <1>0. <<l.fp, r.name>> \in Keys
    BY UpsertRouteDedupMoves
  <1>K. PICK K \in Keys : K = <<l.fp, r.name>>
    BY <1>0
  <1>1. /\ Moved(c) /\ l.pc = "decide" /\ ~l.direct /\ l.todo # <<>> /\ m.was = l.was
        /\ \E pol : dedup' = [dedup EXCEPT ![K] = NextRecord(l.status, dedup[K], pol, l.now)]
        /\ \/ m.pc = "enqueue" /\ m.todo = l.todo
           \/ m.pc = "next" /\ m.todo = Tail(l.todo)
    BY <1>K, UpsertRouteDedupMoves
  <1>2. UNCHANGED <<state, faults>>
    BY DEF UpsertRouteDedup
  <1>3. \A d \in Callers : d # c => call'[d] = call[d]
    BY <1>1 DEF Moved
  <1>4. /\ l.status \in Statuses /\ m.fp = l.fp /\ m.status = l.status
        /\ Routing(l) /\ Routing(m) /\ Serving(l)
    BY <1>1 DEF Moved, Locals, Routing, Serving
  <1>5. Names(Tail(l.todo)) = Names(l.todo) \ {r.name} /\ r.name \in Names(l.todo)
    BY <1>1, TailNames DEF Moved, Flow, Locals
  <1>6. Remaining(l) = Names(l.todo) /\ Remaining(m) = Names(l.todo) \ {r.name}
    BY <1>1, <1>5 DEF Remaining, Moved
  <1>7. /\ dedup'[K].active = NextActive(l.status, dedup[K])
        /\ \A k \in Keys : k # K => dedup'[k] = dedup[k]
    BY <1>1 DEF Base, TypeOK, NextRecord
  <1>8. SUFFICES ASSUME faults = 0 PROVE FlagInv'
    BY <1>2 DEF FlagInv
  <1>9. /\ \A f \in Fingerprints : state'[f].active => state'[f].known
        /\ \A d \in Callers : call'[d].was.active => call'[d].was.known
        /\ \A d \in Callers : Routing(call'[d]) /\ call'[d].status = "firing"
                                => state'[call'[d].fp].active
    BY <1>1, <1>2, <1>3, <1>4, <1>8 DEF FlagInv
  <1>10. ASSUME NEW k \in Keys, SeesResolves(k[2]), dedup'[k].active
         PROVE  \/ state'[k[1]].active
                \/ \E d \in Callers : /\ Routing(call'[d]) /\ call'[d].status = "resolved"
                                      /\ call'[d].fp = k[1] /\ k[2] \in Remaining(call'[d])
    <2>1. k = <<k[1], k[2]>> /\ K[1] = l.fp /\ K[2] = r.name
      BY <1>K DEF Keys
    <2>2. CASE k # K
      <3>1. SUFFICES ASSUME ~state[k[1]].active
                     PROVE  \E d \in Callers :
                              /\ Routing(call'[d]) /\ call'[d].status = "resolved"
                              /\ call'[d].fp = k[1] /\ k[2] \in Remaining(call'[d])
        BY <1>2
      <3>2. PICK d \in Callers : /\ Routing(call[d]) /\ call[d].status = "resolved"
                                 /\ call[d].fp = k[1] /\ k[2] \in Remaining(call[d])
        BY <1>7, <1>8, <1>10, <2>2, <3>1 DEF FlagInv
      <3>3. CASE d = c
        BY <1>4, <1>6, <1>K, <2>1, <2>2, <3>2, <3>3
      <3>4. CASE d # c
        BY <1>3, <3>2, <3>4
      <3> QED BY <3>3, <3>4
    <2>3. CASE k = K /\ l.status = "firing"
      BY <1>2, <1>4, <1>8, <2>1, <2>3 DEF FlagInv
    <2>4. CASE k = K /\ l.status = "resolved"
      BY <1>7, <1>10, <2>4 DEF NextActive
    <2>5. CASE k = K /\ l.status = "none"
      <3>1. dedup[K].active
        BY <1>7, <1>10, <2>5 DEF NextActive
      <3>2. \A d \in Callers : Routing(call[d]) /\ call[d].fp = l.fp => d = c
        BY <1>4, OthersElsewhere, RoutingServes DEF Base, FlowInv
      <3> QED BY <1>2, <1>8, <1>10, <2>1, <2>5, <3>1, <3>2 DEF FlagInv
    <2> QED BY <1>4, <2>2, <2>3, <2>4, <2>5 DEF Statuses
  <1>11. ASSUME NEW d \in Callers, NEW n \in RouteNames,
                Routing(call'[d]) \/ call'[d].pc = "upsertState",
                SeesResolves(n), n \in Remaining(call'[d]), dedup'[<<call'[d].fp, n>>].active
         PROVE  call'[d].was.active
    <2>1. CASE d = c
      <3>1. <<l.fp, n>> \in Keys /\ <<l.fp, n>> # K
        BY <1>6, <1>11, <1>K, <2>1 DEF Keys
      <3>2. dedup[<<l.fp, n>>].active
        BY <1>4, <1>7, <1>11, <2>1, <3>1
      <3> QED BY <1>1, <1>4, <1>6, <1>8, <1>11, <2>1, <3>2 DEF FlagInv
    <2>2. CASE d # c
      <3>1. /\ Serving(call[d]) /\ call[d] \in Locals /\ call'[d] = call[d]
        BY <1>3, <1>11, <2>2, RoutingServes DEF Base, FlowInv, TypeOK
      <3>2. call[d].fp # l.fp /\ call[d].fp \in Fingerprints
        BY <1>4, <2>2, <3>1, OthersElsewhere DEF Locals
      <3>3. <<call[d].fp, n>> \in Keys /\ <<call[d].fp, n>> # K
        BY <1>K, <3>2 DEF Keys
      <3> QED BY <1>7, <1>8, <1>11, <3>1, <3>3 DEF FlagInv
    <2> QED BY <2>1, <2>2
  <1>12. \A n : SeesResolves(n)' <=> SeesResolves(n)
    BY DEF SeesResolves
  <1> HIDE DEF l, m, r
  <1> QED BY <1>2, <1>9, <1>10, <1>11, <1>12 DEF FlagInv

\* Before the first event nothing fires.
LEMMA InitFlag == Init => FlagInv
  <1> SUFFICES ASSUME Init PROVE FlagInv
    OBVIOUS
  <1>1. /\ \A f \in Fingerprints : ~state[f].active
        /\ \A k \in Keys : ~dedup[k].active
        /\ \A c \in Callers : ~call[c].was.active /\ ~Routing(call[c])
                              /\ call[c].pc # "upsertState"
    BY IdleLocals DEF Init, Idle, Unseen, NoRecord, Routing
  <1> HIDE DEF Init
  <1> QED BY <1>1 DEF FlagInv

\* Each step keeps the flag.
LEMMA FlagStep == Base /\ FlagInv /\ [Next]_vars => FlagInv'
  <1> SUFFICES ASSUME Base, FlagInv, [Next]_vars PROVE FlagInv'
    OBVIOUS
  <1>i. ~Idle.was.active /\ ~Routing(Idle) /\ Idle.pc # "upsertState"
    BY DEF Idle, Unseen, Routing
  <1>t. call \in [Callers -> Locals] /\ faults \in Nat
    BY DEF Base, TypeOK
  <1>1. CASE Tick \/ UNCHANGED vars
    <2>1. UNCHANGED <<call, state, dedup, faults>>
      BY <1>1 DEF Tick, vars, tables
    <2> QED BY <2>1 DEF FlagInv, SeesResolves
  <1>2. CASE Crash
    BY <1>2, <1>t DEF Crash, Fault, FlagInv
  <1>3. ASSUME NEW c \in Callers, Arrive(c) \/ Step(c) PROVE FlagInv'
    <2>1. CASE GetState(c)
      BY <2>1, GetStateFlag
    <2>2. CASE UpsertState(c)
      BY <2>2, UpsertStateFlag
    <2>3. CASE UpsertRouteDedup(c)
      BY <2>3, DecisionFlag
    <2>4. CASE InsertEvent(c)
      <3>1. /\ Moved(c) /\ call[c].pc = "insert"
            /\ call'[c].pc = "getState" \/ (call'[c].direct /\ call'[c].pc = "enqueue")
            /\ call'[c].was = call[c].was
        BY <2>4, InsertEventMoves DEF Moved
      <3>2. ~Routing(call[c]) /\ ~Routing(call'[c]) /\ call'[c].pc # "upsertState"
        BY <3>1 DEF Routing
      <3>3. UNCHANGED <<state, dedup, faults>>
        BY <2>4 DEF InsertEvent
      <3>4. faults = 0 => (call'[c].was.active => call'[c].was.known)
        BY <3>1 DEF FlagInv
      <3> QED BY <3>1, <3>2, <3>3, <3>4, FlagKept DEF Moved
    <2>5. CASE ListRoutes(c) \/ GetRouteDedup(c) \/ Enqueue(c) \/ RouteDone(c)
      <3>1. /\ Moved(c) /\ call'[c].was = call[c].was
            /\ Remaining(call'[c]) \subseteq Remaining(call[c])
        BY <2>5, ListRoutesMoves, GetRouteDedupMoves, EnqueueMoves, RouteDoneMoves,
           RemainingShrinks, Zenon DEF Statement
      <3>2. /\ Routing(call'[c]) <=> Routing(call[c])
            /\ call[c].pc # "upsertState" /\ call'[c].pc # "upsertState"
        BY <2>5, <3>1, ListRoutesMoves, GetRouteDedupMoves, EnqueueMoves, RouteDoneMoves
        DEF Routing, Moved
      <3>3. UNCHANGED <<state, dedup, faults>>
        BY <2>5 DEF ListRoutes, GetRouteDedup, Enqueue, RouteDone, tables
      <3>4. ASSUME Routing(call[c]), call[c].status = "resolved", NEW r \in RouteNames,
                   SeesResolves(r), r \in Remaining(call[c])
            PROVE  r \in Remaining(call'[c])
        <4>1. CASE ListRoutes(c)
          <5>1. /\ call'[c].todo \in Matched["resolved"] /\ call'[c].pc = "next"
                /\ ~call'[c].direct
            BY <3>4, <4>1, ListRoutesMoves DEF Moved, Routing
          <5> QED BY <5>1, <3>4 DEF SeesResolves, Names, Remaining
        <4>2. CASE GetRouteDedup(c)
          BY <4>2, <3>4, GetRouteDedupMoves DEF Moved, Remaining
        <4>3. CASE Enqueue(c)
          BY <4>3, <3>4, EnqueueMoves DEF Moved, Remaining
        <4>4. CASE RouteDone(c)
          BY <4>4, <3>4, RouteDoneMoves DEF Moved, Remaining
        <4> QED BY <2>5, <4>1, <4>2, <4>3, <4>4
      <3>5. faults = 0 => (call'[c].was.active => call'[c].was.known)
        BY <3>1 DEF FlagInv
      <3>6. ASSUME faults = 0, Routing(call'[c]), NEW r \in RouteNames, SeesResolves(r),
                   r \in Remaining(call'[c]), dedup[<<call'[c].fp, r>>].active
            PROVE  call'[c].was.active
        BY <3>1, <3>2, <3>6 DEF FlagInv, Moved
      <3> QED BY <3>1, <3>2, <3>3, <3>4, <3>5, <3>6, FlagKept DEF Moved
    <2>6. CASE Lock(c) \/ Arrive(c) \/ Return(c)
      <3>1. PICK l : /\ Goto(c, l) /\ ~Routing(l) /\ l.pc # "upsertState"
                     /\ ~l.was.active \/ l.was = call[c].was
        <4>1. CASE Lock(c)
          <5> DEFINE l == [call[c] EXCEPT !.pc = "insert"]
          <5>1. call[c] \in Locals /\ Goto(c, l)
            BY <1>t, <4>1 DEF Lock
          <5>2. l.pc = "insert" /\ l.was = call[c].was
            BY <5>1 DEF Locals
          <5>3. ~Routing(l)
            BY <5>2 DEF Routing
          <5> QED BY <5>1, <5>2, <5>3
        <4>2. ASSUME NEW f \in Fingerprints, NEW s \in Statuses, Begin(c, f, s)
              PROVE  \E l : Goto(c, l) /\ ~Routing(l) /\ l.pc # "upsertState" /\ ~l.was.active
          <5> DEFINE l == [Idle EXCEPT !.pc = "lock", !.fp = f, !.status = s, !.now = clock]
          <5>1. Goto(c, l)
            BY <4>2 DEF Begin
          <5>2. l.pc = "lock" /\ ~l.was.active
            BY DEF Idle, Unseen
          <5> QED BY <5>1, <5>2 DEF Routing
        <4>3. ASSUME NEW ps \in DirectLists, Deliver(c, ps)
              PROVE  \E l : Goto(c, l) /\ ~Routing(l) /\ l.pc # "upsertState" /\ ~l.was.active
          <5> DEFINE l == [Idle EXCEPT !.pc = "insert", !.direct = TRUE, !.now = clock, !.pending = ps]
          <5>1. Goto(c, l)
            BY <4>3 DEF Deliver
          <5>2. l.pc = "insert" /\ ~l.was.active
            BY DEF Idle, Unseen
          <5> QED BY <5>1, <5>2 DEF Routing
        <4>4. CASE Return(c)
          BY <4>4, <1>i DEF Return
        <4> QED BY <2>6, <4>1, <4>2, <4>3, <4>4 DEF Arrive
      <3>2. call'[c] = l /\ \A d \in Callers : d # c => call'[d] = call[d]
        BY <1>t, <3>1 DEF Goto
      <3>3. UNCHANGED <<state, dedup, faults>>
        BY <2>6 DEF Lock, Arrive, Begin, Deliver, Return, tables
      <3>4. faults = 0 => (l.was.active => l.was.known)
        BY <3>1 DEF FlagInv
      <3>5. Routing(call[c]) => Remaining(call[c]) = {}
        <4>1. \/ call[c].pc \in {"idle", "lock"} \/ call[c].direct
              \/ call[c].pc = "next" /\ call[c].todo = <<>>
          BY <2>6 DEF Lock, Arrive, Begin, Deliver, Return
        <4>2. Names(<<>>) = {}
          BY DEF Names
        <4> QED BY <4>1, <4>2 DEF Routing, Remaining
      <3> QED BY <3>1, <3>2, <3>3, <3>4, <3>5, FlagKept
    <2>7. CASE Fail(c)
      BY <2>7, <1>t DEF Fail, Fault, FlagInv
    <2> QED BY <1>3, <2>1, <2>2, <2>3, <2>4, <2>5, <2>6, <2>7 DEF Step, Statement
  <1> QED BY <1>1, <1>2, <1>3 DEF Next

(* Unless a statement has failed, a route that matches every resolved event
   suppresses a firing one only if the alert was firing before it, as the states
   table has it. *)
THEOREM SuppressesWhileFiring == Spec => SuppressedOnlyWhileFiring
  <1>1. ASSUME Base, FlagInv, Next, NEW c \in Callers, faults' = 0,
               call[c].pc = "decide", call[c].status = "firing",
               SeesResolves(Head(call[c].todo).name), call'[c].pc = "next"
        PROVE  call[c].was.active
    <2>1. UpsertRouteDedup(c)
      <3>1. call \in [Callers -> Locals] /\ faults \in Nat
        BY <1>1 DEF Base, TypeOK
      <3>2. ~Crash /\ ~Tick
        BY <1>1, <3>1 DEF Crash, Fault, Tick
      <3>3. PICK d \in Callers : Arrive(d) \/ Step(d)
        BY <1>1, <3>2 DEF Next
      <3>4. \E l : Goto(d, l)
        <4>1. CASE Arrive(d)
          BY <4>1 DEF Arrive, Begin, Deliver
        <4>2. CASE Step(d)
          BY <4>2 DEF Step, Statement, Lock, InsertEvent, GetState, UpsertState, ListRoutes,
                      GetRouteDedup, UpsertRouteDedup, Enqueue, RouteDone, Return, Fail
        <4> QED BY <3>3, <4>1, <4>2
      <3>5. d = c
        BY <1>1, <3>1, <3>4 DEF Goto
      <3>6. ~Fail(c)
        BY <1>1, <3>1 DEF Fail, Fault
      <3> QED BY <1>1, <3>3, <3>5, <3>6
          DEF Arrive, Begin, Deliver, Step, Statement, Lock, InsertEvent, GetState, UpsertState,
              ListRoutes, GetRouteDedup, Enqueue, RouteDone, Return
    <2> DEFINE l == call[c]
               r == Head(l.todo)
               k == <<l.fp, r.name>>
    <2>2. /\ Moved(c) /\ ~l.direct /\ l.todo # <<>> /\ r \in Routes
          /\ ~Notifies(l.status, dedup[k], EffectivePolicy(r.policy), l.now)
      BY <1>1, <2>1, UpsertRouteDedupMoves
    <2>3. dedup[k].active
      BY <1>1, <2>2 DEF Notifies
    <2>4. Routing(l) /\ r.name \in RouteNames /\ r.name \in Remaining(l)
      BY <1>1, <2>2, TailNames DEF Routing, RouteNames, Remaining, Moved, Flow, Locals
    <2>5. faults = 0
      BY <1>1, <2>1 DEF UpsertRouteDedup
    <2> QED BY <1>1, <2>3, <2>4, <2>5 DEF FlagInv
  <1>2. Base /\ FlagInv /\ [Next]_vars =>
          [\A c \in Callers :
             LET l == call[c]
             IN  faults' = 0 /\ l.pc = "decide" /\ l.status = "firing"
                 /\ SeesResolves(Head(l.todo).name) /\ call'[c].pc = "next"
                   => l.was.active]_vars
    BY <1>1
  <1> QED BY <1>2, InitBase, BaseStep, InitFlag, FlagStep, PTL
      DEF Spec, SuppressedOnlyWhileFiring
=============================================================================
