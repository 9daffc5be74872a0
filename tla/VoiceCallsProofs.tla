-------------------------- MODULE VoiceCallsProofs --------------------------
(***************************************************************************)
(* Theorems about VoiceCalls, for every number of requests, phones and     *)
(* calls, every policy of the recipient, and wherever a statement fails or *)
(* the process dies.                                                       *)
(***************************************************************************)
EXTENDS VoiceCalls, FiniteSetTheorems, WellFoundedInduction, TLAPS

-----------------------------------------------------------------------------
(* The invariants.                                                         *)

\* What a request without the mutex asks for.
EventAsk(d) == [message |-> d.message, key |-> <<"delivery", d.id>>, origin |-> "route",
                delay |-> 0, exempt |-> FALSE, test |-> FALSE]
Asks == Requests \cup {EventAsk(d) : d \in Deliveries}

Messages == {r.message : r \in Asks}
Keys     == {r.key : r \in Asks} \cup {<<"retry", i>> : i \in Nat}
            \cup {<<"callback", d>> : d \in Devices} \cup {<<"turn", i, n>> : i, n \in Nat}
Origins  == {"api", "route", "retry", "phone", "user"}
Call == [state : States, message : Messages, exempt : BOOLEAN, test : BOOLEAN, key : Keys,
         origin : Origins, attempt : Nat, at : Int, expires : Int, deadline : Int,
         rang : Nat \cup {Never}, by : Devices \cup {Nobody}, seen : Int]

Verdicts == [do : {"none", "fail", "expire", "defer", "ring"}, until : Int, expires : Int]
Places   == {"free", "missed", "stale", "dispatch", "act", "invite", "ended", "callback"}
Locals   == [at : Places, todo : SUBSET Nat, call : Nat, now : Nat, devices : SUBSET Devices,
             sent : BOOLEAN, verdict : Verdicts, back : {"free", "missed", "stale", "dispatch"}]
Reqs     == [at : {"idle", "duplicate", "policy", "insert", "turn"}, ask : Asks \cup {<<>>},
             now : Nat, due : Int, expires : Int, call : Nat, seq : Nat]

TypeOK ==
  /\ clock \in Nat
  /\ calls \in Seq(Call)
  /\ offered \subseteq Nat \X Devices
  /\ turns \subseteq Nat \X Nat /\ IsFiniteSet(turns)
  /\ engine \in Locals
  /\ req \in [Callers -> Reqs]
  /\ allowed \in BOOLEAN
  /\ fallbacks \in Seq(Nat)
  /\ inputs \in Nat /\ faults \in Nat

\* The calls that the engine and the requests are about exist.
Refers ==
  /\ engine.todo \subseteq Rows
  /\ engine.at \in {"act", "invite", "ended", "callback"} => engine.call \in Rows
  /\ \A c \in Callers : /\ req[c].at \in {"duplicate", "policy", "insert"} => req[c].ask \in Asks
                        /\ req[c].at = "turn" => req[c].call \in Rows

\* A call rings after it was scheduled, and at a time that has come.
RingInv == \A i \in Rows : /\ calls[i].state = "scheduled" => calls[i].rang = Never
                           /\ calls[i].rang # Never => calls[i].rang <= clock

\* A key of a turn is that of a turn that was recorded.
TurnInv == \A j \in Rows, i, n \in Nat : calls[j].key = <<"turn", i, n>> => <<i, n>> \in turns

OneLive == \A i, j \in LiveCalls : i = j

\* What the verdict that a call may ring has looked at still holds.
Judged ==
  engine.at = "act" =>
    /\ engine.now <= clock
    /\ \A j \in Rows : calls[j].rang # Never => calls[j].rang <= engine.now
    /\ engine.verdict.do = "ring" =>
         /\ LiveCalls \subseteq {engine.call}
         /\ engine.now < calls[engine.call].expires
         /\ engine.now \in Quiet => Exempt(calls[engine.call])
         /\ MaxPerHour > 0 => Cardinality(RangSince(engine.now - Hour)) < MaxPerHour
         /\ Cooldown > 0 => RangSince(engine.now - Cooldown) = {}

Table == TypeOK /\ Refers /\ RingInv /\ TurnInv /\ OneCallPerKey /\ OneLive /\ Judged /\ PolicyKept

Retried(i) == \E j \in Rows : calls[j].key = RetryKey(i)
Told(i)    == \E n \in DOMAIN fallbacks : fallbacks[n] = i
Ending(i)  == engine.at = "ended" /\ engine.call = i

\* Who was tried again or told did not answer, and is no longer being dealt with.
TellInv ==
  /\ \A m, n \in DOMAIN fallbacks : fallbacks[m] = fallbacks[n] => m = n
  /\ \A i \in Nat : Retried(i) \/ Told(i) => i \in Rows /\ Unanswered(calls[i]) /\ ~Ending(i)
  /\ \A i \in Nat : ~(Retried(i) /\ Told(i))
  /\ engine.at = "ended" => calls[engine.call].state \in Terminal
  /\ faults = 0 => \A i \in Rows : Unanswered(calls[i]) /\ ~calls[i].test =>
                     Retried(i) \/ Told(i) \/ Ending(i)

-----------------------------------------------------------------------------
(* The operators of the policy.                                            *)

\* A set of numbers that is not empty has a least one.
LEMMA LeastElement ==
  ASSUME NEW T, T \subseteq Nat, T # {}
  PROVE  \E m \in T : \A n \in T : m <= n
  <1> DEFINE F == {T \cap (0..x) : x \in T}
             R == StrictSubsetOrdering(T)
  <1>1. F \subseteq FiniteSubsetsOf(T)
    <2> SUFFICES ASSUME NEW x \in T
                 PROVE  T \cap (0..x) \in FiniteSubsetsOf(T)
      OBVIOUS
    <2>1. x \in Int
      OBVIOUS
    <2>2. IsFiniteSet(0..x)
      BY <2>1, FS_Interval
    <2>3. IsFiniteSet(T \cap (0..x))
      BY <2>2, FS_Subset
    <2> QED BY <2>3 DEF FiniteSubsetsOf
  <1>2. F # {}
    OBVIOUS
  <1>3. IsWellFoundedOn(R, FiniteSubsetsOf(T))
    BY FS_StrictSubsetOrderingWellFounded
  <1>4. \E f \in F : \A g \in F : ~(<<g, f>> \in R)
    <2> HIDE DEF F, R
    <2> QED BY <1>1, <1>2, <1>3, WFMin
  <1>5. PICK m \in T : \A g \in F : ~(<<g, T \cap (0..m)>> \in R)
    BY <1>4
  <1>6. ASSUME NEW n \in T, n < m PROVE FALSE
    <2>1. T \cap (0..n) \subseteq T \cap (0..m) /\ m \in T \cap (0..m) /\ m \notin T \cap (0..n)
      BY <1>6
    <2>2. <<T \cap (0..n), T \cap (0..m)>> \in R
      BY <2>1 DEF StrictSubsetOrdering
    <2> QED BY <1>5, <2>2
  <1>7. \A n \in T : m <= n
    BY <1>6
  <1> QED BY <1>7

\* Quiet hours end.
LEMMA QuietEnds ==
  ASSUME NEW t \in Quiet
  PROVE  QuietEnd(t) \in Int
  <1>1. Quiet \subseteq 0..MaxTime /\ MaxTime \in Nat /\ t \in Nat /\ t <= MaxTime
    BY VoiceAssumption DEF VoiceAssumption
  <1> DEFINE T == {n \in (t + 1)..(MaxTime + 1) : n \notin Quiet}
  <1>2. T \subseteq Nat /\ MaxTime + 1 \in T
    BY <1>1
  <1>3. PICK m \in T : \A n \in T : m <= n
    BY <1>2, LeastElement
  <1>4. t..(m - 1) \subseteq Quiet
    <2> SUFFICES ASSUME NEW k \in t..(m - 1), k \notin Quiet
                 PROVE  FALSE
      OBVIOUS
    <2>1. k \in (t + 1)..(MaxTime + 1)
      BY <1>1, <1>3
    <2>2. k \in T
      BY <2>1
    <2> QED BY <1>2, <1>3, <2>2
  <1>5. \E n \in (t + 1)..(MaxTime + 1) : n \notin Quiet /\ t..(n - 1) \subseteq Quiet
    BY <1>3, <1>4
  <1>6. QuietEnd(t) \in (t + 1)..(MaxTime + 1)
    BY <1>5 DEF QuietEnd
  <1> QED BY <1>1, <1>6

\* Of n calls that rang there is an nth latest.
LEMMA LatestRang ==
  ASSUME NEW s, IsFiniteSet(s), \A i \in s : calls[i].rang \in Nat,
         NEW n \in Nat \ {0}, Cardinality(s) >= n
  PROVE  Latest(s, n) \in Nat
  <1> DEFINE Late(t) == {i \in s : calls[i].rang >= t}
             Later(t) == {i \in s : calls[i].rang > t}
             Rung == {calls[i].rang : i \in s}
             T == {t \in Rung : Cardinality(Late(t)) >= n}
  <1>1. \A t : IsFiniteSet(Late(t)) /\ IsFiniteSet(Later(t))
    BY FS_Subset
  <1>2. Rung \subseteq Nat
    OBVIOUS
  <1>3. \A u \in SUBSET s : u # {} => \E k \in u : \A j \in u : calls[k].rang <= calls[j].rang
    <2> SUFFICES ASSUME NEW u \in SUBSET s, u # {}
                 PROVE  \E k \in u : \A j \in u : calls[k].rang <= calls[j].rang
      OBVIOUS
    <2>1. {calls[i].rang : i \in u} \subseteq Nat /\ {calls[i].rang : i \in u} # {}
      OBVIOUS
    <2>2. PICK m \in {calls[i].rang : i \in u} : \A r \in {calls[i].rang : i \in u} : m <= r
      BY <2>1, LeastElement
    <2> QED BY <2>2
  <1>4. s # {}
    BY FS_EmptySet
  <1>5. T # {}
    <2>1. PICK k \in s : \A j \in s : calls[k].rang <= calls[j].rang
      BY <1>3, <1>4
    <2>2. Late(calls[k].rang) = s
      BY <2>1
    <2> QED BY <2>2
  <1>6. \A t : Cardinality(Late(t)) \in Nat
    BY <1>1, FS_CardinalityType
  <1>7. PICK t \in T : \A v \in T : Cardinality(Late(t)) <= Cardinality(Late(v))
    <2> HIDE DEF T, Late
    <2> DEFINE Cards == {Cardinality(Late(v)) : v \in T}
    <2>1. Cards \subseteq Nat /\ Cards # {}
      BY <1>5, <1>6
    <2>2. PICK m \in Cards : \A k \in Cards : m <= k
      BY <2>1, LeastElement
    <2> QED BY <2>2
  <1>8. Cardinality(Later(t)) < n
    <2> SUFFICES ASSUME ~(Cardinality(Later(t)) < n) PROVE FALSE
      OBVIOUS
    <2>1. Cardinality(Later(t)) \in Nat
      BY <1>1, FS_CardinalityType
    <2>2. Later(t) # {}
      <3> HIDE DEF Later
      <3>1. Cardinality({}) = 0
        BY FS_EmptySet
      <3> QED BY <2>1, <3>1
    <2>3. PICK k \in Later(t) : \A j \in Later(t) : calls[k].rang <= calls[j].rang
      BY <1>3, <2>2
    <2>4. calls[k].rang \in Nat /\ t \in Nat /\ calls[k].rang > t /\ k \in s
      BY <2>3, <1>2
    <2>5. Late(calls[k].rang) = Later(t)
      BY <2>3, <2>4
    <2>6. calls[k].rang \in T
      <3>1. Cardinality(Late(calls[k].rang)) = Cardinality(Later(t))
        BY <2>5
      <3>2. calls[k].rang \in Rung
        BY <2>4
      <3> HIDE DEF Late, Later, Rung
      <3>3. Cardinality(Late(calls[k].rang)) >= n
        BY <2>1, <3>1
      <3> QED BY <3>2, <3>3
    <2>7. Later(t) \subseteq Late(t) /\ Later(t) # Late(t)
      BY <2>4
    <2>8. Cardinality(Later(t)) <= Cardinality(Late(t)) /\ Cardinality(Later(t)) # Cardinality(Late(t))
      BY <1>1, <2>7, FS_Subset
    <2>9. Cardinality(Late(t)) <= Cardinality(Late(calls[k].rang))
      <3> HIDE DEF T, Late
      <3> QED BY <1>7, <2>6
    <2>10. Cardinality(Late(calls[k].rang)) = Cardinality(Later(t))
      BY <2>5
    <2> HIDE DEF Late, Later, T
    <2> QED BY <1>6, <2>1, <2>8, <2>9, <2>10
  <1>9. \E r \in Rung : Cardinality(Later(r)) < n /\ Cardinality(Late(r)) >= n
    BY <1>7, <1>8
  <1>10. Latest(s, n) \in Rung
    BY <1>9 DEF Latest
  <1> QED BY <1>2, <1>10

\* The table's rows are the first numbers.
LEMMA RowsAre ==
  ASSUME calls \in Seq(Call)
  PROVE  /\ Rows = 1..Len(calls) /\ Len(calls) \in Nat /\ Rows \subseteq Nat
         /\ IsFiniteSet(Rows) /\ \A i \in Rows : calls[i] \in Call
  <1>1. Rows = 1..Len(calls) /\ Len(calls) \in Nat /\ \A i \in Rows : calls[i] \in Call
    BY DEF Rows
  <1>2. IsFiniteSet(1..Len(calls))
    BY <1>1, FS_Interval
  <1> QED BY <1>1, <1>2

\* The calls that rang since a time, and when they did.
LEMMA RangAt ==
  ASSUME calls \in Seq(Call), NEW t
  PROVE  /\ IsFiniteSet(RangSince(t)) /\ Cardinality(RangSince(t)) \in Nat
         /\ \A i \in RangSince(t) : i \in Rows /\ calls[i].rang \in Nat
  <1>1. IsFiniteSet(RangSince(t))
    BY RowsAre, FS_Subset DEF RangSince
  <1>2. \A i \in RangSince(t) : i \in Rows /\ calls[i].rang \in Nat
    BY RowsAre DEF RangSince, Call
  <1> QED BY <1>1, <1>2, FS_CardinalityType

\* A limit says until when.
LEMMA LimitsTyped ==
  ASSUME calls \in Seq(Call), NEW c, NEW now \in Nat, NEW live
  PROVE  Limits(c, now, live).until \in Int
  <1>0. MaxPerHour \in Nat /\ Hour \in Nat /\ Cooldown \in Nat /\ BusyRetry \in Nat
    BY VoiceAssumption DEF VoiceAssumption
  <1> DEFINE rate == RangSince(now - Hour)
             cool == RangSince(now - Cooldown)
  <1>1. now \in Quiet => QuietEnd(now) \in Int
    BY QuietEnds
  <1>2. MaxPerHour > 0 /\ Cardinality(rate) >= MaxPerHour => Latest(rate, MaxPerHour) \in Nat
    BY <1>0, RangAt, LatestRang
  <1>3. ASSUME cool # {}
        PROVE  Latest(cool, 1) \in Nat
    <2>1. IsFiniteSet(cool) /\ Cardinality(cool) \in Nat /\ \A i \in cool : calls[i].rang \in Nat
      BY RangAt
    <2>2. Cardinality(cool) # 0
      BY <1>3, <2>1, FS_EmptySet
    <2>3. Cardinality(cool) >= 1
      BY <2>1, <2>2
    <2> HIDE DEF cool
    <2> QED BY <2>1, <2>3, LatestRang
  <1> HIDE DEF rate, cool
  <1>4. Latest(rate, MaxPerHour) + Hour \in Int \/ ~(MaxPerHour > 0 /\ Cardinality(rate) >= MaxPerHour)
    BY <1>0, <1>2
  <1>5. Latest(cool, 1) + Cooldown \in Int \/ cool = {}
    BY <1>0, <1>3
  <1>6. now + BusyRetry \in Int
    BY <1>0
  <1> QED BY <1>1, <1>4, <1>5, <1>6 DEF Limits, Proceed, rate, cool

\* A verdict is one of five.
LEMMA EvaluateTyped ==
  ASSUME calls \in Seq(Call), NEW i \in Rows, NEW now \in Nat
  PROVE  Evaluate(i, now) \in Verdicts
  <1>1. calls[i].expires \in Int /\ calls[i].at \in Int
    BY RowsAre DEF Call
  <1>2. Limits(calls[i], now, LiveCalls \ {i}).until \in Int
    BY LimitsTyped
  <1>3. \A u, e \in Int : /\ Verdict("expire", u, e) \in Verdicts
                          /\ Verdict("ring", u, e) \in Verdicts
                          /\ Verdict("defer", u, e) \in Verdicts
    BY DEF Verdict, Verdicts
  <1> DEFINE d == Limits(calls[i], now, LiveCalls \ {i})
  <1> HIDE DEF d
  <1>4. d.until \in Int
    BY <1>2 DEF d
  <1>5. d.until + (calls[i].expires - calls[i].at) \in Int
    BY <1>1, <1>4
  <1> QED BY <1>1, <1>3, <1>4, <1>5 DEF Evaluate, d

\* A call may ring before its expiry, while nobody is on a call, outside quiet
\* hours or with an exception, and under both limits.
LEMMA RingVerdict ==
  ASSUME calls \in Seq(Call), NEW i \in Rows, NEW now \in Nat,
         Evaluate(i, now).do = "ring"
  PROVE  /\ LiveCalls \subseteq {i}
         /\ now < calls[i].expires
         /\ now \in Quiet => Exempt(calls[i])
         /\ MaxPerHour > 0 => Cardinality(RangSince(now - Hour)) < MaxPerHour
         /\ Cooldown > 0 => RangSince(now - Cooldown) = {}
  <1>0. MaxPerHour \in Nat
    BY VoiceAssumption DEF VoiceAssumption
  <1>1. calls[i].expires \in Int
    BY RowsAre DEF Call
  <1> DEFINE d == Limits(calls[i], now, LiveCalls \ {i})
  <1>2. ~(now >= calls[i].expires) /\ d.reason = "none"
    BY DEF Evaluate, Verdict
  <1>3. /\ ~(now \in Quiet /\ ~Exempt(calls[i]))
        /\ LiveCalls \ {i} = {}
        /\ ~(MaxPerHour > 0 /\ Cardinality(RangSince(now - Hour)) >= MaxPerHour)
        /\ ~(Cooldown > 0 /\ RangSince(now - Cooldown) # {})
    BY <1>2 DEF Limits
  <1>4. Cardinality(RangSince(now - Hour)) \in Nat
    BY RangAt
  <1> QED BY <1>0, <1>1, <1>2, <1>3, <1>4

-----------------------------------------------------------------------------
(* What a statement does to the rows of the table.                         *)

\* What a row keeps: who asked for what, when it rang, its end and its phone.
Steady(c, n) ==
  /\ n.key = c.key /\ n.exempt = c.exempt /\ n.test = c.test /\ n.origin = c.origin
  /\ n.rang = c.rang
  /\ n.state # c.state => CanTransition(c.state, n.state) /\ n.state # "ringing"
  /\ c.state \in Terminal => n = c
  /\ c.by # Nobody => n.by = c.by

\* A row that a step adds: its key is new, and nobody is on a call that is
\* called back.
Fresh(c) ==
  /\ c.rang = Never /\ ~KeyTaken(c.key)
  /\ \/ c.state = "scheduled"
     \/ c.state = "answered" /\ LiveCalls = {} /\ engine.at # "act"
  /\ \A i, n \in Nat : c.key = <<"turn", i, n>> => <<i, n>> \in turns'
  /\ \A i \in Nat : c.key = RetryKey(i) => AfterEnd /\ i = engine.call

\* A step that makes no call ring.  The end of a call, unless it is cancelled,
\* is looked at next.
Rests ==
  /\ calls' \in Seq(Call) /\ Len(calls') \in Len(calls)..(Len(calls) + 1)
  /\ \A j \in Rows :
       /\ Steady(calls[j], calls'[j])
       /\ calls'[j].expires # calls[j].expires => calls[j].state = "scheduled" /\ engine'.at # "act"
       /\ calls'[j].state \in Terminal => \/ calls[j].state \in Terminal
                                          \/ calls'[j].state = "cancelled"
                                          \/ engine'.at = "ended" /\ engine'.call = j
  /\ \A j \in Rows' \ Rows : Fresh(calls'[j])

\* Call i comes to its end.
Ends(i) == calls[i].state \notin Terminal /\ calls'[i].state \in Terminal

\* Nothing happens to the table.
LEMMA SameRests ==
  ASSUME calls \in Seq(Call), UNCHANGED calls
  PROVE  Rests
  BY DEF Rests, Steady, Rows

\* A conditional update of one row.
LEMMA TransitionRests ==
  ASSUME calls \in Seq(Call), clock \in Nat, NEW i \in Rows, NEW c \in Call, TransitionCall(i, c),
         c.key = calls[i].key, c.exempt = calls[i].exempt, c.test = calls[i].test,
         c.origin = calls[i].origin, c.rang = calls[i].rang, c.expires = calls[i].expires,
         c.state # "ringing", calls[i].by # Nobody => c.by = calls[i].by,
         c.state \in Terminal => c.state = "cancelled" \/ (engine'.at = "ended" /\ engine'.call = i)
  PROVE  Rests /\ (c.state \in Terminal => Ends(i))
  <1> DEFINE p == IF c.state \in InProgress THEN clock ELSE Never
             q == IF c.state = "ringing" THEN c.deadline ELSE Never
             n == [c EXCEPT !.seen = p, !.deadline = q]
  <1>1. CanTransition(calls[i].state, c.state) /\ calls' = [calls EXCEPT ![i] = n]
    BY DEF TransitionCall
  <1>0. p \in Int /\ q \in Int
    BY DEF Call, Never
  <1> HIDE DEF p, q
  <1>2. n \in Call /\ n.key = c.key /\ n.exempt = c.exempt /\ n.test = c.test
        /\ n.origin = c.origin /\ n.rang = c.rang /\ n.expires = c.expires /\ n.state = c.state
        /\ n.by = c.by
    BY <1>0 DEF Call
  <1>3. calls[i].state \notin Terminal
    BY <1>1 DEF CanTransition, Terminal, Live, InProgress
  <1> HIDE DEF n
  <1>4. /\ calls' \in Seq(Call) /\ Len(calls') = Len(calls) /\ Rows' = Rows
        /\ calls'[i] = n /\ \A j \in Rows : j # i => calls'[j] = calls[j]
    BY <1>1, <1>2, RowsAre DEF Rows
  <1>5. Steady(calls[i], calls'[i])
    BY <1>1, <1>2, <1>3, <1>4 DEF Steady
  <1>6. \A j \in Rows : j # i => Steady(calls[j], calls'[j])
    BY <1>4 DEF Steady
  <1>7. Len(calls') \in Len(calls)..(Len(calls) + 1)
    BY <1>4, RowsAre
  <1>8. c.state \in Terminal => Ends(i)
    BY <1>2, <1>3, <1>4 DEF Ends
  <1> QED BY <1>2, <1>4, <1>5, <1>6, <1>7, <1>8 DEF Rests

\* The end of a call is such an update.
LEMMA EndRests ==
  ASSUME calls \in Seq(Call), clock \in Nat, NEW i \in Rows, NEW s \in Terminal,
         TransitionCall(i, To(i, s)),
         s = "cancelled" \/ (engine'.at = "ended" /\ engine'.call = i)
  PROVE  Rests /\ Ends(i)
  <1>1. calls[i] \in Call
    BY RowsAre
  <1> DEFINE c == To(i, s)
  <1>2. /\ c \in Call /\ c.key = calls[i].key /\ c.exempt = calls[i].exempt /\ c.test = calls[i].test
        /\ c.origin = calls[i].origin /\ c.rang = calls[i].rang /\ c.expires = calls[i].expires
        /\ c.by = calls[i].by /\ c.state = s
    BY <1>1 DEF To, Call, Terminal
  <1>3. s # "ringing"
    BY DEF Terminal, Live
  <1> HIDE DEF c
  <1>4. TransitionCall(i, c)
    BY DEF c
  <1> QED BY <1>2, <1>3, <1>4, TransitionRests

\* A row that is added, if its key is new.
LEMMA InsertRests ==
  ASSUME calls \in Seq(Call), NEW c \in Call, InsertCall(c), ~KeyTaken(c.key) => Fresh(c)
  PROVE  Rests
  <1>1. CASE KeyTaken(c.key)
    BY <1>1, SameRests DEF InsertCall
  <1>2. CASE ~KeyTaken(c.key)
    <2>1. calls' = Append(calls, c) /\ Fresh(c)
      BY <1>2 DEF InsertCall
    <2>2. /\ calls' \in Seq(Call) /\ Len(calls') = Len(calls) + 1 /\ Len(calls) \in Nat
          /\ \A j \in Rows : calls'[j] = calls[j]
          /\ \A j \in Rows' \ Rows : calls'[j] = c
      BY <2>1 DEF Rows
    <2>3. \A j \in Rows : Steady(calls[j], calls'[j])
      BY <2>2 DEF Steady
    <2>4. Len(calls') \in Len(calls)..(Len(calls) + 1)
      BY <2>2
    <2> QED BY <2>1, <2>2, <2>3, <2>4 DEF Rests
  <1> QED BY <1>1, <1>2

\* A step adds a row at most, at the end.
LEMMA RestRows ==
  ASSUME calls \in Seq(Call), Rests
  PROVE  /\ Rows \subseteq Rows' /\ \A i \in Rows' : calls'[i] \in Call
         /\ \A i, j \in Rows' \ Rows : i = j
         /\ \A j \in Rows : Steady(calls[j], calls'[j])
         /\ \A j \in Rows' \ Rows : Fresh(calls'[j])
  <1>1. calls' \in Seq(Call) /\ Len(calls') \in Len(calls)..(Len(calls) + 1)
    BY DEF Rests
  <1>2. Rows = 1..Len(calls) /\ Rows' = 1..Len(calls') /\ Len(calls) \in Nat /\ Len(calls') \in Nat
    BY <1>1 DEF Rows
  <1>3. \A i \in Rows' : calls'[i] \in Call
    BY <1>1 DEF Rows
  <1>4. Rows \subseteq Rows' /\ \A i, j \in Rows' \ Rows : i = j
    BY <1>1, <1>2
  <1> QED BY <1>3, <1>4 DEF Rests

\* Such a step keeps every key that of one call,
LEMMA RestKeys ==
  ASSUME calls \in Seq(Call), Rests, OneCallPerKey
  PROVE  OneCallPerKey'
  <1> SUFFICES ASSUME NEW i \in Rows', NEW j \in Rows',
                      calls'[i].key = calls'[j].key, calls'[i].key # NoKey
               PROVE  i = j
    BY DEF OneCallPerKey
  <1>1. \A k \in Rows : calls'[k].key = calls[k].key
    BY RestRows DEF Steady
  <1>2. \A k \in Rows' \ Rows : ~KeyTaken(calls'[k].key)
    BY RestRows DEF Fresh
  <1>3. CASE i \in Rows /\ j \in Rows
    BY <1>1, <1>3 DEF OneCallPerKey
  <1>4. CASE i \notin Rows /\ j \notin Rows
    BY <1>4, RestRows
  <1>5. CASE i \in Rows /\ j \notin Rows
    BY <1>1, <1>2, <1>5 DEF KeyTaken
  <1>6. CASE i \notin Rows /\ j \in Rows
    BY <1>1, <1>2, <1>6 DEF KeyTaken
  <1> QED BY <1>3, <1>4, <1>5, <1>6

\* makes nobody busy twice, and nobody at all under a verdict,
LEMMA RestLive ==
  ASSUME calls \in Seq(Call), Rests, OneLive
  PROVE  /\ OneLive'
         /\ engine.at = "act" => LiveCalls' \subseteq LiveCalls
  <1>1. \A i \in Rows : calls'[i].state \in Live => calls[i].state \in Live
    BY RestRows DEF Steady, CanTransition, Live, InProgress
  <1>2. \A i \in Rows' \ Rows : calls'[i].state \in Live => LiveCalls = {} /\ engine.at # "act"
    BY RestRows DEF Fresh, Live, InProgress
  <1>3. \A i \in LiveCalls' : i \in LiveCalls \/ (i \in Rows' \ Rows /\ LiveCalls = {} /\ engine.at # "act")
    BY <1>1, <1>2 DEF LiveCalls
  <1>4. \A i, j \in LiveCalls' : i = j
    BY <1>3, RestRows DEF OneLive
  <1> QED BY <1>3, <1>4 DEF OneLive

\* rings no call before its time,
LEMMA RestRing ==
  ASSUME calls \in Seq(Call), clock \in Nat, clock' \in Nat, clock <= clock', Rests, RingInv
  PROVE  RingInv'
  <1>1. \A i \in Rows : /\ calls'[i].rang = calls[i].rang
                        /\ calls'[i].state = "scheduled" => calls[i].state = "scheduled"
    BY RestRows DEF Steady, CanTransition, InProgress
  <1>2. \A i \in Rows' \ Rows : calls'[i].rang = Never
    BY RestRows DEF Fresh
  <1>3. \A i \in Rows : calls[i].rang \in Nat \cup {Never}
    BY RowsAre DEF Call
  <1> QED BY <1>1, <1>2, <1>3 DEF RingInv, Never

\* adds a call for a turn with the turn,
LEMMA RestTurns ==
  ASSUME calls \in Seq(Call), turns \subseteq turns', Rests, TurnInv
  PROVE  TurnInv'
  <1>1. \A j \in Rows : calls'[j].key = calls[j].key
    BY RestRows DEF Steady
  <1>2. \A j \in Rows' \ Rows : \A i, n \in Nat : calls'[j].key = <<"turn", i, n>> => <<i, n>> \in turns'
    BY RestRows DEF Fresh
  <1>3. ASSUME NEW j \in Rows', NEW i \in Nat, NEW n \in Nat, calls'[j].key = <<"turn", i, n>>
        PROVE  <<i, n>> \in turns'
    BY <1>1, <1>2, <1>3 DEF TurnInv
  <1> QED BY <1>3 DEF TurnInv

\* No step of this kind changes which calls rang, or when.
LEMMA RestRang ==
  ASSUME calls \in Seq(Call), Rests
  PROVE  /\ {i \in Rows' : calls'[i].rang # Never} = {i \in Rows : calls[i].rang # Never}
         /\ \A i \in Rows : calls'[i].rang = calls[i].rang
         /\ \A i \in Rows' \ Rows : calls'[i].rang = Never
         /\ \A i \in Rows : Exempt(calls'[i]) <=> Exempt(calls[i])
  <1>1. \A i \in Rows : calls'[i].rang = calls[i].rang
    BY RestRows DEF Steady
  <1>2. \A i \in Rows' \ Rows : calls'[i].rang = Never
    BY RestRows DEF Fresh
  <1>3. \A i \in Rows : Exempt(calls'[i]) <=> Exempt(calls[i])
    BY RestRows DEF Steady, Exempt
  <1>4. Rows \subseteq Rows'
    BY RestRows
  <1> QED BY <1>1, <1>2, <1>3, <1>4

\* keeps the policy, by when each call rang,
LEMMA RestPolicy ==
  ASSUME calls \in Seq(Call), Rests, RingInv, PolicyKept
  PROVE  PolicyKept'
  <1> DEFINE rung == {i \in Rows : calls[i].rang # Never}
             gnur == {i \in Rows' : calls'[i].rang # Never}
  <1>1. gnur = rung /\ \A i \in rung : calls'[i].rang = calls[i].rang
    BY RestRang
  <1>2. \A i \in rung : calls'[i].expires = calls[i].expires
    BY DEF Rests, RingInv
  <1>3. \A i \in rung : Exempt(calls'[i]) <=> Exempt(calls[i])
    BY RestRang
  <1>4. \A i \in rung : /\ calls[i].rang < calls[i].expires
                        /\ calls[i].rang \in Quiet => Exempt(calls[i])
                        /\ MaxPerHour > 0 => Cardinality({j \in rung : calls[j].rang - calls[i].rang \in 0..(Hour - 1)})
                               <= MaxPerHour
                        /\ \A j \in rung \ {i} : calls[j].rang - calls[i].rang \notin 0..(Cooldown - 1)
    BY DEF PolicyKept
  <1>5. \A i \in rung : {j \in gnur : calls'[j].rang - calls'[i].rang \in 0..(Hour - 1)}
                         = {j \in rung : calls[j].rang - calls[i].rang \in 0..(Hour - 1)}
    BY <1>1
  <1> SUFFICES \A i \in gnur :
                /\ calls'[i].rang < calls'[i].expires
                /\ calls'[i].rang \in Quiet => Exempt(calls'[i])
                /\ MaxPerHour > 0 => Cardinality({j \in gnur : calls'[j].rang - calls'[i].rang \in 0..(Hour - 1)})
                               <= MaxPerHour
                /\ \A j \in gnur \ {i} : calls'[j].rang - calls'[i].rang \notin 0..(Cooldown - 1)
    BY DEF PolicyKept, Exempt, Rows
  <1> HIDE DEF rung, gnur
  <1> QED BY <1>1, <1>2, <1>3, <1>4, <1>5

\* and leaves a verdict that is going to be acted on true.
LEMMA RestJudged ==
  ASSUME calls \in Seq(Call), Rests, OneLive, Judged, Refers, clock \in Nat, clock' \in Nat, clock <= clock',
         engine \in Locals, engine'.at = "act" => engine' = engine
  PROVE  Judged'
  <1> SUFFICES ASSUME engine'.at = "act", engine' = engine, engine.at = "act"
               PROVE  Judged'
    BY DEF Judged
  <1>1. engine.now \in Nat
    BY DEF Locals
  <1>2. \A t : {i \in Rows' : calls'[i].rang # Never /\ calls'[i].rang >= t} = RangSince(t)
    BY RestRang DEF RangSince
  <1>3. engine.call \in Rows /\ calls'[engine.call].expires = calls[engine.call].expires
    BY DEF Refers, Rests
  <1>4. engine.now <= clock'
    BY <1>1 DEF Judged
  <1>5. \A j \in Rows' : calls'[j].rang # Never => calls'[j].rang <= engine.now
    BY RestRang DEF Judged
  <1>6. RangSince(engine.now - Hour)' = RangSince(engine.now - Hour)
        /\ RangSince(engine.now - Cooldown)' = RangSince(engine.now - Cooldown)
    BY <1>2 DEF RangSince
  <1>7. LiveCalls' \subseteq LiveCalls
    BY RestLive
  <1>8. Exempt(calls'[engine.call]) <=> Exempt(calls[engine.call])
    BY <1>3, RestRang
  <1>9. Exempt(calls[engine.call])' <=> Exempt(calls[engine.call])
    BY <1>8 DEF Exempt
  <1> QED BY <1>1, <1>3, <1>4, <1>5, <1>6, <1>7, <1>9 DEF Judged

-----------------------------------------------------------------------------
(* One lemma for each action.                                              *)

\* A step that makes no call ring and judges none.  The engine looks at the end
\* of a call that the step has ended.
Calm ==
  /\ TypeOK' /\ Refers' /\ Rests
  /\ turns \subseteq turns' /\ clock <= clock'
  /\ engine'.at = "act" => engine' = engine
  /\ engine'.at = "ended" => engine' = engine \/ Ends(engine'.call)

\* The engine goes on.
LEMMA EngineMoves ==
  ASSUME TypeOK, Refers, Rests, UNCHANGED <<clock, turns, req, allowed>>,
         NEW e \in Locals, engine' = e, e.todo \subseteq Rows, e.at # "act",
         e.at \in {"invite", "ended", "callback"} => e.call \in Rows',
         e.at = "ended" => e = engine \/ Ends(e.call),
         offered' \subseteq Nat \X Devices, fallbacks' \in Seq(Nat), inputs' \in Nat, faults' \in Nat
  PROVE  Calm
  <1>1. Rows \subseteq Rows' /\ calls' \in Seq(Call)
    BY RestRows DEF TypeOK, Rests
  <1>2. TypeOK'
    BY <1>1 DEF TypeOK
  <1>3. Refers'
    BY <1>1 DEF Refers
  <1>4. clock <= clock'
    BY DEF TypeOK
  <1> QED BY <1>2, <1>3, <1>4 DEF Calm

\* A request goes on.
LEMMA RequestMoves ==
  ASSUME TypeOK, Refers, Rests, UNCHANGED <<clock, offered, engine, allowed, fallbacks>>,
         NEW c \in Callers, NEW l \in Reqs, Goto(c, l),
         l.at \in {"duplicate", "policy", "insert"} => l.ask \in Asks,
         l.at = "turn" => l.call \in Rows,
         turns \subseteq turns', turns' \subseteq Nat \X Nat, IsFiniteSet(turns'),
         inputs' \in Nat, faults' \in Nat
  PROVE  Calm
  <1>1. Rows \subseteq Rows' /\ calls' \in Seq(Call)
    BY RestRows DEF TypeOK, Rests
  <1>2. req' \in [Callers -> Reqs] /\ req'[c] = l /\ \A d \in Callers : d # c => req'[d] = req[d]
    BY DEF TypeOK, Goto
  <1>3. TypeOK'
    BY <1>1, <1>2 DEF TypeOK
  <1>4. Refers'
    BY <1>1, <1>2 DEF Refers
  <1>5. clock <= clock'
    BY DEF TypeOK
  <1> QED BY <1>3, <1>4, <1>5 DEF Calm

\* The locals the pass and a request start from.
LEMMA LocalsAre ==
  /\ Free \in Locals /\ Free.todo = {} /\ Free.at = "free"
  /\ Idle \in Reqs /\ Idle.at = "idle"
  /\ \A s \in SUBSET Nat, at \in Places : [Free EXCEPT !.at = at, !.todo = s] \in Locals
  <1>1. Verdict("none", 0, 0) \in Verdicts
    BY DEF Verdict, Verdicts
  <1>2. Free \in Locals /\ Free.todo = {} /\ Free.at = "free"
    BY <1>1 DEF Free, Locals, Places
  <1>3. Idle \in Reqs /\ Idle.at = "idle"
    BY DEF Idle, Reqs
  <1>4. \A s \in SUBSET Nat, at \in Places : [Free EXCEPT !.at = at, !.todo = s] \in Locals
    BY <1>2 DEF Locals
  <1> QED BY <1>2, <1>3, <1>4

\* The pass has a list.
LEMMA ListsCalm ==
  ASSUME TypeOK, Refers, NEW at \in {"missed", "stale", "dispatch"}, NEW s \in SUBSET Rows, Lists(at, s)
  PROVE  Calm
  <1>1. calls \in Seq(Call) /\ Rests
    BY SameRests DEF Lists, TypeOK, tables
  <1>2. s \in SUBSET Nat /\ at \in Places
    BY <1>1, RowsAre DEF Places
  <1> DEFINE e == [Free EXCEPT !.at = at, !.todo = s]
  <1>3. e \in Locals
    BY <1>2, LocalsAre
  <1>4. e.at = at /\ e.todo = s
    BY DEF Free
  <1> HIDE DEF e
  <1>5. engine' = e /\ UNCHANGED <<clock, tables, req, allowed, fallbacks, counters>>
    BY DEF Lists, Engine, e
  <1> QED BY <1>1, <1>3, <1>4, <1>5, EngineMoves DEF TypeOK, tables, counters

\* The clock, the lists of the pass and its end.
LEMMA PassCalm ==
  ASSUME TypeOK, Refers,
         Advance \/ RingingPastDeadline \/ StaleInProgress \/ DueCalls \/ PassDone
  PROVE  Calm
  <1>1. CASE Advance
    <2>1. Rests
      BY <1>1, SameRests DEF Advance, TypeOK, tables
    <2>2. TypeOK' /\ clock <= clock'
      BY <1>1 DEF TypeOK, Advance, tables, counters
    <2>3. Refers'
      BY <1>1 DEF Refers, Rows, Advance, tables
    <2> QED BY <1>1, <2>1, <2>2, <2>3 DEF Calm, Advance, tables
  <1>2. CASE RingingPastDeadline
    BY <1>2, ListsCalm DEF RingingPastDeadline
  <1>3. CASE StaleInProgress
    BY <1>3, ListsCalm DEF StaleInProgress
  <1>4. CASE DueCalls
    <2>1. PICK t \in Soonest({i \in Rows : calls[i].state = "scheduled" /\ calls[i].at <= clock}, DueLimit) :
            Lists("dispatch", t)
      BY <1>4 DEF DueCalls
    <2>2. t \in SUBSET Rows
      BY DEF Soonest
    <2> QED BY <2>1, <2>2, ListsCalm
  <1>5. CASE PassDone
    <2>1. Rests
      BY <1>5, SameRests DEF PassDone, TypeOK, tables
    <2>2. Free \in Locals /\ Free.todo = {} /\ Free.at = "free"
      BY LocalsAre DEF Free
    <2> HIDE DEF Free
    <2> QED BY <1>5, <2>1, <2>2, EngineMoves DEF PassDone, Engine, TypeOK, tables, counters
  <1> QED BY <1>1, <1>2, <1>3, <1>4, <1>5

\* finish
LEMMA FinishCalm ==
  ASSUME TypeOK, Refers, FinishListed
  PROVE  Calm
  <1>0. engine.at \in {"missed", "stale"} /\ calls \in Seq(Call) /\ clock \in Nat /\ engine \in Locals
        /\ faults \in Nat /\ UNCHANGED <<clock, offered, turns, req, allowed, fallbacks, inputs>>
    BY DEF FinishListed, TypeOK
  <1>1. PICK i \in engine.todo : Finish(i, IF engine.at = "missed" THEN "missed" ELSE "failed")
    BY DEF FinishListed
  <1>2. PICK s \in {"missed", "failed"} : Finish(i, s)
    BY <1>1
  <1>3. s \in Terminal /\ i \in Rows /\ i \in Nat
    BY <1>0, RowsAre DEF Refers, Terminal, States, Live, InProgress
  <1> DEFINE left == [engine EXCEPT !.todo = @ \ {i}]
             e == [left EXCEPT !.at = "ended", !.call = i, !.back = engine.at]
  <1>4. left \in Locals /\ left.todo \subseteq Rows /\ left.at = engine.at
    BY <1>0 DEF Locals, Refers
  <1>5. e \in Locals /\ e.todo = left.todo /\ e.at = "ended" /\ e.call = i
    BY <1>0, <1>3, <1>4 DEF Locals, Places
  <1>6. \/ TransitionCall(i, To(i, s)) /\ NoFault /\ engine' = e
        \/ UNCHANGED calls /\ (NoFault \/ Fault) /\ engine' = left
    BY <1>2 DEF Finish, Engine
  <1>7. faults' \in Nat
    BY <1>0, <1>6 DEF NoFault, Fault
  <1> HIDE DEF left, e
  <1>8. CASE TransitionCall(i, To(i, s)) /\ NoFault /\ engine' = e
    <2>1. Rests /\ Ends(i)
      BY <1>0, <1>3, <1>5, <1>8, EndRests
    <2>2. i \in Rows'
      BY <1>0, <1>3, <2>1, RestRows
    <2> QED BY <1>0, <1>4, <1>5, <1>7, <1>8, <2>1, <2>2, EngineMoves DEF TypeOK
  <1>9. CASE UNCHANGED calls /\ engine' = left
    <2>1. Rests
      BY <1>0, <1>9, SameRests
    <2> QED BY <1>0, <1>4, <1>7, <1>9, <2>1, EngineMoves DEF TypeOK
  <1> QED BY <1>6, <1>8, <1>9

\* dispatch: what the verdict has looked at holds.
LEMMA DispatchJudges ==
  ASSUME TypeOK, Refers, RingInv, Dispatch
  PROVE  TypeOK' /\ Refers' /\ Rests /\ Judged' /\ UNCHANGED <<turns, clock, calls, fallbacks>>
  <1>0. engine.at = "dispatch" /\ calls \in Seq(Call) /\ clock \in Nat /\ engine \in Locals
        /\ faults \in Nat /\ UNCHANGED <<clock, tables, req, allowed, fallbacks, inputs>>
    BY DEF Dispatch, TypeOK
  <1>1. Rests
    BY <1>0, SameRests DEF tables
  <1>2. PICK t \in Soonest(engine.todo, 1) : \E i \in t :
       \/ /\ NoFault
          /\ Engine([engine EXCEPT !.at = "act", !.todo = @ \ {i}, !.call = i, !.now = clock,
                                   !.verdict = IF allowed THEN Evaluate(i, clock)
                                               ELSE Verdict("fail", 0, 0)])
       \/ /\ Fault
          /\ Engine([engine EXCEPT !.todo = @ \ {i}])
    BY DEF Dispatch
  <1>3. PICK i \in t :
       \/ /\ NoFault
          /\ Engine([engine EXCEPT !.at = "act", !.todo = @ \ {i}, !.call = i, !.now = clock,
                                   !.verdict = IF allowed THEN Evaluate(i, clock)
                                               ELSE Verdict("fail", 0, 0)])
       \/ /\ Fault
          /\ Engine([engine EXCEPT !.todo = @ \ {i}])
    BY <1>2
  <1>4. i \in engine.todo /\ i \in Rows /\ i \in Nat
    BY <1>0, RowsAre DEF Soonest, Refers
  <1> DEFINE v == IF allowed THEN Evaluate(i, clock) ELSE Verdict("fail", 0, 0)
             e == [engine EXCEPT !.at = "act", !.todo = @ \ {i}, !.call = i, !.now = clock, !.verdict = v]
             left == [engine EXCEPT !.todo = @ \ {i}]
  <1>5. v \in Verdicts
    BY <1>0, <1>4, EvaluateTyped DEF Verdict, Verdicts
  <1>6. v.do = "ring" => Evaluate(i, clock).do = "ring"
    BY DEF Verdict
  <1> HIDE DEF v
  <1>7. e \in Locals /\ e.todo \subseteq Rows /\ e.at = "act" /\ e.call = i /\ e.now = clock /\ e.verdict = v
    BY <1>0, <1>4, <1>5 DEF Locals, Places, Refers
  <1>8. left \in Locals /\ left.todo \subseteq Rows /\ left.at = "dispatch"
    BY <1>0 DEF Locals, Refers
  <1>9. (NoFault /\ engine' = e) \/ (Fault /\ engine' = left)
    BY <1>3 DEF Engine, v
  <1> HIDE DEF e, left
  <1>10. engine' \in Locals /\ engine'.todo \subseteq Rows /\ faults' \in Nat
         /\ ((engine'.at = "act" /\ engine'.call = i) \/ engine'.at = "dispatch")
    BY <1>0, <1>7, <1>8, <1>9 DEF NoFault, Fault
  <1>11. Rows' = Rows
    BY <1>0 DEF Rows, tables
  <1>12. TypeOK'
    BY <1>0, <1>10 DEF TypeOK, tables
  <1>13. Refers'
    BY <1>0, <1>4, <1>10, <1>11 DEF Refers, tables
  <1>14. ASSUME engine' = left PROVE Judged'
    BY <1>8, <1>14 DEF Judged
  <1>15. ASSUME engine' = e PROVE Judged'
    <2>1. v.do = "ring" =>
           /\ LiveCalls \subseteq {i}
           /\ clock < calls[i].expires
           /\ clock \in Quiet => Exempt(calls[i])
           /\ MaxPerHour > 0 => Cardinality(RangSince(clock - Hour)) < MaxPerHour
           /\ Cooldown > 0 => RangSince(clock - Cooldown) = {}
      BY <1>0, <1>4, <1>6, RingVerdict
    <2>2. calls' = calls /\ clock' = clock /\ engine'.call = i /\ engine'.now = clock /\ engine'.verdict = v
      BY <1>0, <1>7, <1>15 DEF tables
    <2>3. \A j \in Rows : calls[j].rang # Never => calls[j].rang <= clock
      BY DEF RingInv
    <2>4. clock <= clock
      BY <1>0
    <2>5. LiveCalls' = LiveCalls
      BY <2>2, <1>11 DEF LiveCalls
    <2>6. RangSince(engine.now - Hour)' = RangSince(clock - Hour)
          /\ RangSince(engine.now - Cooldown)' = RangSince(clock - Cooldown)
      BY <2>2, <1>11 DEF RangSince
    <2>7. Exempt(calls[engine.call])' <=> Exempt(calls[i])
      BY <2>2 DEF Exempt
    <2> QED BY <1>11, <2>1, <2>2, <2>3, <2>4, <2>5, <2>6, <2>7 DEF Judged
  <1> QED BY <1>0, <1>1, <1>9, <1>12, <1>13, <1>14, <1>15 DEF tables

\* DeferCall
LEMMA DeferRests ==
  ASSUME calls \in Seq(Call), NEW i \in Rows, NEW v \in Verdicts, DeferCall(i, v), engine'.at # "act"
  PROVE  Rests
  <1>1. CASE calls[i].state # "scheduled"
    BY <1>1, SameRests DEF DeferCall
  <1>2. CASE calls[i].state = "scheduled"
    <2> DEFINE n == [calls[i] EXCEPT !.at = v.until, !.expires = v.expires]
    <2>1. calls[i] \in Call /\ v.until \in Int /\ v.expires \in Int
      BY RowsAre DEF Verdicts
    <2>2. /\ n \in Call /\ n.key = calls[i].key /\ n.exempt = calls[i].exempt /\ n.test = calls[i].test
          /\ n.origin = calls[i].origin /\ n.rang = calls[i].rang /\ n.by = calls[i].by
          /\ n.state = calls[i].state
      BY <2>1 DEF Call
    <2>3. calls' = [calls EXCEPT ![i] = n]
      BY <1>2 DEF DeferCall
    <2> HIDE DEF n
    <2>4. /\ calls' \in Seq(Call) /\ Len(calls') = Len(calls) /\ Rows' = Rows
          /\ calls'[i] = n /\ \A j \in Rows : j # i => calls'[j] = calls[j]
      BY <2>2, <2>3, RowsAre DEF Rows
    <2>5. Steady(calls[i], calls'[i])
      BY <1>2, <2>2, <2>4 DEF Steady, Terminal
    <2>6. \A j \in Rows : j # i => Steady(calls[j], calls'[j])
      BY <2>4 DEF Steady
    <2>7. Len(calls') \in Len(calls)..(Len(calls) + 1)
      BY <2>4, RowsAre
    <2> QED BY <1>2, <2>2, <2>4, <2>5, <2>6, <2>7 DEF Rests
  <1> QED BY <1>1, <1>2

\* The step by which call i starts to ring.
RingsCall(i) ==
  /\ engine.at = "act" /\ engine.verdict.do = "ring" /\ engine.call = i
  /\ TypeOK' /\ Refers' /\ UNCHANGED <<clock, turns, fallbacks, faults>> /\ engine'.at = "invite"
  /\ Rows' = Rows /\ i \in Rows /\ \A j \in Rows \ {i} : calls'[j] = calls[j]
  /\ calls[i].state = "scheduled" /\ calls'[i].state = "ringing" /\ calls'[i].rang = engine.now
  /\ calls'[i].key = calls[i].key /\ calls'[i].expires = calls[i].expires /\ calls'[i].by = calls[i].by
  /\ Exempt(calls'[i]) <=> Exempt(calls[i])

\* The transition to ringing, when the phones of ds are to be called.
LEMMA RingDoes ==
  ASSUME TypeOK, Refers, engine.at = "act", engine.verdict.do = "ring", NEW i, i = engine.call,
         UNCHANGED <<clock, offered, turns, req, allowed, fallbacks, inputs, faults>>,
         TransitionCall(i, [To(i, "ringing") EXCEPT !.rang = engine.now,
                                                    !.deadline = engine.now + RingTimeout]),
         NEW e \in Locals, engine' = e, e.at = "invite", e.call = i, e.todo = engine.todo
  PROVE  RingsCall(i)
  <1>0. i \in Rows /\ calls \in Seq(Call) /\ engine.now \in Nat /\ RingTimeout \in Nat
    BY VoiceAssumption DEF VoiceAssumption, Refers, TypeOK, Locals
  <1> DEFINE dl == engine.now + RingTimeout
             c == [To(i, "ringing") EXCEPT !.rang = engine.now, !.deadline = dl]
             n == [c EXCEPT !.seen = Never]
  <1>1. dl \in Int
    BY <1>0
  <1> HIDE DEF dl
  <1>2. calls[i] \in Call
    BY <1>0, RowsAre
  <1>3. /\ c \in Call /\ c.state = "ringing" /\ c.rang = engine.now /\ c.key = calls[i].key
        /\ c.expires = calls[i].expires /\ c.origin = calls[i].origin /\ c.exempt = calls[i].exempt
        /\ c.by = calls[i].by
    BY <1>0, <1>1, <1>2 DEF To, Call, States
  <1>4. TransitionCall(i, c)
    BY DEF dl
  <1> HIDE DEF c
  <1>5. /\ n \in Call /\ n.state = "ringing" /\ n.rang = engine.now /\ n.key = calls[i].key
        /\ n.expires = calls[i].expires /\ n.origin = calls[i].origin /\ n.exempt = calls[i].exempt
        /\ n.by = calls[i].by
    BY <1>3 DEF Call, Never
  <1>6. CanTransition(calls[i].state, "ringing")
    BY <1>3, <1>4 DEF TransitionCall
  <1>7. calls' = [calls EXCEPT ![i] = [c EXCEPT !.seen = Never, !.deadline = c.deadline]]
    BY <1>3, <1>4 DEF TransitionCall, InProgress
  <1>8. [c EXCEPT !.seen = Never, !.deadline = c.deadline] = n
    BY <1>3 DEF Call
  <1> HIDE DEF n
  <1>9. calls' = [calls EXCEPT ![i] = n]
    BY <1>7, <1>8
  <1>10. calls' \in Seq(Call) /\ Rows' = Rows /\ calls'[i] = n /\ \A j \in Rows \ {i} : calls'[j] = calls[j]
    BY <1>0, <1>5, <1>9, RowsAre DEF Rows
  <1>11. calls[i].state = "scheduled"
    BY <1>2, <1>6 DEF CanTransition, InProgress
  <1>12. TypeOK'
    BY <1>10 DEF TypeOK
  <1>13. Refers'
    BY <1>0, <1>10 DEF Refers
  <1>14. Exempt(calls'[i]) <=> Exempt(calls[i])
    BY <1>5, <1>10 DEF Exempt
  <1> QED BY <1>0, <1>5, <1>10, <1>11, <1>12, <1>13, <1>14 DEF RingsCall

\* What the pass does with a verdict.
LEMMA ActDoes ==
  ASSUME TypeOK, Refers, Act
  PROVE  Calm \/ RingsCall(engine.call)
  <1> DEFINE i == engine.call
             v == engine.verdict
             next == [engine EXCEPT !.at = "dispatch", !.call = 0, !.now = 0, !.verdict = Free.verdict]
             e == [next EXCEPT !.at = "ended", !.call = i, !.back = "dispatch"]
             ring(ds) == [next EXCEPT !.at = "invite", !.call = i, !.devices = ds]
             end(s) == \/ TransitionCall(i, To(i, s)) /\ NoFault /\ engine' = e
                       \/ NoFault /\ engine' = next /\ UNCHANGED calls
  <1>0. engine.at = "act" /\ calls \in Seq(Call) /\ clock \in Nat /\ engine \in Locals
        /\ faults \in Nat /\ UNCHANGED <<clock, offered, turns, req, allowed, fallbacks, inputs>>
        /\ i \in Rows
    BY DEF Act, TypeOK, Refers
  <1>1. v \in Verdicts /\ Free.verdict \in Verdicts /\ i \in Nat
    BY <1>0, LocalsAre DEF Locals
  <1>2. next \in Locals /\ next.todo = engine.todo /\ next.at = "dispatch"
    BY <1>0, <1>1 DEF Locals, Places
  <1>3. e \in Locals /\ e.todo = engine.todo /\ e.at = "ended" /\ e.call = i
    BY <1>1, <1>2 DEF Locals, Places
  <1>4. \A ds \in DeviceLists : /\ ring(ds) \in Locals /\ ring(ds).todo = engine.todo
                                /\ ring(ds).at = "invite" /\ ring(ds).call = i
    <2> SUFFICES ASSUME NEW ds \in DeviceLists
                 PROVE  /\ ring(ds) \in Locals /\ ring(ds).todo = engine.todo
                        /\ ring(ds).at = "invite" /\ ring(ds).call = i
      OBVIOUS
    <2>1. ds \subseteq Devices
      BY VoiceAssumption DEF VoiceAssumption
    <2> HIDE DEF next
    <2> QED BY <1>1, <1>2, <2>1 DEF Locals, Places
  <1>5. \/ end("failed") \/ end("expired")
        \/ NoFault /\ DeferCall(i, v) /\ engine' = next
        \/ /\ v.do = "ring" /\ NoFault
           /\ \E ds \in DeviceLists :
                /\ TransitionCall(i, [To(i, "ringing") EXCEPT !.rang = engine.now,
                                                              !.deadline = engine.now + RingTimeout])
                /\ engine' = ring(ds)
        \/ (NoFault \/ Fault) /\ engine' = next /\ UNCHANGED calls
    BY Zenon DEF Act, Engine
  <1> HIDE DEF i, v, next, e, ring
  <1>6. engine.todo \subseteq Rows
    BY DEF Refers
  <1>7. ASSUME NEW s \in {"failed", "expired"}, TransitionCall(i, To(i, s)), NoFault, engine' = e
        PROVE  Calm
    <2>1. s \in Terminal
      BY DEF Terminal, States, Live, InProgress
    <2>2. Rests /\ Ends(i)
      BY <1>0, <1>3, <1>7, <2>1, EndRests
    <2>3. i \in Rows'
      BY <1>0, <2>2, RestRows
    <2> QED BY <1>0, <1>3, <1>6, <1>7, <2>2, <2>3, EngineMoves DEF TypeOK, NoFault
  <1>8. ASSUME NoFault \/ Fault, engine' = next, UNCHANGED calls
        PROVE  Calm
    <2>1. Rests
      BY <1>0, <1>8, SameRests
    <2>2. faults' \in Nat
      BY <1>0, <1>8 DEF NoFault, Fault
    <2> QED BY <1>0, <1>2, <1>6, <1>8, <2>1, <2>2, EngineMoves DEF TypeOK
  <1>9. ASSUME NoFault, DeferCall(i, v), engine' = next
        PROVE  Calm
    <2>1. Rests
      BY <1>0, <1>1, <1>2, <1>9, DeferRests
    <2> QED BY <1>0, <1>2, <1>6, <1>9, <2>1, EngineMoves DEF TypeOK, NoFault
  <1>10. ASSUME v.do = "ring", NoFault, NEW ds \in DeviceLists,
                TransitionCall(i, [To(i, "ringing") EXCEPT !.rang = engine.now,
                                                           !.deadline = engine.now + RingTimeout]),
                engine' = ring(ds)
         PROVE  RingsCall(i)
    <2>1. i = engine.call /\ engine.verdict.do = "ring" /\ UNCHANGED faults
      BY <1>10 DEF i, v, NoFault
    <2> QED BY <1>0, <1>4, <1>10, <2>1, RingDoes
  <1>11. i = engine.call
    BY DEF i
  <1> QED BY <1>5, <1>7, <1>8, <1>9, <1>10, <1>11

\* A failing push and a recorded ring change no call.
LEMMA InviteCalm ==
  ASSUME TypeOK, Refers, Invite \/ CalledBack
  PROVE  Calm
  <1>0. calls \in Seq(Call) /\ engine \in Locals /\ faults \in Nat /\ offered \subseteq Nat \X Devices
        /\ UNCHANGED <<clock, calls, turns, req, allowed, fallbacks, inputs>> /\ engine.call \in Nat
        /\ engine.todo \subseteq Rows
    BY DEF Invite, CalledBack, TypeOK, Refers, Locals
  <1>1. Rests
    BY <1>0, SameRests
  <1>2. \A i \in Nat, d \in Devices :
          RecordRing(i, d) => offered' \subseteq Nat \X Devices /\ faults' \in Nat
    BY <1>0 DEF RecordRing, NoFault, Fault
  <1>3. CASE Invite
    <2>1. engine.at = "invite" /\ engine.call \in Rows /\ engine.devices \subseteq Devices
      BY <1>0, <1>3 DEF Invite, Refers, Locals
    <2>2. PICK d \in engine.devices, ok \in BOOLEAN :
            /\ engine' = [engine EXCEPT !.devices = @ \ {d}, !.sent = @ \/ ok]
            /\ RecordRing(engine.call, d)
      BY <1>3 DEF Invite, Engine
    <2> DEFINE sent == engine.sent \/ ok
               e == [engine EXCEPT !.devices = @ \ {d}, !.sent = sent]
    <2>3. sent \in BOOLEAN
      OBVIOUS
    <2>4. engine' = e
      BY <2>2
    <2> HIDE DEF sent
    <2>5. e \in Locals /\ e.at = "invite" /\ e.call = engine.call /\ e.todo = engine.todo
      BY <1>0, <2>1, <2>3 DEF Locals
    <2> HIDE DEF e
    <2>6. offered' \subseteq Nat \X Devices /\ faults' \in Nat
      BY <1>0, <1>2, <2>1, <2>2
    <2>7. engine.call \in Rows'
      BY <1>0, <2>1 DEF Rows
    <2> QED BY <1>0, <1>1, <2>4, <2>5, <2>6, <2>7, EngineMoves DEF TypeOK
  <1>4. CASE CalledBack
    <2>1. engine.devices \subseteq Devices
      BY <1>0 DEF Locals
    <2>2. offered' \subseteq Nat \X Devices /\ faults' \in Nat /\ engine' = Free
      BY <1>0, <1>2, <1>4, <2>1 DEF CalledBack, Engine
    <2>3. Free \in Locals /\ Free.todo = {} /\ Free.at = "free"
      BY LocalsAre DEF Free
    <2> HIDE DEF Free
    <2> QED BY <1>0, <1>1, <2>2, <2>3, EngineMoves DEF TypeOK
  <1> QED BY <1>3, <1>4

\* The phones have been called.
LEMMA InvitedCalm ==
  ASSUME TypeOK, Refers, Invited
  PROVE  Calm
  <1> DEFINE i == engine.call
             next == [engine EXCEPT !.at = "dispatch", !.call = 0, !.sent = FALSE]
             e == [next EXCEPT !.at = "ended", !.call = i, !.back = "dispatch"]
  <1>0. engine.at = "invite" /\ calls \in Seq(Call) /\ clock \in Nat /\ engine \in Locals
        /\ faults \in Nat /\ UNCHANGED <<clock, offered, turns, req, allowed, fallbacks, inputs>>
        /\ i \in Rows /\ i \in Nat /\ engine.todo \subseteq Rows
    BY DEF Invited, TypeOK, Refers, Locals
  <1>1. next \in Locals /\ next.todo = engine.todo /\ next.at = "dispatch"
    BY <1>0 DEF Locals, Places
  <1>2. e \in Locals /\ e.todo = engine.todo /\ e.at = "ended" /\ e.call = i
    BY <1>0, <1>1 DEF Locals, Places
  <1>3. \/ TransitionCall(i, To(i, "failed")) /\ NoFault /\ engine' = e
        \/ (NoFault \/ Fault) /\ engine' = next /\ UNCHANGED calls
    BY Zenon DEF Invited, Engine
  <1>4. faults' \in Nat
    BY <1>0, <1>3 DEF NoFault, Fault
  <1> HIDE DEF i, next, e
  <1>5. CASE TransitionCall(i, To(i, "failed")) /\ engine' = e
    <2>1. "failed" \in Terminal
      BY DEF Terminal, States, Live, InProgress
    <2>2. Rests /\ Ends(i)
      BY <1>0, <1>2, <1>5, <2>1, EndRests
    <2>3. i \in Rows'
      BY <1>0, <2>2, RestRows
    <2> QED BY <1>0, <1>2, <1>4, <1>5, <2>2, <2>3, EngineMoves DEF TypeOK
  <1>6. CASE engine' = next /\ UNCHANGED calls
    <2>1. Rests
      BY <1>0, <1>6, SameRests
    <2> QED BY <1>0, <1>1, <1>4, <1>6, <2>1, EngineMoves DEF TypeOK
  <1> QED BY <1>3, <1>5, <1>6

\* A new call about what an earlier one, or a request, is about.
LEMMA ScheduledIs ==
  ASSUME NEW c, c.message \in Messages, c.exempt \in BOOLEAN, c.test \in BOOLEAN,
         NEW key \in Keys, NEW origin \in Origins, NEW attempt \in Nat, NEW at \in Int, NEW expires \in Int
  PROVE  LET n == Scheduled(c, key, origin, attempt, at, expires)
         IN  /\ n \in Call /\ n.state = "scheduled" /\ n.rang = Never /\ n.key = key
             /\ n.by = Nobody
  BY DEF Scheduled, Call, States, Never

\* What follows from the end of a call.
LEMMA AfterEndCalm ==
  ASSUME TypeOK, Refers, AfterEnd
  PROVE  Calm
  <1> DEFINE i == engine.call
             c == calls[i]
             at == clock + RetryDelay
             n == Scheduled(c, RetryKey(i), "retry", c.attempt + 1, at, c.expires)
             e == [engine EXCEPT !.at = engine.back, !.call = 0, !.back = "free"]
  <1>0. engine.at = "ended" /\ calls \in Seq(Call) /\ clock \in Nat /\ engine \in Locals
        /\ faults \in Nat /\ fallbacks \in Seq(Nat)
        /\ UNCHANGED <<clock, offered, turns, req, allowed, inputs>>
        /\ i \in Rows /\ i \in Nat /\ engine.todo \subseteq Rows
    BY DEF AfterEnd, TypeOK, Refers, Locals
  <1>1. e \in Locals /\ e.todo = engine.todo /\ e.at = engine.back
    BY <1>0 DEF Locals, Places
  <1>2. engine' = e
    BY DEF AfterEnd, Engine
  <1>3. /\ \/ NoFault /\ InsertCall(n) /\ UNCHANGED fallbacks
           \/ (NoFault \/ Fault) /\ fallbacks' = Tell(i, c) /\ UNCHANGED calls
           \/ Fault /\ UNCHANGED <<calls, fallbacks>>
    BY Zenon DEF AfterEnd
  <1>4. faults' \in Nat
    BY <1>0, <1>3 DEF NoFault, Fault
  <1>5. fallbacks' \in Seq(Nat)
    <2>1. fallbacks \in Seq(Nat) /\ i \in Nat
      BY <1>0
    <2>2. Tell(i, c) \in Seq(Nat)
      <3> HIDE DEF i, c
      <3> QED BY <2>1 DEF Tell
    <2> HIDE DEF i, c, n
    <2> QED BY <1>3, <2>1, <2>2
  <1>6. InsertCall(n) => Rests
    <2> SUFFICES ASSUME InsertCall(n) PROVE Rests
      OBVIOUS
    <2>1. RetryDelay \in Nat /\ c \in Call
      BY <1>0, RowsAre, VoiceAssumption DEF VoiceAssumption
    <2>2. /\ c.message \in Messages /\ c.exempt \in BOOLEAN /\ c.test \in BOOLEAN
          /\ c.attempt + 1 \in Nat /\ c.expires \in Int /\ at \in Int
      <3>1. at \in Int
        BY <1>0, <2>1
      <3> HIDE DEF c, at
      <3> QED BY <2>1, <3>1 DEF Call
    <2>3. RetryKey(i) \in Keys /\ "retry" \in Origins
      BY <1>0 DEF Keys, RetryKey, Origins
    <2> HIDE DEF c, at
    <2>4. n \in Call /\ n.state = "scheduled" /\ n.rang = Never /\ n.key = RetryKey(i)
      BY <2>2, <2>3, ScheduledIs
    <2> HIDE DEF n
    <2>5. \A k, l \in Nat : RetryKey(i) # <<"turn", k, l>>
      BY DEF RetryKey
    <2>6. \A k \in Nat : RetryKey(i) = RetryKey(k) => k = i
      BY <1>0 DEF RetryKey
    <2>7. ~KeyTaken(n.key) => Fresh(n)
      BY <2>4, <2>5, <2>6 DEF Fresh
    <2> QED BY <1>0, <2>4, <2>7, InsertRests
  <1>7. Rests
    BY <1>0, <1>3, <1>6, SameRests
  <1>8. engine.back \notin {"act", "invite", "ended", "callback"}
    BY <1>0 DEF Locals
  <1> HIDE DEF e
  <1> QED BY <1>0, <1>1, <1>2, <1>4, <1>5, <1>7, <1>8, EngineMoves DEF TypeOK

\* A report that is applied.
LEMMA ReportCalm ==
  ASSUME TypeOK, Refers, NEW d \in Devices, NEW i \in Rows, NEW s \in Reports, DeviceReport(d, i, s)
  PROVE  Calm
  <1> DEFINE by == IF s = "answered" THEN d ELSE calls[i].by
             c == [To(i, s) EXCEPT !.by = by]
             e == [Free EXCEPT !.at = "ended", !.call = i]
  <1>0. engine.at = "free" /\ calls \in Seq(Call) /\ clock \in Nat /\ engine \in Locals
        /\ calls[i].by \in {Nobody, d} /\ TransitionCall(i, [To(i, s) EXCEPT !.by = IF s = "answered" THEN d ELSE @])
        /\ (IF s \in Terminal THEN engine' = e ELSE engine' = engine)
        /\ UNCHANGED <<clock, offered, turns, req, allowed, fallbacks, counters>>
    BY DEF DeviceReport, TypeOK, Engine
  <1>1. calls[i] \in Call /\ i \in Nat
    BY <1>0, RowsAre
  <1>2. by \in Devices \cup {Nobody} /\ (calls[i].by # Nobody => by = calls[i].by)
    BY <1>0, <1>1 DEF Call
  <1>3. s \in States /\ s # "ringing"
    BY DEF Reports, States
  <1>4. [To(i, s) EXCEPT !.by = IF s = "answered" THEN d ELSE @] = c
    BY <1>1 DEF To, Call
  <1> HIDE DEF by
  <1>5. /\ c \in Call /\ c.key = calls[i].key /\ c.exempt = calls[i].exempt /\ c.test = calls[i].test
        /\ c.origin = calls[i].origin /\ c.rang = calls[i].rang /\ c.expires = calls[i].expires
        /\ c.by = by /\ c.state = s
    BY <1>1, <1>2, <1>3 DEF To, Call
  <1> HIDE DEF c
  <1>6. e \in Locals /\ e.todo = {} /\ e.at = "ended" /\ e.call = i
    <2>1. Free \in Locals /\ Free.todo = {}
      BY LocalsAre
    <2> QED BY <1>1, <2>1 DEF Locals, Places
  <1> HIDE DEF e
  <1>7. Rests /\ (s \in Terminal => Ends(i))
    BY <1>0, <1>2, <1>3, <1>4, <1>5, <1>6, TransitionRests
  <1>8. Rows \subseteq Rows'
    BY <1>0, <1>7, RestRows
  <1>9. CASE engine' = e /\ s \in Terminal
    BY <1>0, <1>6, <1>7, <1>8, <1>9, EngineMoves DEF TypeOK, counters
  <1>10. CASE engine' = engine
    BY <1>0, <1>7, <1>10, EngineMoves DEF TypeOK, Refers, counters
  <1> QED BY <1>0, <1>9, <1>10

\* A call back.
LEMMA CallBackCalm ==
  ASSUME TypeOK, Refers, NEW d \in Devices, NEW i \in Rows, CallBack(d, i)
  PROVE  Calm
  <1> DEFINE key == <<"callback", d>>
             expires == clock + DefaultExpiry
             n == Scheduled(calls[i], key, "phone", 1, clock, expires)
             c == [n EXCEPT !.state = "answered", !.by = d, !.seen = clock]
             e == [Free EXCEPT !.at = "callback", !.call = Len(calls) + 1, !.devices = {d}]
  <1>0. /\ engine.at = "free" /\ calls \in Seq(Call) /\ clock \in Nat /\ inputs' \in Nat /\ Len(calls) \in Nat
        /\ ~KeyTaken(key) /\ LiveCalls = {} /\ InsertCall(c) /\ engine' = e
        /\ UNCHANGED <<clock, offered, turns, req, allowed, fallbacks, faults>>
    BY DEF CallBack, TypeOK, Engine, Asked, MayCallBack
  <1>1. calls[i] \in Call /\ expires \in Int
    <2>1. DefaultExpiry \in Nat
      BY VoiceAssumption DEF VoiceAssumption
    <2>2. expires \in Int
      BY <1>0, <2>1
    <2>3. calls[i] \in Call
      BY <1>0, RowsAre
    <2> QED BY <2>2, <2>3
  <1>2. key \in Keys /\ "phone" \in Origins /\ 1 \in Nat
    BY DEF Keys, Origins
  <1>3. \A k, l \in Nat : key # <<"turn", k, l>> /\ key # RetryKey(k)
    BY DEF RetryKey
  <1> HIDE DEF key, expires
  <1>4. n \in Call /\ n.rang = Never /\ n.key = key
    <2>1. calls[i].message \in Messages /\ calls[i].exempt \in BOOLEAN /\ calls[i].test \in BOOLEAN
      BY <1>1 DEF Call
    <2>2. clock \in Int
      BY <1>0
    <2> QED BY <1>1, <1>2, <2>1, <2>2, ScheduledIs
  <1> HIDE DEF n
  <1>5. c \in Call /\ c.rang = Never /\ c.key = key /\ c.state = "answered"
    <2>1. clock \in Int
      BY <1>0
    <2> QED BY <1>4, <2>1 DEF Call, States
  <1> HIDE DEF c
  <1>6. Fresh(c)
    BY <1>0, <1>3, <1>5 DEF Fresh
  <1>7. Rests
    BY <1>0, <1>5, <1>6, InsertRests
  <1>8. e \in Locals /\ e.todo = {} /\ e.at = "callback" /\ e.call = Len(calls) + 1
    <2>1. Len(calls) + 1 \in Nat
      BY <1>0
    <2>2. Free \in Locals /\ Free.todo = {}
      BY LocalsAre
    <2> QED BY <2>1, <2>2 DEF Locals, Places
  <1> HIDE DEF e
  <1>9. calls' = Append(calls, c)
    BY <1>0, <1>5 DEF InsertCall
  <1>10. Len(calls) + 1 \in Rows'
    BY <1>0, <1>5, <1>9 DEF Rows
  <1> QED BY <1>0, <1>7, <1>8, <1>10, EngineMoves DEF TypeOK

\* What an agent or a route asks for.
LEMMA AsksAre ==
  ASSUME NEW r \in Asks
  PROVE  /\ r.delay \in Nat /\ r.exempt \in BOOLEAN /\ r.test \in BOOLEAN
         /\ r.message \in Messages /\ r.key \in Keys /\ r.origin \in Origins
         /\ \A k, l \in Nat : r.key # <<"turn", k, l>> /\ r.key # RetryKey(k)
  <1>1. r.message \in Messages /\ r.key \in Keys
    BY DEF Messages, Keys
  <1>2. CASE r \in Requests
    <2>1. r.delay \in Nat /\ r.origin = "api" /\ r.exempt \in BOOLEAN /\ r.test \in BOOLEAN
          /\ (r.key = NoKey \/ r.key[1] = "api")
      BY <1>2, VoiceAssumption DEF VoiceAssumption
    <2>2. \A k, l \in Nat : /\ NoKey # <<"turn", k, l>> /\ NoKey # RetryKey(k)
                            /\ <<"turn", k, l>>[1] = "turn" /\ RetryKey(k)[1] = "retry"
      BY DEF NoKey, RetryKey
    <2>3. \A k, l \in Nat : r.key # <<"turn", k, l>> /\ r.key # RetryKey(k)
      BY <2>1, <2>2
    <2> QED BY <1>1, <2>1, <2>3 DEF Origins
  <1>3. ASSUME NEW d \in Deliveries, r = EventAsk(d)
        PROVE  /\ r.delay \in Nat /\ r.exempt \in BOOLEAN /\ r.test \in BOOLEAN /\ r.origin \in Origins
               /\ \A k, l \in Nat : r.key # <<"turn", k, l>> /\ r.key # RetryKey(k)
    BY <1>3 DEF EventAsk, RetryKey, Origins
  <1> QED BY <1>1, <1>2, <1>3 DEF Asks

\* Somebody asks for a call.
LEMMA CreateCalm ==
  ASSUME TypeOK, Refers, NEW c \in Callers, NEW r \in Asks, CreateCall(c, r)
  PROVE  Calm
  <1>0. /\ calls \in Seq(Call) /\ clock \in Nat /\ inputs' \in Nat /\ DefaultExpiry \in Nat
        /\ UNCHANGED <<calls, clock, offered, turns, engine, allowed, fallbacks, faults>>
    <2>1. DefaultExpiry \in Nat
      BY VoiceAssumption DEF VoiceAssumption
    <2> QED BY <2>1 DEF CreateCall, TypeOK, Asked, apart
  <1>1. Rests
    BY <1>0, SameRests
  <1> DEFINE due == clock + r.delay
             expires == clock + r.delay + DefaultExpiry
             l == [Idle EXCEPT !.at = "duplicate", !.ask = r, !.now = clock, !.due = due,
                               !.expires = expires]
  <1>2. due \in Int /\ expires \in Int
    BY <1>0, AsksAre
  <1>3. req' = req \/ Goto(c, l)
    BY DEF CreateCall
  <1> HIDE DEF due, expires
  <1>4. l \in Reqs /\ l.at = "duplicate" /\ l.ask = r
    BY <1>0, <1>2, LocalsAre DEF Reqs, Idle
  <1>5. req' = req => Goto(c, req[c]) /\ req[c] \in Reqs
    BY DEF TypeOK, Goto
  <1> HIDE DEF l
  <1>6. CASE Goto(c, l)
    BY <1>0, <1>1, <1>4, <1>6, RequestMoves DEF TypeOK
  <1>7. CASE req' = req
    BY <1>0, <1>1, <1>5, <1>7, RequestMoves DEF TypeOK, Refers
  <1> QED BY <1>3, <1>6, <1>7

\* The look for the same message, the limits, and the start of a turn.
LEMMA ChecksCalm ==
  ASSUME TypeOK, Refers, NEW c \in Callers,
         FindPendingDuplicate(c) \/ CheckPolicy(c) \/ Fail(c) \/ \E i \in Rows : Turn(c, i)
  PROVE  Calm
  <1>0. /\ calls \in Seq(Call) /\ clock \in Nat /\ inputs \in Nat /\ faults \in Nat /\ req[c] \in Reqs
        /\ UNCHANGED <<calls, clock, offered, turns, engine, allowed, fallbacks, inputs>>
        /\ faults' \in Nat
    <2>1. calls \in Seq(Call) /\ clock \in Nat /\ inputs \in Nat /\ faults \in Nat /\ req[c] \in Reqs
      BY DEF TypeOK
    <2>2. CASE FindPendingDuplicate(c)
      BY <2>1, <2>2 DEF FindPendingDuplicate, apart
    <2>3. CASE CheckPolicy(c)
      BY <2>1, <2>3 DEF CheckPolicy, apart
    <2>4. CASE Fail(c)
      BY <2>1, <2>4 DEF Fail, tables, Fault
    <2>5. CASE \E i \in Rows : Turn(c, i)
      BY <2>1, <2>5 DEF Turn, apart
    <2> QED BY <2>2, <2>3, <2>4, <2>5
  <1>1. Rests
    BY <1>0, SameRests
  <1>2. Idle \in Reqs /\ Idle.at = "idle"
    BY LocalsAre DEF Idle
  <1> SUFFICES \E l \in Reqs : /\ Goto(c, l)
                               /\ l.at \in {"duplicate", "policy", "insert"} => l.ask \in Asks
                               /\ l.at = "turn" => l.call \in Rows
    BY <1>0, <1>1, RequestMoves DEF TypeOK
  <1>3. CASE FindPendingDuplicate(c)
    <2> DEFINE at == IF req[c].ask.origin = "route" THEN "insert" ELSE "policy"
               l == [req[c] EXCEPT !.at = at]
    <2>1. Goto(c, Idle) \/ Goto(c, l)
      BY <1>3 DEF FindPendingDuplicate
    <2>2. at \in {"insert", "policy"} /\ req[c].ask \in Asks
      BY <1>3 DEF Refers, FindPendingDuplicate
    <2> HIDE DEF at
    <2>3. l \in Reqs /\ l.at = at /\ l.ask = req[c].ask
      BY <1>0, <2>2 DEF Reqs
    <2> HIDE DEF l
    <2> QED BY <1>2, <2>1, <2>2, <2>3
  <1>4. CASE CheckPolicy(c)
    <2> DEFINE lim == Limits([exempt |-> req[c].ask.exempt, origin |-> "api"], req[c].now, {})
               d == IF req[c].ask.delay > 0 THEN Proceed ELSE lim
               expires == d.until + DefaultExpiry
               l == [req[c] EXCEPT !.at = "insert", !.due = d.until, !.expires = expires]
               m == [req[c] EXCEPT !.at = "insert"]
    <2>1. Goto(c, Idle) \/ Goto(c, l) \/ Goto(c, m)
      BY <1>4 DEF CheckPolicy
    <2>2. req[c].ask \in Asks /\ req[c].now \in Nat /\ DefaultExpiry \in Nat
      BY <1>0, <1>4, VoiceAssumption DEF VoiceAssumption, Refers, CheckPolicy, Reqs
    <2>3. lim.until \in Int
      BY <1>0, <2>2, LimitsTyped
    <2> HIDE DEF lim
    <2>4. d.until \in Int
      BY <2>3 DEF Proceed
    <2> HIDE DEF d
    <2>5. expires \in Int
      BY <2>2, <2>4
    <2> HIDE DEF expires
    <2>6. l \in Reqs /\ l.at = "insert" /\ l.ask = req[c].ask
      BY <1>0, <2>4, <2>5 DEF Reqs
    <2>7. m \in Reqs /\ m.at = "insert" /\ m.ask = req[c].ask
      BY <1>0 DEF Reqs
    <2> HIDE DEF l, m
    <2> QED BY <1>2, <2>1, <2>2, <2>6, <2>7
  <1>5. CASE Fail(c)
    BY <1>2, <1>5 DEF Fail
  <1>6. ASSUME NEW i \in Rows, Turn(c, i)
        PROVE  \E l \in Reqs : Goto(c, l) /\ l.at = "turn" /\ l.call \in Rows
    <2> DEFINE n == Cardinality({t \in turns : t[1] = i}) + 1
               l == [Idle EXCEPT !.at = "turn", !.call = i, !.now = clock, !.seq = n]
    <2>1. Goto(c, l)
      BY <1>6 DEF Turn
    <2>2. n \in Nat
      <3>1. IsFiniteSet({t \in turns : t[1] = i})
        BY FS_Subset DEF TypeOK
      <3>2. Cardinality({t \in turns : t[1] = i}) \in Nat
        BY <3>1, FS_CardinalityType
      <3> QED BY <3>2
    <2> HIDE DEF n
    <2>3. l \in Reqs /\ l.at = "turn" /\ l.call = i
      BY <1>0, <1>2, <2>2, RowsAre DEF Reqs, Idle
    <2> HIDE DEF l
    <2> QED BY <2>1, <2>3
  <1> QED BY <1>3, <1>4, <1>5, <1>6

\* recordEvent and InsertCall
LEMMA InsertCalm ==
  ASSUME TypeOK, Refers, NEW c \in Callers, Insert(c)
  PROVE  Calm
  <1> DEFINE l == req[c]
             n == Scheduled(l.ask, l.ask.key, l.ask.origin, 1, l.due, l.expires)
  <1>0. /\ calls \in Seq(Call) /\ l \in Reqs /\ l.ask \in Asks /\ InsertCall(n) /\ Goto(c, Idle)
        /\ UNCHANGED <<clock, offered, turns, engine, allowed, fallbacks, inputs, faults>>
    BY DEF TypeOK, Refers, Insert, apart
  <1>1. /\ l.ask.message \in Messages /\ l.ask.exempt \in BOOLEAN /\ l.ask.test \in BOOLEAN
        /\ l.ask.key \in Keys /\ l.ask.origin \in Origins
        /\ \A k, m \in Nat : l.ask.key # <<"turn", k, m>> /\ l.ask.key # RetryKey(k)
    BY <1>0, AsksAre
  <1>2. l.due \in Int /\ l.expires \in Int /\ 1 \in Nat
    BY <1>0 DEF Reqs
  <1>3. n \in Call /\ n.state = "scheduled" /\ n.rang = Never /\ n.key = l.ask.key
    <2> HIDE DEF l
    <2> QED BY <1>1, <1>2, ScheduledIs
  <1> HIDE DEF n
  <1>4. ~KeyTaken(n.key) => Fresh(n)
    BY <1>1, <1>3 DEF Fresh
  <1>5. Rests
    BY <1>0, <1>3, <1>4, InsertRests
  <1>6. Idle \in Reqs /\ Idle.at = "idle"
    BY LocalsAre
  <1> QED BY <1>0, <1>5, <1>6, RequestMoves DEF TypeOK

\* Cancel
LEMMA CancelCalm ==
  ASSUME TypeOK, Refers, NEW i \in Rows, Cancel(i)
  PROVE  Calm
  <1>0. /\ calls \in Seq(Call) /\ clock \in Nat /\ TransitionCall(i, To(i, "cancelled"))
        /\ UNCHANGED <<req, inputs, clock, offered, turns, engine, allowed, fallbacks, faults>>
    BY DEF TypeOK, Cancel, apart
  <1>1. "cancelled" \in Terminal
    BY DEF Terminal, States, Live, InProgress
  <1>2. Rests
    BY <1>0, <1>1, EndRests
  <1>3. Rows \subseteq Rows' /\ calls' \in Seq(Call)
    BY <1>0, <1>2, RestRows DEF Rests
  <1>4. TypeOK'
    BY <1>0, <1>3 DEF TypeOK
  <1>5. Refers'
    BY <1>0, <1>3 DEF Refers
  <1> QED BY <1>0, <1>2, <1>4, <1>5 DEF Calm

\* The activity of a call is recorded, and maybe a call is added that nobody
\* has the key of.
LEMMA TouchRests ==
  ASSUME calls \in Seq(Call), clock \in Nat, NEW i \in Rows,
         NEW f, f = <<>> \/ \E n \in Call : f = <<n>> /\ Fresh(n),
         calls' = [calls EXCEPT ![i].seen = IF calls[i].state \in InProgress THEN clock ELSE @] \o f
  PROVE  Rests
  <1> DEFINE seen == IF calls[i].state \in InProgress THEN clock ELSE calls[i].seen
             m == [calls[i] EXCEPT !.seen = seen]
             t == [calls EXCEPT ![i] = m]
  <1>1. calls[i] \in Call
    BY RowsAre
  <1>2. seen \in Int
    BY <1>1 DEF Call
  <1>3. calls' = t \o f
    OBVIOUS
  <1>4. calls[i].state \in Terminal => seen = calls[i].seen
    BY DEF Terminal, Live, InProgress
  <1> HIDE DEF seen
  <1>5. /\ m \in Call /\ m.key = calls[i].key /\ m.exempt = calls[i].exempt /\ m.test = calls[i].test
        /\ m.origin = calls[i].origin /\ m.rang = calls[i].rang /\ m.by = calls[i].by
        /\ m.state = calls[i].state /\ m.expires = calls[i].expires
    BY <1>1, <1>2 DEF Call
  <1>6. calls[i].state \in Terminal => m = calls[i]
    BY <1>1, <1>4 DEF Call
  <1> HIDE DEF m
  <1>7. t \in Seq(Call) /\ Len(t) = Len(calls) /\ t[i] = m /\ \A j \in Rows : j # i => t[j] = calls[j]
    BY <1>5, RowsAre DEF Rows
  <1>8. Len(calls) \in Nat /\ Rows = 1..Len(calls)
    BY RowsAre
  <1> HIDE DEF t
  <1>9. /\ calls' \in Seq(Call) /\ Len(calls') \in Len(calls)..(Len(calls) + 1)
        /\ \A j \in Rows : calls'[j] = t[j]
        /\ \A j \in Rows' \ Rows : Fresh(calls'[j])
    <2>1. CASE f = <<>>
      <3>1. t \o f = t
        BY <1>7, <2>1
      <3>4. calls' = t
        BY <1>3, <3>1
      <3>5. Len(calls') = Len(calls) /\ calls' \in Seq(Call)
        BY <1>7, <3>4
      <3>6. Rows' = 1..Len(calls')
        BY <3>5 DEF Rows
      <3>2. calls' = t /\ Rows' = Rows /\ Len(calls') = Len(calls)
        BY <1>8, <3>4, <3>5, <3>6
      <3>3. Len(calls') \in Len(calls)..(Len(calls) + 1)
        BY <1>8, <3>2
      <3> QED BY <1>7, <3>2, <3>3
    <2>2. ASSUME NEW n \in Call, f = <<n>>, Fresh(n)
          PROVE  /\ calls' \in Seq(Call) /\ Len(calls') \in Len(calls)..(Len(calls) + 1)
                 /\ \A j \in Rows : calls'[j] = t[j]
                 /\ \A j \in Rows' \ Rows : Fresh(calls'[j])
      <3>1. t \o f \in Seq(Call) /\ Len(t \o f) = Len(t) + 1
            /\ (t \o f)[Len(t) + 1] = n /\ \A j \in 1..Len(t) : (t \o f)[j] = t[j]
        BY <1>7, <2>2
      <3>2. Rows' = 1..(Len(calls) + 1) /\ \A j \in Rows' \ Rows : j = Len(calls) + 1
        BY <1>3, <1>7, <1>8, <3>1 DEF Rows
      <3>6. Len(calls') = Len(t) + 1 /\ calls' \in Seq(Call)
        BY <1>3, <3>1
      <3>7. Len(calls') = Len(calls) + 1
        BY <1>7, <3>6
      <3>3. Len(calls') \in Len(calls)..(Len(calls) + 1) /\ calls' \in Seq(Call)
        BY <1>8, <3>6, <3>7
      <3>4. \A j \in Rows : calls'[j] = t[j]
        BY <1>3, <1>7, <1>8, <3>1
      <3>5. \A j \in Rows' \ Rows : calls'[j] = n
        BY <1>3, <1>7, <1>8, <3>1, <3>2
      <3> QED BY <2>2, <3>3, <3>4, <3>5
    <2> QED BY <2>1, <2>2
  <1>10. \A j \in Rows : Steady(calls[j], calls'[j]) /\ calls'[j].expires = calls[j].expires
                         /\ calls'[j].state = calls[j].state
    BY <1>5, <1>6, <1>7, <1>9 DEF Steady
  <1> QED BY <1>9, <1>10 DEF Rests

\* A snooze is about the call on which it was asked for.
LEMMA ApplyIs ==
  ASSUME calls \in Seq(Call), NEW i \in Rows, NEW n \in Nat, NEW now \in Nat, NEW f \in Apply(i, n, now)
  PROVE  f = <<>> \/ \E c \in Call : /\ f = <<c>> /\ c.state = "scheduled" /\ c.rang = Never
                                     /\ c.key = <<"turn", i, n>>
  <1> DEFINE key == <<"turn", i, n>>
             new == Scheduled(calls[i], key, "user", 1, 0, 0)
             wish == now + Snooze
             at == IF wish \in Quiet /\ ~Exempt(new) THEN QuietEnd(wish) ELSE wish
             expires == at + DefaultExpiry
             c == [new EXCEPT !.at = at, !.expires = expires]
  <1>0. Snooze \in Nat /\ DefaultExpiry \in Nat
    BY VoiceAssumption DEF VoiceAssumption
  <1>1. f \in {<<>>, <<c>>}
    BY DEF Apply
  <1>2. calls[i] \in Call /\ i \in Nat
    BY RowsAre
  <1>3. key \in Keys /\ "user" \in Origins /\ 1 \in Nat /\ 0 \in Int
    BY <1>2 DEF Keys, Origins
  <1>4. wish \in Int
    BY <1>0
  <1> HIDE DEF wish, key
  <1>5. at \in Int
    BY <1>4, QuietEnds
  <1> HIDE DEF at
  <1>6. expires \in Int
    BY <1>0, <1>5
  <1>7. calls[i].message \in Messages /\ calls[i].exempt \in BOOLEAN /\ calls[i].test \in BOOLEAN
    BY <1>2 DEF Call
  <1>8. new \in Call /\ new.state = "scheduled" /\ new.rang = Never /\ new.key = key
    BY <1>3, <1>7, ScheduledIs
  <1> HIDE DEF new, expires
  <1>9. c \in Call /\ c.state = "scheduled" /\ c.rang = Never /\ c.key = key
    BY <1>5, <1>6, <1>8 DEF Call
  <1> HIDE DEF c
  <1> QED BY <1>1, <1>9 DEF key

\* RecordTurn
LEMMA TurnCalm ==
  ASSUME TypeOK, Refers, TurnInv, NEW c \in Callers, RecordTurn(c)
  PROVE  Calm
  <1> DEFINE i == req[c].call
             n == req[c].seq
             touched == [calls EXCEPT ![i].seen = IF calls[i].state \in InProgress THEN clock ELSE @]
  <1>0. /\ calls \in Seq(Call) /\ clock \in Nat /\ inputs \in Nat /\ Goto(c, Idle)
        /\ UNCHANGED <<clock, offered, engine, allowed, fallbacks, faults>>
        /\ req[c] \in Reqs /\ i \in Rows
    BY DEF TypeOK, Refers, RecordTurn
  <1>1. i \in Nat /\ n \in Nat /\ req[c].now \in Nat
    BY <1>0, RowsAre DEF Reqs
  <1>2. \/ UNCHANGED <<calls, turns, inputs>>
        \/ /\ <<i, n>> \notin turns /\ turns' = turns \cup {<<i, n>>}
           /\ \E f \in Apply(i, n, req[c].now) : calls' = touched \o f /\ inputs' = inputs + Len(f)
    BY DEF RecordTurn
  <1>3. Idle \in Reqs /\ Idle.at = "idle"
    BY LocalsAre
  <1>4. CASE UNCHANGED <<calls, turns, inputs>>
    <2>1. Rests
      BY <1>0, <1>4, SameRests
    <2> QED BY <1>0, <1>3, <1>4, <2>1, RequestMoves DEF TypeOK
  <1>5. ASSUME <<i, n>> \notin turns, turns' = turns \cup {<<i, n>>},
               NEW f \in Apply(i, n, req[c].now), calls' = touched \o f, inputs' = inputs + Len(f)
        PROVE  Calm
    <2>1. f = <<>> \/ \E r \in Call : /\ f = <<r>> /\ r.state = "scheduled" /\ r.rang = Never
                                      /\ r.key = <<"turn", i, n>>
      BY <1>0, <1>1, ApplyIs
    <2>2. ASSUME NEW r \in Call, r.state = "scheduled", r.rang = Never, r.key = <<"turn", i, n>>
          PROVE  Fresh(r)
      <3>1. ~KeyTaken(r.key)
        BY <1>1, <1>5, <2>2 DEF KeyTaken, TurnInv
      <3>2. \A k, l \in Nat : r.key = <<"turn", k, l>> => <<k, l>> \in turns'
        BY <1>5, <2>2
      <3>3. \A k \in Nat : r.key # RetryKey(k)
        BY <2>2 DEF RetryKey
      <3> QED BY <2>2, <3>1, <3>2, <3>3 DEF Fresh
    <2>3. f = <<>> \/ \E r \in Call : f = <<r>> /\ Fresh(r)
      BY <2>1, <2>2
    <2>4. Rests
      BY <1>0, <1>5, <2>3, TouchRests
    <2>5. Len(f) \in Nat
      BY <2>1
    <2>6. inputs' \in Nat
      BY <1>0, <1>5, <2>5
    <2>7. IsFiniteSet(turns) /\ turns \subseteq Nat \X Nat
      BY DEF TypeOK
    <2>8. IsFiniteSet(turns')
      BY <1>5, <2>7, FS_AddElement
    <2>9. turns \subseteq turns' /\ turns' \subseteq Nat \X Nat
      BY <1>1, <1>5, <2>7
    <2> QED BY <1>0, <1>3, <2>4, <2>6, <2>8, <2>9, RequestMoves DEF TypeOK
  <1> QED BY <1>2, <1>4, <1>5

\* A crash
LEMMA CrashCalm ==
  ASSUME TypeOK, Refers, Crash
  PROVE  Calm
  <1>0. /\ calls \in Seq(Call) /\ clock \in Nat /\ faults \in Nat /\ engine' = Free
        /\ req' = [c \in Callers |-> Idle] /\ allowed' \in BOOLEAN /\ faults' = faults + 1
        /\ UNCHANGED <<clock, calls, offered, turns, fallbacks, inputs>>
    BY DEF TypeOK, Crash, tables, Fault
  <1>1. Rests
    BY <1>0, SameRests
  <1>2. Free \in Locals /\ Free.todo = {} /\ Free.at = "free" /\ Idle \in Reqs /\ Idle.at = "idle"
    BY LocalsAre
  <1>3. TypeOK'
    BY <1>0, <1>2 DEF TypeOK
  <1>4. Refers'
    BY <1>0, <1>2 DEF Refers
  <1> QED BY <1>0, <1>1, <1>2, <1>3, <1>4 DEF Calm

-----------------------------------------------------------------------------
(* The table's invariant.                                                  *)

\* A call that starts to ring keeps the policy: the verdict has looked at every
\* call that rang since.
LEMMA RingPolicy ==
  ASSUME TypeOK, RingInv, Judged, PolicyKept, NEW i, RingsCall(i)
  PROVE  PolicyKept'
  <1> DEFINE k == engine.now
             rung == {j \in Rows : calls[j].rang # Never}
             gnur == {j \in Rows' : calls'[j].rang # Never}
             old(a) == {j \in rung : calls[j].rang - calls[a].rang \in 0..(Hour - 1)}
             new(a) == {j \in gnur : calls'[j].rang - calls'[a].rang \in 0..(Hour - 1)}
  <1>0. calls \in Seq(Call) /\ MaxPerHour \in Nat /\ Hour \in Nat /\ Cooldown \in Nat /\ k \in Nat
    BY VoiceAssumption DEF VoiceAssumption, TypeOK, Locals
  <1>1. /\ i \in Rows /\ calls[i].rang = Never /\ calls'[i].rang = k
        /\ Rows' = Rows /\ \A j \in Rows \ {i} : calls'[j] = calls[j]
    BY DEF RingsCall, RingInv
  <1>2. gnur = rung \cup {i} /\ i \notin rung
    BY <1>0, <1>1 DEF Never
  <1>3. \A j \in rung : calls'[j] = calls[j] /\ calls[j].rang \in Nat /\ calls[j].rang <= k
    BY <1>0, <1>1, RowsAre DEF Call, Judged, RingsCall
  <1>4. /\ k < calls[i].expires
        /\ k \in Quiet => Exempt(calls[i])
        /\ MaxPerHour > 0 => Cardinality(RangSince(k - Hour)) < MaxPerHour
        /\ Cooldown > 0 => RangSince(k - Cooldown) = {}
    BY DEF RingsCall, Judged
  <1>5. \A j \in rung :
          /\ calls[j].rang < calls[j].expires
          /\ calls[j].rang \in Quiet => Exempt(calls[j])
          /\ MaxPerHour > 0 => Cardinality(old(j)) <= MaxPerHour
          /\ \A a \in rung \ {j} : calls[a].rang - calls[j].rang \notin 0..(Cooldown - 1)
    BY DEF PolicyKept
  <1>6. \A j \in gnur : /\ calls'[j].rang < calls'[j].expires
                        /\ calls'[j].rang \in Quiet => Exempt(calls'[j])
    BY <1>1, <1>2, <1>3, <1>4, <1>5 DEF RingsCall, Exempt
  <1>7. ASSUME MaxPerHour > 0, NEW a \in gnur
        PROVE  Cardinality(new(a)) <= MaxPerHour
    <2>0. CASE i \notin new(a) /\ a = i
      <3>1. Hour = 0
        BY <1>0, <1>1, <1>7, <2>0
      <3>2. new(a) = {}
        BY <3>1
      <3> QED BY <1>0, <3>2, FS_EmptySet
    <2>1. CASE i \notin new(a) /\ a # i
      <3>2. a \in rung
        BY <1>2, <1>7, <2>1
      <3>3. new(a) = old(a)
        BY <1>2, <1>3, <2>1, <3>2
      <3> QED BY <1>5, <1>7, <3>2, <3>3
    <2>2. CASE i \in new(a)
      <3>1. k - calls'[a].rang <= Hour - 1 /\ calls'[a].rang \in Nat
        BY <1>0, <1>1, <1>2, <1>3, <1>7, <2>2
      <3>2. \A j \in rung : calls'[j].rang - calls'[a].rang \in 0..(Hour - 1) => j \in RangSince(k - Hour)
        BY <1>0, <1>3, <3>1 DEF RangSince
      <3>3. new(a) \subseteq RangSince(k - Hour) \cup {i}
        BY <1>2, <3>2
      <3>4. IsFiniteSet(RangSince(k - Hour)) /\ Cardinality(RangSince(k - Hour)) \in Nat
        BY <1>0, RangAt
      <3>5. /\ IsFiniteSet(RangSince(k - Hour) \cup {i})
            /\ Cardinality(RangSince(k - Hour) \cup {i}) <= Cardinality(RangSince(k - Hour)) + 1
            /\ Cardinality(RangSince(k - Hour) \cup {i}) \in Nat
        <4> DEFINE s == RangSince(k - Hour)
        <4> HIDE DEF s
        <4>1. IsFiniteSet(s) /\ Cardinality(s) \in Nat
          BY <3>4 DEF s
        <4>2. /\ IsFiniteSet(s \cup {i})
              /\ Cardinality(s \cup {i}) = IF i \in s THEN Cardinality(s) ELSE Cardinality(s) + 1
          BY <4>1, FS_AddElement
        <4>3. /\ Cardinality(s \cup {i}) <= Cardinality(s) + 1
              /\ Cardinality(s \cup {i}) \in Nat
          BY <4>1, <4>2
        <4> QED BY <4>2, <4>3 DEF s
      <3>6. /\ Cardinality(new(a)) <= Cardinality(RangSince(k - Hour) \cup {i})
            /\ IsFiniteSet(new(a))
        BY <3>3, <3>5, FS_Subset
      <3>7. Cardinality(new(a)) \in Nat
        BY <3>6, FS_CardinalityType
      <3>8. Cardinality(RangSince(k - Hour)) < MaxPerHour
        BY <1>4, <1>7
      <3> HIDE DEF new, k
      <3> QED BY <1>0, <3>4, <3>5, <3>6, <3>7, <3>8
    <2> QED BY <2>0, <2>1, <2>2
  <1>8. ASSUME NEW a \in gnur, NEW j \in gnur \ {a}, calls'[j].rang - calls'[a].rang \in 0..(Cooldown - 1)
        PROVE  FALSE
    <2>1. Cooldown > 0
      BY <1>0, <1>8
    <2>2. \A l \in rung : ~(calls[l].rang >= k - Cooldown)
      BY <1>4, <2>1 DEF RangSince
    <2>3. CASE j = i
      BY <1>0, <1>1, <1>2, <1>3, <1>8, <2>2, <2>3
    <2>4. CASE a = i
      BY <1>0, <1>1, <1>2, <1>3, <1>8, <2>2, <2>4
    <2>5. CASE a # i /\ j # i
      BY <1>2, <1>3, <1>5, <1>8, <2>5
    <2> QED BY <2>3, <2>4, <2>5
  <1> SUFFICES \A a \in gnur :
                /\ calls'[a].rang < calls'[a].expires
                /\ calls'[a].rang \in Quiet => Exempt(calls'[a])
                /\ MaxPerHour > 0 => Cardinality(new(a)) <= MaxPerHour
                /\ \A j \in gnur \ {a} : calls'[j].rang - calls'[a].rang \notin 0..(Cooldown - 1)
    BY DEF PolicyKept, Exempt, Rows
  <1> HIDE DEF gnur, new
  <1> QED BY <1>6, <1>7, <1>8

\* Init
LEMMA InitTable == Init => Table
  <1> SUFFICES ASSUME Init PROVE Table
    OBVIOUS
  <1>1. Free \in Locals /\ Free.todo = {} /\ Free.at = "free" /\ Idle \in Reqs /\ Idle.at = "idle"
    BY LocalsAre
  <1>2. calls = <<>> /\ turns = {} /\ engine = Free /\ req = [c \in Callers |-> Idle]
    BY DEF Init
  <1>3. Rows = {}
    BY <1>2 DEF Rows
  <1>4. IsFiniteSet({})
    BY FS_EmptySet
  <1>5. TypeOK
    BY <1>1, <1>4 DEF Init, TypeOK
  <1>6. Refers
    BY <1>1, <1>2, <1>3 DEF Refers
  <1>7. RingInv /\ TurnInv /\ OneCallPerKey /\ OneLive /\ PolicyKept
    BY <1>3 DEF RingInv, TurnInv, OneCallPerKey, OneLive, LiveCalls, PolicyKept
  <1>8. Judged
    BY <1>1, <1>2 DEF Judged
  <1> QED BY <1>5, <1>6, <1>7, <1>8 DEF Table

\* Every step rings a call, judges one, or does neither.
LEMMA NextDoes ==
  ASSUME TypeOK, Refers, TurnInv, Next
  PROVE  Calm \/ RingsCall(engine.call) \/ Dispatch
  <1>1. CASE Advance
    BY <1>1, PassCalm
  <1>2. CASE Pass
    BY <1>2, PassCalm, FinishCalm, ActDoes, InviteCalm, InvitedCalm, AfterEndCalm DEF Pass
  <1>3. CASE Phone
    BY <1>3, ReportCalm, CallBackCalm DEF Phone
  <1>4. CASE Crash
    BY <1>4, CrashCalm
  <1>5. ASSUME NEW i \in Rows, Cancel(i) PROVE Calm
    BY <1>5, CancelCalm
  <1>6. ASSUME NEW c \in Callers, Request(c) PROVE Calm
    <2>1. CASE \E r \in Requests : CreateCall(c, r)
      BY <2>1, CreateCalm DEF Asks
    <2>2. CASE \E d \in Deliveries : CreateFromEvent(c, d)
      <3>1. \A d \in Deliveries : EventAsk(d) \in Asks
        BY DEF Asks
      <3>2. \A d \in Deliveries : CreateFromEvent(c, d) = CreateCall(c, EventAsk(d))
        BY DEF CreateFromEvent, EventAsk
      <3> QED BY <2>2, <3>1, <3>2, CreateCalm
    <2>3. CASE FindPendingDuplicate(c) \/ CheckPolicy(c) \/ Fail(c) \/ \E i \in Rows : Turn(c, i)
      BY <2>3, ChecksCalm
    <2>4. CASE Insert(c)
      BY <2>4, InsertCalm
    <2>5. CASE RecordTurn(c)
      BY <2>5, TurnCalm
    <2> QED BY <1>6, <2>1, <2>2, <2>3, <2>4, <2>5 DEF Request
  <1> QED BY <1>1, <1>2, <1>3, <1>4, <1>5, <1>6 DEF Next

\* What holds after a call starts to ring.
LEMMA RingTable ==
  ASSUME Table, RingsCall(engine.call)
  PROVE  Table'
  <1> DEFINE i == engine.call
  <1>0. /\ i \in Rows /\ calls \in Seq(Call) /\ clock' = clock /\ turns' = turns /\ engine.now \in Nat
        /\ Rows' = Rows /\ \A j \in Rows \ {i} : calls'[j] = calls[j]
        /\ calls'[i].state = "ringing" /\ calls'[i].rang = engine.now /\ calls'[i].key = calls[i].key
        /\ engine.now <= clock
    BY DEF RingsCall, Table, TypeOK, Locals, Judged
  <1> HIDE DEF i
  <1>1. TypeOK' /\ Refers'
    BY DEF RingsCall
  <1>2. RingInv'
    <2> SUFFICES ASSUME NEW j \in Rows'
                 PROVE  /\ calls'[j].state = "scheduled" => calls'[j].rang = Never
                        /\ calls'[j].rang # Never => calls'[j].rang <= clock'
      BY DEF RingInv
    <2>1. CASE j = i
      BY <1>0, <2>1
    <2>2. CASE j # i
      BY <1>0, <2>2 DEF Table, RingInv
    <2> QED BY <2>1, <2>2
  <1>3. TurnInv'
    BY <1>0 DEF Table, TurnInv
  <1>4. OneCallPerKey'
    <2>1. \A j \in Rows : calls'[j].key = calls[j].key
      BY <1>0
    <2> QED BY <1>0, <2>1 DEF Table, OneCallPerKey
  <1>5. OneLive'
    <2>1. LiveCalls \subseteq {i}
      BY DEF RingsCall, Table, Judged, i
    <2>2. LiveCalls' \subseteq {i}
      BY <1>0, <2>1 DEF LiveCalls
    <2> QED BY <2>2 DEF OneLive
  <1>6. Judged'
    BY DEF RingsCall, Judged
  <1>7. PolicyKept'
    BY RingPolicy DEF Table
  <1> QED BY <1>1, <1>2, <1>3, <1>4, <1>5, <1>6, <1>7 DEF Table

\* What holds after any other step.
LEMMA CalmTable ==
  ASSUME Table, Calm
  PROVE  Table'
  <1>1. /\ TypeOK /\ Refers /\ RingInv /\ TurnInv /\ OneCallPerKey /\ OneLive /\ Judged /\ PolicyKept
        /\ calls \in Seq(Call) /\ clock \in Nat /\ engine \in Locals
    BY DEF Table, TypeOK
  <1>2. /\ TypeOK' /\ Refers' /\ Rests /\ clock <= clock' /\ turns \subseteq turns' /\ clock' \in Nat
        /\ engine'.at = "act" => engine' = engine
    BY DEF Calm, TypeOK
  <1> QED BY <1>1, <1>2, RestKeys, RestLive, RestRing, RestTurns, RestPolicy, RestJudged DEF Table

\* Each step keeps the table.
LEMMA NextTable ==
  ASSUME Table, [Next]_vars
  PROVE  Table'
  <1>1. CASE Next
    <2>1. CASE Dispatch
      <3>1. TypeOK' /\ Refers' /\ Rests /\ Judged' /\ UNCHANGED <<turns, clock, calls, fallbacks>>
        BY <2>1, DispatchJudges DEF Table
      <3>2. /\ RingInv /\ TurnInv /\ OneCallPerKey /\ OneLive /\ PolicyKept
            /\ calls \in Seq(Call) /\ clock \in Nat /\ clock' \in Nat /\ clock <= clock' /\ turns \subseteq turns'
        BY <3>1 DEF Table, TypeOK
      <3> QED BY <3>1, <3>2, RestKeys, RestLive, RestRing, RestTurns, RestPolicy DEF Table
    <2> QED BY <1>1, <2>1, NextDoes, RingTable, CalmTable DEF Table
  <1>2. CASE UNCHANGED vars
    <2>1. UNCHANGED <<clock, calls, offered, turns, engine, req, allowed, fallbacks, inputs, faults>>
      BY <1>2 DEF vars, tables, counters
    <2>2. Rests
      BY <2>1, SameRests DEF Table, TypeOK
    <2>3. TypeOK' /\ clock <= clock'
      BY <2>1 DEF Table, TypeOK
    <2>4. Refers'
      BY <2>1 DEF Table, Refers, Rows
    <2> QED BY <2>1, <2>2, <2>3, <2>4, CalmTable DEF Calm
  <1> QED BY <1>1, <1>2

\* The table of calls, through every step of the service and the phones.
LEMMA TableInvariant == Spec => []Table
  BY InitTable, NextTable, PTL DEF Spec

\* An idempotency key names one call, over requests that race, retries of the
\* engine and turns sent twice.
THEOREM KeysAreUnique == Spec => []OneCallPerKey
  <1>1. Table => OneCallPerKey
    BY DEF Table
  <1> QED BY <1>1, TableInvariant, PTL

\* The calls rang as the recipient's policy has it, although it is judged one
\* step before the call rings.
THEOREM PolicyIsKept == Spec => []PolicyKept
  <1>1. Table => PolicyKept
    BY DEF Table
  <1> QED BY <1>1, TableInvariant, PTL

\* The recipient is on one call at most.
THEOREM OneCallAtATime == Spec => []OneLiveCall
  <1>1. ASSUME Table PROVE OneLiveCall
    <2>1. IsFiniteSet(LiveCalls)
      BY <1>1, RowsAre, FS_Subset DEF LiveCalls, Table, TypeOK
    <2>2. \A i, j \in LiveCalls : i = j
      BY <1>1 DEF Table, OneLive
    <2>3. CASE LiveCalls = {}
      BY <2>3, FS_EmptySet DEF OneLiveCall
    <2>4. ASSUME NEW i \in LiveCalls PROVE OneLiveCall
      <3>1. LiveCalls = {i}
        BY <2>2, <2>4
      <3>2. Cardinality({i}) = 1
        BY FS_Singleton
      <3> QED BY <3>1, <3>2 DEF OneLiveCall
    <2> QED BY <2>3, <2>4
  <1> QED BY <1>1, TableInvariant, PTL

\* A call that has ended stays as it ended, with the phone that answered.
THEOREM EndsAreFinal == Spec => FinalIsFinal
  <1> DEFINE Final == \A i \in Rows : /\ calls[i].state \in Terminal => calls'[i] = calls[i]
                                      /\ calls[i].by # Nobody => calls'[i].by = calls[i].by
  <1>1. ASSUME Table, [Next]_vars
        PROVE  [Final]_vars
    <2>1. Rests => Final
      BY DEF Rests, Steady
    <2>2. ASSUME RingsCall(engine.call) PROVE Final
      <3>1. \A j \in Rows \ {engine.call} : calls'[j] = calls[j]
        BY <2>2 DEF RingsCall
      <3>2. calls[engine.call].state \notin Terminal /\ calls'[engine.call].by = calls[engine.call].by
        BY <2>2 DEF RingsCall, Terminal
      <3> QED BY <3>1, <3>2
    <2>3. CASE Next
      <3>1. Calm => Final
        BY <2>1 DEF Calm
      <3>2. Dispatch => Final
        BY <1>1, <2>1, DispatchJudges DEF Table
      <3> QED BY <1>1, <2>2, <2>3, <3>1, <3>2, NextDoes DEF Table
    <2>4. CASE UNCHANGED vars
      BY <2>4
    <2> QED BY <1>1, <2>3, <2>4
  <1> QED BY <1>1, TableInvariant, PTL DEF Spec, FinalIsFinal

-----------------------------------------------------------------------------
(* What follows from the end of a call.                                    *)

\* Other steps tell nobody, and the engine waits for the step that does.
LEMMA OthersTellNobody ==
  ASSUME TypeOK, Next, ~AfterEnd
  PROVE  /\ UNCHANGED fallbacks
         /\ faults' = 0 => faults = 0
         /\ engine.at = "ended" => engine' = engine \/ faults' # 0
  <1>0. faults \in Nat
    BY DEF TypeOK
  <1>1. CASE Advance
    BY <1>1 DEF Advance, counters
  <1>2. CASE Pass
    <2>1. CASE RingingPastDeadline
      BY <2>1 DEF RingingPastDeadline, Lists, Reaches, counters
    <2>2. CASE StaleInProgress
      BY <2>2 DEF StaleInProgress, Lists, Reaches, counters
    <2>3. CASE DueCalls
      BY <2>3 DEF DueCalls, Lists, Reaches, counters
    <2>4. CASE FinishListed
      BY <1>0, <2>4 DEF FinishListed, Finish, NoFault, Fault
    <2>5. CASE PassDone
      BY <2>5 DEF PassDone, counters
    <2>6. CASE Dispatch
      BY <1>0, <2>6 DEF Dispatch, NoFault, Fault
    <2>7. CASE Act
      <3>1. NoFault \/ Fault
        BY <2>7, Zenon DEF Act
      <3>2. engine.at = "act" /\ UNCHANGED fallbacks
        BY <2>7 DEF Act
      <3> QED BY <1>0, <3>1, <3>2 DEF NoFault, Fault
    <2>8. CASE Invite
      BY <1>0, <2>8 DEF Invite, RecordRing, NoFault, Fault
    <2>9. CASE Invited
      BY <1>0, <2>9 DEF Invited, NoFault, Fault
    <2>10. CASE CalledBack
      BY <1>0, <2>10 DEF CalledBack, RecordRing, NoFault, Fault
    <2> QED BY <1>2, <2>1, <2>2, <2>3, <2>4, <2>5, <2>6, <2>7, <2>8, <2>9, <2>10 DEF Pass
  <1>3. CASE Phone
    BY <1>3 DEF Phone, DeviceReport, CallBack, counters
  <1>4. CASE Crash
    BY <1>0, <1>4 DEF Crash, Fault
  <1>5. CASE \E i \in Rows : Cancel(i)
    BY <1>5 DEF Cancel, apart
  <1>6. ASSUME NEW c \in Callers, Request(c)
        PROVE  UNCHANGED <<fallbacks, engine>> /\ (faults' = 0 => faults = 0)
    <2>1. CASE Fail(c)
      BY <1>0, <2>1 DEF Fail, Fault
    <2>2. CASE RecordTurn(c)
      BY <2>2 DEF RecordTurn
    <2>3. CASE \E r \in Requests : CreateCall(c, r)
      BY <2>3 DEF CreateCall, apart
    <2>4. CASE \E d \in Deliveries : CreateFromEvent(c, d)
      BY <2>4 DEF CreateFromEvent, CreateCall, apart
    <2>5. CASE FindPendingDuplicate(c) \/ CheckPolicy(c) \/ Insert(c)
      BY <2>5 DEF FindPendingDuplicate, CheckPolicy, Insert, apart
    <2>6. CASE \E i \in Rows : Turn(c, i)
      BY <2>6 DEF Turn, apart
    <2> QED BY <1>6, <2>1, <2>2, <2>3, <2>4, <2>5, <2>6 DEF Request
  <1> QED BY <1>1, <1>2, <1>3, <1>4, <1>5, <1>6 DEF Next

\* Who was tried again is known from the keys.
LEMMA RestTried ==
  ASSUME calls \in Seq(Call), Rests, ~AfterEnd
  PROVE  \A i \in Nat : Retried(i)' <=> Retried(i)
  <1>1. \A j \in Rows : j \in Rows' /\ calls'[j].key = calls[j].key
    BY RestRows DEF Steady
  <1>2. \A j \in Rows' \ Rows : \A i \in Nat : calls'[j].key # RetryKey(i)
    BY RestRows DEF Fresh
  <1> QED BY <1>1, <1>2 DEF Retried, RetryKey

\* Any other step keeps the account of who was told.
LEMMA OthersKeepTell ==
  ASSUME TypeOK, Refers, TellInv, Rests, ~AfterEnd, UNCHANGED fallbacks, faults' = 0 => faults = 0,
         engine.at = "ended" => engine' = engine \/ faults' # 0,
         engine'.at = "ended" => engine' = engine \/ Ends(engine'.call)
  PROVE  TellInv'
  <1>0. calls \in Seq(Call)
    BY DEF TypeOK
  <1>1. \A i \in Nat : Retried(i)' <=> Retried(i)
    BY <1>0, RestTried
  <1>2. \A i \in Nat : Told(i)' <=> Told(i)
    BY DEF Told
  <1>3. /\ Rows \subseteq Rows' /\ Rows \subseteq Nat
        /\ \A i \in Rows : calls[i].state \in Terminal => calls'[i] = calls[i]
        /\ \A i \in Rows' \ Rows : ~Unanswered(calls'[i])
    BY <1>0, RowsAre, RestRows DEF Steady, Fresh, Unanswered
  <1>4. \A c : Unanswered(c) => c.state \in Terminal /\ c.state # "cancelled"
    BY DEF Unanswered, Terminal, States, Live, InProgress
  <1>5. \A m, n \in DOMAIN fallbacks' : fallbacks'[m] = fallbacks'[n] => m = n
    BY DEF TellInv
  <1>6. \A i \in Nat : ~(Retried(i)' /\ Told(i)')
    BY <1>1, <1>2 DEF TellInv
  <1>7. ASSUME NEW i \in Nat, Retried(i)' \/ Told(i)'
        PROVE  i \in Rows' /\ Unanswered(calls'[i]) /\ ~(engine'.at = "ended" /\ engine'.call = i)
    <2>1. i \in Rows /\ Unanswered(calls[i]) /\ ~(engine.at = "ended" /\ engine.call = i)
      BY <1>1, <1>2, <1>7 DEF TellInv, Ending
    <2>2. calls[i].state \in Terminal
      BY <1>4, <2>1
    <2>3. calls'[i] = calls[i]
      BY <1>3, <2>1, <2>2
    <2>4. ~(engine'.at = "ended" /\ engine'.call = i)
      BY <2>1, <2>2 DEF Ends
    <2> QED BY <1>3, <2>1, <2>3, <2>4
  <1>8. engine'.at = "ended" => calls'[engine'.call].state \in Terminal
    <2>1. CASE engine' = engine /\ engine.at = "ended"
      BY <1>3, <2>1 DEF TellInv, Refers
    <2> QED BY <2>1 DEF Ends
  <1>9. ASSUME faults' = 0, NEW i \in Rows', Unanswered(calls'[i]), ~calls'[i].test
        PROVE  Retried(i)' \/ Told(i)' \/ (engine'.at = "ended" /\ engine'.call = i)
    <2>1. i \in Rows /\ i \in Nat
      BY <1>3, <1>9
    <2>2. calls'[i].state \in Terminal /\ calls'[i].state # "cancelled"
      BY <1>4, <1>9
    <2>3. CASE calls[i].state \notin Terminal
      BY <2>1, <2>2, <2>3 DEF Rests
    <2>4. CASE calls[i].state \in Terminal
      <3>1. calls'[i] = calls[i]
        BY <1>3, <2>1, <2>4
      <3>2. Retried(i) \/ Told(i) \/ (engine.at = "ended" /\ engine.call = i)
        BY <1>9, <2>1, <3>1 DEF TellInv, Ending
      <3> QED BY <1>1, <1>2, <1>9, <2>1, <3>2
    <2> QED BY <2>3, <2>4
  <1>10. /\ \A i \in Nat : Retried(i)' \/ Told(i)' => i \in Rows' /\ Unanswered(calls'[i]) /\ ~Ending(i)'
         /\ faults' = 0 => \A i \in Rows' : Unanswered(calls'[i]) /\ ~calls'[i].test =>
                             Retried(i)' \/ Told(i)' \/ Ending(i)'
    BY <1>7, <1>9 DEF Ending
  <1> QED BY <1>5, <1>6, <1>8, <1>10 DEF TellInv, Unanswered

\* The call that rings has not ended.
LEMMA RingTells ==
  ASSUME TypeOK, TellInv, NEW i, RingsCall(i)
  PROVE  TellInv'
  <1>1. /\ Rows' = Rows /\ i \in Rows /\ \A j \in Rows \ {i} : calls'[j] = calls[j]
        /\ calls[i].state = "scheduled" /\ calls'[i].state = "ringing" /\ calls'[i].key = calls[i].key
        /\ UNCHANGED <<fallbacks, faults>> /\ engine'.at = "invite" /\ engine.at = "act"
        /\ Rows \subseteq Nat
    BY RowsAre DEF RingsCall, TypeOK
  <1>2. \A j \in Nat : (Retried(j)' <=> Retried(j)) /\ (Told(j)' <=> Told(j))
    BY <1>1 DEF Retried, Told, RetryKey
  <1>3. ~Unanswered(calls[i]) /\ ~Unanswered(calls'[i])
    BY <1>1 DEF Unanswered
  <1>4. /\ \A m, n \in DOMAIN fallbacks' : fallbacks'[m] = fallbacks'[n] => m = n
        /\ \A j \in Nat : ~(Retried(j)' /\ Told(j)')
        /\ engine'.at = "ended" => calls'[engine'.call].state \in Terminal
    BY <1>1, <1>2 DEF TellInv
  <1>5. \A j \in Nat : Retried(j)' \/ Told(j)' =>
                         j \in Rows' /\ Unanswered(calls'[j]) /\ ~(engine'.at = "ended" /\ engine'.call = j)
    BY <1>1, <1>2, <1>3 DEF TellInv
  <1>6. faults' = 0 => \A j \in Rows' : Unanswered(calls'[j]) /\ ~calls'[j].test => Retried(j)' \/ Told(j)'
    BY <1>1, <1>2, <1>3 DEF TellInv, Ending
  <1> QED BY <1>4, <1>5, <1>6 DEF TellInv, Unanswered, Ending

\* The step that tries again or tells, for the call that has ended.
LEMMA AfterEndTells ==
  ASSUME TypeOK, Refers, TellInv, AfterEnd
  PROVE  TellInv'
  <1> DEFINE i == engine.call
             c == calls[i]
             n == Scheduled(c, RetryKey(i), "retry", c.attempt + 1, clock + RetryDelay, c.expires)
             retries == Retries(c, clock + RetryDelay) /\ ~KeyTaken(RetryKey(i))
  <1>0. /\ engine.at = "ended" /\ calls \in Seq(Call) /\ fallbacks \in Seq(Nat) /\ faults \in Nat
        /\ i \in Rows /\ i \in Nat /\ Rows \subseteq Nat /\ c.state \in Terminal
        /\ engine.back # "ended" /\ engine \in Locals
    BY RowsAre DEF AfterEnd, TypeOK, Refers, TellInv, Locals
  <1>1. engine'.at # "ended"
    BY <1>0 DEF AfterEnd, Engine, Locals
  <1>2. ~Retried(i) /\ ~Told(i)
    BY <1>0 DEF TellInv, Ending
  <1>3. \/ retries /\ NoFault /\ InsertCall(n) /\ UNCHANGED fallbacks
        \/ /\ retries \/ NoFault
           /\ retries => Fault
           /\ fallbacks' = Tell(i, c) /\ UNCHANGED calls
        \/ Fault /\ UNCHANGED <<calls, fallbacks>>
    BY Zenon DEF AfterEnd
  <1>4. ~KeyTaken(RetryKey(i))
    BY <1>2 DEF KeyTaken, Retried
  <1>5. retries => Unanswered(c)
    BY DEF Retries, Unanswered
  <1>6. faults' = 0 => NoFault
    BY <1>0, <1>3 DEF Fault
  <1>7. n.key = RetryKey(i) /\ n.state = "scheduled"
    BY DEF Scheduled
  <1> HIDE DEF c, n, retries, i
  <1>8. ASSUME retries, NoFault, InsertCall(n), UNCHANGED fallbacks
        PROVE  TellInv'
    <2>1. calls' = Append(calls, n)
      BY <1>4, <1>7, <1>8 DEF InsertCall
    <2>2. /\ Rows \subseteq Rows' /\ \A j \in Rows : calls'[j] = calls[j]
          /\ Len(calls) + 1 \in Rows' /\ \A j \in Rows' \ Rows : calls'[j] = n
          /\ \E j \in Rows' : calls'[j] = n
      BY <1>0, <2>1 DEF Rows
    <2>3. \A j \in Nat : Retried(j)' <=> Retried(j) \/ j = i
      <3> SUFFICES ASSUME NEW j \in Nat PROVE Retried(j)' <=> Retried(j) \/ j = i
        OBVIOUS
      <3>0. (Retried(j) <=> \E r \in Rows : calls[r].key = RetryKey(j))
            /\ (Retried(j)' <=> \E r \in Rows' : calls'[r].key = RetryKey(j))
        BY DEF Retried, RetryKey
      <3>1. RetryKey(i) = RetryKey(j) <=> i = j
        BY <1>0 DEF RetryKey
      <3>2. ASSUME NEW r \in Rows', calls'[r].key = RetryKey(j)
            PROVE  Retried(j) \/ j = i
        <4>1. CASE r \in Rows
          BY <2>2, <3>0, <3>2, <4>1
        <4>2. CASE r \notin Rows
          BY <1>7, <2>2, <3>1, <3>2, <4>2
        <4> QED BY <4>1, <4>2
      <3>3. Retried(j) => Retried(j)'
        BY <2>2, <3>0
      <3>4. j = i => Retried(j)'
        BY <1>7, <2>2, <3>0
      <3> QED BY <3>0, <3>2, <3>3, <3>4
    <2>4. \A j \in Nat : Told(j)' <=> Told(j)
      BY <1>8 DEF Told
    <2>5. ~Unanswered(n)
      BY <1>7 DEF Unanswered
    <2>6. Unanswered(calls[i])
      BY <1>5, <1>8 DEF c
    <2>7. /\ \A m, l \in DOMAIN fallbacks' : fallbacks'[m] = fallbacks'[l] => m = l
          /\ \A j \in Nat : ~(Retried(j)' /\ Told(j)')
      BY <1>2, <1>8, <2>3, <2>4 DEF TellInv
    <2>8. \A j \in Nat : Retried(j)' \/ Told(j)' => j \in Rows' /\ Unanswered(calls'[j])
      BY <1>0, <2>2, <2>3, <2>4, <2>6 DEF TellInv
    <2>9. ASSUME faults' = 0, NEW j \in Rows', Unanswered(calls'[j]), ~calls'[j].test
          PROVE  Retried(j)' \/ Told(j)'
      <3>1. j \in Rows /\ calls'[j] = calls[j] /\ j \in Nat
        BY <1>0, <2>2, <2>5, <2>9
      <3>2. Retried(j) \/ Told(j) \/ j = i
        BY <1>8, <2>9, <3>1 DEF TellInv, Ending, NoFault, i
      <3> QED BY <2>3, <2>4, <3>1, <3>2
    <2>10. faults' = 0 => \A j \in Rows' : Unanswered(calls'[j]) /\ ~calls'[j].test => Retried(j)' \/ Told(j)'
      BY <2>9
    <2> QED BY <1>1, <2>7, <2>8, <2>10 DEF TellInv, Unanswered, Ending
  <1>9. ASSUME retries \/ NoFault, retries => Fault, fallbacks' = Tell(i, c), UNCHANGED calls,
               Unanswered(c), ~c.test
        PROVE  TellInv'
    <2>1. fallbacks' = Append(fallbacks, i)
      BY <1>9 DEF Tell
    <2>2. DOMAIN fallbacks = 1..Len(fallbacks) /\ Len(fallbacks) \in Nat
      BY <1>0
    <2>3. /\ DOMAIN fallbacks' = 1..(Len(fallbacks) + 1)
          /\ \A m \in DOMAIN fallbacks : fallbacks'[m] = fallbacks[m]
          /\ fallbacks'[Len(fallbacks) + 1] = i
      BY <1>0, <2>1
    <2>4. \A j \in Nat : Told(j)' <=> Told(j) \/ j = i
      BY <2>2, <2>3 DEF Told
    <2>5. \A j \in Nat : Retried(j)' <=> Retried(j)
      BY <1>9 DEF Retried, Rows, RetryKey
    <2>6. Rows' = Rows /\ \A j \in Rows : calls'[j] = calls[j]
      BY <1>9 DEF Rows
    <2>7. \A m \in DOMAIN fallbacks : fallbacks[m] # i
      BY <1>2 DEF Told, i
    <2>8. \A m, l \in DOMAIN fallbacks' : fallbacks'[m] = fallbacks'[l] => m = l
      <3> SUFFICES ASSUME NEW m \in DOMAIN fallbacks', NEW l \in DOMAIN fallbacks',
                          fallbacks'[m] = fallbacks'[l]
                   PROVE  m = l
        OBVIOUS
      <3>1. (m \in DOMAIN fallbacks \/ m = Len(fallbacks) + 1)
            /\ (l \in DOMAIN fallbacks \/ l = Len(fallbacks) + 1)
        BY <2>2, <2>3
      <3>2. \A a, b \in DOMAIN fallbacks : fallbacks[a] = fallbacks[b] => a = b
        BY DEF TellInv
      <3> QED BY <2>3, <2>7, <3>1, <3>2
    <2>9. \A j \in Nat : ~(Retried(j)' /\ Told(j)')
      BY <1>2, <2>4, <2>5 DEF TellInv, i
    <2>10. \A j \in Nat : Retried(j)' \/ Told(j)' => j \in Rows' /\ Unanswered(calls'[j])
      BY <1>0, <1>9, <2>4, <2>5, <2>6 DEF TellInv, c
    <2>11. faults' = 0 => \A j \in Rows' : Unanswered(calls'[j]) /\ ~calls'[j].test => Retried(j)' \/ Told(j)'
      BY <1>0, <1>6, <2>4, <2>5, <2>6 DEF TellInv, Ending, NoFault, i
    <2> QED BY <1>1, <2>8, <2>9, <2>10, <2>11 DEF TellInv, Unanswered, Ending
  <1>10. ASSUME UNCHANGED <<calls, fallbacks>>, Fault \/ ~(Unanswered(c) /\ ~c.test),
                faults' = 0 => NoFault
         PROVE  TellInv'
    <2>1. \A j \in Nat : (Retried(j)' <=> Retried(j)) /\ (Told(j)' <=> Told(j))
      BY <1>10 DEF Retried, Rows, RetryKey, Told
    <2>2. Rows' = Rows /\ \A j \in Rows : calls'[j] = calls[j]
      BY <1>10 DEF Rows
    <2>3. /\ \A m, l \in DOMAIN fallbacks' : fallbacks'[m] = fallbacks'[l] => m = l
          /\ \A j \in Nat : ~(Retried(j)' /\ Told(j)')
      BY <1>10, <2>1 DEF TellInv
    <2>4. \A j \in Nat : Retried(j)' \/ Told(j)' => j \in Rows' /\ Unanswered(calls'[j])
      BY <1>0, <2>1, <2>2 DEF TellInv
    <2>5. ASSUME faults' = 0, NEW j \in Rows', Unanswered(calls'[j]), ~calls'[j].test
          PROVE  Retried(j)' \/ Told(j)'
      <3>1. faults = 0 /\ ~(Unanswered(c) /\ ~c.test)
        BY <1>0, <1>10, <2>5 DEF NoFault, Fault
      <3>2. j \in Rows /\ calls'[j] = calls[j] /\ j \in Nat /\ j # i
        BY <1>0, <2>2, <2>5, <3>1 DEF c
      <3>3. Retried(j) \/ Told(j)
        BY <2>5, <3>1, <3>2 DEF TellInv, Ending, i
      <3> QED BY <2>1, <3>2, <3>3
    <2>6. faults' = 0 => \A j \in Rows' : Unanswered(calls'[j]) /\ ~calls'[j].test => Retried(j)' \/ Told(j)'
      BY <2>5
    <2> QED BY <1>1, <2>3, <2>4, <2>6 DEF TellInv, Unanswered, Ending
  <1>11. Tell(i, c) = IF Unanswered(c) /\ ~c.test THEN Append(fallbacks, i) ELSE fallbacks
    BY DEF Tell
  <1> QED BY <1>3, <1>6, <1>8, <1>9, <1>10, <1>11

\* Each step keeps what is told of a call.
LEMMA NextTells ==
  ASSUME Table, TellInv, [Next]_vars
  PROVE  TellInv'
  <1>0. TypeOK /\ Refers /\ RingInv /\ TurnInv
    BY DEF Table
  <1>1. CASE AfterEnd
    BY <1>0, <1>1, AfterEndTells
  <1>2. CASE Next /\ ~AfterEnd
    <2>1. /\ UNCHANGED fallbacks
          /\ faults' = 0 => faults = 0
          /\ engine.at = "ended" => engine' = engine \/ faults' # 0
      BY <1>0, <1>2, OthersTellNobody
    <2>2. CASE Calm
      <3>1. Rests /\ (engine'.at = "ended" => engine' = engine \/ Ends(engine'.call))
        BY <2>2 DEF Calm
      <3> QED BY <1>0, <1>2, <2>1, <3>1, OthersKeepTell
    <2>3. CASE RingsCall(engine.call)
      BY <1>0, <2>3, RingTells
    <2>4. CASE Dispatch
      <3>1. Rests
        BY <1>0, <2>4, DispatchJudges
      <3>2. engine'.at # "ended"
        <4>1. engine.at = "dispatch" /\ engine \in Locals
          BY <1>0, <2>4 DEF Dispatch, TypeOK
        <4> QED BY <2>4, <4>1 DEF Dispatch, Engine, Locals
      <3> QED BY <1>0, <1>2, <2>1, <3>1, <3>2, OthersKeepTell
    <2> QED BY <1>0, <1>2, <2>2, <2>3, <2>4, NextDoes
  <1>3. CASE UNCHANGED vars
    <2>1. UNCHANGED <<calls, engine, fallbacks, faults>>
      BY <1>3 DEF vars, tables, counters
    <2> QED BY <2>1 DEF TellInv, Retried, Told, Ending, Rows, Unanswered, RetryKey
  <1> QED BY <1>1, <1>2, <1>3

\* Before the first call nothing is told.
LEMMA InitTells == Init => TellInv
  <1> SUFFICES ASSUME Init PROVE TellInv
    OBVIOUS
  <1>1. Rows = {} /\ DOMAIN fallbacks = {} /\ engine.at = "free"
    BY DEF Init, Rows, Free
  <1> QED BY <1>1 DEF TellInv, Retried, Told, Ending

\* A set whose members are all the same has one of them or none.
LEMMA AtMostOne ==
  ASSUME NEW S, IsFiniteSet(S), \A x, y \in S : x = y
  PROVE  Cardinality(S) \in {0, 1} /\ (Cardinality(S) = 1 <=> S # {})
  <1>1. CASE S = {}
    BY <1>1, FS_EmptySet
  <1>2. ASSUME NEW x \in S PROVE Cardinality(S) = 1
    <2>1. S = {x}
      BY <1>2
    <2> QED BY <2>1, FS_Singleton
  <1> QED BY <1>1, <1>2

\* Somebody who did not answer is tried again or told, never both, never twice.
LEMMA Counted ==
  ASSUME Table, TellInv, NEW i \in Rows
  PROVE  Consequences(i) \in {0, 1} /\ (Consequences(i) = 1 <=> Retried(i) \/ Told(i))
  <1> DEFINE R == {j \in Rows : calls[j].key = RetryKey(i)}
             F == {n \in DOMAIN fallbacks : fallbacks[n] = i}
  <1>1. calls \in Seq(Call) /\ fallbacks \in Seq(Nat)
    BY DEF Table, TypeOK
  <1>2. i \in Nat /\ IsFiniteSet(Rows)
    BY <1>1, RowsAre
  <1>3. IsFiniteSet(1..Len(fallbacks)) /\ DOMAIN fallbacks = 1..Len(fallbacks)
    BY <1>1, FS_Interval
  <1>4. IsFiniteSet(R) /\ IsFiniteSet(F)
    BY <1>2, <1>3, FS_Subset
  <1>5. \A j, k \in R : j = k
    BY DEF Table, OneCallPerKey, RetryKey, NoKey
  <1>6. \A m, n \in F : m = n
    BY DEF TellInv
  <1>7. (R # {} <=> Retried(i)) /\ (F # {} <=> Told(i))
    BY DEF Retried, Told
  <1>8. ~(Retried(i) /\ Told(i))
    BY <1>2 DEF TellInv
  <1>9. Consequences(i) = Cardinality(R) + Cardinality(F)
    BY DEF Consequences
  <1> HIDE DEF R, F
  <1>10. Cardinality(R) \in {0, 1} /\ (Cardinality(R) = 1 <=> R # {})
    BY <1>4, <1>5, AtMostOne
  <1>11. Cardinality(F) \in {0, 1} /\ (Cardinality(F) = 1 <=> F # {})
    BY <1>4, <1>6, AtMostOne
  <1> QED BY <1>7, <1>8, <1>9, <1>10, <1>11

\* Somebody who did not answer is tried again or told through the fallback,
\* never both and never twice; nobody else is; and without a failing statement
\* or a crash nobody is forgotten.
THEOREM ConsequencesAreOne == Spec => []OneConsequence
  <1>1. Spec => [](Table /\ TellInv)
    <2>1. Init => Table /\ TellInv
      BY InitTable, InitTells
    <2>2. Table /\ TellInv /\ [Next]_vars => Table' /\ TellInv'
      BY NextTable, NextTells
    <2> QED BY <2>1, <2>2, PTL DEF Spec
  <1>2. ASSUME Table, TellInv PROVE OneConsequence
    <2> SUFFICES ASSUME NEW i \in Rows
                 PROVE  /\ Consequences(i) <= 1
                        /\ Consequences(i) = 1 => Unanswered(calls[i])
                        /\ faults = 0 /\ Unanswered(calls[i]) /\ ~calls[i].test
                             => Consequences(i) = 1 \/ (engine.at = "ended" /\ engine.call = i)
      BY DEF OneConsequence
    <2>1. Consequences(i) \in {0, 1} /\ (Consequences(i) = 1 <=> Retried(i) \/ Told(i))
      BY <1>2, Counted
    <2>2. i \in Nat
      BY <1>2, RowsAre DEF Table, TypeOK
    <2>3. Retried(i) \/ Told(i) => Unanswered(calls[i])
      BY <1>2, <2>2 DEF TellInv
    <2>4. faults = 0 /\ Unanswered(calls[i]) /\ ~calls[i].test => Retried(i) \/ Told(i) \/ Ending(i)
      BY <1>2 DEF TellInv
    <2>5. Consequences(i) <= 1
      BY <2>1
    <2> QED BY <2>1, <2>3, <2>4, <2>5 DEF Ending
  <1> QED BY <1>1, <1>2, PTL
=============================================================================
