------------------------------ MODULE Rotation ------------------------------
(***************************************************************************)
(* Who is on call: src/internal/plugins/oncall/schedule.go for one         *)
(* schedule, a rotation with overrides laid over it.                       *)
(*                                                                         *)
(* Time is in whole ticks.  A turn starts at the same wall-clock time every *)
(* Days days, so its length is that of the calendar days it spans, which   *)
(* differ where the clocks change: DayStart gives the handoff time of each *)
(* day.                                                                    *)
(***************************************************************************)
EXTENDS Integers, Sequences, FiniteSets

CONSTANTS
  Rota,          \* the users of the schedule, in their order
  Days,          \* days in a turn: 1 or 7
  Day,           \* ticks in a day of 24 hours
  DayStart,      \* day number -> handoff time; day 0 is the anchor
  Shifts,        \* the [user, from, to] that may be asked for as overrides
  MaxOverrides   \* bound: overrides of the schedule

ASSUME RotationAssumption ==
  /\ Rota # <<>> /\ Days \in Nat \ {0} /\ Day \in Nat \ {0}
  /\ DOMAIN DayStart \subseteq Int /\ IsFiniteSet(DOMAIN DayStart) /\ 0 \in DOMAIN DayStart
  /\ \A d, e \in DOMAIN DayStart : d..e \subseteq DOMAIN DayStart
  /\ \A d \in DOMAIN DayStart :
       /\ DayStart[d] \in Int
       /\ d + 1 \in DOMAIN DayStart => DayStart[d] < DayStart[d + 1]
       \* Clock changes bring no handoff a whole day forward.
       /\ DayStart[d] - DayStart[0] > (d - 1) * Day
  /\ \A o \in Shifts : o.from \in Int /\ o.to \in Int

VARIABLE overrides  \* of the schedule, in creation order

\* The turns for which DayStart knows the start and the end.
Turns == {k \in -Cardinality(DOMAIN DayStart)..Cardinality(DOMAIN DayStart) :
            k * Days \in DOMAIN DayStart /\ (k + 1) * Days \in DOMAIN DayStart}

TurnStart(k) == DayStart[k * Days]

TurnAt_GuessOnly(t) == (t - TurnStart(0)) \div (Day * Days)
\* A guess from the nominal length, moved back while its turn starts later than
\* t and then on while the next turn has started.
TurnAt(t) ==
  LET guess == (t - TurnStart(0)) \div (Day * Days)
      back  == CHOOSE k \in Turns :
                 /\ k <= guess /\ TurnStart(k) <= t
                 /\ \A j \in Turns : j > k /\ j <= guess => TurnStart(j) > t
  IN  CHOOSE k \in Turns :
        /\ k >= back /\ TurnStart(k + 1) > t
        /\ \A j \in Turns : j > back /\ j <= k => TurnStart(j) <= t

UserFor(k) == Rota[(k % Len(Rota)) + 1]

Span(u, from, to, over) == [user |-> u, from |-> from, to |-> to, override |-> over]

\* [from, to) cut out of every span.
Carve(in, from, to) ==
  UNION {IF s.from >= to \/ s.to <= from THEN {s}
         ELSE   (IF s.from < from THEN {Span(s.user, s.from, from, s.override)} ELSE {})
           \cup (IF s.to > to THEN {Span(s.user, to, s.to, s.override)} ELSE {}) : s \in in}

\* An override over the spans so far.
Lay(in, o) == Carve(in, o.from, o.to) \cup {Span(o.user, o.from, o.to, TRUE)}

\* Who covers the schedule in [since, until).  The spans are disjoint, so that
\* their starts order them.
Spans(since, until) ==
  LET turns == {Span(UserFor(k), TurnStart(k), TurnStart(k + 1), FALSE) :
                  k \in {j \in Turns : j >= TurnAt(since) /\ TurnStart(j) < until}}
      laid[n \in 0..Len(overrides)] ==
        IF n = 0 THEN turns
        ELSE IF overrides[n].to > since /\ overrides[n].from < until
             THEN Lay(laid[n - 1], overrides[n])
             ELSE laid[n - 1]
  IN  laid[Len(overrides)]

NobodyOn == Span("nobody", 0, 0, FALSE)

\* The span that covers t, asked for with a window of one tick.
OnCallAt(t) ==
  LET on == {s \in Spans(t, t + 1) : s.from <= t /\ t < s.to}
  IN  IF on = {} THEN NobodyOn ELSE CHOOSE s \in on : \A x \in on : s.from <= x.from

\* The shifts of a person from now on, as the app lists them.
ListOnCalls(u, now, until) == {s \in Spans(now, until) : s.user = u /\ s.to > now}

-----------------------------------------------------------------------------
(* A schedule that gets one override after the other.                      *)

RotationInit == overrides = <<>>

\* The request names a user of the directory and an end after its start.
CreateOverride(o) ==
  /\ o.to > o.from
  /\ overrides' = Append(overrides, o)

RotationNext == /\ Len(overrides) < MaxOverrides
                /\ \E o \in Shifts : CreateOverride(o)

RotationSpec == RotationInit /\ [][RotationNext]_overrides

-----------------------------------------------------------------------------
\* The instants the days of DayStart cover, with a turn to spare on each side.
Instants ==
  {t \in -(Day * Cardinality(DOMAIN DayStart))..(Day * Cardinality(DOMAIN DayStart)) :
     \E k \in Turns : k - 1 \in Turns /\ k + 1 \in Turns /\ TurnStart(k) <= t /\ t < TurnStart(k + 1)}

\* Straight from the documentation: the newest override that holds t, else the
\* user whose turn holds it.
Rightful(t) ==
  LET holding == {n \in DOMAIN overrides : overrides[n].from <= t /\ t < overrides[n].to}
  IN  IF holding # {}
      THEN overrides[CHOOSE n \in holding : \A m \in holding : m <= n].user
      ELSE LET k == CHOOSE j \in Turns : TurnStart(j) <= t /\ t < TurnStart(j + 1)
           IN  UserFor(k)

(* docs/plugins/oncall.md, Schedules: turns hand off at a wall-clock time and
   "overrides are carved out of the rotation, later ones over earlier ones".
   The person who is paged at t is that person, at every instant, also on the
   days that are longer or shorter than 24 hours and before the anchor. *)
PagesTheRightPerson == \A t \in Instants : OnCallAt(t).user = Rightful(t)

(* What a person sees is what happens: the shifts listed ahead of time, for
   everybody together, cover every instant of the window exactly once, by the
   person who will be paged then.  The list is computed for the whole window, a
   page for its instant alone. *)
ListMatchesPages ==
  LET first == CHOOSE t \in Instants : \A x \in Instants : t <= x
      last  == CHOOSE t \in Instants : \A x \in Instants : t >= x
      ahead == Spans(first, last)
  IN  \A t \in Instants : t < last =>
        \E s \in ahead : /\ s.from <= t /\ t < s.to /\ s.user = OnCallAt(t).user
                         /\ \A x \in ahead \ {s} : t < x.from \/ t >= x.to
=============================================================================
