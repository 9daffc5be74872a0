------------------------------- MODULE Backoff -------------------------------
(***************************************************************************)
(* The delay before a retry: backoff of src/internal/notifier/delivery.go, *)
(* for every delivery configuration that passes                            *)
(* src/internal/config/config.go.                                          *)
(*                                                                         *)
(* The delay is computed in floating point and converted to a signed       *)
(* integer of Width bits.  The conversion of a value that does not fit     *)
(* gives the smallest or the largest integer, depending on the processor.  *)
(* The factor is a whole number here.                                      *)
(***************************************************************************)
EXTENDS Integers

CONSTANTS
  Width,       \* bits of a time.Duration, 64 in the code
  Second,      \* time.Second
  Raw,         \* [base, factor, max] as written in the configuration
  Defaults,    \* the same of Default()
  MaxAttempts  \* bound: attempts

\* b to the power n.
Power(b, n) == LET p[j \in 0..n] == IF j = 0 THEN 1 ELSE b * p[j - 1]
               IN  p[n]

MaxInt == Power(2, Width - 1) - 1
MinInt == -Power(2, Width - 1)

\* A Duration is an integer of that width.
Durations == MinInt..MaxInt

ASSUME BackoffAssumption ==
  /\ Width \in Nat \ {0} /\ MaxAttempts \in Nat
  /\ Second \in Durations /\ Second > 0
  /\ \A c \in Raw \cup {Defaults} :
       c.base \in Durations /\ c.factor \in Int /\ c.max \in Durations

VARIABLES cfg, attempts, delay
retryVars == <<cfg, attempts, delay>>

-----------------------------------------------------------------------------
\* applyDefaults: zero means unset.  A negative value stays.
WithDefaults(raw) ==
  [f \in {"base", "factor", "max"} |-> IF raw[f] = 0 THEN Defaults[f] ELSE raw[f]]

Valid(c) == c.factor >= 1

\* The conversion to a Duration.
Convert(d) == IF d <= MaxInt THEN {d} ELSE {MinInt, MaxInt}

Capped_Never(d, max) == d
Capped(d, max) == IF max > 0 /\ d > max THEN max ELSE d

\* backoff: what the delay after attempt n may be.
Delays(c, n) ==
  LET base == IF c.base <= 0 THEN Second ELSE c.base
  IN  Convert(Capped(base * Power(c.factor, n - 1), c.max))

-----------------------------------------------------------------------------
(* A delivery that fails again and again.                                  *)

BackoffInit ==
  /\ cfg \in {WithDefaults(raw) : raw \in Raw} /\ Valid(cfg)
  /\ attempts = 0 /\ delay = 0

ScheduleRetry ==
  /\ attempts < MaxAttempts
  /\ attempts' = attempts + 1
  /\ delay' \in Delays(cfg, attempts + 1)
  /\ UNCHANGED cfg

BackoffSpec == BackoffInit /\ [][ScheduleRetry]_retryVars

-----------------------------------------------------------------------------
(* With a cap the delay is never zero or negative, which would retry at once,
   never above the cap, however many attempts came before, and never shorter
   than the one before.  Without a cap it grows by the factor until it does not
   fit any more: only then may a retry come at once. *)
GrowsToTheCap ==
  [][IF cfg.max > 0 THEN delay' \in 1..cfg.max /\ delay' >= delay
     ELSE attempts > 0 /\ delay > 0 /\ delay <= MaxInt \div cfg.factor
            => delay' = delay * cfg.factor]_retryVars
=============================================================================
