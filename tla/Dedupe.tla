------------------------------- MODULE Dedupe -------------------------------
(***************************************************************************)
(* The decision whether one event notifies on one route: Decide of         *)
(* src/internal/dedupe/decide.go and the policy resolution of              *)
(* src/internal/notifier/notifier.go.                                      *)
(*                                                                         *)
(* A dedup record keeps what the decision reads: the active flag and the   *)
(* time of the last notification.  A record that does not exist reads like *)
(* one that is inactive and was never notified.                            *)
(***************************************************************************)
EXTENDS Integers

CONSTANTS
  DefaultWindow,  \* cfg.DefaultDedupWindow
  DefaultRepeat   \* cfg.DefaultRepeatInterval

Statuses == {"firing", "resolved", "none"}

\* The zero time of Go lies in year 1, before every interval.
Never == -1

NoRecord == [active |-> FALSE, notified |-> Never]

-----------------------------------------------------------------------------
\* A negative value of the route disables, zero inherits the default.
ResolvePolicyField(routeVal, def) ==
  IF routeVal < 0 THEN 0 ELSE IF routeVal = 0 THEN def ELSE routeVal

EffectivePolicy(r) == [window |-> ResolvePolicyField(r.window, DefaultWindow),
                       repeat |-> ResolvePolicyField(r.repeat, DefaultRepeat)]

-----------------------------------------------------------------------------
Notifies_RepeatAlways(status, prev, pol, now) ==
  \/ status = "firing" /\ (prev.active => now >= prev.notified + pol.repeat)
  \/ status = "resolved" /\ prev.active
  \/ status = "none" /\ \/ pol.window <= 0 \/ prev.notified = Never
                        \/ now >= prev.notified + pol.window


\* Decision.Notify
Notifies(status, prev, pol, now) ==
  \/ status = "firing" /\ (prev.active => /\ pol.repeat > 0
                                          /\ now >= prev.notified + pol.repeat)
  \/ status = "resolved" /\ prev.active
  \/ status = "none" /\ \/ pol.window <= 0 \/ prev.notified = Never
                        \/ now >= prev.notified + pol.window

\* A stateless event keeps the flag.
NextActive(status, prev) ==
  CASE status = "firing" -> TRUE
    [] status = "resolved" -> FALSE
    [] OTHER -> prev.active

\* Decision.State: written whether it notifies or not.
NextRecord(status, prev, pol, now) ==
  [active   |-> NextActive(status, prev),
   notified |-> IF Notifies(status, prev, pol, now) THEN now ELSE prev.notified]
=============================================================================
