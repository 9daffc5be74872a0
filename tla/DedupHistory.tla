---------------------------- MODULE DedupHistory ----------------------------
(***************************************************************************)
(* Deduplication as a user sees it.  The dedup table decides event by      *)
(* event from a small record; the rules of the README speak of what has    *)
(* happened before: is the alert still firing, when was the last           *)
(* notification.  The history of decisions is kept next to the table and   *)
(* the two are compared.                                                   *)
(*                                                                         *)
(* One Decide per step: the notifier works on a fingerprint under its lock.*)
(* An event carries the time read before that lock was taken, so times     *)
(* need not grow from one event to the next.                               *)
(***************************************************************************)
EXTENDS Dedupe, Sequences

CONSTANTS
  Keys,       \* (fingerprint, route) pairs
  Policies,   \* [window, repeat] of a route as written: < 0, 0 or > 0
  Times,      \* bound: times at which events arrive
  MaxHistory  \* bound: decisions per key

ASSUME HistoryAssumption ==
  /\ DefaultWindow \in Int /\ DefaultRepeat \in Int
  /\ Policies \subseteq [window : Int, repeat : Int]
  /\ Times \subseteq Nat
  /\ MaxHistory \in Nat

VARIABLES
  rec,  \* route_dedup
  hist  \* history: the decisions taken, per key
vars == <<rec, hist>>

Init == /\ rec = [k \in Keys |-> NoRecord]
        /\ hist = [k \in Keys |-> <<>>]

Entry(k, status, policy, at) ==
  [status |-> status, policy |-> policy, at |-> at,
   notified |-> Notifies(status, rec[k], EffectivePolicy(policy), at)]

Decide(k, status, policy, at) ==
  /\ Len(hist[k]) < MaxHistory
  /\ rec' = [rec EXCEPT ![k] = NextRecord(status, @, EffectivePolicy(policy), at)]
  /\ hist' = [hist EXCEPT ![k] = Append(@, Entry(k, status, policy, at))]

Next == \E k \in Keys, status \in Statuses, policy \in Policies, at \in Times :
          Decide(k, status, policy, at)

Spec == Init /\ [][Next]_vars

-----------------------------------------------------------------------------
(* The history.                                                            *)

Records == [active : BOOLEAN, notified : Times \cup {Never}]
Entries == [status : Statuses, policy : Policies, at : Times, notified : BOOLEAN]

(* The table and the history have their types. *)
TypeOK == /\ rec \in [Keys -> Records]
          /\ hist \in [Keys -> Seq(Entries)]

\* After the first n decisions of h the alert fires: no resolve has followed
\* the last firing event.
FiringAfter(h, n) ==
  \E m \in 1..n : /\ h[m].status = "firing"
                  /\ \A l \in (m + 1)..n : h[l].status # "resolved"

\* The mth of the first n decisions of h is the last that notified.
LastNotice(h, n, m) == /\ m \in 1..n /\ h[m].notified
                       /\ \A l \in (m + 1)..n : ~h[l].notified

\* What a policy value of a route means: d applies, or nothing does.
Applies(value, def, d) == d > 0 /\ (value = d \/ (value = 0 /\ def = d))
Disabled(value, def)   == value < 0 \/ (value = 0 /\ def <= 0)

\* At least d has passed between the last notice before n and n.
PassedSinceNotice(h, n, d) ==
  \E m \in 1..(n - 1) : LastNotice(h, n - 1, m) /\ h[n].at - h[m].at >= d

NoticeBefore(h, n) == \E m \in 1..(n - 1) : h[m].notified

FiringNotice(h, n) ==
  LET repeats == \E d \in {h[n].policy.repeat, DefaultRepeat} :
                   /\ Applies(h[n].policy.repeat, DefaultRepeat, d)
                   /\ PassedSinceNotice(h, n, d)
  IN  h[n].status = "firing" => (h[n].notified <=> ~FiringAfter(h, n - 1) \/ repeats)

ResolveNotice(h, n) ==
  h[n].status = "resolved" => (h[n].notified <=> FiringAfter(h, n - 1))

StatelessNotice(h, n) ==
  LET elapsed == \E d \in {h[n].policy.window, DefaultWindow} :
                   /\ Applies(h[n].policy.window, DefaultWindow, d)
                   /\ PassedSinceNotice(h, n, d)
  IN  h[n].status = "none" =>
        (h[n].notified <=> \/ Disabled(h[n].policy.window, DefaultWindow)
                           \/ ~NoticeBefore(h, n) \/ elapsed)

(* README, Deduplication: a firing event notifies once and then only when the
   repeat interval has elapsed since the last notification. *)
FiringRule == \A k \in Keys : \A n \in 1..Len(hist[k]) : FiringNotice(hist[k], n)

(* A resolve notifies exactly when the alert was firing: once per episode, and
   never for something that has not fired, whatever stateless events share the
   fingerprint. *)
ResolveRule == \A k \in Keys : \A n \in 1..Len(hist[k]) : ResolveNotice(hist[k], n)

(* A stateless event notifies unless the window of the route, or the default it
   inherits, has not elapsed since the last notification of any kind. *)
StatelessRule == \A k \in Keys : \A n \in 1..Len(hist[k]) : StatelessNotice(hist[k], n)

(* The three rules of the README's Deduplication section together, for histories
   in which alerts and stateless events share a fingerprint. *)
RulesKept == FiringRule /\ ResolveRule /\ StatelessRule

SumsUp(r, h) ==
  /\ r.active <=> FiringAfter(h, Len(h))
  /\ IF NoticeBefore(h, Len(h) + 1)
     THEN \E m \in 1..Len(h) : LastNotice(h, Len(h), m) /\ r.notified = h[m].at
     ELSE r.notified = Never

(* The record sums up the history: active says that the alert fires, notified
   is the time of the last notification. *)
RecordSumsUp == \A k \in Keys : SumsUp(rec[k], hist[k])
=============================================================================
