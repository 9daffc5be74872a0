-------------------------- MODULE DeliveryPromise --------------------------
(***************************************************************************)
(* What the delivery queue promises about each delivery it has accepted:   *)
(* it stays queued, possibly over several attempts, until it is recorded   *)
(* as a success or as dead, and a success is only recorded for a message   *)
(* the provider took.  Delivery is at least once: a queued delivery may be *)
(* taken again.                                                            *)
(***************************************************************************)
EXTENDS Naturals

CONSTANTS Ids, MaxAttempts

VARIABLES
  phase,  \* absent, queued, success, dead
  tried,  \* attempts recorded
  taken   \* messages the provider took
vars == <<phase, tried, taken>>

Init ==
  /\ phase = [i \in Ids |-> "absent"]
  /\ tried = [i \in Ids |-> 0]
  /\ taken = [i \in Ids |-> 0]

Accept(i) ==
  /\ phase[i] = "absent"
  /\ phase' = [phase EXCEPT ![i] = "queued"]
  /\ UNCHANGED <<tried, taken>>

Deliver(i) ==
  /\ phase[i] = "queued"
  /\ taken' = [taken EXCEPT ![i] = @ + 1]
  /\ UNCHANGED <<phase, tried>>

Retry(i) ==
  /\ phase[i] = "queued" /\ tried[i] + 1 < MaxAttempts
  /\ tried' = [tried EXCEPT ![i] = @ + 1]
  /\ UNCHANGED <<phase, taken>>

Finish(i, how) ==
  /\ phase[i] = "queued" /\ tried[i] < MaxAttempts
  /\ how = "success" => taken[i] > 0
  /\ phase' = [phase EXCEPT ![i] = how]
  /\ tried' = [tried EXCEPT ![i] = @ + 1]
  /\ UNCHANGED taken

Settle(i) == Finish(i, "success") \/ Finish(i, "dead")

Next == \E i \in Ids : Accept(i) \/ Deliver(i) \/ Retry(i) \/ Settle(i)

Spec == Init /\ [][Next]_vars
=============================================================================
