-------------------------- MODULE MCDeliveryQueue --------------------------
EXTENDS DeliveryQueue, TLC

\* One tick after the first attempt, none after the last.
MCBackoff == [a \in 1..MaxAttempts |-> IF a = 1 THEN 1 ELSE 0]

WorkerSymmetry == Permutations(Workers)
=============================================================================
