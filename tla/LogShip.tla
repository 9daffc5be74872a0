------------------------------- MODULE LogShip -------------------------------
(***************************************************************************)
(* The log shipper, src/internal/logship: goroutines hand in records, a    *)
(* goroutine of its own posts them in batches, and Shutdown has the rest   *)
(* posted.  A record is a number, in the order they are handed in.         *)
(***************************************************************************)
EXTENDS Integers, Sequences, SequencesExt

CONSTANTS
  BufferSize, BatchSize, MaxRetries,  \* of Config
  MaxRecords,   \* bound: records handed in
  MaxTroubles   \* bound: posts without success

VARIABLES
  handed,     \* records handed in so far
  buffer,     \* the channel
  batch,
  attempt,    \* of post, 0 when it does not run
  shipper,    \* "run", "drain" after stop, "last" in the flush after that, "done"
  stopping,   \* stop is closed
  shutdown,   \* "no", "waits", then what Shutdown returned: "nil" or "expired"
  dropped,    \* records that were counted and dropped
  reported,   \* records of a batch that was given up, which is written to stderr
  arrived,    \* history: records at omni-logging, in the order they came
  early,      \* history: records handed in before Shutdown
  troubles
shipVars == <<handed, buffer, batch, attempt, shipper, stopping, shutdown, dropped, reported,
              arrived, early, troubles>>

ShipInit ==
  /\ handed = 0 /\ buffer = <<>> /\ batch = <<>> /\ attempt = 0 /\ shipper = "run"
  /\ stopping = FALSE /\ shutdown = "no" /\ dropped = {} /\ reported = {}
  /\ arrived = <<>> /\ early = 0 /\ troubles = 0

\* Handle: it never waits for the shipper.
HandleRecord ==
  /\ handed < MaxRecords /\ handed' = handed + 1
  /\ IF Len(buffer) < BufferSize
     THEN buffer' = Append(buffer, handed + 1) /\ UNCHANGED dropped
     ELSE dropped' = dropped \cup {handed + 1} /\ UNCHANGED buffer
  /\ UNCHANGED <<batch, attempt, shipper, stopping, shutdown, reported, arrived, early, troubles>>

-----------------------------------------------------------------------------
(* run.                                                                    *)

\* add: a full batch is posted at once.
Add ==
  /\ shipper \in {"run", "drain"} /\ attempt = 0 /\ buffer # <<>>
  /\ buffer' = Tail(buffer) /\ batch' = Append(batch, Head(buffer))
  /\ attempt' = IF Len(batch) + 1 >= BatchSize THEN 1 ELSE 0
  /\ UNCHANGED <<handed, shipper, stopping, shutdown, dropped, reported, arrived, early, troubles>>

\* The ticker.
Flush ==
  /\ shipper = "run" /\ attempt = 0 /\ batch # <<>> /\ attempt' = 1
  /\ UNCHANGED <<handed, buffer, batch, shipper, stopping, shutdown, dropped, reported, arrived,
                 early, troubles>>

AfterStop_FlushOnly == "last"
AfterStop == "drain"

SeeStop ==
  /\ shipper = "run" /\ attempt = 0 /\ stopping /\ shipper' = AfterStop
  /\ UNCHANGED <<handed, buffer, batch, attempt, stopping, shutdown, dropped, reported, arrived,
                 early, troubles>>

\* The channel is empty: the last flush.
Drained ==
  /\ shipper = "drain" /\ attempt = 0 /\ buffer = <<>> /\ shipper' = "last"
  /\ attempt' = IF batch = <<>> THEN 0 ELSE 1
  /\ UNCHANGED <<handed, buffer, batch, stopping, shutdown, dropped, reported, arrived, early, troubles>>

Finish ==
  /\ shipper = "last" /\ attempt = 0 /\ shipper' = "done"
  /\ UNCHANGED <<handed, buffer, batch, attempt, stopping, shutdown, dropped, reported, arrived,
                 early, troubles>>

\* postOnce, in the loop of post: omni-logging takes the batch, takes it without
\* the answer getting here, or does not.
PostBatch ==
  /\ attempt > 0
  /\ \/ /\ arrived' = arrived \o batch /\ batch' = <<>> /\ attempt' = 0
        /\ UNCHANGED <<reported, troubles>>
     \/ /\ troubles < MaxTroubles /\ troubles' = troubles + 1
        /\ arrived' \in {arrived, arrived \o batch}
        /\ IF attempt <= MaxRetries
           THEN attempt' = attempt + 1 /\ UNCHANGED <<batch, reported>>
           ELSE attempt' = 0 /\ batch' = <<>> /\ reported' = reported \cup ToSet(batch)
  /\ UNCHANGED <<handed, buffer, shipper, stopping, shutdown, dropped, early>>

-----------------------------------------------------------------------------
(* Shutdown.                                                               *)

Shutdown ==
  /\ shutdown = "no" /\ shutdown' = "waits" /\ stopping' = TRUE /\ early' = handed
  /\ UNCHANGED <<handed, buffer, batch, attempt, shipper, dropped, reported, arrived, troubles>>

ShutdownReturns ==
  /\ shutdown = "waits"
  /\ \/ shipper = "done" /\ shutdown' = "nil"
     \/ shutdown' = "expired"
  /\ UNCHANGED <<handed, buffer, batch, attempt, shipper, stopping, dropped, reported, arrived,
                 early, troubles>>

ShipNext == HandleRecord \/ Add \/ Flush \/ SeeStop \/ Drained \/ Finish \/ PostBatch
            \/ Shutdown \/ ShutdownReturns

ShipSpec == ShipInit /\ [][ShipNext]_shipVars

-----------------------------------------------------------------------------
(* The package comment: "records are dropped (counted) rather than blocking the
   caller", and the one over Shutdown: it "signals the shipper to drain and flush
   remaining records".  No record goes missing without a word: each is on its
   way, at omni-logging, counted or reported; they arrive in order but for a batch
   that is repeated; and when Shutdown returns without an error, what was handed
   in before it is not on its way any more. *)
NoneLostUntold ==
  LET told == ToSet(arrived) \cup dropped \cup reported
  IN  /\ 1..handed \subseteq told \cup ToSet(batch) \cup ToSet(buffer)
      /\ shutdown = "nil" => 1..early \subseteq told
      /\ \A i, j \in DOMAIN arrived : i < j /\ arrived[j] < arrived[i] =>
           \E k \in 1..(i - 1) : arrived[k] = arrived[j]
=============================================================================
