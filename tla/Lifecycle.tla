------------------------------ MODULE Lifecycle ------------------------------
(***************************************************************************)
(* A start and a stop of the process: run of src/cmd/omni-notify/main.go,  *)
(* startPlugins of plugins.go, and the Start and Stop of what they start.  *)
(* A part is on from its start to its stop; its work is a request being    *)
(* served, a delivery being sent, a tick of a plugin.                      *)
(***************************************************************************)
EXTENDS Integers, Sequences, FiniteSets

CONSTANT MaxRuns  \* bound: starts

VARIABLES
  absent,   \* the parts that the configuration does without
  on,       \* the parts that are on
  working,  \* those with work under way
  doing,    \* "start", "serve" or "stop"
  step,     \* of Starts, or of Stops
  hurried,  \* doors that were left with requests under way
  runs
lifeVars == <<absent, on, working, doing, step, hurried, runs>>

Doors   == {"http", "phone"}
Engines == {"notifier", "voice", "callbacks"}

\* The parts whose work reads what another part keeps.
Needs ==
  [c \in Doors \cup Engines \cup {"plugins", "store", "logs"} |->
     CASE c \in {"http", "notifier"}                      -> {"store", "plugins", "logs"}
       [] c \in {"phone", "voice", "callbacks", "plugins"} -> {"store", "logs"}
       [] c = "store" -> {"logs"}
       [] c = "logs"  -> {}]

\* The order of run; the doors open last and do not fail it at once.
Starts == <<{"logs"}, {"store"}, {"plugins"}, {"notifier"}, {"voice", "callbacks"}, Doors>>

\* The order of a graceful end: the doors, stopEngines, and what was deferred.
Stops_PluginsFirst == <<{"http"}, {"phone"}, {"plugins"}, Engines, {"store"}, {"logs"}>>
Stops == <<{"http"}, {"phone"}, Engines, {"plugins"}, {"store"}, {"logs"}>>

LifeInit ==
  /\ absent \in {{}, {"plugins"}, {"phone"}, {"voice", "phone"}}
  /\ on = {} /\ working = {} /\ doing = "start" /\ step = 1 /\ hurried = {} /\ runs = 1

StopStep(part) == CHOOSE i \in DOMAIN Stops : part \in Stops[i]

StartPart ==
  /\ doing = "start" /\ step <= Len(Starts)
  /\ on' = on \cup (Starts[step] \ absent) /\ step' = step + 1
  /\ UNCHANGED <<absent, working, doing, hurried, runs>>

\* A start that fails: what was deferred is run, from there on.
FailStart ==
  /\ doing = "start" /\ step <= 4 /\ doing' = "stop"
  /\ step' = StopStep("plugins") /\ UNCHANGED <<absent, on, working, hurried, runs>>

OpenDoors ==
  /\ doing = "start" /\ step = Len(Starts) + 1 /\ doing' = "serve"
  /\ UNCHANGED <<absent, on, working, step, hurried, runs>>

Work(part) ==
  /\ part \in on /\ working' = working \cup {part} /\ UNCHANGED <<absent, on, doing, step, hurried, runs>>
Rest(part) ==
  /\ part \in working /\ working' = working \ {part} /\ UNCHANGED <<absent, on, doing, step, hurried, runs>>

\* A signal, and the whole of the end.
Signal ==
  /\ doing = "serve" /\ doing' = "stop" /\ step' = 1 /\ UNCHANGED <<absent, on, working, hurried, runs>>

\* A door cannot listen: the end begins with the engines, and the other door
\* stays open.
DoorFails(door) ==
  /\ doing = "serve" /\ door \in on /\ doing' = "stop" /\ step' = StopStep("notifier")
  /\ on' = on \ {door} /\ hurried' = (on \cup working) \intersect Doors
  /\ UNCHANGED <<absent, working, runs>>

\* Each Stop waits for the work; a door waits until its time is over.
StopPart ==
  /\ doing = "stop" /\ step <= Len(Stops)
  /\ \/ Stops[step] \intersect working = {} /\ UNCHANGED hurried
     \/ Stops[step] \subseteq Doors /\ Stops[step] \subseteq working
        /\ hurried' = hurried \cup Stops[step]
  /\ on' = on \ Stops[step] /\ step' = step + 1 /\ UNCHANGED <<absent, working, doing, runs>>

\* The process is gone, at the end of all that or anywhere before.
Exit ==
  /\ UNCHANGED absent /\ runs < MaxRuns /\ runs' = runs + 1
  /\ on' = {} /\ working' = {} /\ doing' = "start" /\ step' = 1 /\ hurried' = {}

LifeNext ==
  \/ StartPart \/ FailStart \/ OpenDoors \/ Signal \/ StopPart \/ Exit
  \/ \E part \in DOMAIN Needs \ {"store", "logs"} : Work(part) \/ Rest(part)
  \/ \E door \in Doors : DoorFails(door)

LifeSpec == LifeInit /\ [][LifeNext]_lifeVars

-----------------------------------------------------------------------------
(* The comments of run: "Plugins start before deliveries, so a queued delivery to
   a plugin's provider kind finds it registered" and "stop HTTP first, then drain
   delivery workers".  However far a start gets before it fails, and wherever work
   is under way when the end comes: nothing runs without what it needs, but for
   requests at a door that was not waited for. *)
NothingRunsAlone == \A part \in working \ hurried : Needs[part] \subseteq on \cup absent
=============================================================================
