------------------------- MODULE TelegramCallbacks -------------------------
(***************************************************************************)
(* The presses of callback buttons,                                        *)
(* src/internal/providers/telegram_callbacks.go, for one bot.              *)
(*                                                                         *)
(* Run re-reads the providers and keeps one poller for a bot that is       *)
(* wanted.  A poller asks Telegram for updates from its offset on, which   *)
(* confirms those before it, and handles each press in a goroutine.  A     *)
(* poller that is cancelled waits for its goroutines and then confirms     *)
(* what it has got; Run may have started another by then.  The offset is   *)
(* only in memory.  A button that has done its work is marked on the       *)
(* message, on the keyboard as it was when the button was pressed.         *)
(***************************************************************************)
EXTENDS Integers, Sequences, FiniteSets

CONSTANTS
  Buttons,                 \* of the message
  MaxPresses, MaxPollers,  \* bounds: presses; pollers started
  MaxChanges, MaxMisses,   \* bounds: of the configuration; crashes, failed confirmations
  MaxHeard                 \* bound: presses in an answer of Telegram

ASSUME CallbackAssumption == {MaxPresses, MaxPollers, MaxChanges, MaxMisses, MaxHeard} \subseteq Nat

VARIABLES
  presses,    \* [button, seen], numbered as Telegram numbers its updates; seen are
              \* the buttons that showed as done
  marked,     \* the buttons that show as done
  confirmed,  \* Telegram: presses up to here are not given out again
  wanted,     \* a provider of the bot is enabled and has callback_hosts
  pollers,    \* number -> [on, offset, cancelled], those that have not returned
  started,    \* pollers started so far
  current,    \* the poller in the map running, 0 for none
  up,         \* Run runs: its context is not cancelled
  hands,      \* goroutines [poller, press, at]
  acted,      \* history: how often the request of a press was made
  worked,     \* history: buttons whose request was answered with success
  taken,      \* history: presses that got a goroutine
  changes, misses, overlaps
callbackVars == <<presses, marked, confirmed, wanted, pollers, started, current, up, hands, acted,
                  worked, taken, changes, misses, overlaps>>
messageVars == <<presses, marked, worked>>

CallbackInit ==
  /\ presses = <<>> /\ marked = {} /\ worked = {} /\ confirmed = 0 /\ wanted = TRUE /\ up = TRUE
  /\ pollers = [p \in {} |-> 0] /\ started = 0 /\ current = 0
  /\ hands = {} /\ acted = [u \in 1..MaxPresses |-> 0] /\ taken = {}
  /\ changes = 0 /\ misses = 0 /\ overlaps = 0

Max2(a, b) == IF a > b THEN a ELSE b

-----------------------------------------------------------------------------
(* Outside.                                                                *)

Press(b) ==
  /\ Len(presses) < MaxPresses
  /\ presses' = Append(presses, [button |-> b, seen |-> marked])
  /\ UNCHANGED <<marked, worked, confirmed, wanted, pollers, started, current, up, hands, acted, taken,
                 changes, misses, overlaps>>

\* The provider is disabled or enabled.
Reconfigure ==
  /\ changes < MaxChanges /\ changes' = changes + 1 /\ wanted' = ~wanted
  /\ UNCHANGED <<messageVars, confirmed, pollers, started, current, up, hands, acted, taken,
                 misses, overlaps>>

CallbackCrash ==
  /\ misses < MaxMisses /\ misses' = misses + 1
  /\ pollers' = [p \in {} |-> 0] /\ current' = 0 /\ hands' = {} /\ up' = TRUE
  /\ UNCHANGED <<messageVars, confirmed, wanted, started, acted, taken, changes, overlaps>>

-----------------------------------------------------------------------------
(* Run.                                                                    *)

Cancelled(p) == [pollers EXCEPT ![p].cancelled = TRUE]

Rescan ==
  /\ up
  /\ \/ /\ wanted /\ current = 0 /\ started < MaxPollers
        /\ started' = started + 1 /\ current' = started + 1
        /\ pollers' = [p \in DOMAIN pollers \cup {started + 1} |->
                         IF p = started + 1 THEN [offset |-> 0, cancelled |-> FALSE] ELSE pollers[p]]
        /\ overlaps' = overlaps + (IF pollers = [p \in {} |-> 0] THEN 0 ELSE 1)
     \/ /\ ~wanted /\ current # 0
        /\ pollers' = Cancelled(current) /\ current' = 0
        /\ UNCHANGED <<started, overlaps>>
  /\ UNCHANGED <<messageVars, confirmed, wanted, up, hands, acted, taken, changes, misses>>

\* The process is told to stop: Run returns when its pollers have.
Stop ==
  /\ up /\ up' = FALSE /\ current' = 0
  /\ pollers' = [p \in DOMAIN pollers |-> [pollers[p] EXCEPT !.cancelled = TRUE]]
  /\ UNCHANGED <<messageVars, confirmed, wanted, started, hands, acted, taken, changes, misses, overlaps>>

Start ==
  /\ ~up /\ DOMAIN pollers = {} /\ started < MaxPollers /\ up' = TRUE
  /\ UNCHANGED <<messageVars, confirmed, wanted, pollers, started, current, hands, acted, taken,
                 changes, misses, overlaps>>

-----------------------------------------------------------------------------
(* A poller.                                                               *)

NextOffset(last) == last + 1

\* getUpdates reaches Telegram.  When its answer does not come back, or comes
\* after the cancellation, the poller knows nothing of it and asks again.
GetUpdates(p) ==
  LET ask  == Max2(confirmed, pollers[p].offset - 1)
      last == IF ask + MaxHeard < Len(presses) THEN ask + MaxHeard ELSE Len(presses)
      got  == (ask + 1)..last
  IN  /\ ~pollers[p].cancelled /\ confirmed' = ask
      /\ \/ /\ got # {}
            /\ pollers' = [pollers EXCEPT ![p].offset = Max2(@, NextOffset(last))]
            /\ hands' = hands \cup {[poller |-> p, press |-> u, at |-> "resolve"] : u \in got}
            /\ taken' = taken \cup got
         \/ UNCHANGED <<pollers, hands, taken>>
      /\ UNCHANGED <<messageVars, wanted, started, current, up, acted, changes, misses, overlaps>>

Drain_Unconfirmed(p, q) == confirmed' = confirmed /\ UNCHANGED misses
\* handlers.Wait and confirm, when p returns with offset q.
Drain(p, q) ==
  \/ confirmed' = Max2(confirmed, q - 1) /\ UNCHANGED misses
  \/ q > 0 /\ misses < MaxMisses /\ misses' = misses + 1 /\ UNCHANGED confirmed

Return(p) ==
  /\ pollers[p].cancelled /\ \A h \in hands : h.poller # p
  /\ Drain(p, pollers[p].offset)
  /\ pollers' = [x \in DOMAIN pollers \ {p} |-> pollers[x]]
  /\ UNCHANGED <<messageVars, wanted, started, current, up, hands, acted, taken, changes, overlaps>>

-----------------------------------------------------------------------------
(* A goroutine.                                                            *)

Ends(h)      == hands' = hands \ {h}
GoesTo(h, s) == hands' = (hands \ {h}) \cup {[h EXCEPT !.at = s]}
OffDuty(h)   == pollers[h.poller].cancelled

Seen(h) == presses[h.press].seen
Shows(h) == presses[h.press].button

\* "Already done."; resolve may refuse, or its context be cancelled.
Resolve(h) ==
  /\ h.at = "resolve" /\ UNCHANGED <<acted, worked, marked>>
  /\ \/ Ends(h)
     \/ Shows(h) \notin Seen(h) /\ ~OffDuty(h) /\ wanted /\ GoesTo(h, "answer")

\* A press that cannot be answered any more is not acted on.
AnswerPress(h) ==
  /\ h.at = "answer" /\ UNCHANGED <<acted, worked, marked>>
  /\ \/ Ends(h)
     \/ ~OffDuty(h) /\ GoesTo(h, "run")

\* run: not made, made without a success to show for it, or made with success.
RunPress(h) ==
  /\ h.at = "run" /\ UNCHANGED marked
  /\ \/ Ends(h) /\ UNCHANGED <<acted, worked>>
     \/ Ends(h) /\ acted' = [acted EXCEPT ![h.press] = @ + 1] /\ UNCHANGED worked
     \/ /\ GoesTo(h, "mark") /\ acted' = [acted EXCEPT ![h.press] = @ + 1]
        /\ worked' = worked \cup {Shows(h)}

\* markDone rewrites the keyboard that came with the press.
Mark(h) == Seen(h) \cup {Shows(h)}

MarkDone(h) ==
  /\ h.at = "mark" /\ Ends(h) /\ UNCHANGED <<acted, worked>>
  /\ \/ UNCHANGED marked
     \/ ~OffDuty(h) /\ marked' = Mark(h)

Handle(h) ==
  /\ Resolve(h) \/ AnswerPress(h) \/ RunPress(h) \/ MarkDone(h)
  /\ UNCHANGED <<presses, confirmed, wanted, pollers, started, current, up, taken,
                 changes, misses, overlaps>>

CallbackNext ==
  \/ Reconfigure \/ CallbackCrash \/ Rescan \/ Stop \/ Start
  \/ \E b \in Buttons : Press(b)
  \/ \E p \in DOMAIN pollers : GetUpdates(p) \/ Return(p)
  \/ \E h \in hands : Handle(h)

CallbackSpec == CallbackInit /\ [][CallbackNext]_callbackVars

-----------------------------------------------------------------------------
(* The comment over confirm: "tells Telegram the updates before offset were
   handled, so a restart does not get them again".  Whatever answers get lost,
   through stops, starts and changes of the providers, the request of a press is
   made once at most, unless the process dies, a confirmation fails, or a poller
   starts before the one it replaces has returned; Telegram never forgets a press
   that nothing has taken up; and a button that shows as done has worked. *)
ActsOnce ==
  /\ misses = 0 /\ overlaps = 0 => \A u \in DOMAIN acted : acted[u] <= 1
  /\ 1..confirmed \subseteq taken
  /\ marked \subseteq worked
=============================================================================
