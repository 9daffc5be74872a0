---------------------------- MODULE TelegramSend ----------------------------
(***************************************************************************)
(* The Telegram provider's Send, src/internal/providers/telegram_send.go,  *)
(* with the messages it remembers (refs.go, storage/sent_messages.go), as  *)
(* the workers of the delivery queue call it: again after an error and     *)
(* after a crash, two deliveries at a time.                                *)
(*                                                                         *)
(* Each request to the Bot API is an action, and Telegram's answer to it   *)
(* is one of                                                               *)
(*   ok, bare      done; bare carries no message id                        *)
(*   lost          done, but no answer comes                               *)
(*   down          not done: no connection, an outage or a rate limit      *)
(*   parse, names, other   refused, for the formatting, for an option that *)
(*                 the refusal names, or for something else                *)
(***************************************************************************)
EXTENDS Integers, Sequences, FiniteSets

CONSTANTS
  Orders,      \* delivery -> what its event and its message.telegram ask for
  Batches,     \* sets of deliveries that come together
  Refs,        \* the names that messages are remembered by
  MaxTries,    \* max_attempts of the queue
  MaxTrouble   \* bound: lost and down answers, crashes, failed statements

NoRef == "none"
Gone  == 0      \* no message

\* An order: [send, rich, media, fits, format, edit, ref, aside, delete].  media
\* is how many items there are, fits whether the text goes into their caption,
\* aside whether there is something to pin, unpin or react to; edit and delete
\* are refs.

VARIABLES
  chat,    \* message id -> the delivery whose text it shows
  sent,    \* history: the [by, part] that went out, id by id
  refs,    \* sent_messages: ref -> message id
  jobs,    \* delivery -> its Send, see Idle
  done,    \* history: deliveries that the chat has shown
  owed,    \* history: the [by, id] of deletions that Telegram never got
  trouble, lost  \* counters of what went wrong; of what was done without an answer
sendVars == <<chat, sent, refs, jobs, done, owed, trouble, lost>>

Idle == [at |-> "new", params |-> {}, rounds |-> 0, id |-> Gone, edits |-> Gone, retry |-> FALSE, tries |-> 0]

SendInit ==
  /\ chat = <<>> /\ sent = <<>> /\ done = {} /\ owed = {} /\ trouble = 0 /\ lost = 0
  /\ refs = [r \in Refs |-> Gone]
  /\ \E batch \in Batches :
       jobs = [d \in DOMAIN Orders |-> IF d \in batch THEN Idle ELSE [Idle EXCEPT !.at = "absent"]]

Lookup(r) == IF r = NoRef THEN Gone ELSE refs[r]

Part(method) == IF method = "follow" THEN "text" ELSE method

\* The ref that a message is remembered by; the fingerprint is not used here.
RefOf(o) == IF o.ref # NoRef THEN o.ref ELSE o.edit

-----------------------------------------------------------------------------
(* The order in which a message is tried.                                  *)

Methods == {"edit", "rich", "media", "text", "follow"}

\* A text always has a link preview option.
Params(o, method) ==
  (IF o.format /\ method # "rich" THEN {"format"} ELSE {})
  \cup (IF method = "edit" /\ o.rich THEN {} ELSE {"options"})

At(d, step) == [jobs[d] EXCEPT !.at = step, !.rounds = 0, !.params = Params(Orders[d], step)]

AfterRich(o) == IF o.media > 0 THEN "media" ELSE "text"
FirstWay(o)  == IF o.rich THEN "rich" ELSE AfterRich(o)

\* deliver and edit: what is tried when a method has failed.  The text that
\* follows its media must not fail the delivery: the media is out.
Fallback_FailsFollowUp(o, method) ==
  CASE method = "edit"  -> FirstWay(o)
    [] method = "rich"  -> AfterRich(o)
    [] method = "media" -> "text"
    [] OTHER            -> "failed"
Fallback(o, method) ==
  CASE method = "edit"   -> FirstWay(o)
    [] method = "rich"   -> AfterRich(o)
    [] method = "media"  -> "text"
    [] method = "follow" -> "put"
    [] method = "text"   -> "failed"

\* callDegrading: whether it asks once more after a refusal.  Only the plain
\* message drops its options whatever the refusal says.
AsksAgain(method, params, answer) ==
  \/ answer = "parse" /\ "format" \in params
  \/ "options" \in params /\ (method \in {"text", "follow"} \/ answer = "names")

\* What it drops then.
Degrade_FormatOnly(params, answer) == params \ {"format"}
Degrade(params, answer) ==
  IF answer = "parse" /\ "format" \in params THEN params \ {"format"} ELSE params \ {"options"}

-----------------------------------------------------------------------------
(* The requests.                                                           *)

Refusals(params) == {"other"} \cup (IF "format" \in params THEN {"parse"} ELSE {})
                              \cup (IF "options" \in params THEN {"names"} ELSE {})
Failures == IF trouble < MaxTrouble THEN {"down", "lost"} ELSE {}

Meet(answer) ==
  /\ trouble' = trouble + (IF answer \in {"down", "lost"} THEN 1 ELSE 0)
  /\ lost' = lost + (IF answer = "lost" THEN 1 ELSE 0)

\* Send returns nil: only the actions of an order that sends nothing are the
\* delivery, and may fail it.
Verdict(d, retry) == IF ~Orders[d].send /\ retry THEN "failed" ELSE "success"

LastStep(d, retry) == IF Orders[d].delete # NoRef THEN "delete" ELSE Verdict(d, retry)
AfterMessage(d)    == IF Orders[d].aside THEN "aside" ELSE LastStep(d, FALSE)

\* Send: an attempt begins.
Begin(d) ==
  LET o == Orders[d]
  IN  /\ jobs[d].at = "new"
      /\ jobs' = [jobs EXCEPT ![d] =
           IF ~o.send THEN At(d, AfterMessage(d))
           ELSE IF Lookup(o.edit) # Gone THEN [At(d, "edit") EXCEPT !.edits = Lookup(o.edit)]
           ELSE At(d, FirstWay(o))]
      /\ UNCHANGED <<chat, sent, refs, done, owed, trouble, lost>>

\* A message goes out; an album counts as one.
PutOut(d, part) ==
  /\ sent' = Append(sent, [by |-> d, part |-> part])
  /\ chat' = [i \in DOMAIN chat \cup {Len(sent) + 1} |-> IF i = Len(sent) + 1 THEN d ELSE chat[i]]
  /\ done' = done \cup {d}

AfterSend(d, method, id) ==
  IF method = "media" /\ ~Orders[d].fits THEN [At(d, "follow") EXCEPT !.id = id]
  ELSE [At(d, "put") EXCEPT !.id = id]

Degraded(d, method, answer) ==
  answer \in Refusals(jobs[d].params) /\ AsksAgain(method, jobs[d].params, answer)

AgainWithLess(d, answer) ==
  /\ jobs' = [jobs EXCEPT ![d].params = Degrade(@, answer), ![d].rounds = @ + 1]
  /\ UNCHANGED <<chat, sent, done>>

Fail(d, method) == jobs' = [jobs EXCEPT ![d] = At(d, Fallback(Orders[d], method))]

\* mediaInput: media that Telegram does not fetch itself may not be had.
Unfetched(method) == IF method = "media" THEN {"unfetched"} ELSE {}

\* One round of callDegrading for a message of its own.
Post(d, method) ==
  /\ jobs[d].at = method /\ UNCHANGED <<refs, owed>>
  /\ \E answer \in {"ok", "bare"} \cup Unfetched(method) \cup Refusals(jobs[d].params) \cup Failures :
       /\ Meet(answer)
       /\ \/ answer \in {"ok", "bare"} /\ PutOut(d, Part(method))
             /\ jobs' = [jobs EXCEPT ![d] =
                            AfterSend(d, method, IF answer = "ok" THEN Len(sent) + 1 ELSE Gone)]
          \/ answer = "lost" /\ PutOut(d, Part(method)) /\ Fail(d, method)
          \/ Degraded(d, method, answer) /\ AgainWithLess(d, answer)
          \/ /\ answer \notin {"ok", "bare", "lost"} /\ ~Degraded(d, method, answer)
             /\ Fail(d, method) /\ UNCHANGED <<chat, sent, done>>

\* The answers to an edit: a message that is gone is not edited, and one that
\* shows the text already is refused, which counts as edited.
EditAnswers(d) ==
  LET id == jobs[d].edits
  IN  IF id \notin DOMAIN chat THEN {"other"} \cup (Failures \ {"lost"})
      ELSE (IF chat[id] = d THEN {"same"} ELSE {"ok"}) \cup Refusals(jobs[d].params) \cup Failures

Edited(answer) == answer \in {"ok", "same"}

\* One round of callDegrading for an edit.
Edit(d) ==
  LET id == jobs[d].edits
  IN  /\ jobs[d].at = "edit" /\ UNCHANGED <<sent, refs, owed>>
      /\ \E answer \in EditAnswers(d) :
           /\ Meet(answer)
           /\ IF answer \in {"ok", "lost"}
              THEN chat' = [chat EXCEPT ![id] = d] /\ done' = done \cup {d}
              ELSE UNCHANGED <<chat, done>>
           /\ \/ /\ Edited(answer)
                 /\ jobs' = [jobs EXCEPT ![d] = [At(d, "put") EXCEPT !.id = id]]
              \/ Degraded(d, "edit", answer) /\ AgainWithLess(d, answer)
              \/ ~Edited(answer) /\ ~Degraded(d, "edit", answer) /\ Fail(d, "edit")

-----------------------------------------------------------------------------
(* What follows the message.                                               *)

\* refs.put: what cannot be written is only logged.
Put(d) ==
  LET r == RefOf(Orders[d])
  IN  /\ jobs[d].at = "put" /\ jobs' = [jobs EXCEPT ![d].at = AfterMessage(d)]
      /\ \/ /\ refs' = IF r # NoRef /\ jobs[d].id # Gone THEN [refs EXCEPT ![r] = jobs[d].id] ELSE refs
            /\ UNCHANGED trouble
         \/ trouble < MaxTrouble /\ trouble' = trouble + 1 /\ UNCHANGED refs
      /\ UNCHANGED <<chat, sent, done, owed, lost>>

\* actions: pin, unpin and react change nothing that is looked at here.  An
\* error that is no refusal makes an order of nothing else be tried again.
Aside(d) ==
  /\ jobs[d].at = "aside" /\ UNCHANGED <<chat, sent, refs, done, owed, lost>>
  /\ \/ jobs' = [jobs EXCEPT ![d].at = LastStep(d, FALSE)] /\ UNCHANGED trouble
     \/ /\ trouble < MaxTrouble /\ trouble' = trouble + 1
        /\ jobs' = [jobs EXCEPT ![d].at = LastStep(d, TRUE), ![d].retry = TRUE]

Doomed(d) == Lookup(Orders[d].delete)

\* actions: the deletion, and the message is forgotten whatever the answer.
Delete(d) ==
  /\ jobs[d].at = "delete" /\ UNCHANGED <<sent, done>>
  /\ \/ /\ Doomed(d) \in {Gone, jobs[d].id}
        /\ jobs' = [jobs EXCEPT ![d].at = Verdict(d, jobs[d].retry)]
        /\ UNCHANGED <<chat, refs, owed, trouble, lost>>
     \/ /\ Doomed(d) \notin {Gone, jobs[d].id}
        /\ refs' = [refs EXCEPT ![Orders[d].delete] = Gone]
        /\ \E answer \in {"ok", "other"} \cup Failures :
             /\ Meet(answer)
             /\ chat' = IF answer \in {"ok", "lost"}
                        THEN [i \in DOMAIN chat \ {Doomed(d)} |-> chat[i]] ELSE chat
             /\ owed' = IF answer = "down" THEN owed \cup {[by |-> d, id |-> Doomed(d)]}
                        ELSE owed \ {[by |-> d, id |-> Doomed(d)]}
             /\ jobs' = [jobs EXCEPT ![d].at = Verdict(d, jobs[d].retry \/ answer \in {"down", "lost"})]

Again(d) == [Idle EXCEPT !.tries = jobs[d].tries + 1]

\* The queue tries again what has failed, until max_attempts.
Retry(d) ==
  /\ jobs[d].at = "failed"
  /\ jobs' = [jobs EXCEPT ![d] = IF @.tries + 1 < MaxTries THEN Again(d) ELSE [@ EXCEPT !.at = "dead"]]
  /\ UNCHANGED <<chat, sent, refs, done, owed, trouble, lost>>

\* The process dies; what a Send had done by then is done again.
SendCrash ==
  /\ trouble < MaxTrouble /\ trouble' = trouble + 1 /\ lost' = lost + 1
  /\ jobs' = [d \in DOMAIN jobs |->
                IF jobs[d].at \in {"absent", "success", "failed", "dead"} THEN jobs[d]
                ELSE [Idle EXCEPT !.tries = jobs[d].tries]]
  /\ UNCHANGED <<chat, sent, refs, done, owed>>

Serve(d) == \/ Begin(d) \/ Edit(d) \/ Put(d) \/ Aside(d) \/ Delete(d) \/ Retry(d)
            \/ \E m \in Methods \ {"edit"} : Post(d, m)

SendNext == SendCrash \/ \E d \in DOMAIN Orders : Serve(d)

SendSpec == SendInit /\ [][SendNext]_sendVars

-----------------------------------------------------------------------------
Count(d, part) == Cardinality({i \in DOMAIN sent : sent[i] = [by |-> d, part |-> part]})

(* The comment over Send: "Only the message itself can fail the delivery: pins,
   reactions and deletions are best effort, so a retry never sends it twice."
   Whatever Telegram refuses, whatever is unreachable and however two deliveries
   of one ref mix: a delivery that succeeds has been shown, and as long as every
   request that was done was answered no part of a delivery goes out twice and
   nothing of one that has died is in the chat. *)
SentOnce ==
  \A d \in DOMAIN Orders :
    /\ jobs[d].at = "success" /\ Orders[d].send => d \in done
    /\ lost = 0 => /\ \A part \in {"rich", "media", "text"} : Count(d, part) <= 1
                   /\ Count(d, "rich") = 1 => Count(d, "media") + Count(d, "text") = 0
                   /\ jobs[d].at \in {"failed", "dead"} => d \notin done

(* Each refusal takes something out of the request, so that callDegrading ends:
   however often Telegram refuses, a method is asked for three times at most. *)
RefusalsEnd == \A d \in DOMAIN Orders : jobs[d].rounds <= 2

(* The comment over actions: "strict (send false, where they are the delivery)
   returns errors worth retrying (network, rate limit, outage)."  A delivery that
   is there to delete a message does not end as a success while the request has
   never reached Telegram and the message is in the chat. *)
SuccessMeansDeleted ==
  \A x \in owed : ~Orders[x.by].send /\ jobs[x.by].at = "success" => x.id \notin DOMAIN chat
=============================================================================
