---------------------------- MODULE ProviderProofs ----------------------------
(***************************************************************************)
(* Theorems about what the providers promise the delivery queue: that a    *)
(* retried Telegram delivery is not sent twice (TelegramSend), that a      *)
(* press of a button acts once (TelegramCallbacks) and that a page counts  *)
(* as sent when a phone showed it (ApplePush).                             *)
(***************************************************************************)
EXTENDS TelegramSend, TelegramCallbacks, ApplePush, FiniteSetTheorems, TLAPS

-----------------------------------------------------------------------------
(* TelegramSend: the message, its retries and its options.                 *)

Unsent == {"absent", "new", "edit", "rich", "media", "text", "failed", "dead"}
Out    == {"follow", "put", "aside", "delete", "success"}
Options == {"format", "options"}

\* What callDegrading has left to drop: a round for each option at most.
JobFits(job) ==
  /\ DOMAIN job = {"at", "params", "rounds", "id", "edits", "retry", "tries"}
  /\ job.at \in Unsent \cup Out /\ job.params \subseteq Options /\ job.rounds \in 0..2
  /\ job.rounds = 1 => job.params # Options
  /\ job.rounds = 2 => job.params = {}

JobsFit == DOMAIN jobs = DOMAIN Orders /\ \A d \in DOMAIN Orders : JobFits(jobs[d])

NothingOf(d) == \A i \in DOMAIN sent : sent[i].by # d

\* Two parts of one delivery are the media and the text that follows it.
Apart(d) == \A i, j \in DOMAIN sent :
              sent[i].by = d /\ sent[j].by = d /\ i < j => sent[i].part = "media" /\ sent[j].part = "text"

\* Where a delivery stands, and what of it is out.
Story(d) ==
  /\ Orders[d].send /\ jobs[d].at \in Out => d \in done
  /\ ~Orders[d].send => /\ jobs[d].at \notin Methods \cup {"put"}
                        /\ d \notin done /\ NothingOf(d)
  /\ lost = 0 => /\ jobs[d].at \in Unsent => d \notin done /\ NothingOf(d)
                 /\ jobs[d].at = "follow" => \A i, j \in DOMAIN sent :
                       sent[i].by = d /\ sent[j].by = d => i = j /\ sent[i].part = "media"
                 /\ Apart(d)

SendInv ==
  /\ JobsFit /\ lost \in Nat
  /\ sent \in Seq([by : DOMAIN Orders, part : {"rich", "media", "text"}])
  /\ \A i \in DOMAIN chat : chat[i] \in done
  /\ \A d \in DOMAIN Orders : Story(d)

\* The next way of a message, with the options it takes.
LEMMA AtFits ==
  ASSUME JobsFit, NEW d \in DOMAIN Orders, NEW s \in Unsent \cup Out
  PROVE  JobFits(At(d, s)) /\ At(d, s).at = s
  <1>1. Params(Orders[d], s) \subseteq Options
    BY DEF Params, Options
  <1> QED BY <1>1 DEF At, JobsFit, JobFits

\* What is set beside it does not matter.
LEMMA AlsoFits ==
  ASSUME NEW job, JobFits(job), NEW x
  PROVE  /\ JobFits([job EXCEPT !.id = x]) /\ [job EXCEPT !.id = x].at = job.at
         /\ JobFits([job EXCEPT !.edits = x]) /\ [job EXCEPT !.edits = x].at = job.at
         /\ JobFits([job EXCEPT !.retry = x]) /\ [job EXCEPT !.retry = x].at = job.at
  BY DEF JobFits

\* A job at another stage.
LEMMA StageFits ==
  ASSUME NEW job, JobFits(job), NEW s \in Unsent \cup Out
  PROVE  JobFits([job EXCEPT !.at = s]) /\ [job EXCEPT !.at = s].at = s
  BY DEF JobFits

\* A job of Idle, whatever its tries.
LEMMA IdleFits ==
  ASSUME NEW n
  PROVE  JobFits(Idle) /\ JobFits([Idle EXCEPT !.tries = n]) /\ [Idle EXCEPT !.tries = n].at = "new"
         /\ JobFits([Idle EXCEPT !.at = "absent"]) /\ [Idle EXCEPT !.at = "absent"].at = "absent"
  <1>1. JobFits(Idle)
    BY DEF Idle, JobFits, Unsent, Out, Options
  <1>2. JobFits([Idle EXCEPT !.tries = n]) /\ [Idle EXCEPT !.tries = n].at = "new"
    BY DEF Idle, JobFits, Unsent, Out, Options
  <1> QED BY <1>1, <1>2, StageFits DEF Unsent, Out

\* One job changes.
LEMMA OneJobMoves ==
  ASSUME JobsFit, NEW d \in DOMAIN Orders, NEW new, JobFits(new), jobs' = [jobs EXCEPT ![d] = new]
  PROVE  /\ JobsFit' /\ jobs'[d] = new
         /\ \A e \in DOMAIN Orders : e # d => jobs'[e] = jobs[e]
  BY DEF JobsFit

\* Before anything is sent.
LEMMA InitSends == SendInit => SendInv
  <1> SUFFICES ASSUME SendInit PROVE SendInv
    OBVIOUS
  <1>1. PICK batch \in Batches :
          jobs = [d \in DOMAIN Orders |-> IF d \in batch THEN Idle ELSE [Idle EXCEPT !.at = "absent"]]
    BY DEF SendInit
  <1>2. \A d \in DOMAIN Orders : JobFits(jobs[d]) /\ jobs[d].at \in {"new", "absent"}
    BY <1>1, IdleFits DEF Idle
  <1>3. sent = <<>> /\ chat = <<>> /\ done = {} /\ lost = 0
    BY DEF SendInit
  <1>4. \A d \in DOMAIN Orders : Story(d)
    BY <1>2, <1>3 DEF Story, NothingOf, Apart, Unsent, Out, Methods
  <1> QED BY <1>1, <1>2, <1>3, <1>4 DEF SendInv, JobsFit

\* Each delivery has a job.
LEMMA JobOf ==
  ASSUME SendInv, NEW d \in DOMAIN Orders
  PROVE  JobFits(jobs[d]) /\ jobs[d].at \in Unsent \cup Out
  BY DEF SendInv, JobsFit, JobFits

\* What a delivery does is nothing to another.
LEMMA OthersKeep ==
  ASSUME SendInv, NEW d \in DOMAIN Orders, NEW e \in DOMAIN Orders, e # d, jobs'[e] = jobs[e],
         lost' \in Nat, lost' >= lost, done' = done \/ done' = done \cup {d},
         sent' = sent \/ \E part \in {"rich", "media", "text"} : sent' = Append(sent, [by |-> d, part |-> part])
  PROVE  Story(e)'
  <1>1. Story(e) /\ lost \in Nat /\ sent \in Seq([by : DOMAIN Orders, part : {"rich", "media", "text"}])
    BY DEF SendInv
  <1>2. lost' = 0 => lost = 0
    BY <1>1
  <1>3. e \in done' <=> e \in done
    OBVIOUS
  <1>4. \A i \in DOMAIN sent' : sent'[i].by = e => i \in DOMAIN sent /\ sent'[i] = sent[i]
    BY <1>1
  <1>5. NothingOf(e) => NothingOf(e)'
    BY <1>4 DEF NothingOf
  <1>6. Apart(e) => Apart(e)'
    BY <1>4 DEF Apart
  <1> QED BY <1>1, <1>2, <1>3, <1>4, <1>5, <1>6 DEF Story

\* A step that puts nothing out leaves a delivery on its side.
LEMMA QuietStep ==
  ASSUME SendInv, NEW d \in DOMAIN Orders, NEW new, JobFits(new), jobs' = [jobs EXCEPT ![d] = new],
         sent' = sent, done' = done, lost' \in Nat, lost' >= lost,
         new.at = "follow" => jobs[d].at = "follow",
         \/ jobs[d].at \in Unsent /\ new.at \in Unsent
         \/ jobs[d].at \in Out /\ new.at \in Out
         \/ ~Orders[d].send,
         ~Orders[d].send => new.at \notin Methods \cup {"put"},
         \A i \in DOMAIN chat' : chat'[i] \in done
  PROVE  SendInv'
  <1>1. /\ JobsFit' /\ jobs'[d] = new /\ \A e \in DOMAIN Orders : e # d => jobs'[e] = jobs[e]
    <2>1. JobsFit
      BY DEF SendInv
    <2> QED BY <2>1, OneJobMoves
  <1>2. Story(d) /\ lost \in Nat
    BY DEF SendInv
  <1>3. lost' = 0 => lost = 0
    BY <1>2
  <1>4. NothingOf(d)' = NothingOf(d) /\ Apart(d)' = Apart(d)
    BY DEF NothingOf, Apart
  <1>5. Unsent \cap Out = {}
    BY DEF Unsent, Out
  <1>6. Story(d)'
    BY <1>1, <1>2, <1>3, <1>4, <1>5 DEF Story
  <1>7. \A e \in DOMAIN Orders : Story(e)'
    BY <1>1, <1>6, OthersKeep
  <1> QED BY <1>1, <1>7 DEF SendInv

\* The ways there are to go on.
LEMMA WaysOn ==
  ASSUME NEW o
  PROVE  /\ FirstWay(o) \in {"rich", "media", "text"} /\ AfterRich(o) \in {"media", "text"}
         /\ \A m \in {"edit", "rich", "media", "text"} : Fallback(o, m) \in Unsent \ {"absent", "edit"}
         /\ Fallback(o, "follow") = "put"
  BY DEF FirstWay, AfterRich, Fallback, Unsent

\* The stages after the message.
LEMMA StepsAfter ==
  ASSUME NEW d, NEW retry
  PROVE  /\ Verdict(d, retry) \in {"success", "failed"}
         /\ LastStep(d, retry) \in {"delete", "success", "failed"}
         /\ AfterMessage(d) \in {"aside", "delete", "success"}
         /\ Orders[d].send => /\ Verdict(d, retry) = "success"
                              /\ LastStep(d, retry) \in {"delete", "success"}
  BY DEF Verdict, LastStep, AfterMessage

\* An attempt begins: with an edit, or with the first way.
LEMMA BeginSends ==
  ASSUME SendInv, NEW d \in DOMAIN Orders, Begin(d)
  PROVE  SendInv'
  <1> DEFINE o   == Orders[d]
             new == IF ~o.send THEN At(d, AfterMessage(d))
                    ELSE IF Lookup(o.edit) # Gone THEN [At(d, "edit") EXCEPT !.edits = Lookup(o.edit)]
                    ELSE At(d, FirstWay(o))
  <1>1. /\ jobs[d].at = "new" /\ jobs' = [jobs EXCEPT ![d] = new]
        /\ sent' = sent /\ done' = done /\ lost' = lost /\ chat' = chat
    BY DEF Begin
  <1>2. /\ JobFits(At(d, AfterMessage(d))) /\ At(d, AfterMessage(d)).at \in {"aside", "delete", "success"}
    BY AtFits, StepsAfter DEF SendInv, Out
  <1>3. JobFits(At(d, FirstWay(o))) /\ At(d, FirstWay(o)).at \in {"rich", "media", "text"}
    BY AtFits, WaysOn DEF SendInv, Unsent
  <1>4. JobFits(At(d, "edit")) /\ At(d, "edit").at = "edit"
    BY AtFits DEF SendInv, Unsent
  <1>5. JobFits(new) /\ (o.send => new.at \in {"edit", "rich", "media", "text"})
        /\ (~o.send => new.at \in {"aside", "delete", "success"})
    BY <1>2, <1>3, <1>4, AlsoFits
  <1>6. lost' \in Nat /\ lost' >= lost /\ \A i \in DOMAIN chat' : chat'[i] \in done
    BY <1>1 DEF SendInv
  <1> HIDE DEF new
  <1>7. /\ (jobs[d].at \in Unsent /\ new.at \in Unsent) \/ ~Orders[d].send
        /\ new.at # "follow" /\ (~Orders[d].send => new.at \notin Methods \cup {"put"})
    BY <1>1, <1>5 DEF Unsent, Methods
  <1> QED BY <1>1, <1>5, <1>6, <1>7, QuietStep

\* The queue tries again, or gives up.
LEMMA RetrySends ==
  ASSUME SendInv, NEW d \in DOMAIN Orders, Retry(d)
  PROVE  SendInv'
  <1>1. PICK new : /\ jobs' = [jobs EXCEPT ![d] = new]
                   /\ new = Again(d) \/ new = [jobs[d] EXCEPT !.at = "dead"]
    BY DEF Retry, SendInv, JobsFit
  <1>2. /\ jobs[d].at = "failed" /\ sent' = sent /\ done' = done /\ lost' = lost /\ chat' = chat
    BY DEF Retry
  <1>3. JobFits(Again(d)) /\ Again(d).at = "new"
    BY IdleFits DEF Again
  <1>4. JobFits([jobs[d] EXCEPT !.at = "dead"]) /\ [jobs[d] EXCEPT !.at = "dead"].at = "dead"
    BY JobOf, StageFits DEF Unsent
  <1>5. JobFits(new) /\ new.at \in {"new", "dead"}
    BY <1>1, <1>3, <1>4
  <1>6. lost' \in Nat /\ lost' >= lost /\ \A i \in DOMAIN chat' : chat'[i] \in done
    BY <1>2 DEF SendInv
  <1>7. /\ jobs[d].at \in Unsent /\ new.at \in Unsent
        /\ new.at # "follow" /\ new.at \notin Methods \cup {"put"}
    BY <1>2, <1>5 DEF Unsent, Methods
  <1> QED BY <1>1, <1>2, <1>5, <1>6, <1>7, QuietStep

\* The ref is remembered, or not.
LEMMA PutSends ==
  ASSUME SendInv, NEW d \in DOMAIN Orders, Put(d)
  PROVE  SendInv'
  <1> DEFINE new == [jobs[d] EXCEPT !.at = AfterMessage(d)]
  <1>1. /\ jobs[d].at = "put" /\ jobs' = [jobs EXCEPT ![d] = new]
        /\ sent' = sent /\ done' = done /\ lost' = lost /\ chat' = chat
    BY DEF Put
  <1>2. JobFits(new) /\ new.at \in {"aside", "delete", "success"}
    BY JobOf, StageFits, StepsAfter DEF Out
  <1>3. lost' \in Nat /\ lost' >= lost /\ \A i \in DOMAIN chat' : chat'[i] \in done
    BY <1>1 DEF SendInv
  <1> HIDE DEF new
  <1> QED BY <1>1, <1>2, <1>3, QuietStep DEF Out, Methods

\* Pins and reactions: they fail only an order of nothing else.
LEMMA AsideSends ==
  ASSUME SendInv, NEW d \in DOMAIN Orders, Aside(d)
  PROVE  SendInv'
  <1> DEFINE calm    == [jobs[d] EXCEPT !.at = LastStep(d, FALSE)]
             worried == [jobs[d] EXCEPT !.at = LastStep(d, TRUE), !.retry = TRUE]
  <1>1. /\ jobs[d].at = "aside" /\ (jobs' = [jobs EXCEPT ![d] = calm] \/ jobs' = [jobs EXCEPT ![d] = worried])
        /\ sent' = sent /\ done' = done /\ lost' = lost /\ chat' = chat
    BY DEF Aside
  <1>2. \A retry \in BOOLEAN :
          /\ JobFits([jobs[d] EXCEPT !.at = LastStep(d, retry)])
          /\ [jobs[d] EXCEPT !.at = LastStep(d, retry)].at = LastStep(d, retry)
    <2> TAKE retry \in BOOLEAN
    <2>1. LastStep(d, retry) \in Unsent \cup Out /\ JobFits(jobs[d])
      BY JobOf, StepsAfter DEF Unsent, Out
    <2> QED BY <2>1, StageFits
  <1>3. JobFits(calm) /\ calm.at = LastStep(d, FALSE)
    BY <1>2
  <1>4. JobFits(worried) /\ worried.at = LastStep(d, TRUE)
    BY <1>2, AlsoFits
  <1>5. lost' \in Nat /\ lost' >= lost /\ \A i \in DOMAIN chat' : chat'[i] \in done
    BY <1>1 DEF SendInv
  <1> HIDE DEF calm, worried
  <1>6. PICK new : jobs' = [jobs EXCEPT ![d] = new] /\ JobFits(new)
                   /\ (new.at = LastStep(d, TRUE) \/ new.at = LastStep(d, FALSE))
    BY <1>1, <1>3, <1>4
  <1> QED BY <1>1, <1>5, <1>6, StepsAfter, QuietStep DEF Out, Methods

\* The deletion: what the chat loses was in it.
LEMMA DeleteSends ==
  ASSUME SendInv, NEW d \in DOMAIN Orders, Delete(d)
  PROVE  SendInv'
  <1>1. PICK retry : jobs' = [jobs EXCEPT ![d].at = Verdict(d, retry)]
    BY DEF Delete
  <1> DEFINE new == [jobs[d] EXCEPT !.at = Verdict(d, retry)]
  <1>2. jobs' = [jobs EXCEPT ![d] = new] /\ jobs[d].at = "delete" /\ sent' = sent /\ done' = done
    BY <1>1 DEF Delete
  <1>3. lost \in Nat /\ \A i \in DOMAIN chat : chat[i] \in done
    BY DEF SendInv
  <1>4. lost' \in Nat /\ lost' >= lost
    BY <1>3 DEF Delete, Meet
  <1>5. \A i \in DOMAIN chat' : chat'[i] \in done
    BY <1>3 DEF Delete
  <1>6. JobFits(new) /\ new.at = Verdict(d, retry)
    <2>1. Verdict(d, retry) \in Unsent \cup Out /\ JobFits(jobs[d])
      BY JobOf, StepsAfter DEF Unsent, Out
    <2> QED BY <2>1, StageFits
  <1>7. new.at \in {"success", "failed"} /\ (Orders[d].send => new.at = "success")
    BY <1>6, StepsAfter
  <1> HIDE DEF new
  <1> QED BY <1>2, <1>4, <1>5, <1>6, <1>7, QuietStep DEF Out, Methods

\* A round with less: an option is dropped, and is not asked for again.
LEMMA LessFits ==
  ASSUME SendInv, NEW d \in DOMAIN Orders, NEW m, NEW answer, Degraded(d, m, answer), AgainWithLess(d, answer)
  PROVE  \E new : jobs' = [jobs EXCEPT ![d] = new] /\ JobFits(new) /\ new.at = jobs[d].at
  <1> DEFINE less == Degrade(jobs[d].params, answer)
             new  == [jobs[d] EXCEPT !.params = less, !.rounds = jobs[d].rounds + 1]
  <1>1. jobs' = [jobs EXCEPT ![d] = new]
    BY JobOf DEF AgainWithLess
  <1>2. PICK gone \in Options : gone \in jobs[d].params /\ less = jobs[d].params \ {gone}
    BY JobOf DEF JobFits, Degraded, AsksAgain, Degrade, Options
  <1>3. /\ jobs[d].params \subseteq Options /\ jobs[d].rounds \in 0..2
        /\ jobs[d].rounds = 1 => jobs[d].params # Options
        /\ jobs[d].rounds = 2 => jobs[d].params = {}
    BY JobOf DEF JobFits
  <1>4. less \subseteq Options /\ less # Options
    BY <1>2, <1>3
  <1>5. jobs[d].rounds = 1 => less = {}
    BY <1>2, <1>3 DEF Options
  <1>6. jobs[d].rounds # 2
    BY <1>2, <1>3
  <1>7. jobs[d].rounds + 1 \in 0..2
    BY <1>3, <1>6
  <1> HIDE DEF less
  <1>8. JobFits(new) /\ new.at = jobs[d].at
    BY JobOf, <1>3, <1>4, <1>5, <1>7 DEF JobFits
  <1> QED BY <1>1, <1>8

\* Meeting an answer: what was lost is counted.
LEMMA MeetCounts ==
  ASSUME SendInv, NEW answer, Meet(answer)
  PROVE  lost' \in Nat /\ lost' >= lost /\ (answer = "lost" => lost' > 0)
  BY DEF SendInv, Meet

\* Only what sends has a method.
LEMMA MethodSends ==
  ASSUME SendInv, NEW d \in DOMAIN Orders, jobs[d].at \in Methods
  PROVE  Orders[d].send
  BY DEF SendInv, Story

\* A method is asked once more, with less.
LEMMA LessSends ==
  ASSUME SendInv, NEW d \in DOMAIN Orders, NEW m \in Methods, jobs[d].at = m,
         NEW answer, Meet(answer), Degraded(d, m, answer), AgainWithLess(d, answer)
  PROVE  SendInv'
  <1>1. PICK new : jobs' = [jobs EXCEPT ![d] = new] /\ JobFits(new) /\ new.at = jobs[d].at
    BY LessFits
  <1>2. sent' = sent /\ done' = done /\ chat' = chat /\ lost' \in Nat /\ lost' >= lost
    BY MeetCounts DEF AgainWithLess
  <1>3. Orders[d].send /\ jobs[d].at \in Unsent \cup Out
    BY MethodSends, JobOf
  <1>4. \A i \in DOMAIN chat' : chat'[i] \in done
    BY <1>2 DEF SendInv
  <1> QED BY <1>1, <1>2, <1>3, <1>4, QuietStep

\* A method has failed, and nothing of it is out.
LEMMA FailSends ==
  ASSUME SendInv, NEW d \in DOMAIN Orders, NEW m \in Methods, jobs[d].at = m,
         NEW answer, Meet(answer), Fail(d, m), UNCHANGED <<chat, sent, done>>
  PROVE  SendInv'
  <1> DEFINE next == Fallback(Orders[d], m)
             new  == At(d, next)
  <1>1. next \in Unsent \cup Out /\ (IF m = "follow" THEN next = "put" ELSE next \in Unsent)
    BY WaysOn DEF Methods, Out
  <1>2. JobFits(new) /\ new.at = next
    BY <1>1, AtFits DEF SendInv
  <1>3. jobs' = [jobs EXCEPT ![d] = new] /\ Orders[d].send
    BY MethodSends DEF Fail
  <1>4. lost' \in Nat /\ lost' >= lost /\ \A i \in DOMAIN chat' : chat'[i] \in done
    BY MeetCounts DEF SendInv
  <1> HIDE DEF new, next
  <1>5. new.at # "follow" /\ (\/ jobs[d].at \in Unsent /\ new.at \in Unsent
                              \/ jobs[d].at \in Out /\ new.at \in Out)
    BY <1>1, <1>2 DEF Methods, Unsent, Out
  <1> QED BY <1>2, <1>3, <1>4, <1>5, QuietStep

\* A message goes out.
LEMMA LoudStep ==
  ASSUME SendInv, NEW d \in DOMAIN Orders, NEW m \in Methods \ {"edit"}, jobs[d].at = m,
         PutOut(d, Part(m)), NEW new, JobFits(new), jobs' = [jobs EXCEPT ![d] = new],
         lost' \in Nat, lost' >= lost,
         lost' = 0 => new.at = "put" \/ (new.at = "follow" /\ m = "media")
  PROVE  SendInv'
  <1> DEFINE n == Len(sent) + 1
  <1>1. /\ JobsFit' /\ jobs'[d] = new /\ \A e \in DOMAIN Orders : e # d => jobs'[e] = jobs[e]
    <2>1. JobsFit
      BY DEF SendInv
    <2> QED BY <2>1, OneJobMoves
  <1>2. Part(m) \in {"rich", "media", "text"} /\ (m = "follow" => Part(m) = "text")
        /\ (m = "media" => Part(m) = "media")
    BY DEF Part, Methods
  <1>3. /\ sent \in Seq([by : DOMAIN Orders, part : {"rich", "media", "text"}])
        /\ Story(d) /\ lost \in Nat /\ \A i \in DOMAIN chat : chat[i] \in done
    BY DEF SendInv
  <1>4. /\ sent' = Append(sent, [by |-> d, part |-> Part(m)]) /\ done' = done \cup {d}
        /\ chat' = [i \in DOMAIN chat \cup {n} |-> IF i = n THEN d ELSE chat[i]]
    BY DEF PutOut
  <1>5. sent' \in Seq([by : DOMAIN Orders, part : {"rich", "media", "text"}])
    BY <1>2, <1>3, <1>4
  <1>6. \A i \in DOMAIN chat' : chat'[i] \in done'
    BY <1>3, <1>4
  <1>7. /\ DOMAIN sent' = DOMAIN sent \cup {n} /\ n \notin DOMAIN sent /\ \A i \in DOMAIN sent : i < n
        /\ sent'[n].by = d /\ sent'[n].part = Part(m) /\ \A i \in DOMAIN sent : sent'[i] = sent[i]
    BY <1>3, <1>4
  <1>8. Orders[d].send
    BY MethodSends
  <1>9. ASSUME lost' = 0
        PROVE  /\ new.at = "follow" => \A i, j \in DOMAIN sent' :
                     sent'[i].by = d /\ sent'[j].by = d => i = j /\ sent'[i].part = "media"
               /\ Apart(d)'
    <2>1. lost = 0
      BY <1>3, <1>9
    <2>2. CASE m = "follow"
      <3>1. \A i, j \in DOMAIN sent : sent[i].by = d /\ sent[j].by = d => i = j /\ sent[i].part = "media"
        BY <1>3, <2>1, <2>2 DEF Story
      <3>2. \A i, j \in DOMAIN sent' :
               sent'[i].by = d /\ sent'[j].by = d /\ i < j => sent'[i].part = "media" /\ sent'[j].part = "text"
        <4>1. n \in Nat /\ DOMAIN sent \subseteq Nat
          BY <1>3
        <4> QED BY <1>2, <1>7, <2>2, <3>1, <4>1
      <3> QED BY <1>9, <2>2, <3>2 DEF Apart
    <2>3. CASE m # "follow"
      <3>1. \A i \in DOMAIN sent : sent[i].by # d
        BY <1>3, <2>1, <2>3 DEF Story, Methods, Unsent, NothingOf
      <3>2. \A i \in DOMAIN sent' : sent'[i].by = d => i = n
        BY <1>7, <3>1
      <3>3. n \in Nat
        BY <1>3
      <3>4. Apart(d)'
        BY <3>2, <3>3 DEF Apart
      <3>5. new.at = "follow" => m = "media"
        BY <1>9
      <3> QED BY <1>2, <1>7, <3>2, <3>4, <3>5
    <2> QED BY <2>2, <2>3
  <1>10. Story(d)'
    <2>1. lost' = 0 => new.at \notin Unsent
      BY DEF Unsent
    <2> QED BY <1>1, <1>4, <1>8, <1>9, <2>1 DEF Story
  <1>11. \A e \in DOMAIN Orders : Story(e)'
    BY <1>1, <1>2, <1>4, <1>10, OthersKeep
  <1> QED BY <1>1, <1>5, <1>6, <1>11 DEF SendInv

\* A round of a message of its own.
LEMMA PostSends ==
  ASSUME SendInv, NEW d \in DOMAIN Orders, NEW m \in Methods \ {"edit"}, Post(d, m)
  PROVE  SendInv'
  <1>1. PICK answer \in {"ok", "bare"} \cup Unfetched(m) \cup Refusals(jobs[d].params) \cup Failures :
          /\ Meet(answer)
          /\ \/ answer \in {"ok", "bare"} /\ PutOut(d, Part(m))
                /\ jobs' = [jobs EXCEPT ![d] =
                               AfterSend(d, m, IF answer = "ok" THEN Len(sent) + 1 ELSE Gone)]
             \/ answer = "lost" /\ PutOut(d, Part(m)) /\ Fail(d, m)
             \/ Degraded(d, m, answer) /\ AgainWithLess(d, answer)
             \/ /\ answer \notin {"ok", "bare", "lost"} /\ ~Degraded(d, m, answer)
                /\ Fail(d, m) /\ UNCHANGED <<chat, sent, done>>
    BY DEF Post
  <1>2. jobs[d].at = m
    BY DEF Post
  <1>3. lost' \in Nat /\ lost' >= lost /\ (answer = "lost" => lost' > 0)
    BY <1>1, MeetCounts
  <1>4. ASSUME answer \in {"ok", "bare"}, PutOut(d, Part(m)),
               jobs' = [jobs EXCEPT ![d] = AfterSend(d, m, IF answer = "ok" THEN Len(sent) + 1 ELSE Gone)]
        PROVE  SendInv'
    <2> DEFINE id  == IF answer = "ok" THEN Len(sent) + 1 ELSE Gone
               new == AfterSend(d, m, id)
    <2>1. /\ JobFits(At(d, "follow")) /\ At(d, "follow").at = "follow"
          /\ JobFits(At(d, "put")) /\ At(d, "put").at = "put"
      BY AtFits DEF SendInv, Out
    <2> HIDE DEF id
    <2>2. JobFits(new) /\ (new.at = "put" \/ (new.at = "follow" /\ m = "media"))
      BY <2>1, AlsoFits DEF AfterSend
    <2>3. jobs' = [jobs EXCEPT ![d] = new]
      BY <1>4 DEF id
    <2> HIDE DEF new
    <2> QED BY <1>2, <1>3, <1>4, <2>2, <2>3, LoudStep
  <1>5. ASSUME answer = "lost", PutOut(d, Part(m)), Fail(d, m)
        PROVE  SendInv'
    <2> DEFINE next == Fallback(Orders[d], m)
               new  == At(d, next)
    <2>1. next \in Unsent \cup Out
      BY WaysOn DEF Methods, Out
    <2>2. JobFits(new)
      BY <2>1, AtFits DEF SendInv
    <2>3. jobs' = [jobs EXCEPT ![d] = new]
      BY <1>5 DEF Fail
    <2>4. lost' # 0
      BY <1>3, <1>5
    <2> HIDE DEF new, next
    <2> QED BY <1>2, <1>3, <1>5, <2>2, <2>3, <2>4, LoudStep
  <1>6. ASSUME Degraded(d, m, answer), AgainWithLess(d, answer)
        PROVE  SendInv'
    BY <1>1, <1>2, <1>6, LessSends
  <1>7. ASSUME Fail(d, m), UNCHANGED <<chat, sent, done>>
        PROVE  SendInv'
    BY <1>1, <1>2, <1>7, FailSends
  <1> QED BY <1>1, <1>4, <1>5, <1>6, <1>7

\* A text that replaces another puts nothing out, but its delivery is shown.
LEMMA ShownStep ==
  ASSUME SendInv, NEW d \in DOMAIN Orders, jobs[d].at = "edit", NEW new, JobFits(new),
         jobs' = [jobs EXCEPT ![d] = new], sent' = sent, d \in done', done' = done \/ done' = done \cup {d},
         lost' \in Nat, lost' >= lost, lost' = 0 => new.at = "put",
         \A i \in DOMAIN chat' : chat'[i] \in done'
  PROVE  SendInv'
  <1>1. /\ JobsFit' /\ jobs'[d] = new /\ \A e \in DOMAIN Orders : e # d => jobs'[e] = jobs[e]
    <2>1. JobsFit
      BY DEF SendInv
    <2> QED BY <2>1, OneJobMoves
  <1>2. Story(d) /\ lost \in Nat /\ Orders[d].send
    BY MethodSends DEF SendInv, Methods
  <1>3. NothingOf(d)' = NothingOf(d) /\ Apart(d)' = Apart(d)
    BY DEF NothingOf, Apart
  <1>4. lost' = 0 => new.at \notin Unsent /\ new.at # "follow" /\ lost = 0
    BY <1>2 DEF Unsent
  <1>5. Story(d)'
    BY <1>1, <1>2, <1>3, <1>4 DEF Story
  <1>6. \A e \in DOMAIN Orders : Story(e)'
    BY <1>1, <1>5, OthersKeep
  <1> QED BY <1>1, <1>6 DEF SendInv

\* A round of an edit.
LEMMA EditSends ==
  ASSUME SendInv, NEW d \in DOMAIN Orders, Edit(d)
  PROVE  SendInv'
  <1> DEFINE id == jobs[d].edits
  <1>1. PICK answer \in EditAnswers(d) :
          /\ Meet(answer)
          /\ IF answer \in {"ok", "lost"}
             THEN chat' = [chat EXCEPT ![id] = d] /\ done' = done \cup {d}
             ELSE UNCHANGED <<chat, done>>
          /\ \/ /\ Edited(answer)
                /\ jobs' = [jobs EXCEPT ![d] = [At(d, "put") EXCEPT !.id = id]]
             \/ Degraded(d, "edit", answer) /\ AgainWithLess(d, answer)
             \/ ~Edited(answer) /\ ~Degraded(d, "edit", answer) /\ Fail(d, "edit")
    BY DEF Edit
  <1>2. jobs[d].at = "edit" /\ sent' = sent /\ "edit" \in Methods
    BY DEF Edit, Methods
  <1>3. lost' \in Nat /\ lost' >= lost /\ (answer = "lost" => lost' > 0)
    BY <1>1, MeetCounts
  <1>4. \A i \in DOMAIN chat : chat[i] \in done
    BY DEF SendInv
  <1>5. answer \in Refusals(jobs[d].params) => answer \notin {"ok", "same", "lost"}
    BY DEF Refusals
  <1>6. answer = "same" => id \in DOMAIN chat /\ chat[id] = d
    BY DEF EditAnswers, Refusals, Failures
  <1>7. \A i \in DOMAIN chat' : chat'[i] \in done'
    BY <1>1, <1>4
  <1>8. CASE Edited(answer)
    <2>1. ~Degraded(d, "edit", answer)
      BY <1>5, <1>8 DEF Degraded, Edited
    <2>2. JobFits(At(d, "put")) /\ At(d, "put").at = "put"
      BY AtFits DEF SendInv, Out
    <2> DEFINE new == [At(d, "put") EXCEPT !.id = id]
    <2>3. JobFits(new) /\ new.at = "put" /\ jobs' = [jobs EXCEPT ![d] = new]
      BY <1>1, <1>8, <2>1, <2>2, AlsoFits
    <2>4. d \in done' /\ (done' = done \/ done' = done \cup {d})
      BY <1>1, <1>4, <1>6, <1>8 DEF Edited
    <2> HIDE DEF new
    <2> QED BY <1>2, <1>3, <1>7, <2>3, <2>4, ShownStep
  <1>9. CASE Degraded(d, "edit", answer) /\ ~Edited(answer)
    <2>1. AgainWithLess(d, answer)
      BY <1>1, <1>9
    <2> QED BY <1>1, <1>2, <1>9, <2>1, LessSends
  <1>10. CASE ~Edited(answer) /\ ~Degraded(d, "edit", answer) /\ answer = "lost"
    <2> DEFINE next == Fallback(Orders[d], "edit")
               new  == At(d, next)
    <2>1. next \in Unsent \cup Out
      BY WaysOn
    <2>2. JobFits(new) /\ jobs' = [jobs EXCEPT ![d] = new]
      BY <1>1, <1>10, <2>1, AtFits DEF SendInv, Fail
    <2>3. lost' # 0 /\ done' = done \cup {d}
      BY <1>1, <1>3, <1>10
    <2> HIDE DEF new, next
    <2> QED BY <1>2, <1>3, <1>7, <2>2, <2>3, ShownStep
  <1>11. CASE ~Edited(answer) /\ ~Degraded(d, "edit", answer) /\ answer # "lost"
    <2>1. Fail(d, "edit") /\ UNCHANGED <<chat, sent, done>>
      BY <1>1, <1>2, <1>11 DEF Edited
    <2> QED BY <1>1, <1>2, <2>1, FailSends
  <1> QED BY <1>8, <1>9, <1>10, <1>11

\* The process dies: nothing is claimed any more of what was under way.
LEMMA CrashSends ==
  ASSUME SendInv, SendCrash
  PROVE  SendInv'
  <1>1. /\ DOMAIN jobs' = DOMAIN Orders /\ DOMAIN jobs = DOMAIN Orders
        /\ \A d \in DOMAIN Orders :
             jobs'[d] = IF jobs[d].at \in {"absent", "success", "failed", "dead"} THEN jobs[d]
                        ELSE [Idle EXCEPT !.tries = jobs[d].tries]
    BY DEF SendCrash, SendInv, JobsFit
  <1>2. /\ sent' = sent /\ done' = done /\ chat' = chat /\ lost' = lost + 1 /\ lost \in Nat
    BY DEF SendCrash, SendInv
  <1>3. \A d \in DOMAIN Orders : JobFits(jobs'[d]) /\ (jobs'[d].at = "new" \/ jobs'[d] = jobs[d])
    <2> TAKE d \in DOMAIN Orders
    <2>1. JobFits(jobs[d])
      BY JobOf
    <2>2. JobFits([Idle EXCEPT !.tries = jobs[d].tries]) /\ [Idle EXCEPT !.tries = jobs[d].tries].at = "new"
      BY IdleFits
    <2> QED BY <1>1, <2>1, <2>2
  <1>4. lost' \in Nat /\ lost' # 0
    BY <1>2
  <1>5. ASSUME NEW d \in DOMAIN Orders
        PROVE  Story(d)'
    <2>1. Story(d) /\ NothingOf(d)' = NothingOf(d)
      BY <1>2 DEF SendInv, NothingOf
    <2> QED BY <1>2, <1>3, <1>4, <1>5, <2>1 DEF Story, Out, Methods
  <1> QED BY <1>1, <1>2, <1>3, <1>4, <1>5 DEF SendInv, JobsFit

\* Each step of a delivery, and a crash.
LEMMA NextSends ==
  ASSUME SendInv, [SendNext]_sendVars
  PROVE  SendInv'
  <1>1. CASE UNCHANGED sendVars
    BY <1>1 DEF sendVars, SendInv, JobsFit, Story, NothingOf, Apart
  <1>2. CASE SendCrash
    BY <1>2, CrashSends
  <1>3. ASSUME NEW d \in DOMAIN Orders, Serve(d) PROVE SendInv'
    BY <1>3, BeginSends, EditSends, PutSends, AsideSends, DeleteSends, RetrySends, PostSends DEF Serve
  <1> QED BY <1>1, <1>2, <1>3 DEF SendNext

\* The inductive invariant of the Telegram sends: every job fits, and where it stands
\* fits what of it is out.
THEOREM SendsFit == SendSpec => []SendInv
  BY InitSends, NextSends, PTL DEF SendSpec

\* Each refusal takes something out of the request, however the answers fall:
\* callDegrading asks for one method three times at most.
THEOREM RefusalsAreFew == SendSpec => []RefusalsEnd
  <1>1. SendInv => RefusalsEnd
    BY DEF SendInv, JobsFit, JobFits, RefusalsEnd
  <1> QED BY <1>1, SendsFit, PTL

\* What is apart is there once, and beside no rich message.
LEMMA ApartOnce ==
  ASSUME SendInv, NEW d \in DOMAIN Orders, Apart(d)
  PROVE  /\ \A part \in {"rich", "media", "text"} : Count(d, part) <= 1
         /\ Count(d, "rich") = 1 => Count(d, "media") + Count(d, "text") = 0
  <1> DEFINE S(part) == {i \in DOMAIN sent : sent[i] = [by |-> d, part |-> part]}
  <1>1. DOMAIN sent \subseteq Nat
    BY DEF SendInv
  <1>2. \A part : \A i, j \in S(part) : i = j
    <2> SUFFICES ASSUME NEW part, NEW i \in S(part), NEW j \in S(part), i < j PROVE FALSE
      BY <1>1
    <2> QED BY DEF Apart
  <1>3. \A part : S(part) = {} \/ \E i : S(part) = {i}
    BY <1>2
  <1>4. \A part : Cardinality(S(part)) \in {0, 1} /\ (Cardinality(S(part)) = 1 => S(part) # {})
    <2> TAKE part
    <2> HIDE DEF S
    <2>1. CASE S(part) = {}
      BY <2>1, FS_EmptySet
    <2>2. CASE \E i : S(part) = {i}
      <3>1. Cardinality(S(part)) = 1 /\ S(part) # {}
        BY <2>2, FS_Singleton
      <3> QED BY <3>1
    <2> QED BY <1>3, <2>1, <2>2
  <1>5. S("rich") # {} => S("media") = {} /\ S("text") = {}
    <2> SUFFICES ASSUME NEW i \in S("rich"), NEW part \in {"media", "text"}, NEW j \in S(part) PROVE FALSE
      OBVIOUS
    <2>1. sent[i].part = "rich" /\ sent[j].part = part /\ sent[i].by = d /\ sent[j].by = d
      OBVIOUS
    <2>2. i # j
      BY <2>1
    <2>3. i < j \/ j < i
      BY <1>1, <2>2
    <2> QED BY <2>1, <2>3 DEF Apart
  <1>6. Cardinality({}) = 0
    BY FS_EmptySet
  <1> QED BY <1>4, <1>5, <1>6 DEF Count

\* Only the message itself fails a delivery, so that a retry never sends it
\* twice: for every order, every mix of refusals, outages, crashes and of two
\* deliveries with one ref.
THEOREM SentByOneTry == SendSpec => []SentOnce
  <1>1. ASSUME SendInv PROVE SentOnce
    <2> SUFFICES ASSUME NEW d \in DOMAIN Orders
                 PROVE  /\ jobs[d].at = "success" /\ Orders[d].send => d \in done
                        /\ lost = 0 => /\ \A part \in {"rich", "media", "text"} : Count(d, part) <= 1
                                       /\ Count(d, "rich") = 1 => Count(d, "media") + Count(d, "text") = 0
                                       /\ jobs[d].at \in {"failed", "dead"} => d \notin done
      BY DEF SentOnce
    <2>1. Story(d)
      BY <1>1 DEF SendInv
    <2>2. lost = 0 => Apart(d)
      BY <2>1 DEF Story
    <2>3. lost = 0 => /\ \A part \in {"rich", "media", "text"} : Count(d, part) <= 1
                      /\ Count(d, "rich") = 1 => Count(d, "media") + Count(d, "text") = 0
      BY <1>1, <2>2, ApartOnce
    <2> QED BY <2>1, <2>3 DEF Story, Out, Unsent
  <1> QED BY <1>1, SendsFit, PTL

-----------------------------------------------------------------------------
(* ApplePush: a page and the phones that show it.                          *)

\* Until a try is over, what its targets have shown is what it counts.
PageInv(d) ==
  /\ DOMAIN sending[d] = {"at", "attempt", "jwt", "n", "sent", "tries"}
  /\ sending[d].at \in {"no", "ask", "asked", "sent"} /\ sending[d].n \in Nat /\ sending[d].sent \in Nat
  /\ sending[d].at = "asked" => sending[d].n \in DOMAIN Pages[d]
  /\ DOMAIN shown[d] = DOMAIN Pages[d] /\ \A m \in DOMAIN Pages[d] : shown[d][m] \in Nat
  /\ sending[d].at = "sent" => sending[d].sent > 0
  /\ sending[d].at # "no" /\ sending[d].sent > 0 => \E m \in DOMAIN Pages[d] : shown[d][m] > 0
  /\ d \notin unclear =>
       \A m \in DOMAIN Pages[d] :
         /\ shown[d][m] <= 1
         /\ sending[d].at = "no" \/ sending[d].sent = 0 => shown[d][m] = 0
         /\ sending[d].at \in {"ask", "asked"} /\ m >= sending[d].n => shown[d][m] = 0

PushInv == /\ DOMAIN sending = DOMAIN Pages /\ DOMAIN shown = DOMAIN Pages
           /\ \A d \in DOMAIN Pages : PageInv(d)

\* The targets are numbered.
LEMMA TargetsNumbered == \A d \in DOMAIN Pages : DOMAIN Pages[d] \subseteq Int
  BY PushAssumption

\* Before the first page.
LEMMA InitPushes == PushInit => PushInv
  BY DEF PushInit, PushInv, PageInv, Resting

\* A delivery moves on, and no phone shows anything of it.
LEMMA PageMoves ==
  ASSUME PushInv, NEW d \in DOMAIN Pages, NEW job, sending' = [sending EXCEPT ![d] = job],
         shown' = shown, unclear \subseteq unclear', unclear' \subseteq unclear \cup {d}, PageInv(d)'
  PROVE  PushInv'
  <1>1. \A e \in DOMAIN Pages : e # d => PageInv(e)'
    BY DEF PushInv, PageInv
  <1> QED BY <1>1 DEF PushInv

\* A try begins: the last one showed nothing, or is unclear.
LEMMA TakeUpPushes ==
  ASSUME PushInv, NEW d \in DOMAIN Pages, TakeUp(d)
  PROVE  PushInv'
  <1> DEFINE job == [Resting EXCEPT !.at = "ask", !.tries = sending[d].tries + 1]
  <1>1. sending' = [sending EXCEPT ![d] = job] /\ shown' = shown /\ unclear' = unclear /\ sending[d].at = "no"
    BY DEF TakeUp
  <1>2. PageInv(d)
    BY DEF PushInv
  <1>3. sending'[d] = job
    BY <1>1 DEF PushInv
  <1>4. DOMAIN job = {"at", "attempt", "jwt", "n", "sent", "tries"} /\ job.at = "ask" /\ job.n = 1 /\ job.sent = 0
    BY DEF Resting
  <1> HIDE DEF job
  <1>5. PageInv(d)'
    BY <1>1, <1>2, <1>3, <1>4 DEF PageInv
  <1> QED BY <1>1, <1>5, PageMoves

\* A request goes out, or a target that is astray is passed over.
LEMMA RequestPushes ==
  ASSUME PushInv, NEW d \in DOMAIN Pages, RequestAlert(d)
  PROVE  PushInv'
  <1> DEFINE old == sending[d]
  <1>1. PICK job : /\ sending' = [sending EXCEPT ![d] = job]
                   /\ (job = NextTarget(old, 0) \/ job = Signed("alerts", old))
    BY DEF RequestAlert
  <1>2. shown' = shown /\ unclear' = unclear /\ old.at = "ask" /\ old.n \in DOMAIN Pages[d]
    BY DEF RequestAlert
  <1>3. PageInv(d)
    BY DEF PushInv
  <1>4. sending'[d] = job
    BY <1>1 DEF PushInv
  <1>5. /\ DOMAIN job = {"at", "attempt", "jwt", "n", "sent", "tries"} /\ job.sent = old.sent
        /\ \/ job.at = "ask" /\ job.n = old.n + 1
           \/ job.at = "asked" /\ job.n = old.n
    <2>1. /\ DOMAIN old = {"at", "attempt", "jwt", "n", "sent", "tries"} /\ old.n \in Nat /\ old.sent \in Nat
      BY <1>3 DEF PageInv
    <2> HIDE DEF old
    <2>2. CASE job = NextTarget(old, 0)
      BY <2>1, <2>2 DEF NextTarget
    <2>3. CASE job = Signed("alerts", old)
      <3>1. job = [old EXCEPT !.at = "asked", !.jwt = ProviderToken("alerts", old.attempt > 0)]
        BY <2>3 DEF Signed
      <3> QED BY <2>1, <3>1, <1>2
    <2> QED BY <1>1, <2>2, <2>3
  <1>6. PageInv(d)'
    BY <1>2, <1>3, <1>4, <1>5, TargetsNumbered DEF PageInv
  <1> QED BY <1>1, <1>2, <1>6, PageMoves

\* All targets are through.
LEMMA SettlePushes ==
  ASSUME PushInv, NEW d \in DOMAIN Pages, SettlePage(d)
  PROVE  PushInv'
  <1> DEFINE old == sending[d]
             job == [old EXCEPT !.at = IF Succeeds(old) THEN "sent" ELSE "no"]
  <1>1. /\ sending' = [sending EXCEPT ![d] = job] /\ shown' = shown /\ unclear' = unclear /\ old.at = "ask"
    BY DEF SettlePage
  <1>2. PageInv(d)
    BY DEF PushInv
  <1>3. sending'[d] = job
    BY <1>1 DEF PushInv
  <1>4. /\ DOMAIN job = {"at", "attempt", "jwt", "n", "sent", "tries"} /\ job.sent = old.sent /\ job.n = old.n
        /\ IF old.sent > 0 THEN job.at = "sent" ELSE job.at = "no"
    BY <1>2 DEF Succeeds, PageInv
  <1> HIDE DEF job
  <1>5. PageInv(d)'
    BY <1>1, <1>2, <1>3, <1>4 DEF PageInv
  <1> QED BY <1>1, <1>5, PageMoves

\* An answer: Apple shows the alert before the sender hears that it did.
LEMMA HearPushes ==
  ASSUME PushInv, NEW d \in DOMAIN Pages, HearAlert(d)
  PROVE  PushInv'
  <1> DEFINE old == sending[d]
             to  == Pages[d][old.n]
  <1>1. PICK heard \in {"ok", "gone", "refused", "failed", "lost"} :
          /\ Hears(to, old.jwt, heard)
          /\ sending' = [sending EXCEPT ![d] = IF AsksAnew(old, heard) THEN Anew(old)
                                               ELSE NextTarget(old, IF heard = "ok" THEN 1 ELSE 0)]
          /\ shown' = IF Displays(to, old.jwt, heard) THEN [shown EXCEPT ![d][old.n] = @ + 1] ELSE shown
          /\ unclear' = IF heard = "lost" THEN unclear \cup {d} ELSE unclear
    BY DEF HearAlert
  <1> DEFINE job == IF AsksAnew(old, heard) THEN Anew(old)
                    ELSE NextTarget(old, IF heard = "ok" THEN 1 ELSE 0)
  <1>2. PageInv(d) /\ old.at = "asked" /\ old.n \in DOMAIN Pages[d] /\ old.n \in Nat
    BY DEF PushInv, HearAlert, PageInv
  <1>3. sending' = [sending EXCEPT ![d] = job] /\ sending'[d] = job
    BY <1>1 DEF PushInv
  <1>4. heard = "ok" => Displays(to, old.jwt, heard)
    BY <1>1 DEF Hears, Displays
  <1>5. Displays(to, old.jwt, heard) => heard \in {"ok", "lost"}
    BY DEF Displays
  <1>6. /\ DOMAIN job = {"at", "attempt", "jwt", "n", "sent", "tries"} /\ job.at = "ask"
        /\ IF heard = "ok" THEN job.n = old.n + 1 /\ job.sent = old.sent + 1
                           ELSE job.n \in {old.n, old.n + 1} /\ job.sent = old.sent
    BY <1>2 DEF AsksAnew, Anew, NextTarget, PageInv
  <1> HIDE DEF job
  <1>7. CASE Displays(to, old.jwt, heard)
    <2>1. /\ DOMAIN shown' = DOMAIN Pages /\ \A e \in DOMAIN Pages : e # d => shown'[e] = shown[e]
          /\ DOMAIN shown'[d] = DOMAIN Pages[d] /\ shown'[d][old.n] = shown[d][old.n] + 1
          /\ \A m \in DOMAIN Pages[d] : m # old.n => shown'[d][m] = shown[d][m]
      BY <1>1, <1>2, <1>7 DEF PushInv, PageInv
    <2>2. \A m \in DOMAIN Pages[d] : shown'[d][m] \in Nat
      BY <1>2, <2>1 DEF PageInv
    <2>3. shown'[d][old.n] > 0
      BY <1>2, <2>1 DEF PageInv
    <2>4. ASSUME d \notin unclear'
          PROVE  /\ heard = "ok" /\ job.n = old.n + 1 /\ job.sent > 0
                 /\ \A m \in DOMAIN Pages[d] : shown'[d][m] <= 1 /\ (m >= job.n => shown'[d][m] = 0)
      <3>1. heard = "ok" /\ d \notin unclear
        BY <1>1, <1>5, <1>7, <2>4
      <3>2. shown[d][old.n] = 0
        BY <1>2, <3>1, TargetsNumbered DEF PageInv
      <3>3. job.n = old.n + 1 /\ job.sent > 0
        BY <1>2, <1>6, <3>1 DEF PageInv
      <3>4. \A m \in DOMAIN Pages[d] : shown[d][m] <= 1 /\ (m >= old.n => shown[d][m] = 0)
        BY <1>2, <3>1 DEF PageInv
      <3>5. \A m \in DOMAIN Pages[d] : shown'[d][m] <= 1 /\ (m >= job.n => shown'[d][m] = 0)
        BY <1>2, <2>1, <3>2, <3>3, <3>4, TargetsNumbered
      <3> QED BY <3>1, <3>3, <3>5
    <2>5. job.n \in Nat /\ job.sent \in Nat
      BY <1>2, <1>6 DEF PageInv
    <2>6. PageInv(d)'
      BY <1>2, <1>3, <1>6, <2>1, <2>2, <2>3, <2>4, <2>5 DEF PageInv
    <2>7. ASSUME NEW e \in DOMAIN Pages, e # d PROVE PageInv(e)'
      <3>1. sending'[e] = sending[e] /\ shown'[e] = shown[e] /\ (e \in unclear' <=> e \in unclear) /\ PageInv(e)
        BY <1>1, <1>3, <2>1, <2>7 DEF PushInv
      <3> QED BY <3>1 DEF PageInv
    <2>8. DOMAIN sending' = DOMAIN Pages
      BY <1>3 DEF PushInv
    <2> QED BY <2>1, <2>6, <2>7, <2>8 DEF PushInv
  <1>8. CASE ~Displays(to, old.jwt, heard)
    <2>1. shown' = shown /\ heard # "ok" /\ job.n \in Nat /\ job.n >= old.n /\ job.sent = old.sent
      BY <1>1, <1>2, <1>4, <1>6, <1>8
    <2>2. unclear \subseteq unclear' /\ unclear' \subseteq unclear \cup {d}
      BY <1>1
    <2>3. PageInv(d)'
      BY <1>2, <1>3, <1>6, <2>1, <2>2, TargetsNumbered DEF PageInv
    <2> QED BY <1>3, <2>1, <2>2, <2>3, PageMoves
  <1> QED BY <1>7, <1>8

\* The process dies: what was under way is unclear from then on.
LEMMA CrashPushes ==
  ASSUME PushInv, PushCrash
  PROVE  PushInv'
  <1>1. /\ shown' = shown /\ DOMAIN sending' = DOMAIN Pages
        /\ \A d \in DOMAIN Pages :
             sending'[d] = IF sending[d].at \in {"ask", "asked"}
                           THEN [Resting EXCEPT !.tries = sending[d].tries - 1] ELSE sending[d]
        /\ unclear' = unclear \cup {d \in DOMAIN Pages : sending[d].at \in {"ask", "asked"}}
    BY DEF PushCrash
  <1>2. ASSUME NEW d \in DOMAIN Pages PROVE PageInv(d)'
    <2>1. PageInv(d)
      BY DEF PushInv
    <2>2. CASE sending[d].at \in {"ask", "asked"}
      <3> DEFINE job == [Resting EXCEPT !.tries = sending[d].tries - 1]
      <3>1. sending'[d] = job /\ d \in unclear'
        BY <1>1, <2>2
      <3>2. DOMAIN job = {"at", "attempt", "jwt", "n", "sent", "tries"} /\ job.at = "no" /\ job.n = 1 /\ job.sent = 0
        BY DEF Resting
      <3> HIDE DEF job
      <3> QED BY <1>1, <2>1, <3>1, <3>2 DEF PageInv
    <2>3. CASE sending[d].at \notin {"ask", "asked"}
      <3>1. sending'[d] = sending[d] /\ (d \in unclear' <=> d \in unclear)
        BY <1>1, <2>3
      <3> QED BY <1>1, <2>1, <3>1 DEF PageInv
    <2> QED BY <2>2, <2>3
  <1> QED BY <1>1, <1>2 DEF PushInv

\* Each step of a page, a call or a phone.
LEMMA NextPushes ==
  ASSUME PushInv, [PushNext]_pushVars
  PROVE  PushInv'
  <1>1. CASE sending' = sending /\ shown' = shown /\ unclear' = unclear
    BY <1>1 DEF PushInv, PageInv
  <1>2. CASE UNCHANGED pushVars
    BY <1>1, <1>2 DEF pushVars
  <1>3. CASE AlertNext
    <2>1. CASE Later \/ \E p \in Iphones : Reissue(p)
      BY <1>1, <2>1 DEF Later, Reissue
    <2> QED BY <1>3, <2>1, TakeUpPushes, RequestPushes, HearPushes, SettlePushes, CrashPushes DEF AlertNext
  <1>4. CASE RingNext
    <2>1. CASE \/ RequestRing \/ HearRing \/ ClearToken \/ Later
               \/ \E p \in Iphones : Invite(p) \/ Tell(p) \/ Reissue(p)
      BY <1>1, <2>1 DEF RequestRing, HearRing, ClearToken, Later, Invite, Tell, Reissue
    <2> QED BY <1>4, <2>1, CrashPushes DEF RingNext
  <1> QED BY <1>2, <1>3, <1>4 DEF PushNext

\* A page counts as sent when a phone showed it, one that was given up was
\* shown to nobody, and without a lost answer nobody sees one twice: for any
\* number of deliveries, targets and tries, whatever becomes of the tokens.
THEOREM PagesAreShown == PushSpec => []ShownOnce
  <1>1. PushInv => ShownOnce
    BY DEF PushInv, PageInv, ShownOnce, Dead
  <1> QED BY <1>1, InitPushes, NextPushes, PTL DEF PushSpec

-----------------------------------------------------------------------------
(* TelegramCallbacks: a press and the goroutine that acts on it.           *)

\* A poller has taken up all that its offset is past.
PollersFit ==
  /\ pollers = [p \in DOMAIN pollers |-> pollers[p]]
  /\ \A p \in DOMAIN pollers :
       /\ DOMAIN pollers[p] = {"offset", "cancelled"} /\ pollers[p].offset \in Nat
       /\ 1..(pollers[p].offset - 1) \subseteq taken

\* A goroutine has a press of its own, which it has not acted on yet.
HandsFit ==
  /\ \A h \in hands : /\ DOMAIN h = {"poller", "press", "at"} /\ h.press \in DOMAIN presses
                      /\ h.at = "mark" => presses[h.press].button \in worked
  /\ misses = 0 /\ overlaps = 0 =>
       \A h \in hands : /\ h.press \in taken
                        /\ h.at # "mark" => acted[h.press] = 0
                        /\ \A g \in hands : g.press = h.press => g = h

\* Without a crash, a failed confirmation or two pollers at once, what has been
\* taken up is not asked for again.
TakenFit ==
  misses = 0 /\ overlaps = 0 =>
    /\ \A p, q \in DOMAIN pollers : p = q
    /\ \A u \in taken : u <= confirmed \/ \E p \in DOMAIN pollers : u < pollers[p].offset
    /\ \A u \in 1..MaxPresses : acted[u] <= 1 /\ (u \notin taken => acted[u] = 0)

CallbackInv ==
  /\ presses \in Seq([button : Buttons, seen : SUBSET worked]) /\ Len(presses) <= MaxPresses
  /\ acted \in [1..MaxPresses -> Nat] /\ {confirmed, misses, overlaps} \subseteq Nat /\ taken \subseteq Nat
  /\ marked \subseteq worked /\ 1..confirmed \subseteq taken
  /\ PollersFit /\ HandsFit /\ TakenFit

\* Before the first press.
LEMMA InitCallbacks == CallbackInit => CallbackInv
  <1> SUFFICES ASSUME CallbackInit PROVE CallbackInv
    OBVIOUS
  <1>1. /\ presses = <<>> /\ hands = {} /\ taken = {} /\ confirmed = 0 /\ misses = 0 /\ overlaps = 0
        /\ marked = {} /\ worked = {} /\ acted = [u \in 1..MaxPresses |-> 0]
        /\ pollers = [p \in {} |-> 0] /\ DOMAIN pollers = {}
    BY DEF CallbackInit
  <1>2. PollersFit /\ HandsFit /\ TakenFit
    BY <1>1 DEF PollersFit, HandsFit, TakenFit
  <1>3. MaxPresses \in Nat
    BY CallbackAssumption
  <1> QED BY <1>1, <1>2, <1>3 DEF CallbackInv

\* A press is one more.
LEMMA PressKeeps ==
  ASSUME CallbackInv, NEW b \in Buttons, Press(b)
  PROVE  CallbackInv'
  <1>1. /\ presses' = Append(presses, [button |-> b, seen |-> marked]) /\ Len(presses) < MaxPresses
        /\ UNCHANGED <<marked, worked, confirmed, pollers, hands, acted, taken, misses, overlaps>>
    BY DEF Press
  <1>2. presses \in Seq([button : Buttons, seen : SUBSET worked]) /\ marked \subseteq worked
    BY DEF CallbackInv
  <1>3. /\ presses' \in Seq([button : Buttons, seen : SUBSET worked]) /\ Len(presses') <= MaxPresses
        /\ \A u \in DOMAIN presses : u \in DOMAIN presses' /\ presses'[u] = presses[u]
    BY <1>1, <1>2, CallbackAssumption
  <1>4. PollersFit' /\ TakenFit'
    BY <1>1 DEF CallbackInv, PollersFit, TakenFit
  <1>5. HandsFit'
    BY <1>1, <1>3 DEF CallbackInv, HandsFit
  <1> QED BY <1>1, <1>3, <1>4, <1>5 DEF CallbackInv

\* Pollers that are only cancelled are as before.
LEMMA CancelKeeps ==
  ASSUME CallbackInv, UNCHANGED <<messageVars, confirmed, hands, acted, taken, misses, overlaps>>,
         DOMAIN pollers' = DOMAIN pollers, pollers' = [p \in DOMAIN pollers' |-> pollers'[p]],
         \A p \in DOMAIN pollers : DOMAIN pollers'[p] = DOMAIN pollers[p] /\ pollers'[p].offset = pollers[p].offset
  PROVE  CallbackInv'
  <1>1. UNCHANGED <<presses, marked, worked>>
    BY DEF messageVars
  <1>2. PollersFit'
    BY DEF CallbackInv, PollersFit
  <1>3. TakenFit'
    BY DEF CallbackInv, TakenFit
  <1>4. HandsFit'
    BY <1>1 DEF CallbackInv, HandsFit
  <1> QED BY <1>1, <1>2, <1>3, <1>4 DEF CallbackInv

\* After a crash there are no goroutines and no pollers.
LEMMA CrashKeepsPresses ==
  ASSUME CallbackInv, CallbackCrash
  PROVE  CallbackInv'
  <1>1. /\ misses' = misses + 1 /\ pollers' = [p \in {} |-> 0] /\ DOMAIN pollers' = {} /\ hands' = {}
        /\ UNCHANGED <<presses, marked, worked, confirmed, acted, taken, overlaps>>
    BY DEF CallbackCrash, messageVars
  <1>2. misses' \in Nat /\ misses' # 0
    BY <1>1 DEF CallbackInv
  <1>3. PollersFit' /\ HandsFit' /\ TakenFit'
    BY <1>1, <1>2 DEF PollersFit, HandsFit, TakenFit
  <1> QED BY <1>1, <1>2, <1>3 DEF CallbackInv

\* A poller starts: alone, or beside another.
LEMMA RescanKeeps ==
  ASSUME CallbackInv, Rescan
  PROVE  CallbackInv'
  <1>1. CASE ~wanted /\ current # 0 /\ pollers' = Cancelled(current) /\ overlaps' = overlaps
    <2>1. UNCHANGED <<messageVars, confirmed, hands, acted, taken, misses, overlaps>>
      BY <1>1 DEF Rescan
    <2>2. /\ DOMAIN pollers' = DOMAIN pollers /\ pollers' = [p \in DOMAIN pollers' |-> pollers'[p]]
          /\ \A p \in DOMAIN pollers : DOMAIN pollers'[p] = DOMAIN pollers[p] /\ pollers'[p].offset = pollers[p].offset
      BY <1>1 DEF Cancelled, CallbackInv, PollersFit
    <2> QED BY <2>1, <2>2, CancelKeeps
  <1>2. CASE /\ pollers' = [p \in DOMAIN pollers \cup {started + 1} |->
                               IF p = started + 1 THEN [offset |-> 0, cancelled |-> FALSE] ELSE pollers[p]]
             /\ overlaps' = overlaps + (IF pollers = [p \in {} |-> 0] THEN 0 ELSE 1)
    <2>1. UNCHANGED <<presses, marked, worked, confirmed, hands, acted, taken, misses>>
      BY <1>2 DEF Rescan, messageVars
    <2>2. overlaps \in Nat /\ overlaps' \in Nat /\ (overlaps' = 0 => overlaps = 0 /\ pollers = [p \in {} |-> 0])
      BY <1>2 DEF CallbackInv
    <2>3. PollersFit'
      BY <1>2, <2>1 DEF CallbackInv, PollersFit
    <2>4. overlaps' = 0 => DOMAIN pollers = {}
      BY <2>2
    <2>5. TakenFit'
      BY <1>2, <2>1, <2>2, <2>4 DEF CallbackInv, TakenFit
    <2>6. HandsFit'
      BY <2>1, <2>2 DEF CallbackInv, HandsFit
    <2> QED BY <2>1, <2>2, <2>3, <2>5, <2>6 DEF CallbackInv
  <1> QED BY <1>1, <1>2 DEF Rescan

\* The process is told to stop.
LEMMA StopKeeps ==
  ASSUME CallbackInv, Stop
  PROVE  CallbackInv'
  <1>1. /\ UNCHANGED <<messageVars, confirmed, hands, acted, taken, misses, overlaps>>
        /\ pollers' = [p \in DOMAIN pollers |-> [pollers[p] EXCEPT !.cancelled = TRUE]]
    BY DEF Stop
  <1>2. /\ DOMAIN pollers' = DOMAIN pollers /\ pollers' = [p \in DOMAIN pollers' |-> pollers'[p]]
        /\ \A p \in DOMAIN pollers : DOMAIN pollers'[p] = DOMAIN pollers[p] /\ pollers'[p].offset = pollers[p].offset
    BY <1>1 DEF CallbackInv, PollersFit
  <1> QED BY <1>1, <1>2, CancelKeeps

\* An answer of Telegram: all that is in it is new.
LEMMA GetKeeps ==
  ASSUME CallbackInv, NEW p \in DOMAIN pollers, GetUpdates(p)
  PROVE  CallbackInv'
  <1> DEFINE ask  == Max2(confirmed, pollers[p].offset - 1)
             last == IF ask + MaxHeard < Len(presses) THEN ask + MaxHeard ELSE Len(presses)
             got  == (ask + 1)..last
             new  == {[poller |-> p, press |-> u, at |-> "resolve"] : u \in got}
  <1>1. /\ confirmed' = ask /\ UNCHANGED <<presses, marked, worked, acted, misses, overlaps>>
        /\ \/ /\ got # {}
              /\ pollers' = [pollers EXCEPT ![p].offset = Max2(@, NextOffset(last))]
              /\ hands' = hands \cup new /\ taken' = taken \cup got
           \/ UNCHANGED <<pollers, hands, taken>>
    BY DEF GetUpdates, messageVars
  <1>2. /\ confirmed \in Nat /\ pollers[p].offset \in Nat /\ DOMAIN pollers[p] = {"offset", "cancelled"}
        /\ 1..confirmed \subseteq taken /\ 1..(pollers[p].offset - 1) \subseteq taken
        /\ pollers = [q \in DOMAIN pollers |-> pollers[q]]
    BY DEF CallbackInv, PollersFit
  <1>3. ask \in Nat /\ ask >= confirmed /\ ask >= pollers[p].offset - 1 /\ 1..ask \subseteq taken
    BY <1>2 DEF Max2
  <1>4. Len(presses) \in Nat /\ DOMAIN presses = 1..Len(presses)
        /\ Len(presses) <= MaxPresses /\ MaxPresses \in Nat /\ MaxHeard \in Nat
    BY CallbackAssumption DEF CallbackInv
  <1>5. last \in Nat /\ last <= Len(presses)
    BY <1>3, <1>4
  <1> HIDE DEF ask
  <1>6. got \subseteq DOMAIN presses /\ got \subseteq 1..MaxPresses /\ \A u \in got : u > ask /\ u <= last /\ u \in Nat
    BY <1>3, <1>4, <1>5
  <1> HIDE DEF last
  <1>7. /\ 1..confirmed' \subseteq taken' /\ confirmed' \in Nat /\ taken' \subseteq Nat
    BY <1>1, <1>3, <1>6 DEF CallbackInv
  <1>8. misses = 0 /\ overlaps = 0 => \A u \in taken : u <= ask
    <2> SUFFICES ASSUME misses = 0, overlaps = 0, NEW u \in taken PROVE u <= ask
      OBVIOUS
    <2>1. u \in Nat /\ (u <= confirmed \/ u < pollers[p].offset)
      BY DEF CallbackInv, TakenFit
    <2> QED BY <1>2, <1>3, <2>1
  <1>9. CASE UNCHANGED <<pollers, hands, taken>>
    <2>1. PollersFit'
      BY <1>9 DEF CallbackInv, PollersFit
    <2>2. HandsFit'
      BY <1>1, <1>9 DEF CallbackInv, HandsFit
    <2>3. TakenFit'
      <3> SUFFICES ASSUME misses = 0, overlaps = 0, NEW u \in taken PROVE u <= confirmed'
        BY <1>1, <1>9 DEF CallbackInv, TakenFit
      <3> QED BY <1>1, <1>8
    <2> QED BY <1>1, <1>7, <2>1, <2>2, <2>3 DEF CallbackInv
  <1>10. CASE /\ got # {} /\ pollers' = [pollers EXCEPT ![p].offset = Max2(@, NextOffset(last))]
              /\ hands' = hands \cup new /\ taken' = taken \cup got
    <2> DEFINE offset == Max2(pollers[p].offset, last + 1)
    <2>1. /\ DOMAIN pollers' = DOMAIN pollers /\ pollers'[p].offset = offset
          /\ DOMAIN pollers'[p] = {"offset", "cancelled"}
          /\ \A q \in DOMAIN pollers : q # p => pollers'[q] = pollers[q]
          /\ pollers' = [q \in DOMAIN pollers' |-> pollers'[q]]
      BY <1>2, <1>10 DEF NextOffset
    <2>2. offset \in Nat /\ offset >= last + 1 /\ offset >= pollers[p].offset
          /\ (offset = last + 1 \/ offset = pollers[p].offset)
      BY <1>2, <1>5 DEF Max2
    <2> HIDE DEF offset
    <2>3. 1..last \subseteq taken'
      <3> SUFFICES ASSUME NEW u \in 1..last, u \notin got PROVE u \in taken
        BY <1>10
      <3>1. u \in 1..ask
        BY <1>3, <1>5
      <3> QED BY <1>3, <3>1
    <2>4. 1..(offset - 1) \subseteq taken'
      BY <1>2, <1>5, <1>10, <2>2, <2>3
    <2>5. PollersFit'
      <3> SUFFICES ASSUME NEW q \in DOMAIN pollers
                   PROVE  /\ DOMAIN pollers'[q] = {"offset", "cancelled"} /\ pollers'[q].offset \in Nat
                          /\ 1..(pollers'[q].offset - 1) \subseteq taken'
        BY <2>1 DEF PollersFit
      <3>1. CASE q = p
        BY <2>1, <2>2, <2>4, <3>1
      <3>2. CASE q # p
        BY <1>10, <2>1, <3>2 DEF CallbackInv, PollersFit
      <3> QED BY <3>1, <3>2
    <2>6. \A h \in new : /\ DOMAIN h = {"poller", "press", "at"} /\ h.press \in got /\ h.at = "resolve"
                         /\ \A g \in new : g.press = h.press => g = h
      OBVIOUS
    <2> HIDE DEF new
    <2>7. HandsFit'
      <3>1. \A h \in hands' : /\ DOMAIN h = {"poller", "press", "at"} /\ h.press \in DOMAIN presses'
                              /\ h.at = "mark" => presses'[h.press].button \in worked'
        BY <1>1, <1>6, <1>10, <2>6 DEF CallbackInv, HandsFit
      <3>2. ASSUME misses = 0, overlaps = 0, NEW h \in hands', NEW g \in hands'
            PROVE  /\ h.press \in taken' /\ (h.at # "mark" => acted'[h.press] = 0)
                   /\ g.press = h.press => g = h
        <4>1. \A x \in hands : x.press \in taken /\ x.press <= ask /\ (x.at # "mark" => acted[x.press] = 0)
          BY <1>8, <3>2 DEF CallbackInv, HandsFit
        <4>2. \A x \in new : x.press \in got /\ x.press > ask /\ acted[x.press] = 0
          <5> SUFFICES ASSUME NEW x \in new PROVE x.press \in got /\ x.press > ask /\ acted[x.press] = 0
            OBVIOUS
          <5>1. x.press \in got /\ x.press > ask /\ x.press \in 1..MaxPresses /\ x.press \in Nat
            BY <1>6, <2>6
          <5>2. x.press \notin taken
            BY <1>3, <1>8, <3>2, <5>1
          <5> QED BY <3>2, <5>1, <5>2 DEF CallbackInv, TakenFit
        <4>3. h.press \in taken' /\ (h.at # "mark" => acted'[h.press] = 0)
          BY <1>1, <1>10, <4>1, <4>2
        <4>4. CASE h \in hands /\ g \in hands
          BY <3>2, <4>3, <4>4 DEF CallbackInv, HandsFit
        <4>5. CASE h \in new /\ g \in new
          BY <2>6, <4>3, <4>5
        <4>6. \A x \in hands, y \in new : x.press # y.press
          <5> SUFFICES ASSUME NEW x \in hands, NEW y \in new PROVE x.press # y.press
            OBVIOUS
          <5>1. x.press <= ask /\ y.press > ask /\ y.press \in Nat
            BY <1>6, <2>6, <4>1
          <5> QED BY <1>3, <5>1
        <4> QED BY <1>10, <4>3, <4>4, <4>5, <4>6
      <3> QED BY <1>1, <3>1, <3>2 DEF HandsFit
    <2>8. TakenFit'
      <3> SUFFICES ASSUME misses = 0, overlaps = 0
                   PROVE  /\ \A x, y \in DOMAIN pollers' : x = y
                          /\ \A u \in taken' : u <= confirmed' \/ \E q \in DOMAIN pollers' : u < pollers'[q].offset
                          /\ \A u \in 1..MaxPresses : acted'[u] <= 1 /\ (u \notin taken' => acted'[u] = 0)
        BY <1>1 DEF TakenFit
      <3>1. \A u \in got : u < offset
        BY <1>5, <1>6, <2>2
      <3> QED BY <1>1, <1>8, <1>10, <2>1, <3>1 DEF CallbackInv, TakenFit
    <2> QED BY <1>1, <1>7, <2>5, <2>7, <2>8 DEF CallbackInv
  <1> QED BY <1>1, <1>9, <1>10

\* A poller has returned: what it was past is confirmed, or a confirmation has failed.
LEMMA ReturnKeeps ==
  ASSUME CallbackInv, NEW p \in DOMAIN pollers, Return(p)
  PROVE  CallbackInv'
  <1> DEFINE q == pollers[p].offset
  <1>1. /\ pollers' = [x \in DOMAIN pollers \ {p} |-> pollers[x]] /\ DOMAIN pollers' = DOMAIN pollers \ {p}
        /\ UNCHANGED <<presses, marked, worked, hands, acted, taken, overlaps>> /\ Drain(p, q)
    BY DEF Return, messageVars
  <1>2. /\ confirmed \in Nat /\ q \in Nat /\ misses \in Nat /\ taken \subseteq Nat
        /\ 1..confirmed \subseteq taken /\ 1..(q - 1) \subseteq taken
    BY DEF CallbackInv, PollersFit
  <1> HIDE DEF q
  <1>3. /\ confirmed' \in Nat /\ 1..confirmed' \subseteq taken /\ misses' \in Nat
        /\ misses' = 0 => misses = 0 /\ confirmed' >= confirmed /\ confirmed' >= q - 1
    BY <1>1, <1>2 DEF Drain, Max2
  <1>4. PollersFit'
    BY <1>1 DEF CallbackInv, PollersFit
  <1>5. HandsFit'
    BY <1>1, <1>3 DEF CallbackInv, HandsFit
  <1>6. TakenFit'
    <2> SUFFICES ASSUME misses' = 0, overlaps' = 0
                 PROVE  /\ \A x, y \in DOMAIN pollers' : x = y
                        /\ \A u \in taken' : u <= confirmed' \/ \E x \in DOMAIN pollers' : u < pollers'[x].offset
                        /\ \A u \in 1..MaxPresses : acted'[u] <= 1 /\ (u \notin taken' => acted'[u] = 0)
      BY DEF TakenFit
    <2>1. misses = 0 /\ overlaps = 0
      BY <1>1, <1>3
    <2>2. /\ \A x, y \in DOMAIN pollers : x = y
          /\ \A u \in taken : u <= confirmed \/ u < q
          /\ \A u \in 1..MaxPresses : acted[u] <= 1 /\ (u \notin taken => acted[u] = 0)
      BY <2>1 DEF CallbackInv, TakenFit, q
    <2>3. \A u \in taken : u <= confirmed'
      BY <1>2, <1>3, <2>2
    <2> QED BY <1>1, <2>2, <2>3
  <1> QED BY <1>1, <1>2, <1>3, <1>4, <1>5, <1>6 DEF CallbackInv

\* What a sequence is of.
LEMMA SeqElement ==
  ASSUME NEW S, NEW s \in Seq(S), NEW i \in DOMAIN s
  PROVE  s[i] \in S
  OBVIOUS

\* A sequence over a set is one over a larger set.
LEMMA SeqWider ==
  ASSUME NEW S, NEW T, S \subseteq T, NEW s \in Seq(S)
  PROVE  s \in Seq(T)
  OBVIOUS

\* One more request of a press, or none.
LEMMA OneMore ==
  ASSUME NEW D, NEW f \in [D -> Nat], NEW g, NEW u \in D,
         g = f \/ g = [f EXCEPT ![u] = f[u] + 1]
  PROVE  /\ g \in [D -> Nat] /\ \A v \in D : v # u => g[v] = f[v]
         /\ g = f \/ g[u] = f[u] + 1
  OBVIOUS

\* A goroutine moves on: its request is made at most once, on its way to the mark or its end.
LEMMA HandMoves ==
  ASSUME CallbackInv, NEW h \in hands, NEW s,
         UNCHANGED <<presses, confirmed, pollers, taken, misses, overlaps>>,
         worked \subseteq worked', marked' \subseteq worked',
         \/ Ends(h) /\ acted' = acted
         \/ Ends(h) /\ h.at # "mark" /\ acted' = [acted EXCEPT ![h.press] = @ + 1]
         \/ /\ GoesTo(h, s) /\ h.at # "mark" /\ acted' = [acted EXCEPT ![h.press] = @ + 1]
            /\ s = "mark" /\ Shows(h) \in worked'
         \/ GoesTo(h, s) /\ h.at # "mark" /\ s # "mark" /\ acted' = acted
  PROVE  CallbackInv'
  <1> DEFINE g == [h EXCEPT !.at = s]
  <1>1. /\ DOMAIN h = {"poller", "press", "at"} /\ h.press \in DOMAIN presses
        /\ h.press \in 1..MaxPresses
    BY CallbackAssumption DEF CallbackInv, HandsFit
  <1>2. DOMAIN g = {"poller", "press", "at"} /\ g.press = h.press /\ g.at = s
    BY <1>1
  <1>3. \/ hands' = hands \ {h}
        \/ hands' = (hands \ {h}) \cup {g}
    BY DEF Ends, GoesTo
  <1>4. presses' \in Seq([button : Buttons, seen : SUBSET worked'])
    <2>1. presses \in Seq([button : Buttons, seen : SUBSET worked])
      BY DEF CallbackInv
    <2>2. [button : Buttons, seen : SUBSET worked] \subseteq [button : Buttons, seen : SUBSET worked']
      OBVIOUS
    <2> QED BY <2>1, <2>2, SeqWider
  <1>5. acted' \in [1..MaxPresses -> Nat] /\ \A u \in 1..MaxPresses : u # h.press => acted'[u] = acted[u]
    <2>1. acted' = acted \/ acted' = [acted EXCEPT ![h.press] = acted[h.press] + 1]
      OBVIOUS
    <2>2. acted \in [1..MaxPresses -> Nat]
      BY DEF CallbackInv
    <2> QED BY <1>1, <2>1, <2>2, OneMore
  <1>6. PollersFit'
    BY DEF CallbackInv, PollersFit
  <1>7. TakenFit'
    <2> SUFFICES ASSUME misses = 0, overlaps = 0
                 PROVE  \A u \in 1..MaxPresses : acted'[u] <= 1 /\ (u \notin taken => acted'[u] = 0)
      BY DEF CallbackInv, TakenFit
    <2>1. h.press \in taken /\ (h.at # "mark" => acted[h.press] = 0)
      BY DEF CallbackInv, HandsFit
    <2>2. \A u \in 1..MaxPresses : acted[u] <= 1 /\ (u \notin taken => acted[u] = 0)
      BY DEF CallbackInv, TakenFit
    <2>3. acted'[h.press] <= 1
      <3>1. \/ acted' = acted
            \/ h.at # "mark" /\ acted' = [acted EXCEPT ![h.press] = acted[h.press] + 1]
        OBVIOUS
      <3>2. acted \in [1..MaxPresses -> Nat] /\ acted[h.press] <= 1
        BY <1>1, <2>2 DEF CallbackInv
      <3>3. CASE acted' = acted
        BY <3>2, <3>3
      <3>4. CASE h.at # "mark" /\ acted' = [acted EXCEPT ![h.press] = acted[h.press] + 1]
        <4>1. acted'[h.press] = acted[h.press] + 1
          BY <1>1, <3>2, <3>4
        <4> QED BY <2>1, <3>4, <4>1
      <3> QED BY <3>1, <3>3, <3>4
    <2> QED BY <1>5, <2>1, <2>2, <2>3
  <1>8. HandsFit'
    <2>1. \A x \in hands : /\ DOMAIN x = {"poller", "press", "at"} /\ x.press \in DOMAIN presses
                           /\ x.at = "mark" => presses[x.press].button \in worked
      BY DEF CallbackInv, HandsFit
    <2>2. hands' = hands \ {h} \/ (s = "mark" => presses[h.press].button \in worked')
      BY DEF Shows, Ends
    <2> HIDE DEF g
    <2>3. \A x \in hands' : /\ DOMAIN x = {"poller", "press", "at"} /\ x.press \in DOMAIN presses'
                            /\ x.at = "mark" => presses'[x.press].button \in worked'
      BY <1>1, <1>2, <1>3, <2>1, <2>2
    <2>4. ASSUME misses = 0, overlaps = 0, NEW x \in hands', NEW y \in hands'
          PROVE  /\ x.press \in taken' /\ (x.at # "mark" => acted'[x.press] = 0)
                 /\ y.press = x.press => y = x
      <3>1. \A z \in hands : /\ z.press \in taken /\ (z.at # "mark" => acted[z.press] = 0)
                             /\ \A w \in hands : w.press = z.press => w = z
        BY <2>4 DEF CallbackInv, HandsFit
      <3>2. \A z \in hands \ {h} : z.press # h.press /\ z.press \in 1..MaxPresses
        BY <2>1, <3>1, CallbackAssumption DEF CallbackInv
      <3>3. y.press = x.press => y = x
        BY <1>2, <1>3, <3>1, <3>2
      <3>4. CASE x \in hands \ {h}
        BY <1>5, <3>1, <3>2, <3>3, <3>4
      <3>5. CASE x \notin hands \ {h}
        <4>1. GoesTo(h, s) /\ ~Ends(h) /\ x = g
          BY <1>3, <3>5 DEF Ends, GoesTo, g
        <4>2. x.press = h.press /\ x.at = s /\ x.press \in taken
          BY <1>2, <3>1, <4>1
        <4>3. s # "mark" => acted'[h.press] = 0
          BY <3>1, <4>1
        <4> QED BY <3>3, <4>2, <4>3
      <3> QED BY <3>4, <3>5
    <2> QED BY <2>3, <2>4 DEF HandsFit
  <1> QED BY <1>4, <1>5, <1>6, <1>7, <1>8 DEF CallbackInv

\* A goroutine on its way.
LEMMA HandleKeeps ==
  ASSUME CallbackInv, NEW h \in hands, Handle(h)
  PROVE  CallbackInv'
  <1>1. UNCHANGED <<presses, confirmed, pollers, taken, misses, overlaps>>
    BY DEF Handle
  <1>2. /\ marked \subseteq worked /\ h.press \in DOMAIN presses /\ presses[h.press].seen \subseteq worked
        /\ h.at = "mark" => Shows(h) \in worked
    <2>1. marked \subseteq worked /\ h.press \in DOMAIN presses /\ (h.at = "mark" => Shows(h) \in worked)
      BY DEF CallbackInv, HandsFit, Shows
    <2>2. presses \in Seq([button : Buttons, seen : SUBSET worked])
      BY DEF CallbackInv
    <2>3. presses[h.press] \in [button : Buttons, seen : SUBSET worked]
      BY <2>1, <2>2, SeqElement
    <2> QED BY <2>1, <2>3
  <1>3. CASE Resolve(h)
    <2>1. acted' = acted /\ worked' = worked /\ marked' = marked /\ h.at = "resolve"
          /\ (Ends(h) \/ GoesTo(h, "answer"))
      BY <1>3 DEF Resolve
    <2> QED BY <1>1, <1>2, <2>1, HandMoves
  <1>4. CASE AnswerPress(h)
    <2>1. acted' = acted /\ worked' = worked /\ marked' = marked /\ h.at = "answer"
          /\ (Ends(h) \/ GoesTo(h, "run"))
      BY <1>4 DEF AnswerPress
    <2> QED BY <1>1, <1>2, <2>1, HandMoves
  <1>5. CASE RunPress(h)
    <2>1. marked' = marked /\ h.at = "run" /\ worked \subseteq worked'
      BY <1>5 DEF RunPress
    <2>2. \/ Ends(h) /\ acted' = acted
          \/ Ends(h) /\ acted' = [acted EXCEPT ![h.press] = @ + 1]
          \/ /\ GoesTo(h, "mark") /\ acted' = [acted EXCEPT ![h.press] = @ + 1]
             /\ Shows(h) \in worked'
      BY <1>5 DEF RunPress
    <2>3. marked' \subseteq worked' /\ h.at # "mark"
      BY <1>2, <2>1
    <2> QED BY <1>1, <2>1, <2>2, <2>3, HandMoves
  <1>6. CASE MarkDone(h)
    <2>1. acted' = acted /\ worked' = worked /\ Ends(h) /\ marked' \subseteq worked'
      BY <1>2, <1>6 DEF MarkDone, Mark, Seen
    <2> QED BY <1>1, <2>1, HandMoves
  <1> QED BY <1>3, <1>4, <1>5, <1>6 DEF Handle

\* Each step of Run, a poller, a goroutine or Telegram.
LEMMA NextCallbacks ==
  ASSUME CallbackInv, [CallbackNext]_callbackVars
  PROVE  CallbackInv'
  <1>1. CASE UNCHANGED <<presses, marked, worked, confirmed, pollers, hands, acted, taken, misses, overlaps>>
    BY <1>1 DEF CallbackInv, PollersFit, HandsFit, TakenFit
  <1>2. CASE UNCHANGED callbackVars
    BY <1>1, <1>2 DEF callbackVars
  <1>3. CASE Reconfigure \/ Start
    BY <1>1, <1>3 DEF Reconfigure, Start, messageVars
  <1> QED BY <1>2, <1>3, CrashKeepsPresses, RescanKeeps, StopKeeps, PressKeeps, GetKeeps, ReturnKeeps,
             HandleKeeps DEF CallbackNext

\* A press is acted on once at most, unless the process dies, a confirmation
\* fails or two pollers overlap; none is confirmed that nothing has taken up;
\* and a button that shows as done has worked.
THEOREM PressesActOnce == CallbackSpec => []ActsOnce
  <1>1. CallbackInv => ActsOnce
    BY DEF CallbackInv, TakenFit, ActsOnce
  <1> QED BY <1>1, InitCallbacks, NextCallbacks, PTL DEF CallbackSpec
=============================================================================
