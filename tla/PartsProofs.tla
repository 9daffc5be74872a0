----------------------------- MODULE PartsProofs -----------------------------
(***************************************************************************)
(* Theorems about the parts that keep to themselves: the order of a start  *)
(* and a stop (Lifecycle), whose phone is whose (Phones), the cached       *)
(* signing keys (KeyCache), the log shipper (LogShip) and the tables of    *)
(* providers and routes (Settings).                                        *)
(***************************************************************************)
EXTENDS Lifecycle, Phones, KeyCache, LogShip, Settings, TLAPS

-----------------------------------------------------------------------------
(* Lifecycle: the order of a start and a stop.                             *)

Everything == Doors \cup Engines \cup {"plugins", "store", "logs"}

\* A start goes through Starts in order.
StartInv ==
  doing = "start" =>
    /\ hurried = {} /\ step \in 1..(Len(Starts) + 1)
    /\ \A i \in DOMAIN Starts : IF i < step THEN Starts[i] \subseteq on \cup absent
                                            ELSE Starts[i] \cap on = {}

\* A stop through Stops; a door that was not waited for may lag behind.
StopInv ==
  doing = "stop" =>
    /\ step \in 1..(Len(Stops) + 1)
    /\ \A part \in on \ hurried : \E i \in DOMAIN Stops : i >= step /\ part \in Stops[i]

LifeInv ==
  /\ on \subseteq Everything /\ absent \subseteq {"plugins", "phone", "voice"}
  /\ doing \in {"start", "serve", "stop"} /\ (doing = "serve" => hurried = {})
  /\ working \subseteq on \cup hurried
  /\ \A part \in on \ hurried : Needs[part] \subseteq on \cup absent
  /\ StartInv /\ StopInv

\* Where the steps of a stop are.
LEMMA StopSteps == StopStep("plugins") = 4 /\ StopStep("notifier") = 3
  BY DEF StopStep, Stops, Engines

\* Before the start.
LEMMA LifeStarts == LifeInit => LifeInv
  <1> SUFFICES ASSUME LifeInit PROVE LifeInv
    OBVIOUS
  <1>1. StartInv
    BY DEF LifeInit, StartInv, Starts
  <1>2. absent \subseteq {"plugins", "phone", "voice"}
    BY DEF LifeInit
  <1> QED BY <1>1, <1>2 DEF LifeInit, LifeInv, StopInv

\* The next parts are started, after what they need.
LEMMA StartPartKeeps ==
  ASSUME LifeInv, StartPart
  PROVE  LifeInv'
  <1> DEFINE new == Starts[step] \ absent
  <1>1. /\ doing = "start" /\ doing' = "start" /\ step \in 1..6 /\ step' = step + 1 /\ on' = on \cup new
        /\ absent' = absent /\ working' = working /\ hurried' = {} /\ hurried = {}
        /\ \A i \in 1..6 : IF i < step THEN Starts[i] \subseteq on \cup absent
                                       ELSE Starts[i] \cap on = {}
    BY DEF StartPart, LifeInv, StartInv, Starts
  <1>2. \A i, j \in 1..6 : i # j => Starts[i] \cap Starts[j] = {}
    BY DEF Starts, Doors
  <1>3. StartInv'
    <2>1. \A i \in 1..6 : IF i < step + 1 THEN Starts[i] \subseteq on' \cup absent
                                          ELSE Starts[i] \cap on' = {}
      <3> SUFFICES ASSUME NEW i \in 1..6
                   PROVE  IF i < step + 1 THEN Starts[i] \subseteq on' \cup absent
                                          ELSE Starts[i] \cap on' = {}
        OBVIOUS
      <3>1. CASE i < step
        BY <1>1, <3>1
      <3>2. CASE i = step
        BY <1>1, <3>2
      <3>3. CASE i > step
        BY <1>1, <1>2, <3>3
      <3> QED BY <1>1, <3>1, <3>2, <3>3
    <2> QED BY <1>1, <2>1 DEF StartInv, Starts
  <1>4. new \subseteq Everything
    BY <1>1 DEF Starts, Everything, Doors, Engines
  <1>5. \A part \in new : Needs[part] \subseteq on' \cup absent
    <2>1. CASE step = 1
      BY <1>1, <2>1 DEF Starts, Needs, Doors, Engines
    <2>2. CASE step = 2
      BY <1>1, <2>2 DEF Starts, Needs, Doors, Engines
    <2>3. CASE step = 3
      BY <1>1, <2>3 DEF Starts, Needs, Doors, Engines
    <2>4. CASE step = 4
      BY <1>1, <2>4 DEF Starts, Needs, Doors, Engines
    <2>5. CASE step = 5
      BY <1>1, <2>5 DEF Starts, Needs, Doors, Engines
    <2>6. CASE step = 6
      BY <1>1, <2>6 DEF Starts, Needs, Doors, Engines
    <2> QED BY <1>1, <2>1, <2>2, <2>3, <2>4, <2>5, <2>6
  <1>6. \A part \in on' \ hurried' : Needs[part] \subseteq on' \cup absent
    BY <1>1, <1>5 DEF LifeInv
  <1> HIDE DEF new
  <1> QED BY <1>1, <1>3, <1>4, <1>6 DEF LifeInv, StopInv

\* The next step of a stop: nothing that is on needs what it stops.
LEMMA StopPartKeeps ==
  ASSUME LifeInv, StopPart
  PROVE  LifeInv'
  <1> DEFINE gone == Stops[step]
  <1>1. /\ doing = "stop" /\ doing' = "stop" /\ step \in 1..6 /\ step' = step + 1 /\ on' = on \ gone
        /\ absent' = absent /\ working' = working /\ hurried \subseteq hurried'
        /\ gone \cap working \subseteq hurried'
        /\ \A part \in on \ hurried : \E i \in 1..6 : i >= step /\ part \in Stops[i]
    BY DEF StopPart, LifeInv, StopInv, Stops
  <1>2. \A i, j \in 1..6 : \A part \in Stops[i] : i > j => Needs[part] \cap Stops[j] = {}
    BY DEF Stops, Needs, Doors, Engines
  <1>3. \A part \in on' \ hurried' : \E i \in 1..6 : i > step /\ part \in Stops[i]
    <2> SUFFICES ASSUME NEW part \in on' \ hurried'
                 PROVE  \E i \in 1..6 : i > step /\ part \in Stops[i]
      OBVIOUS
    <2>1. part \in on \ hurried /\ part \notin Stops[step]
      BY <1>1
    <2>2. PICK i \in 1..6 : i >= step /\ part \in Stops[i]
      BY <1>1, <2>1
    <2> QED BY <1>1, <2>1, <2>2
  <1>4. \A part \in on' \ hurried' : Needs[part] \subseteq on' \cup absent
    BY <1>1, <1>2, <1>3 DEF LifeInv
  <1>5. StopInv'
    <2>1. \A part \in on' \ hurried' : \E i \in 1..6 : i >= step + 1 /\ part \in Stops[i]
      BY <1>1, <1>3
    <2> QED BY <1>1, <2>1 DEF StopInv, Stops
  <1> HIDE DEF gone
  <1> QED BY <1>1, <1>4, <1>5 DEF LifeInv, StartInv

\* The rest: a start that fails, the doors, requests and ticks, and the end.
LEMMA LifeKeeps ==
  ASSUME LifeInv, [LifeNext]_lifeVars
  PROVE  LifeInv'
  <1>1. CASE StartPart
    BY <1>1, StartPartKeeps
  <1>2. CASE StopPart
    BY <1>2, StopPartKeeps
  <1>3. CASE FailStart
    <2>1. /\ doing = "start" /\ doing' = "stop" /\ step \in 1..4 /\ step' = 4 /\ hurried = {}
          /\ UNCHANGED <<absent, on, working, hurried>>
          /\ \A i \in 1..6 : i >= step => Starts[i] \cap on = {}
      BY <1>3, StopSteps DEF FailStart, LifeInv, StartInv, Starts
    <2>2. on \subseteq {"logs", "store", "plugins"}
      <3>1. Starts[4] \cap on = {} /\ Starts[5] \cap on = {} /\ Starts[6] \cap on = {}
        BY <2>1
      <3> QED BY <3>1 DEF LifeInv, Everything, Starts, Doors, Engines
    <2>3. StopInv'
      <3>1. \A part \in {"logs", "store", "plugins"} : \E i \in DOMAIN Stops : i >= 4 /\ part \in Stops[i]
        BY DEF Stops
      <3>2. 4 \in 1..(Len(Stops) + 1)
        BY DEF Stops
      <3> QED BY <2>1, <2>2, <3>1, <3>2 DEF StopInv
    <2> QED BY <2>1, <2>3 DEF LifeInv, StartInv
  <1>4. CASE OpenDoors
    <2>1. /\ doing = "start" /\ doing' = "serve" /\ hurried = {} /\ UNCHANGED <<absent, on, working, hurried>>
      BY <1>4 DEF OpenDoors, LifeInv, StartInv
    <2> QED BY <2>1 DEF LifeInv, StartInv, StopInv
  <1>5. CASE Signal
    <2>1. /\ doing = "serve" /\ doing' = "stop" /\ step' = 1 /\ UNCHANGED <<absent, on, working, hurried>>
      BY <1>5 DEF Signal
    <2>2. \A part \in Everything : \E i \in 1..6 : i >= 1 /\ part \in Stops[i]
      BY DEF Everything, Stops, Doors, Engines
    <2>3. StopInv'
      BY <2>1, <2>2 DEF StopInv, LifeInv, Stops
    <2> QED BY <2>1, <2>3 DEF LifeInv, StartInv
  <1>6. ASSUME NEW door \in Doors, DoorFails(door)
        PROVE  LifeInv'
    <2>1. /\ doing = "serve" /\ doing' = "stop" /\ step' = 3 /\ on' = on \ {door}
          /\ hurried' = (on \cup working) \cap Doors /\ UNCHANGED <<absent, working>> /\ hurried = {}
      BY <1>6, StopSteps DEF DoorFails, LifeInv
    <2>2. on' \ hurried' \subseteq Everything \ Doors
      BY <2>1 DEF LifeInv
    <2>3. \A part \in Everything \ Doors : Needs[part] \cap Doors = {}
      BY DEF Everything, Needs, Doors, Engines
    <2>4. \A part \in Everything \ Doors : \E i \in 1..6 : i >= 3 /\ part \in Stops[i]
      BY DEF Everything, Stops, Doors, Engines
    <2>5. StopInv'
      BY <2>1, <2>2, <2>4 DEF StopInv, Stops
    <2>6. \A part \in on' \ hurried' : Needs[part] \subseteq on' \cup absent
      BY <2>1, <2>2, <2>3 DEF LifeInv
    <2> QED BY <2>1, <2>5, <2>6 DEF LifeInv, StartInv
  <1>7. CASE Exit
    BY <1>7 DEF Exit, LifeInv, StartInv, StopInv, Starts
  <1>8. ASSUME NEW part, Work(part) \/ Rest(part)
        PROVE  LifeInv'
    BY <1>8 DEF Work, Rest, LifeInv, StartInv, StopInv
  <1>9. CASE UNCHANGED lifeVars
    BY <1>9 DEF lifeVars, LifeInv, StartInv, StopInv
  <1> QED BY <1>1, <1>2, <1>3, <1>4, <1>5, <1>6, <1>7, <1>8, <1>9 DEF LifeNext

\* Nothing runs without what it needs, in a start, in a stop, and in a start that
\* fails, but for requests at a door that was not waited for.
THEOREM PartsHaveTheirNeeds == LifeSpec => []NothingRunsAlone
  <1>1. LifeInv => NothingRunsAlone
    BY DEF LifeInv, NothingRunsAlone
  <1> QED BY <1>1, LifeStarts, LifeKeeps, PTL DEF LifeSpec

-----------------------------------------------------------------------------
(* Phones: whose phone is whose.                                           *)

\* A code, a phone and the history of how it came.
Code  == [user : People, expires : Int, device : Nat]
Phone == [user : People, voip : PushTokens, disabled : BOOLEAN]
Entry == [code : Nat, device : Nat, at : Int]

\* Each code that has been redeemed is used up, and gave its person a phone.
RedeemedInv ==
  /\ \A x \in redeemed :
       /\ x.code \in DOMAIN codes /\ x.device \in DOMAIN enrolled
       /\ codes[x.code].device # Nothing /\ codes[x.code].user = enrolled[x.device].user
       /\ x.at < codes[x.code].expires
  /\ \A d \in DOMAIN enrolled : \E x \in redeemed : x.device = d
  /\ \A x, y \in redeemed : x.code = y.code => x = y

VoiceInv ==
  /\ instant \in Int /\ codes \in Seq(Code) /\ enrolled \in Seq(Phone) /\ redeemed \subseteq Entry
  /\ \A call \in calls : call.device \in DOMAIN enrolled
  /\ RedeemedInv

\* No two phones of the roster have one token, which is the last person's.
RosterInv ==
  /\ \A g, h \in DOMAIN roster : roster[g].token = roster[h].token => g = h
  /\ \A h \in DOMAIN roster : roster[h].token \in DOMAIN claims /\ claims[roster[h].token] = roster[h].user

\* What becomes of the phones that are enrolled: their person stays.
LEMMA PhonesStay ==
  ASSUME VoiceInv, UNCHANGED <<instant, codes, redeemed>>, enrolled' \in Seq(Phone),
         DOMAIN enrolled' = DOMAIN enrolled,
         \A d \in DOMAIN enrolled : enrolled'[d].user = enrolled[d].user,
         \A call \in calls' : call.device \in DOMAIN enrolled
  PROVE  VoiceInv'
  BY DEF VoiceInv, RedeemedInv

\* A new code is nobody's yet.
LEMMA CreateEnrollmentKeeps ==
  ASSUME VoiceInv, NEW u \in People, CreateEnrollment(u)
  PROVE  VoiceInv'
  <1> DEFINE new == [user |-> u, expires |-> instant + CodeTtl, device |-> Nothing]
  <1>1. new \in Code
    BY PhonesAssumption DEF VoiceInv, Code, Nothing
  <1>2. codes' = Append(codes, new) /\ UNCHANGED <<instant, enrolled, redeemed, calls>>
    BY DEF CreateEnrollment
  <1> HIDE DEF new
  <1>3. codes' \in Seq(Code) /\ \A c \in DOMAIN codes : c \in DOMAIN codes' /\ codes'[c] = codes[c]
    BY <1>1, <1>2 DEF VoiceInv
  <1> QED BY <1>2, <1>3 DEF VoiceInv, RedeemedInv

\* A code that is good makes a phone of its person, and is used up by that.
LEMMA EnrollKeeps ==
  ASSUME VoiceInv, NEW c \in DOMAIN codes, NEW t \in PushTokens, Enroll(c, t)
  PROVE  VoiceInv'
  <1> DEFINE n     == Len(enrolled) + 1
             phone == [[user |-> Nothing, voip |-> t, disabled |-> FALSE] EXCEPT !.user = codes[c].user]
             entry == [code |-> c, device |-> n, at |-> instant]
             used  == [codes[c] EXCEPT !.device = n]
  <1>1. /\ codes[c] \in Code /\ c \in Nat /\ n \in Nat /\ n # Nothing /\ instant \in Int
        /\ DOMAIN enrolled = 1..Len(enrolled) /\ Len(enrolled) \in Nat
    BY DEF VoiceInv, Nothing
  <1>2. codes[c].device = Nothing /\ instant < codes[c].expires
    BY <1>1 DEF Enroll, RedeemEnrollment, Redeemable, Code
  <1>3. phone \in Phone /\ entry \in Entry /\ used \in Code
    BY <1>1 DEF Phone, Entry, Code
  <1>4. /\ enrolled' = Append(enrolled, phone) /\ codes' = [codes EXCEPT ![c] = used]
        /\ redeemed' = redeemed \cup {entry} /\ UNCHANGED <<instant, calls>>
    <2>2. codes' = [codes EXCEPT ![c] = used]
      BY DEF Enroll, RedeemEnrollment
    <2>3. redeemed' = redeemed \cup {entry} /\ UNCHANGED <<instant, calls>>
      BY DEF Enroll
    <2> QED BY <2>2, <2>3 DEF Enroll, RedeemEnrollment
  <1>5. /\ phone.user = codes[c].user /\ entry.code = c /\ entry.device = n /\ entry.at = instant
        /\ used.user = codes[c].user /\ used.expires = codes[c].expires /\ used.device = n
    BY <1>1 DEF Code
  <1> HIDE DEF phone, entry, used
  <1>6. /\ enrolled' \in Seq(Phone) /\ DOMAIN enrolled' = DOMAIN enrolled \cup {n} /\ enrolled'[n] = phone
        /\ \A d \in DOMAIN enrolled : enrolled'[d] = enrolled[d]
    BY <1>1, <1>3, <1>4 DEF VoiceInv
  <1>7. /\ codes' \in Seq(Code) /\ DOMAIN codes' = DOMAIN codes /\ codes'[c] = used
        /\ \A b \in DOMAIN codes : b # c => codes'[b] = codes[b]
    BY <1>1, <1>3, <1>4 DEF VoiceInv
  <1> HIDE DEF n
  <1>8. \A x \in redeemed : x.code # c
    BY <1>2 DEF VoiceInv, RedeemedInv
  <1>9. RedeemedInv'
    <2>1. ASSUME NEW x \in redeemed'
          PROVE  /\ x.code \in DOMAIN codes' /\ x.device \in DOMAIN enrolled'
                 /\ codes'[x.code].device # Nothing /\ codes'[x.code].user = enrolled'[x.device].user
                 /\ x.at < codes'[x.code].expires
      <3>1. CASE x = entry
        BY <3>1, <1>1, <1>2, <1>5, <1>6, <1>7
      <3>2. CASE x \in redeemed
        BY <3>2, <1>6, <1>7, <1>8 DEF VoiceInv, RedeemedInv
      <3> QED BY <1>4, <3>1, <3>2
    <2>2. \A d \in DOMAIN enrolled' : \E x \in redeemed' : x.device = d
      BY <1>4, <1>5, <1>6 DEF VoiceInv, RedeemedInv
    <2>3. \A x, y \in redeemed' : x.code = y.code => x = y
      BY <1>4, <1>5, <1>8 DEF VoiceInv, RedeemedInv
    <2> QED BY <2>1, <2>2, <2>3 DEF RedeemedInv
  <1> QED BY <1>3, <1>4, <1>6, <1>7, <1>9 DEF VoiceInv

\* Every other step of a phone for voice calls.
LEMMA VoiceKeeps ==
  ASSUME VoiceInv, VoiceNext
  PROVE  VoiceInv'
  <1>1. ASSUME NEW u \in People, CreateEnrollment(u) PROVE VoiceInv'
    BY <1>1, CreateEnrollmentKeeps
  <1>2. ASSUME NEW c \in DOMAIN codes, NEW t \in PushTokens, Enroll(c, t) PROVE VoiceInv'
    BY <1>2, EnrollKeeps
  <1>3. CASE Pass
    BY <1>3 DEF Pass, voiceVars, VoiceInv, RedeemedInv
  <1>4. ASSUME NEW d \in DOMAIN enrolled, Authenticate(d) PROVE VoiceInv'
    BY <1>4, PhonesStay DEF Authenticate, VoiceInv
  <1>5. ASSUME NEW d \in DOMAIN enrolled, NEW off \in BOOLEAN, SetDisabled(d, off) PROVE VoiceInv'
    <2>1. enrolled[d] \in Phone /\ enrolled' = [enrolled EXCEPT ![d] = [enrolled[d] EXCEPT !.disabled = off]]
      BY <1>5 DEF SetDisabled, SetDeviceDisabled, VoiceInv
    <2>2. [enrolled[d] EXCEPT !.disabled = off] \in Phone /\ [enrolled[d] EXCEPT !.disabled = off].user = enrolled[d].user
      BY <2>1 DEF Phone
    <2> QED BY <1>5, <2>1, <2>2, PhonesStay DEF SetDisabled, VoiceInv
  <1>6. ASSUME NEW call \in calls, NEW t \in PushTokens, UpdatePush(call, t) PROVE VoiceInv'
    <2> DEFINE d == call.device
    <2>1. d \in DOMAIN enrolled /\ enrolled[d] \in Phone /\ enrolled' = [enrolled EXCEPT ![d] = [enrolled[d] EXCEPT !.voip = t]]
      BY <1>6 DEF UpdatePush, UpdateDevicePush, VoiceInv
    <2>2. [enrolled[d] EXCEPT !.voip = t] \in Phone /\ [enrolled[d] EXCEPT !.voip = t].user = enrolled[d].user
      BY <2>1 DEF Phone
    <2> HIDE DEF d
    <2> QED BY <1>6, <2>1, <2>2, PhonesStay DEF UpdatePush, VoiceInv
  <1> QED BY <1>1, <1>2, <1>3, <1>4, <1>5, <1>6 DEF VoiceNext

\* A token that moves leaves the phone that had it.
LEMMA PutDeviceKeeps ==
  ASSUME RosterInv, NEW u \in People, NEW h \in Handsets, NEW t \in PushTokens, PutDevice(u, h, t)
  PROVE  RosterInv'
  <1>1. /\ DOMAIN roster' = Others(h, t) \cup {h} /\ roster'[h] = [user |-> u, token |-> t]
        /\ \A x \in Others(h, t) : roster'[x] = roster[x] /\ x # h /\ x \in DOMAIN roster /\ roster[x].token # t
        /\ DOMAIN claims' = DOMAIN claims \cup {t} /\ claims'[t] = u
        /\ \A x \in DOMAIN claims : x # t => claims'[x] = claims[x]
    BY DEF PutDevice, Others
  <1>2. roster'[h].user = u /\ roster'[h].token = t
    BY <1>1
  <1>3. ASSUME NEW f \in DOMAIN roster', NEW g \in DOMAIN roster', roster'[f].token = roster'[g].token
        PROVE  f = g
    BY <1>1, <1>2, <1>3 DEF RosterInv
  <1>4. ASSUME NEW g \in DOMAIN roster'
        PROVE  roster'[g].token \in DOMAIN claims' /\ claims'[roster'[g].token] = roster'[g].user
    BY <1>1, <1>2 DEF RosterInv
  <1> QED BY <1>3, <1>4 DEF RosterInv

\* Each step of a phone, an admin or the clock.
LEMMA PhonesKeep ==
  ASSUME VoiceInv, RosterInv, [PhonesNext]_phoneVars
  PROVE  VoiceInv' /\ RosterInv'
  <1>1. CASE VoiceNext
    <2>1. UNCHANGED <<roster, claims>>
      BY <1>1 DEF VoiceNext, Pass, CreateEnrollment, Enroll, Authenticate, SetDisabled, UpdatePush, rosterVars
    <2> QED BY <1>1, <2>1, VoiceKeeps DEF RosterInv
  <1>2. CASE RosterNext
    <2>1. UNCHANGED <<instant, voiceVars>>
      BY <1>2 DEF RosterNext, PutDevice, DeleteDevice
    <2>2. VoiceInv'
      BY <2>1 DEF VoiceInv, RedeemedInv, voiceVars
    <2>3. ASSUME NEW u \in People, NEW h \in Handsets, DeleteDevice(u, h) PROVE RosterInv'
      BY <2>3 DEF DeleteDevice, RosterInv
    <2> QED BY <1>2, <2>2, <2>3, PutDeviceKeeps DEF RosterNext
  <1>3. CASE UNCHANGED phoneVars
    BY <1>3 DEF phoneVars, VoiceInv, RedeemedInv, RosterInv
  <1> QED BY <1>1, <1>2, <1>3 DEF PhonesNext

\* Each enrolled phone came by a code of its person that was good then and of its
\* own, and a page goes once to each phone and to no one's who has given it away.
THEOREM EveryPhoneIsTheirs == PhonesSpec => []PhonesAreTheirs
  <1>1. PhonesInit => VoiceInv /\ RosterInv
    BY DEF PhonesInit, VoiceInv, RedeemedInv, RosterInv
  <1>2. VoiceInv /\ RosterInv => PhonesAreTheirs
    BY DEF VoiceInv, RedeemedInv, RosterInv, PhonesAreTheirs, Targets
  <1> QED BY <1>1, <1>2, PhonesKeep, PTL DEF PhonesSpec

-----------------------------------------------------------------------------
(* KeyCache: the cached signing keys.                                      *)

Trust == IF verifier.ttl < Floor THEN Floor ELSE verifier.ttl

CacheTypes ==
  /\ verifier \in Verifiers /\ clock \in Nat /\ published \subseteq Kids /\ publishedAt \in [Kids -> Int]
  /\ keys \subseteq Kids /\ fetchedAt \in Int /\ asking \in Tokens \cup {Free} /\ askedAt \in Nat
  /\ answer \in (SUBSET Kids) \cup {NoAnswer, FailedFetch}

\* The history, the keys that are held and those of an answer, which is not older
\* than its fetch.
KeysInv ==
  /\ \A k \in Kids : publishedAt[k] <= clock
  /\ \A k \in published : publishedAt[k] = clock
  /\ \A k \in keys : publishedAt[k] # Unseen /\ publishedAt[k] >= fetchedAt - FetchTime
  /\ asking # Free => askedAt <= clock /\ clock <= askedAt + FetchTime
  /\ asking = Free => answer = NoAnswer
  /\ answer \in SUBSET Kids => \A k \in answer : publishedAt[k] >= askedAt

\* What the last verdict says, of keys that may have been withdrawn since.
VerdictInv ==
  verdict.taken =>
    /\ verdict.token \in Tokens /\ verdict.token.kid \in Kids /\ verdict.at \in Nat
    /\ publishedAt[verdict.token.kid] # Unseen
    /\ ~verdict.blind => publishedAt[verdict.token.kid] >= verdict.at - Trust - FetchTime
    /\ verdict.at - Leeway <= verdict.token.exp /\ verdict.at + Leeway >= verdict.token.nbf

CacheInv == CacheTypes /\ KeysInv /\ VerdictInv

\* A key is trusted for a ttl at least, and never for less than the floor.
LEMMA TrustIsLong == ASSUME CacheTypes PROVE Trust \in Nat /\ Trust >= verifier.ttl /\ Trust >= Floor
  BY CacheAssumption DEF CacheTypes, Trust

\* A token that is judged by a key that is not too old is taken in its lifetime only.
LEMMA JudgeSays ==
  ASSUME CacheTypes, NEW t \in Tokens, NEW blind \in BOOLEAN, t.kid \in Kids, publishedAt[t.kid] # Unseen,
         ~blind => publishedAt[t.kid] >= clock - Trust - FetchTime, Judge(t, blind),
         UNCHANGED <<verifier, publishedAt>>
  PROVE  VerdictInv'
  <1>1. CASE ~Admits(t)
    BY <1>1 DEF Judge, Refused, VerdictInv
  <1>2. CASE Admits(t)
    <2>1. verdict' = [token |-> t, at |-> clock, taken |-> TRUE, blind |-> blind]
      BY <1>2 DEF Judge
    <2>2. verdict'.token = t /\ verdict'.at = clock /\ verdict'.blind = blind
      BY <2>1
    <2>3. clock - Leeway <= t.exp /\ clock + Leeway >= t.nbf
      <3>1. Claims(t)
        BY <1>2 DEF Admits
      <3>2. clock \in Nat /\ Leeway \in Nat /\ t.exp \in Nat /\ t.nbf \in Nat
        BY CacheAssumption DEF CacheTypes
      <3> QED BY <3>1, <3>2 DEF Claims
    <2>4. Trust' = Trust
      BY DEF Trust
    <2> QED BY <2>2, <2>3, <2>4 DEF VerdictInv, CacheTypes
  <1> QED BY <1>1, <1>2

\* A verdict stays good as the history goes on.
LEMMA VerdictStays ==
  ASSUME CacheInv, UNCHANGED <<verifier, verdict>>, publishedAt' \in [Kids -> Int],
         \A k \in Kids : publishedAt'[k] >= publishedAt[k] /\ (publishedAt[k] # Unseen => publishedAt'[k] # Unseen)
  PROVE  VerdictInv'
  <1>1. Trust' = Trust /\ Trust \in Nat
    BY TrustIsLong DEF Trust, CacheInv
  <1> QED BY <1>1, CacheAssumption DEF CacheInv, VerdictInv, CacheTypes

\* Time passes: keys only get older.
LEMMA AdvanceKeeps == ASSUME CacheInv, Advance PROVE CacheInv'
  <1>1. /\ publishedAt' \in [Kids -> Int] /\ clock' = clock + 1 /\ clock \in Nat
        /\ \A k \in Kids : /\ publishedAt'[k] >= publishedAt[k] /\ publishedAt'[k] <= clock'
                           /\ k \in published => publishedAt'[k] = clock'
                           /\ publishedAt[k] # Unseen => publishedAt'[k] # Unseen
    BY DEF Advance, CacheInv, CacheTypes, KeysInv, Unseen
  <1>2. VerdictInv'
    BY <1>1, VerdictStays DEF Advance
  <1>3. CacheTypes'
    BY <1>1 DEF Advance, CacheInv, CacheTypes
  <1>4. KeysInv'
    <2>1. UNCHANGED <<published, keys, fetchedAt, asking, askedAt, answer>>
      BY DEF Advance
    <2>2. \A k \in keys : publishedAt'[k] # Unseen /\ publishedAt'[k] >= fetchedAt - FetchTime
      BY <1>1, CacheAssumption DEF CacheInv, CacheTypes, KeysInv
    <2>3. answer \in SUBSET Kids => \A k \in answer : publishedAt'[k] >= askedAt
      BY <1>1 DEF CacheInv, CacheTypes, KeysInv
    <2>4. asking # Free => askedAt <= clock' /\ clock' <= askedAt + FetchTime
      BY <1>1, CacheAssumption DEF Advance, CacheInv, CacheTypes, KeysInv
    <2> QED BY <1>1, <2>1, <2>2, <2>3, <2>4 DEF CacheInv, CacheTypes, KeysInv
  <1> QED BY <1>2, <1>3, <1>4 DEF CacheInv

\* The issuer turns to another key.
LEMMA TurnKeeps == ASSUME CacheInv, Turn PROVE CacheInv'
  <1>1. /\ publishedAt' \in [Kids -> Int] /\ clock' = clock /\ clock \in Nat /\ published' \subseteq Kids
        /\ UNCHANGED <<verifier, keys, fetchedAt, asking, askedAt, answer, verdict>>
        /\ \A k \in Kids : /\ publishedAt'[k] >= publishedAt[k] /\ publishedAt'[k] <= clock
                           /\ k \in published' => publishedAt'[k] = clock
                           /\ publishedAt[k] # Unseen => publishedAt'[k] # Unseen
    <2>1. CASE UNCHANGED <<published, publishedAt>>
      BY <2>1 DEF Turn, CacheInv, CacheTypes, KeysInv
    <2>2. CASE /\ published' \in SUBSET Kids
               /\ publishedAt' = [k \in Kids |-> IF k \in published' THEN clock ELSE publishedAt[k]]
      BY <2>2 DEF Turn, CacheInv, CacheTypes, KeysInv, Unseen
    <2> QED BY <2>1, <2>2 DEF Turn
  <1>2. VerdictInv'
    BY <1>1, VerdictStays
  <1>3. CacheTypes'
    BY <1>1 DEF CacheInv, CacheTypes
  <1>4. KeysInv'
    <2>1. \A k \in keys : publishedAt'[k] # Unseen /\ publishedAt'[k] >= fetchedAt - FetchTime
      BY <1>1, CacheAssumption DEF CacheInv, CacheTypes, KeysInv
    <2>2. answer \in SUBSET Kids => \A k \in answer : publishedAt'[k] >= askedAt
      BY <1>1 DEF CacheInv, CacheTypes, KeysInv
    <2> QED BY <1>1, <2>1, <2>2 DEF CacheInv, CacheTypes, KeysInv
  <1> QED BY <1>2, <1>3, <1>4 DEF CacheInv

\* A token is judged by keys that are fresh, or too new to fetch them again.
LEMMA VerifyKeeps == ASSUME CacheInv, NEW t \in Tokens, Verify(t) PROVE CacheInv'
  <1> DEFINE age == clock - fetchedAt
             held == t.kid \in keys
  <1>1. /\ asking = Free /\ answer = NoAnswer
        /\ UNCHANGED <<verifier, clock, published, publishedAt, keys, fetchedAt, answer>>
    BY DEF Verify, CacheInv, KeysInv
  <1>2. held => t.kid \in Kids /\ publishedAt[t.kid] # Unseen /\ publishedAt[t.kid] >= fetchedAt - FetchTime
    BY DEF CacheInv, CacheTypes, KeysInv
  <1>3. \/ held /\ age < verifier.ttl /\ Judge(t, FALSE) /\ UNCHANGED <<asking, askedAt>>
        \/ asking' = t /\ askedAt' = clock /\ UNCHANGED verdict
        \/ age < Floor /\ held /\ Judge(t, FALSE) /\ UNCHANGED <<asking, askedAt>>
        \/ verdict' = Refused /\ UNCHANGED <<asking, askedAt>>
    <2>1. \/ held /\ Fresh(age) /\ Judge(t, FALSE) /\ UNCHANGED <<asking, askedAt>>
          \/ asking' = t /\ askedAt' = clock /\ UNCHANGED verdict
          \/ /\ ~MayFetch(age) /\ UNCHANGED <<asking, askedAt>>
             /\ IF t.kid \in keys THEN Judge(t, FALSE) ELSE verdict' = Refused
      BY Zenon DEF Verify
    <2>2. ~MayFetch(age) => age < Floor
      BY CacheAssumption DEF MayFetch, CacheInv, CacheTypes
    <2> QED BY <2>1, <2>2 DEF Fresh
  <1>4. CASE held /\ (age < verifier.ttl \/ age < Floor) /\ Judge(t, FALSE) /\ UNCHANGED <<asking, askedAt>>
    <2>1. publishedAt[t.kid] >= clock - Trust - FetchTime
      <3>1. Trust \in Nat /\ Trust >= verifier.ttl /\ Trust >= Floor /\ verifier.ttl \in Nat
        BY TrustIsLong, CacheAssumption DEF CacheInv, CacheTypes
      <3>2. publishedAt[t.kid] \in Int /\ clock \in Nat /\ fetchedAt \in Int
        BY <1>2, <1>4 DEF CacheInv, CacheTypes
      <3> HIDE DEF held
      <3> QED BY <1>2, <1>4, <3>1, <3>2, CacheAssumption
    <2>2. VerdictInv'
      BY <1>1, <1>2, <1>4, <2>1, JudgeSays DEF CacheInv
    <2> QED BY <1>1, <1>4, <2>2 DEF CacheInv, CacheTypes, KeysInv
  <1>5. CASE verdict' = Refused /\ UNCHANGED <<asking, askedAt>>
    BY <1>1, <1>5 DEF CacheInv, CacheTypes, KeysInv, VerdictInv, Refused
  <1>6. CASE asking' = t /\ askedAt' = clock /\ UNCHANGED verdict
    <2>1. VerdictInv'
      BY <1>1, <1>6 DEF CacheInv, VerdictInv, Trust
    <2>2. t # Free /\ NoAnswer \notin SUBSET Kids
      BY CacheAssumption
    <2> QED BY <1>1, <1>6, <2>1, <2>2, CacheAssumption DEF CacheInv, CacheTypes, KeysInv
  <1> QED BY <1>3, <1>4, <1>5, <1>6

\* An answer has the keys that are published now.
LEMMA AnswerKeeps == ASSUME CacheInv, Answer PROVE CacheInv'
  <1>1. /\ asking # Free /\ answer' \in {published, FailedFetch}
        /\ UNCHANGED <<verifier, clock, published, publishedAt, keys, fetchedAt, asking, askedAt, verdict>>
    BY DEF Answer
  <1>2. VerdictInv'
    BY <1>1 DEF CacheInv, VerdictInv, Trust
  <1>3. CacheTypes'
    <2>1. answer' \in (SUBSET Kids) \cup {NoAnswer, FailedFetch}
      BY <1>1, Zenon DEF CacheInv, CacheTypes
    <2> QED BY <1>1, <2>1 DEF CacheInv, CacheTypes
  <1>4. answer' \in SUBSET Kids => \A k \in answer' : publishedAt[k] >= askedAt
    BY <1>1, CacheAssumption DEF CacheInv, CacheTypes, KeysInv
  <1> QED BY <1>1, <1>2, <1>3, <1>4 DEF CacheInv, KeysInv

\* The keys of an answer replace those that are held; without one those are good.
LEMMA SettleKeeps == ASSUME CacheInv, Settle PROVE CacheInv'
  <1>1. /\ answer # NoAnswer /\ asking' = Free /\ answer' = NoAnswer /\ asking \in Tokens
        /\ UNCHANGED <<verifier, clock, published, publishedAt, askedAt>>
        /\ askedAt <= clock /\ clock <= askedAt + FetchTime
    BY DEF Settle, CacheInv, CacheTypes, KeysInv
  <1>2. NoAnswer \notin SUBSET Kids
    BY CacheAssumption
  <1>3. CASE answer = FailedFetch
    <2>1. /\ UNCHANGED <<keys, fetchedAt>>
          /\ IF asking.kid \in keys THEN Judge(asking, TRUE) ELSE verdict' = Refused
      BY <1>3 DEF Settle
    <2>2. VerdictInv'
      <3>1. CASE asking.kid \in keys
        BY <1>1, <2>1, <3>1, JudgeSays DEF CacheInv, CacheTypes, KeysInv
      <3>2. CASE asking.kid \notin keys
        BY <2>1, <3>2 DEF VerdictInv, Refused
      <3> QED BY <3>1, <3>2
    <2>3. CacheTypes'
      BY <1>1, <2>1 DEF CacheInv, CacheTypes
    <2>4. KeysInv'
      BY <1>1, <1>2, <2>1 DEF CacheInv, KeysInv
    <2> QED BY <2>2, <2>3, <2>4 DEF CacheInv
  <1>4. CASE answer # FailedFetch
    <2>1. /\ keys' = answer /\ fetchedAt' = clock /\ answer \in SUBSET Kids
          /\ IF asking.kid \in keys' THEN Judge(asking, FALSE) ELSE verdict' = Refused
      <3>1. answer \in SUBSET Kids
        BY <1>1, <1>4 DEF CacheInv, CacheTypes
      <3> QED BY <1>4, <3>1, Zenon DEF Settle
    <2>2. \A k \in answer : /\ k \in Kids /\ publishedAt[k] \in Int /\ publishedAt[k] >= askedAt
                            /\ publishedAt[k] # Unseen /\ publishedAt[k] >= clock - FetchTime
      BY <1>1, <2>1, CacheAssumption DEF CacheInv, CacheTypes, KeysInv, Unseen
    <2>3. VerdictInv'
      <3>1. CASE asking.kid \in keys'
        <4>1. publishedAt[asking.kid] >= clock - Trust - FetchTime
          <5>1. Trust \in Nat /\ clock \in Nat
            BY TrustIsLong DEF CacheInv, CacheTypes
          <5> QED BY <2>1, <2>2, <3>1, <5>1, CacheAssumption
        <4> QED BY <1>1, <2>1, <2>2, <3>1, <4>1, JudgeSays DEF CacheInv
      <3>2. CASE asking.kid \notin keys'
        BY <2>1, <3>2 DEF VerdictInv, Refused
      <3> QED BY <3>1, <3>2
    <2>4. CacheTypes'
      BY <1>1, <2>1 DEF CacheInv, CacheTypes
    <2>5. KeysInv'
      BY <1>1, <1>2, <2>1, <2>2 DEF CacheInv, KeysInv
    <2> QED BY <2>3, <2>4, <2>5 DEF CacheInv
  <1> QED BY <1>3, <1>4

\* A token is only taken in its lifetime, and by a key that Identity published no
\* longer ago than keys are trusted and one fetch, unless it gives no answer.
THEOREM WithdrawnKeysGo == CacheSpec => []WithdrawnKeysExpire
  <1>1. CacheInit => CacheInv
    <2> SUFFICES ASSUME CacheInit PROVE CacheInv
      OBVIOUS
    <2>1. /\ publishedAt \in [Kids -> Int] /\ \A k \in Kids : publishedAt[k] <= clock
          /\ \A k \in published : publishedAt[k] = clock
      BY DEF CacheInit, Unseen
    <2>2. CacheTypes
      BY <2>1 DEF CacheInit, CacheTypes, Epoch
    <2>3. NoAnswer \notin SUBSET Kids
      BY CacheAssumption
    <2>4. KeysInv
      BY <2>1, <2>3 DEF CacheInit, KeysInv
    <2>5. VerdictInv
      BY DEF CacheInit, VerdictInv, Refused
    <2> QED BY <2>2, <2>4, <2>5 DEF CacheInv
  <1>2. CacheInv /\ [CacheNext]_cacheVars => CacheInv'
    <2>1. CacheInv /\ UNCHANGED cacheVars => CacheInv'
      BY DEF cacheVars, CacheInv, CacheTypes, KeysInv, VerdictInv, Trust
    <2> QED BY <2>1, AdvanceKeeps, TurnKeeps, VerifyKeeps, AnswerKeeps, SettleKeeps DEF CacheNext
  <1>3. CacheInv => WithdrawnKeysExpire
    BY DEF CacheInv, VerdictInv, WithdrawnKeysExpire, Trust
  <1> QED BY <1>1, <1>2, <1>3, PTL DEF CacheSpec

-----------------------------------------------------------------------------
(* LogShip: the log shipper.                                               *)

Told == ToSet(arrived) \cup dropped \cup reported

Rising(s)    == \A i, j \in DOMAIN s : i < j => s[i] < s[j]
Before(S, T) == \A x \in S, y \in T : x < y

\* What arrives out of order has been there before.
InOrder(s) ==
  \A i, j \in DOMAIN s : i < j /\ s[j] < s[i] => \E k \in 1..(i - 1) : s[k] = s[j]

ShipTypes ==
  /\ handed \in Nat /\ early \in Nat /\ attempt \in Nat /\ early <= handed
  /\ buffer \in Seq(1..handed) /\ batch \in Seq(1..handed) /\ arrived \in Seq(1..handed)
  /\ shipper \in {"run", "drain", "last", "done"} /\ shutdown \in {"no", "waits", "nil", "expired"}

\* Records are in the channel, in the batch and at omni-logging in the order they
\* were handed in; a batch that may be repeated is there as a whole or not at all.
OrderInv ==
  /\ Rising(buffer) /\ Rising(batch) /\ InOrder(arrived)
  /\ Before(ToSet(batch) \cup ToSet(arrived), ToSet(buffer))
  /\ Before(ToSet(arrived), ToSet(batch)) \/ (attempt > 0 /\ ToSet(batch) \subseteq ToSet(arrived))

\* Each record is somewhere, and those of before Shutdown are not in the channel
\* once it has been drained.
WhereInv ==
  /\ 1..handed \subseteq Told \cup ToSet(batch) \cup ToSet(buffer)
  /\ (shutdown = "no") = ~stopping /\ (shipper # "run" => stopping)
  /\ shipper \in {"last", "done"} => /\ 1..early \subseteq Told \cup ToSet(batch)
                                     /\ attempt = 0 => batch = <<>>
  /\ shipper = "done" => attempt = 0
  /\ shutdown = "nil" => shipper = "done"

ShipInv == ShipTypes /\ OrderInv /\ WhereInv

\* What is in a sequence that grows or loses its head.
LEMMA SetOfAppend ==
  ASSUME NEW S, NEW s \in Seq(S), NEW x \in S
  PROVE  ToSet(Append(s, x)) = ToSet(s) \cup {x}
  <1>1. /\ DOMAIN Append(s, x) = DOMAIN s \cup {Len(s) + 1} /\ Append(s, x)[Len(s) + 1] = x
        /\ \A i \in DOMAIN s : Append(s, x)[i] = s[i]
    OBVIOUS
  <1> QED BY <1>1 DEF ToSet

\* A queue without its head.
LEMMA SetOfTail ==
  ASSUME NEW S, NEW s \in Seq(S), s # <<>>
  PROVE  /\ Head(s) \in S /\ Tail(s) \in Seq(S) /\ Head(s) = s[1] /\ 1 \in DOMAIN s
         /\ \A i \in DOMAIN Tail(s) : i + 1 \in DOMAIN s /\ Tail(s)[i] = s[i + 1]
         /\ ToSet(s) = {Head(s)} \cup ToSet(Tail(s))
  <1>1. Len(s) \in Nat \ {0} /\ DOMAIN s = 1..Len(s)
    OBVIOUS
  <1>2. /\ Head(s) \in S /\ Tail(s) \in Seq(S) /\ Head(s) = s[1] /\ DOMAIN Tail(s) = 1..(Len(s) - 1)
        /\ \A i \in 1..(Len(s) - 1) : Tail(s)[i] = s[i + 1]
    BY <1>1
  <1>3. \A i \in DOMAIN s : i = 1 \/ (i - 1 \in DOMAIN Tail(s) /\ Tail(s)[i - 1] = s[i])
    BY <1>1, <1>2
  <1>4. \A i \in DOMAIN Tail(s) : i + 1 \in DOMAIN s /\ Tail(s)[i] = s[i + 1]
    BY <1>1, <1>2
  <1>5. 1 \in DOMAIN s
    BY <1>1
  <1>6. \A i \in DOMAIN s : s[i] \in {Head(s)} \cup ToSet(Tail(s))
    BY <1>2, <1>3 DEF ToSet
  <1>7. Head(s) \in ToSet(s) /\ \A i \in DOMAIN Tail(s) : Tail(s)[i] \in ToSet(s)
    BY <1>2, <1>4, <1>5 DEF ToSet
  <1>8. ToSet(s) = {Head(s)} \cup ToSet(Tail(s))
    BY <1>6, <1>7 DEF ToSet
  <1> QED BY <1>2, <1>4, <1>5, <1>8

\* Two queues, one behind the other.
LEMMA SetOfConcat ==
  ASSUME NEW S, NEW s \in Seq(S), NEW t \in Seq(S)
  PROVE  ToSet(s \o t) = ToSet(s) \cup ToSet(t)
  <1>1. /\ Len(s) \in Nat /\ Len(t) \in Nat /\ DOMAIN s = 1..Len(s) /\ DOMAIN t = 1..Len(t)
        /\ DOMAIN (s \o t) = 1..(Len(s) + Len(t))
        /\ \A i \in 1..Len(s) : (s \o t)[i] = s[i]
        /\ \A i \in 1..Len(t) : (s \o t)[Len(s) + i] = t[i]
    OBVIOUS
  <1>2. \A i \in 1..(Len(s) + Len(t)) : i \in 1..Len(s) \/ (i - Len(s) \in 1..Len(t) /\ (s \o t)[i] = t[i - Len(s)])
    BY <1>1
  <1>3. \A i \in 1..Len(t) : Len(s) + i \in DOMAIN (s \o t)
    BY <1>1
  <1>4. \A i \in DOMAIN (s \o t) : (s \o t)[i] \in ToSet(s) \cup ToSet(t)
    BY <1>1, <1>2 DEF ToSet
  <1>5. \A i \in DOMAIN s : s[i] \in ToSet(s \o t)
    BY <1>1 DEF ToSet
  <1>6. \A i \in DOMAIN t : t[i] \in ToSet(s \o t)
    BY <1>1, <1>3 DEF ToSet
  <1> QED BY <1>4, <1>5, <1>6 DEF ToSet

\* A record that is handed in comes after all the others.
LEMMA HandleKeeps == ASSUME ShipInv, HandleRecord PROVE ShipInv'
  <1> DEFINE n == handed + 1
  <1>1. /\ handed' = n /\ handed \in Nat /\ n \in 1..n
        /\ UNCHANGED <<batch, attempt, shipper, stopping, shutdown, reported, arrived, early>>
        /\ \/ buffer' = Append(buffer, n) /\ UNCHANGED dropped
           \/ dropped' = dropped \cup {n} /\ UNCHANGED buffer
    BY DEF HandleRecord, ShipInv, ShipTypes
  <1>2. 1..n = (1..handed) \cup {n} /\ \A x \in 1..handed : x < n
    BY <1>1
  <1>3. /\ buffer \in Seq(1..n) /\ batch \in Seq(1..n) /\ arrived \in Seq(1..n)
        /\ ToSet(buffer) \subseteq 1..handed /\ ToSet(batch) \subseteq 1..handed /\ ToSet(arrived) \subseteq 1..handed
    BY <1>2 DEF ShipInv, ShipTypes, ToSet
  <1>4. early <= n
    BY <1>1 DEF ShipInv, ShipTypes
  <1> HIDE DEF n
  <1>5. CASE buffer' = Append(buffer, n) /\ UNCHANGED dropped
    <2>1. buffer' \in Seq(1..n) /\ ToSet(buffer') = ToSet(buffer) \cup {n}
      <3> DEFINE S == 1..n
      <3>1. n \in S /\ buffer \in Seq(S)
        BY <1>1, <1>3
      <3> HIDE DEF S
      <3>2. Append(buffer, n) \in Seq(S) /\ ToSet(Append(buffer, n)) = ToSet(buffer) \cup {n}
        BY <3>1, SetOfAppend
      <3> QED BY <1>5, <3>2 DEF S
    <2>2. Rising(buffer')
      <3>1. /\ DOMAIN buffer' = DOMAIN buffer \cup {Len(buffer) + 1} /\ buffer'[Len(buffer) + 1] = n
            /\ \A i \in DOMAIN buffer : buffer'[i] = buffer[i] /\ buffer[i] < n /\ i < Len(buffer) + 1
        BY <1>2, <1>3, <1>5 DEF ShipInv, ShipTypes
      <3>2. Len(buffer) \in Nat /\ \A i \in DOMAIN buffer : i \in Nat
        BY <1>3
      <3>3. ASSUME NEW i \in DOMAIN buffer', NEW j \in DOMAIN buffer', i < j
            PROVE  buffer'[i] < buffer'[j]
        <4>1. i \in DOMAIN buffer
          BY <3>1, <3>2, <3>3
        <4> QED BY <3>1, <3>3, <4>1 DEF ShipInv, OrderInv, Rising
      <3> QED BY <3>3 DEF Rising
    <2>3. Before(ToSet(batch) \cup ToSet(arrived), ToSet(buffer'))
      BY <1>2, <1>3, <2>1 DEF ShipInv, OrderInv, Before
    <2>4. 1..n \subseteq Told \cup ToSet(batch) \cup ToSet(buffer')
      BY <1>2, <2>1 DEF ShipInv, WhereInv
    <2>5. Told' = Told
      BY <1>1, <1>5 DEF Told
    <2>6. ShipTypes'
      BY <1>1, <1>3, <1>4, <2>1 DEF ShipInv, ShipTypes, n
    <2> QED BY <1>1, <2>2, <2>3, <2>4, <2>5, <2>6 DEF ShipInv, OrderInv, WhereInv
  <1>6. CASE dropped' = dropped \cup {n} /\ UNCHANGED buffer
    <2>1. Told' = Told \cup {n}
      BY <1>1, <1>6 DEF Told
    <2>2. ShipTypes'
      BY <1>1, <1>3, <1>4, <1>6 DEF ShipInv, ShipTypes, n
    <2>3. OrderInv'
      BY <1>1, <1>6 DEF ShipInv, OrderInv
    <2>4. WhereInv'
      BY <1>1, <1>2, <1>6, <2>1 DEF ShipInv, WhereInv
    <2> QED BY <2>2, <2>3, <2>4 DEF ShipInv
  <1> QED BY <1>1, <1>5, <1>6

\* The next record of the channel is the last one of the batch.
LEMMA AddKeeps == ASSUME ShipInv, Add PROVE ShipInv'
  <1> DEFINE x == Head(buffer)
  <1>1. /\ shipper \in {"run", "drain"} /\ attempt = 0 /\ buffer # <<>> /\ attempt' \in {0, 1}
        /\ buffer' = Tail(buffer) /\ batch' = Append(batch, x)
        /\ UNCHANGED <<handed, shipper, stopping, shutdown, dropped, reported, arrived, early>>
    BY DEF Add
  <1>2. /\ x \in 1..handed /\ buffer' \in Seq(1..handed) /\ x = buffer[1] /\ 1 \in DOMAIN buffer
        /\ ToSet(buffer) = {x} \cup ToSet(buffer')
        /\ \A i \in DOMAIN buffer' : i + 1 \in DOMAIN buffer /\ buffer'[i] = buffer[i + 1]
    BY <1>1, SetOfTail DEF ShipInv, ShipTypes
  <1> HIDE DEF x
  <1>3. batch' \in Seq(1..handed) /\ ToSet(batch') = ToSet(batch) \cup {x}
    BY <1>1, <1>2, SetOfAppend DEF ShipInv, ShipTypes
  <1>4. \A i \in DOMAIN buffer' : i \in Nat \ {0}
    BY <1>2
  <1>5. Rising(buffer')
    BY <1>2, <1>4 DEF ShipInv, OrderInv, Rising
  <1>6. \A y \in ToSet(buffer') : x < y
    BY <1>2, <1>4 DEF ShipInv, OrderInv, Rising, ToSet
  <1>7. Rising(batch')
    <2>1. /\ DOMAIN batch' = DOMAIN batch \cup {Len(batch) + 1} /\ batch'[Len(batch) + 1] = x
          /\ \A i \in DOMAIN batch : batch'[i] = batch[i] /\ i < Len(batch) + 1
          /\ Len(batch) \in Nat /\ \A i \in DOMAIN batch : i \in Nat
      <3>1. batch \in Seq(1..handed) /\ x \in 1..handed /\ batch' = Append(batch, x)
        BY <1>1, <1>2 DEF ShipInv, ShipTypes
      <3>2. Len(batch) \in Nat /\ DOMAIN batch = 1..Len(batch)
        BY <3>1
      <3> QED BY <3>1, <3>2
    <2>2. \A i \in DOMAIN batch : batch[i] < x
      BY <1>2 DEF ShipInv, OrderInv, Before, ToSet
    <2>3. ASSUME NEW i \in DOMAIN batch', NEW j \in DOMAIN batch', i < j
          PROVE  batch'[i] < batch'[j]
      <3>1. i \in DOMAIN batch
        BY <2>1, <2>3
      <3> QED BY <2>1, <2>2, <2>3, <3>1 DEF ShipInv, OrderInv, Rising
    <2> QED BY <2>3 DEF Rising
  <1>8. Before(ToSet(batch') \cup ToSet(arrived), ToSet(buffer')) /\ Before(ToSet(arrived), ToSet(batch'))
    BY <1>1, <1>2, <1>3, <1>6 DEF ShipInv, OrderInv, Before
  <1>9. Told' = Told
    BY <1>1 DEF Told
  <1>10. ShipTypes'
    BY <1>1, <1>2, <1>3 DEF ShipInv, ShipTypes
  <1>11. OrderInv'
    BY <1>1, <1>5, <1>7, <1>8 DEF ShipInv, OrderInv
  <1>12. WhereInv'
    BY <1>1, <1>2, <1>3, <1>9 DEF ShipInv, WhereInv
  <1> QED BY <1>10, <1>11, <1>12 DEF ShipInv

\* A batch that comes after all that has arrived, or is there already.
LEMMA ConcatInOrder ==
  ASSUME NEW N \in Nat, NEW s \in Seq(1..N), NEW t \in Seq(1..N), InOrder(s), Rising(t),
         Before(ToSet(s), ToSet(t)) \/ ToSet(t) \subseteq ToSet(s)
  PROVE  InOrder(s \o t)
  <1> DEFINE u == s \o t
  <1>1. /\ Len(s) \in Nat /\ Len(t) \in Nat /\ DOMAIN s = 1..Len(s) /\ DOMAIN t = 1..Len(t)
        /\ DOMAIN u = 1..(Len(s) + Len(t))
        /\ \A i \in 1..Len(s) : u[i] = s[i]
        /\ \A i \in 1..(Len(s) + Len(t)) : i > Len(s) => i - Len(s) \in 1..Len(t) /\ u[i] = t[i - Len(s)]
        /\ \A i \in 1..Len(s) : s[i] \in Int
        /\ \A i \in 1..Len(t) : t[i] \in Int
    OBVIOUS
  <1> HIDE DEF u
  <1>2. ASSUME NEW i \in DOMAIN u, NEW j \in DOMAIN u, i < j, u[j] < u[i]
        PROVE  \E k \in 1..(i - 1) : u[k] = u[j]
    <2>1. CASE j <= Len(s)
      <3>1. i \in DOMAIN s /\ j \in DOMAIN s /\ u[i] = s[i] /\ u[j] = s[j]
        BY <1>1, <1>2, <2>1
      <3>2. PICK k \in 1..(i - 1) : s[k] = s[j]
        BY <1>2, <3>1 DEF InOrder
      <3>3. u[k] = s[k]
        BY <1>1, <3>1, <3>2
      <3> QED BY <3>1, <3>2, <3>3
    <2>2. CASE i > Len(s)
      <3>1. i - Len(s) \in DOMAIN t /\ j - Len(s) \in DOMAIN t /\ i - Len(s) < j - Len(s)
            /\ u[i] = t[i - Len(s)] /\ u[j] = t[j - Len(s)]
        <4>1. i \in 1..(Len(s) + Len(t)) /\ j \in 1..(Len(s) + Len(t)) /\ j > Len(s)
          BY <1>1, <1>2, <2>2
        <4>2. i - Len(s) < j - Len(s)
          BY <1>1, <1>2, <4>1
        <4> QED BY <1>1, <2>2, <4>1, <4>2
      <3>2. u[i] < u[j]
        BY <3>1 DEF Rising
      <3> QED BY <1>1, <1>2, <3>1, <3>2
    <2>3. CASE i <= Len(s) /\ j > Len(s)
      <3>1. i \in DOMAIN s /\ u[i] = s[i] /\ j - Len(s) \in DOMAIN t /\ u[j] = t[j - Len(s)]
        BY <1>1, <1>2, <2>3
      <3>2. u[i] \in ToSet(s) /\ u[j] \in ToSet(t) /\ u[i] \in Int /\ u[j] \in Int
        BY <1>1, <3>1 DEF ToSet
      <3>3. u[j] \in ToSet(s)
        BY <1>2, <3>2 DEF Before
      <3>4. PICK p \in DOMAIN s : s[p] = u[j]
        BY <3>3 DEF ToSet
      <3>5. p \in Nat /\ i \in Nat /\ p # i
        BY <1>1, <1>2, <3>1, <3>2, <3>4
      <3>6. CASE p < i
        <4>1. p \in 1..(i - 1) /\ u[p] = u[j]
          BY <1>1, <3>4, <3>5, <3>6
        <4> QED BY <4>1
      <3>7. CASE i < p
        <4>1. PICK k \in 1..(i - 1) : s[k] = s[p]
          BY <1>2, <3>1, <3>4, <3>7 DEF InOrder
        <4>2. u[k] = s[k]
          BY <1>1, <3>1, <4>1
        <4> QED BY <3>4, <4>1, <4>2
      <3> QED BY <3>5, <3>6, <3>7
    <2> QED BY <1>1, <2>1, <2>2, <2>3
  <1> QED BY <1>2 DEF InOrder, u

\* A batch that is posted: it arrives or not, and is done with or tried again.
LEMMA PostKeeps == ASSUME ShipInv, PostBatch PROVE ShipInv'
  <1>1. /\ attempt > 0 /\ UNCHANGED <<handed, buffer, shipper, stopping, shutdown, dropped, early>>
        /\ arrived' \in {arrived, arrived \o batch}
        /\ \/ batch' = batch /\ attempt' = attempt + 1 /\ UNCHANGED reported
           \/ batch' = <<>> /\ attempt' = 0 /\ reported' = reported \cup ToSet(batch)
           \/ batch' = <<>> /\ attempt' = 0 /\ UNCHANGED reported /\ arrived' = arrived \o batch
    BY DEF PostBatch
  <1>2. /\ arrived \o batch \in Seq(1..handed) /\ ToSet(arrived \o batch) = ToSet(arrived) \cup ToSet(batch)
        /\ InOrder(arrived \o batch)
    BY SetOfConcat, ConcatInOrder DEF ShipInv, ShipTypes, OrderInv
  <1>3. /\ arrived' \in Seq(1..handed) /\ InOrder(arrived')
        /\ ToSet(arrived') = ToSet(arrived) \/ ToSet(arrived') = ToSet(arrived) \cup ToSet(batch)
    BY <1>1, <1>2 DEF ShipInv, ShipTypes, OrderInv
  <1>4. ToSet(<<>>) = {}
    BY DEF ToSet
  <1>5. Before(ToSet(batch) \cup ToSet(arrived'), ToSet(buffer))
    BY <1>3 DEF ShipInv, OrderInv, Before
  <1>6. CASE batch' = batch /\ attempt' = attempt + 1 /\ UNCHANGED reported
    <2>1. Told' = Told \/ Told' = Told \cup ToSet(batch)
      BY <1>1, <1>3, <1>6 DEF Told
    <2>2. attempt' \in Nat /\ attempt' > 0
      BY <1>1, <1>6 DEF ShipInv, ShipTypes
    <2>3. ShipTypes'
      BY <1>1, <1>3, <1>6, <2>2 DEF ShipInv, ShipTypes
    <2>4. OrderInv'
      BY <1>1, <1>3, <1>5, <1>6, <2>2 DEF ShipInv, OrderInv
    <2>5. WhereInv'
      BY <1>1, <1>6, <2>1, <2>2 DEF ShipInv, WhereInv
    <2> QED BY <2>3, <2>4, <2>5 DEF ShipInv
  <1>7. CASE batch' = <<>> /\ attempt' = 0
    <2>1. Told' = Told \cup ToSet(batch)
      <3>1. attempt + 1 # 0
        BY DEF ShipInv, ShipTypes
      <3>2. \/ reported' = reported \cup ToSet(batch)
            \/ UNCHANGED reported /\ arrived' = arrived \o batch
        BY <1>1, <1>7, <3>1
      <3> QED BY <1>1, <1>2, <1>3, <3>2 DEF Told
    <2>2. ShipTypes'
      BY <1>1, <1>3, <1>7 DEF ShipInv, ShipTypes
    <2>3. OrderInv'
      <3>1. Rising(batch') /\ Before(ToSet(arrived'), ToSet(batch'))
        BY <1>4, <1>7 DEF Rising, Before
      <3>2. Before(ToSet(batch') \cup ToSet(arrived'), ToSet(buffer))
        BY <1>4, <1>5, <1>7 DEF Before
      <3> QED BY <1>1, <1>3, <3>1, <3>2 DEF ShipInv, OrderInv
    <2>4. WhereInv'
      BY <1>1, <1>4, <1>7, <2>1 DEF ShipInv, WhereInv
    <2> QED BY <2>2, <2>3, <2>4 DEF ShipInv
  <1> QED BY <1>1, <1>6, <1>7

\* The steps of run and of Shutdown that move no record.
LEMMA RunKeeps ==
  ASSUME ShipInv, Flush \/ SeeStop \/ Drained \/ Finish \/ Shutdown \/ ShutdownReturns \/ UNCHANGED shipVars
  PROVE  ShipInv'
  <1>1. UNCHANGED <<handed, buffer, batch, dropped, reported, arrived>> /\ Told' = Told
    BY DEF Flush, SeeStop, Drained, Finish, Shutdown, ShutdownReturns, shipVars, Told
  <1>2. attempt' = attempt \/ (attempt = 0 /\ attempt' = 1)
    BY DEF Flush, SeeStop, Drained, Finish, Shutdown, ShutdownReturns, shipVars
  <1>3. OrderInv'
    BY <1>1, <1>2 DEF ShipInv, OrderInv
  <1>4. ShipTypes'
    BY <1>1, <1>2 DEF ShipInv, ShipTypes, Flush, SeeStop, Drained, Finish, Shutdown, ShutdownReturns, shipVars, AfterStop
  <1>5. WhereInv'
    <2>1. CASE Flush \/ SeeStop \/ Finish \/ UNCHANGED shipVars
      BY <1>1, <2>1 DEF ShipInv, WhereInv, Flush, SeeStop, Finish, shipVars, AfterStop
    <2>2. CASE Drained
      <3>1. ToSet(buffer) = {} /\ 1..early \subseteq 1..handed
        BY <2>2 DEF Drained, ToSet, ShipInv, ShipTypes
      <3>2. 1..early \subseteq Told \cup ToSet(batch)
        BY <3>1 DEF ShipInv, WhereInv
      <3> QED BY <1>1, <2>2, <3>2 DEF ShipInv, WhereInv, Drained
    <2>3. CASE Shutdown
      BY <1>1, <2>3 DEF ShipInv, WhereInv, Shutdown
    <2>4. CASE ShutdownReturns
      BY <1>1, <2>4 DEF ShipInv, WhereInv, ShutdownReturns
    <2> QED BY <2>1, <2>2, <2>3, <2>4
  <1> QED BY <1>3, <1>4, <1>5 DEF ShipInv

\* No record goes missing without a word, they arrive in order but for a batch
\* that is repeated, and Shutdown returns without an error when all are told.
THEOREM RecordsAreTold == ShipSpec => []NoneLostUntold
  <1>1. ShipInit => ShipInv
    <2> SUFFICES ASSUME ShipInit PROVE ShipInv
      OBVIOUS
    <2>1. ToSet(<<>>) = {} /\ 1..0 = {} /\ DOMAIN <<>> = {}
      BY DEF ToSet
    <2>2. ShipTypes
      BY DEF ShipInit, ShipTypes
    <2>3. OrderInv
      BY <2>1 DEF ShipInit, OrderInv, Rising, InOrder, Before
    <2>4. WhereInv
      BY <2>1 DEF ShipInit, WhereInv
    <2> QED BY <2>2, <2>3, <2>4 DEF ShipInv
  <1>2. ShipInv /\ [ShipNext]_shipVars => ShipInv'
    BY HandleKeeps, AddKeeps, PostKeeps, RunKeeps DEF ShipNext
  <1>3. ShipInv => NoneLostUntold
    <2> SUFFICES ASSUME ShipInv PROVE NoneLostUntold
      OBVIOUS
    <2>1. shutdown = "nil" => 1..early \subseteq Told
      <3>1. ToSet(<<>>) = {}
        BY DEF ToSet
      <3> QED BY <3>1 DEF ShipInv, WhereInv
    <2>2. InOrder(arrived) /\ 1..handed \subseteq Told \cup ToSet(batch) \cup ToSet(buffer)
      BY DEF ShipInv, OrderInv, WhereInv
    <2> QED BY <2>1, <2>2, Zenon DEF NoneLostUntold, Told, InOrder
  <1> QED BY <1>1, <1>2, <1>3, PTL DEF ShipSpec

-----------------------------------------------------------------------------
(* Settings: the tables of providers and routes.                           *)

RowFields     == {"kind", "conf", "secret", "key", "enabled", "by"}
HandlerFields == {"at", "req", "row"}
OnProvider    == {"build", "lookup", "update", "insert"}
Seeds         == UNION {ToSet(config.providers) \cup ToSet(config.routes) : config \in Configs}

\* No other request has worked on the same name.
Alone(c) == <<handlers[c].req.on, handlers[c].req.name>> \notin writers

\* Requests are only at work while the process is up, and two of them on one name
\* are not alone.
ClientsInv ==
  /\ DOMAIN handlers = Clients
  /\ \A c \in Clients :
       /\ DOMAIN handlers[c] = HandlerFields /\ handlers[c].at \in {"free", "look", "upsert"} \cup OnProvider
       /\ handlers[c].at # "free" => process = "up" /\ handlers[c].req \in Requests
  /\ \A c, d \in Clients :
       /\ c # d /\ handlers[c].at # "free" /\ handlers[d].at # "free"
       /\ handlers[c].req.on = handlers[d].req.on /\ handlers[c].req.name = handlers[d].req.name
       => ~Alone(c)

\* What a request has got: of a row that nobody else works on, that is still so.
WorkInv(c) ==
  LET r == handlers[c].req  row == handlers[c].row
  IN  /\ handlers[c].at \in OnProvider =>
           /\ r.on = "provider" /\ DOMAIN row = RowFields /\ row.key = key /\ row.secret = r.secret /\ row.by = "api"
           /\ Alone(c) /\ r.verb = "PATCH" => Has(r.name) /\ row = Patched(r, providers[r.name])
      /\ handlers[c].at \in {"lookup", "update", "insert"} /\ Alone(c) => Builds(r, row)
      /\ handlers[c].at = "upsert" =>
           /\ r.on = "route" /\ row.provs \subseteq DOMAIN providers
           /\ Alone(c) /\ r.verb = "PATCH" => r.name \in DOMAIN routes /\ row = PatchedRoute(r, routes[r.name])

\* What is left to seed: a route comes after the providers it names.
BootInv ==
  /\ boot \in Seq(Seeds)
  /\ \A i \in DOMAIN boot : boot[i].on = "route" =>
       \A p \in boot[i].provs : \/ Has(p)
                                \/ \E j \in DOMAIN boot : j < i /\ boot[j].on = "provider" /\ boot[j].name = p

SettingsInv == TablesWork /\ ClientsInv /\ BootInv /\ \A c \in Clients : WorkInv(c)

\* What an upsert does to a row and to the others.
LEMMA UpsertSays ==
  ASSUME NEW n, NEW row, DOMAIN row = RowFields, providers' = Upsert(n, row)
  PROVE  /\ DOMAIN providers' = DOMAIN providers \cup {n}
         /\ \A m \in DOMAIN providers : m # n => providers'[m] = providers[m]
         /\ providers'[n].kind = row.kind /\ providers'[n].conf = row.conf
         /\ providers'[n].enabled = row.enabled /\ providers'[n].by = row.by
         /\ row.secret # Omitted => providers'[n].secret = row.secret /\ providers'[n].key = row.key
         /\ row.secret = Omitted /\ Has(n) => /\ providers'[n].secret = providers[n].secret
                                              /\ providers'[n].key = providers[n].key
         /\ row.secret = Omitted /\ ~Has(n) => providers'[n].secret = None
  <1> DEFINE new == IF row.secret # Omitted THEN row
                    ELSE IF Has(n) THEN [row EXCEPT !.secret = providers[n].secret, !.key = providers[n].key]
                    ELSE [row EXCEPT !.secret = None]
  <1>1. providers' = WithRow(providers, n, new)
    BY DEF Upsert
  <1>2. /\ new.kind = row.kind /\ new.conf = row.conf /\ new.enabled = row.enabled /\ new.by = row.by
        /\ row.secret # Omitted => new.secret = row.secret /\ new.key = row.key
        /\ row.secret = Omitted /\ Has(n) => new.secret = providers[n].secret /\ new.key = providers[n].key
        /\ row.secret = Omitted /\ ~Has(n) => new.secret = None
    BY DEF RowFields
  <1> HIDE DEF new
  <1>3. /\ DOMAIN providers' = DOMAIN providers \cup {n} /\ providers'[n] = new
        /\ \A m \in DOMAIN providers : m # n => providers'[m] = providers[m]
    BY <1>1 DEF WithRow
  <1> QED BY <1>2, <1>3

\* A row that names no secret keeps the one that is stored.
LEMMA UpsertedSecret ==
  ASSUME NEW n, NEW row, DOMAIN row = RowFields, providers' = Upsert(n, row)
  PROVE  providers'[n].secret = IF row.secret # Omitted THEN row.secret
                                ELSE IF Has(n) THEN providers[n].secret ELSE None
  <1>1. /\ row.secret # Omitted => providers'[n].secret = row.secret /\ providers'[n].key = row.key
        /\ row.secret = Omitted /\ Has(n) => /\ providers'[n].secret = providers[n].secret
                                             /\ providers'[n].key = providers[n].key
        /\ row.secret = Omitted /\ ~Has(n) => providers'[n].secret = None
    BY UpsertSays
  <1> QED BY <1>1

\* Whatever row is written, a secret that is there stays and opens with the key.
LEMMA UpsertKeeps ==
  ASSUME NEW n, NEW row, DOMAIN row = RowFields, providers' = Upsert(n, row), row.key = key, key' = key,
         row.secret # None \/ row.secret = Omitted, \A m \in DOMAIN providers : Readable(m)
  PROVE  /\ \A m \in DOMAIN providers' : Readable(m)'
         /\ \A m \in DOMAIN providers : providers[m].secret # None => providers'[m].secret # None
  <1>0. /\ DOMAIN providers' = DOMAIN providers \cup {n}
        /\ \A m \in DOMAIN providers : m # n => providers'[m] = providers[m]
        /\ row.secret # Omitted => providers'[n].secret = row.secret /\ providers'[n].key = row.key
        /\ row.secret = Omitted /\ Has(n) => /\ providers'[n].secret = providers[n].secret
                                             /\ providers'[n].key = providers[n].key
        /\ row.secret = Omitted /\ ~Has(n) => providers'[n].secret = None
    BY UpsertSays
  <1>1. ASSUME NEW m \in DOMAIN providers'
        PROVE  Readable(m)' /\ (m \in DOMAIN providers /\ providers[m].secret # None => providers'[m].secret # None)
    <2>1. CASE m # n
      <3>1. m \in DOMAIN providers /\ providers'[m] = providers[m]
        BY <1>0, <1>1, <2>1
      <3> QED BY <3>1 DEF Readable
    <2>2. CASE m = n
      <3>1. CASE row.secret # Omitted
        BY <2>2, <3>1, <1>0 DEF Readable
      <3>2. CASE row.secret = Omitted /\ Has(n)
        BY <2>2, <3>2, <1>0 DEF Readable, Has
      <3>3. CASE row.secret = Omitted /\ ~Has(n)
        BY <2>2, <3>3, <1>0 DEF Readable, Has
      <3> QED BY <3>1, <3>2, <3>3
    <2> QED BY <2>1, <2>2
  <1> QED BY <1>0, <1>1

-----------------------------------------------------------------------------
(* Settings: what a statement of one request leaves of the others.         *)

\* A handler goes on.
LEMMA GoesSays ==
  ASSUME ClientsInv, NEW c \in Clients, NEW to, NEW row, Goes(c, to, row)
  PROVE  /\ DOMAIN handlers' = Clients /\ \A d \in Clients : d # c => handlers'[d] = handlers[d]
         /\ DOMAIN handlers'[c] = HandlerFields
         /\ handlers'[c].at = to /\ handlers'[c].req = handlers[c].req /\ handlers'[c].row = row
  <1> DEFINE h == [handlers[c] EXCEPT !.at = to, !.row = row]
  <1>1. DOMAIN handlers[c] = HandlerFields /\ DOMAIN handlers = Clients
    BY DEF ClientsInv
  <1>2. DOMAIN h = HandlerFields /\ h.at = to /\ h.req = handlers[c].req /\ h.row = row
    BY <1>1 DEF HandlerFields
  <1>3. handlers' = [handlers EXCEPT ![c] = h]
    BY DEF Goes
  <1> HIDE DEF h
  <1> QED BY <1>1, <1>2, <1>3

\* A handler answers.
LEMMA LeavesSays ==
  ASSUME ClientsInv, NEW c \in Clients, Leaves(c)
  PROVE  /\ DOMAIN handlers' = Clients /\ \A d \in Clients : d # c => handlers'[d] = handlers[d]
         /\ DOMAIN handlers'[c] = HandlerFields /\ handlers'[c].at = "free"
  <1>1. DOMAIN NoRequest = HandlerFields /\ NoRequest.at = "free"
    BY DEF NoRequest, HandlerFields
  <1> QED BY <1>1 DEF ClientsInv, Leaves

\* A statement of one request that leaves the names of the others alone.
LEMMA OthersGoOn ==
  ASSUME SettingsInv, NEW c \in Clients, handlers[c].at # "free", UNCHANGED <<key, process, writers>>,
         DOMAIN handlers' = Clients, \A d \in Clients : d # c => handlers'[d] = handlers[d],
         DOMAIN handlers'[c] = HandlerFields, handlers'[c].at \in {"free", "look", "upsert"} \cup OnProvider,
         handlers'[c].at # "free" => handlers'[c].req = handlers[c].req,
         DOMAIN providers \subseteq DOMAIN providers', DOMAIN routes \subseteq DOMAIN routes',
         providers' = providers \/ handlers[c].req.on = "provider",
         routes' = routes \/ handlers[c].req.on = "route",
         \A m \in DOMAIN providers : m # handlers[c].req.name => providers'[m] = providers[m],
         DOMAIN providers' \subseteq DOMAIN providers \cup {handlers[c].req.name},
         \A m \in DOMAIN routes : m # handlers[c].req.name => routes'[m] = routes[m]
  PROVE  ClientsInv' /\ \A d \in Clients : d # c => WorkInv(d)'
  <1>1. ClientsInv'
    <2>1. ASSUME NEW d \in Clients
          PROVE  /\ DOMAIN handlers'[d] = HandlerFields
                 /\ handlers'[d].at \in {"free", "look", "upsert"} \cup OnProvider
                 /\ handlers'[d].at # "free" => /\ process' = "up" /\ handlers'[d].req \in Requests
                                                /\ handlers[d].at # "free" /\ handlers'[d].req = handlers[d].req
      BY DEF SettingsInv, ClientsInv
    <2>2. ASSUME NEW d \in Clients, NEW e \in Clients, d # e, handlers'[d].at # "free", handlers'[e].at # "free",
                 handlers'[d].req.on = handlers'[e].req.on, handlers'[d].req.name = handlers'[e].req.name
          PROVE  ~Alone(d)'
      BY <2>1, <2>2 DEF SettingsInv, ClientsInv, Alone
    <2> QED BY <2>1, <2>2 DEF ClientsInv
  <1>2. ASSUME NEW d \in Clients, d # c
        PROVE  WorkInv(d)'
    <2>0. PICK h : h = handlers[d]
      OBVIOUS
    <2>1. handlers[d] = h /\ handlers'[d] = h /\ WorkInv(d) /\ Alone(d)' = Alone(d)
      BY <1>2, <2>0 DEF SettingsInv, Alone
    <2>2. CASE h.at = "free" \/ h.at = "look"
      BY <2>1, <2>2 DEF WorkInv, OnProvider
    <2>3. CASE h.at \in OnProvider
      <3>1. h.req.on = "provider" /\ h.at # "free" /\ h.at # "upsert"
        BY <2>1, <2>3 DEF WorkInv, OnProvider
      <3>2. Alone(d) => /\ Has(h.req.name)' = Has(h.req.name)
                        /\ Has(h.req.name) => providers'[h.req.name] = providers[h.req.name]
        <4>1. CASE providers' = providers
          BY <4>1 DEF Has
        <4>2. CASE handlers[c].req.on = "provider"
          <5>1. Alone(d) => handlers[c].req.name # h.req.name
            BY <1>2, <2>1, <3>1, <4>2 DEF SettingsInv, ClientsInv
          <5> QED BY <5>1 DEF Has
        <4> QED BY <4>1, <4>2
      <3>3. Alone(d) => EffectiveSecret(h.req)' = EffectiveSecret(h.req)
        BY <2>1, <3>2 DEF EffectiveSecret, Has
      <3>4. h.row.key = key' /\ (Alone(d) /\ h.req.verb = "PATCH" => Patched(h.req, providers[h.req.name])' = Patched(h.req, providers[h.req.name]))
        BY <2>1, <2>3, <3>2 DEF WorkInv, Patched
      <3>5. Alone(d) /\ h.at \in {"lookup", "update", "insert"} => Builds(h.req, h.row)'
        BY <2>1, <3>3 DEF WorkInv, Builds
      <3> QED BY <2>1, <2>3, <3>1, <3>2, <3>4, <3>5 DEF WorkInv
    <2>4. CASE h.at = "upsert"
      <3>1. h.req.on = "route" /\ h.row.provs \subseteq DOMAIN providers'
        BY <2>1, <2>4 DEF WorkInv
      <3>2. Alone(d) /\ h.req.verb = "PATCH" =>
              /\ h.req.name \in DOMAIN routes' /\ routes'[h.req.name] = routes[h.req.name]
              /\ h.row = PatchedRoute(h.req, routes[h.req.name])
        <4>1. CASE routes' = routes
          BY <2>1, <2>4, <4>1 DEF WorkInv
        <4>2. CASE handlers[c].req.on = "route"
          <5>1. Alone(d) => handlers[c].req.name # h.req.name
            BY <1>2, <2>1, <2>4, <3>1, <4>2 DEF SettingsInv, ClientsInv
          <5> QED BY <2>1, <2>4, <5>1 DEF WorkInv
        <4> QED BY <4>1, <4>2
      <3>3. Alone(d) /\ h.req.verb = "PATCH" => h.row = PatchedRoute(h.req, routes[h.req.name])'
        BY <2>1, <3>2 DEF PatchedRoute
      <3> QED BY <2>1, <2>4, <3>1, <3>2, <3>3 DEF WorkInv, OnProvider
    <2> QED BY <2>1, <2>2, <2>3, <2>4 DEF SettingsInv, ClientsInv
  <1> QED BY <1>1, <1>2

-----------------------------------------------------------------------------
(* Settings: the statements.                                               *)

\* A statement that only reads.
LEMMA ReadsKeep ==
  ASSUME SettingsInv, NEW c \in Clients, handlers[c].at # "free", Reads,
         \/ Leaves(c)
         \/ \E to \in {"look", "upsert"} \cup OnProvider : \E row : Goes(c, to, row),
         handlers'[c].at # "free" => WorkInv(c)'
  PROVE  SettingsInv'
  <1>1. UNCHANGED <<key, process, boot, providers, routes, writers>>
    BY DEF Reads, Quiet
  <1>2. /\ DOMAIN handlers' = Clients /\ \A d \in Clients : d # c => handlers'[d] = handlers[d]
        /\ DOMAIN handlers'[c] = HandlerFields /\ handlers'[c].at \in {"free", "look", "upsert"} \cup OnProvider
        /\ handlers'[c].at # "free" => handlers'[c].req = handlers[c].req
    BY GoesSays, LeavesSays DEF SettingsInv
  <1>3. ClientsInv' /\ \A d \in Clients : d # c => WorkInv(d)'
    BY <1>1, <1>2, OthersGoOn
  <1>4. WorkInv(c)'
    BY DEF WorkInv, OnProvider
  <1>5. TablesWork' /\ BootInv'
    BY <1>1 DEF SettingsInv, TablesWork, BootInv, Readable, Has
  <1> QED BY <1>3, <1>4, <1>5 DEF SettingsInv

\* A request comes in.
LEMMA ReceiveKeeps ==
  ASSUME SettingsInv, NEW c \in Clients, NEW r \in Requests, Receive(c, r)
  PROVE  SettingsInv'
  <1>1. /\ process = "up" /\ handlers[c].at = "free" /\ UNCHANGED <<providers, routes, key, process, boot>>
        /\ handlers' = [handlers EXCEPT ![c] = [at |-> "look", req |-> r, row |-> None]]
        /\ writers' = IF Busy(r) THEN writers \cup {<<r.on, r.name>>} ELSE writers
    BY DEF Receive
  <1>2. /\ DOMAIN handlers' = Clients /\ \A d \in Clients : d # c => handlers'[d] = handlers[d]
        /\ DOMAIN handlers'[c] = HandlerFields /\ handlers'[c].at = "look" /\ handlers'[c].req = r
    BY <1>1 DEF SettingsInv, ClientsInv, HandlerFields
  <1>3. writers \subseteq writers' /\ (Busy(r) => <<r.on, r.name>> \in writers')
    BY <1>1
  <1>4. ClientsInv'
    <2>1. ASSUME NEW d \in Clients
          PROVE  /\ DOMAIN handlers'[d] = HandlerFields
                 /\ handlers'[d].at \in {"free", "look", "upsert"} \cup OnProvider
                 /\ handlers'[d].at # "free" => process' = "up" /\ handlers'[d].req \in Requests
      BY <1>1, <1>2 DEF SettingsInv, ClientsInv
    <2>2. ASSUME NEW d \in Clients, NEW e \in Clients, d # e, handlers'[d].at # "free", handlers'[e].at # "free",
                 handlers'[d].req.on = handlers'[e].req.on, handlers'[d].req.name = handlers'[e].req.name
          PROVE  <<handlers'[d].req.on, handlers'[d].req.name>> \in writers'
      <3>1. CASE d = c \/ e = c
        <4>1. Busy(r)
          BY <1>2, <2>2, <3>1 DEF Busy
        <4> QED BY <1>2, <1>3, <2>2, <3>1, <4>1
      <3>2. CASE d # c /\ e # c
        BY <1>2, <1>3, <2>2, <3>2 DEF SettingsInv, ClientsInv, Alone
      <3> QED BY <3>1, <3>2
    <2> QED BY <1>2, <2>1, <2>2 DEF ClientsInv, Alone
  <1>5. ASSUME NEW d \in Clients PROVE WorkInv(d)'
    <2>1. CASE d = c
      BY <1>2, <2>1 DEF WorkInv, OnProvider
    <2>2. CASE d # c
      <3>0. PICK h : h = handlers[d]
        OBVIOUS
      <3>1. handlers[d] = h /\ handlers'[d] = h /\ (Alone(d)' => Alone(d)) /\ WorkInv(d)
        BY <1>2, <1>3, <2>2, <3>0 DEF SettingsInv, Alone
      <3> QED BY <1>1, <3>1 DEF WorkInv, Has, Patched, PatchedRoute, Builds, EffectiveSecret
    <2> QED BY <2>1, <2>2
  <1>6. TablesWork'
    BY <1>1, <1>3 DEF SettingsInv, TablesWork, Readable, Has
  <1>7. BootInv'
    BY <1>1 DEF SettingsInv, BootInv, Has
  <1> QED BY <1>4, <1>5, <1>6, <1>7 DEF SettingsInv

\* A row that is made from a request.
LEMMA RowSays ==
  ASSUME NEW r, NEW by
  PROVE  /\ DOMAIN Row(r, by) = RowFields /\ Row(r, by).key = key /\ Row(r, by).secret = r.secret
         /\ Row(r, by).by = by
  BY DEF Row, RowFields

\* The row of the provider is read, or made from the request.
LEMMA LookProviderKeeps ==
  ASSUME SettingsInv, NEW c \in Clients, LookProvider(c)
  PROVE  SettingsInv'
  <1>0. PICK r : r = handlers[c].req
    OBVIOUS
  <1>1. /\ handlers[c].at = "look" /\ r.on = "provider" /\ Reads
        /\ \/ Leaves(c)
           \/ r.verb # "PATCH" /\ Goes(c, "build", Row(r, "api"))
           \/ Has(r.name) /\ Goes(c, "build", Patched(r, providers[r.name]))
    BY <1>0 DEF LookProvider
  <1>2. UNCHANGED <<key, providers, routes, writers>>
    BY <1>1 DEF Reads, Quiet
  <1>3. CASE Leaves(c)
    BY <1>1, <1>3, LeavesSays, ReadsKeep DEF SettingsInv
  <1>4. CASE r.verb # "PATCH" /\ Goes(c, "build", Row(r, "api"))
    <2>1. PICK row : row = Row(r, "api")
      OBVIOUS
    <2>2. handlers'[c].at = "build" /\ handlers'[c].req = r /\ handlers'[c].row = row
      BY <1>0, <1>4, <2>1, GoesSays DEF SettingsInv
    <2>3. DOMAIN row = RowFields /\ row.key = key /\ row.secret = r.secret /\ row.by = "api"
      BY <2>1, RowSays
    <2>4. WorkInv(c)'
      BY <1>1, <1>2, <1>4, <2>2, <2>3 DEF WorkInv
    <2>5. "build" \in {"look", "upsert"} \cup OnProvider
      BY DEF OnProvider
    <2> QED BY <1>1, <1>4, <2>4, <2>5, ReadsKeep
  <1>5. CASE Has(r.name) /\ Goes(c, "build", Patched(r, providers[r.name]))
    <2>1. PICK row : row = Patched(r, providers[r.name])
      OBVIOUS
    <2>2. handlers'[c].at = "build" /\ handlers'[c].req = r /\ handlers'[c].row = row
      BY <1>0, <1>5, <2>1, GoesSays DEF SettingsInv
    <2>3. DOMAIN row = RowFields /\ row.key = key /\ row.secret = r.secret /\ row.by = "api"
      BY <2>1 DEF Patched, RowFields
    <2>4. Has(r.name)' /\ row = Patched(r, providers[r.name])'
      BY <1>2, <1>5, <2>1 DEF Has, Patched
    <2>5. WorkInv(c)'
      BY <1>1, <1>2, <2>2, <2>3, <2>4 DEF WorkInv
    <2>6. "build" \in {"look", "upsert"} \cup OnProvider
      BY DEF OnProvider
    <2> QED BY <1>1, <1>5, <2>5, <2>6, ReadsKeep
  <1> QED BY <1>1, <1>3, <1>4, <1>5

\* It is tried, and then looked up again; the row stays the same.
LEMMA BuildKeeps ==
  ASSUME SettingsInv, NEW c \in Clients, Build(c) \/ LookUpName(c)
  PROVE  SettingsInv'
  <1>0. PICK r, row : r = handlers[c].req /\ row = handlers[c].row
    OBVIOUS
  <1>1. /\ handlers[c].at \in {"build", "lookup"} /\ Reads
        /\ \/ Leaves(c)
           \/ \E to \in {"lookup", "update", "insert"} :
                Goes(c, to, row) /\ (handlers[c].at = "build" => Builds(r, row))
    BY <1>0 DEF Build, LookUpName
  <1>2. UNCHANGED <<key, providers, routes, writers>>
    BY <1>1 DEF Reads, Quiet
  <1>3. CASE Leaves(c)
    BY <1>1, <1>3, LeavesSays, ReadsKeep DEF SettingsInv
  <1>4. ASSUME NEW to \in {"lookup", "update", "insert"}, Goes(c, to, row),
               handlers[c].at = "build" => Builds(r, row)
        PROVE  SettingsInv'
    <2>1. handlers'[c].at = to /\ handlers'[c].req = r /\ handlers'[c].row = row /\ Alone(c)' = Alone(c)
      BY <1>0, <1>2, <1>4, GoesSays DEF SettingsInv, Alone
    <2>2. /\ r.on = "provider" /\ DOMAIN row = RowFields /\ row.key = key /\ row.secret = r.secret /\ row.by = "api"
          /\ Alone(c) /\ r.verb = "PATCH" => Has(r.name) /\ row = Patched(r, providers[r.name])
          /\ Alone(c) => Builds(r, row)
      BY <1>0, <1>1, <1>4 DEF SettingsInv, WorkInv, OnProvider
    <2>3. Has(r.name)' = Has(r.name) /\ Patched(r, providers[r.name])' = Patched(r, providers[r.name])
          /\ Builds(r, row)' = Builds(r, row)
      BY <1>2 DEF Has, Patched, Builds, EffectiveSecret
    <2>4. WorkInv(c)'
      BY <1>2, <2>1, <2>2, <2>3 DEF WorkInv
    <2>5. to \in {"look", "upsert"} \cup OnProvider
      BY DEF OnProvider
    <2> QED BY <1>1, <1>4, <2>4, <2>5, ReadsKeep
  <1> QED BY <1>1, <1>3, <1>4

\* The row of the route is read, or made from the request.
LEMMA LookRouteKeeps ==
  ASSUME SettingsInv, NEW c \in Clients, LookRoute(c)
  PROVE  SettingsInv'
  <1>0. PICK r : r = handlers[c].req
    OBVIOUS
  <1>1. /\ handlers[c].at = "look" /\ r.on = "route" /\ Reads /\ r \in Requests
        /\ \/ Leaves(c)
           \/ /\ r.provs # Omitted => KnownProviders(r.provs)
              /\ r.verb # "PATCH" /\ Goes(c, "upsert", RouteRow(r, "api"))
           \/ /\ r.provs # Omitted => KnownProviders(r.provs)
              /\ r.name \in DOMAIN routes /\ Goes(c, "upsert", PatchedRoute(r, routes[r.name]))
    BY <1>0 DEF LookRoute, SettingsInv, ClientsInv
  <1>2. UNCHANGED <<key, providers, routes, writers>>
    BY <1>1 DEF Reads, Quiet
  <1>3. CASE Leaves(c)
    BY <1>1, <1>3, LeavesSays, ReadsKeep DEF SettingsInv
  <1>4. CASE /\ r.provs # Omitted => KnownProviders(r.provs)
             /\ r.verb # "PATCH" /\ Goes(c, "upsert", RouteRow(r, "api"))
    <2>1. PICK row : row = RouteRow(r, "api")
      OBVIOUS
    <2>2. handlers'[c].at = "upsert" /\ handlers'[c].req = r /\ handlers'[c].row = row
      BY <1>0, <1>4, <2>1, GoesSays DEF SettingsInv
    <2>3. row.provs \subseteq DOMAIN providers
      BY <1>1, <1>4, <2>1, SettingsAssumption DEF RouteRow, KnownProviders, Has
    <2>4. WorkInv(c)'
      BY <1>1, <1>2, <1>4, <2>2, <2>3 DEF WorkInv, OnProvider
    <2> QED BY <1>1, <1>4, <2>4, ReadsKeep
  <1>5. CASE /\ r.provs # Omitted => KnownProviders(r.provs)
             /\ r.name \in DOMAIN routes /\ Goes(c, "upsert", PatchedRoute(r, routes[r.name]))
    <2>1. PICK row : row = PatchedRoute(r, routes[r.name])
      OBVIOUS
    <2>2. handlers'[c].at = "upsert" /\ handlers'[c].req = r /\ handlers'[c].row = row
      BY <1>0, <1>5, <2>1, GoesSays DEF SettingsInv
    <2>3. row.provs \subseteq DOMAIN providers
      <3>1. row.provs = IF r.provs = Omitted THEN routes[r.name].provs ELSE r.provs
        BY <2>1 DEF PatchedRoute, Given
      <3> QED BY <1>5, <3>1 DEF KnownProviders, Has, SettingsInv, TablesWork
    <2>4. r.name \in DOMAIN routes' /\ row = PatchedRoute(r, routes[r.name])'
      BY <1>2, <1>5, <2>1 DEF PatchedRoute
    <2>5. WorkInv(c)'
      BY <1>1, <1>2, <2>2, <2>3, <2>4 DEF WorkInv, OnProvider
    <2> QED BY <1>1, <1>5, <2>5, ReadsKeep
  <1> QED BY <1>1, <1>3, <1>4, <1>5

\* What a handler writes of a provider.
LEMMA WriteSays ==
  ASSUME SettingsInv, NEW c \in Clients, Write(c)
  PROVE  /\ handlers[c].at \in {"update", "insert"} /\ Leaves(c) /\ UNCHANGED <<key, process, boot, routes, writers>>
         /\ handlers[c].req.on = "provider" /\ DOMAIN handlers[c].row = RowFields /\ handlers[c].row.key = key
         /\ handlers[c].row.secret = handlers[c].req.secret /\ handlers[c].row.by = "api"
         /\ handlers[c].row.secret # None /\ process = "up"
         /\ providers' = providers \/ providers' = Upsert(handlers[c].req.name, handlers[c].row)
  <1>1. handlers[c].at \in {"update", "insert"} /\ Leaves(c) /\ UNCHANGED <<key, process, boot, routes, writers>>
        /\ (providers' = providers \/ providers' = Upsert(handlers[c].req.name, handlers[c].row))
    BY DEF Write, Quiet
  <1>2. handlers[c].req \in Requests /\ process = "up" /\ WorkInv(c)
    BY <1>1 DEF SettingsInv, ClientsInv
  <1>3. /\ handlers[c].req.on = "provider" /\ DOMAIN handlers[c].row = RowFields /\ handlers[c].row.key = key
        /\ handlers[c].row.secret = handlers[c].req.secret /\ handlers[c].row.by = "api"
    BY <1>1, <1>2 DEF WorkInv, OnProvider
  <1> QED BY <1>1, <1>2, <1>3, SettingsAssumption

\* An upsert: what the row was tried with is what it has now, unless it was not alone.
LEMMA WriteKeeps ==
  ASSUME SettingsInv, NEW c \in Clients, Write(c)
  PROVE  SettingsInv'
  <1>0. PICK r, row : r = handlers[c].req /\ row = handlers[c].row
    OBVIOUS
  <1>1. /\ handlers[c].at \in {"update", "insert"} /\ Leaves(c) /\ UNCHANGED <<key, process, boot, routes, writers>>
        /\ r.on = "provider" /\ DOMAIN row = RowFields /\ row.key = key /\ row.secret = r.secret /\ row.by = "api"
        /\ row.secret # None /\ process = "up"
        /\ providers' = providers \/ providers' = Upsert(r.name, row)
    BY <1>0, WriteSays
  <1>2. /\ DOMAIN handlers' = Clients /\ \A d \in Clients : d # c => handlers'[d] = handlers[d]
        /\ DOMAIN handlers'[c] = HandlerFields /\ handlers'[c].at = "free"
    BY <1>1, LeavesSays DEF SettingsInv
  <1>3. WorkInv(c)'
    BY <1>2 DEF WorkInv, OnProvider
  <1>4. CASE providers' = providers
    <2>1. ClientsInv' /\ \A d \in Clients : d # c => WorkInv(d)'
      BY <1>1, <1>2, <1>4, OthersGoOn
    <2>2. TablesWork' /\ BootInv'
      BY <1>1, <1>4 DEF SettingsInv, TablesWork, BootInv, Readable, Has
    <2> QED BY <1>3, <2>1, <2>2 DEF SettingsInv
  <1>5. CASE providers' = Upsert(r.name, row)
    <2> DEFINE n == r.name
    <2>1. /\ DOMAIN providers' = DOMAIN providers \cup {n}
          /\ \A m \in DOMAIN providers : m # n => providers'[m] = providers[m]
          /\ providers'[n].kind = row.kind /\ providers'[n].conf = row.conf
          /\ providers'[n].secret = EffectiveSecret(r)
      <3>1. DOMAIN row = RowFields /\ providers' = Upsert(n, row)
        BY <1>1, <1>5
      <3>2. /\ DOMAIN providers' = DOMAIN providers \cup {n}
            /\ \A m \in DOMAIN providers : m # n => providers'[m] = providers[m]
            /\ providers'[n].kind = row.kind /\ providers'[n].conf = row.conf
        BY <3>1, UpsertSays
      <3>3. providers'[n].secret = IF row.secret # Omitted THEN row.secret
                                   ELSE IF Has(n) THEN providers[n].secret ELSE None
        BY <3>1, UpsertedSecret
      <3> QED BY <1>1, <3>2, <3>3 DEF EffectiveSecret
    <2>2. ClientsInv' /\ \A d \in Clients : d # c => WorkInv(d)'
      <3>1. handlers[c].at # "free" /\ handlers'[c].at \in {"free", "look", "upsert"} \cup OnProvider
        BY <1>1, <1>2
      <3>2. DOMAIN providers \subseteq DOMAIN providers' /\ DOMAIN routes \subseteq DOMAIN routes'
            /\ \A m \in DOMAIN routes : routes'[m] = routes[m]
        BY <1>1, <2>1
      <3> QED BY <1>0, <1>1, <1>2, <2>1, <3>1, <3>2, OthersGoOn
    <2>3. \A m \in DOMAIN providers' : Readable(m)'
      <3>1. \A m \in DOMAIN providers : Readable(m)
        BY <1>1 DEF SettingsInv, TablesWork
      <3> QED BY <1>1, <1>5, <3>1, UpsertKeeps
    <2>4. <<"provider", n>> \notin writers => Buildable(row.kind, row.conf, EffectiveSecret(r))
      <3>1. Alone(c) => Builds(r, row)
        BY <1>0, <1>1 DEF SettingsInv, WorkInv
      <3> QED BY <1>0, <1>1, <3>1 DEF Alone, Builds
    <2>5. \A m \in DOMAIN providers' :
            LET p == providers'[m]
            IN  p.by = "api" /\ <<"provider", m>> \notin writers => Buildable(p.kind, p.conf, p.secret)
      <3> SUFFICES ASSUME NEW m \in DOMAIN providers', providers'[m].by = "api", <<"provider", m>> \notin writers
                   PROVE  Buildable(providers'[m].kind, providers'[m].conf, providers'[m].secret)
        OBVIOUS
      <3>1. CASE m = n
        BY <2>1, <2>4, <3>1
      <3>2. CASE m # n
        <4>1. m \in DOMAIN providers /\ providers'[m] = providers[m]
          BY <2>1, <3>2
        <4> QED BY <4>1 DEF SettingsInv, TablesWork
      <3> QED BY <3>1, <3>2
    <2>6. TablesWork'
      <3>1. \A t \in DOMAIN routes' : \A p \in routes'[t].provs : Has(p)'
        BY <1>1, <2>1 DEF SettingsInv, TablesWork, Has
      <3> QED BY <1>1, <2>3, <2>5, <3>1 DEF TablesWork
    <2>7. BootInv'
      BY <1>1, <2>1 DEF SettingsInv, BootInv, Has
    <2> QED BY <1>3, <2>2, <2>6, <2>7 DEF SettingsInv
  <1> QED BY <1>1, <1>4, <1>5

\* The route is written, with names that were looked up before.
LEMMA WriteRouteKeeps ==
  ASSUME SettingsInv, NEW c \in Clients, WriteRoute(c)
  PROVE  SettingsInv'
  <1>0. PICK r, row : r = handlers[c].req /\ row = handlers[c].row
    OBVIOUS
  <1>1. /\ handlers[c].at = "upsert" /\ Leaves(c) /\ UNCHANGED <<key, process, boot, providers, writers>>
        /\ routes' = WithRow(routes, r.name, row)
        /\ r.on = "route" /\ row.provs \subseteq DOMAIN providers
    BY <1>0 DEF WriteRoute, Quiet, SettingsInv, WorkInv
  <1>2. /\ DOMAIN handlers' = Clients /\ \A d \in Clients : d # c => handlers'[d] = handlers[d]
        /\ DOMAIN handlers'[c] = HandlerFields /\ handlers'[c].at = "free"
    BY <1>1, LeavesSays DEF SettingsInv
  <1>3. WorkInv(c)'
    BY <1>2 DEF WorkInv, OnProvider
  <1>4. /\ DOMAIN routes' = DOMAIN routes \cup {r.name} /\ routes'[r.name] = row
        /\ \A m \in DOMAIN routes : m # r.name => routes'[m] = routes[m]
    BY <1>1 DEF WithRow
  <1>5. ClientsInv' /\ \A d \in Clients : d # c => WorkInv(d)'
    <2>1. handlers[c].at # "free" /\ handlers'[c].at \in {"free", "look", "upsert"} \cup OnProvider
      BY <1>1, <1>2
    <2>2. DOMAIN routes \subseteq DOMAIN routes'
      BY <1>4
    <2> QED BY <1>0, <1>1, <1>2, <1>4, <2>1, <2>2, OthersGoOn
  <1>6. TablesWork' /\ BootInv'
    BY <1>1, <1>4 DEF SettingsInv, TablesWork, BootInv, Readable, Has
  <1> QED BY <1>3, <1>5, <1>6 DEF SettingsInv

\* While the process is not up there are no requests.
LEMMA NobodyWorks ==
  ASSUME SettingsInv, process # "up"
  PROVE  \A c \in Clients : handlers[c].at = "free"
  BY DEF SettingsInv, ClientsInv

\* Without a request nothing is held.
LEMMA FreeStay ==
  ASSUME DOMAIN handlers' = Clients, \A c \in Clients : DOMAIN handlers'[c] = HandlerFields /\ handlers'[c].at = "free"
  PROVE  ClientsInv' /\ \A c \in Clients : WorkInv(c)'
  BY DEF ClientsInv, WorkInv, OnProvider

\* A start: the key opens what there is, and each route comes after its providers.
LEMMA StartKeeps == ASSUME SettingsInv, StartProcess PROVE SettingsInv'
  <1>1. PICK config \in Configs :
          /\ key' = config.key
          /\ IF KeyFits(config.key, config)
             THEN process' = "seeding" /\ boot' = config.providers \o config.routes
             ELSE process' = "fatal" /\ boot' = <<>>
    BY DEF StartProcess
  <1>2. process = "down" /\ UNCHANGED <<providers, routes, handlers, writers>>
    BY DEF StartProcess
  <1>3. ClientsInv' /\ \A c \in Clients : WorkInv(c)'
    BY <1>2, NobodyWorks, FreeStay DEF SettingsInv, ClientsInv
  <1>4. TablesWork'
    <2>1. KeyFits(config.key, config) => \A n \in DOMAIN providers' : Readable(n)'
      BY <1>1, <1>2 DEF KeyFits, Readable
    <2> QED BY <1>1, <1>2, <2>1 DEF SettingsInv, TablesWork, Has
  <1>5. BootInv'
    <2>1. CASE boot' = <<>>
      BY <2>1 DEF BootInv
    <2>2. CASE boot' = config.providers \o config.routes
      <3> DEFINE P == config.providers  R == config.routes
      <3>1. /\ P \in Seq(Seeds) /\ R \in Seq(Seeds)
            /\ \A r \in ToSet(P) : r.on = "provider"
            /\ \A r \in ToSet(R) : \A p \in r.provs : \E q \in ToSet(P) : q.name = p
        <4>1. ToSet(P) \subseteq Seeds /\ ToSet(R) \subseteq Seeds
          BY DEF Seeds
        <4>2. P \in Seq(ToSet(P)) /\ R \in Seq(ToSet(R))
          BY SettingsAssumption
        <4>3. \A S, T : S \subseteq T => Seq(S) \subseteq Seq(T)
          OBVIOUS
        <4> QED BY <4>1, <4>2, <4>3, SettingsAssumption
      <3> HIDE DEF P, R
      <3>2. /\ Len(P) \in Nat /\ Len(R) \in Nat /\ P \o R \in Seq(Seeds) /\ DOMAIN (P \o R) = 1..(Len(P) + Len(R))
            /\ DOMAIN P = 1..Len(P) /\ DOMAIN R = 1..Len(R)
            /\ \A i \in 1..Len(P) : (P \o R)[i] = P[i]
            /\ \A i \in 1..(Len(P) + Len(R)) : i > Len(P) => i - Len(P) \in 1..Len(R) /\ (P \o R)[i] = R[i - Len(P)]
        BY <3>1
      <3>3. ASSUME NEW i \in DOMAIN (P \o R), (P \o R)[i].on = "route", NEW p \in (P \o R)[i].provs
            PROVE  \E j \in DOMAIN (P \o R) : j < i /\ (P \o R)[j].on = "provider" /\ (P \o R)[j].name = p
        <4>1. i > Len(P) /\ (P \o R)[i] \in ToSet(R)
          <5>1. ~(i \in 1..Len(P))
            <6>1. i \in 1..Len(P) => (P \o R)[i] \in ToSet(P)
              BY <3>2 DEF ToSet
            <6> QED BY <3>1, <3>3, <6>1
          <5>2. i > Len(P)
            BY <3>2, <5>1
          <5>3. i - Len(P) \in DOMAIN R /\ (P \o R)[i] = R[i - Len(P)]
            BY <3>2, <5>2
          <5> QED BY <5>2, <5>3 DEF ToSet
        <4>2. PICK q \in ToSet(P) : q.name = p
          BY <3>1, <3>3, <4>1
        <4>3. PICK j \in DOMAIN P : P[j] = q
          BY DEF ToSet
        <4>4. j \in DOMAIN (P \o R) /\ j < i /\ (P \o R)[j] = q
          BY <3>2, <4>1, <4>3
        <4> QED BY <3>1, <4>2, <4>4
      <3>4. boot' = P \o R
        BY <2>2 DEF P, R
      <3>5. boot' \in Seq(Seeds)
        BY <3>2, <3>4
      <3>6. PICK b : b = P \o R
        OBVIOUS
      <3>7. \A i \in DOMAIN b : b[i].on = "route" => \A p \in b[i].provs :
              \E j \in DOMAIN b : j < i /\ b[j].on = "provider" /\ b[j].name = p
        BY <3>3, <3>6
      <3>8. boot' = b
        BY <3>4, <3>6
      <3> QED BY <3>5, <3>7, <3>8 DEF BootInv
    <2> QED BY <1>1, <2>1, <2>2
  <1> QED BY <1>3, <1>4, <1>5 DEF SettingsInv

\* What a seed writes.
LEMMA SeedSays ==
  ASSUME SettingsInv, Seed
  PROVE  /\ boot # <<>> /\ boot' = Tail(boot) /\ process = "seeding" /\ UNCHANGED <<key, process, handlers, writers>>
         /\ \/ /\ Head(boot).on = "provider" /\ UNCHANGED routes
               /\ \E row : /\ DOMAIN row = RowFields /\ row.key = key /\ row.by = "config"
                           /\ row.secret # None \/ row.secret = Omitted
                           /\ providers' = Upsert(Head(boot).name, row)
            \/ /\ Head(boot).on = "route" /\ UNCHANGED providers
               /\ \E row : row.provs = Head(boot).provs /\ routes' = WithRow(routes, Head(boot).name, row)
  <1>1. PICK r : r = Head(boot)
    OBVIOUS
  <1>2. \/ /\ r.on = "provider" /\ UNCHANGED routes
           /\ providers' = Upsert(r.name, [Row(r, "config") EXCEPT !.secret = IF @ = None THEN Omitted ELSE @])
        \/ r.on = "route" /\ UNCHANGED providers /\ routes' = WithRow(routes, r.name, RouteRow(r, "config"))
    BY <1>1 DEF Seed
  <1>3. ASSUME NEW row, row = [Row(r, "config") EXCEPT !.secret = IF @ = None THEN Omitted ELSE @]
        PROVE  DOMAIN row = RowFields /\ row.key = key /\ row.by = "config" /\ (row.secret # None \/ row.secret = Omitted)
    BY <1>3, RowSays DEF RowFields
  <1>4. RouteRow(r, "config").provs = r.provs
    BY DEF RouteRow
  <1>5. boot # <<>> /\ boot' = Tail(boot) /\ process = "seeding" /\ UNCHANGED <<key, process, handlers, writers>>
    BY DEF Seed
  <1> QED BY <1>1, <1>2, <1>3, <1>4, <1>5

\* A row of the configuration is written at a start.
LEMMA SeedKeeps == ASSUME SettingsInv, Seed PROVE SettingsInv'
  <1>0. PICK r : r = Head(boot)
    OBVIOUS
  <1>1. boot # <<>> /\ boot' = Tail(boot) /\ process = "seeding" /\ UNCHANGED <<key, process, handlers, writers>>
    BY SeedSays
  <1>2. ClientsInv' /\ \A c \in Clients : WorkInv(c)'
    BY <1>1, NobodyWorks, FreeStay DEF SettingsInv, ClientsInv
  <1>3. /\ boot' \in Seq(Seeds) /\ r = boot[1] /\ 1 \in DOMAIN boot /\ boot \in Seq(Seeds)
        /\ \A i \in DOMAIN boot' : i \in Nat \ {0} /\ i + 1 \in DOMAIN boot /\ boot'[i] = boot[i + 1]
        /\ \A j \in DOMAIN boot : j = 1 \/ (j - 1 \in DOMAIN boot' /\ boot'[j - 1] = boot[j] /\ j \in Nat)
    BY <1>0, <1>1 DEF SettingsInv, BootInv
  \* What was first is there now.
  <1>4. ASSUME DOMAIN providers \subseteq DOMAIN providers', r.on = "provider" => Has(r.name)'
        PROVE  BootInv'
    <2> SUFFICES ASSUME NEW i \in DOMAIN boot', boot'[i].on = "route", NEW p \in boot'[i].provs, ~Has(p)'
                 PROVE  \E j \in DOMAIN boot' : j < i /\ boot'[j].on = "provider" /\ boot'[j].name = p
      BY <1>3 DEF BootInv
    <2>1. ~Has(p) /\ i + 1 \in DOMAIN boot /\ boot'[i] = boot[i + 1] /\ i \in Nat
      BY <1>3, <1>4 DEF Has
    <2>2. PICK j \in DOMAIN boot : j < i + 1 /\ boot[j].on = "provider" /\ boot[j].name = p
      BY <2>1 DEF SettingsInv, BootInv
    <2>3. j # 1
      BY <1>3, <1>4, <2>2
    <2>4. j - 1 \in DOMAIN boot' /\ boot'[j - 1] = boot[j] /\ j \in Nat
      BY <1>3, <2>3
    <2>5. j - 1 < i
      BY <2>1, <2>2, <2>4
    <2> QED BY <2>2, <2>4, <2>5
  <1>5. CASE r.on = "provider" /\ UNCHANGED routes /\
             \E row : /\ DOMAIN row = RowFields /\ row.key = key /\ row.by = "config"
                      /\ row.secret # None \/ row.secret = Omitted
                      /\ providers' = Upsert(r.name, row)
    <2>1. PICK row : /\ DOMAIN row = RowFields /\ row.key = key /\ row.by = "config"
                     /\ row.secret # None \/ row.secret = Omitted
                     /\ providers' = Upsert(r.name, row)
      BY <1>5
    <2>2. /\ DOMAIN providers' = DOMAIN providers \cup {r.name} /\ providers'[r.name].by = "config"
          /\ \A m \in DOMAIN providers : m # r.name => providers'[m] = providers[m]
      BY <2>1, UpsertSays
    <2>3. \A m \in DOMAIN providers' : Readable(m)'
      <3>1. \A m \in DOMAIN providers : Readable(m)
        BY <1>1 DEF SettingsInv, TablesWork
      <3> QED BY <1>1, <2>1, <3>1, UpsertKeeps
    <2>4. TablesWork'
      <3>1. \A t \in DOMAIN routes' : \A p \in routes'[t].provs : Has(p)'
        BY <1>5, <2>2 DEF SettingsInv, TablesWork, Has
      <3>2. \A m \in DOMAIN providers' :
              LET p == providers'[m]
              IN  p.by = "api" /\ <<"provider", m>> \notin writers => Buildable(p.kind, p.conf, p.secret)
        BY <2>2 DEF SettingsInv, TablesWork
      <3> QED BY <1>1, <2>3, <3>1, <3>2 DEF TablesWork
    <2>5. BootInv'
      BY <1>4, <2>2 DEF Has
    <2> QED BY <1>2, <2>4, <2>5 DEF SettingsInv
  <1>6. CASE r.on = "route" /\ UNCHANGED providers /\
             \E row : row.provs = r.provs /\ routes' = WithRow(routes, r.name, row)
    <2>1. PICK row : row.provs = r.provs /\ routes' = WithRow(routes, r.name, row)
      BY <1>6
    <2>2. /\ DOMAIN routes' = DOMAIN routes \cup {r.name} /\ routes'[r.name] = row
          /\ \A m \in DOMAIN routes : m # r.name => routes'[m] = routes[m]
      BY <2>1 DEF WithRow
    <2>3. \A p \in r.provs : Has(p)
      <3>1. \A j \in DOMAIN boot : ~(j < 1)
        BY <1>3
      <3> QED BY <1>3, <1>6, <3>1 DEF SettingsInv, BootInv
    <2>4. TablesWork'
      BY <1>1, <1>6, <2>1, <2>2, <2>3 DEF SettingsInv, TablesWork, Readable, Has
    <2>5. BootInv'
      BY <1>4, <1>6
    <2> QED BY <1>2, <2>4, <2>5 DEF SettingsInv
  <1> QED BY <1>0, <1>5, <1>6, SeedSays

\* Each step of a handler or of a start.
LEMMA SettingsKeep ==
  ASSUME SettingsInv, [SettingsNext]_settingsVars
  PROVE  SettingsInv'
  <1>1. CASE Ready
    <2>1. process = "seeding" /\ process' = "up" /\ UNCHANGED <<providers, routes, key, boot, handlers, writers>>
      BY <1>1 DEF Ready
    <2>2. ClientsInv' /\ \A c \in Clients : WorkInv(c)'
      BY <2>1, NobodyWorks, FreeStay DEF SettingsInv, ClientsInv
    <2> QED BY <2>1, <2>2 DEF SettingsInv, TablesWork, BootInv, Readable, Has
  <1>2. CASE Die
    <2>1. /\ process' = "down" /\ boot' = <<>> /\ UNCHANGED <<providers, routes, key, writers>>
          /\ handlers' = [c \in Clients |-> NoRequest]
      BY <1>2 DEF Die
    <2>2. ClientsInv' /\ \A c \in Clients : WorkInv(c)'
      <3>1. DOMAIN NoRequest = HandlerFields /\ NoRequest.at = "free"
        BY DEF NoRequest, HandlerFields
      <3> QED BY <2>1, <3>1, FreeStay
    <2>3. BootInv'
      BY <2>1 DEF BootInv
    <2> QED BY <2>1, <2>2, <2>3 DEF SettingsInv, TablesWork, Has
  <1>3. CASE UNCHANGED settingsVars
    <2>1. UNCHANGED <<providers, routes, key, process, boot, handlers, writers>>
      BY <1>3 DEF settingsVars
    <2> QED BY <2>1 DEF SettingsInv, TablesWork, ClientsInv, BootInv, WorkInv, Alone, Readable, Has, Patched,
                        PatchedRoute, Builds, EffectiveSecret
  <1> QED BY <1>1, <1>2, <1>3, StartKeeps, SeedKeeps, ReceiveKeeps, LookProviderKeeps, BuildKeeps, WriteKeeps,
             LookRouteKeeps, WriteRouteKeeps DEF SettingsNext, Handlers

\* Before the first start the tables are empty.
LEMMA SettingsStart == SettingsInit => SettingsInv
  <1> SUFFICES ASSUME SettingsInit PROVE SettingsInv
    OBVIOUS
  <1>1. DOMAIN NoRequest = HandlerFields /\ NoRequest.at = "free"
    BY DEF NoRequest, HandlerFields
  <1>2. ClientsInv /\ \A c \in Clients : WorkInv(c)
    BY <1>1 DEF SettingsInit, ClientsInv, WorkInv, OnProvider
  <1> QED BY <1>2 DEF SettingsInit, SettingsInv, TablesWork, BootInv

\* While the process is up every secret opens with its key, routes name providers
\* that are there, and what the API wrote last, with no other request on the same
\* provider at work, builds.
THEOREM TablesAreGood == SettingsSpec => []TablesWork
  <1>1. SettingsInv => TablesWork
    BY DEF SettingsInv
  <1> QED BY <1>1, SettingsStart, SettingsKeep, PTL DEF SettingsSpec

-----------------------------------------------------------------------------
(* Settings: what no step may do.                                          *)

Stays ==
  /\ DOMAIN providers \subseteq DOMAIN providers' /\ DOMAIN routes \subseteq DOMAIN routes'
  /\ \A n \in DOMAIN providers : providers[n].secret # None => providers'[n].secret # None

\* A PATCH that was alone and is done.
Patches(c, r) ==
  /\ handlers[c].at \in {"update", "upsert"} /\ handlers'[c].at = "free"
  /\ process' = "up" /\ r.verb = "PATCH" /\ <<r.on, r.name>> \notin writers

PatchStays(c) ==
  \A r \in {handlers[c].req} : Patches(c, r) => Kept(r, Written(r)[r.name], Written(r)'[r.name])

\* Steps in which no request is done with its last statement.
LEMMA NoPatchEnds ==
  ASSUME SettingsInv,
         \/ process # "up"
         \/ process' # "up"
         \/ \E d \in Clients : /\ handlers[d].at \notin {"update", "upsert"}
                               /\ \A c \in Clients : c # d => handlers'[c] = handlers[c]
  PROVE  \A c \in Clients : PatchStays(c)
  <1> SUFFICES ASSUME NEW c \in Clients PROVE ~(handlers[c].at \in {"update", "upsert"} /\ handlers'[c].at = "free" /\ process' = "up")
    BY DEF PatchStays, Patches
  <1>1. CASE process # "up"
    BY <1>1, NobodyWorks
  <1>2. CASE process' # "up"
    BY <1>2
  <1>3. ASSUME NEW d \in Clients, handlers[d].at \notin {"update", "upsert"},
               \A b \in Clients : b # d => handlers'[b] = handlers[b]
        PROVE  ~(handlers[c].at \in {"update", "upsert"} /\ handlers'[c].at = "free" /\ process' = "up")
    <2>1. CASE c = d
      BY <1>3, <2>1
    <2>2. CASE c # d
      BY <1>3, <2>2
    <2> QED BY <2>1, <2>2
  <1> QED BY <1>1, <1>2, <1>3

\* A start overwrites only what it names.
LEMMA SeedStays == ASSUME SettingsInv, Seed PROVE Stays /\ \A c \in Clients : PatchStays(c)
  <1>0. PICK r : r = Head(boot)
    OBVIOUS
  <1>1. process = "seeding" /\ key' = key
    BY SeedSays
  <1>2. \A c \in Clients : PatchStays(c)
    BY <1>1, NoPatchEnds
  <1>3. ASSUME NEW row, DOMAIN row = RowFields, row.key = key, row.secret # None \/ row.secret = Omitted,
               providers' = Upsert(r.name, row), UNCHANGED routes
        PROVE  Stays
    <2>1. \A m \in DOMAIN providers : Readable(m)
      BY <1>1 DEF SettingsInv, TablesWork
    <2>2. \A m \in DOMAIN providers : providers[m].secret # None => providers'[m].secret # None
      BY <1>1, <1>3, <2>1, UpsertKeeps
    <2>3. DOMAIN providers' = DOMAIN providers \cup {r.name}
      BY <1>3, UpsertSays
    <2> QED BY <1>3, <2>2, <2>3 DEF Stays
  <1>4. ASSUME NEW row, routes' = WithRow(routes, r.name, row), UNCHANGED providers
        PROVE  Stays
    BY <1>4 DEF Stays, WithRow
  <1> QED BY <1>0, <1>2, <1>3, <1>4, SeedSays

\* A PATCH writes what it read, but for what it supplies.
LEMMA WriteStays ==
  ASSUME SettingsInv, NEW c \in Clients, Write(c)
  PROVE  Stays /\ \A d \in Clients : PatchStays(d)
  <1>0. PICK r, row : r = handlers[c].req /\ row = handlers[c].row
    OBVIOUS
  <1>1. /\ handlers[c].at \in {"update", "insert"} /\ Leaves(c) /\ UNCHANGED <<key, process, boot, routes, writers>>
        /\ r.on = "provider" /\ DOMAIN row = RowFields /\ row.key = key /\ row.secret = r.secret /\ row.by = "api"
        /\ row.secret # None /\ process = "up"
        /\ providers' = providers \/ providers' = Upsert(r.name, row)
    BY <1>0, WriteSays
  <1>2. Stays
    <2>1. CASE providers' = providers
      BY <1>1, <2>1 DEF Stays
    <2>2. CASE providers' = Upsert(r.name, row)
      <3>1. \A m \in DOMAIN providers : Readable(m)
        BY <1>1 DEF SettingsInv, TablesWork
      <3>2. \A m \in DOMAIN providers : providers[m].secret # None => providers'[m].secret # None
        BY <1>1, <2>2, <3>1, UpsertKeeps
      <3>3. DOMAIN providers' = DOMAIN providers \cup {r.name}
        BY <1>1, <2>2, UpsertSays
      <3> QED BY <1>1, <3>2, <3>3 DEF Stays
    <2> QED BY <1>1, <2>1, <2>2
  <1>3. ASSUME NEW d \in Clients, d # c PROVE PatchStays(d)
    <2>1. handlers'[d] = handlers[d]
      BY <1>1, <1>3, LeavesSays DEF SettingsInv
    <2> QED BY <2>1 DEF PatchStays, Patches
  <1>4. ASSUME r.verb = "PATCH", <<r.on, r.name>> \notin writers
        PROVE  Kept(r, providers[r.name], providers'[r.name])
    <2>0. PICK old : old = providers[r.name]
      OBVIOUS
    <2>1. Has(r.name) /\ row = Patched(r, old)
      BY <1>0, <1>1, <1>4, <2>0 DEF SettingsInv, WorkInv, OnProvider, Alone
    <2>2. /\ row.kind = Given(r.kind, old.kind) /\ row.enabled = Given(r.enabled, old.enabled)
          /\ row.conf = IF r.conf = Omitted THEN old.conf ELSE old.conf \cup r.conf
      BY <2>1 DEF Patched
    <2>3. CASE providers' = providers
      BY <1>1, <2>3 DEF Kept
    <2>4. CASE providers' = Upsert(r.name, row)
      <3>1. providers'[r.name].kind = row.kind /\ providers'[r.name].conf = row.conf
            /\ providers'[r.name].enabled = row.enabled
        <4>1. DOMAIN row = RowFields /\ providers' = Upsert(r.name, row)
          BY <1>1, <2>4
        <4>2. providers'[r.name].kind = row.kind
          BY <4>1, UpsertSays
        <4>3. providers'[r.name].conf = row.conf
          BY <4>1, UpsertSays
        <4>4. providers'[r.name].enabled = row.enabled
          BY <4>1, UpsertSays
        <4> QED BY <4>2, <4>3, <4>4
      <3>2. providers'[r.name].secret = IF row.secret # Omitted THEN row.secret
                                        ELSE IF Has(r.name) THEN providers[r.name].secret ELSE None
        BY <1>1, <2>4, UpsertedSecret
      <3>3. r.secret = Omitted => providers'[r.name].secret = old.secret
        BY <1>1, <2>0, <2>1, <3>2
      <3> QED BY <1>1, <2>0, <2>2, <3>1, <3>3 DEF Kept, Given
    <2> QED BY <1>1, <2>3, <2>4
  <1>5. PatchStays(c)
    <2>1. Written(r) = providers /\ Written(r)' = providers'
      BY <1>1 DEF Written
    <2> QED BY <1>0, <1>4, <2>1 DEF PatchStays, Patches
  <1> QED BY <1>2, <1>3, <1>5

\* A write of a route.
LEMMA WriteRouteStays ==
  ASSUME SettingsInv, NEW c \in Clients, WriteRoute(c)
  PROVE  Stays /\ \A d \in Clients : PatchStays(d)
  <1>0. PICK r, row : r = handlers[c].req /\ row = handlers[c].row
    OBVIOUS
  <1>1. /\ handlers[c].at = "upsert" /\ Leaves(c) /\ UNCHANGED providers
        /\ routes' = WithRow(routes, r.name, row) /\ r.on = "route"
        /\ r.verb = "PATCH" /\ <<r.on, r.name>> \notin writers =>
             r.name \in DOMAIN routes /\ row = PatchedRoute(r, routes[r.name])
    BY <1>0 DEF WriteRoute, SettingsInv, WorkInv, Alone
  <1>2. DOMAIN routes' = DOMAIN routes \cup {r.name} /\ routes'[r.name] = row
    BY <1>1 DEF WithRow
  <1>3. Stays
    BY <1>1, <1>2 DEF Stays
  <1>4. ASSUME NEW d \in Clients, d # c PROVE PatchStays(d)
    <2>1. handlers'[d] = handlers[d]
      BY <1>1, <1>4, LeavesSays DEF SettingsInv
    <2> QED BY <2>1 DEF PatchStays, Patches
  <1>5. ASSUME r.verb = "PATCH", <<r.on, r.name>> \notin writers
        PROVE  Kept(r, routes[r.name], routes'[r.name])
    <2>0. PICK old : old = routes[r.name]
      OBVIOUS
    <2>1. row = PatchedRoute(r, old)
      BY <1>1, <1>5, <2>0
    <2>2. row.provs = Given(r.provs, old.provs) /\ row.off = Given(r.off, old.off)
      BY <2>1 DEF PatchedRoute
    <2> QED BY <1>1, <1>2, <2>0, <2>2 DEF Kept, Given
  <1>6. PatchStays(c)
    <2>1. Written(r) = routes /\ Written(r)' = routes'
      BY <1>1 DEF Written
    <2> QED BY <1>0, <1>5, <2>1 DEF PatchStays, Patches
  <1> QED BY <1>3, <1>4, <1>6

\* No step loses what was set.
LEMMA StepStays ==
  ASSUME SettingsInv, SettingsNext
  PROVE  Stays /\ \A c \in Clients : PatchStays(c)
  <1>1. CASE StartProcess \/ Ready
    <2>1. UNCHANGED <<providers, routes>> /\ process # "up"
      BY <1>1 DEF StartProcess, Ready
    <2> QED BY <2>1, NoPatchEnds DEF Stays
  <1>2. CASE Die
    <2>1. UNCHANGED <<providers, routes>> /\ process' # "up"
      BY <1>2 DEF Die
    <2> QED BY <2>1, NoPatchEnds DEF Stays
  <1>3. ASSUME NEW c \in Clients, UNCHANGED <<providers, routes>>, handlers[c].at \notin {"update", "upsert"},
               \A d \in Clients : d # c => handlers'[d] = handlers[d]
        PROVE  Stays /\ \A d \in Clients : PatchStays(d)
    BY <1>3, NoPatchEnds DEF Stays
  <1>4. ASSUME NEW c \in Clients, NEW r \in Requests, Receive(c, r)
        PROVE  Stays /\ \A d \in Clients : PatchStays(d)
    <2>1. UNCHANGED <<providers, routes>> /\ handlers[c].at = "free"
          /\ \A d \in Clients : d # c => handlers'[d] = handlers[d]
      BY <1>4 DEF Receive, SettingsInv, ClientsInv
    <2> QED BY <1>3, <2>1
  <1>5. ASSUME NEW c \in Clients, LookProvider(c) \/ Build(c) \/ LookUpName(c) \/ LookRoute(c)
        PROVE  Stays /\ \A d \in Clients : PatchStays(d)
    <2>1. /\ UNCHANGED <<providers, routes>> /\ handlers[c].at \in {"look", "build", "lookup"}
          /\ \/ Leaves(c)
             \/ \E to, row : Goes(c, to, row)
      BY <1>5 DEF LookProvider, Build, LookUpName, LookRoute, Reads
    <2>2. \A d \in Clients : d # c => handlers'[d] = handlers[d]
      BY <2>1, GoesSays, LeavesSays DEF SettingsInv
    <2> QED BY <1>3, <2>1, <2>2
  <1> QED BY <1>1, <1>2, <1>4, <1>5, SeedStays, WriteStays, WriteRouteStays DEF SettingsNext, Handlers

\* No provider, no route and no secret ever goes, and a PATCH with no other request
\* on the same name changes nothing that it does not supply.
THEOREM WhatIsSetStays == SettingsSpec => NothingIsLost
  <1>1. SettingsInv /\ SettingsNext =>
          /\ DOMAIN providers \subseteq DOMAIN providers' /\ DOMAIN routes \subseteq DOMAIN routes'
          /\ \A n \in DOMAIN providers : providers[n].secret # None => providers'[n].secret # None
          /\ \A c \in Clients : \A r \in {handlers[c].req} :
               /\ handlers[c].at \in {"update", "upsert"} /\ handlers'[c].at = "free"
               /\ process' = "up" /\ r.verb = "PATCH" /\ <<r.on, r.name>> \notin writers
               => Kept(r, Written(r)[r.name], Written(r)'[r.name])
    BY StepStays DEF Stays, PatchStays, Patches
  <1> QED BY <1>1, SettingsStart, SettingsKeep, PTL DEF SettingsSpec, NothingIsLost
=============================================================================
