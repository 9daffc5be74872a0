------------------------------ MODULE ApplePush ------------------------------
(***************************************************************************)
(* Pushes through Apple: a delivery of the apns provider, which alerts     *)
(* every phone its event names (src/internal/providers/apns.go), and the   *)
(* push that rings a phone for a voice call (src/internal/voice/apns.go,   *)
(* invite of voice/service.go).  Deliveries run beside each other and      *)
(* share the provider token they sign in with; voice has one of its own.   *)
(*                                                                         *)
(* A phone has one device token with Apple at a time, here a number; the   *)
(* ones before it are gone.  Time is counted in twenties of minutes.       *)
(***************************************************************************)
EXTENDS Integers, Sequences, FiniteSets

CONSTANTS
  Iphones,
  Pages,       \* delivery -> the [phone, token, env] that its annotation names
  PageTries,   \* attempts the queue gives a delivery
  Lifetime,    \* apnsTokenLifetime
  Accepted,    \* how old a provider token may be for Apple
  MaxTwenties, MaxTokens, MaxMishaps  \* bounds

\* A page names its targets in a list.
ASSUME PushAssumption ==
  /\ \A d \in DOMAIN Pages : /\ DOMAIN Pages[d] = 1..Len(Pages[d])
                             /\ \A n \in DOMAIN Pages[d] : Pages[d][n].phone \in Iphones
  /\ {Lifetime, Accepted, PageTries, MaxTokens} \subseteq Nat \ {0}

VARIABLES
  twenty,      \* the time
  minted,      \* the cached provider tokens, by when they were made
  sending,     \* deliveries: the locals of Send
  inviting,    \* the locals of invite
  voip,        \* voice_devices: the device token of each phone
  issued,      \* the device token each phone has with Apple
  told,        \* history: the device token each phone last registered
  shown,       \* history: how often each target of a delivery showed it
  unclear,     \* history: deliveries with a lost answer or a crash
  mishaps
pushVars == <<twenty, minted, sending, inviting, voip, issued, told, shown, unclear, mishaps>>

Unmade  == -1  \* a provider token
NoToken == 0   \* a device token

Resting  == [at |-> "no", attempt |-> 0, jwt |-> Unmade, n |-> 1, sent |-> 0, tries |-> 0]
NoInvite == [at |-> "no", attempt |-> 0, jwt |-> Unmade,
             to |-> [phone |-> CHOOSE p \in Iphones : TRUE, token |-> NoToken]]

PushInit ==
  /\ twenty = 0 /\ mishaps = 0 /\ unclear = {}
  /\ minted = [u \in {"alerts", "calls"} |-> Unmade]
  /\ sending = [d \in DOMAIN Pages |-> Resting] /\ inviting = NoInvite
  /\ issued = [p \in Iphones |-> 1] /\ voip = issued /\ told = issued
  /\ shown = [d \in DOMAIN Pages |-> [n \in DOMAIN Pages[d] |-> 0]]

-----------------------------------------------------------------------------
(* One push.                                                               *)

\* providerToken: the cached one while it is young, unless Apple refused it.
ProviderToken(user, force) ==
  IF ~force /\ minted[user] # Unmade /\ twenty - minted[user] < Lifetime THEN minted[user] ELSE twenty

\* A request goes out, signed; job is who sends it.
Signed(user, job) ==
  [job EXCEPT !.at = "asked", !.jwt = ProviderToken(user, job.attempt > 0)]
Minted(user, job) == minted' = [minted EXCEPT ![user] = ProviderToken(user, job.attempt > 0)]

\* What Apple makes of a request.
Apple(to, jwt) == IF twenty - jwt > Accepted THEN "refused"
                  ELSE IF to.token # issued[to.phone] THEN "gone" ELSE "ok"

\* What the sender hears: that, or the token is refused though it is young,
\* or something else goes wrong before or after Apple has taken the push.
Hears(to, jwt, heard) ==
  \/ heard = Apple(to, jwt) /\ UNCHANGED mishaps
  \/ heard \in {"refused", "failed", "lost"} /\ heard # Apple(to, jwt)
     /\ mishaps < MaxMishaps /\ mishaps' = mishaps + 1
Displays(to, jwt, heard) == heard \in {"ok", "lost"} /\ Apple(to, jwt) = "ok"

\* A refused provider token is replaced once.
AsksAnew(job, heard) == heard = "refused" /\ job.attempt = 0
Anew(job) == [job EXCEPT !.at = "ask", !.attempt = 1]

-----------------------------------------------------------------------------
(* Send of the apns provider.                                              *)

\* Nobody is paged in an environment that is not one of Apple's.
Astray(to) == to.env \notin {"development", "production"}

NextTarget(job, got) == [job EXCEPT !.at = "ask", !.n = @ + 1, !.attempt = 0, !.jwt = Unmade,
                                    !.sent = @ + got]

TakeUp(d) ==
  /\ sending[d].at = "no" /\ sending[d].tries < PageTries
  /\ sending' = [sending EXCEPT ![d] = [Resting EXCEPT !.at = "ask", !.tries = sending[d].tries + 1]]
  /\ UNCHANGED <<twenty, minted, inviting, voip, issued, told, shown, unclear, mishaps>>

RequestAlert(d) ==
  /\ sending[d].at = "ask" /\ sending[d].n \in DOMAIN Pages[d]
  /\ LET job == sending[d]
     IN  IF Astray(Pages[d][job.n])
         THEN sending' = [sending EXCEPT ![d] = NextTarget(job, 0)] /\ UNCHANGED minted
         ELSE sending' = [sending EXCEPT ![d] = Signed("alerts", job)] /\ Minted("alerts", job)
  /\ UNCHANGED <<twenty, inviting, voip, issued, told, shown, unclear, mishaps>>

HearAlert(d) ==
  /\ sending[d].at = "asked"
  /\ LET job == sending[d]
         to  == Pages[d][job.n]
     IN  \E heard \in {"ok", "gone", "refused", "failed", "lost"} :
           /\ Hears(to, job.jwt, heard)
           /\ sending' = [sending EXCEPT ![d] = IF AsksAnew(job, heard) THEN Anew(job)
                                                ELSE NextTarget(job, IF heard = "ok" THEN 1 ELSE 0)]
           /\ shown' = IF Displays(to, job.jwt, heard) THEN [shown EXCEPT ![d][job.n] = @ + 1] ELSE shown
           /\ unclear' = IF heard = "lost" THEN unclear \cup {d} ELSE unclear
  /\ UNCHANGED <<twenty, minted, inviting, voip, issued, told>>

Succeeds_Everywhere(job) == job.sent = job.n - 1
\* The send fails only when no device got it.
Succeeds(job) == job.sent > 0

\* All are through; the queue tries an error again while it has attempts left.
SettlePage(d) ==
  /\ sending[d].at = "ask" /\ sending[d].n \notin DOMAIN Pages[d]
  /\ sending' = [sending EXCEPT ![d].at = IF Succeeds(sending[d]) THEN "sent" ELSE "no"]
  /\ UNCHANGED <<twenty, minted, inviting, voip, issued, told, shown, unclear, mishaps>>

-----------------------------------------------------------------------------
(* invite, and the phones.                                                 *)

\* The phones have been listed before the first of them is rung.
Invite(p) ==
  /\ inviting.at = "no" /\ voip[p] # NoToken
  /\ inviting' = [NoInvite EXCEPT !.at = "ask", !.to = [phone |-> p, token |-> voip[p]]]
  /\ UNCHANGED <<twenty, minted, sending, voip, issued, told, shown, unclear, mishaps>>

RequestRing ==
  /\ inviting.at = "ask" /\ inviting' = Signed("calls", inviting) /\ Minted("calls", inviting)
  /\ UNCHANGED <<twenty, sending, voip, issued, told, shown, unclear, mishaps>>

HearRing ==
  /\ inviting.at = "asked"
  /\ \E heard \in {"ok", "gone", "refused", "failed", "lost"} :
       /\ Hears(inviting.to, inviting.jwt, heard)
       /\ inviting' = IF AsksAnew(inviting, heard) THEN Anew(inviting)
                      ELSE IF heard = "gone" THEN [inviting EXCEPT !.at = "clear"] ELSE NoInvite
  /\ UNCHANGED <<twenty, minted, sending, voip, issued, told, shown, unclear>>

\* The device token was refused for good: the device loses the one it has.
ClearToken ==
  /\ inviting.at = "clear" /\ inviting' = NoInvite
  /\ voip' = [voip EXCEPT ![inviting.to.phone] = NoToken]
  /\ UNCHANGED <<twenty, minted, sending, issued, told, shown, unclear, mishaps>>

\* A phone gets a new token when the app is installed again, or for no reason.
Reissue(p) ==
  /\ issued[p] < MaxTokens /\ issued' = [issued EXCEPT ![p] = @ + 1]
  /\ UNCHANGED <<twenty, minted, sending, inviting, voip, told, shown, unclear, mishaps>>

\* UpdatePush: the phone tells its token.
Tell(p) ==
  /\ voip' = [voip EXCEPT ![p] = issued[p]] /\ told' = [told EXCEPT ![p] = issued[p]]
  /\ UNCHANGED <<twenty, minted, sending, inviting, issued, shown, unclear, mishaps>>

-----------------------------------------------------------------------------
Later == /\ twenty < MaxTwenties /\ twenty' = twenty + 1
         /\ UNCHANGED <<minted, sending, inviting, voip, issued, told, shown, unclear, mishaps>>

\* The process dies, and deliveries that were being sent are sent again.
PushCrash ==
  /\ mishaps < MaxMishaps /\ mishaps' = mishaps + 1
  /\ minted' = [u \in DOMAIN minted |-> Unmade] /\ inviting' = NoInvite
  /\ sending' = [d \in DOMAIN Pages |-> IF sending[d].at \in {"ask", "asked"}
                                        THEN [Resting EXCEPT !.tries = sending[d].tries - 1]
                                        ELSE sending[d]]
  /\ unclear' = unclear \cup {d \in DOMAIN Pages : sending[d].at \in {"ask", "asked"}}
  /\ UNCHANGED <<twenty, voip, issued, told, shown>>

\* Deliveries and invites share the clock and Apple, no state of the program.
AlertNext == \/ \E d \in DOMAIN Pages : TakeUp(d) \/ RequestAlert(d) \/ HearAlert(d) \/ SettlePage(d)
             \/ Later \/ PushCrash \/ \E p \in Iphones : Reissue(p)
RingNext  == \/ RequestRing \/ HearRing \/ ClearToken \/ \E p \in Iphones : Invite(p) \/ Tell(p)
             \/ Later \/ PushCrash \/ \E p \in Iphones : Reissue(p)
PushNext  == AlertNext \/ RingNext

PushSpec == PushInit /\ [][PushNext]_pushVars

-----------------------------------------------------------------------------
Dead(d) == sending[d].at = "no" /\ sending[d].tries = PageTries

(* The comment over the type: "the send fails only when no device got it".  Over
   all attempts, and whatever becomes of provider tokens and phones meanwhile: a
   delivery that counts as sent was shown, one that was given up was shown to
   nobody, and nobody was shown one twice, unless an answer was lost or the
   process died in between. *)
ShownOnce ==
  \A d \in DOMAIN Pages :
    /\ sending[d].at = "sent" => \E n \in DOMAIN Pages[d] : shown[d][n] > 0
    /\ d \notin unclear =>
         \A n \in DOMAIN Pages[d] : shown[d][n] <= (IF Dead(d) THEN 0 ELSE 1)

(* apns.go of voice, ErrBadDeviceToken: "APNs rejected the device token for good
   (the app was removed or the token rotated): the token should be cleared".
   A phone that has registered the token it has now is rung with it: that an
   older one was rejected does not take it away. *)
NewTokenStays == \A p \in Iphones : told[p] = issued[p] => voip[p] = issued[p]
=============================================================================
