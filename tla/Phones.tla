------------------------------- MODULE Phones -------------------------------
(***************************************************************************)
(* Whose phone is whose.  A phone for voice calls is enrolled with a       *)
(* one-time code and then has a credential (src/internal/voice/devices.go, *)
(* storage/devices.go, api/devices.go); a phone for on-call pages is       *)
(* registered by the person who is signed in on it                         *)
(* (plugins/oncall/devices.go).  Requests come late, twice or in another   *)
(* order, so that any of them may come at any time.                        *)
(***************************************************************************)
EXTENDS Integers, Sequences, FiniteSets

CONSTANTS
  People,
  Handsets,       \* ids that the on-call app gives its phone
  PushTokens,     \* what Apple knows a phone by
  CodeTtl,        \* enrollment_ttl
  MaxCodes, MaxEnrolled, MaxInstant, MaxRegistrations  \* bounds

ASSUME PhonesAssumption == CodeTtl \in Nat

VARIABLES
  instant,
  codes,      \* voice_enrollments, in the order they were made: [user, expires, device]
  enrolled,   \* voice_devices: [user, voip, disabled], in the order they came
  redeemed,   \* history: [code, device, at]
  calls,      \* requests that have been authenticated: [device, since]
  roster,     \* devices of the on-call plugin: id -> [user, token]
  claims,     \* history: token -> who registered it last
  registrations
phoneVars == <<instant, codes, enrolled, redeemed, calls, roster, claims, registrations>>
voiceVars == <<codes, enrolled, redeemed, calls>>
rosterVars == <<roster, claims, registrations>>

Nothing == 0

PhonesInit ==
  /\ instant = 0 /\ codes = <<>> /\ enrolled = <<>> /\ redeemed = {} /\ calls = {}
  /\ roster = [h \in {} |-> 0] /\ claims = [t \in {} |-> 0] /\ registrations = 0

Pass == instant < MaxInstant /\ instant' = instant + 1 /\ UNCHANGED <<voiceVars, rosterVars>>

-----------------------------------------------------------------------------
(* Voice.                                                                  *)

CreateEnrollment(u) ==
  /\ Len(codes) < MaxCodes
  /\ codes' = Append(codes, [user |-> u, expires |-> instant + CodeTtl, device |-> Nothing])
  /\ UNCHANGED <<instant, enrolled, redeemed, calls, rosterVars>>

Redeemable(c) == codes[c].device = Nothing /\ codes[c].expires > instant

\* RedeemEnrollment: one transaction.
RedeemEnrollment(c, device) ==
  /\ Redeemable(c)
  /\ enrolled' = Append(enrolled, [device EXCEPT !.user = codes[c].user])
  /\ codes' = [codes EXCEPT ![c].device = Len(enrolled) + 1]

\* Enroll: the caller may not get to know the credential, and a push token is
\* not told from one of another phone.
Enroll(c, t) ==
  /\ Len(enrolled) < MaxEnrolled
  /\ RedeemEnrollment(c, [user |-> Nothing, voip |-> t, disabled |-> FALSE])
  /\ redeemed' = redeemed \cup {[code |-> c, device |-> Len(enrolled) + 1, at |-> instant]}
  /\ UNCHANGED <<instant, calls, rosterVars>>

SetDeviceDisabled(d, off) == enrolled' = [enrolled EXCEPT ![d].disabled = off]

SetDisabled(d, off) ==
  /\ SetDeviceDisabled(d, off)
  /\ UNCHANGED <<instant, codes, redeemed, calls, rosterVars>>

\* DeviceBySecretHash finds it.
Credited(d) == ~enrolled[d].disabled

\* AuthenticateDevice; the handler goes on with what it has read.
Authenticate(d) ==
  /\ Credited(d) /\ calls' = calls \cup {[device |-> d, since |-> instant]}
  /\ UNCHANGED <<instant, codes, enrolled, redeemed, rosterVars>>

UpdateDevicePush(d, t) == enrolled' = [enrolled EXCEPT ![d].voip = t]

\* handlePutSelf: UpdatePush.
UpdatePush(call, t) ==
  /\ calls' = calls \ {call} /\ UpdateDevicePush(call.device, t)
  /\ UNCHANGED <<instant, codes, redeemed, rosterVars>>

-----------------------------------------------------------------------------
(* On-call.                                                                *)

Others_Stay(h, t) == DOMAIN roster \ {h}
\* A token moves with its phone.
Others(h, t) == {x \in DOMAIN roster \ {h} : roster[x].token # t}

\* putDevice: one transaction.
PutDevice(u, h, t) ==
  /\ registrations < MaxRegistrations /\ registrations' = registrations + 1
  /\ roster' = [x \in Others(h, t) \cup {h} |-> IF x = h THEN [user |-> u, token |-> t] ELSE roster[x]]
  /\ claims' = [x \in DOMAIN claims \cup {t} |-> IF x = t THEN u ELSE claims[x]]
  /\ UNCHANGED <<instant, voiceVars>>

\* deleteDevice: only one's own.
DeleteDevice(u, h) ==
  /\ h \in DOMAIN roster /\ roster[h].user = u
  /\ roster' = [x \in DOMAIN roster \ {h} |-> roster[x]]
  /\ UNCHANGED <<instant, voiceVars, claims, registrations>>

\* devices: where a page to a person goes.
Targets(u) == {h \in DOMAIN roster : roster[h].user = u}

\* The two kinds of phones share no state.
VoiceNext ==
  \/ Pass \/ \E u \in People : CreateEnrollment(u)
  \/ \E c \in DOMAIN codes, t \in PushTokens : Enroll(c, t)
  \/ \E d \in DOMAIN enrolled : Authenticate(d) \/ \E off \in BOOLEAN : SetDisabled(d, off)
  \/ \E call \in calls, t \in PushTokens : UpdatePush(call, t)
RosterNext ==
  \E u \in People, h \in Handsets : \/ DeleteDevice(u, h)
                                   \/ \E t \in PushTokens : PutDevice(u, h, t)
PhonesNext == VoiceNext \/ RosterNext

PhonesSpec == PhonesInit /\ [][PhonesNext]_phoneVars

-----------------------------------------------------------------------------
(* A code "enrolls a phone" of its person, once and in its time, and "a token
   moves with its phone": however requests are repeated, late or mixed up, each
   enrolled phone came by a code of its own and of its person that was good then,
   and a page to a person goes once to each phone, and to none that somebody else
   has registered since. *)
PhonesAreTheirs ==
  /\ \A d \in DOMAIN enrolled :
       \E x \in redeemed : x.device = d /\ codes[x.code].user = enrolled[d].user
                           /\ x.at < codes[x.code].expires
  /\ \A x, y \in redeemed : x.code = y.code => x = y
  /\ \A u \in People : \A g, h \in Targets(u) :
       /\ roster[g].token = roster[h].token => g = h
       /\ claims[roster[h].token] = u
=============================================================================
