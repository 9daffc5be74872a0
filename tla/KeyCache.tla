------------------------------ MODULE KeyCache ------------------------------
(***************************************************************************)
(* Access tokens of Omni Identity, as the agents' API and the on-call      *)
(* plugin check them: src/internal/auth/identity.go and                    *)
(* plugins/oncall/identity.go hold the same cache of signing keys, a       *)
(* mutex around it, and the same checks of a token.                        *)
(***************************************************************************)
EXTENDS Integers, FiniteSets

CONSTANTS
  Kids,       \* signing keys
  Tokens,     \* [kid, genuine, issuer, aud, exp, nbf, iat, use, sub]; 0 and "" are absent
  Issuer, Audiences,
  Verifiers,  \* [of, ttl]: of the "oncall" plugin or for "agents"; ttl is how long keys
              \* are trusted, which the configuration sets for the agents'
  Floor, Leeway,  \* refetchFloor, and of the clocks
  FetchTime,  \* the client's timeout
  MaxClock,   \* bound: of the clock, which is at Start at first
  MaxTurns    \* bound: changes of the keys or of the connection

Epoch == -100  \* fetchedAt before the first fetch
Unseen == -1

VARIABLES
  verifier, clock,
  published,   \* the keys Identity signs with
  publishedAt, \* history: when each key was last among them
  reachable,
  keys, fetchedAt, fetched,  \* the cache; fetched is FALSE while keys is nil
  asking,      \* the token whose caller holds the mutex, fetching
  askedAt,
  answer,      \* the keys of the answer, FailedFetch or NoAnswer
  verdict,     \* of the last token: [token, at, taken, blind], or [taken |-> FALSE]
  turns
cacheVars == <<verifier, clock, published, publishedAt, reachable, keys, fetchedAt, fetched, asking, askedAt,
               answer, verdict, turns>>

NoAnswer    == {"no answer"}
FailedFetch == {"failed"}
Free        == [kid |-> "free"]
Refused     == [taken |-> FALSE]

ASSUME CacheAssumption ==
  /\ Floor \in Nat /\ Leeway \in Nat /\ FetchTime \in Nat /\ \A v \in Verifiers : v.ttl \in Nat
  /\ \A t \in Tokens : t.exp \in Nat /\ t.nbf \in Nat /\ t.iat \in Nat
  \* No key and no token is taken for one of the marks above.
  /\ NoAnswer \notin SUBSET Kids /\ FailedFetch \notin (SUBSET Kids) \cup {NoAnswer} /\ Free \notin Tokens

CacheInit ==
  /\ verifier \in Verifiers /\ clock = 0 /\ published \in SUBSET Kids /\ reachable = TRUE
  /\ publishedAt = [k \in Kids |-> IF k \in published THEN 0 ELSE Unseen]
  /\ keys = {} /\ fetchedAt = Epoch /\ fetched = FALSE
  /\ asking = Free /\ askedAt = 0 /\ answer = NoAnswer /\ verdict = Refused /\ turns = 0

-----------------------------------------------------------------------------
(* Outside.                                                                *)

Advance ==
  /\ clock < MaxClock /\ (asking # Free => clock < askedAt + FetchTime)
  /\ clock' = clock + 1
  /\ publishedAt' = [k \in Kids |-> IF k \in published THEN clock + 1 ELSE publishedAt[k]]
  /\ UNCHANGED <<verifier, published, reachable, keys, fetchedAt, fetched, asking, askedAt, answer, verdict, turns>>

\* Identity publishes a key or withdraws one, or the connection changes.
Turn ==
  /\ turns < MaxTurns /\ turns' = turns + 1
  /\ \/ /\ published' \in (SUBSET Kids) \ {published} /\ UNCHANGED reachable
        /\ publishedAt' = [k \in Kids |-> IF k \in published' THEN clock ELSE publishedAt[k]]
     \/ reachable' = ~reachable /\ UNCHANGED <<published, publishedAt>>
  /\ UNCHANGED <<verifier, clock, keys, fetchedAt, fetched, asking, askedAt, answer, verdict>>

-----------------------------------------------------------------------------
(* Verify.                                                                 *)

\* The checks of a token whose key is known.
Claims(t) ==
  /\ t.exp # 0 /\ clock <= t.exp + Leeway
  /\ t.nbf # 0 => clock + Leeway >= t.nbf
  /\ t.iat # 0 => clock + Leeway >= t.iat

\* The plugin asks for an audience, the API for the token of a client:
\* MachineClient.
Meant(t) == IF verifier.of = "oncall" THEN t.aud \intersect Audiences # {} ELSE t.aud = {t.sub}

Admits(t) ==
  t.genuine /\ t.issuer = Issuer /\ Claims(t) /\ t.use \in {"", "access"} /\ t.sub # "" /\ Meant(t)

\* blind: the key is from the cache because Identity does not answer.
Judge(t, blind) ==
  verdict' = IF Admits(t) THEN [token |-> t, at |-> clock, taken |-> TRUE, blind |-> blind] ELSE Refused

Fresh_Ever(age) == TRUE
Fresh(age) == age < verifier.ttl
MayFetch(age) == ~fetched \/ age >= Floor

\* key, up to its fetch.
Verify(t) ==
  LET age == clock - fetchedAt
  IN  /\ asking = Free
      /\ \/ /\ t.kid \in keys /\ Fresh(age) /\ Judge(t, FALSE) /\ UNCHANGED <<asking, askedAt>>
         \/ /\ ~(t.kid \in keys /\ Fresh(age)) /\ MayFetch(age)
            /\ asking' = t /\ askedAt' = clock /\ UNCHANGED verdict
         \/ /\ ~(t.kid \in keys /\ Fresh(age)) /\ ~MayFetch(age)
            /\ IF t.kid \in keys THEN Judge(t, FALSE) ELSE verdict' = Refused
            /\ UNCHANGED <<asking, askedAt>>
      /\ UNCHANGED <<verifier, clock, published, publishedAt, reachable, keys, fetchedAt, fetched, answer, turns>>

\* Identity answers with its keys, or the fetch fails.
Answer ==
  /\ asking # Free /\ answer = NoAnswer
  /\ answer' \in (IF reachable THEN {published} ELSE {}) \cup {FailedFetch}
  /\ UNCHANGED <<verifier, clock, published, publishedAt, reachable, keys, fetchedAt, fetched, asking, askedAt,
                 verdict, turns>>

\* key, after its fetch.
Settle ==
  /\ answer # NoAnswer /\ asking' = Free /\ answer' = NoAnswer
  /\ IF answer = FailedFetch
     THEN /\ IF asking.kid \in keys THEN Judge(asking, TRUE) ELSE verdict' = Refused
          /\ UNCHANGED <<keys, fetchedAt, fetched>>
     ELSE /\ keys' = answer /\ fetchedAt' = clock /\ fetched' = TRUE
          /\ IF asking.kid \in keys' THEN Judge(asking, FALSE) ELSE verdict' = Refused
  /\ UNCHANGED <<verifier, clock, published, publishedAt, reachable, askedAt, turns>>

CacheNext == Advance \/ Turn \/ Answer \/ Settle \/ \E t \in Tokens : Verify(t)

CacheSpec == CacheInit /\ [][CacheNext]_cacheVars

-----------------------------------------------------------------------------
(* A withdrawn key does not sign in for long: a token is only taken in its
   lifetime, and with a key that Identity published no longer ago than the keys
   are trusted, or than refetchFloor where that is more, and one fetch; but when
   Identity gives no answer the keys it gave last are good. *)
WithdrawnKeysExpire ==
  verdict.taken =>
    LET t     == verdict.token
        since == publishedAt[t.kid]
        trust == IF verifier.ttl < Floor THEN Floor ELSE verifier.ttl
    IN  /\ since # Unseen /\ (~verdict.blind => since >= verdict.at - trust - FetchTime)
        /\ verdict.at - Leeway <= t.exp /\ verdict.at + Leeway >= t.nbf
=============================================================================
