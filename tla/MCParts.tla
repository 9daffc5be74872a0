------------------------------- MODULE MCParts -------------------------------
(***************************************************************************)
(* Parts that run beside each other and share no state here: a run of all  *)
(* of them, in which a behaviour moves one.                                *)
(***************************************************************************)
EXTENDS MCTables, MCTelegramSend, MCApplePush, TelegramCallbacks, LogShip, KeyCache, Settings,
        Phones, Lifecycle

VARIABLE part  \* the one that moves

\* A token of a person that is not good yet, one of an agent, one for long.
MCToken(k, t, e) == [kid |-> k, genuine |-> TRUE, issuer |-> "identity", aud |-> {"app"}, exp |-> e,
                     nbf |-> t, iat |-> t, use |-> "access", sub |-> "u"]
MCTokens == {MCToken("k1", 2, 3), [MCToken("k1", 0, 9) EXCEPT !.aud = {"u"}, !.use = ""],
             MCToken("k2", 0, 9)}
MCVerifiers == {[of |-> "oncall", ttl |-> 3], [of |-> "agents", ttl |-> 1]}

\* A kind that needs a URL, which may be its secret, and one that needs some secret
\* and a chat.
MCBuildable(kind, conf, secret) ==
  \/ kind = "hook" /\ ("url" \in conf \/ secret = "url")
  \/ kind = "bot" /\ secret # None /\ "chat" \in conf
OfProvider(v, n, k, f, s, e) ==
  [verb |-> v, on |-> "provider", name |-> n, kind |-> k, conf |-> f, secret |-> s, enabled |-> e]
OfRoute(v, n, p, o) == [verb |-> v, on |-> "route", name |-> n, provs |-> p, off |-> o]
MCRequests == {
  OfProvider("POST", "p", "hook", {"url"}, Omitted, Omitted),
  OfProvider("POST", "p", "bot", {"chat"}, "url", Omitted),
  OfProvider("PUT", "p", "bot", {"chat", "url"}, Omitted, FALSE),
  OfProvider("PUT", "q", "hook", {"url"}, Omitted, TRUE),
  OfProvider("PATCH", "p", Omitted, Omitted, Omitted, FALSE),
  OfProvider("PATCH", "p", "hook", Omitted, Omitted, Omitted),
  OfProvider("PATCH", "p", Omitted, {"url"}, Omitted, Omitted),
  OfProvider("PATCH", "p", Omitted, Omitted, "t", Omitted),
  OfRoute("POST", "r", {"p"}, Omitted), OfRoute("PUT", "r", {"p", "q"}, FALSE),
  OfRoute("PATCH", "r", Omitted, TRUE), OfRoute("PATCH", "r", {"q"}, Omitted)}
MCConfigs == {
  [key |-> "k1", providers |-> <<>>, routes |-> <<>>],
  [key |-> "none", providers |-> <<>>, routes |-> <<>>],
  [key |-> "k2", providers |-> <<OfProvider("seed", "p", "bot", {}, None, Omitted)>>,
   routes |-> <<OfRoute("seed", "r", {"p"}, Omitted)>>],
  [key |-> "none", providers |-> <<OfProvider("seed", "q", "bot", {"chat"}, "s", FALSE)>>,
   routes |-> <<>>]}

-----------------------------------------------------------------------------
allVars == <<part, tablesVars, sendVars, pushVars, callbackVars, shipVars, cacheVars, settingsVars,
             phoneVars, lifeVars>>

Parts == {"tables", "send", "alerts", "rings", "callbacks", "ship", "cache", "settings",
          "phones", "roster", "life"}

\* What does not move stays as it is.
Still ==
  /\ UNCHANGED part
  /\ part = "tables" \/ UNCHANGED tablesVars
  /\ part = "send" \/ UNCHANGED sendVars
  /\ part \in {"alerts", "rings"} \/ UNCHANGED pushVars
  /\ part = "callbacks" \/ UNCHANGED callbackVars
  /\ part = "ship" \/ UNCHANGED shipVars
  /\ part = "cache" \/ UNCHANGED cacheVars
  /\ part = "settings" \/ UNCHANGED settingsVars
  /\ part \in {"phones", "roster"} \/ UNCHANGED phoneVars
  /\ part = "life" \/ UNCHANGED lifeVars

PartsInit ==
  /\ TablesInit /\ SendInit /\ PushInit /\ CallbackInit /\ ShipInit /\ CacheInit /\ SettingsInit
  /\ PhonesInit /\ LifeInit
  /\ part \in Parts
  \* A part that does not move starts in one way only.
  /\ part = "tables" \/ focus = "routes"
  /\ part = "send" \/ \A d \in DOMAIN jobs : (jobs[d] # Idle) = (d > 2)
  /\ part = "cache" \/ (published = {} /\ verifier.of = "oncall")
  /\ part = "life" \/ absent = {}

PartsNext ==
  \/ part = "tables" /\ Still /\ TablesNext
  \/ part = "send" /\ Still /\ SendNext
  \/ part = "alerts" /\ Still /\ AlertNext
  \/ part = "rings" /\ Still /\ RingNext
  \/ part = "callbacks" /\ Still /\ CallbackNext
  \/ part = "ship" /\ Still /\ ShipNext
  \/ part = "cache" /\ Still /\ CacheNext
  \/ part = "settings" /\ Still /\ SettingsNext
  \/ part = "phones" /\ Still /\ VoiceNext
  \/ part = "roster" /\ Still /\ RosterNext
  \/ part = "life" /\ Still /\ LifeNext

PartsSpec == PartsInit /\ [][PartsNext]_allVars
=============================================================================
