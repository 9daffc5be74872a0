------------------------------ MODULE Settings ------------------------------
(***************************************************************************)
(* The providers and routes: the admin API that changes them               *)
(* (src/internal/api/providers.go, routes.go), the tables they are kept in *)
(* (storage/providers.go, routes.go, crypto.go) and what a start does to   *)
(* them (run in cmd/omni-notify/main.go, storage/seed.go).                 *)
(*                                                                         *)
(* A handler takes no lock: each statement on the database is an action.   *)
(***************************************************************************)
EXTENDS Integers, Sequences, SequencesExt

CONSTANTS
  Omitted,      \* for a field that the body does not have
  Clients,      \* requests in progress at a time
  Requests,     \* what they may ask for, see Request
  Configs,      \* the configurations a start may find: [key, providers, routes]
  Buildable(_, _, _),  \* registry.Build: by kind, config and secret
  MaxRequests, MaxStarts  \* bounds

None == "none"    \* no encryption key, no secret

\* What the handlers refuse before their first statement, and what Validate asks of a
\* configuration: its routes name providers of its own.
ASSUME SettingsAssumption ==
  /\ \A r \in Requests :
       /\ r.on \in {"provider", "route"} /\ (r.on = "provider" => r.secret # None)
       /\ r.on = "route" /\ r.verb # "PATCH" => r.provs # Omitted
  /\ \A config \in Configs :
       /\ config.providers \in Seq(ToSet(config.providers)) /\ config.routes \in Seq(ToSet(config.routes))
       /\ \A r \in ToSet(config.providers) : r.on = "provider"
       /\ \A r \in ToSet(config.routes) :
            r.on = "route" /\ \A p \in r.provs : \E q \in ToSet(config.providers) : q.name = p

\* A request is [verb, on, name] and the fields of the body: of a provider
\* kind, conf, secret, enabled; of a route provs, off.  A PATCH may omit each of
\* them, and the secret may always be omitted.

VARIABLES
  providers,  \* name -> [kind, conf, secret, key, enabled, by]; key is what encrypted it
  routes,     \* name -> [provs, off, by]
  key,        \* of the running process
  process,    \* "down", "up" or "fatal": it refused to start
  boot,       \* what is left to seed, providers and then routes
  handlers,   \* client -> [at, req, row]
  writers,    \* history: names that two requests worked on at a time
  served, starts
settingsVars == <<providers, routes, key, process, boot, handlers, writers, served, starts>>

NoRequest == [at |-> "free", req |-> None, row |-> None]

SettingsInit ==
  /\ providers = [n \in {} |-> 0] /\ routes = [n \in {} |-> 0] /\ key = None /\ process = "down"
  /\ boot = <<>> /\ handlers = [c \in Clients |-> NoRequest] /\ writers = {}
  /\ served = 0 /\ starts = 0

WithRow(table, n, row) == [x \in DOMAIN table \cup {n} |-> IF x = n THEN row ELSE table[x]]
Has(n) == n \in DOMAIN providers
Readable(n) == providers[n].secret = None \/ providers[n].key = key
Given(field, old) == IF field = Omitted THEN old ELSE field

-----------------------------------------------------------------------------
(* A start.                                                                *)

KeyFits_Unchecked(k, config) == TRUE
\* Without a key there must be no secret, with one it must open those there are.
KeyFits(k, config) ==
  IF k = None
  THEN /\ \A n \in DOMAIN providers : providers[n].secret = None
       /\ \A i \in DOMAIN config.providers : config.providers[i].secret = None
  ELSE \A n \in DOMAIN providers : providers[n].secret = None \/ providers[n].key = k

StartProcess ==
  /\ process = "down" /\ starts < MaxStarts /\ starts' = starts + 1
  /\ \E config \in Configs :
       /\ key' = config.key
       /\ IF KeyFits(config.key, config)
          THEN process' = "seeding" /\ boot' = config.providers \o config.routes
          ELSE process' = "fatal" /\ boot' = <<>>
  /\ UNCHANGED <<providers, routes, handlers, writers, served>>

\* UpsertProvider, of a row that has been looked up or is only written once: an
\* omitted secret leaves the stored one.
Upsert_DropsSecret(n, row) == WithRow(providers, n, [row EXCEPT !.secret = Given(@, None)])
Upsert(n, row) ==
  WithRow(providers, n,
      IF row.secret # Omitted THEN row
      ELSE IF Has(n) THEN [row EXCEPT !.secret = providers[n].secret, !.key = providers[n].key]
      ELSE [row EXCEPT !.secret = None])

Row(r, by) == [kind |-> r.kind, conf |-> r.conf, secret |-> r.secret, key |-> key,
               enabled |-> Given(r.enabled, TRUE), by |-> by]
RouteRow(r, by) == [provs |-> r.provs, off |-> Given(r.off, FALSE), by |-> by]

\* SeedProviders and SeedRoutes, one row at a time.
Seed ==
  /\ process = "seeding" /\ boot # <<>> /\ boot' = Tail(boot)
  /\ LET r == Head(boot)
     IN  \/ /\ r.on = "provider"
            /\ providers' = Upsert(r.name, [Row(r, "config") EXCEPT
                                              !.secret = IF @ = None THEN Omitted ELSE @])
            /\ UNCHANGED routes
         \/ /\ r.on = "route" /\ routes' = WithRow(routes, r.name, RouteRow(r, "config"))
            /\ UNCHANGED providers
  /\ UNCHANGED <<key, process, handlers, writers, served, starts>>

Ready ==
  /\ process = "seeding" /\ boot = <<>> /\ process' = "up"
  /\ UNCHANGED <<providers, routes, key, boot, handlers, writers, served, starts>>

\* The process ends, at any statement.
Die ==
  /\ process # "down" /\ process' = "down" /\ boot' = <<>>
  /\ handlers' = [c \in Clients |-> NoRequest]
  /\ UNCHANGED <<providers, routes, key, writers, served, starts>>

-----------------------------------------------------------------------------
(* The handlers.                                                           *)

Goes(c, step, row) == handlers' = [handlers EXCEPT ![c] = [@ EXCEPT !.at = step, !.row = row]]
Leaves(c) == handlers' = [handlers EXCEPT ![c] = NoRequest]
Quiet == UNCHANGED <<key, process, boot, served, starts>>
Reads == Quiet /\ UNCHANGED <<providers, routes, writers>>

Busy(r) == \E c \in Clients : handlers[c].at # "free" /\ handlers[c].req.on = r.on
                                                      /\ handlers[c].req.name = r.name

Receive(c, r) ==
  /\ process = "up" /\ handlers[c].at = "free" /\ served < MaxRequests /\ served' = served + 1
  /\ handlers' = [handlers EXCEPT ![c] = [at |-> "look", req |-> r, row |-> None]]
  /\ writers' = IF Busy(r) THEN writers \cup {<<r.on, r.name>>} ELSE writers
  /\ UNCHANGED <<providers, routes, key, process, boot, starts>>

\* A PATCH: what it supplies, over the row that was read.
Patched(r, old) ==
  [kind |-> Given(r.kind, old.kind), conf |-> IF r.conf = Omitted THEN old.conf ELSE old.conf \cup r.conf,
   secret |-> r.secret, key |-> key, enabled |-> Given(r.enabled, old.enabled), by |-> "api"]

\* The first statement: is there such a provider, or for a PATCH the provider itself.
LookProvider(c) ==
  LET r == handlers[c].req
  IN  /\ handlers[c].at = "look" /\ r.on = "provider" /\ Reads
      /\ \/ r.verb = "POST" /\ Has(r.name) /\ Leaves(c)
         \/ r.verb = "POST" /\ ~Has(r.name) /\ Goes(c, "build", Row(r, "api"))
         \/ r.verb = "PUT" /\ Goes(c, "build", Row(r, "api"))
         \/ r.verb = "PATCH" /\ ~Has(r.name) /\ Leaves(c)
         \/ r.verb = "PATCH" /\ Has(r.name) /\ Readable(r.name)
            /\ Goes(c, "build", Patched(r, providers[r.name]))

\* writeProvider: the secret it is tried with is the supplied or the stored one.
EffectiveSecret(r) ==
  IF r.secret # Omitted THEN r.secret ELSE IF Has(r.name) THEN providers[r.name].secret ELSE None

Builds(r, row) == Buildable(row.kind, row.conf, EffectiveSecret(r))

Build(c) ==
  LET r == handlers[c].req  row == handlers[c].row
  IN  /\ handlers[c].at = "build" /\ Reads
      /\ IF Builds(r, row) THEN Goes(c, "lookup", row) ELSE Leaves(c)

\* UpsertProvider: the lookup, and then the statement that goes with it.
LookUpName(c) ==
  /\ handlers[c].at = "lookup" /\ Reads
  /\ Goes(c, IF Has(handlers[c].req.name) THEN "update" ELSE "insert", handlers[c].row)

\* An INSERT of a name that is there by now fails, and so does a secret that
\* cannot be encrypted.
Write(c) ==
  LET r == handlers[c].req  row == handlers[c].row
  IN  /\ handlers[c].at \in {"update", "insert"} /\ Quiet /\ Leaves(c) /\ UNCHANGED <<routes, writers>>
      /\ providers' = IF \/ handlers[c].at = "insert" /\ Has(r.name)
                         \/ r.secret # Omitted /\ key = None
                      THEN providers ELSE Upsert(r.name, row)

\* The handlers of a route: a PATCH reads it first, and every provider a route
\* names is looked for.
PatchedRoute(r, old) ==
  [provs |-> Given(r.provs, old.provs), off |-> Given(r.off, old.off), by |-> "api"]

KnownProviders(provs) == provs # {} /\ \A p \in provs : Has(p)

LookRoute(c) ==
  LET r == handlers[c].req
      there == r.name \in DOMAIN routes
      known == IF r.provs = Omitted THEN TRUE ELSE KnownProviders(r.provs)
  IN  /\ handlers[c].at = "look" /\ r.on = "route" /\ Reads
      /\ \/ ~known /\ Leaves(c)
         \/ known /\ r.verb = "POST" /\ there /\ Leaves(c)
         \/ known /\ r.verb \in {"POST", "PUT"} /\ (r.verb = "PUT" \/ ~there)
            /\ Goes(c, "upsert", RouteRow(r, "api"))
         \/ known /\ r.verb = "PATCH" /\ ~there /\ Leaves(c)
         \/ known /\ r.verb = "PATCH" /\ there /\ Goes(c, "upsert", PatchedRoute(r, routes[r.name]))

WriteRoute(c) ==
  /\ handlers[c].at = "upsert" /\ Quiet /\ Leaves(c) /\ UNCHANGED <<providers, writers>>
  /\ routes' = WithRow(routes, handlers[c].req.name, handlers[c].row)

Handlers == \E c \in Clients : \/ \E r \in Requests : Receive(c, r)
                               \/ LookProvider(c) \/ Build(c) \/ LookUpName(c) \/ Write(c)
                               \/ LookRoute(c) \/ WriteRoute(c)

SettingsNext == StartProcess \/ Seed \/ Ready \/ Die \/ Handlers

SettingsSpec == SettingsInit /\ [][SettingsNext]_settingsVars

-----------------------------------------------------------------------------
(* What deliveries need of the tables.  Through requests that overlap, starts
   with other keys and other configurations, and deaths between two statements:
   while the process is up every stored secret opens with its key; a route names
   no provider that is missing; and what the API was the last to write builds,
   although it was tried with what was read some statements earlier.  But where
   two requests on a provider overlapped, one may have been tried with a secret
   that the other replaced. *)
TablesWork ==
  /\ process \in {"seeding", "up"} => \A n \in DOMAIN providers : Readable(n)
  /\ \A t \in DOMAIN routes : \A p \in routes[t].provs : Has(p)
  /\ \A n \in DOMAIN providers :
       LET p == providers[n]
       IN  p.by = "api" /\ <<"provider", n>> \notin writers => Buildable(p.kind, p.conf, p.secret)

(* "An empty secret leaves the stored secret unchanged": no provider, no route and
   no secret ever goes; and a PATCH that overlaps no other request changes
   nothing it does not supply. *)
Kept(r, old, new) ==
  /\ r.on = "provider" => /\ r.kind = Omitted => new.kind = old.kind
                          /\ old.conf \subseteq new.conf
                          /\ r.enabled = Omitted => new.enabled = old.enabled
                          /\ r.secret = Omitted => new.secret = old.secret
  /\ r.on = "route" => /\ r.provs = Omitted => new.provs = old.provs
                       /\ r.off = Omitted => new.off = old.off

Written(r) == IF r.on = "provider" THEN providers ELSE routes

NothingIsLost ==
  [][/\ DOMAIN providers \subseteq DOMAIN providers' /\ DOMAIN routes \subseteq DOMAIN routes'
     /\ \A n \in DOMAIN providers : providers[n].secret # None => providers'[n].secret # None
     /\ \A c \in Clients : \A r \in {handlers[c].req} :
          /\ handlers[c].at \in {"update", "upsert"} /\ handlers'[c].at = "free"
          /\ process' = "up" /\ r.verb = "PATCH" /\ <<r.on, r.name>> \notin writers
          => Kept(r, Written(r)[r.name], Written(r)'[r.name])]_settingsVars
=============================================================================
