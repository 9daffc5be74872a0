------------------------------- MODULE Router -------------------------------
(***************************************************************************)
(* Which routes an event takes: src/internal/router/router.go over the     *)
(* routes table of src/internal/storage/routes.go.                         *)
(*                                                                         *)
(* An event is a function from the match keys it has to their values: the  *)
(* top-level fields are always there, if only empty, a label or an         *)
(* annotation may be absent.  Names are numbers in their sort order.       *)
(***************************************************************************)
EXTENDS Naturals, Sequences, FiniteSets

S == INSTANCE SequencesExt

CONSTANTS
  Names,       \* route names, in sort order
  Fields,      \* the top-level match keys of fieldValue
  Labels,      \* dotted keys, labels.<k> and annotations.<k>
  Values,      \* field values
  Matches,     \* the match conditions of the routes that can be written
  Priorities   \* their priorities

ASSUME RouterAssumption ==
  /\ Names \subseteq Nat /\ Priorities \subseteq Nat
  /\ Fields \cap Labels = {}
  /\ \A m \in Matches : \A k \in DOMAIN m : m[k] \in Values

Events == UNION {[Fields \cup L -> Values] : L \in SUBSET Labels}
Routes == [match : Matches, isDefault : BOOLEAN, disabled : BOOLEAN,
           priority : Priorities, stop : BOOLEAN]

VARIABLE table  \* the routes table: a partial function from names to routes

-----------------------------------------------------------------------------
(* Match.                                                                  *)

\* A key that the event lacks, an unknown one too, matches nothing.
MatchesAll(ev, match) ==
  \A k \in DOMAIN match : k \in DOMAIN ev /\ ev[k] = match[k]

Candidates(ev, dflt) ==
  {n \in DOMAIN table : /\ ~table[n].disabled /\ MatchesAll(ev, table[n].match)
                        /\ table[n].isDefault = dflt}

\* Priority first, then name.
Before(m, n) == \/ table[m].priority > table[n].priority
                \/ table[m].priority = table[n].priority /\ m < n
SortByPriority(names) ==
  CHOOSE s \in [1..Cardinality(names) -> names] :
    \A i, j \in DOMAIN s : i < j => Before(s[i], s[j])

\* The list is cut where the priority falls below that of the first route that
\* stops processing.
ApplyStopProcessing_CutsPeers(s) ==
  LET stops == {n \in 1..Len(s) : table[s[n]].stop}
  IN  IF stops = {} THEN s
      ELSE SubSeq(s, 1, CHOOSE n \in stops : \A m \in stops : n <= m)
ApplyStopProcessing(s) ==
  LET stops == {n \in 1..Len(s) : table[s[n]].stop}
      first == CHOOSE n \in stops : \A m \in stops : n <= m
      kept(n) == n <= first \/ table[s[n]].priority = table[s[first]].priority
  IN  IF stops = {} THEN s
      ELSE SubSeq(s, 1, CHOOSE n \in first..Len(s) :
                          /\ \A m \in 1..n : kept(m)
                          /\ n = Len(s) \/ ~kept(n + 1))

\* Default routes are used when no other matches.
Match(ev) ==
  LET matched == Candidates(ev, FALSE)
      selected == IF matched = {} THEN Candidates(ev, TRUE) ELSE matched
  IN  ApplyStopProcessing(SortByPriority(selected))

-----------------------------------------------------------------------------
(* The table.  A route is created or replaced; no statement deletes one.   *)

RouterInit == table = [n \in {} |-> 0]

UpsertRoute(n, r) ==
  table' = [m \in (DOMAIN table) \cup {n} |-> IF m = n THEN r ELSE table[m]]

RouterNext == \E n \in Names, r \in Routes : UpsertRoute(n, r)

RouterSpec == RouterInit /\ [][RouterNext]_table

-----------------------------------------------------------------------------
\* A route whose conditions hold for ev.
Holds(n, ev) == /\ n \in DOMAIN table /\ ~table[n].disabled
                /\ \A k \in DOMAIN table[n].match :
                     <<k, table[n].match[k]>> \in {<<f, ev[f]>> : f \in DOMAIN ev}

\* It is not used: a fallback that is not needed, or a lower priority than a
\* stopping route that is used itself.
Shadowed(n, ev) ==
  \/ table[n].isDefault /\ \E m \in Names : Holds(m, ev) /\ ~table[m].isDefault
  \/ \E m \in Names : /\ Holds(m, ev) /\ table[m].stop
                      /\ table[m].priority > table[n].priority
                      /\ table[m].isDefault = table[n].isDefault

\* Each route comes once, a higher priority before a lower, names breaking ties.
OrderIsDetermined ==
  \A ev \in Events :
    LET s == Match(ev)
    IN  \A i, j \in 1..Len(s) :
          i < j => \/ table[s[i]].priority > table[s[j]].priority
                   \/ table[s[i]].priority = table[s[j]].priority /\ s[i] < s[j]

(* An event takes exactly the enabled routes whose conditions all hold and that
   neither the fallback rule nor a stopping route rules out: peers of a
   stopping route stay, and a stopping default route rules out no other.  Their
   order, which decides the route that owns a provider's delivery, does not
   depend on how the table was filled. *)
TakesTheRightRoutes ==
  /\ OrderIsDetermined
  /\ \A ev \in Events :
       S!ToSet(Match(ev)) = {n \in Names : Holds(n, ev) /\ ~Shadowed(n, ev)}
=============================================================================
