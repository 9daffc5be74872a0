---------------------------- MODULE OnCallProofs ----------------------------
(***************************************************************************)
(* Theorems about the on-call plugin.                                      *)
(*                                                                         *)
(* A handler is a chain of steps on a record, so most lemmas say what a    *)
(* step keeps of its place in the chain.  The chain begins with mem and    *)
(* db, which the definitions below name for the state before the handler.  *)
(***************************************************************************)
EXTENDS OnCall, FiniteSetTheorems, WellFoundedInduction, TLAPS

-----------------------------------------------------------------------------
(* Induction over numbers, by the least element of a set.                  *)

\* A set of numbers that is not empty has a least element.
LEMMA Least ==
  ASSUME NEW T, T \subseteq Nat, T # {}
  PROVE  \E x \in T : \A y \in T : x <= y
<1>1. \E x \in T : \A y \in T : ~(<<y, x>> \in OpToRel(<, Nat))
  <2>. HIDE DEF OpToRel
  <2> QED BY NatLessThanWellFounded, WFMin
<1>2. PICK x \in T : \A y \in T : <<y, x>> \notin OpToRel(<, Nat) BY <1>1
<1>3. ASSUME NEW y \in T PROVE ~(y < x)
  <2>1. y \in Nat /\ x \in Nat /\ <<y, x>> \notin OpToRel(<, Nat) BY <1>2, <1>3
  <2> QED BY <2>1, Zenon DEF OpToRel
<1>4. \A y \in T : x <= y BY <1>3
<1> QED BY <1>4

\* A set that holds zero and the successor of what it holds has every number.
LEMMA Induction ==
  ASSUME NEW T, 0 \in T, \A k \in Nat : k \in T => k + 1 \in T
  PROVE  \A k \in Nat : k \in T
<1> SUFFICES ASSUME Nat \ T # {} PROVE FALSE OBVIOUS
<1>1. PICK k \in Nat \ T : \A y \in Nat \ T : k <= y BY Least
<1>2. k # 0 /\ k \in Nat /\ k \notin T BY <1>1
<1>3. k - 1 \in Nat /\ (k - 1) + 1 = k BY <1>2
<1>4. k - 1 \notin Nat \ T BY <1>1, <1>3
<1> QED BY <1>2, <1>3, <1>4

-----------------------------------------------------------------------------
(* The invariants.                                                         *)

ChainFields    == {"m", "d", "fault", "left", "hit", "err", "pages", "opened"}
MemFields      == {"incidents", "overrides", "next", "seq", "oncallSeq", "last"}
DbFields       == {"incidents", "overrides", "counters", "last", "alerts", "ended", "seen", "answered"}
IncidentFields == {"status", "policy", "level", "loops", "due", "assigned", "acked", "alert",
                   "alerts", "notes", "changed", "birth"}
Sources        == ({"delivery"} \X DOMAIN Inbox) \cup ({"request"} \X DOMAIN Posts)

\* An incident whose opening is in the history o.
Fits(inc, o) ==
  /\ inc = [f \in IncidentFields |-> inc[f]]
  /\ inc.status \in {"triggered", "acknowledged", "resolved"} /\ inc.policy \in DOMAIN Policies
  /\ inc.level \in 0..Len(Levels(inc)) /\ inc.loops \in Nat /\ inc.changed \in Nat
  /\ inc.due # Never => inc.status = "triggered"
  /\ inc.status = "triggered" => inc.acked = {}
  /\ inc.birth \in DOMAIN o
  /\ o[inc.birth][1] = "delivery" => inc.alert = Inbox[o[inc.birth][2]].alert

\* Somebody may be paged for it: nobody of q has been told that it is handled.
Loud(n, inc, q) == fails = 0 /\ inc.status = "triggered" => [incident |-> n, birth |-> inc.birth] \notin q

Table(t, o, q) ==
  /\ IsFiniteSet(DOMAIN t) /\ DOMAIN t \subseteq Nat /\ t = [n \in DOMAIN t |-> t[n]]
  /\ \A n \in DOMAIN t : Fits(t[n], o) /\ Loud(n, t[n], q)

MemFits(m, o, q) ==
  /\ m = [f \in MemFields |-> m[f]] /\ Table(m.incidents, o, q)
  /\ m.next \in Nat /\ m.seq \in Nat /\ m.oncallSeq \in Nat

DbFits(d, o, q) ==
  /\ d = [f \in DbFields |-> d[f]] /\ Table(d.incidents, o, q)
  /\ d.counters \in [next : Nat, seq : Nat, oncallSeq : Nat]
  /\ d.alerts = [a \in Alerts |-> d.alerts[a]] /\ d.ended \in [Alerts -> Nat \cup {Never}]

\* What no handler takes back.
MemOn(m) == mem.seq \in Nat /\ m.seq >= mem.seq

Listed(d) == fails = 0 => \A n \in DOMAIN d.incidents :
               \/ n \in DOMAIN mem.incidents /\ d.incidents[n] = mem.incidents[n]
               \/ d.incidents[n].changed > mem.seq

\* An alert's resolve b is not before its resolve a, to the second.
NotBefore(a, b) == a # Never => b # Never /\ Second(b) >= Second(a)

\* The deliveries that were taken in, of alerts whose end is known.
Covered(d) == \A r \in d.seen :
  r \in DOMAIN Inbox /\ (Inbox[r].status = "resolved" => NotBefore(Inbox[r].at, d.ended[Inbox[r].alert]))

DbOn(d) == db.seen \subseteq d.seen /\ Covered(d) /\ Listed(d)

\* A place in a chain.
Place(s, q) ==
  /\ s = [f \in ChainFields |-> s[f]]
  /\ s.left \in Int /\ s.hit \in BOOLEAN /\ s.err \in BOOLEAN /\ (s.err => s.hit)
  /\ s.fault \in {"none", "fail", "crash"} /\ (s.fault = "none" => s.left <= 0 /\ ~s.hit)
  /\ s.opened \in Seq(Sources)
  /\ fails = 0 => \A p \in s.pages : Incident(p) \notin q

Good(s, q) == /\ Place(s, q)
              /\ MemFits(s.m, s.opened, q) /\ MemOn(s.m)
              /\ DbFits(s.d, s.opened, q) /\ DbOn(s.d)

\* Memory and database agree, but for an incident that is being worked on.
InStep(s)     == fails = 0 /\ ~s.hit => s.m = Load(s.d)
With1(s, n)   == With(s.d.incidents, n, s.m.incidents[n])
ButFor(s, n)  == fails = 0 /\ ~s.hit => s.m.incidents = With1(s, n)

\* Alerts find their open incidents, but those of x.
Finds(n, inc, alerts, o) == inc.status # "resolved" /\ FromFiring(o[inc.birth]) => alerts[inc.alert] = n
AlertsBut(s, x) ==
  fails + crashes = 0 /\ ~s.hit =>
    \A n \in DOMAIN s.m.incidents :
      n < s.m.next /\ (n \notin x => Finds(n, s.m.incidents[n], s.d.alerts, s.opened))

\* What only overrides and handoffs change.
Same(s) == /\ s.m.overrides = mem.overrides /\ s.m.last = mem.last /\ s.m.oncallSeq = mem.oncallSeq
           /\ s.d.overrides = db.overrides /\ s.d.last = db.last

Idle(s, x, q)    == Good(s, q) /\ Same(s) /\ InStep(s) /\ AlertsBut(s, x)
Work(s, n, x, q) == /\ Good(s, q) /\ Same(s) /\ ButFor(s, n) /\ AlertsBut(s, x)
                    /\ n \in DOMAIN s.m.incidents

\* t comes after s.
Follows(s, t) == /\ t.opened = s.opened /\ t.fault = s.fault
                 /\ (~t.hit => ~s.hit) /\ (~t.err => ~s.err)

\* The incidents of t are those of s, with the same status.
Stay(s, t) == /\ DOMAIN t.m.incidents = DOMAIN s.m.incidents
              /\ \A n \in DOMAIN s.m.incidents :
                   /\ t.m.incidents[n].status = s.m.incidents[n].status
                   /\ t.m.incidents[n].birth = s.m.incidents[n].birth

-----------------------------------------------------------------------------
(* Statements and assignments.                                             *)

\* What a statement that makes the database d does to a place.
LEMMA WriteIs ==
  ASSUME NEW s, NEW q, Good(s, q), NEW d
  PROVE  /\ Place(Write(s, d), q) /\ Follows(s, Write(s, d))
         /\ Write(s, d).m = s.m /\ Write(s, d).pages = s.pages
         /\ Write(s, d).d = s.d \/ (~s.err /\ Write(s, d).d = d)
         /\ ~Write(s, d).err => ~s.err /\ Write(s, d).d = d
         /\ ~Write(s, d).hit => ~s.hit /\ Write(s, d).d = d
<1>0. Place(s, q) BY DEF Good
<1>. DEFINE t == Write(s, d)
<1>1. CASE s.err
  BY <1>0, <1>1 DEF Write, Follows, Place
<1>2. CASE ~s.err /\ s.left = 1
  <2>1. t = [s EXCEPT !.left = 0, !.hit = TRUE, !.err = TRUE] BY <1>2 DEF Write
  <2>2. s = [f \in ChainFields |-> s[f]] BY <1>0 DEF Place
  <2>3. /\ t = [f \in ChainFields |-> t[f]] /\ t.left = 0 /\ t.hit = TRUE /\ t.err = TRUE
        /\ t.m = s.m /\ t.d = s.d /\ t.fault = s.fault /\ t.pages = s.pages /\ t.opened = s.opened
    <3>. HIDE DEF t
    <3> QED BY <2>1, <2>2 DEF ChainFields
  <2>. HIDE DEF t
  <2>4. s.fault # "none" /\ s.fault \in {"none", "fail", "crash"} BY <1>0, <1>2 DEF Place
  <2>5. s.opened \in Seq(Sources) /\ (fails = 0 => \A p \in s.pages : Incident(p) \notin q)
    BY <1>0 DEF Place
  <2>6. Place(t, q)
    <3>1. t.hit \in BOOLEAN /\ t.err \in BOOLEAN /\ (t.err => t.hit) BY <2>3
    <3>2. t.left \in Int /\ t.fault # "none" /\ t.fault \in {"none", "fail", "crash"} BY <2>3, <2>4
    <3> QED BY <2>3, <2>5, <3>1, <3>2 DEF Place
  <2> QED BY <1>2, <2>3, <2>6 DEF t, Follows
<1>3. CASE ~s.err /\ s.left # 1
  <2>1. t = [s EXCEPT !.left = @ - 1, !.d = d] BY <1>3 DEF Write
  <2>2. s = [f \in ChainFields |-> s[f]] BY <1>0 DEF Place
  <2>3. /\ t = [f \in ChainFields |-> t[f]] /\ t.left = s.left - 1 /\ t.hit = s.hit /\ t.err = s.err
        /\ t.m = s.m /\ t.d = d /\ t.fault = s.fault /\ t.pages = s.pages /\ t.opened = s.opened
    <3>. HIDE DEF t
    <3> QED BY <2>1, <2>2 DEF ChainFields
  <2>. HIDE DEF t
  <2>4. /\ s.left \in Int /\ s.hit \in BOOLEAN /\ s.err \in BOOLEAN /\ (s.err => s.hit)
        /\ s.fault \in {"none", "fail", "crash"} /\ (s.fault = "none" => s.left <= 0 /\ ~s.hit)
    BY <1>0 DEF Place
  <2>5. s.opened \in Seq(Sources) /\ (fails = 0 => \A p \in s.pages : Incident(p) \notin q)
    BY <1>0 DEF Place
  <2>6. t.left \in Int /\ (t.fault = "none" => t.left <= 0 /\ ~t.hit) BY <2>3, <2>4
  <2>7. Place(t, q) BY <2>3, <2>4, <2>5, <2>6 DEF Place
  <2> QED BY <1>3, <2>3, <2>7 DEF t, Follows
<1> QED BY <1>1, <1>2, <1>3

\* A statement that makes a database that fits keeps a place good.
LEMMA WriteKeeps ==
  ASSUME NEW s, NEW q, Good(s, q), NEW d, s.err \/ (DbFits(d, s.opened, q) /\ DbOn(d))
  PROVE  Good(Write(s, d), q)
<1>1. Write(s, d).opened = s.opened BY WriteIs DEF Follows
<1>2. Write(s, d).d = s.d \/ (DbFits(Write(s, d).d, s.opened, q) /\ DbOn(Write(s, d).d)) BY WriteIs
<1>3. Write(s, d).m = s.m /\ Place(Write(s, d), q) BY WriteIs
<1> QED BY <1>1, <1>2, <1>3 DEF Good

\* What an assignment to the fields in memory does to a place.
LEMMA SetIs ==
  ASSUME NEW s, NEW q, Good(s, q), NEW m
  PROVE  /\ Place(Set(s, m), q) /\ Follows(s, Set(s, m))
         /\ Set(s, m).d = s.d /\ Set(s, m).pages = s.pages
         /\ Set(s, m).hit = s.hit /\ Set(s, m).err = s.err
         /\ Set(s, m).m = IF s.err THEN s.m ELSE m
<1>0. Place(s, q) BY DEF Good
<1> QED BY <1>0 DEF Set, Follows, Place, ChainFields

\* An assignment of fields that fit keeps a place good.
LEMMA SetKeeps ==
  ASSUME NEW s, NEW q, Good(s, q), NEW m, s.err \/ (MemFits(m, s.opened, q) /\ MemOn(m))
  PROVE  Good(Set(s, m), q)
<1>1. Set(s, m).opened = s.opened BY SetIs DEF Follows
<1>2. Set(s, m).d = s.d /\ Place(Set(s, m), q) BY SetIs
<1>3. MemFits(Set(s, m).m, s.opened, q) /\ MemOn(Set(s, m).m) BY SetIs DEF Good
<1> QED BY <1>1, <1>2, <1>3 DEF Good

\* A row of the feed or of a timeline changes neither memory nor what is read of the database.
LEMMA AddEventIs ==
  ASSUME NEW s, NEW q, Good(s, q)
  PROVE  /\ Good(AddEvent(s), q) /\ Follows(s, AddEvent(s))
         /\ AddEvent(s).m = s.m /\ AddEvent(s).d = s.d /\ AddEvent(s).pages = s.pages
<1>1. DbFits(s.d, s.opened, q) /\ DbOn(s.d) BY DEF Good
<1> QED BY <1>1, WriteIs, WriteKeeps DEF AddEvent

-----------------------------------------------------------------------------
(* An incident in the table.                                               *)

\* A table with one row put.
LEMMA WithIs ==
  ASSUME NEW t, NEW n, NEW inc
  PROVE  /\ DOMAIN With(t, n, inc) = DOMAIN t \cup {n}
         /\ With(t, n, inc)[n] = inc
         /\ \A k \in DOMAIN t : k # n => With(t, n, inc)[k] = t[k]
BY DEF With

\* The row that is put last stays.
LEMMA WithTwice ==
  ASSUME NEW t, NEW n, NEW a, NEW b
  PROVE  With(With(t, n, a), n, b) = With(t, n, b)
BY DEF With

\* A table fits with a row that fits.
LEMMA WithRow ==
  ASSUME NEW t, NEW o, NEW q, Table(t, o, q),
         NEW n \in Nat, NEW inc, Fits(inc, o), Loud(n, inc, q)
  PROVE  Table(With(t, n, inc), o, q)
<1> DEFINE u == With(t, n, inc)
<1>1. DOMAIN u = DOMAIN t \cup {n} /\ u[n] = inc /\ \A k \in DOMAIN t : k # n => u[k] = t[k]
  BY DEF With
<1>2. u = [k \in DOMAIN u |-> u[k]] BY DEF With
<1>3. IsFiniteSet(DOMAIN t) /\ DOMAIN t \subseteq Nat /\ \A k \in DOMAIN t : Fits(t[k], o) /\ Loud(k, t[k], q)
  BY DEF Table
<1>. HIDE DEF u
<1>4. IsFiniteSet(DOMAIN u) BY <1>1, <1>3, FS_AddElement
<1>5. \A k \in DOMAIN u : Fits(u[k], o) /\ Loud(k, u[k], q) BY <1>1, <1>3
<1>6. Table(u, o, q) BY <1>1, <1>2, <1>3, <1>4, <1>5 DEF Table
<1> QED BY <1>6 DEF u

\* The fields of the memory in which t is the table of incidents.
LEMMA TableIs ==
  ASSUME NEW m, m = [f \in MemFields |-> m[f]], NEW t
  PROVE  LET k == [m EXCEPT !.incidents = t]
         IN  /\ k = [f \in MemFields |-> k[f]] /\ k.incidents = t
             /\ k.next = m.next /\ k.seq = m.seq /\ k.oncallSeq = m.oncallSeq
             /\ k.overrides = m.overrides /\ k.last = m.last
BY DEF MemFields

\* What setting an incident in memory does to a place.
LEMMA SetIncidentIs ==
  ASSUME NEW s, NEW q, Good(s, q), NEW n, NEW inc,
         s.err \/ (n \in Nat /\ Fits(inc, s.opened) /\ Loud(n, inc, q))
  PROVE  LET t == SetIncident(s, n, inc)
         IN  /\ Good(t, q) /\ Follows(s, t) /\ t.d = s.d /\ t.pages = s.pages
             /\ t.hit = s.hit /\ t.err = s.err
             /\ s.err => t.m = s.m
             /\ t.m.next = s.m.next /\ t.m.seq = s.m.seq /\ t.m.oncallSeq = s.m.oncallSeq
             /\ t.m.overrides = s.m.overrides /\ t.m.last = s.m.last
             /\ ~s.err => t.m.incidents = With(s.m.incidents, n, inc)
<1> DEFINE w == With(s.m.incidents, n, inc)
           m == [s.m EXCEPT !.incidents = w]
           t == SetIncident(s, n, inc)
<1>1. t = Set(s, m) BY DEF SetIncident
<1>2. MemFits(s.m, s.opened, q) /\ MemOn(s.m) BY DEF Good
<1>. HIDE DEF w, t
<1>3. /\ m = [f \in MemFields |-> m[f]] /\ m.incidents = w
      /\ m.next = s.m.next /\ m.seq = s.m.seq /\ m.oncallSeq = s.m.oncallSeq
      /\ m.overrides = s.m.overrides /\ m.last = s.m.last
  BY <1>2, TableIs DEF MemFits
<1>4. ~s.err => Table(w, s.opened, q)
  BY <1>2, WithRow DEF MemFits, w
<1>. HIDE DEF m
<1>5. ~s.err => MemFits(m, s.opened, q) /\ MemOn(m) BY <1>2, <1>3, <1>4 DEF MemFits, MemOn
<1>6. Good(t, q) BY <1>1, <1>5, SetKeeps
<1>7. /\ Follows(s, t) /\ t.d = s.d /\ t.pages = s.pages /\ t.hit = s.hit /\ t.err = s.err
      /\ t.m = IF s.err THEN s.m ELSE m
  BY <1>1, SetIs
<1> QED BY <1>3, <1>6, <1>7 DEF t, w

\* An incident that keeps its birth and its alert, and is not opened again.
SameKind(inc, old) == /\ inc.birth = old.birth /\ inc.alert = old.alert
                      /\ inc.status # "resolved" => old.status # "resolved"

\* An incident that is being worked on may change as long as it stays what it is.
LEMMA SetIncidentWork ==
  ASSUME NEW s, NEW n, NEW x, NEW q, Work(s, n, x, q),
         NEW inc, s.err \/ (/\ Fits(inc, s.opened) /\ Loud(n, inc, q)
                            /\ SameKind(inc, s.m.incidents[n]))
  PROVE  /\ Work(SetIncident(s, n, inc), n, x, q) /\ Follows(s, SetIncident(s, n, inc))
         /\ SetIncident(s, n, inc).err = s.err /\ SetIncident(s, n, inc).hit = s.hit
         /\ SetIncident(s, n, inc).d = s.d /\ SetIncident(s, n, inc).pages = s.pages
         /\ s.err => SetIncident(s, n, inc).m = s.m
         /\ DOMAIN SetIncident(s, n, inc).m.incidents = DOMAIN s.m.incidents
         /\ ~s.err => SetIncident(s, n, inc).m.incidents[n] = inc
         /\ \A k \in DOMAIN s.m.incidents : k # n =>
              SetIncident(s, n, inc).m.incidents[k] = s.m.incidents[k]
<1> DEFINE t == SetIncident(s, n, inc)
<1>1. Good(s, q) /\ Same(s) /\ ButFor(s, n) /\ AlertsBut(s, x) /\ n \in DOMAIN s.m.incidents BY DEF Work
<1>2. n \in Nat BY <1>1 DEF Good, MemFits, Table
<1>3. /\ Good(t, q) /\ Follows(s, t) /\ t.d = s.d /\ t.pages = s.pages
      /\ t.hit = s.hit /\ t.err = s.err
      /\ s.err => t.m = s.m
      /\ t.m.next = s.m.next /\ t.m.oncallSeq = s.m.oncallSeq
      /\ t.m.overrides = s.m.overrides /\ t.m.last = s.m.last
      /\ ~s.err => t.m.incidents = With(s.m.incidents, n, inc)
  BY <1>1, <1>2, SetIncidentIs
<1>4. ~s.hit => ~s.err BY <1>1 DEF Good, Place
<1>. HIDE DEF t
<1>5. /\ DOMAIN t.m.incidents = DOMAIN s.m.incidents
      /\ ~s.err => t.m.incidents[n] = inc
      /\ \A k \in DOMAIN s.m.incidents : k # n => t.m.incidents[k] = s.m.incidents[k]
  <2>1. CASE s.err BY <1>3, <2>1
  <2>2. CASE ~s.err
    <3>1. t.m.incidents = With(s.m.incidents, n, inc) BY <1>3, <2>2
    <3>2. DOMAIN t.m.incidents = DOMAIN s.m.incidents \cup {n} BY <3>1 DEF With
    <3>3. DOMAIN t.m.incidents = DOMAIN s.m.incidents BY <1>1, <3>2
    <3> QED BY <1>1, <2>2, <3>1, <3>3 DEF With
  <2> QED BY <2>1, <2>2
<1>6. ButFor(t, n)
  <2> SUFFICES ASSUME fails = 0, ~t.hit PROVE t.m.incidents = With(t.d.incidents, n, t.m.incidents[n])
    BY DEF ButFor, With1
  <2>1. s.m.incidents = With(s.d.incidents, n, s.m.incidents[n]) BY <1>1, <1>3 DEF ButFor, With1
  <2>2. t.m.incidents = With(s.m.incidents, n, inc) /\ t.m.incidents[n] = inc BY <1>3, <1>4, <1>5
  <2>3. With(s.m.incidents, n, inc) = With(s.d.incidents, n, inc) BY <2>1, WithTwice
  <2> QED BY <1>3, <2>2, <2>3
<1>7. AlertsBut(t, x)
  <2> SUFFICES ASSUME fails + crashes = 0, ~t.hit, NEW k \in DOMAIN t.m.incidents
               PROVE  k < t.m.next /\ (k \notin x => Finds(k, t.m.incidents[k], t.d.alerts, t.opened))
    BY DEF AlertsBut
  <2>1. k < s.m.next /\ (k \notin x => Finds(k, s.m.incidents[k], s.d.alerts, s.opened))
    BY <1>1, <1>3, <1>5 DEF AlertsBut
  <2>2. CASE k # n BY <1>3, <1>5, <2>1, <2>2 DEF Follows
  <2>3. CASE k = n
    <3>1. SameKind(t.m.incidents[k], s.m.incidents[k]) BY <1>3, <1>4, <1>5, <2>3
    <3>2. Finds(k, s.m.incidents[k], s.d.alerts, s.opened) => Finds(k, t.m.incidents[k], s.d.alerts, s.opened)
      BY <3>1 DEF Finds, SameKind
    <3> QED BY <1>3, <2>1, <3>2 DEF Follows
  <2> QED BY <2>2, <2>3
<1>8. Same(t) BY <1>1, <1>3 DEF Same
<1>9. Work(t, n, x, q) BY <1>1, <1>3, <1>5, <1>6, <1>7, <1>8 DEF Work
<1> QED BY <1>3, <1>5, <1>9 DEF t

-----------------------------------------------------------------------------
(* Paging.                                                                 *)

\* What follows on what follows.
LEMMA FollowsOn ==
  ASSUME NEW r, NEW s, NEW t, Follows(r, s), Follows(s, t)
  PROVE  Follows(r, t)
BY DEF Follows

\* A place with the same memory and database is as far as the other.
LEMMA SameWork ==
  ASSUME NEW s, NEW n, NEW x, NEW q, Work(s, n, x, q),
         NEW t, Good(t, q), Follows(s, t), t.m = s.m, t.d = s.d
  PROVE  Work(t, n, x, q)
<1>1. ButFor(t, n) BY DEF Work, ButFor, With1, Follows
<1>2. AlertsBut(t, x) BY DEF Work, AlertsBut, Follows
<1>3. Same(t) BY DEF Work, Same
<1> QED BY <1>1, <1>2, <1>3 DEF Work

\* A row of the timeline leaves the work where it is.
LEMMA RecordWork ==
  ASSUME NEW s, NEW n, NEW x, NEW q, Work(s, n, x, q)
  PROVE  /\ Work(Record(s), n, x, q) /\ Follows(s, Record(s))
         /\ Record(s).m = s.m /\ Record(s).d = s.d /\ Record(s).pages = s.pages
<1>1. Good(s, q) BY DEF Work
<1>2. /\ Good(Record(s), q) /\ Follows(s, Record(s))
      /\ Record(s).m = s.m /\ Record(s).d = s.d /\ Record(s).pages = s.pages
  BY <1>1, AddEventIs DEF Record
<1> QED BY <1>2, SameWork

\* Only a triggered incident pages.
LEMMA PageWork ==
  ASSUME NEW s, NEW n, NEW x, NEW q, Work(s, n, x, q), NEW u,
         s.err \/ s.m.incidents[n].status = "triggered"
  PROVE  /\ Work(Page(s, n, u), n, x, q) /\ Follows(s, Page(s, n, u)) /\ Page(s, n, u).m = s.m
         /\ Page(s, n, u).d = s.d
<1> DEFINE asked == [incident |-> n, birth |-> s.m.incidents[n].birth, user |-> u]
           r == [s EXCEPT !.pages = @ \cup {asked}]
<1>1. Good(s, q) /\ n \in DOMAIN s.m.incidents BY DEF Work
<1>2. CASE s.err \/ u \notin Reachable
  <2>1. Page(s, n, u) = Record(s) BY <1>2 DEF Page
  <2> QED BY <2>1, RecordWork
<1>3. CASE ~s.err /\ u \in Reachable
  <2>1. Page(s, n, u) = Record(r) BY <1>3 DEF Page
  <2>2. fails = 0 => Incident(asked) \notin q
    BY <1>1, <1>3 DEF Good, MemFits, Table, Loud, Incident
  <2>3. Place(s, q) BY <1>1 DEF Good
  <2>. HIDE DEF asked
  <2>4. s = [f \in ChainFields |-> s[f]] BY <2>3 DEF Place
  <2>5. /\ r = [f \in ChainFields |-> r[f]] /\ r.pages = s.pages \cup {asked}
        /\ r.left = s.left /\ r.hit = s.hit /\ r.err = s.err
        /\ r.m = s.m /\ r.d = s.d /\ r.fault = s.fault /\ r.opened = s.opened
    BY <2>4 DEF ChainFields
  <2>. HIDE DEF r
  <2>6. Place(r, q) BY <2>2, <2>3, <2>5 DEF Place
  <2>7. Good(r, q) /\ Follows(s, r) BY <1>1, <2>5, <2>6 DEF Good, Follows
  <2>8. Work(r, n, x, q) BY <2>5, <2>7, SameWork
  <2>9. Work(Record(r), n, x, q) /\ Follows(r, Record(r)) /\ Record(r).m = r.m /\ Record(r).d = r.d
    BY <2>8, RecordWork
  <2> QED BY <2>1, <2>5, <2>7, <2>9, FollowsOn
<1> QED BY <1>2, <1>3

\* The pages of PageAll so far.
Paged(r, s, n, users) ==
  r = [j \in 0..Len(users) |-> IF j = 0 THEN s
                               ELSE IF \E i \in 1..(j - 1) : users[i] = users[j] THEN r[j - 1]
                               ELSE Page(Record(r[j - 1]), n, users[j])]

\* PageAll is the last of the places it goes through, which there are.
LEMMA PagedIs ==
  ASSUME NEW s, NEW n, NEW users, Len(users) \in Nat
  PROVE  \E r : Paged(r, s, n, users) /\ PageAll(s, n, users) = r[Len(users)]
<1> DEFINE Next1(r, j) == IF \E i \in 1..(j - 1) : users[i] = users[j] THEN r ELSE Page(Record(r), n, users[j])
           Made(k) == \E r : r = [j \in 0..k |-> IF j = 0 THEN s ELSE Next1(r[j - 1], j)]
           T == {k \in Nat : Made(k)}
<1>1. Made(0)
  <2> DEFINE r == [j \in 0..0 |-> s]
  <2>. HIDE DEF Next1
  <2>1. r = [j \in 0..0 |-> IF j = 0 THEN s ELSE Next1(r[j - 1], j)] OBVIOUS
  <2> QED BY <2>1
<1>2. ASSUME NEW k \in Nat, Made(k) PROVE Made(k + 1)
  <2>. HIDE DEF Next1
  <2>1. PICK r : r = [j \in 0..k |-> IF j = 0 THEN s ELSE Next1(r[j - 1], j)] BY <1>2
  <2> DEFINE p == [j \in 0..(k + 1) |-> IF j = k + 1 THEN Next1(r[k], k + 1) ELSE r[j]]
  <2>2. \A j \in 0..(k + 1) : p[j] = IF j = 0 THEN s ELSE Next1(p[j - 1], j)
    <3> TAKE j \in 0..(k + 1)
    <3>1. CASE j = k + 1 BY <3>1
    <3>2. CASE j # k + 1 BY <3>2, <2>1
    <3> QED BY <3>1, <3>2
  <2>3. p = [j \in 0..(k + 1) |-> IF j = 0 THEN s ELSE Next1(p[j - 1], j)] BY <2>2
  <2> QED BY <2>3
<1>3. Made(Len(users))
  <2>. HIDE DEF Made
  <2>1. 0 \in T /\ \A k \in Nat : k \in T => k + 1 \in T BY <1>1, <1>2
  <2>2. \A k \in Nat : k \in T
    <3>. HIDE DEF T
    <3> QED BY <2>1, Induction
  <2> QED BY <2>2
<1>4. \E r : Paged(r, s, n, users) BY <1>3 DEF Paged
<1> QED BY <1>4 DEF PageAll, Paged

\* Paging the users of a level changes neither memory nor database.
LEMMA PageAllWork ==
  ASSUME NEW s, NEW n, NEW x, NEW q, Work(s, n, x, q), NEW users, Len(users) \in Nat,
         s.err \/ s.m.incidents[n].status = "triggered"
  PROVE  /\ Work(PageAll(s, n, users), n, x, q) /\ Follows(s, PageAll(s, n, users))
         /\ PageAll(s, n, users).m = s.m /\ PageAll(s, n, users).d = s.d
<1>1. PICK r : Paged(r, s, n, users) /\ PageAll(s, n, users) = r[Len(users)] BY PagedIs
<1> DEFINE Right(k) == Work(r[k], n, x, q) /\ Follows(s, r[k]) /\ r[k].m = s.m /\ r[k].d = s.d
           T == {k \in Nat : k <= Len(users) => Right(k)}
<1>2. /\ r[0] = s
      /\ \A k \in Nat : k + 1 <= Len(users) =>
           r[k + 1] = r[k] \/ r[k + 1] = Page(Record(r[k]), n, users[k + 1])
  BY <1>1 DEF Paged
<1>3. 0 \in T BY <1>2 DEF Follows
<1>4. ASSUME NEW k \in Nat, k \in T PROVE k + 1 \in T
  <2> SUFFICES ASSUME k + 1 <= Len(users) PROVE Right(k + 1) OBVIOUS
  <2> DEFINE v == r[k]
             w == Record(v)
             u == users[k + 1]
  <2>1. Work(v, n, x, q) /\ Follows(s, v) /\ v.m = s.m /\ v.d = s.d BY <1>4
  <2>2. r[k + 1] = v \/ r[k + 1] = Page(w, n, u) BY <1>2
  <2>. HIDE DEF v, u
  <2>3. Work(w, n, x, q) /\ Follows(v, w) /\ w.m = v.m /\ w.d = v.d BY <2>1, RecordWork
  <2>. HIDE DEF w
  <2>4. w.err \/ w.m.incidents[n].status = "triggered" BY <2>1, <2>3 DEF Follows
  <2>5. /\ Work(Page(w, n, u), n, x, q) /\ Follows(w, Page(w, n, u)) /\ Page(w, n, u).m = w.m
        /\ Page(w, n, u).d = w.d
    BY <2>3, <2>4, PageWork
  <2>6. Follows(s, Page(w, n, u)) BY <2>1, <2>3, <2>5, FollowsOn
  <2> QED BY <2>1, <2>2, <2>3, <2>5, <2>6
<1>5. \A k \in Nat : k \in T
  <2>1. \A k \in Nat : k \in T => k + 1 \in T BY <1>4
  <2>. HIDE DEF T
  <2> QED BY <1>3, <2>1, Induction
<1>6. Right(Len(users)) BY <1>5
<1> QED BY <1>1, <1>6

-----------------------------------------------------------------------------
(* Levels, assignments and changes.                                        *)

\* What the assumption says of a policy: its levels and who they page are sequences.
LEMMA PolicyIs ==
  ASSUME NEW p \in DOMAIN Policies
  PROVE  /\ Policies[p].repeat \in Nat
         /\ Len(Policies[p].levels) \in Nat /\ Len(Policies[p].levels) >= 1
         /\ DOMAIN Policies[p].levels = 1..Len(Policies[p].levels)
         /\ \A l \in 1..Len(Policies[p].levels) : Len(LevelUsers(Policies[p].levels[l])) \in Nat
<1> DEFINE levels == Policies[p].levels
<1>1. /\ Policies[p].repeat \in Nat /\ levels # <<>> /\ levels \in Seq(ToSet(levels))
      /\ \A level \in ToSet(levels) : level.users \in Seq(ToSet(level.users))
  BY OnCallAssumption DEF OnCallAssumption
<1>. HIDE DEF levels
<1>2. Len(levels) \in Nat /\ Len(levels) >= 1 /\ DOMAIN levels = 1..Len(levels) BY <1>1
<1>3. ASSUME NEW l \in 1..Len(levels) PROVE Len(LevelUsers(levels[l])) \in Nat
  <2> DEFINE us == levels[l].users
             on == Rot!OnCallAt(clock).user
             rota == IF levels[l].onRota /\ on # "nobody" THEN <<on>> ELSE <<>>
  <2>1. us \in Seq(ToSet(us))
    <3>1. levels[l] \in ToSet(levels) BY <1>2, <1>3 DEF ToSet
    <3> QED BY <1>1, <3>1
  <2>2. LevelUsers(levels[l]) = rota \o us BY DEF LevelUsers
  <2>3. Len(rota) \in Nat /\ rota \in Seq({on})
    <3>1. rota = <<on>> \/ rota = <<>> BY DEF rota
    <3>. HIDE DEF rota, on
    <3>2. CASE rota = <<>> BY <3>2
    <3>3. CASE rota = <<on>>
      <4>1. <<on>> \in Seq({on}) /\ Len(<<on>>) = 1 OBVIOUS
      <4> QED BY <3>3, <4>1
    <3> QED BY <3>1, <3>2, <3>3
  <2>. HIDE DEF us, rota, on
  <2>4. Len(us) \in Nat BY <2>1
  <2>5. Len(rota \o us) = Len(rota) + Len(us) BY <2>1, <2>3
  <2> QED BY <2>2, <2>3, <2>4, <2>5
<1> QED BY <1>1, <1>2, <1>3 DEF levels

\* An incident whose fields new is a change of, but for its status and policy.
LEMMA Changed ==
  ASSUME NEW inc, NEW o, Fits(inc, o), NEW new, new = [f \in IncidentFields |-> new[f]],
         new.status = inc.status, new.policy = inc.policy, new.birth = inc.birth, new.alert = inc.alert,
         new.level \in 0..Len(Levels(inc)), new.loops \in Nat, new.changed \in Nat,
         new.due # Never => new.status = "triggered", new.acked = inc.acked
  PROVE  Fits(new, o) /\ SameKind(new, inc)
<1>1. Levels(new) = Levels(inc) BY DEF Levels
<1> QED BY <1>1 DEF Fits, SameKind

\* Assigning a level sets the level, the time and the assigned users of the incident in memory.
LEMMA AssignWork ==
  ASSUME NEW s, NEW n, NEW x, NEW q, Work(s, n, x, q),
         NEW level \in 1..Len(Levels(s.m.incidents[n])),
         s.err \/ s.m.incidents[n].status = "triggered"
  PROVE  /\ Work(Assign(s, n, level), n, x, q) /\ Follows(s, Assign(s, n, level))
         /\ Stay(s, Assign(s, n, level)) /\ Assign(s, n, level).d = s.d
<1> DEFINE old   == s.m.incidents[n]
           inc   == [old EXCEPT !.level = level]
           users == LevelUsers(Levels(inc)[level])
           new   == [inc EXCEPT !.due = EscalatesAt(inc), !.assigned = ToSet(users)]
           s1    == SetIncident(s, n, new)
<1>1. /\ Fits(old, s.opened) /\ Loud(n, old, q) /\ n \in DOMAIN s.m.incidents
  BY DEF Work, Good, MemFits, Table
<1>2. Assign(s, n, level) = IF users = <<>> THEN Record(s1) ELSE PageAll(s1, n, users)
  BY DEF Assign
<1>3. Len(users) \in Nat
  <2>1. old = [f \in IncidentFields |-> old[f]] /\ old.policy \in DOMAIN Policies BY <1>1 DEF Fits
  <2>. HIDE DEF old
  <2>2. inc.policy = old.policy BY <2>1 DEF IncidentFields
  <2>. HIDE DEF inc
  <2>3. Levels(inc) = Policies[old.policy].levels /\ level \in 1..Len(Policies[old.policy].levels)
    BY <2>2 DEF Levels, old
  <2> QED BY <2>1, <2>3, PolicyIs
<1>4. s.err \/ (Fits(new, s.opened) /\ Loud(n, new, q) /\ SameKind(new, old)
                /\ new.status = old.status /\ new.birth = old.birth)
  <2> SUFFICES ASSUME ~s.err
               PROVE  /\ Fits(new, s.opened) /\ Loud(n, new, q) /\ SameKind(new, old)
                      /\ new.status = old.status /\ new.birth = old.birth
    OBVIOUS
  <2> DEFINE due == EscalatesAt(inc)
             who == ToSet(users)
  <2>1. old.status = "triggered" /\ level \in 1..Len(Levels(old)) OBVIOUS
  <2>. HIDE DEF users, old, due, who
  <2>2. new = [[old EXCEPT !.level = level] EXCEPT !.due = due, !.assigned = who] BY DEF due, who
  <2>. HIDE DEF new
  <2>3. Fits(old, s.opened) /\ Loud(n, old, q) BY <1>1
  <2>4. old = [f \in IncidentFields |-> old[f]] BY <2>3 DEF Fits
  <2>5. /\ new = [f \in IncidentFields |-> new[f]]
        /\ new.status = old.status /\ new.policy = old.policy /\ new.level = level
        /\ new.loops = old.loops /\ new.changed = old.changed /\ new.acked = old.acked
        /\ new.birth = old.birth /\ new.alert = old.alert
    BY <2>2, <2>4 DEF IncidentFields
  <2>6. level \in 0..Len(Levels(old)) /\ old.loops \in Nat /\ old.changed \in Nat
    BY <2>1, <2>3, PolicyIs DEF Fits, Levels
  <2>7. Fits(new, s.opened) /\ SameKind(new, old) BY <2>1, <2>3, <2>5, <2>6, Changed
  <2>8. Loud(n, new, q) BY <2>3, <2>5 DEF Loud
  <2> QED BY <2>5, <2>7, <2>8
<1>. HIDE DEF new, users, inc
<1>5. /\ Work(s1, n, x, q) /\ Follows(s, s1) /\ s1.err = s.err /\ s1.d = s.d
      /\ s.err => s1.m = s.m
      /\ DOMAIN s1.m.incidents = DOMAIN s.m.incidents
      /\ ~s.err => s1.m.incidents[n] = new
      /\ \A k \in DOMAIN s.m.incidents : k # n => s1.m.incidents[k] = s.m.incidents[k]
  BY <1>4, SetIncidentWork
<1>. HIDE DEF s1
<1>6. Stay(s, s1) BY <1>1, <1>4, <1>5 DEF Stay
<1>7. s1.err \/ s1.m.incidents[n].status = "triggered" BY <1>4, <1>5
<1>8. CASE users = <<>>
  <2>1. /\ Work(Record(s1), n, x, q) /\ Follows(s1, Record(s1)) /\ Record(s1).m = s1.m
        /\ Record(s1).d = s1.d
    BY <1>5, RecordWork
  <2> QED BY <1>2, <1>5, <1>6, <1>8, <2>1, FollowsOn DEF Stay
<1>9. CASE users # <<>>
  <2>1. /\ Work(PageAll(s1, n, users), n, x, q) /\ Follows(s1, PageAll(s1, n, users))
        /\ PageAll(s1, n, users).m = s1.m /\ PageAll(s1, n, users).d = s1.d
    BY <1>3, <1>5, <1>7, PageAllWork
  <2> QED BY <1>2, <1>5, <1>6, <1>9, <2>1, FollowsOn DEF Stay
<1> QED BY <1>8, <1>9

\* The fields of the database in which t is the table of incidents.
LEMMA DbTableIs ==
  ASSUME NEW d, d = [f \in DbFields |-> d[f]], NEW t, NEW k, k = [d EXCEPT !.incidents = t]
  PROVE  /\ k = [f \in DbFields |-> k[f]] /\ k.incidents = t
         /\ k.overrides = d.overrides /\ k.counters = d.counters /\ k.last = d.last
         /\ k.alerts = d.alerts /\ k.ended = d.ended /\ k.seen = d.seen /\ k.answered = d.answered
BY DEF DbFields

\* The fields of the database in which c are the counters.
LEMMA DbCountersIs ==
  ASSUME NEW d, d = [f \in DbFields |-> d[f]], NEW c, NEW k, k = [d EXCEPT !.counters = c]
  PROVE  /\ k = [f \in DbFields |-> k[f]] /\ k.counters = c
         /\ k.overrides = d.overrides /\ k.incidents = d.incidents /\ k.last = d.last
         /\ k.alerts = d.alerts /\ k.ended = d.ended /\ k.seen = d.seen /\ k.answered = d.answered
BY DEF DbFields

\* The counters are saved.
LEMMA SaveCountersIs ==
  ASSUME NEW s, NEW q, Good(s, q)
  PROVE  LET t == SaveCounters(s)
         IN  /\ Good(t, q) /\ Follows(s, t) /\ t.m = s.m /\ t.pages = s.pages
             /\ t.d.incidents = s.d.incidents /\ t.d.overrides = s.d.overrides /\ t.d.last = s.d.last
             /\ t.d.alerts = s.d.alerts /\ t.d.ended = s.d.ended
             /\ ~t.hit => t.d.counters = Counters(s.m)
<1> DEFINE k == [s.d EXCEPT !.counters = Counters(s.m)]
           t == SaveCounters(s)
<1>1. t = Write(s, k) BY DEF SaveCounters
<1>2. MemFits(s.m, s.opened, q) /\ DbFits(s.d, s.opened, q) /\ DbOn(s.d) BY DEF Good
<1>3. Counters(s.m) \in [next : Nat, seq : Nat, oncallSeq : Nat] BY <1>2 DEF Counters, MemFits
<1>4. /\ k = [f \in DbFields |-> k[f]] /\ k.counters = Counters(s.m)
      /\ k.overrides = s.d.overrides /\ k.incidents = s.d.incidents /\ k.last = s.d.last
      /\ k.alerts = s.d.alerts /\ k.ended = s.d.ended /\ k.seen = s.d.seen
  <2>1. s.d = [f \in DbFields |-> s.d[f]] BY <1>2 DEF DbFits
  <2> QED BY <2>1, DbCountersIs
<1>. HIDE DEF k, t
<1>5. DbFits(k, s.opened, q) BY <1>2, <1>3, <1>4 DEF DbFits
<1>6. DbOn(k) BY <1>2, <1>4 DEF DbOn, Listed, Covered
<1>7. Good(t, q) BY <1>1, <1>5, <1>6, WriteKeeps
<1>8. /\ Follows(s, t) /\ t.m = s.m /\ t.pages = s.pages
      /\ t.d = s.d \/ t.d = k
      /\ ~t.hit => t.d = k
  BY <1>1, WriteIs
<1> QED BY <1>4, <1>7, <1>8 DEF t

\* The row of an incident is written as memory has it.
LEMMA PutIncidentIs ==
  ASSUME NEW s, NEW q, Good(s, q), NEW n \in DOMAIN s.m.incidents,
         s.err \/ s.m.incidents[n].changed > mem.seq
  PROVE  LET t == PutIncident(s, n)
         IN  /\ Good(t, q) /\ Follows(s, t) /\ t.m = s.m /\ t.pages = s.pages
             /\ t.d.overrides = s.d.overrides /\ t.d.last = s.d.last
             /\ t.d.alerts = s.d.alerts /\ t.d.ended = s.d.ended
             /\ ~t.hit => t.d.incidents = With(s.d.incidents, n, s.m.incidents[n])
<1> DEFINE u == With(s.d.incidents, n, s.m.incidents[n])
           k == [s.d EXCEPT !.incidents = u]
           t == PutIncident(s, n)
<1>1. t = Write(s, k) BY DEF PutIncident
<1>2. MemFits(s.m, s.opened, q) /\ DbFits(s.d, s.opened, q) /\ DbOn(s.d) BY DEF Good
<1>3. n \in Nat /\ Fits(s.m.incidents[n], s.opened) /\ Loud(n, s.m.incidents[n], q)
  BY <1>2 DEF MemFits, Table
<1>4. Table(u, s.opened, q) BY <1>2, <1>3, WithRow DEF DbFits
<1>5. /\ DOMAIN u = DOMAIN s.d.incidents \cup {n} /\ u[n] = s.m.incidents[n]
      /\ \A j \in DOMAIN s.d.incidents : j # n => u[j] = s.d.incidents[j]
  BY DEF With
<1>. HIDE DEF u
<1>6. /\ k = [f \in DbFields |-> k[f]] /\ k.incidents = u
      /\ k.overrides = s.d.overrides /\ k.counters = s.d.counters /\ k.last = s.d.last
      /\ k.alerts = s.d.alerts /\ k.ended = s.d.ended /\ k.seen = s.d.seen
  <2>1. s.d = [f \in DbFields |-> s.d[f]] BY <1>2 DEF DbFits
  <2> QED BY <2>1, DbTableIs
<1>. HIDE DEF k, t
<1>7. DbFits(k, s.opened, q) BY <1>2, <1>4, <1>6 DEF DbFits
<1>8. ~s.err => DbOn(k)
  <2> SUFFICES ASSUME ~s.err PROVE DbOn(k) OBVIOUS
  <2>1. Listed(k) BY <1>2, <1>5, <1>6 DEF DbOn, Listed, Covered
  <2>2. k.seen = s.d.seen /\ k.ended = s.d.ended BY <1>6
  <2> QED BY <1>2, <2>1, <2>2 DEF DbOn, Covered
<1>9. Good(t, q) BY <1>1, <1>7, <1>8, WriteKeeps
<1>10. /\ Follows(s, t) /\ t.m = s.m /\ t.pages = s.pages
       /\ t.d = s.d \/ t.d = k
       /\ ~t.hit => t.d = k
  BY <1>1, WriteIs
<1> QED BY <1>6, <1>9, <1>10 DEF t, u

\* The change of an incident ends the work on it.
LEMMA TouchIdle ==
  ASSUME RestartLosesNothing, NEW s, NEW n, NEW x, NEW q, Work(s, n, x, q)
  PROVE  /\ Idle(Touch(s, n), x, q) /\ Follows(s, Touch(s, n)) /\ Stay(s, Touch(s, n))
         /\ Touch(s, n).pages = s.pages
         /\ Touch(s, n).d.alerts = s.d.alerts /\ Touch(s, n).d.ended = s.d.ended
<1> DEFINE k   == [s.m EXCEPT !.seq = @ + 1, !.incidents[n].changed = s.m.seq + 1]
           inc == [s.m.incidents[n] EXCEPT !.changed = s.m.seq + 1]
           s1  == Set(s, k)
           s2  == PutIncident(s1, n)
           t   == SaveCounters(s2)
<1>1. /\ Good(s, q) /\ n \in DOMAIN s.m.incidents /\ MemFits(s.m, s.opened, q) /\ MemOn(s.m)
      /\ ButFor(s, n) /\ AlertsBut(s, x) /\ Same(s)
  BY DEF Work, Good
<1>2. /\ Fits(s.m.incidents[n], s.opened) /\ Loud(n, s.m.incidents[n], q) /\ n \in Nat
      /\ s.m.seq \in Nat /\ s.m.seq >= mem.seq
      /\ Table(s.m.incidents, s.opened, q)
  BY <1>1 DEF MemFits, Table, MemOn
<1>3. /\ inc = [f \in IncidentFields |-> inc[f]]
      /\ inc.status = s.m.incidents[n].status /\ inc.policy = s.m.incidents[n].policy
      /\ inc.level = s.m.incidents[n].level /\ inc.loops = s.m.incidents[n].loops
      /\ inc.due = s.m.incidents[n].due /\ inc.acked = s.m.incidents[n].acked
      /\ inc.changed = s.m.seq + 1
      /\ inc.birth = s.m.incidents[n].birth /\ inc.alert = s.m.incidents[n].alert
  BY <1>2 DEF Fits, IncidentFields
<1>4. /\ k = [f \in MemFields |-> k[f]] /\ k.incidents = With(s.m.incidents, n, inc)
      /\ k.seq = s.m.seq + 1 /\ k.next = s.m.next /\ k.oncallSeq = s.m.oncallSeq
      /\ k.overrides = s.m.overrides /\ k.last = s.m.last
  <2>1. /\ s.m = [f \in MemFields |-> s.m[f]]
        /\ s.m.incidents = [j \in DOMAIN s.m.incidents |-> s.m.incidents[j]]
    BY <1>1, <1>2 DEF MemFits, Table
  <2>. HIDE DEF k, inc
  <2>2. inc = [s.m.incidents[n] EXCEPT !.changed = s.m.seq + 1] BY DEF inc
  <2>3. k = [s.m EXCEPT !.seq = @ + 1, !.incidents[n].changed = s.m.seq + 1] BY DEF k
  <2>4. n \in DOMAIN s.m.incidents BY <1>1
  <2> DEFINE m == s.m
  <2>. HIDE DEF m
  <2>5. /\ m = [f \in MemFields |-> m[f]] /\ n \in DOMAIN m.incidents
        /\ m.incidents = [j \in DOMAIN m.incidents |-> m.incidents[j]]
        /\ inc = [m.incidents[n] EXCEPT !.changed = m.seq + 1]
        /\ k = [m EXCEPT !.seq = @ + 1, !.incidents[n].changed = m.seq + 1]
    BY <2>1, <2>2, <2>3, <2>4 DEF m
  <2>6. /\ k = [f \in MemFields |-> k[f]] /\ k.incidents = With(m.incidents, n, inc)
        /\ k.seq = m.seq + 1 /\ k.next = m.next /\ k.oncallSeq = m.oncallSeq
        /\ k.overrides = m.overrides /\ k.last = m.last
    <3>1. k = [[m EXCEPT !.seq = m.seq + 1] EXCEPT !.incidents = [m.incidents EXCEPT ![n] = inc]]
      BY <2>5 DEF MemFields
    <3>2. [m.incidents EXCEPT ![n] = inc] = With(m.incidents, n, inc)
      BY <2>5 DEF With
    <3> QED BY <2>5, <3>1, <3>2 DEF MemFields
  <2> QED BY <2>6 DEF m
<1>5. Touch(s, n) = t BY DEF Touch
<1>. HIDE DEF inc, k
<1>6. Fits(inc, s.opened) /\ Loud(n, inc, q) /\ SameKind(inc, s.m.incidents[n])
  <2>1. s.m.seq + 1 \in Nat BY <1>2
  <2> DEFINE old == s.m.incidents[n]
  <2>3. old.level \in 0..Len(Levels(old)) /\ old.loops \in Nat /\ (old.due # Never => old.status = "triggered")
    BY <1>2 DEF Fits
  <2>. HIDE DEF old
  <2>4. Fits(old, s.opened) BY <1>2 DEF old
  <2>5. /\ inc = [f \in IncidentFields |-> inc[f]]
        /\ inc.status = old.status /\ inc.policy = old.policy /\ inc.level = old.level
        /\ inc.loops = old.loops /\ inc.due = old.due /\ inc.acked = old.acked
        /\ inc.changed \in Nat /\ inc.birth = old.birth /\ inc.alert = old.alert
    BY <1>3, <2>1 DEF old
  <2>6. Fits(inc, s.opened) /\ SameKind(inc, old) BY <2>3, <2>4, <2>5, Changed
  <2>2. Fits(inc, s.opened) /\ SameKind(inc, s.m.incidents[n]) BY <2>6 DEF old
  <2> QED BY <1>2, <1>3, <2>2 DEF Loud
<1>7. MemFits(k, s.opened, q) /\ MemOn(k)
  <2>1. Table(k.incidents, s.opened, q) BY <1>2, <1>4, <1>6, WithRow
  <2>2. s.m.seq \in Nat /\ mem.seq \in Nat /\ s.m.seq >= mem.seq BY <1>1 DEF MemFits, MemOn
  <2>3. k.seq \in Nat /\ k.seq >= mem.seq BY <1>4, <2>2
  <2>4. MemFits(k, s.opened, q) BY <1>1, <1>4, <2>1, <2>3 DEF MemFits
  <2> QED BY <1>1, <1>4, <2>2, <2>3, <2>4 DEF MemOn
<1>8. /\ Good(s1, q) /\ Follows(s, s1) /\ s1.d = s.d /\ s1.pages = s.pages /\ s1.hit = s.hit
      /\ s1.err = s.err /\ s1.m = IF s.err THEN s.m ELSE k
  <2>. HIDE DEF s1
  <2>1. s1 = Set(s, k) BY DEF s1
  <2> QED BY <1>1, <1>7, <2>1, SetIs, SetKeeps
<1>. HIDE DEF s1
<1>9. /\ DOMAIN s1.m.incidents = DOMAIN s.m.incidents
      /\ \A j \in DOMAIN s.m.incidents : SameKind(s1.m.incidents[j], s.m.incidents[j])
                                         /\ s1.m.incidents[j].status = s.m.incidents[j].status
      /\ s1.m.next = s.m.next
      /\ s1.err \/ s1.m.incidents[n].changed > mem.seq
  <2>1. CASE s.err BY <1>8, <2>1 DEF SameKind
  <2>2. CASE ~s.err
    <3>1. s1.m.incidents = With(s.m.incidents, n, inc) /\ s1.m.next = s.m.next BY <1>4, <1>8, <2>2
    <3>2. DOMAIN s1.m.incidents = DOMAIN s.m.incidents BY <1>1, <3>1 DEF With
    <3>3. /\ s1.m.incidents[n] = inc
          /\ \A j \in DOMAIN s.m.incidents : j # n => s1.m.incidents[j] = s.m.incidents[j]
      BY <1>1, <3>1 DEF With
    <3>4. inc.changed > mem.seq
      <4>1. s.m.seq \in Nat /\ mem.seq \in Nat /\ s.m.seq >= mem.seq BY <1>1 DEF MemFits, MemOn
      <4> QED BY <1>3, <4>1
    <3> QED BY <1>3, <1>6, <3>1, <3>2, <3>3, <3>4 DEF SameKind
  <2> QED BY <2>1, <2>2
<1>10. /\ Good(s2, q) /\ Follows(s1, s2) /\ s2.m = s1.m /\ s2.pages = s1.pages
       /\ s2.d.overrides = s1.d.overrides /\ s2.d.last = s1.d.last
       /\ s2.d.alerts = s1.d.alerts /\ s2.d.ended = s1.d.ended
       /\ ~s2.hit => s2.d.incidents = With(s1.d.incidents, n, s1.m.incidents[n])
  BY <1>1, <1>8, <1>9, PutIncidentIs
<1>. HIDE DEF s2
<1>11. /\ Good(t, q) /\ Follows(s2, t) /\ t.m = s2.m /\ t.pages = s2.pages
       /\ t.d.incidents = s2.d.incidents /\ t.d.overrides = s2.d.overrides /\ t.d.last = s2.d.last
       /\ t.d.alerts = s2.d.alerts /\ t.d.ended = s2.d.ended
       /\ ~t.hit => t.d.counters = Counters(s2.m)
  BY <1>10, SaveCountersIs
<1>. HIDE DEF t
<1>12. Follows(s, t) BY <1>8, <1>10, <1>11, FollowsOn
<1>13. Stay(s, t) BY <1>9, <1>10, <1>11 DEF Stay, SameKind
<1>18. Same(t)
  <2>1. s1.m.overrides = s.m.overrides /\ s1.m.last = s.m.last /\ s1.m.oncallSeq = s.m.oncallSeq
    BY <1>4, <1>8
  <2> QED BY <1>1, <1>8, <1>10, <1>11, <2>1 DEF Same
<1>14. InStep(t)
  <2> SUFFICES ASSUME fails = 0, ~t.hit PROVE t.m = Load(t.d) BY DEF InStep
  <2>1. ~s2.hit /\ ~s1.hit /\ ~s.hit BY <1>8, <1>10, <1>11 DEF Follows
  <2>2. ~s.err BY <2>1, <1>1 DEF Good, Place
  <2>3. s.m.incidents = With(s.d.incidents, n, s.m.incidents[n]) BY <1>1, <2>1 DEF ButFor, With1
  <2>4. t.m = k /\ s1.m = k BY <1>8, <1>10, <1>11, <2>2
  <2>5. k.incidents = With(s.d.incidents, n, inc) BY <1>4, <2>3, WithTwice
  <2>6. t.d.incidents = With(s.d.incidents, n, k.incidents[n]) BY <1>8, <1>10, <1>11, <2>1, <2>4
  <2>7. k.incidents[n] = inc BY <2>5 DEF With
  <2>8. t.d.incidents = k.incidents BY <2>5, <2>6, <2>7
  <2>9. t.d.overrides = k.overrides /\ t.d.last = k.last
    <3>1. mem.overrides = db.overrides /\ mem.last = db.last BY DEF RestartLosesNothing, Load
    <3>2. t.d.overrides = db.overrides /\ t.d.last = db.last BY <1>18 DEF Same
    <3>3. t.m.overrides = mem.overrides /\ t.m.last = mem.last BY <1>18 DEF Same
    <3> QED BY <2>4, <3>1, <3>2, <3>3
  <2>10. t.d.counters = Counters(k) BY <1>10, <1>11, <2>4
  <2>11. Load(t.d) = [incidents |-> k.incidents, overrides |-> k.overrides, next |-> k.next,
                      seq |-> k.seq, oncallSeq |-> k.oncallSeq, last |-> k.last]
    BY <2>8, <2>9, <2>10 DEF Load, Counters
  <2>12. Load(t.d) = k BY <1>4, <2>11 DEF MemFields
  <2> QED BY <2>4, <2>12
<1>15. AlertsBut(t, x)
  <2> SUFFICES ASSUME fails + crashes = 0, ~t.hit, NEW j \in DOMAIN t.m.incidents
               PROVE  j < t.m.next /\ (j \notin x => Finds(j, t.m.incidents[j], t.d.alerts, t.opened))
    BY DEF AlertsBut
  <2>1. ~s.hit /\ t.opened = s.opened BY <1>12 DEF Follows
  <2>2. j \in DOMAIN s.m.incidents /\ SameKind(t.m.incidents[j], s.m.incidents[j]) /\ t.m.next = s.m.next
    BY <1>9, <1>10, <1>11
  <2>3. t.d.alerts = s.d.alerts BY <1>8, <1>10, <1>11
  <2>4. j < s.m.next /\ (j \notin x => Finds(j, s.m.incidents[j], s.d.alerts, s.opened))
    BY <1>1, <2>1, <2>2 DEF AlertsBut
  <2> QED BY <2>1, <2>2, <2>3, <2>4 DEF Finds, SameKind
<1>16. Idle(t, x, q) BY <1>11, <1>14, <1>15, <1>18 DEF Idle
<1>17. t.pages = s.pages /\ t.d.alerts = s.d.alerts /\ t.d.ended = s.d.ended BY <1>8, <1>10, <1>11
<1> QED BY <1>5, <1>12, <1>13, <1>16, <1>17

-----------------------------------------------------------------------------
(* Escalation and handoffs.                                                *)

\* Work on an incident begins where memory and database agree.
LEMMA IdleWork ==
  ASSUME NEW s, NEW x, NEW q, Idle(s, x, q), NEW n \in DOMAIN s.m.incidents
  PROVE  Work(s, n, x, q)
<1>1. Good(s, q) /\ Same(s) /\ InStep(s) /\ AlertsBut(s, x) BY DEF Idle
<1>2. ButFor(s, n)
  <2> SUFFICES ASSUME fails = 0, ~s.hit PROVE s.m.incidents = With(s.d.incidents, n, s.m.incidents[n])
    BY DEF ButFor, With1
  <2>1. s.d.incidents = s.m.incidents BY <1>1 DEF InStep, Load
  <2>2. s.m.incidents = [k \in DOMAIN s.m.incidents |-> s.m.incidents[k]]
    BY <1>1 DEF Good, MemFits, Table
  <2> QED BY <2>1, <2>2 DEF With
<1> QED BY <1>1, <1>2 DEF Work

\* Incidents that stay and stay.
LEMMA StayOn ==
  ASSUME NEW r, NEW s, NEW t, Stay(r, s), Stay(s, t)
  PROVE  Stay(r, t)
BY DEF Stay

\* A logged error leaves memory and database as they agree.
LEMMA LoggedIdle ==
  ASSUME NEW s, NEW x, NEW q, Idle(s, x, q)
  PROVE  /\ Idle(Logged(s), x, q) /\ Logged(s).m = s.m /\ Logged(s).d = s.d /\ Logged(s).hit = s.hit
         /\ Logged(s).opened = s.opened /\ Logged(s).pages = s.pages /\ Logged(s).fault = s.fault
<1> DEFINE t == Logged(s)
<1>1. Place(s, q) BY DEF Idle, Good
<1>2. s = [f \in ChainFields |-> s[f]] BY <1>1 DEF Place
<1>3. /\ t = [f \in ChainFields |-> t[f]] /\ t.err = (s.hit /\ s.fault = "crash") /\ t.left = s.left
      /\ t.m = s.m /\ t.d = s.d /\ t.hit = s.hit /\ t.opened = s.opened /\ t.pages = s.pages
      /\ t.fault = s.fault
  BY <1>2 DEF Logged, ChainFields
<1>. HIDE DEF t
<1>4. t.err \in BOOLEAN /\ (t.err => t.hit) BY <1>3
<1>5. Place(t, q)
  <2>1. t.left \in Int /\ t.hit \in BOOLEAN /\ (t.fault = "none" => t.left <= 0 /\ ~t.hit)
    BY <1>1, <1>3 DEF Place
  <2>2. /\ t.fault \in {"none", "fail", "crash"} /\ t.opened \in Seq(Sources)
        /\ fails = 0 => \A p \in t.pages : Incident(p) \notin q
    BY <1>1, <1>3 DEF Place
  <2> QED BY <1>3, <1>4, <2>1, <2>2 DEF Place
<1>6. Good(t, q) /\ Same(t) BY <1>3, <1>5 DEF Idle, Good, Same
<1>7. InStep(t) /\ AlertsBut(t, x) BY <1>3 DEF Idle, InStep, AlertsBut
<1> QED BY <1>3, <1>6, <1>7 DEF Idle, t

\* An incident that is due goes to its next level, or stays without a time.
LEMMA EscalateDueIdle ==
  ASSUME RestartLosesNothing, NEW s, NEW x, NEW q, Idle(s, x, q), NEW n \in DOMAIN s.m.incidents,
         s.m.incidents[n].status = "triggered"
  PROVE  /\ Idle(EscalateDue(s, n), x, q) /\ Follows(s, EscalateDue(s, n))
         /\ Stay(s, EscalateDue(s, n))
<1> DEFINE inc == s.m.incidents[n]
           up  == NextLevel(inc)
           off == [inc EXCEPT !.due = Never]
           on  == [inc EXCEPT !.loops = @ - (IF Wraps(inc) THEN 1 ELSE 0)]
<1>1. Work(s, n, x, q) BY IdleWork
<1>2. Fits(inc, s.opened) /\ Loud(n, inc, q) BY <1>1 DEF Work, Good, MemFits, Table
<1>3. inc = [f \in IncidentFields |-> inc[f]] /\ inc.loops \in Nat BY <1>2 DEF Fits
<1>4. EscalateDue(s, n) = IF up = None THEN Touch(SetIncident(s, n, off), n)
                          ELSE Touch(Assign(SetIncident(s, n, on), n, up), n)
  BY DEF EscalateDue
<1>5. up = None \/ up \in 1..Len(Levels(inc))
  <2>1. Len(Levels(inc)) \in Nat /\ Len(Levels(inc)) >= 1 /\ inc.level \in 0..Len(Levels(inc))
    BY <1>2, PolicyIs DEF Fits, Levels
  <2>. HIDE DEF inc
  <2> QED BY <2>1 DEF NextLevel
<1>6. CASE up = None
  <2>1. /\ off = [f \in IncidentFields |-> off[f]] /\ off.due = Never
        /\ off.status = inc.status /\ off.policy = inc.policy /\ off.level = inc.level
        /\ off.loops = inc.loops /\ off.changed = inc.changed /\ off.acked = inc.acked
        /\ off.birth = inc.birth /\ off.alert = inc.alert
    BY <1>3 DEF IncidentFields
  <2>2. inc.level \in 0..Len(Levels(inc)) /\ inc.changed \in Nat BY <1>2 DEF Fits
  <2>. HIDE DEF inc, off, up
  <2>3. Fits(off, s.opened) /\ SameKind(off, inc) BY <1>2, <1>3, <2>1, <2>2, Changed
  <2>4. Loud(n, off, q) BY <1>2, <2>1 DEF Loud
  <2> DEFINE s1 == SetIncident(s, n, off)
  <2>5. /\ Work(s1, n, x, q) /\ Follows(s, s1) /\ (s.err => s1.m = s.m)
        /\ DOMAIN s1.m.incidents = DOMAIN s.m.incidents
        /\ ~s.err => s1.m.incidents[n] = off
        /\ \A k \in DOMAIN s.m.incidents : k # n => s1.m.incidents[k] = s.m.incidents[k]
    BY <1>1, <2>3, <2>4, SetIncidentWork DEF inc
  <2>. HIDE DEF s1
  <2>6. Stay(s, s1) BY <2>1, <2>5 DEF Stay, inc
  <2>7. Idle(Touch(s1, n), x, q) /\ Follows(s1, Touch(s1, n)) /\ Stay(s1, Touch(s1, n))
    BY <2>5, TouchIdle
  <2>8. Follows(s, Touch(s1, n)) /\ Stay(s, Touch(s1, n)) BY <2>5, <2>6, <2>7, FollowsOn, StayOn
  <2> QED BY <1>4, <1>6, <2>7, <2>8 DEF s1
<1>7. CASE up # None
  <2>1. /\ on = [f \in IncidentFields |-> on[f]] /\ on.loops = inc.loops - (IF Wraps(inc) THEN 1 ELSE 0)
        /\ on.status = inc.status /\ on.policy = inc.policy /\ on.level = inc.level
        /\ on.due = inc.due /\ on.changed = inc.changed /\ on.acked = inc.acked
        /\ on.birth = inc.birth /\ on.alert = inc.alert
    BY <1>3 DEF IncidentFields
  <2>2. inc.level \in 0..Len(Levels(inc)) /\ inc.changed \in Nat /\ inc.status = "triggered"
    BY <1>2 DEF Fits
  <2>3. on.loops \in Nat
    <3>1. inc.loops \in Nat /\ (Wraps(inc) => inc.loops > 0) BY <1>3 DEF Wraps
    <3>. HIDE DEF inc, on
    <3>2. CASE Wraps(inc) BY <2>1, <3>1, <3>2
    <3>3. CASE ~Wraps(inc) BY <2>1, <3>1, <3>3
    <3> QED BY <3>2, <3>3
  <2>. HIDE DEF inc, on, up
  <2>4. Fits(on, s.opened) /\ SameKind(on, inc) BY <1>2, <1>3, <2>1, <2>2, <2>3, Changed
  <2>5. Loud(n, on, q) BY <1>2, <2>1 DEF Loud
  <2> DEFINE s1 == SetIncident(s, n, on)
             s2 == Assign(s1, n, up)
  <2>6. /\ Work(s1, n, x, q) /\ Follows(s, s1) /\ (s.err => s1.m = s.m)
        /\ DOMAIN s1.m.incidents = DOMAIN s.m.incidents
        /\ ~s.err => s1.m.incidents[n] = on
        /\ \A k \in DOMAIN s.m.incidents : k # n => s1.m.incidents[k] = s.m.incidents[k]
    BY <1>1, <2>4, <2>5, SetIncidentWork DEF inc
  <2>. HIDE DEF s1
  <2>7. Stay(s, s1) BY <2>1, <2>6 DEF Stay, inc
  <2>8. s1.m.incidents[n].status = "triggered" BY <2>7, <2>2 DEF Stay, inc
  <2>9. up \in 1..Len(Levels(s1.m.incidents[n]))
    <3>1. s1.m.incidents[n].policy = inc.policy
      BY <2>1, <2>6 DEF inc
    <3>2. Levels(s1.m.incidents[n]) = Levels(inc) BY <3>1 DEF Levels
    <3> QED BY <1>5, <1>7, <3>2
  <2>10. Work(s2, n, x, q) /\ Follows(s1, s2) /\ Stay(s1, s2) BY <2>6, <2>8, <2>9, AssignWork
  <2>. HIDE DEF s2
  <2>11. Idle(Touch(s2, n), x, q) /\ Follows(s2, Touch(s2, n)) /\ Stay(s2, Touch(s2, n))
    BY <2>10, TouchIdle
  <2>12. Follows(s, Touch(s2, n))
    <3>1. Follows(s, s2) BY <2>6, <2>10, FollowsOn
    <3> QED BY <2>11, <3>1, FollowsOn
  <2>13. Stay(s, Touch(s2, n))
    <3>1. Stay(s, s2) BY <2>7, <2>10, StayOn
    <3> QED BY <2>11, <3>1, StayOn
  <2> QED BY <1>4, <1>7, <2>11, <2>12, <2>13 DEF s1, s2
<1> QED BY <1>6, <1>7

\* The incidents of an order that have been escalated so far.
Escalated(r, s, order) ==
  r = [j \in 0..Len(order) |-> IF j = 0 THEN s ELSE Logged(EscalateDue(r[j - 1], order[j]))]

\* EscalateAll is the last of the places it goes through, which there are.
LEMMA EscalatedIs ==
  ASSUME NEW s, NEW order, Len(order) \in Nat
  PROVE  \E r : Escalated(r, s, order) /\ EscalateAll(s, order) = r[Len(order)]
<1> DEFINE Next1(r, j) == Logged(EscalateDue(r, order[j]))
           Made(k) == \E r : r = [j \in 0..k |-> IF j = 0 THEN s ELSE Next1(r[j - 1], j)]
           T == {k \in Nat : Made(k)}
<1>1. Made(0)
  <2> DEFINE r == [j \in 0..0 |-> s]
  <2>. HIDE DEF Next1
  <2>1. r = [j \in 0..0 |-> IF j = 0 THEN s ELSE Next1(r[j - 1], j)] OBVIOUS
  <2> QED BY <2>1
<1>2. ASSUME NEW k \in Nat, Made(k) PROVE Made(k + 1)
  <2>. HIDE DEF Next1
  <2>1. PICK r : r = [j \in 0..k |-> IF j = 0 THEN s ELSE Next1(r[j - 1], j)] BY <1>2
  <2> DEFINE p == [j \in 0..(k + 1) |-> IF j = k + 1 THEN Next1(r[k], k + 1) ELSE r[j]]
  <2>2. \A j \in 0..(k + 1) : p[j] = IF j = 0 THEN s ELSE Next1(p[j - 1], j)
    <3> TAKE j \in 0..(k + 1)
    <3>1. CASE j = k + 1 BY <3>1
    <3>2. CASE j # k + 1 BY <3>2, <2>1
    <3> QED BY <3>1, <3>2
  <2>3. p = [j \in 0..(k + 1) |-> IF j = 0 THEN s ELSE Next1(p[j - 1], j)] BY <2>2
  <2> QED BY <2>3
<1>3. Made(Len(order))
  <2>. HIDE DEF Made
  <2>1. 0 \in T /\ \A k \in Nat : k \in T => k + 1 \in T BY <1>1, <1>2
  <2>2. \A k \in Nat : k \in T
    <3>. HIDE DEF T
    <3> QED BY <2>1, Induction
  <2> QED BY <2>2
<1>4. \E r : Escalated(r, s, order) BY <1>3 DEF Escalated
<1> QED BY <1>4 DEF EscalateAll, Escalated

\* t comes after s, whose error may have been logged.
Later(s, t) == t.opened = s.opened /\ t.fault = s.fault /\ (~t.hit => ~s.hit)

\* Every incident that was due is escalated once, in the order of their turn.
LEMMA EscalateAllIdle ==
  ASSUME RestartLosesNothing, NEW s, NEW x, NEW q, Idle(s, x, q),
         NEW order, Len(order) \in Nat,
         \A j \in 1..Len(order) : /\ order[j] \in DOMAIN s.m.incidents
                                  /\ s.m.incidents[order[j]].status = "triggered"
  PROVE  Idle(EscalateAll(s, order), x, q) /\ Later(s, EscalateAll(s, order))
<1>1. PICK r : Escalated(r, s, order) /\ EscalateAll(s, order) = r[Len(order)] BY EscalatedIs
<1> DEFINE Right(k) == Idle(r[k], x, q) /\ Later(s, r[k]) /\ Stay(s, r[k])
           T == {k \in Nat : k <= Len(order) => Right(k)}
<1>2. /\ r[0] = s
      /\ \A k \in Nat : k + 1 <= Len(order) => r[k + 1] = Logged(EscalateDue(r[k], order[k + 1]))
  BY <1>1 DEF Escalated
<1>3. 0 \in T BY <1>2 DEF Later, Stay
<1>4. ASSUME NEW k \in Nat, k \in T PROVE k + 1 \in T
  <2> SUFFICES ASSUME k + 1 <= Len(order) PROVE Right(k + 1) OBVIOUS
  <2> DEFINE v == r[k]
             n == order[k + 1]
             w == EscalateDue(v, n)
             l == Logged(w)
  <2>1. Idle(v, x, q) /\ Later(s, v) /\ Stay(s, v) BY <1>4
  <2>2. r[k + 1] = l BY <1>2
  <2>3. n \in DOMAIN s.m.incidents /\ s.m.incidents[n].status = "triggered" OBVIOUS
  <2>. HIDE DEF v, n
  <2>4. n \in DOMAIN v.m.incidents /\ v.m.incidents[n].status = "triggered"
    BY <2>1, <2>3 DEF Stay
  <2>5. Idle(w, x, q) /\ Follows(v, w) /\ Stay(v, w) BY <2>1, <2>4, EscalateDueIdle
  <2>. HIDE DEF w
  <2>6. /\ Idle(l, x, q) /\ l.m = w.m /\ l.hit = w.hit /\ l.opened = w.opened /\ l.fault = w.fault
    BY <2>5, LoggedIdle
  <2>. HIDE DEF l
  <2>7. Later(s, l) BY <2>1, <2>5, <2>6 DEF Later, Follows
  <2>8. Stay(s, w) BY <2>1, <2>5, StayOn
  <2>9. Stay(s, l) BY <2>6, <2>8 DEF Stay
  <2> QED BY <2>2, <2>6, <2>7, <2>9
<1>5. \A k \in Nat : k \in T
  <2>1. \A k \in Nat : k \in T => k + 1 \in T BY <1>4
  <2>. HIDE DEF T
  <2> QED BY <1>3, <2>1, Induction
<1>6. Right(Len(order)) BY <1>5
<1> QED BY <1>1, <1>6

\* What a change of who is on call adds to a cursor.
Told(t) == fails + crashes = 0 /\ ~t.hit /\ (t.m.overrides # mem.overrides \/ t.m.last # mem.last)
             => t.m.oncallSeq > mem.seq

\* The end of a chain.
Done(t, q) == Good(t, q) /\ InStep(t) /\ AlertsBut(t, {}) /\ Told(t)

\* A chain may end where memory and database agree.
LEMMA IdleDone ==
  ASSUME NEW s, NEW q, Idle(s, {}, q)
  PROVE  Done(s, q)
BY DEF Idle, Done, Same, Told

\* A logged error leaves memory and database alone.
LEMMA LoggedIs ==
  ASSUME NEW s, NEW q, Good(s, q)
  PROVE  /\ Good(Logged(s), q) /\ Logged(s).m = s.m /\ Logged(s).d = s.d /\ Logged(s).hit = s.hit
         /\ Logged(s).opened = s.opened /\ Logged(s).pages = s.pages /\ Logged(s).fault = s.fault
         /\ Logged(s).err = (s.hit /\ s.fault = "crash")
<1> DEFINE t == Logged(s)
<1>1. Place(s, q) BY DEF Good
<1>2. s = [f \in ChainFields |-> s[f]] BY <1>1 DEF Place
<1>3. /\ t = [f \in ChainFields |-> t[f]] /\ t.err = (s.hit /\ s.fault = "crash") /\ t.left = s.left
      /\ t.m = s.m /\ t.d = s.d /\ t.hit = s.hit /\ t.opened = s.opened /\ t.pages = s.pages
      /\ t.fault = s.fault
  BY <1>2 DEF Logged, ChainFields
<1>. HIDE DEF t
<1>4. t.err \in BOOLEAN /\ (t.err => t.hit) BY <1>3
<1>5. Place(t, q)
  <2>1. t.left \in Int /\ t.hit \in BOOLEAN /\ (t.fault = "none" => t.left <= 0 /\ ~t.hit)
    BY <1>1, <1>3 DEF Place
  <2>2. /\ t.fault \in {"none", "fail", "crash"} /\ t.opened \in Seq(Sources)
        /\ fails = 0 => \A p \in t.pages : Incident(p) \notin q
    BY <1>1, <1>3 DEF Place
  <2> QED BY <1>3, <1>4, <2>1, <2>2 DEF Place
<1>6. Good(t, q) BY <1>3, <1>5 DEF Good
<1> QED BY <1>3, <1>6 DEF t

\* A chain may end with its error logged.
LEMMA LoggedDone ==
  ASSUME NEW s, NEW q, Done(s, q)
  PROVE  Done(Logged(s), q) /\ Later(s, Logged(s))
<1>1. Good(s, q) BY DEF Done
<1>2. /\ Good(Logged(s), q) /\ Logged(s).m = s.m /\ Logged(s).d = s.d /\ Logged(s).hit = s.hit
      /\ Logged(s).opened = s.opened /\ Logged(s).fault = s.fault
  BY <1>1, LoggedIs
<1> QED BY <1>2 DEF Done, InStep, AlertsBut, Told, Later

\* The database with the fields that an override or a handoff writes.
LEMMA DbRotaIs ==
  ASSUME NEW d, d = [f \in DbFields |-> d[f]], NEW k, NEW v,
         k = [d EXCEPT !.last = v] \/ k = [d EXCEPT !.overrides = v]
  PROVE  /\ k = [f \in DbFields |-> k[f]]
         /\ k.incidents = d.incidents /\ k.counters = d.counters
         /\ k.alerts = d.alerts /\ k.ended = d.ended /\ k.seen = d.seen /\ k.answered = d.answered
         /\ k = [d EXCEPT !.last = v] => k.last = v /\ k.overrides = d.overrides
         /\ k = [d EXCEPT !.overrides = v] => k.overrides = v /\ k.last = d.last
<1>1. CASE k = [d EXCEPT !.last = v] BY <1>1 DEF DbFields
<1>2. CASE k = [d EXCEPT !.overrides = v] BY <1>2 DEF DbFields
<1> QED BY <1>1, <1>2

\* A statement that writes them.
LEMMA WriteRotaIs ==
  ASSUME NEW s, NEW q, Good(s, q), NEW k, NEW v,
         k = [s.d EXCEPT !.last = v] \/ k = [s.d EXCEPT !.overrides = v]
  PROVE  LET t == Write(s, k)
         IN  /\ Good(t, q) /\ Follows(s, t) /\ t.m = s.m
             /\ t.d.incidents = s.d.incidents /\ t.d.alerts = s.d.alerts
             /\ ~t.hit => t.d = k
<1>1. DbFits(s.d, s.opened, q) /\ DbOn(s.d) BY DEF Good
<1>2. s.d = [f \in DbFields |-> s.d[f]] BY <1>1 DEF DbFits
<1>3. /\ k = [f \in DbFields |-> k[f]]
      /\ k.incidents = s.d.incidents /\ k.counters = s.d.counters
      /\ k.alerts = s.d.alerts /\ k.ended = s.d.ended /\ k.seen = s.d.seen
  BY <1>2, DbRotaIs
<1>4. DbFits(k, s.opened, q) BY <1>1, <1>3 DEF DbFits
<1>5. DbOn(k) BY <1>1, <1>3 DEF DbOn, Listed, Covered
<1>6. Good(Write(s, k), q) BY <1>4, <1>5, WriteKeeps
<1>7. /\ Follows(s, Write(s, k)) /\ Write(s, k).m = s.m
      /\ Write(s, k).d = s.d \/ Write(s, k).d = k
      /\ ~Write(s, k).hit => Write(s, k).d = k
  BY WriteIs
<1> QED BY <1>3, <1>6, <1>7

\* A memory with the incidents of another, and no counter behind it.
RotaOf(m, old) == /\ m = [f \in MemFields |-> m[f]]
                  /\ m.incidents = old.incidents /\ m.next = old.next
                  /\ m.seq \in Nat /\ m.seq >= old.seq /\ m.oncallSeq \in Nat

\* An assignment that leaves incidents alone, and no counter behind.
LEMMA SetRotaIs ==
  ASSUME NEW s, NEW q, Good(s, q), NEW m, RotaOf(m, s.m)
  PROVE  /\ Good(Set(s, m), q) /\ Follows(s, Set(s, m)) /\ Set(s, m).d = s.d
         /\ Set(s, m).m.incidents = s.m.incidents /\ Set(s, m).m.next = s.m.next
         /\ ~Set(s, m).hit => Set(s, m).m = m
<1>0. /\ m = [f \in MemFields |-> m[f]]
      /\ m.incidents = s.m.incidents /\ m.next = s.m.next
      /\ m.seq \in Nat /\ m.seq >= s.m.seq /\ m.oncallSeq \in Nat
  BY DEF RotaOf
<1>1. MemFits(s.m, s.opened, q) /\ MemOn(s.m) BY DEF Good
<1>2. m.seq >= mem.seq BY <1>0, <1>1 DEF MemFits, MemOn
<1>3. MemFits(m, s.opened, q) /\ MemOn(m) BY <1>0, <1>1, <1>2 DEF MemFits, MemOn
<1>4. /\ Follows(s, Set(s, m)) /\ Set(s, m).d = s.d
      /\ Set(s, m).hit = s.hit /\ Set(s, m).m = IF s.err THEN s.m ELSE m
  BY SetIs
<1>5. ~s.hit => ~s.err BY DEF Good, Place
<1>6. Good(Set(s, m), q) BY <1>3, SetKeeps
<1> QED BY <1>0, <1>4, <1>5, <1>6

\* What leaves incidents and alerts alone leaves every alert its incident.
LEMMA AlertsOn ==
  ASSUME NEW s, NEW x, NEW t, AlertsBut(s, x), Later(s, t),
         t.m.incidents = s.m.incidents, t.m.next = s.m.next, t.d.alerts = s.d.alerts
  PROVE  AlertsBut(t, x)
BY DEF AlertsBut, Later

\* Memory and database agree when each field does.
LEMMA AgreeField ==
  ASSUME NEW t, NEW q, Good(t, q),
         t.d.incidents = t.m.incidents, t.d.overrides = t.m.overrides, t.d.last = t.m.last,
         t.d.counters = Counters(t.m)
  PROVE  t.m = Load(t.d)
<1>1. t.m = [f \in MemFields |-> t.m[f]] BY DEF Good, MemFits
<1>2. Load(t.d) = [incidents |-> t.m.incidents, overrides |-> t.m.overrides, next |-> t.m.next,
                   seq |-> t.m.seq, oncallSeq |-> t.m.oncallSeq, last |-> t.m.last]
  BY DEF Load, Counters
<1> DEFINE m == t.m
<1>. HIDE DEF m
<1>3. m = [incidents |-> m.incidents, overrides |-> m.overrides, next |-> m.next,
           seq |-> m.seq, oncallSeq |-> m.oncallSeq, last |-> m.last]
  <2>1. m = [f \in MemFields |-> m[f]] BY <1>1 DEF m
  <2> QED BY <2>1 DEF MemFields
<1> QED BY <1>2, <1>3 DEF m

\* A handoff is saved with a change that a cursor from before it is told of.
LEMMA HandoffsDone ==
  ASSUME NEW s, NEW q, Idle(s, {}, q)
  PROVE  Done(Handoffs(s), q) /\ Later(s, Handoffs(s))
<1> DEFINE on == Rot!OnCallAt(clock).user
           k1 == [s.m EXCEPT !.last = on]
           s1 == Set(s, k1)
           s2 == IF s.m.last = "unknown" \/ on = "nobody" THEN s1 ELSE AddEvent(s1)
           k3 == [s2.m EXCEPT !.seq = @ + 1, !.oncallSeq = s2.m.seq + 1]
           s3 == Set(s2, k3)
           d4 == [s3.d EXCEPT !.last = s3.m.last]
           s4 == Write(s3, d4)
           t  == SaveCounters(s4)
<1>1. Handoffs(s) = IF s.m.last = on THEN s ELSE t BY DEF Handoffs
<1>2. CASE s.m.last = on BY <1>1, <1>2, IdleDone DEF Later
<1>3. CASE s.m.last # on
  <2>1. Handoffs(s) = t BY <1>1, <1>3
  <2>2. Good(s, q) /\ InStep(s) /\ AlertsBut(s, {}) BY DEF Idle
  <2>3. s.m = [f \in MemFields |-> s.m[f]] /\ s.m.seq \in Nat /\ s.m.oncallSeq \in Nat
        /\ s.m.seq >= mem.seq /\ mem.seq \in Nat
    BY <2>2 DEF Good, MemFits, MemOn
  <2>. HIDE DEF on
  <2>4. /\ k1 = [f \in MemFields |-> k1[f]] /\ k1.last = on /\ k1.incidents = s.m.incidents
        /\ k1.next = s.m.next /\ k1.seq = s.m.seq /\ k1.oncallSeq = s.m.oncallSeq
        /\ k1.overrides = s.m.overrides
    <3> DEFINE m == s.m
    <3>. HIDE DEF m
    <3>1. m = [f \in MemFields |-> m[f]] /\ k1 = [m EXCEPT !.last = on] BY <2>3 DEF m
    <3>. HIDE DEF k1
    <3>2. /\ k1 = [f \in MemFields |-> k1[f]] /\ k1.last = on /\ k1.incidents = m.incidents
          /\ k1.next = m.next /\ k1.seq = m.seq /\ k1.oncallSeq = m.oncallSeq
          /\ k1.overrides = m.overrides
      BY <3>1 DEF MemFields
    <3> QED BY <3>2 DEF m
  <2>. HIDE DEF k1
  <2>5. /\ Good(s1, q) /\ Follows(s, s1) /\ s1.d = s.d
        /\ s1.m.incidents = s.m.incidents /\ s1.m.next = s.m.next
        /\ ~s1.hit => s1.m = k1
    <3>1. RotaOf(k1, s.m) BY <2>3, <2>4 DEF RotaOf
    <3>2. Good(s, q) BY <2>2
    <3> QED BY <3>1, <3>2, SetRotaIs
  <2>. HIDE DEF s1
  <2>6. Good(s2, q) /\ Follows(s1, s2) /\ s2.d = s1.d /\ s2.m = s1.m
    BY <2>5, AddEventIs DEF Follows
  <2>. HIDE DEF s2
  <2>7. s2.m = [f \in MemFields |-> s2.m[f]] /\ s2.m.seq \in Nat /\ s2.m.seq >= mem.seq
    BY <2>6 DEF Good, MemFits, MemOn
  <2>8. /\ k3 = [f \in MemFields |-> k3[f]] /\ k3.last = s2.m.last /\ k3.incidents = s2.m.incidents
        /\ k3.next = s2.m.next /\ k3.seq = s2.m.seq + 1 /\ k3.oncallSeq = s2.m.seq + 1
        /\ k3.overrides = s2.m.overrides
    <3> DEFINE m == s2.m
    <3>. HIDE DEF m
    <3>1. m = [f \in MemFields |-> m[f]] /\ k3 = [m EXCEPT !.seq = @ + 1, !.oncallSeq = m.seq + 1]
      BY <2>7 DEF m
    <3>. HIDE DEF k3
    <3>2. /\ k3 = [f \in MemFields |-> k3[f]] /\ k3.last = m.last /\ k3.incidents = m.incidents
          /\ k3.next = m.next /\ k3.seq = m.seq + 1 /\ k3.oncallSeq = m.seq + 1
          /\ k3.overrides = m.overrides
      BY <3>1 DEF MemFields
    <3> QED BY <3>2 DEF m
  <2>. HIDE DEF k3
  <2>9. /\ Good(s3, q) /\ Follows(s2, s3) /\ s3.d = s2.d
        /\ s3.m.incidents = s2.m.incidents /\ s3.m.next = s2.m.next
        /\ ~s3.hit => s3.m = k3
    <3>1. RotaOf(k3, s2.m) BY <2>7, <2>8 DEF RotaOf
    <3>2. Good(s2, q) BY <2>6
    <3> QED BY <3>1, <3>2, SetRotaIs
  <2>. HIDE DEF s3
  <2>10. /\ Good(s4, q) /\ Follows(s3, s4) /\ s4.m = s3.m
         /\ s4.d.incidents = s3.d.incidents /\ s4.d.alerts = s3.d.alerts
         /\ ~s4.hit => s4.d = d4
    <3>1. \E v : d4 = [s3.d EXCEPT !.last = v] OBVIOUS
    <3>. HIDE DEF d4
    <3> QED BY <2>9, <3>1, WriteRotaIs
  <2>11. d4.last = s3.m.last /\ d4.overrides = s3.d.overrides
    <3>1. s3.d = [f \in DbFields |-> s3.d[f]] BY <2>9 DEF Good, DbFits
    <3> DEFINE d == s3.d
               v == s3.m.last
    <3>. HIDE DEF d, v
    <3>2. d = [f \in DbFields |-> d[f]] /\ d4 = [d EXCEPT !.last = v] BY <3>1 DEF d, v
    <3>. HIDE DEF d4
    <3>3. d4.last = v /\ d4.overrides = d.overrides BY <3>2, DbRotaIs
    <3> QED BY <3>3 DEF d, v
  <2>. HIDE DEF s4, d4
  <2>12. /\ Good(t, q) /\ Follows(s4, t) /\ t.m = s4.m
         /\ t.d.incidents = s4.d.incidents /\ t.d.overrides = s4.d.overrides /\ t.d.last = s4.d.last
         /\ t.d.alerts = s4.d.alerts
         /\ ~t.hit => t.d.counters = Counters(s4.m)
    BY <2>10, SaveCountersIs
  <2>. HIDE DEF t
  <2>13. Later(s, t) BY <2>5, <2>6, <2>9, <2>10, <2>12 DEF Follows, Later
  <2>14. AlertsBut(t, {})
    <3>1. t.m.incidents = s.m.incidents /\ t.m.next = s.m.next BY <2>5, <2>6, <2>9, <2>10, <2>12
    <3>2. t.d.alerts = s.d.alerts BY <2>5, <2>6, <2>9, <2>10, <2>12
    <3> QED BY <2>2, <2>13, <3>1, <3>2, AlertsOn
  <2>15. ~t.hit => ~s.hit /\ ~s1.hit /\ ~s2.hit /\ ~s3.hit /\ ~s4.hit
    BY <2>5, <2>6, <2>9, <2>10, <2>12 DEF Follows
  <2>16. InStep(t)
    <3> SUFFICES ASSUME fails = 0, ~t.hit PROVE t.m = Load(t.d) BY DEF InStep
    <3>1. s.m = Load(s.d) BY <2>2, <2>15 DEF InStep
    <3>2. s.d.incidents = s.m.incidents /\ s.d.overrides = s.m.overrides BY <3>1 DEF Load
    <3>3. t.m = k3 /\ s2.m = k1 BY <2>5, <2>6, <2>9, <2>10, <2>12, <2>15
    <3>4. t.d.incidents = t.m.incidents BY <2>4, <2>5, <2>6, <2>8, <2>9, <2>10, <2>12, <3>2, <3>3
    <3>5. t.d.overrides = t.m.overrides
      BY <2>4, <2>5, <2>6, <2>8, <2>9, <2>10, <2>11, <2>12, <2>15, <3>2, <3>3
    <3>6. t.d.last = t.m.last BY <2>10, <2>11, <2>12, <2>15
    <3>7. t.d.counters = Counters(t.m) BY <2>12
    <3> QED BY <2>12, <3>4, <3>5, <3>6, <3>7, AgreeField
  <2>17. Told(t)
    <3> SUFFICES ASSUME ~t.hit PROVE t.m.oncallSeq > mem.seq BY DEF Told
    <3>1. t.m = k3 BY <2>9, <2>10, <2>12, <2>15
    <3> QED BY <2>3, <2>7, <2>8, <3>1
  <2> QED BY <2>1, <2>12, <2>13, <2>14, <2>16, <2>17 DEF Done
<1> QED BY <1>2, <1>3

\* An override is stored before memory has it, and with a change of its own.
LEMMA CreateOverrideDone ==
  ASSUME NEW s, NEW q, Idle(s, {}, q), NEW p
  PROVE  Done(CreateOverride(s, p), q) /\ Later(s, CreateOverride(s, p))
<1> DEFINE o  == [id |-> s.m.seq + 1, user |-> p.user, from |-> p.from, to |-> p.to]
           d1 == [s.d EXCEPT !.overrides = Append(@, o)]
           s1 == Write(s, d1)
           k2 == [s1.m EXCEPT !.overrides = Append(@, o)]
           r2 == Set(s1, k2)
           s2 == AddEvent(r2)
           k3 == [s2.m EXCEPT !.seq = @ + 1, !.oncallSeq = s2.m.seq + 1]
           s3 == Set(s2, k3)
           t  == SaveCounters(s3)
<1>1. CreateOverride(s, p) = t BY DEF CreateOverride, PutOverride
<1>2. Good(s, q) /\ InStep(s) /\ AlertsBut(s, {}) BY DEF Idle
<1>. HIDE DEF o
<1>3. d1.overrides = Append(s.d.overrides, o) /\ d1.last = s.d.last
  <2>1. s.d = [f \in DbFields |-> s.d[f]] BY <1>2 DEF Good, DbFits
  <2> DEFINE d == s.d
             v == Append(d.overrides, o)
  <2>2. d1 = [d EXCEPT !.overrides = v] OBVIOUS
  <2>. HIDE DEF d, v
  <2>3. d = [f \in DbFields |-> d[f]] BY <2>1 DEF d
  <2>. HIDE DEF d1
  <2>4. d1.overrides = v /\ d1.last = d.last BY <2>2, <2>3, DbRotaIs
  <2> QED BY <2>4 DEF d, v
<1>4. /\ Good(s1, q) /\ Follows(s, s1) /\ s1.m = s.m
      /\ s1.d.incidents = s.d.incidents /\ s1.d.alerts = s.d.alerts
      /\ ~s1.hit => s1.d = d1
  <2>1. \E v : d1 = [s.d EXCEPT !.overrides = v] OBVIOUS
  <2>. HIDE DEF d1
  <2> QED BY <1>2, <2>1, WriteRotaIs
<1>. HIDE DEF d1, s1
<1>5. /\ s1.m = [f \in MemFields |-> s1.m[f]] /\ s1.m.seq \in Nat /\ s1.m.oncallSeq \in Nat
      /\ s1.m.seq >= mem.seq
  BY <1>4 DEF Good, MemFits, MemOn
<1>6. /\ k2 = [f \in MemFields |-> k2[f]] /\ k2.overrides = Append(s1.m.overrides, o)
      /\ k2.incidents = s1.m.incidents /\ k2.next = s1.m.next /\ k2.seq = s1.m.seq
      /\ k2.oncallSeq = s1.m.oncallSeq /\ k2.last = s1.m.last
  <2> DEFINE m == s1.m
  <2>. HIDE DEF m
  <2>1. m = [f \in MemFields |-> m[f]] /\ k2 = [m EXCEPT !.overrides = Append(@, o)] BY <1>5 DEF m
  <2>. HIDE DEF k2
  <2>2. /\ k2 = [f \in MemFields |-> k2[f]] /\ k2.overrides = Append(m.overrides, o)
        /\ k2.incidents = m.incidents /\ k2.next = m.next /\ k2.seq = m.seq
        /\ k2.oncallSeq = m.oncallSeq /\ k2.last = m.last
    BY <2>1 DEF MemFields
  <2> QED BY <2>2 DEF m
<1>. HIDE DEF k2
<1>7. /\ Good(r2, q) /\ Follows(s1, r2) /\ r2.d = s1.d
      /\ r2.m.incidents = s1.m.incidents /\ r2.m.next = s1.m.next
      /\ ~r2.hit => r2.m = k2
  <2>1. RotaOf(k2, s1.m) BY <1>5, <1>6 DEF RotaOf
  <2>2. Good(s1, q) BY <1>4
  <2> QED BY <2>1, <2>2, SetRotaIs
<1>. HIDE DEF r2
<1>8. Good(s2, q) /\ Follows(r2, s2) /\ s2.m = r2.m /\ s2.d = r2.d BY <1>7, AddEventIs
<1>. HIDE DEF s2
<1>9. /\ s2.m = [f \in MemFields |-> s2.m[f]] /\ s2.m.seq \in Nat /\ s2.m.seq >= mem.seq
      /\ mem.seq \in Nat
  BY <1>8 DEF Good, MemFits, MemOn
<1>10. /\ k3 = [f \in MemFields |-> k3[f]] /\ k3.last = s2.m.last /\ k3.incidents = s2.m.incidents
       /\ k3.next = s2.m.next /\ k3.seq = s2.m.seq + 1 /\ k3.oncallSeq = s2.m.seq + 1
       /\ k3.overrides = s2.m.overrides
  <2> DEFINE m == s2.m
  <2>. HIDE DEF m
  <2>1. m = [f \in MemFields |-> m[f]] /\ k3 = [m EXCEPT !.seq = @ + 1, !.oncallSeq = m.seq + 1]
    BY <1>9 DEF m
  <2>. HIDE DEF k3
  <2>2. /\ k3 = [f \in MemFields |-> k3[f]] /\ k3.last = m.last /\ k3.incidents = m.incidents
        /\ k3.next = m.next /\ k3.seq = m.seq + 1 /\ k3.oncallSeq = m.seq + 1
        /\ k3.overrides = m.overrides
    BY <2>1 DEF MemFields
  <2> QED BY <2>2 DEF m
<1>. HIDE DEF k3
<1>11. /\ Good(s3, q) /\ Follows(s2, s3) /\ s3.d = s2.d
       /\ s3.m.incidents = s2.m.incidents /\ s3.m.next = s2.m.next
       /\ ~s3.hit => s3.m = k3
  <2>1. RotaOf(k3, s2.m) BY <1>9, <1>10 DEF RotaOf
  <2>2. Good(s2, q) BY <1>8
  <2> QED BY <2>1, <2>2, SetRotaIs
<1>. HIDE DEF s3
<1>12. /\ Good(t, q) /\ Follows(s3, t) /\ t.m = s3.m
       /\ t.d.incidents = s3.d.incidents /\ t.d.overrides = s3.d.overrides /\ t.d.last = s3.d.last
       /\ t.d.alerts = s3.d.alerts
       /\ ~t.hit => t.d.counters = Counters(s3.m)
  BY <1>11, SaveCountersIs
<1>. HIDE DEF t
<1>13. Later(s, t) BY <1>4, <1>7, <1>8, <1>11, <1>12 DEF Follows, Later
<1>14. ~t.hit => ~s.hit /\ ~s1.hit /\ ~r2.hit /\ ~s2.hit /\ ~s3.hit
  BY <1>4, <1>7, <1>8, <1>11, <1>12 DEF Follows
<1>15. AlertsBut(t, {})
  <2>1. t.m.incidents = s.m.incidents /\ t.m.next = s.m.next BY <1>4, <1>7, <1>8, <1>11, <1>12
  <2>2. t.d.alerts = s.d.alerts BY <1>4, <1>7, <1>8, <1>11, <1>12
  <2> QED BY <1>2, <1>13, <2>1, <2>2, AlertsOn
<1>16. InStep(t)
  <2> SUFFICES ASSUME fails = 0, ~t.hit PROVE t.m = Load(t.d) BY DEF InStep
  <2>1. s.m = Load(s.d) BY <1>2, <1>14 DEF InStep
  <2>2. s.d.incidents = s.m.incidents /\ s.d.overrides = s.m.overrides /\ s.d.last = s.m.last
    BY <2>1 DEF Load
  <2>3. t.m = k3 /\ s2.m = k2 /\ s1.d = d1 BY <1>4, <1>7, <1>8, <1>11, <1>12, <1>14
  <2>4. t.d.incidents = t.m.incidents BY <1>4, <1>7, <1>8, <1>11, <1>12, <2>2
  <2>5. t.d.overrides = t.m.overrides
    <3>1. t.d.overrides = d1.overrides BY <1>7, <1>8, <1>11, <1>12, <2>3
    <3>2. t.m.overrides = k2.overrides BY <1>10, <2>3
    <3>3. s1.m.overrides = s.d.overrides BY <1>4, <2>2
    <3> QED BY <1>3, <1>6, <3>1, <3>2, <3>3
  <2>6. t.d.last = t.m.last BY <1>3, <1>4, <1>6, <1>7, <1>8, <1>10, <1>11, <1>12, <2>2, <2>3
  <2>7. t.d.counters = Counters(t.m) BY <1>12
  <2> QED BY <1>12, <2>4, <2>5, <2>6, <2>7, AgreeField
<1>17. Told(t)
  <2> SUFFICES ASSUME ~t.hit PROVE t.m.oncallSeq > mem.seq BY DEF Told
  <2>1. t.m = k3 BY <1>11, <1>12, <1>14
  <2> QED BY <1>9, <1>10, <2>1
<1> QED BY <1>1, <1>12, <1>13, <1>15, <1>16, <1>17 DEF Done

-----------------------------------------------------------------------------
(* Alerts and deliveries.                                                  *)

\* A database with the incidents, the overrides and the counters of another.
SameDb(d, e) == /\ d.incidents = e.incidents /\ d.overrides = e.overrides
                /\ d.last = e.last /\ d.counters = e.counters

\* Memory and database still agree after a statement on alerts and deliveries.
LEMMA IdleOn ==
  ASSUME NEW s, NEW x, NEW q, Idle(s, x, q), NEW t, Good(t, q), Later(s, t), t.m = s.m,
         SameDb(t.d, s.d), NEW y, AlertsBut(t, y)
  PROVE  Idle(t, y, q)
<1>1. Same(t) BY DEF Idle, Same, SameDb
<1>2. InStep(t)
  <2> SUFFICES ASSUME fails = 0, ~t.hit PROVE t.m = Load(t.d) BY DEF InStep
  <2>1. s.m = Load(s.d) BY DEF Idle, InStep, Later
  <2>2. Load(t.d) = Load(s.d) BY DEF Load, SameDb
  <2> QED BY <2>1, <2>2
<1> QED BY <1>1, <1>2 DEF Idle

\* The same while an incident is worked on.
LEMMA WorkOn ==
  ASSUME NEW s, NEW n, NEW x, NEW q, Work(s, n, x, q), NEW t, Good(t, q), Later(s, t), t.m = s.m,
         SameDb(t.d, s.d), NEW y, AlertsBut(t, y)
  PROVE  Work(t, n, y, q)
<1>1. Same(t) BY DEF Work, Same, SameDb
<1>2. ButFor(t, n) BY DEF Work, ButFor, With1, SameDb, Later
<1> QED BY <1>1, <1>2 DEF Work

\* Not before, and not before that.
LEMMA BeforeOn ==
  ASSUME NEW a \in Nat \cup {Never}, NEW b \in Nat \cup {Never}, NEW c \in Nat \cup {Never},
         NotBefore(a, b), NotBefore(b, c)
  PROVE  NotBefore(a, c)
<1>1. Second(a) \in Int /\ Second(b) \in Int /\ Second(c) \in Int BY DEF Second, Never
<1> QED BY <1>1 DEF NotBefore

\* A statement that writes which alert is whose, or what is over or seen.
LEMMA WriteFeedIs ==
  ASSUME NEW s, NEW q, Good(s, q), NEW d, d = [f \in DbFields |-> d[f]], SameDb(d, s.d),
         d.alerts = [a \in Alerts |-> d.alerts[a]], d.ended \in [Alerts -> Nat \cup {Never}],
         s.d.seen \subseteq d.seen, Covered(d)
  PROVE  LET t == Write(s, d)
         IN  /\ Good(t, q) /\ Follows(s, t) /\ t.m = s.m /\ t.pages = s.pages
             /\ SameDb(t.d, s.d) /\ Later(s, t)
             /\ t.d = s.d \/ (~s.err /\ t.d = d)
             /\ ~t.err => ~s.err /\ t.d = d
             /\ ~t.hit => ~s.hit /\ t.d = d
<1> DEFINE t == Write(s, d)
<1>1. DbFits(s.d, s.opened, q) /\ DbOn(s.d) BY DEF Good
<1>2. DbFits(d, s.opened, q) BY <1>1 DEF DbFits, SameDb
<1>3. DbOn(d)
  <2>1. Listed(d) BY <1>1 DEF DbOn, Listed, SameDb
  <2> QED BY <1>1, <2>1 DEF DbOn
<1>4. Good(t, q) BY <1>2, <1>3, WriteKeeps
<1>5. /\ Follows(s, t) /\ t.m = s.m /\ t.pages = s.pages
      /\ t.d = s.d \/ (~s.err /\ t.d = d)
      /\ ~t.err => ~s.err /\ t.d = d
      /\ ~t.hit => ~s.hit /\ t.d = d
  BY WriteIs
<1>6. SameDb(t.d, s.d) BY <1>5 DEF SameDb
<1>7. Later(s, t) BY <1>5 DEF Follows, Later
<1> QED BY <1>4, <1>5, <1>6, <1>7

\* The later stamp, to the second.
LEMMA TextMaxIs ==
  ASSUME NEW a \in Nat, NEW b \in Nat
  PROVE  TextMax(a, b) \in Nat /\ NotBefore(a, TextMax(a, b)) /\ NotBefore(b, TextMax(a, b))
<1>1. Second(a) \in Int /\ Second(b) \in Int BY DEF Second
<1>2. a # Never /\ b # Never BY DEF Never
<1>3. CASE Second(a) > Second(b) \/ (Second(a) = Second(b) /\ a % 2 = 0)
  BY <1>1, <1>2, <1>3 DEF TextMax, NotBefore
<1>4. CASE ~(Second(a) > Second(b) \/ (Second(a) = Second(b) /\ a % 2 = 0))
  <2>1. TextMax(a, b) = b BY <1>4 DEF TextMax
  <2>2. Second(b) >= Second(a) BY <1>1, <1>4
  <2> QED BY <1>1, <1>2, <2>1, <2>2 DEF NotBefore
<1> QED BY <1>3, <1>4

\* An incident that comes from a firing is of an alert.
LEMMA AlertIs ==
  ASSUME NEW o \in Seq(Sources), NEW inc, Fits(inc, o), FromFiring(o[inc.birth])
  PROVE  inc.alert \in Alerts
<1>1. inc.birth \in DOMAIN o /\ inc.alert = Inbox[o[inc.birth][2]].alert BY DEF Fits, FromFiring
<1>2. o[inc.birth] \in Sources BY <1>1
<1>3. o[inc.birth][2] \in DOMAIN Inbox BY <1>2 DEF Sources, FromFiring
<1> QED BY <1>1, <1>3, OnCallAssumption DEF OnCallAssumption

\* An incident's alerts are let go.
LEMMA DropAlertsIs ==
  ASSUME NEW s, NEW q, Good(s, q), AlertsBut(s, {}), NEW n, s.err \/ ~IsOpen(s, n)
  PROVE  LET t == DropAlerts(s, n)
         IN  /\ Good(t, q) /\ Follows(s, t) /\ Later(s, t) /\ t.m = s.m /\ t.pages = s.pages
             /\ SameDb(t.d, s.d) /\ t.d.ended = s.d.ended /\ AlertsBut(t, {})
<1> DEFINE v == [a \in Alerts |-> IF s.d.alerts[a] = n THEN None ELSE s.d.alerts[a]]
           k == [s.d EXCEPT !.alerts = v]
           t == DropAlerts(s, n)
<1>1. DbFits(s.d, s.opened, q) /\ s.d = [f \in DbFields |-> s.d[f]] BY DEF Good, DbFits
<1>2. t = Write(s, k) BY DEF DropAlerts
<1>3. v = [a \in Alerts |-> v[a]] OBVIOUS
<1>4. \A a \in Alerts : s.d.alerts[a] # n => v[a] = s.d.alerts[a] OBVIOUS
<1>. HIDE DEF v
<1>5. /\ k = [f \in DbFields |-> k[f]] /\ SameDb(k, s.d)
      /\ k.alerts = v /\ k.ended = s.d.ended /\ k.seen = s.d.seen
  <2> DEFINE d == s.d
  <2>. HIDE DEF d
  <2>1. d = [f \in DbFields |-> d[f]] /\ k = [d EXCEPT !.alerts = v] BY <1>1 DEF d
  <2>. HIDE DEF k
  <2>2. /\ k = [f \in DbFields |-> k[f]] /\ SameDb(k, d)
        /\ k.alerts = v /\ k.ended = d.ended /\ k.seen = d.seen
    BY <2>1 DEF DbFields, SameDb
  <2> QED BY <2>2 DEF d
<1>. HIDE DEF k, t
<1>6. /\ k.alerts = [a \in Alerts |-> k.alerts[a]] /\ k.ended \in [Alerts -> Nat \cup {Never}]
      /\ s.d.seen \subseteq k.seen /\ Covered(k)
  <2>1. s.d.ended \in [Alerts -> Nat \cup {Never}] BY <1>1 DEF DbFits
  <2>2. Covered(k) BY <1>5 DEF Good, DbOn, Covered
  <2> QED BY <1>3, <1>5, <2>1, <2>2
<1>7. /\ Good(t, q) /\ Follows(s, t) /\ t.m = s.m /\ t.pages = s.pages
      /\ SameDb(t.d, s.d) /\ Later(s, t)
      /\ t.d = s.d \/ (~s.err /\ t.d = k)
  BY <1>2, <1>5, <1>6, WriteFeedIs
<1>8. AlertsBut(t, {})
  <2>1. CASE t.d = s.d BY <1>7, <2>1, AlertsOn
  <2>2. CASE ~s.err /\ t.d = k
    <3> SUFFICES ASSUME fails + crashes = 0, ~t.hit, NEW j \in DOMAIN t.m.incidents
                 PROVE  j < t.m.next /\ Finds(j, t.m.incidents[j], t.d.alerts, t.opened)
      BY DEF AlertsBut
    <3>1. j < s.m.next /\ Finds(j, s.m.incidents[j], s.d.alerts, s.opened)
      BY <1>7 DEF AlertsBut, Later
    <3>2. SUFFICES ASSUME s.m.incidents[j].status # "resolved",
                          FromFiring(s.opened[s.m.incidents[j].birth])
                   PROVE  v[s.m.incidents[j].alert] = j
      BY <1>5, <1>7, <2>2, <3>1 DEF Finds, Later
    <3>3. s.d.alerts[s.m.incidents[j].alert] = j BY <3>1, <3>2 DEF Finds
    <3>4. j # n BY <1>7, <2>2, <3>2 DEF IsOpen, Known
    <3>5. s.m.incidents[j].alert \in Alerts
      <4>1. Fits(s.m.incidents[j], s.opened) BY <1>7 DEF Good, MemFits, Table
      <4> QED BY <3>2, <4>1, AlertIs DEF Good, Place
    <3> QED BY <1>4, <3>3, <3>4, <3>5
  <2> QED BY <1>7, <2>1, <2>2
<1>9. t.d.ended = s.d.ended BY <1>5, <1>7
<1> QED BY <1>7, <1>8, <1>9 DEF t

\* No resolve is before itself.
LEMMA SameBefore ==
  ASSUME NEW f \in [Alerts -> Nat \cup {Never}]
  PROVE  \A a \in Alerts : NotBefore(f[a], f[a])
<1> SUFFICES ASSUME NEW a \in Alerts PROVE NotBefore(f[a], f[a]) OBVIOUS
<1>1. Second(f[a]) \in Int BY DEF Second, Never
<1> QED BY <1>1 DEF NotBefore

\* What an alert's resolve leaves behind.
LEMMA PutResolvedIs ==
  ASSUME NEW s, NEW q, Idle(s, {}, q), NEW alert \in Alerts, NEW at \in Nat
  PROVE  LET t == PutResolved(s, alert, at)
         IN  /\ Idle(t, {}, q) /\ Follows(s, t) /\ Later(s, t) /\ t.m = s.m /\ t.pages = s.pages
             /\ ~t.err => NotBefore(at, t.d.ended[alert])
<1> DEFINE f == s.d.ended
           e == IF f[alert] = Never THEN at ELSE TextMax(f[alert], at)
           v == [f EXCEPT ![alert] = e]
           k == [s.d EXCEPT !.ended = v]
           t == PutResolved(s, alert, at)
<1>1. Good(s, q) /\ AlertsBut(s, {}) BY DEF Idle
<1>2. /\ DbFits(s.d, s.opened, q) /\ s.d = [g \in DbFields |-> s.d[g]]
      /\ f \in [Alerts -> Nat \cup {Never}] /\ s.d.alerts = [a \in Alerts |-> s.d.alerts[a]]
  BY <1>1 DEF Good, DbFits
<1>3. e \in Nat /\ NotBefore(f[alert], e) /\ NotBefore(at, e)
  <2>. HIDE DEF f
  <2>1. f[alert] \in Nat \cup {Never} BY <1>2
  <2>2. CASE f[alert] = Never
    <3>1. Second(at) \in Int /\ at # Never BY DEF Second, Never
    <3> QED BY <2>2, <3>1 DEF NotBefore
  <2>3. CASE f[alert] # Never
    <3>1. f[alert] \in Nat BY <2>1, <2>3
    <3>2. e = TextMax(f[alert], at) BY <2>3
    <3> QED BY <3>1, <3>2, TextMaxIs
  <2> QED BY <2>2, <2>3
<1>4. t = Write(s, k)
  <2>1. t = Write(s, [s.d EXCEPT !.ended[alert] = IF @ = Never THEN at ELSE TextMax(@, at)])
    BY DEF PutResolved
  <2>2. s.d = [g \in DbFields |-> s.d[g]] BY <1>2
  <2>3. [s.d EXCEPT !.ended[alert] = IF @ = Never THEN at ELSE TextMax(@, at)] = k
    <3> DEFINE d == s.d
    <3>1. d = [g \in DbFields |-> d[g]] BY <2>2
    <3>. HIDE DEF d
    <3>2. [d EXCEPT !.ended[alert] = IF @ = Never THEN at ELSE TextMax(@, at)]
            = [d EXCEPT !.ended = [d.ended EXCEPT ![alert] =
                                     IF d.ended[alert] = Never THEN at ELSE TextMax(d.ended[alert], at)]]
      BY <3>1 DEF DbFields
    <3> QED BY <3>2 DEF d
  <2> QED BY <2>1, <2>3
<1>. HIDE DEF e
<1>5. v \in [Alerts -> Nat \cup {Never}] /\ \A a \in Alerts : NotBefore(f[a], v[a])
  <2>. HIDE DEF f
  <2>1. \A a \in Alerts : NotBefore(f[a], f[a]) BY <1>2, SameBefore
  <2>2. v \in [Alerts -> Nat \cup {Never}] BY <1>2, <1>3
  <2>3. \A a \in Alerts : v[a] = IF a = alert THEN e ELSE f[a] BY <1>2
  <2> QED BY <1>3, <2>1, <2>2, <2>3
<1>6. v[alert] = e BY <1>2
<1>. HIDE DEF v
<1>7. /\ k = [g \in DbFields |-> k[g]] /\ SameDb(k, s.d)
      /\ k.ended = v /\ k.alerts = s.d.alerts /\ k.seen = s.d.seen
  <2> DEFINE d == s.d
  <2>. HIDE DEF d
  <2>1. d = [g \in DbFields |-> d[g]] /\ k = [d EXCEPT !.ended = v] BY <1>2 DEF d
  <2>. HIDE DEF k
  <2>2. /\ k = [g \in DbFields |-> k[g]] /\ SameDb(k, d)
        /\ k.ended = v /\ k.alerts = d.alerts /\ k.seen = d.seen
    BY <2>1 DEF DbFields, SameDb
  <2> QED BY <2>2 DEF d
<1>. HIDE DEF k, t
<1>8. /\ Good(t, q) /\ Follows(s, t) /\ t.m = s.m /\ t.pages = s.pages
      /\ SameDb(t.d, s.d) /\ Later(s, t)
      /\ t.d = s.d \/ (~s.err /\ t.d = k)
      /\ ~t.err => ~s.err /\ t.d = k
  <2>1. /\ k.alerts = [a \in Alerts |-> k.alerts[a]] /\ k.ended \in [Alerts -> Nat \cup {Never}]
        /\ s.d.seen \subseteq k.seen
    BY <1>2, <1>5, <1>7
  <2>2. Covered(k)
    <3> SUFFICES ASSUME NEW r \in s.d.seen, Inbox[r].status = "resolved", r \in DOMAIN Inbox
                 PROVE  NotBefore(Inbox[r].at, v[Inbox[r].alert])
      BY <1>1, <1>7 DEF Good, DbOn, Covered
    <3>1. NotBefore(Inbox[r].at, f[Inbox[r].alert]) BY <1>1 DEF Good, DbOn, Covered
    <3>2. Inbox[r].alert \in Alerts /\ Inbox[r].at \in Nat BY OnCallAssumption DEF OnCallAssumption
    <3>3. NotBefore(f[Inbox[r].alert], v[Inbox[r].alert]) BY <1>5, <3>2
    <3>4. f[Inbox[r].alert] \in Nat \cup {Never} /\ v[Inbox[r].alert] \in Nat \cup {Never}
      BY <1>2, <1>5, <3>2
    <3> QED BY <3>1, <3>2, <3>3, <3>4, BeforeOn
  <2> QED BY <1>1, <1>4, <1>7, <2>1, <2>2, WriteFeedIs
<1>9. AlertsBut(t, {})
  <2>1. t.d.alerts = s.d.alerts BY <1>7, <1>8
  <2> QED BY <1>1, <1>8, <2>1, AlertsOn
<1>10. Idle(t, {}, q) BY <1>8, <1>9, IdleOn
<1>11. ~t.err => NotBefore(at, t.d.ended[alert]) BY <1>3, <1>6, <1>7, <1>8
<1> QED BY <1>8, <1>10, <1>11 DEF t

\* An alert is given the incident that has just been opened for it.
LEMMA PutAlertIdle ==
  ASSUME NEW s, NEW q, NEW n, Idle(s, {n}, q), NEW alert \in Alerts,
         s.err \/ \A j \in DOMAIN s.m.incidents :
                    /\ j # n /\ s.d.alerts[alert] = j => s.m.incidents[j].status = "resolved"
                    /\ j = n /\ FromFiring(s.opened[s.m.incidents[n].birth])
                         => s.m.incidents[n].alert = alert
  PROVE  Idle(PutAlert(s, alert, n), {}, q) /\ Later(s, PutAlert(s, alert, n))
<1> DEFINE v == [s.d.alerts EXCEPT ![alert] = n]
           k == [s.d EXCEPT !.alerts = v]
           t == PutAlert(s, alert, n)
<1>1. Good(s, q) /\ AlertsBut(s, {n}) BY DEF Idle
<1>2. /\ DbFits(s.d, s.opened, q) /\ s.d = [g \in DbFields |-> s.d[g]]
      /\ s.d.ended \in [Alerts -> Nat \cup {Never}] /\ s.d.alerts = [a \in Alerts |-> s.d.alerts[a]]
  BY <1>1 DEF Good, DbFits
<1>3. t = Write(s, k)
  <2>1. t = Write(s, [s.d EXCEPT !.alerts[alert] = n]) BY DEF PutAlert
  <2>2. [s.d EXCEPT !.alerts[alert] = n] = k
    <3> DEFINE d == s.d
    <3>1. d = [g \in DbFields |-> d[g]] BY <1>2
    <3>. HIDE DEF d
    <3>2. [d EXCEPT !.alerts[alert] = n] = [d EXCEPT !.alerts = [d.alerts EXCEPT ![alert] = n]]
      BY <3>1 DEF DbFields
    <3> QED BY <3>2 DEF d
  <2> QED BY <2>1, <2>2
<1>4. /\ v = [a \in Alerts |-> v[a]] /\ v[alert] = n
      /\ \A a \in Alerts : a # alert => v[a] = s.d.alerts[a]
  <2> DEFINE f == s.d.alerts
  <2>. HIDE DEF f
  <2>1. f = [a \in Alerts |-> f[a]] /\ v = [f EXCEPT ![alert] = n] BY <1>2 DEF f
  <2>. HIDE DEF v
  <2>2. v = [a \in Alerts |-> v[a]] /\ v[alert] = n /\ \A a \in Alerts : a # alert => v[a] = f[a]
    BY <2>1
  <2> QED BY <2>2 DEF f
<1>. HIDE DEF v
<1>5. /\ k = [g \in DbFields |-> k[g]] /\ SameDb(k, s.d)
      /\ k.alerts = v /\ k.ended = s.d.ended /\ k.seen = s.d.seen
  <2> DEFINE d == s.d
  <2>. HIDE DEF d
  <2>1. d = [g \in DbFields |-> d[g]] /\ k = [d EXCEPT !.alerts = v] BY <1>2 DEF d
  <2>. HIDE DEF k
  <2>2. /\ k = [g \in DbFields |-> k[g]] /\ SameDb(k, d)
        /\ k.alerts = v /\ k.ended = d.ended /\ k.seen = d.seen
    BY <2>1 DEF DbFields, SameDb
  <2> QED BY <2>2 DEF d
<1>. HIDE DEF k, t
<1>6. /\ Good(t, q) /\ t.m = s.m /\ SameDb(t.d, s.d) /\ Later(s, t)
      /\ ~t.hit => ~s.hit /\ t.d = k
  <2>1. /\ k.alerts = [a \in Alerts |-> k.alerts[a]] /\ k.ended \in [Alerts -> Nat \cup {Never}]
        /\ s.d.seen \subseteq k.seen
    BY <1>2, <1>4, <1>5
  <2>2. Covered(k) BY <1>1, <1>5 DEF Good, DbOn, Covered
  <2> QED BY <1>1, <1>3, <1>5, <2>1, <2>2, WriteFeedIs
<1>7. AlertsBut(t, {})
  <2> SUFFICES ASSUME fails + crashes = 0, ~t.hit, NEW j \in DOMAIN s.m.incidents
               PROVE  j < s.m.next /\ Finds(j, s.m.incidents[j], v, s.opened)
    BY <1>5, <1>6 DEF AlertsBut, Later
  <2>1. ~s.err BY <1>1, <1>6 DEF Good, Place
  <2>2. j < s.m.next /\ (j # n => Finds(j, s.m.incidents[j], s.d.alerts, s.opened))
    BY <1>1, <1>6 DEF AlertsBut
  <2>3. SUFFICES ASSUME s.m.incidents[j].status # "resolved",
                        FromFiring(s.opened[s.m.incidents[j].birth])
                 PROVE  v[s.m.incidents[j].alert] = j
    BY <2>2 DEF Finds
  <2>4. CASE j = n BY <1>4, <2>1, <2>3, <2>4
  <2>5. CASE j # n
    <3>1. s.d.alerts[s.m.incidents[j].alert] = j BY <2>2, <2>3, <2>5 DEF Finds
    <3>2. s.m.incidents[j].alert # alert BY <2>1, <2>3, <2>5, <3>1
    <3>3. s.m.incidents[j].alert \in Alerts
      <4>1. Fits(s.m.incidents[j], s.opened) BY <1>1 DEF Good, MemFits, Table
      <4> QED BY <1>1, <2>3, <4>1, AlertIs DEF Good, Place
    <3> QED BY <1>4, <3>1, <3>2, <3>3
  <2> QED BY <2>4, <2>5
<1>8. Idle(t, {}, q) BY <1>6, <1>7, IdleOn
<1> QED BY <1>6, <1>8 DEF t

\* A delivery that was taken in, with the end of its alert known.
LEMMA MarkDeliveryIs ==
  ASSUME NEW s, NEW q, Idle(s, {}, q), NEW i \in DOMAIN Inbox,
         s.err \/ (Inbox[i].status = "resolved" => NotBefore(Inbox[i].at, s.d.ended[Inbox[i].alert]))
  PROVE  LET t == MarkDelivery(s, i)
         IN  Idle(t, {}, q) /\ Later(s, t) /\ (~t.err => i \in t.d.seen)
<1> DEFINE v == s.d.seen \cup {i}
           k == [s.d EXCEPT !.seen = v]
           t == MarkDelivery(s, i)
<1>1. Good(s, q) /\ AlertsBut(s, {}) BY DEF Idle
<1>2. /\ DbFits(s.d, s.opened, q) /\ s.d = [g \in DbFields |-> s.d[g]]
      /\ s.d.ended \in [Alerts -> Nat \cup {Never}] /\ s.d.alerts = [a \in Alerts |-> s.d.alerts[a]]
  BY <1>1 DEF Good, DbFits
<1>3. t = Write(s, k) BY DEF MarkDelivery
<1>4. s.d.seen \subseteq v /\ i \in v /\ v \subseteq s.d.seen \cup {i} OBVIOUS
<1>. HIDE DEF v
<1>5. /\ k = [g \in DbFields |-> k[g]] /\ SameDb(k, s.d)
      /\ k.seen = v /\ k.ended = s.d.ended /\ k.alerts = s.d.alerts
  <2> DEFINE d == s.d
  <2>. HIDE DEF d
  <2>1. d = [g \in DbFields |-> d[g]] /\ k = [d EXCEPT !.seen = v] BY <1>2 DEF d
  <2>. HIDE DEF k
  <2>2. /\ k = [g \in DbFields |-> k[g]] /\ SameDb(k, d)
        /\ k.seen = v /\ k.ended = d.ended /\ k.alerts = d.alerts
    BY <2>1 DEF DbFields, SameDb
  <2> QED BY <2>2 DEF d
<1>. HIDE DEF k, t
<1>6. CASE s.err
  <2>1. t = s BY <1>3, <1>6 DEF Write
  <2> QED BY <1>6, <2>1 DEF Later, t
<1>7. CASE ~s.err
  <2>1. Covered(k)
    <3>1. Covered(s.d) BY <1>1 DEF Good, DbOn
    <3> QED BY <1>4, <1>5, <1>7, <3>1 DEF Covered
  <2>2. /\ Good(t, q) /\ t.m = s.m /\ SameDb(t.d, s.d) /\ Later(s, t)
        /\ t.d = s.d \/ t.d = k
        /\ ~t.err => t.d = k
    <3>1. /\ k.alerts = [a \in Alerts |-> k.alerts[a]] /\ k.ended \in [Alerts -> Nat \cup {Never}]
          /\ s.d.seen \subseteq k.seen
      BY <1>2, <1>4, <1>5
    <3> QED BY <1>1, <1>3, <1>5, <2>1, <3>1, WriteFeedIs
  <2>3. AlertsBut(t, {})
    <3>1. t.d.alerts = s.d.alerts BY <1>5, <2>2
    <3> QED BY <1>1, <2>2, <3>1, AlertsOn
  <2>4. Idle(t, {}, q) BY <2>2, <2>3, IdleOn
  <2>5. ~t.err => i \in t.d.seen BY <1>4, <1>5, <2>2
  <2> QED BY <2>2, <2>4, <2>5 DEF t
<1> QED BY <1>6, <1>7

\* That the answer is kept changes nothing else.
LEMMA AnswerDone ==
  ASSUME NEW s, NEW q, Done(s, q), NEW x
  PROVE  LET t == Write(s, [s.d EXCEPT !.answered = x])
         IN  Done(t, q) /\ Follows(s, t) /\ t.m = s.m /\ t.pages = s.pages
<1> DEFINE k == [s.d EXCEPT !.answered = x]
           t == Write(s, k)
<1>1. Good(s, q) /\ InStep(s) /\ AlertsBut(s, {}) /\ Told(s) BY DEF Done
<1>2. /\ DbFits(s.d, s.opened, q) /\ s.d = [g \in DbFields |-> s.d[g]]
      /\ s.d.ended \in [Alerts -> Nat \cup {Never}] /\ s.d.alerts = [a \in Alerts |-> s.d.alerts[a]]
  BY <1>1 DEF Good, DbFits
<1>3. /\ k = [g \in DbFields |-> k[g]] /\ SameDb(k, s.d)
      /\ k.seen = s.d.seen /\ k.ended = s.d.ended /\ k.alerts = s.d.alerts
  <2> DEFINE d == s.d
  <2>. HIDE DEF d
  <2>1. d = [g \in DbFields |-> d[g]] /\ k = [d EXCEPT !.answered = x] BY <1>2 DEF d
  <2>. HIDE DEF k
  <2>2. /\ k = [g \in DbFields |-> k[g]] /\ SameDb(k, d)
        /\ k.seen = d.seen /\ k.ended = d.ended /\ k.alerts = d.alerts
    BY <2>1 DEF DbFields, SameDb
  <2> QED BY <2>2 DEF d
<1>. HIDE DEF k
<1>4. /\ Good(t, q) /\ Follows(s, t) /\ t.m = s.m /\ t.pages = s.pages /\ SameDb(t.d, s.d)
      /\ Later(s, t) /\ (t.d = s.d \/ t.d = k)
  <2>1. /\ k.alerts = [a \in Alerts |-> k.alerts[a]] /\ k.ended \in [Alerts -> Nat \cup {Never}]
        /\ s.d.seen \subseteq k.seen
    BY <1>2, <1>3
  <2>2. Covered(k) BY <1>1, <1>3 DEF Good, DbOn, Covered
  <2> QED BY <1>1, <1>3, <2>1, <2>2, WriteFeedIs
<1>. HIDE DEF t
<1>5. AlertsBut(t, {})
  <2>1. t.d.alerts = s.d.alerts BY <1>3, <1>4
  <2> QED BY <1>1, <1>4, <2>1, AlertsOn
<1>6. InStep(t)
  <2> SUFFICES ASSUME fails = 0, ~t.hit PROVE t.m = Load(t.d) BY DEF InStep
  <2>1. s.m = Load(s.d) BY <1>1, <1>4 DEF InStep, Later
  <2>2. Load(t.d) = Load(s.d) BY <1>4 DEF Load, SameDb
  <2> QED BY <1>4, <2>1, <2>2
<1>7. Told(t) BY <1>1, <1>4 DEF Told, Later
<1> QED BY <1>4, <1>5, <1>6, <1>7 DEF Done, t, k

\* An incident that is resolved is over, for good when nothing failed.
LEMMA ResolveIdle ==
  ASSUME RestartLosesNothing, NEW s, NEW q, Idle(s, {}, q), NEW n \in DOMAIN s.m.incidents
  PROVE  LET t == Resolve(s, n)
         IN  /\ Idle(t, {}, q) /\ Follows(s, t) /\ t.pages = s.pages /\ t.d.ended = s.d.ended
             /\ n \in DOMAIN t.m.incidents
             /\ ~t.hit => t.m.incidents[n].status # "triggered"
<1> DEFINE old == s.m.incidents[n]
           inc == [old EXCEPT !.status = "resolved", !.due = Never]
           s1 == SetIncident(s, n, inc)
           s2 == Record(s1)
           s3 == DropAlerts(s2, n)
           t  == Touch(s3, n)
<1>1. Resolve(s, n) = t BY DEF Resolve
<1>2. Work(s, n, {}, q) BY IdleWork
<1>3. Fits(old, s.opened) /\ Loud(n, old, q) BY <1>2 DEF Work, Good, MemFits, Table
<1>. HIDE DEF old
<1>4. /\ inc = [f \in IncidentFields |-> inc[f]] /\ inc.status = "resolved" /\ inc.due = Never
      /\ inc.policy = old.policy /\ inc.level = old.level /\ inc.loops = old.loops
      /\ inc.changed = old.changed /\ inc.acked = old.acked
      /\ inc.birth = old.birth /\ inc.alert = old.alert
  BY <1>3 DEF Fits, IncidentFields
<1>. HIDE DEF inc
<1>5. Fits(inc, s.opened) /\ Loud(n, inc, q) /\ SameKind(inc, old)
  BY <1>3, <1>4 DEF Fits, Levels, Loud, SameKind
<1>6. /\ Work(s1, n, {}, q) /\ Follows(s, s1) /\ s1.d = s.d /\ s1.pages = s.pages
      /\ s1.err = s.err /\ s1.hit = s.hit
      /\ ~s.err => s1.m.incidents[n] = inc
      /\ s.err => s1.m = s.m
  BY <1>2, <1>5, SetIncidentWork DEF old
<1>. HIDE DEF s1
<1>7. /\ Work(s2, n, {}, q) /\ Follows(s1, s2) /\ s2.m = s1.m /\ s2.d = s1.d /\ s2.pages = s1.pages
  BY <1>6, RecordWork
<1>. HIDE DEF s2
<1>8. s2.err \/ ~IsOpen(s2, n) BY <1>4, <1>6, <1>7 DEF Follows, IsOpen, Known
<1>9. /\ Good(s3, q) /\ Follows(s2, s3) /\ Later(s2, s3) /\ s3.m = s2.m /\ s3.pages = s2.pages
      /\ SameDb(s3.d, s2.d) /\ s3.d.ended = s2.d.ended /\ AlertsBut(s3, {})
  BY <1>7, <1>8, DropAlertsIs DEF Work
<1>. HIDE DEF s3
<1>10. Work(s3, n, {}, q) BY <1>7, <1>9, WorkOn
<1>11. /\ Idle(t, {}, q) /\ Follows(s3, t) /\ Stay(s3, t) /\ t.pages = s3.pages
       /\ t.d.ended = s3.d.ended
  BY <1>10, TouchIdle
<1>. HIDE DEF t
<1>12. Follows(s, t) BY <1>6, <1>7, <1>9, <1>11 DEF Follows
<1>13. t.pages = s.pages /\ t.d.ended = s.d.ended BY <1>6, <1>7, <1>9, <1>11
<1>14. n \in DOMAIN s3.m.incidents BY <1>10 DEF Work
<1>15. ~t.hit => t.m.incidents[n].status # "triggered"
  <2> SUFFICES ASSUME ~t.hit PROVE t.m.incidents[n].status # "triggered" OBVIOUS
  <2>1. ~s.err BY <1>2, <1>12 DEF Follows, Work, Good, Place
  <2>2. s3.m.incidents[n].status = "resolved" BY <1>4, <1>6, <1>7, <1>9, <2>1
  <2> QED BY <1>11, <1>14, <2>2 DEF Stay
<1> QED BY <1>1, <1>11, <1>12, <1>13, <1>14, <1>15 DEF Stay

-----------------------------------------------------------------------------
(* Openings.                                                               *)

\* A longer history still has the opening of an incident.
LEMMA LongerFits ==
  ASSUME NEW o \in Seq(Sources), NEW from \in Sources, NEW inc, Fits(inc, o)
  PROVE  Fits(inc, Append(o, from))
<1> DEFINE p == Append(o, from)
<1>1. inc.birth \in DOMAIN o BY DEF Fits
<1>2. inc.birth \in DOMAIN p /\ p[inc.birth] = o[inc.birth] BY <1>1
<1>. HIDE DEF p
<1>3. Fits(inc, p) BY <1>2 DEF Fits
<1> QED BY <1>3 DEF p

\* A table fits a longer history.
LEMMA LongerTable ==
  ASSUME NEW o \in Seq(Sources), NEW from \in Sources, NEW q, NEW t, Table(t, o, q)
  PROVE  Table(t, Append(o, from), q)
<1>1. \A n \in DOMAIN t : Fits(t[n], Append(o, from)) BY LongerFits DEF Table
<1> QED BY <1>1 DEF Table

\* A place at which the history has the next opening.
OpenedAt(s, k, from) == [s EXCEPT !.m.next = k, !.opened = Append(@, from)]

\* A place fits the history with one more opening.
LEMMA OpenedIs ==
  ASSUME NEW s, NEW q, Good(s, q), NEW from \in Sources, NEW k \in Nat
  PROVE  LET t == OpenedAt(s, k, from) IN
         /\ Good(t, q) /\ t.opened = Append(s.opened, from) /\ t.fault = s.fault
         /\ t.m.incidents = s.m.incidents /\ t.m.next = k /\ t.m.overrides = s.m.overrides
         /\ t.m.last = s.m.last /\ t.m.oncallSeq = s.m.oncallSeq
         /\ t.d = s.d /\ t.hit = s.hit /\ t.err = s.err
<1>1. /\ s = [f \in ChainFields |-> s[f]] /\ s.m = [f \in MemFields |-> s.m[f]]
      /\ MemFits(s.m, s.opened, q) /\ MemOn(s.m) /\ DbFits(s.d, s.opened, q) /\ DbOn(s.d)
      /\ s.opened \in Seq(Sources)
  BY DEF Good, Place, MemFits
<1> DEFINE m == s.m
           v == [m EXCEPT !.next = k]
           o == Append(s.opened, from)
           t == OpenedAt(s, k, from)
<1>2. t = [s EXCEPT !.m = v, !.opened = o] BY <1>1 DEF ChainFields, OpenedAt
<1>. HIDE DEF t
<1>3. /\ v = [f \in MemFields |-> v[f]] /\ v.next = k /\ v.incidents = m.incidents
      /\ v.overrides = m.overrides /\ v.last = m.last /\ v.oncallSeq = m.oncallSeq /\ v.seq = m.seq
  <2>1. m = [f \in MemFields |-> m[f]] BY <1>1
  <2>. HIDE DEF m
  <2> QED BY <2>1 DEF MemFields
<1>. HIDE DEF v
<1>4. o \in Seq(Sources) /\ Table(m.incidents, o, q) /\ Table(s.d.incidents, o, q)
  BY <1>1, LongerTable DEF MemFits, DbFits
<1>. HIDE DEF o
<1>5. /\ t = [f \in ChainFields |-> t[f]] /\ t.m = v /\ t.opened = o
      /\ t.d = s.d /\ t.hit = s.hit /\ t.err = s.err /\ t.fault = s.fault /\ t.left = s.left
      /\ t.pages = s.pages
  BY <1>1, <1>2 DEF ChainFields
<1>6. Place(t, q)
  <2>1. Place(s, q) BY DEF Good
  <2> QED BY <1>4, <1>5, <2>1 DEF Place
<1>7. MemFits(v, o, q) /\ MemOn(v) BY <1>1, <1>3, <1>4 DEF MemFits, MemOn
<1>8. DbFits(s.d, o, q) BY <1>1, <1>4 DEF DbFits
<1>9. Good(t, q) BY <1>1, <1>5, <1>6, <1>7, <1>8 DEF Good
<1> QED BY <1>3, <1>5, <1>9 DEF o, t

\* The incident that is opened, before it is assigned.
Newborn(s, alert) ==
  [status |-> "triggered", policy |-> HomePolicy, level |-> 0,
   loops |-> Policies[HomePolicy].repeat, due |-> Never, assigned |-> {}, acked |-> {},
   alert |-> alert, alerts |-> IF alert = "manual" THEN 0 ELSE 1, notes |-> 0,
   changed |-> 0, birth |-> Len(s.opened) + 1]

\* A new incident fits, and nobody has been told of it.
LEMMA NewbornIs ==
  ASSUME NEW s, s.opened \in Seq(Sources), NEW alert, NEW from \in Sources,
         from[1] = "delivery" => alert = Inbox[from[2]].alert,
         NEW q, \A p \in q : p.birth <= Len(s.opened), NEW n
  PROVE  /\ Fits(Newborn(s, alert), Append(s.opened, from)) /\ Loud(n, Newborn(s, alert), q)
         /\ Newborn(s, alert).status = "triggered" /\ Newborn(s, alert).birth = Len(s.opened) + 1
         /\ Newborn(s, alert).policy = HomePolicy
<1> DEFINE inc == Newborn(s, alert)
           o == Append(s.opened, from)
           b == Len(s.opened) + 1
<1>1. b \in DOMAIN o /\ o[b] = from /\ Len(s.opened) \in Nat OBVIOUS
<1>2. /\ inc = [f \in IncidentFields |-> inc[f]]
      /\ inc.status = "triggered" /\ inc.policy = HomePolicy /\ inc.level = 0
      /\ inc.loops = Policies[HomePolicy].repeat /\ inc.due = Never /\ inc.acked = {}
      /\ inc.alert = alert /\ inc.changed = 0 /\ inc.birth = b
  BY DEF Newborn, IncidentFields
<1>. HIDE DEF inc, o
<1>3. HomePolicy \in DOMAIN Policies BY OnCallAssumption DEF OnCallAssumption
<1>4. inc.level \in 0..Len(Levels(inc)) /\ inc.loops \in Nat BY <1>2, <1>3, PolicyIs DEF Levels
<1>5. inc.birth \in DOMAIN o /\ (o[inc.birth][1] = "delivery" => inc.alert = Inbox[o[inc.birth][2]].alert)
  BY <1>1, <1>2
<1>6. Fits(inc, o)
  <2>1. /\ inc.status \in {"triggered", "acknowledged", "resolved"} /\ inc.policy \in DOMAIN Policies
        /\ inc.changed \in Nat /\ ~(inc.due # Never) /\ inc.acked = {}
    <3>1. /\ inc.status = "triggered" /\ inc.policy = HomePolicy /\ inc.changed = 0
          /\ inc.due = Never /\ inc.acked = {}
      BY <1>2
    <3> QED BY <1>3, <3>1
  <2>2. inc = [f \in IncidentFields |-> inc[f]] BY <1>2
  <2> QED BY <1>4, <1>5, <2>1, <2>2 DEF Fits
<1>7. Loud(n, inc, q)
  <2> SUFFICES ASSUME [incident |-> n, birth |-> b] \in q PROVE FALSE BY <1>2 DEF Loud
  <2>1. [incident |-> n, birth |-> b].birth <= Len(s.opened) OBVIOUS
  <2>2. b <= Len(s.opened) BY <2>1
  <2> QED BY <1>1, <2>2
<1> QED BY <1>2, <1>6, <1>7 DEF inc, o

\* An incident for the alert may be opened from there.
MayOpen(s, q, alert, from) ==
  /\ Idle(s, {}, q) /\ ~s.err /\ from \in Sources
  /\ from[1] = "delivery" => alert = Inbox[from[2]].alert
  /\ \A p \in q : p.birth <= Len(s.opened)

\* In t the incident n has been opened, which no alert has yet.
Opens(s, q, n, from, t) ==
  /\ Idle(t, {n}, q)
  /\ t.opened = Append(s.opened, from) /\ t.fault = s.fault /\ (~t.hit => ~s.hit)
  /\ t.d.alerts = s.d.alerts /\ t.d.ended = s.d.ended
  /\ n \in DOMAIN t.m.incidents /\ t.m.incidents[n].status = "triggered"
  /\ t.m.incidents[n].birth = Len(s.opened) + 1
  /\ \A j \in DOMAIN t.m.incidents : j # n =>
       j \in DOMAIN s.m.incidents /\ t.m.incidents[j].status = s.m.incidents[j].status

\* A chain that opens an incident.
LEMMA OpenIncidentIdle ==
  ASSUME RestartLosesNothing, NEW s, NEW q, NEW alert, NEW from, MayOpen(s, q, alert, from)
  PROVE  Opens(s, q, NextNumber(s), from, OpenIncident(s, alert, from))
<1> DEFINE n == NextNumber(s)
           inc == Newborn(s, alert)
           r == OpenedAt(s, n + 1, from)
           s1 == SetIncident(r, n, inc)
           s2 == Record(s1)
           s3 == Assign(s2, n, 1)
           t == Touch(s3, n)
<1>0. /\ Idle(s, {}, q) /\ ~s.err /\ from \in Sources
      /\ from[1] = "delivery" => alert = Inbox[from[2]].alert
      /\ \A p \in q : p.birth <= Len(s.opened)
  BY DEF MayOpen
<1>1. /\ Good(s, q) /\ InStep(s) /\ AlertsBut(s, {}) /\ Same(s) /\ Place(s, q)
      /\ s.opened \in Seq(Sources) /\ MemFits(s.m, s.opened, q)
      /\ s = [f \in ChainFields |-> s[f]] /\ s.m = [f \in MemFields |-> s.m[f]]
      /\ s.m.next \in Nat
  BY <1>0 DEF Idle, Good, Place, MemFits
<1>2. n \in Nat /\ n >= 1 /\ s.m.next <= n BY <1>1 DEF NextNumber
<1>3. OpenIncident(s, alert, from) = t
  <2>1. OpenIncident(s, alert, from)
          = Touch(Assign(Record([SetIncident(s, n, inc) EXCEPT !.m.next = n + 1, !.opened = Append(@, from)]),
                         n, 1), n)
    BY DEF OpenIncident, Newborn
  <2>. HIDE DEF n, inc
  <2> DEFINE w == With(s.m.incidents, n, inc)
             o == Append(s.opened, from)
  <2>2. SetIncident(s, n, inc) = [s EXCEPT !.m = [s.m EXCEPT !.incidents = w]]
    BY <1>0 DEF SetIncident, Set
  <2>3. r.err = s.err /\ r.m = [s.m EXCEPT !.next = n + 1] /\ r.m.incidents = s.m.incidents
        /\ r = [s EXCEPT !.m = [s.m EXCEPT !.next = n + 1], !.opened = o]
    BY <1>1 DEF ChainFields, MemFields, OpenedAt
  <2>4. s1 = [r EXCEPT !.m = [r.m EXCEPT !.incidents = w]]
    <3>. HIDE DEF r
    <3> QED BY <1>0, <2>3 DEF SetIncident, Set
  <2>5. s1 = [s EXCEPT !.m = [s.m EXCEPT !.next = n + 1, !.incidents = w], !.opened = o]
    <3>. HIDE DEF r, s1, w, o
    <3> QED BY <1>1, <2>3, <2>4 DEF ChainFields, MemFields
  <2>6. [SetIncident(s, n, inc) EXCEPT !.m.next = n + 1, !.opened = Append(@, from)]
          = [s EXCEPT !.m = [s.m EXCEPT !.next = n + 1, !.incidents = w], !.opened = o]
    <3>1. s = [f \in ChainFields |-> s[f]] /\ s.m = [f \in MemFields |-> s.m[f]] BY <1>1
    <3> DEFINE k == SetIncident(s, n, inc)
               m == s.m
    <3>2. k = [s EXCEPT !.m = [m EXCEPT !.incidents = w]] BY <2>2
    <3>3. m = [f \in MemFields |-> m[f]] BY <3>1
    <3>4. s.m = m OBVIOUS
    <3>. HIDE DEF w, k, m
    <3>5. [k EXCEPT !.m.next = n + 1, !.opened = Append(@, from)]
            = [s EXCEPT !.m = [m EXCEPT !.next = n + 1, !.incidents = w], !.opened = o]
      BY <3>1, <3>2, <3>3 DEF ChainFields, MemFields
    <3> QED BY <3>5 DEF k, m
  <2> QED BY <2>1, <2>5, <2>6
<1>. HIDE DEF n, inc
<1>4. /\ Fits(inc, Append(s.opened, from)) /\ Loud(n, inc, q)
      /\ inc.status = "triggered" /\ inc.birth = Len(s.opened) + 1 /\ inc.policy = HomePolicy
  BY <1>0, <1>1, NewbornIs DEF inc
<1>5. /\ Good(r, q) /\ r.opened = Append(s.opened, from) /\ r.fault = s.fault
      /\ r.m.incidents = s.m.incidents /\ r.m.next = n + 1 /\ r.m.overrides = s.m.overrides
      /\ r.m.last = s.m.last /\ r.m.oncallSeq = s.m.oncallSeq
      /\ r.d = s.d /\ r.hit = s.hit /\ r.err = s.err
  <2>1. n + 1 \in Nat BY <1>2
  <2> QED BY <1>0, <1>1, <2>1, OpenedIs
<1>. HIDE DEF r
<1>6. /\ Good(s1, q) /\ Follows(r, s1) /\ s1.d = r.d
      /\ s1.m.next = r.m.next /\ s1.m.oncallSeq = r.m.oncallSeq
      /\ s1.m.overrides = r.m.overrides /\ s1.m.last = r.m.last
      /\ s1.m.incidents = With(r.m.incidents, n, inc)
  <2>1. ~r.err /\ Fits(inc, r.opened) BY <1>0, <1>4, <1>5
  <2>2. Good(r, q) /\ n \in Nat /\ Loud(n, inc, q) BY <1>2, <1>4, <1>5
  <2> QED BY <2>1, <2>2, SetIncidentIs
<1>. HIDE DEF s1
<1>7. /\ DOMAIN s1.m.incidents = DOMAIN s.m.incidents \cup {n} /\ s1.m.incidents[n] = inc
      /\ \A k \in DOMAIN s.m.incidents : k # n => s1.m.incidents[k] = s.m.incidents[k]
  <2>1. s1.m.incidents = With(s.m.incidents, n, inc) BY <1>5, <1>6
  <2> QED BY <2>1 DEF With
<1>8. s1.opened = Append(s.opened, from) /\ s1.fault = s.fault /\ (~s1.hit => ~s.hit)
  BY <1>5, <1>6 DEF Follows
<1>9. Work(s1, n, {n}, q)
  <2>1. Same(s1) BY <1>1, <1>5, <1>6 DEF Same
  <2>2. ButFor(s1, n)
    <3> SUFFICES ASSUME fails = 0, ~s1.hit PROVE s1.m.incidents = With(s1.d.incidents, n, s1.m.incidents[n])
      BY DEF ButFor, With1
    <3>1. s.m = Load(s.d) BY <1>1, <1>8 DEF InStep
    <3>2. s.d.incidents = s.m.incidents BY <3>1 DEF Load
    <3> QED BY <1>5, <1>6, <1>7, <3>2
  <2>3. AlertsBut(s1, {n})
    <3> SUFFICES ASSUME fails + crashes = 0, ~s1.hit, NEW j \in DOMAIN s1.m.incidents
                 PROVE  j < s1.m.next /\ (j # n => Finds(j, s1.m.incidents[j], s1.d.alerts, s1.opened))
      BY DEF AlertsBut
    <3>1. CASE j = n BY <1>2, <1>5, <1>6, <3>1
    <3>2. CASE j # n
      <4>1. j \in DOMAIN s.m.incidents /\ s1.m.incidents[j] = s.m.incidents[j] BY <1>7, <3>2
      <4>2. j < s.m.next /\ Finds(j, s.m.incidents[j], s.d.alerts, s.opened)
        BY <1>1, <1>8, <4>1 DEF AlertsBut
      <4>3. j \in Nat BY <1>1, <4>1 DEF MemFits, Table
      <4>4. j < n + 1 BY <1>1, <1>2, <4>2, <4>3
      <4>5. Fits(s.m.incidents[j], s.opened) BY <1>1, <4>1 DEF MemFits, Table
      <4>6. s.m.incidents[j].birth \in DOMAIN s.opened BY <4>5 DEF Fits
      <4>7. s1.opened[s.m.incidents[j].birth] = s.opened[s.m.incidents[j].birth]
        BY <1>1, <1>8, <4>6
      <4>8. Finds(j, s1.m.incidents[j], s1.d.alerts, s1.opened)
        BY <1>5, <1>6, <4>1, <4>2, <4>7 DEF Finds
      <4> QED BY <1>5, <1>6, <4>4, <4>8
    <3> QED BY <3>1, <3>2
  <2>4. n \in DOMAIN s1.m.incidents BY <1>7
  <2> QED BY <1>6, <2>1, <2>2, <2>3, <2>4 DEF Work
<1>10. /\ Work(s2, n, {n}, q) /\ Follows(s1, s2) /\ s2.m = s1.m /\ s2.d = s1.d
  BY <1>9, RecordWork
<1>. HIDE DEF s2
<1>11. 1 \in 1..Len(Levels(s2.m.incidents[n])) /\ s2.m.incidents[n].status = "triggered"
  <2>1. s2.m.incidents[n] = inc BY <1>7, <1>10
  <2>2. HomePolicy \in DOMAIN Policies BY OnCallAssumption DEF OnCallAssumption
  <2> QED BY <1>4, <2>1, <2>2, PolicyIs DEF Levels
<1>12. Work(s3, n, {n}, q) /\ Follows(s2, s3) /\ Stay(s2, s3) /\ s3.d = s2.d
  BY <1>10, <1>11, AssignWork
<1>. HIDE DEF s3
<1>13. /\ Idle(t, {n}, q) /\ Follows(s3, t) /\ Stay(s3, t)
       /\ t.d.alerts = s3.d.alerts /\ t.d.ended = s3.d.ended
  BY <1>12, TouchIdle
<1>. HIDE DEF t
<1>14. t.opened = Append(s.opened, from) /\ t.fault = s.fault /\ (~t.hit => ~s.hit)
  BY <1>8, <1>10, <1>12, <1>13 DEF Follows
<1>15. t.d.alerts = s.d.alerts /\ t.d.ended = s.d.ended BY <1>5, <1>6, <1>10, <1>12, <1>13
<1>16. Stay(s1, t) BY <1>10, <1>12, <1>13 DEF Stay
<1>17. /\ n \in DOMAIN t.m.incidents /\ t.m.incidents[n].status = "triggered"
       /\ t.m.incidents[n].birth = Len(s.opened) + 1
       /\ \A j \in DOMAIN t.m.incidents : j # n =>
            j \in DOMAIN s.m.incidents /\ t.m.incidents[j].status = s.m.incidents[j].status
  BY <1>4, <1>7, <1>16 DEF Stay
<1>18. Opens(s, q, n, from, t) BY <1>13, <1>14, <1>15, <1>17 DEF Opens
<1> QED BY <1>3, <1>18 DEF n

\* An incident that does not come from a firing needs no alert.
LEMMA NoFiringIdle ==
  ASSUME NEW s, NEW n, NEW q, Idle(s, {n}, q), ~FromFiring(s.opened[s.m.incidents[n].birth])
  PROVE  Idle(s, {}, q)
<1>1. AlertsBut(s, {n}) BY DEF Idle
<1>2. AlertsBut(s, {})
  <2> SUFFICES ASSUME fails + crashes = 0, ~s.hit, NEW j \in DOMAIN s.m.incidents
               PROVE  j < s.m.next /\ Finds(j, s.m.incidents[j], s.d.alerts, s.opened)
    BY DEF AlertsBut
  <2>1. CASE j = n BY <1>1, <2>1 DEF AlertsBut, Finds
  <2>2. CASE j # n BY <1>1, <2>2 DEF AlertsBut
  <2> QED BY <2>1, <2>2
<1> QED BY <1>2 DEF Idle

\* A repeat, and other changes that leave an incident's status and level alone.
LEMMA CountedIdle ==
  ASSUME RestartLosesNothing, NEW s, NEW q, Idle(s, {}, q), NEW n \in DOMAIN s.m.incidents, NEW f, NEW v,
         f \in {"alerts", "notes"}
  PROVE  LET t == Touch(Record(SetIncident(s, n, [s.m.incidents[n] EXCEPT ![f] = v])), n)
         IN  Idle(t, {}, q) /\ Follows(s, t) /\ t.d.ended = s.d.ended
<1> DEFINE old == s.m.incidents[n]
           inc == [old EXCEPT ![f] = v]
           s1 == SetIncident(s, n, inc)
           s2 == Record(s1)
           t  == Touch(s2, n)
<1>1. Work(s, n, {}, q) BY IdleWork
<1>2. Fits(old, s.opened) /\ Loud(n, old, q) BY <1>1 DEF Work, Good, MemFits, Table
<1>. HIDE DEF old
<1>3. /\ inc = [g \in IncidentFields |-> inc[g]] /\ inc.status = old.status /\ inc.due = old.due
      /\ inc.policy = old.policy /\ inc.level = old.level /\ inc.loops = old.loops
      /\ inc.changed = old.changed /\ inc.acked = old.acked
      /\ inc.birth = old.birth /\ inc.alert = old.alert
  BY <1>2 DEF Fits, IncidentFields
<1>. HIDE DEF inc
<1>4. Fits(inc, s.opened) /\ Loud(n, inc, q) /\ SameKind(inc, old)
  BY <1>2, <1>3 DEF Fits, Levels, Loud, SameKind
<1>5. /\ Work(s1, n, {}, q) /\ Follows(s, s1) /\ s1.d = s.d
  BY <1>1, <1>4, SetIncidentWork DEF old
<1>. HIDE DEF s1
<1>6. /\ Work(s2, n, {}, q) /\ Follows(s1, s2) /\ s2.m = s1.m /\ s2.d = s1.d
  BY <1>5, RecordWork
<1>. HIDE DEF s2
<1>7. /\ Idle(t, {}, q) /\ Follows(s2, t) /\ t.d.ended = s2.d.ended
  BY <1>6, TouchIdle
<1>. HIDE DEF t
<1>8. Follows(s, t) /\ t.d.ended = s.d.ended BY <1>5, <1>6, <1>7 DEF Follows
<1> QED BY <1>7, <1>8 DEF t, s2, s1, inc, old

\* What ingestLocked makes of a delivery.
LEMMA IngestLockedIdle ==
  ASSUME RestartLosesNothing, NEW s, NEW q, Idle(s, {}, q), ~s.err, NEW i \in DOMAIN Inbox,
         \A p \in q : p.birth <= Len(s.opened)
  PROVE  LET t == IngestLocked(s, Inbox[i], <<"delivery", i>>)
         IN  /\ Idle(t, {}, q) /\ (~t.hit => ~s.hit) /\ t.fault = s.fault
             /\ \/ t.opened = s.opened
                \/ t.opened = Append(s.opened, <<"delivery", i>>) /\ ~Stale(s, Inbox[i])
             /\ t.err \/ (Inbox[i].status = "resolved" => NotBefore(Inbox[i].at, t.d.ended[Inbox[i].alert]))
<1> DEFINE e      == Inbox[i]
           from   == <<"delivery", i>>
           n      == IncidentOf(s, e.alert)
           inc    == s.m.incidents[n]
           ended  == PutResolved(s, e.alert, e.at)
           new    == OpenIncident(s, e.alert, from)
           number == NextNumber(s)
           t      == IngestLocked(s, e, from)
<1>1. /\ e.alert \in Alerts /\ e.at \in Nat /\ e.status \in {"firing", "resolved", "none"}
      /\ from \in Sources /\ from[1] = "delivery" /\ from[2] = i
  BY OnCallAssumption DEF OnCallAssumption, Sources
<1>2. CASE e.status = "resolved"
  <2>1. t = IF ~IsOpen(s, n) THEN DropAlerts(ended, n)
            ELSE IF e.alert \notin AutoResolve THEN Touch(Record(ended), n)
            ELSE Resolve(ended, n)
    BY <1>2 DEF IngestLocked, Stale
  <2>. HIDE DEF t
  <2>2. /\ Idle(ended, {}, q) /\ Later(s, ended) /\ ended.m = s.m
        /\ ~ended.err => NotBefore(e.at, ended.d.ended[e.alert])
    BY <1>1, PutResolvedIs
  <2>. HIDE DEF ended, e
  <2>3. Idle(t, {}, q) /\ Later(ended, t) /\ (~t.err => ~ended.err) /\ t.d.ended = ended.d.ended
    <3>1. CASE ~IsOpen(s, n)
      <4>1. Good(ended, q) /\ AlertsBut(ended, {}) /\ ~IsOpen(ended, n)
        BY <2>2, <3>1 DEF Idle, IsOpen, Known
      <4>2. /\ Good(t, q) /\ Follows(ended, t) /\ Later(ended, t) /\ t.m = ended.m
            /\ SameDb(t.d, ended.d) /\ t.d.ended = ended.d.ended /\ AlertsBut(t, {})
        BY <2>1, <3>1, <4>1, DropAlertsIs
      <4>3. Idle(t, {}, q) BY <2>2, <4>2, IdleOn
      <4> QED BY <4>2, <4>3 DEF Follows
    <3>2. CASE IsOpen(s, n) /\ e.alert \notin AutoResolve
      <4> DEFINE r == Record(ended)
      <4>1. n \in DOMAIN ended.m.incidents BY <2>2, <3>2 DEF IsOpen, Known
      <4>2. Work(ended, n, {}, q) BY <2>2, <4>1, IdleWork
      <4>3. Work(r, n, {}, q) /\ Follows(ended, r) /\ r.d = ended.d BY <4>2, RecordWork
      <4>. HIDE DEF r
      <4>4. Idle(Touch(r, n), {}, q) /\ Follows(r, Touch(r, n)) /\ Touch(r, n).d.ended = r.d.ended
        BY <4>3, TouchIdle
      <4>5. t = Touch(r, n) BY <2>1, <3>2 DEF r
      <4> QED BY <4>3, <4>4, <4>5 DEF Follows, Later
    <3>3. CASE IsOpen(s, n) /\ e.alert \in AutoResolve
      <4>1. n \in DOMAIN ended.m.incidents BY <2>2, <3>3 DEF IsOpen, Known
      <4>2. t = Resolve(ended, n) BY <2>1, <3>3
      <4>3. Idle(t, {}, q) /\ Follows(ended, t) /\ t.d.ended = ended.d.ended
        BY <2>2, <4>1, <4>2, ResolveIdle
      <4> QED BY <4>3 DEF Follows, Later
    <3> QED BY <3>1, <3>2, <3>3
  <2>4. (~t.hit => ~s.hit) /\ t.fault = s.fault /\ t.opened = s.opened BY <2>2, <2>3 DEF Later
  <2>5. t.err \/ NotBefore(e.at, t.d.ended[e.alert]) BY <2>2, <2>3
  <2> QED BY <2>3, <2>4, <2>5 DEF t, e
<1>3. CASE Stale(s, e)
  <2>1. t = s BY <1>3 DEF IngestLocked, Stale
  <2>2. e.status # "resolved" BY <1>3 DEF Stale
  <2> QED BY <2>1, <2>2
<1>4. CASE e.status = "firing" /\ ~Stale(s, e) /\ IsOpen(s, n)
  <2>1. t = Touch(Record(SetIncident(s, n, [inc EXCEPT !.alerts = @ + 1])), n)
    BY <1>4 DEF IngestLocked
  <2>2. n \in DOMAIN s.m.incidents BY <1>4 DEF IsOpen, Known
  <2> DEFINE v == inc.alerts + 1
  <2>3. t = Touch(Record(SetIncident(s, n, [s.m.incidents[n] EXCEPT !.alerts = v])), n) BY <2>1
  <2>. HIDE DEF t, v, n
  <2>4. Idle(t, {}, q) /\ Follows(s, t) BY <2>2, <2>3, CountedIdle
  <2> QED BY <1>4, <2>4 DEF Follows, t
<1>5. CASE e.status \in {"firing", "none"} /\ ~Stale(s, e) /\ ~(e.status = "firing" /\ IsOpen(s, n))
  <2>1. t = IF e.status = "firing" THEN PutAlert(new, e.alert, number) ELSE new
    BY <1>5 DEF IngestLocked
  <2>2. /\ Idle(new, {number}, q)
        /\ new.opened = Append(s.opened, from) /\ new.fault = s.fault /\ (~new.hit => ~s.hit)
        /\ new.d.alerts = s.d.alerts
        /\ number \in DOMAIN new.m.incidents
        /\ new.m.incidents[number].birth = Len(s.opened) + 1
        /\ \A j \in DOMAIN new.m.incidents : j # number =>
             j \in DOMAIN s.m.incidents /\ new.m.incidents[j].status = s.m.incidents[j].status
    <3>1. from \in Sources /\ e.alert = Inbox[from[2]].alert BY <1>1
    <3>. HIDE DEF from, e, t
    <3>2. MayOpen(s, q, e.alert, from) BY <3>1 DEF MayOpen
    <3>3. Opens(s, q, number, from, new) BY <3>2, OpenIncidentIdle
    <3>. HIDE DEF number, new
    <3> QED BY <3>3 DEF Opens
  <2>3. s.opened \in Seq(Sources) BY DEF Idle, Good, Place
  <2>4. new.opened[new.m.incidents[number].birth] = from
    <3>1. from \in Sources BY <1>1
    <3>. HIDE DEF from, new, number
    <3> QED BY <2>2, <2>3, <3>1
  <2>. HIDE DEF new, number, t
  <2>5. CASE e.status = "firing"
    <3>1. t = PutAlert(new, e.alert, number) BY <2>1, <2>5
    <3>2. new.m.incidents[number].alert = e.alert
      <4>1. Fits(new.m.incidents[number], new.opened) BY <2>2 DEF Idle, Good, MemFits, Table
      <4> QED BY <1>1, <2>4, <4>1 DEF Fits
    <3>3. \A j \in DOMAIN new.m.incidents :
            j # number /\ new.d.alerts[e.alert] = j => new.m.incidents[j].status = "resolved"
      BY <1>5, <2>2, <2>5 DEF IsOpen, Known, IncidentOf
    <3>4. Idle(t, {}, q) /\ Later(new, t)
      <4>. HIDE DEF e
      <4> QED BY <1>1, <2>2, <3>1, <3>2, <3>3, PutAlertIdle
    <3> QED BY <1>5, <2>2, <2>5, <3>4 DEF Later, t
  <2>6. CASE e.status = "none"
    <3>1. t = new BY <2>1, <2>6
    <3>2. ~FromFiring(from) BY <1>1, <2>6 DEF FromFiring
    <3>3. Idle(t, {}, q) BY <2>2, <2>4, <3>1, <3>2, NoFiringIdle
    <3> QED BY <1>5, <2>2, <2>6, <3>1, <3>3 DEF t
  <2> QED BY <1>5, <2>5, <2>6
<1> QED BY <1>1, <1>2, <1>3, <1>4, <1>5

\* What a delivery does, the first time and when it comes again.
LEMMA HandleDeliveryDone ==
  ASSUME RestartLosesNothing, NEW s, NEW q, Idle(s, {}, q), ~s.err, NEW i \in DOMAIN Inbox,
         \A p \in q : p.birth <= Len(s.opened)
  PROVE  LET t == HandleDelivery(s, i)
         IN  /\ Done(t, q) /\ (~t.hit => ~s.hit) /\ t.fault = s.fault
             /\ \/ t.opened = s.opened
                \/ /\ t.opened = Append(s.opened, <<"delivery", i>>)
                   /\ ~Stale(s, Inbox[i]) /\ i \notin s.d.seen
             /\ t.err \/ i \in t.d.seen
<1> DEFINE r == IngestLocked(s, Inbox[i], <<"delivery", i>>)
           t == HandleDelivery(s, i)
<1>1. CASE HasDelivery(s, i)
  <2>1. t = s BY <1>1 DEF HandleDelivery
  <2> QED BY <1>1, <2>1, IdleDone DEF HasDelivery
<1>2. CASE ~HasDelivery(s, i)
  <2>1. t = MarkDelivery(r, i) BY <1>2 DEF HandleDelivery
  <2>2. /\ Idle(r, {}, q) /\ (~r.hit => ~s.hit) /\ r.fault = s.fault
        /\ \/ r.opened = s.opened
           \/ r.opened = Append(s.opened, <<"delivery", i>>) /\ ~Stale(s, Inbox[i])
        /\ r.err \/ (Inbox[i].status = "resolved" => NotBefore(Inbox[i].at, r.d.ended[Inbox[i].alert]))
    BY IngestLockedIdle
  <2>. HIDE DEF r, t
  <2>3. Idle(t, {}, q) /\ Later(r, t) /\ (~t.err => i \in t.d.seen)
    BY <2>1, <2>2, MarkDeliveryIs
  <2>4. Done(t, q) BY <2>3, IdleDone
  <2> QED BY <1>2, <2>2, <2>3, <2>4 DEF Later, HasDelivery, t
<1> QED BY <1>1, <1>2

-----------------------------------------------------------------------------
(* What people ask for.                                                    *)

\* Nobody has been told that the incident is handled, or somebody gives it on.
Free(s, n, q) == fails = 0 => [incident |-> n, birth |-> s.m.incidents[n].birth] \notin q

\* An incident that is taken up again is triggered, and as it was otherwise.
LEMMA ReopenIs ==
  ASSUME NEW inc, NEW o, Fits(inc, o), inc.status # "resolved"
  PROVE  /\ Fits(Reopen(inc), o) /\ SameKind(Reopen(inc), inc) /\ Reopen(inc).status = "triggered"
         /\ Reopen(inc).policy = inc.policy /\ Reopen(inc).level = inc.level
<1> DEFINE new == Reopen(inc)
<1>1. inc = [f \in IncidentFields |-> inc[f]] BY DEF Fits
<1>2. CASE inc.status = "acknowledged"
  <2>1. new = [inc EXCEPT !.status = "triggered", !.acked = {}] BY <1>2 DEF Reopen
  <2>. HIDE DEF new
  <2>2. /\ new = [f \in IncidentFields |-> new[f]] /\ new.status = "triggered" /\ new.acked = {}
        /\ new.policy = inc.policy /\ new.level = inc.level /\ new.loops = inc.loops
        /\ new.due = inc.due /\ new.changed = inc.changed
        /\ new.birth = inc.birth /\ new.alert = inc.alert
    BY <1>1, <2>1 DEF IncidentFields
  <2>3. Fits(new, o) /\ SameKind(new, inc) BY <2>2 DEF Fits, Levels, SameKind
  <2> QED BY <2>2, <2>3 DEF new
<1>3. CASE inc.status # "acknowledged"
  <2>1. new = inc BY <1>3 DEF Reopen
  <2>2. inc.status = "triggered" BY <1>3 DEF Fits
  <2> QED BY <2>1, <2>2 DEF SameKind
<1> QED BY <1>2, <1>3

\* Somebody else is given the incident: a person, or a policy from its first level.
LEMMA ReassignWork ==
  ASSUME NEW s, NEW n, NEW x, NEW q, Work(s, n, x, q), NEW p,
         s.err \/ (s.m.incidents[n].status # "resolved" /\ Free(s, n, q))
  PROVE  Work(Reassign(s, n, p), n, x, q) /\ Follows(s, Reassign(s, n, p))
<1> DEFINE old == s.m.incidents[n]
           inc == Reopen(old)
           t   == Reassign(s, n, p)
<1>1. Good(s, q) /\ Fits(old, s.opened) /\ Loud(n, old, q) /\ n \in DOMAIN s.m.incidents
  BY DEF Work, Good, MemFits, Table
<1>2. s.err \/ (/\ Fits(inc, s.opened) /\ SameKind(inc, old) /\ inc.status = "triggered"
                /\ inc.policy = old.policy /\ inc.level = old.level)
  BY <1>1, ReopenIs
<1>3. CASE p.to \notin DOMAIN Policies
  <2> DEFINE due == IF inc.level \in DOMAIN Levels(inc) THEN EscalatesAt(inc) ELSE Never
             new == [inc EXCEPT !.assigned = {p.to}, !.due = due]
             s1  == SetIncident(s, n, new)
             s2  == Record(s1)
  <2>1. t = Page(s2, n, p.to) BY <1>3 DEF Reassign
  <2>. HIDE DEF due, inc, t
  <2>2. s.err \/ (/\ Fits(new, s.opened) /\ Loud(n, new, q) /\ SameKind(new, old)
                  /\ new.status = "triggered")
    <3> SUFFICES ASSUME ~s.err PROVE /\ Fits(new, s.opened) /\ Loud(n, new, q) /\ SameKind(new, old)
                                     /\ new.status = "triggered"
      OBVIOUS
    <3>1. inc = [f \in IncidentFields |-> inc[f]] BY <1>2 DEF Fits
    <3>2. /\ new = [f \in IncidentFields |-> new[f]]
          /\ new.status = inc.status /\ new.policy = inc.policy /\ new.level = inc.level
          /\ new.loops = inc.loops /\ new.changed = inc.changed /\ new.acked = inc.acked
          /\ new.birth = inc.birth /\ new.alert = inc.alert
      BY <3>1 DEF IncidentFields
    <3>. HIDE DEF new, old
    <3>3. inc.level \in 0..Len(Levels(inc)) /\ inc.loops \in Nat /\ inc.changed \in Nat
      BY <1>2 DEF Fits
    <3>4. Fits(new, s.opened) /\ SameKind(new, inc) BY <1>2, <3>2, <3>3, Changed
    <3>5. SameKind(new, old) BY <1>2, <3>4 DEF SameKind
    <3>6. Loud(n, new, q) BY <1>2, <3>4 DEF Loud, Free, SameKind, old
    <3> QED BY <1>2, <3>2, <3>4, <3>5, <3>6
  <2>. HIDE DEF new
  <2>3. /\ Work(s1, n, x, q) /\ Follows(s, s1) /\ s1.err = s.err
        /\ ~s.err => s1.m.incidents[n] = new
    BY <2>2, SetIncidentWork
  <2>. HIDE DEF s1
  <2>4. Work(s2, n, x, q) /\ Follows(s1, s2) /\ s2.m = s1.m BY <2>3, RecordWork
  <2>. HIDE DEF s2
  <2>5. s2.err \/ s2.m.incidents[n].status = "triggered" BY <2>2, <2>3, <2>4 DEF Follows
  <2>6. Work(t, n, x, q) /\ Follows(s2, t) BY <2>1, <2>4, <2>5, PageWork
  <2> QED BY <2>3, <2>4, <2>6 DEF Follows, t
<1>4. CASE p.to \in DOMAIN Policies /\ s.err
  <2> DEFINE mid == [inc EXCEPT !.policy = p.to, !.loops = Policies[p.to].repeat]
  <2>1. t = Assign(SetIncident(s, n, mid), n, 1) BY <1>4 DEF Reassign
  <2>2. SetIncident(s, n, mid) = s BY <1>4 DEF SetIncident, Set
  <2>3. 1 \in 1..Len(Levels(s.m.incidents[n]))
    <3>1. s.m.incidents[n].policy \in DOMAIN Policies BY <1>1 DEF Fits
    <3> QED BY <3>1, PolicyIs DEF Levels
  <2>4. Work(Assign(s, n, 1), n, x, q) /\ Follows(s, Assign(s, n, 1)) BY <1>4, <2>3, AssignWork
  <2> QED BY <2>1, <2>2, <2>4
<1>5. CASE p.to \in DOMAIN Policies /\ ~s.err
  <2> DEFINE mid == [inc EXCEPT !.policy = p.to, !.loops = Policies[p.to].repeat]
             r   == SetIncident(s, n, mid)
             top == [mid EXCEPT !.level = 1]
             users == LevelUsers(Levels(top)[1])
             new == [top EXCEPT !.due = EscalatesAt(top), !.assigned = ToSet(users)]
             s1  == SetIncident(s, n, new)
  <2>1. t = Assign(r, n, 1) BY <1>5 DEF Reassign
  <2>2. r.err = s.err /\ r.m.incidents[n] = mid /\ SetIncident(r, n, new) = s1
    <3>. HIDE DEF mid, new
    <3>1. s = [f \in ChainFields |-> s[f]] /\ s.m = [f \in MemFields |-> s.m[f]]
      BY <1>1 DEF Good, Place, MemFits
    <3>2. r = [s EXCEPT !.m = [s.m EXCEPT !.incidents = With(s.m.incidents, n, mid)]]
      BY <1>5 DEF SetIncident, Set
    <3>3. s1 = [s EXCEPT !.m = [s.m EXCEPT !.incidents = With(s.m.incidents, n, new)]]
      BY <1>5 DEF SetIncident, Set
    <3> DEFINE a == With(s.m.incidents, n, mid)
               b == With(s.m.incidents, n, new)
               m == s.m
    <3>4. a[n] = mid /\ With(a, n, new) = b BY WithTwice DEF With
    <3>5. /\ m = [f \in MemFields |-> m[f]] /\ r = [s EXCEPT !.m = [m EXCEPT !.incidents = a]]
          /\ s1 = [s EXCEPT !.m = [m EXCEPT !.incidents = b]]
      BY <3>1, <3>2, <3>3
    <3>. HIDE DEF r, s1, a, b, m
    <3>6. r.err = s.err /\ r.m = [m EXCEPT !.incidents = a] /\ r.m.incidents = a
      BY <3>1, <3>5 DEF ChainFields, MemFields
    <3>7. SetIncident(r, n, new) = [r EXCEPT !.m = [r.m EXCEPT !.incidents = b]]
      BY <1>5, <3>4, <3>6 DEF SetIncident, Set
    <3>8. [r EXCEPT !.m = [r.m EXCEPT !.incidents = b]] = s1
      BY <3>1, <3>5, <3>6 DEF ChainFields, MemFields
    <3> QED BY <3>4, <3>6, <3>7, <3>8
  <2>3. t = IF users = <<>> THEN Record(s1) ELSE PageAll(s1, n, users)
    <3> DEFINE mem1 == [r.m.incidents[n] EXCEPT !.level = 1]
    <3>1. mem1 = top BY <2>2
    <3>2. Assign(r, n, 1) = IF LevelUsers(Levels(mem1)[1]) = <<>>
                            THEN Record(SetIncident(r, n, [mem1 EXCEPT !.due = EscalatesAt(mem1),
                                   !.assigned = ToSet(LevelUsers(Levels(mem1)[1]))]))
                            ELSE PageAll(SetIncident(r, n, [mem1 EXCEPT !.due = EscalatesAt(mem1),
                                   !.assigned = ToSet(LevelUsers(Levels(mem1)[1]))]),
                                         n, LevelUsers(Levels(mem1)[1]))
      BY DEF Assign
    <3> QED BY <2>1, <2>2, <3>1, <3>2
  <2>4. inc = [f \in IncidentFields |-> inc[f]] BY <1>2, <1>5 DEF Fits
  <2> DEFINE repeat == Policies[p.to].repeat
             due == EscalatesAt(top)
             who == ToSet(users)
  <2>5. new = [[[inc EXCEPT !.policy = p.to, !.loops = repeat] EXCEPT !.level = 1]
                 EXCEPT !.due = due, !.assigned = who]
    OBVIOUS
  <2>6. top.policy = p.to
    <3>. HIDE DEF inc
    <3> QED BY <2>4 DEF IncidentFields
  <2>7. Len(users) \in Nat /\ 1 <= Len(Policies[p.to].levels) /\ repeat \in Nat
    <3>1. Levels(top) = Policies[p.to].levels BY <2>6 DEF Levels
    <3>. HIDE DEF top
    <3>2. 1 \in 1..Len(Policies[p.to].levels) BY <1>5, PolicyIs
    <3> QED BY <1>5, <3>1, <3>2, PolicyIs
  <2>. HIDE DEF inc, due, who, users, repeat, t
  <2>8. /\ new = [f \in IncidentFields |-> new[f]]
        /\ new.status = inc.status /\ new.policy = p.to /\ new.level = 1
        /\ new.loops = repeat /\ new.changed = inc.changed /\ new.acked = inc.acked
        /\ new.birth = inc.birth /\ new.alert = inc.alert
    <3>. HIDE DEF new
    <3> QED BY <2>4, <2>5 DEF IncidentFields
  <2>. HIDE DEF new, top, mid
  <2>9. Fits(new, s.opened) /\ SameKind(new, old) /\ Loud(n, new, q)
    <3>1. /\ Fits(inc, s.opened) /\ SameKind(inc, old) /\ inc.status = "triggered"
      BY <1>2, <1>5
    <3>2. new.level \in 0..Len(Levels(new)) BY <1>5, <2>7, <2>8, PolicyIs DEF Levels
    <3>3. Fits(new, s.opened) BY <1>5, <2>7, <2>8, <3>1, <3>2 DEF Fits
    <3>4. SameKind(new, old) BY <2>8, <3>1 DEF SameKind
    <3>5. Loud(n, new, q) BY <1>5, <3>4 DEF Loud, Free, SameKind
    <3> QED BY <3>3, <3>4, <3>5
  <2>. HIDE DEF old
  <2>10. /\ Work(s1, n, x, q) /\ Follows(s, s1) /\ s1.m.incidents[n].status = "triggered"
    BY <1>2, <1>5, <2>8, <2>9, SetIncidentWork DEF old
  <2>. HIDE DEF s1
  <2>11. CASE users = <<>>
    <3>1. Work(Record(s1), n, x, q) /\ Follows(s1, Record(s1)) BY <2>10, RecordWork
    <3> QED BY <2>3, <2>10, <2>11, <3>1, FollowsOn DEF t
  <2>12. CASE users # <<>>
    <3>1. Work(PageAll(s1, n, users), n, x, q) /\ Follows(s1, PageAll(s1, n, users))
      BY <2>7, <2>10, PageAllWork
    <3> QED BY <2>3, <2>10, <2>12, <3>1, FollowsOn DEF t
  <2> QED BY <2>11, <2>12
<1> QED BY <1>3, <1>4, <1>5

\* An acknowledged incident has no time any more, in memory and in the database.
LEMMA AcknowledgeIdle ==
  ASSUME RestartLosesNothing, NEW s, NEW q, Idle(s, {}, q), NEW n \in DOMAIN s.m.incidents, NEW p,
         s.m.incidents[n].status # "resolved"
  PROVE  LET t == Acknowledge(s, n, p)
         IN  /\ Idle(t, {}, q) /\ Follows(s, t) /\ t.pages = s.pages
             /\ n \in DOMAIN t.m.incidents
             /\ ~t.hit => t.m.incidents[n].status # "triggered"
<1> DEFINE old == s.m.incidents[n]
           inc == [old EXCEPT !.status = "acknowledged", !.acked = @ \cup {p.by}, !.due = Never]
           s1 == SetIncident(s, n, inc)
           s2 == Record(s1)
           t  == Acknowledge(s, n, p)
<1>1. Work(s, n, {}, q) BY IdleWork
<1>2. Fits(old, s.opened) /\ Loud(n, old, q) BY <1>1 DEF Work, Good, MemFits, Table
<1>3. CASE p.by \in old.acked
  <2>1. t = s BY <1>3 DEF Acknowledge
  <2>2. old.status # "triggered" BY <1>2, <1>3 DEF Fits
  <2> QED BY <2>1, <2>2 DEF Follows
<1>4. CASE p.by \notin old.acked
  <2>1. t = Touch(s2, n) BY <1>4 DEF Acknowledge
  <2>2. old = [f \in IncidentFields |-> old[f]] BY <1>2 DEF Fits
  <2>3. old.status # "resolved" OBVIOUS
  <2>. HIDE DEF old
  <2>4. /\ inc = [f \in IncidentFields |-> inc[f]] /\ inc.status = "acknowledged" /\ inc.due = Never
        /\ inc.policy = old.policy /\ inc.level = old.level /\ inc.loops = old.loops
        /\ inc.changed = old.changed /\ inc.birth = old.birth /\ inc.alert = old.alert
    BY <2>2 DEF IncidentFields
  <2>. HIDE DEF inc
  <2>5. Fits(inc, s.opened) /\ Loud(n, inc, q) /\ SameKind(inc, old)
    BY <1>2, <2>3, <2>4 DEF Fits, Levels, Loud, SameKind
  <2>6. /\ Work(s1, n, {}, q) /\ Follows(s, s1) /\ s1.pages = s.pages
        /\ s1.err = s.err /\ (~s.err => s1.m.incidents[n] = inc)
    BY <1>1, <2>5, SetIncidentWork DEF old
  <2>. HIDE DEF s1
  <2>7. /\ Work(s2, n, {}, q) /\ Follows(s1, s2) /\ s2.m = s1.m /\ s2.pages = s1.pages
    BY <2>6, RecordWork
  <2>. HIDE DEF s2
  <2>8. /\ Idle(Touch(s2, n), {}, q) /\ Follows(s2, Touch(s2, n)) /\ Stay(s2, Touch(s2, n))
        /\ Touch(s2, n).pages = s2.pages
    BY <2>7, TouchIdle
  <2>. HIDE DEF t
  <2>9. Follows(s, t) /\ t.pages = s.pages /\ Idle(t, {}, q)
    BY <2>1, <2>6, <2>7, <2>8 DEF Follows
  <2>10. n \in DOMAIN s2.m.incidents BY <2>7 DEF Work
  <2>11. n \in DOMAIN t.m.incidents BY <2>1, <2>8, <2>10 DEF Stay
  <2>12. ~t.hit => t.m.incidents[n].status # "triggered"
    <3> SUFFICES ASSUME ~t.hit PROVE t.m.incidents[n].status # "triggered" OBVIOUS
    <3>1. ~s.err BY <1>1, <2>9 DEF Follows, Work, Good, Place
    <3>2. s2.m.incidents[n].status = "acknowledged" BY <2>4, <2>6, <2>7, <3>1
    <3> QED BY <2>1, <2>8, <2>10, <3>2 DEF Stay
  <2> QED BY <2>9, <2>11, <2>12 DEF t
<1> QED BY <1>3, <1>4

\* Somebody sends an open incident to a higher level.
LEMMA EscalateIdle ==
  ASSUME RestartLosesNothing, NEW s, NEW q, Idle(s, {}, q), NEW n \in DOMAIN s.m.incidents,
         s.m.incidents[n].status # "resolved", Free(s, n, q),
         NEW level \in 1..Len(Levels(s.m.incidents[n]))
  PROVE  LET t == Touch(Assign(SetIncident(s, n, Reopen(s.m.incidents[n])), n, level), n)
         IN  Idle(t, {}, q) /\ Follows(s, t)
<1> DEFINE old == s.m.incidents[n]
           inc == Reopen(old)
           s1 == SetIncident(s, n, inc)
           s2 == Assign(s1, n, level)
           t  == Touch(s2, n)
<1>1. Work(s, n, {}, q) BY IdleWork
<1>2. Fits(old, s.opened) BY <1>1 DEF Work, Good, MemFits, Table
<1>3. /\ Fits(inc, s.opened) /\ SameKind(inc, old) /\ inc.status = "triggered"
      /\ inc.policy = old.policy
  BY <1>2, ReopenIs
<1>4. Loud(n, inc, q) BY <1>3 DEF Loud, Free, SameKind
<1>5. Levels(inc) = Levels(old) BY <1>3 DEF Levels
<1>6. Levels(s.m.incidents[n]) = Levels(inc) BY <1>5
<1>. HIDE DEF inc, old
<1>7. /\ Work(s1, n, {}, q) /\ Follows(s, s1) /\ s1.err = s.err /\ (s.err => s1.m = s.m)
      /\ ~s.err => s1.m.incidents[n] = inc
  BY <1>1, <1>3, <1>4, SetIncidentWork DEF old
<1>. HIDE DEF s1
<1>8. level \in 1..Len(Levels(s1.m.incidents[n])) /\ (s1.err \/ s1.m.incidents[n].status = "triggered")
  <2>1. CASE s.err BY <1>7, <2>1
  <2>2. CASE ~s.err BY <1>3, <1>6, <1>7, <2>2
  <2> QED BY <2>1, <2>2
<1>9. Work(s2, n, {}, q) /\ Follows(s1, s2) BY <1>7, <1>8, AssignWork
<1>. HIDE DEF s2
<1>10. Idle(t, {}, q) /\ Follows(s2, t) BY <1>9, TouchIdle
<1>. HIDE DEF t
<1>11. Follows(s, t) BY <1>7, <1>9, <1>10 DEF Follows
<1> QED BY <1>10, <1>11 DEF t, s2, s1, inc, old

\* A request is answered from where it may be accepted.
Asked(s, k, q) ==
  /\ Idle(s, {}, q) /\ ~s.err /\ s.pages = {} /\ k \in DOMAIN Posts /\ Accepts(s, Posts[k])
  /\ \A p \in q : p.birth <= Len(s.opened)
  /\ Posts[k].what \in {"reassign", "escalate"} => Free(s, Posts[k].on, q)

\* What a request does keeps memory and database together; one that is
\* told that an incident is handled has paged nobody, and the incident is handled.
LEMMA ActDone ==
  ASSUME RestartLosesNothing, NEW s, NEW q, NEW k, Asked(s, k, q)
  PROVE  LET t == Act(s, k)
         IN  /\ Done(t, q) /\ (~t.hit => ~s.hit) /\ t.fault = s.fault
             /\ t.opened = s.opened \/ t.opened = Append(s.opened, <<"request", k>>)
             /\ Posts[k].what \in {"acknowledge", "resolve"} =>
                  /\ t.pages = {} /\ Posts[k].on \in DOMAIN t.m.incidents
                  /\ ~t.hit => t.m.incidents[Posts[k].on].status # "triggered"
<1> DEFINE p   == Posts[k]
           n   == p.on
           from == <<"request", k>>
           new == OpenIncident(s, "manual", from)
           m   == NextNumber(s)
           t   == Act(s, k)
<1>1. /\ Idle(s, {}, q) /\ ~s.err /\ s.pages = {} /\ k \in DOMAIN Posts /\ Accepts(s, p)
      /\ p.what \in {"reassign", "escalate"} => Free(s, n, q)
      /\ p.what \in {"create", "hand", "override", "acknowledge", "resolve", "reassign", "escalate", "note"}
  BY OnCallAssumption DEF Asked, OnCallAssumption
<1>2. from \in Sources /\ from[1] # "delivery" BY <1>1 DEF Sources
<1>3. p.what \in {"create", "hand"} =>
        /\ Idle(new, {}, q) /\ new.opened = Append(s.opened, from) /\ new.fault = s.fault
        /\ (~new.hit => ~s.hit)
        /\ m \in DOMAIN new.m.incidents /\ new.m.incidents[m].status = "triggered"
  <2>. HIDE DEF from
  <2>1. MayOpen(s, q, "manual", from) BY <1>1, <1>2 DEF MayOpen, Asked
  <2>2. Opens(s, q, m, from, new) BY <2>1, OpenIncidentIdle
  <2>. HIDE DEF new, m
  <2>3. s.opened \in Seq(Sources) BY <1>1 DEF Idle, Good, Place
  <2>4. new.opened = Append(s.opened, from) /\ new.m.incidents[m].birth = Len(s.opened) + 1
    BY <2>2 DEF Opens
  <2>5. new.opened[new.m.incidents[m].birth] = from BY <1>2, <2>3, <2>4
  <2>6. ~FromFiring(new.opened[new.m.incidents[m].birth]) BY <1>2, <2>5 DEF FromFiring
  <2>7. Idle(new, {m}, q) BY <2>2 DEF Opens
  <2>8. Idle(new, {}, q) BY <2>6, <2>7, NoFiringIdle
  <2> QED BY <2>2, <2>8 DEF Opens
<1>4. CASE p.what = "create"
  <2>1. t = new BY <1>4 DEF Act
  <2>. HIDE DEF new, t
  <2>2. Done(t, q) BY <1>3, <1>4, <2>1, IdleDone
  <2> QED BY <1>3, <1>4, <2>1, <2>2 DEF t
<1>5. CASE p.what = "hand"
  <2> DEFINE r == Reassign(new, m, p)
  <2>1. t = Touch(r, m) BY <1>5 DEF Act
  <2>. HIDE DEF new, m, t
  <2>2. Work(new, m, {}, q) BY <1>3, <1>5, IdleWork
  <2>3. Free(new, m, q)
    <3>1. Loud(m, new.m.incidents[m], q) BY <2>2 DEF Work, Good, MemFits, Table
    <3> QED BY <1>3, <1>5, <3>1 DEF Loud, Free
  <2>4. new.m.incidents[m].status # "resolved" BY <1>3, <1>5
  <2>. HIDE DEF p
  <2>5. Work(r, m, {}, q) /\ Follows(new, r) BY <2>2, <2>3, <2>4, ReassignWork
  <2>. HIDE DEF r
  <2>6. Idle(t, {}, q) /\ Follows(r, t) BY <2>1, <2>5, TouchIdle
  <2>7. Done(t, q) BY <2>6, IdleDone
  <2>8. (~t.hit => ~s.hit) /\ t.fault = s.fault /\ t.opened = Append(s.opened, from)
    BY <1>3, <1>5, <2>5, <2>6 DEF Follows
  <2> QED BY <1>5, <2>7, <2>8 DEF t, p
<1>6. CASE p.what = "override"
  <2>1. t = CreateOverride(s, p) BY <1>6 DEF Act
  <2>. HIDE DEF p, t
  <2>2. Done(t, q) /\ Later(s, t) BY <1>1, <2>1, CreateOverrideDone
  <2> QED BY <1>6, <2>2 DEF Later, t, p
<1>7. CASE p.what = "acknowledge"
  <2>1. t = Acknowledge(s, n, p) BY <1>7 DEF Act
  <2>2. n \in DOMAIN s.m.incidents /\ s.m.incidents[n].status # "resolved"
    BY <1>1, <1>7 DEF Accepts, IsOpen, Known
  <2>. HIDE DEF n, p, t
  <2>3. /\ Idle(t, {}, q) /\ Follows(s, t) /\ t.pages = s.pages
        /\ n \in DOMAIN t.m.incidents
        /\ ~t.hit => t.m.incidents[n].status # "triggered"
    BY <1>1, <2>1, <2>2, AcknowledgeIdle
  <2>4. Done(t, q) BY <2>3, IdleDone
  <2> QED BY <1>1, <2>3, <2>4 DEF Follows, t, n, p
<1>8. CASE p.what = "resolve"
  <2>1. t = IF IsOpen(s, n) THEN Resolve(s, n) ELSE s BY <1>8 DEF Act
  <2>2. n \in DOMAIN s.m.incidents BY <1>1, <1>8 DEF Accepts, Known
  <2>. HIDE DEF n, p, t
  <2>3. CASE IsOpen(s, n)
    <3>1. /\ Idle(t, {}, q) /\ Follows(s, t) /\ t.pages = s.pages
          /\ n \in DOMAIN t.m.incidents
          /\ ~t.hit => t.m.incidents[n].status # "triggered"
      BY <1>1, <2>1, <2>2, <2>3, ResolveIdle
    <3>2. Done(t, q) BY <3>1, IdleDone
    <3> QED BY <1>1, <3>1, <3>2 DEF Follows, t, n, p
  <2>4. CASE ~IsOpen(s, n)
    <3>1. t = s /\ s.m.incidents[n].status = "resolved" BY <2>1, <2>2, <2>4 DEF IsOpen, Known
    <3>2. Done(t, q) BY <1>1, <3>1, IdleDone
    <3> QED BY <1>1, <2>2, <3>1, <3>2 DEF t, n, p
  <2> QED BY <2>3, <2>4
<1>9. CASE p.what = "reassign"
  <2> DEFINE r == Reassign(s, n, p)
  <2>1. t = Touch(r, n) BY <1>9 DEF Act
  <2>2. /\ n \in DOMAIN s.m.incidents /\ s.m.incidents[n].status # "resolved" /\ Free(s, n, q)
    BY <1>1, <1>9 DEF Accepts, IsOpen, Known
  <2>. HIDE DEF n, p, t
  <2>3. Work(s, n, {}, q) BY <1>1, <2>2, IdleWork
  <2>4. Work(r, n, {}, q) /\ Follows(s, r) BY <2>2, <2>3, ReassignWork
  <2>. HIDE DEF r
  <2>5. Idle(t, {}, q) /\ Follows(r, t) BY <2>1, <2>4, TouchIdle
  <2>6. Done(t, q) BY <2>5, IdleDone
  <2> QED BY <1>9, <2>4, <2>5, <2>6 DEF Follows, t, p
<1>10. CASE p.what = "escalate"
  <2>1. t = Touch(Assign(SetIncident(s, n, Reopen(s.m.incidents[n])), n, p.level), n) BY <1>10 DEF Act
  <2>2. /\ n \in DOMAIN s.m.incidents /\ s.m.incidents[n].status # "resolved" /\ Free(s, n, q)
        /\ p.level \in DOMAIN Levels(s.m.incidents[n])
    BY <1>1, <1>10 DEF Accepts, IsOpen, Known
  <2> DEFINE level == p.level
  <2>3. level \in 1..Len(Levels(s.m.incidents[n]))
    <3>1. Fits(s.m.incidents[n], s.opened) BY <1>1, <2>2 DEF Idle, Good, MemFits, Table
    <3>2. s.m.incidents[n].policy \in DOMAIN Policies BY <3>1 DEF Fits
    <3> QED BY <2>2, <3>2, PolicyIs DEF Levels
  <2>. HIDE DEF n, t, level
  <2>4. Idle(t, {}, q) /\ Follows(s, t) BY <1>1, <2>1, <2>2, <2>3, EscalateIdle DEF level
  <2>5. Done(t, q) BY <2>4, IdleDone
  <2> QED BY <1>10, <2>4, <2>5 DEF Follows, t
<1>11. CASE p.what = "note"
  <2>1. t = Touch(Record(SetIncident(s, n, [s.m.incidents[n] EXCEPT !.notes = @ + 1])), n)
    BY <1>11 DEF Act, Note
  <2>2. n \in DOMAIN s.m.incidents BY <1>1, <1>11 DEF Accepts, Known
  <2> DEFINE v == s.m.incidents[n].notes + 1
  <2>3. t = Touch(Record(SetIncident(s, n, [s.m.incidents[n] EXCEPT !.notes = v])), n) BY <2>1
  <2>. HIDE DEF n, t, v
  <2>4. Idle(t, {}, q) /\ Follows(s, t) BY <1>1, <2>2, <2>3, CountedIdle
  <2>5. Done(t, q) BY <2>4, IdleDone
  <2> QED BY <1>11, <2>4, <2>5 DEF Follows, t
<1> QED BY <1>1, <1>4, <1>5, <1>6, <1>7, <1>8, <1>9, <1>10, <1>11

\* The answer is kept, or that it could not be is logged.
LEMMA RememberDone ==
  ASSUME NEW s, NEW q, Done(s, q), NEW k
  PROVE  LET t == Remember(s, k)
         IN  /\ Done(t, q) /\ Later(s, t) /\ t.m = s.m /\ t.pages = s.pages
             /\ t.err \/ ~Died(t)
<1> DEFINE w == Write(s, [s.d EXCEPT !.answered = @ \cup {k}])
           t == Remember(s, k)
<1>1. CASE s.err
  <2>1. t = s BY <1>1 DEF Remember
  <2> QED BY <1>1, <2>1 DEF Later
<1>2. CASE ~s.err
  <2>1. t = Logged(w) BY <1>2 DEF Remember
  <2>2. Done(w, q) /\ Follows(s, w) /\ w.m = s.m /\ w.pages = s.pages BY AnswerDone
  <2>. HIDE DEF w, t
  <2>3. Done(t, q) /\ Later(w, t) BY <2>1, <2>2, LoggedDone
  <2>4. /\ t.m = w.m /\ t.pages = w.pages /\ t.hit = w.hit /\ t.fault = w.fault
        /\ t.err = (w.hit /\ w.fault = "crash")
    BY <2>1, <2>2, LoggedIs DEF Done
  <2>5. t.err \/ ~Died(t)
    <3>1. CASE w.hit /\ w.fault = "crash" BY <2>4, <3>1
    <3>2. CASE ~(w.hit /\ w.fault = "crash") BY <2>4, <3>2 DEF Died
    <3> QED BY <3>1, <3>2
  <2> QED BY <2>2, <2>3, <2>4, <2>5 DEF Later, Follows, t
<1> QED BY <1>1, <1>2

-----------------------------------------------------------------------------
(* The invariant of the states between handlers.                           *)

Found == fails + crashes = 0 =>
           \A n \in DOMAIN mem.incidents : n < mem.next /\ Finds(n, mem.incidents[n], db.alerts, opened)

Inv == /\ clock \in 0..MaxTime /\ fails \in Nat /\ crashes \in Nat /\ fails + crashes <= MaxFaults
       /\ waiting \subseteq DOMAIN Inbox /\ taken \subseteq db.seen
       /\ opened \in Seq(Sources) /\ (\A p \in quiet : p.birth \in Nat /\ p.birth <= Len(opened))
       /\ MemFits(mem, opened, quiet) /\ DbFits(db, opened, quiet) /\ Covered(db)
       /\ RestartLosesNothing /\ QuietOnceHandled /\ Found

\* A new database and an empty memory.
LEMMA InitInv == Init => Inv
<1> SUFFICES ASSUME Init PROVE Inv OBVIOUS
<1>1. /\ clock = 0 /\ fails = 0 /\ crashes = 0 /\ waiting = DOMAIN Inbox
      /\ opened = <<>> /\ taken = {} /\ quiet = {} /\ stray = {}
      /\ db = EmptyDb /\ mem = Load(EmptyDb)
  BY DEF Init
<1>2. {MaxTime, MaxFaults} \subseteq Nat BY OnCallAssumption DEF OnCallAssumption
<1>3. /\ db = [f \in DbFields |-> db[f]] /\ db.incidents = <<>> /\ db.seen = {}
      /\ db.counters = [next |-> 0, seq |-> 0, oncallSeq |-> 0]
      /\ db.alerts = [a \in Alerts |-> None] /\ db.ended = [a \in Alerts |-> Never]
  BY <1>1 DEF EmptyDb, DbFields
<1>4. /\ mem = [f \in MemFields |-> mem[f]] /\ mem.incidents = <<>> /\ mem.next = 0 /\ mem.seq = 0
      /\ mem.oncallSeq = 0
  BY <1>1 DEF Load, EmptyDb, MemFields
<1>5. Table(<<>>, opened, quiet)
  <2>1. DOMAIN <<>> = {} /\ <<>> = [n \in {} |-> <<>>[n]] OBVIOUS
  <2>2. IsFiniteSet({}) BY FS_EmptySet
  <2> QED BY <2>1, <2>2 DEF Table
<1>6. MemFits(mem, opened, quiet) BY <1>4, <1>5 DEF MemFits
<1>7. DbFits(db, opened, quiet)
  <2>1. db.alerts = [a \in Alerts |-> db.alerts[a]] /\ db.ended \in [Alerts -> Nat \cup {Never}] BY <1>3
  <2>2. db.counters \in [next : Nat, seq : Nat, oncallSeq : Nat] BY <1>3
  <2>3. db = [f \in DbFields |-> db[f]] BY <1>3
  <2>4. Table(db.incidents, opened, quiet) BY <1>3, <1>5
  <2> QED BY <2>1, <2>2, <2>3, <2>4 DEF DbFits
<1>8. Covered(db) BY <1>3 DEF Covered
<1>9. opened \in Seq(Sources) BY <1>1
<1>10. RestartLosesNothing /\ QuietOnceHandled BY <1>1 DEF RestartLosesNothing, QuietOnceHandled
<1>11. Found
  <2>1. DOMAIN mem.incidents = {} BY <1>4
  <2> QED BY <2>1 DEF Found
<1>12. clock \in 0..MaxTime /\ fails \in Nat /\ crashes \in Nat /\ fails + crashes <= MaxFaults
  BY <1>1, <1>2
<1>13. /\ waiting \subseteq DOMAIN Inbox /\ taken \subseteq db.seen
       /\ \A p \in quiet : p.birth \in Nat /\ p.birth <= Len(opened)
  BY <1>1
<1> QED BY <1>6, <1>7, <1>8, <1>9, <1>10, <1>11, <1>12, <1>13 DEF Inv

\* A table in which fewer are said to be handled.
LEMMA QuieterTable ==
  ASSUME NEW t, NEW o, NEW q, Table(t, o, q), NEW r, r \subseteq q
  PROVE  Table(t, o, r)
BY DEF Table, Loud

\* Where a chain begins.
Began(s, f, q) ==
  /\ Idle(s, {}, q) /\ s.m = mem /\ s.d = db /\ s.opened = opened /\ s.pages = {}
  /\ s.fault = f /\ ~s.hit /\ ~s.err
  /\ \A p \in q : p.birth <= Len(s.opened)

\* What may be ahead of a handler that begins.
Ahead(f, i) == /\ f \in {"none", "fail", "crash"} /\ i \in Int /\ (f = "none" => i <= 0)
               /\ f # "none" => fails + crashes < MaxFaults

\* A chain begins where memory and database agree.
LEMMA BeginIs ==
  ASSUME Inv, NEW q, q \subseteq quiet, NEW f, NEW i, Ahead(f, i)
  PROVE  Began(Begin(f, i), f, q)
<1> DEFINE s == Begin(f, i)
<1>1. /\ s = [g \in ChainFields |-> s[g]] /\ s.m = mem /\ s.d = db /\ s.opened = opened /\ s.pages = {}
      /\ s.fault = f /\ s.left = i /\ s.hit = FALSE /\ s.err = FALSE
  BY DEF Begin, ChainFields
<1>0. f \in {"none", "fail", "crash"} /\ i \in Int /\ (f = "none" => i <= 0) BY DEF Ahead
<1>. HIDE DEF s
<1>2. /\ opened \in Seq(Sources) /\ MemFits(mem, opened, quiet) /\ DbFits(db, opened, quiet)
      /\ Covered(db) /\ RestartLosesNothing /\ Found /\ \A p \in quiet : p.birth <= Len(opened)
  BY DEF Inv
<1>3. Place(s, q) BY <1>0, <1>1, <1>2 DEF Place
<1>4. MemFits(mem, opened, q) /\ DbFits(db, opened, q) BY <1>2, QuieterTable DEF MemFits, DbFits
<1>5. MemOn(mem) BY <1>2 DEF MemOn, MemFits
<1>6. DbOn(db)
  <2>1. Listed(db)
    <3> SUFFICES ASSUME fails = 0, NEW n \in DOMAIN db.incidents
                 PROVE  n \in DOMAIN mem.incidents /\ db.incidents[n] = mem.incidents[n]
      BY DEF Listed
    <3>1. mem = Load(db) BY <1>2 DEF RestartLosesNothing
    <3>2. mem.incidents = db.incidents BY <3>1 DEF Load
    <3> QED BY <3>2
  <2> QED BY <1>2, <2>1 DEF DbOn
<1>7. Good(s, q) BY <1>1, <1>3, <1>4, <1>5, <1>6 DEF Good
<1>8. InStep(s) BY <1>1, <1>2 DEF InStep, RestartLosesNothing
<1>9. AlertsBut(s, {}) BY <1>1, <1>2 DEF AlertsBut, Found
<1>10. Same(s) BY <1>1, <1>2 DEF Same
<1> QED BY <1>1, <1>2, <1>7, <1>8, <1>9, <1>10 DEF Idle, Began, s

-----------------------------------------------------------------------------
(* The end of a chain is the state after the handler.                      *)

\* Nobody would be paged for p's incident as the table has it.
Hushed(t, p) == p.incident \in DOMAIN t => t[p.incident].status # "triggered"

\* Those of quiet' were quiet before, or have been told for good reason.
Earned(s, q) == fails' = 0 => \A p \in quiet' :
  p \in q \/ (s.pages = {} /\ Hushed(s.m.incidents, p) /\ Hushed(s.d.incidents, p))

\* A table fits after the handler, if those who were told since were told right.
LEMMA TableAfter ==
  ASSUME NEW t, NEW o, NEW q, Table(t, o, q), fails' = 0 => fails = 0,
         NEW r, fails' = 0 => \A p \in r : p \in q \/ Hushed(t, p)
  PROVE  /\ IsFiniteSet(DOMAIN t) /\ DOMAIN t \subseteq Nat /\ t = [n \in DOMAIN t |-> t[n]]
         /\ \A n \in DOMAIN t :
              /\ Fits(t[n], o)
              /\ fails' = 0 /\ t[n].status = "triggered" => [incident |-> n, birth |-> t[n].birth] \notin r
<1>1. ASSUME NEW n \in DOMAIN t, fails' = 0, t[n].status = "triggered",
             [incident |-> n, birth |-> t[n].birth] \in r
      PROVE  FALSE
  <2> DEFINE p == [incident |-> n, birth |-> t[n].birth]
  <2>1. p \notin q BY <1>1 DEF Table, Loud
  <2>2. p.incident = n OBVIOUS
  <2>. HIDE DEF p
  <2>3. Hushed(t, p) BY <1>1, <2>1 DEF p
  <2> QED BY <1>1, <2>2, <2>3 DEF Hushed
<1> QED BY <1>1 DEF Table

\* A handler is through with s.
Over(s, q) ==
  /\ Inv /\ Done(s, q) /\ End(s)
  /\ s.fault # "none" => fails + crashes < MaxFaults
  /\ clock' = clock /\ waiting' \subseteq DOMAIN Inbox /\ taken' \subseteq s.d.seen
  /\ \A p \in quiet' : p.birth \in Nat /\ p.birth <= Len(s.opened)
  /\ Earned(s, q)

\* What went wrong is counted, and what did not is not.
LEMMA CountsAfter ==
  ASSUME NEW s, NEW q, Over(s, q)
  PROVE  /\ fails' \in Nat /\ crashes' \in Nat /\ fails' + crashes' <= MaxFaults
         /\ fails' = 0 => fails = 0 /\ (~s.hit \/ Died(s))
         /\ fails' + crashes' = 0 => fails + crashes = 0 /\ ~s.hit
         /\ db' = s.d /\ opened' = s.opened
         /\ mem' = (IF Died(s) THEN Load(s.d) ELSE s.m)
<1>1. /\ fails \in Nat /\ crashes \in Nat /\ fails + crashes <= MaxFaults
      /\ s.fault # "none" => fails + crashes < MaxFaults
  BY DEF Over, Inv
<1>2. MaxFaults \in Nat BY OnCallAssumption DEF OnCallAssumption
<1>3. s.hit \in BOOLEAN /\ (s.hit => s.fault # "none") BY DEF Over, Done, Good, Place
<1>4. /\ fails' = fails + (IF s.hit /\ ~Died(s) THEN 1 ELSE 0)
      /\ crashes' = crashes + (IF Died(s) THEN 1 ELSE 0)
      /\ db' = s.d /\ opened' = s.opened
      /\ mem' = (IF Died(s) THEN Load(s.d) ELSE s.m)
  BY DEF Over, End
<1>5. Died(s) => s.hit BY DEF Died
<1>6. CASE ~s.hit
  <2>1. ~Died(s) BY <1>5, <1>6
  <2>2. fails' = fails /\ crashes' = crashes BY <1>1, <1>4, <1>6, <2>1
  <2> QED BY <1>1, <1>4, <1>6, <2>2
<1>7. CASE s.hit /\ Died(s)
  <2>1. fails' = fails /\ crashes' = crashes + 1 BY <1>1, <1>4, <1>7
  <2>2. fails + crashes < MaxFaults BY <1>1, <1>3, <1>7
  <2>3. crashes' \in Nat /\ fails' + crashes' <= MaxFaults /\ fails' + crashes' # 0
    BY <1>1, <1>2, <2>1, <2>2
  <2> QED BY <1>1, <1>4, <1>7, <2>1, <2>3
<1>8. CASE s.hit /\ ~Died(s)
  <2>1. fails' = fails + 1 /\ crashes' = crashes BY <1>1, <1>4, <1>8
  <2>2. fails + crashes < MaxFaults BY <1>1, <1>3, <1>8
  <2>3. fails' \in Nat /\ fails' # 0 /\ fails' + crashes' <= MaxFaults /\ fails' + crashes' # 0
    BY <1>1, <1>2, <2>1, <2>2
  <2> QED BY <1>1, <1>4, <1>8, <2>1, <2>3
<1> QED BY <1>6, <1>7, <1>8

\* What the database holds fits when it is loaded.
LEMMA LoadIs ==
  ASSUME NEW d, NEW o, NEW q, DbFits(d, o, q)
  PROVE  LET m == Load(d)
         IN  /\ m = [f \in MemFields |-> m[f]] /\ m.incidents = d.incidents
             /\ m.next \in Nat /\ m.seq \in Nat /\ m.oncallSeq \in Nat
<1> DEFINE m == Load(d)
<1>1. m = [f \in MemFields |-> m[f]] BY DEF Load, MemFields
<1>2. /\ m.incidents = d.incidents /\ m.next = d.counters.next /\ m.seq = d.counters.seq
      /\ m.oncallSeq = d.counters.oncallSeq
  BY DEF Load
<1>3. d.counters \in [next : Nat, seq : Nat, oncallSeq : Nat] BY DEF DbFits
<1>. HIDE DEF m
<1>4. m.next \in Nat /\ m.seq \in Nat /\ m.oncallSeq \in Nat BY <1>2, <1>3
<1> QED BY <1>1, <1>2, <1>4 DEF m

\* The invariant after a handler, whatever went wrong in it.
LEMMA OverInv ==
  ASSUME NEW s, NEW q, Over(s, q)
  PROVE  Inv'
<1>1. /\ fails' \in Nat /\ crashes' \in Nat /\ fails' + crashes' <= MaxFaults
      /\ fails' = 0 => fails = 0 /\ (~s.hit \/ Died(s))
      /\ fails' + crashes' = 0 => fails + crashes = 0 /\ ~s.hit
      /\ db' = s.d /\ opened' = s.opened
      /\ mem' = (IF Died(s) THEN Load(s.d) ELSE s.m)
  BY CountsAfter
<1>2. /\ MemFits(s.m, s.opened, q) /\ DbFits(s.d, s.opened, q) /\ DbOn(s.d) /\ Place(s, q)
      /\ InStep(s) /\ AlertsBut(s, {})
  BY DEF Over, Done, Good
<1>3. clock \in 0..MaxTime /\ QuietOnceHandled BY DEF Over, Inv
<1>4. /\ End(s) /\ clock' = clock /\ waiting' \subseteq DOMAIN Inbox /\ taken' \subseteq s.d.seen
      /\ \A p \in quiet' : p.birth \in Nat /\ p.birth <= Len(s.opened)
      /\ Earned(s, q)
  BY DEF Over
<1>5. Covered(db)' BY <1>1, <1>2 DEF DbOn, Covered
<1> DEFINE Fine(t) ==
      /\ IsFiniteSet(DOMAIN t) /\ DOMAIN t \subseteq Nat /\ t = [n \in DOMAIN t |-> t[n]]
      /\ \A n \in DOMAIN t :
           /\ Fits(t[n], s.opened)
           /\ fails' = 0 /\ t[n].status = "triggered" =>
                [incident |-> n, birth |-> t[n].birth] \notin quiet'
<1>6. Fine(s.d.incidents)
  <2>1. Table(s.d.incidents, s.opened, q) BY <1>2 DEF DbFits
  <2>2. fails' = 0 => \A p \in quiet' : p \in q \/ Hushed(s.d.incidents, p) BY <1>4 DEF Earned
  <2>. HIDE DEF Fine
  <2> QED BY <1>1, <2>1, <2>2, TableAfter DEF Fine
<1>7. Fine(s.m.incidents)
  <2>1. Table(s.m.incidents, s.opened, q) BY <1>2 DEF MemFits
  <2>2. fails' = 0 => \A p \in quiet' : p \in q \/ Hushed(s.m.incidents, p) BY <1>4 DEF Earned
  <2> QED BY <1>1, <2>1, <2>2, TableAfter DEF Fine
<1>8. ASSUME NEW t, Fine(t) PROVE Table(t, opened, quiet)'
  BY <1>1, <1>8 DEF Table, Loud
<1>9. DbFits(db, opened, quiet)'
  <2>. HIDE DEF Fine
  <2>1. Table(s.d.incidents, opened, quiet)' BY <1>6, <1>8
  <2>2. Table(db.incidents, opened, quiet)' BY <1>1, <2>1
  <2>3. /\ s.d = [f \in DbFields |-> s.d[f]]
        /\ s.d.counters \in [next : Nat, seq : Nat, oncallSeq : Nat]
        /\ s.d.alerts = [a \in Alerts |-> s.d.alerts[a]] /\ s.d.ended \in [Alerts -> Nat \cup {Never}]
    BY <1>2 DEF DbFits
  <2> QED BY <1>1, <2>2, <2>3 DEF DbFits
<1>10. MemFits(mem, opened, quiet)'
  <2>. HIDE DEF Fine
  <2>1. CASE Died(s)
    <3>1. mem' = Load(s.d) BY <1>1, <2>1
    <3>2. /\ mem' = [f \in MemFields |-> mem'[f]] /\ mem'.incidents = s.d.incidents
          /\ mem'.next \in Nat /\ mem'.seq \in Nat /\ mem'.oncallSeq \in Nat
      BY <1>2, <3>1, LoadIs
    <3>3. Table(mem.incidents, opened, quiet)' BY <1>6, <1>8, <3>2
    <3> QED BY <3>2, <3>3 DEF MemFits
  <2>2. CASE ~Died(s)
    <3>1. mem' = s.m BY <1>1, <2>2
    <3>2. /\ mem' = [f \in MemFields |-> mem'[f]]
          /\ mem'.next \in Nat /\ mem'.seq \in Nat /\ mem'.oncallSeq \in Nat
      BY <1>2, <3>1 DEF MemFits
    <3>3. Table(mem.incidents, opened, quiet)' BY <1>7, <1>8, <3>1
    <3> QED BY <3>2, <3>3 DEF MemFits
  <2> QED BY <2>1, <2>2
<1>. HIDE DEF Fine
<1>11. RestartLosesNothing'
  <2> SUFFICES ASSUME fails' = 0 PROVE mem' = Load(db') BY DEF RestartLosesNothing, Load
  <2>1. CASE Died(s) BY <1>1, <2>1
  <2>2. CASE ~Died(s) BY <1>1, <1>2, <2>2 DEF InStep
  <2> QED BY <2>1, <2>2
<1>12. QuietOnceHandled'
  <2> SUFFICES ASSUME fails' = 0 PROVE stray' = {} BY DEF QuietOnceHandled
  <2>1. fails = 0 /\ stray = {} BY <1>1, <1>3 DEF QuietOnceHandled
  <2>2. stray' = stray \cup {p.user : p \in {x \in s.pages : Incident(x) \in quiet'}} BY <1>4 DEF End
  <2>3. ASSUME NEW x \in s.pages, Incident(x) \in quiet' PROVE FALSE
    <3>1. Incident(x) \notin q BY <1>2, <2>1 DEF Place
    <3> QED BY <1>4, <2>3, <3>1 DEF Earned
  <2> QED BY <2>1, <2>2, <2>3
<1>13. Found'
  <2> SUFFICES ASSUME fails' + crashes' = 0, NEW n \in DOMAIN mem'.incidents
               PROVE  n < mem'.next /\ Finds(n, mem'.incidents[n], db'.alerts, opened')
    BY DEF Found, Finds, FromFiring
  <2>1. fails + crashes = 0 /\ ~s.hit BY <1>1
  <2>2. ~Died(s) BY <2>1 DEF Died
  <2>3. mem' = s.m BY <1>1, <2>2
  <2> QED BY <1>1, <1>2, <2>1, <2>3 DEF AlertsBut
<1>14. opened' \in Seq(Sources) /\ (\A p \in quiet' : p.birth \in Nat /\ p.birth <= Len(opened'))
  BY <1>1, <1>2, <1>4 DEF Place
<1>15. clock' \in 0..MaxTime /\ waiting' \subseteq DOMAIN Inbox /\ taken' \subseteq db'.seen
  BY <1>1, <1>3, <1>4
<1> QED BY <1>1, <1>5, <1>9, <1>10, <1>11, <1>12, <1>13, <1>14, <1>15 DEF Inv, Sources

-----------------------------------------------------------------------------
(* The actions.                                                            *)

\* A delivery that may still open an incident.
OpensFor(i) == /\ i \notin db.seen
               /\ Inbox[i].status = "firing" =>
                    \/ db.ended[Inbox[i].alert] = Never
                    \/ ~(Inbox[i].at <= db.ended[Inbox[i].alert])

\* A delivery is a chain, and opens an incident only if it is neither known nor over.
LEMMA IngestOver ==
  ASSUME Inv, NEW i \in DOMAIN Inbox, Ingest(i)
  PROVE  \E s : /\ Over(s, quiet)
                /\ s.opened = opened \/ (s.opened = Append(opened, <<"delivery", i>>) /\ OpensFor(i))
<1> DEFINE H(b) == HandleDelivery(b, i)
<1>1. PICK s \in Runs(LAMBDA b : HandleDelivery(b, i)) :
        /\ waiting' = (IF s.err THEN waiting ELSE waiting \ {i})
        /\ taken' = (IF s.err THEN taken ELSE taken \cup {i})
        /\ UNCHANGED quiet /\ End(s)
  BY DEF Ingest
<1>2. UNCHANGED clock BY DEF Ingest
<1>3. ASSUME NEW f, NEW j, Ahead(f, j)
      PROVE  LET t == H(Begin(f, j))
             IN  /\ Done(t, quiet) /\ t.fault = f /\ t.left \in Int
                 /\ t.opened = opened \/ (t.opened = Append(opened, <<"delivery", i>>) /\ OpensFor(i))
                 /\ t.err \/ i \in t.d.seen
  <2> DEFINE b == Begin(f, j)
  <2>1. /\ Idle(b, {}, quiet) /\ b.d = db /\ b.opened = opened /\ b.fault = f /\ ~b.err
        /\ \A p \in quiet : p.birth <= Len(b.opened)
    <3>1. Began(b, f, quiet) BY <1>3, BeginIs
    <3> QED BY <3>1 DEF Began
  <2>. HIDE DEF b
  <2>2. RestartLosesNothing BY DEF Inv
  <2>3. /\ Done(H(b), quiet) /\ H(b).fault = b.fault
        /\ \/ H(b).opened = b.opened
           \/ /\ H(b).opened = Append(b.opened, <<"delivery", i>>)
              /\ ~Stale(b, Inbox[i]) /\ i \notin b.d.seen
        /\ H(b).err \/ i \in H(b).d.seen
    BY <2>1, <2>2, HandleDeliveryDone
  <2>4. H(b).left \in Int BY <2>3 DEF Done, Good, Place
  <2>5. ~Stale(b, Inbox[i]) /\ i \notin b.d.seen => OpensFor(i) BY <2>1 DEF Stale, OpensFor
  <2> QED BY <2>1, <2>3, <2>4, <2>5 DEF b
<1>4. PICK f, j : Ahead(f, j) /\ s = H(Begin(f, j))
  <2>1. Ahead("none", 0) BY DEF Ahead
  <2>2. H(Begin("none", 0)).left \in Int BY <1>3, <2>1
  <2>3. \/ s = H(Begin("none", 0))
        \/ \E f \in (IF fails + crashes < MaxFaults THEN {"fail", "crash"} ELSE {}),
              j \in 1..-(H(Begin("none", 0)).left) : s = H(Begin(f, j))
    BY <1>1 DEF Runs
  <2>. HIDE DEF H
  <2> QED BY <2>1, <2>2, <2>3 DEF Ahead
<1>5. /\ Done(s, quiet) /\ s.fault = f
      /\ s.opened = opened \/ (s.opened = Append(opened, <<"delivery", i>>) /\ OpensFor(i))
      /\ s.err \/ i \in s.d.seen
  BY <1>3, <1>4
<1>6. Over(s, quiet)
  <2>1. /\ taken \subseteq db.seen /\ waiting \subseteq DOMAIN Inbox
        /\ opened \in Seq(Sources) /\ \A p \in quiet : p.birth \in Nat /\ p.birth <= Len(opened)
    BY DEF Inv
  <2>2. db.seen \subseteq s.d.seen BY <1>5 DEF Done, Good, DbOn
  <2>3. taken' \subseteq s.d.seen /\ waiting' \subseteq DOMAIN Inbox BY <1>1, <1>5, <2>1, <2>2
  <2>4. Len(opened) \in Nat /\ Len(s.opened) \in Nat /\ Len(s.opened) >= Len(opened) BY <1>5, <2>1
  <2>5. \A p \in quiet' : p.birth \in Nat /\ p.birth <= Len(s.opened)
    BY <1>1, <2>1, <2>4
  <2>6. s.fault # "none" => fails + crashes < MaxFaults BY <1>4, <1>5 DEF Ahead
  <2>7. Earned(s, quiet) BY <1>1 DEF Earned
  <2> QED BY <1>1, <1>2, <1>5, <2>3, <2>5, <2>6, <2>7 DEF Over
<1> QED BY <1>5, <1>6

\* A tick is a chain, and opens nothing.
LEMMA TickOver ==
  ASSUME Inv, Tick
  PROVE  \E s : Over(s, quiet) /\ s.opened = opened
<1> DEFINE S == {n \in DOMAIN mem.incidents : DueNow(n)}
<1>1. PICK order \in SetToSeqs(S) :
        \E s \in Runs(LAMBDA b : Logged(Handoffs(EscalateAll(b, order)))) : End(s)
  BY DEF Tick
<1> DEFINE H(b) == Logged(Handoffs(EscalateAll(b, order)))
<1>2. PICK s \in Runs(LAMBDA b : Logged(Handoffs(EscalateAll(b, order)))) : End(s) BY <1>1
<1>3. UNCHANGED <<clock, waiting, taken, quiet>> BY DEF Tick
<1>4. Len(order) \in Nat /\ \A k \in 1..Len(order) : order[k] \in S
  <2>1. IsFiniteSet(DOMAIN mem.incidents) BY DEF Inv, MemFits, Table
  <2>2. Cardinality(S) \in Nat BY <2>1, FS_Subset, FS_CardinalityType
  <2>. HIDE DEF S
  <2>3. order \in [1..Cardinality(S) -> S] BY <1>1 DEF SetToSeqs
  <2>4. order \in Seq(S) BY <2>2, <2>3
  <2> QED BY <2>4
<1>5. ASSUME NEW f, NEW j, Ahead(f, j)
      PROVE  LET t == H(Begin(f, j))
             IN  /\ Done(t, quiet) /\ t.fault = f /\ t.left \in Int /\ t.opened = opened
  <2> DEFINE b == Begin(f, j)
             e == EscalateAll(b, order)
             h == Handoffs(e)
  <2>1. Idle(b, {}, quiet) /\ b.m = mem /\ b.opened = opened /\ b.fault = f
    <3>1. Began(b, f, quiet) BY <1>5, BeginIs
    <3> QED BY <3>1 DEF Began
  <2>. HIDE DEF b
  <2>2. \A k \in 1..Len(order) : /\ order[k] \in DOMAIN b.m.incidents
                                 /\ b.m.incidents[order[k]].status = "triggered"
    BY <1>4, <2>1 DEF DueNow
  <2>3. RestartLosesNothing BY DEF Inv
  <2>4. Idle(e, {}, quiet) /\ Later(b, e) BY <1>4, <2>1, <2>2, <2>3, EscalateAllIdle
  <2>. HIDE DEF e
  <2>5. Done(h, quiet) /\ Later(e, h) BY <2>4, HandoffsDone
  <2>. HIDE DEF h
  <2>6. Done(Logged(h), quiet) /\ Later(h, Logged(h)) BY <2>5, LoggedDone
  <2>7. Logged(h).left \in Int BY <2>6 DEF Done, Good, Place
  <2>8. H(b) = Logged(h) BY DEF h, e
  <2> QED BY <2>1, <2>4, <2>5, <2>6, <2>7, <2>8 DEF b, Later
<1>6. PICK f, j : Ahead(f, j) /\ s = H(Begin(f, j))
  <2>1. Ahead("none", 0) BY DEF Ahead
  <2>2. H(Begin("none", 0)).left \in Int BY <1>5, <2>1
  <2>3. \/ s = H(Begin("none", 0))
        \/ \E f \in (IF fails + crashes < MaxFaults THEN {"fail", "crash"} ELSE {}),
              j \in 1..-(H(Begin("none", 0)).left) : s = H(Begin(f, j))
    BY <1>2 DEF Runs
  <2>. HIDE DEF H
  <2> QED BY <2>1, <2>2, <2>3 DEF Ahead
<1>. HIDE DEF S
<1>7. Done(s, quiet) /\ s.fault = f /\ s.opened = opened BY <1>5, <1>6
<1>8. Over(s, quiet)
  <2>1. /\ taken \subseteq db.seen /\ waiting \subseteq DOMAIN Inbox
        /\ \A p \in quiet : p.birth \in Nat /\ p.birth <= Len(opened)
    BY DEF Inv
  <2>2. db.seen \subseteq s.d.seen BY <1>7 DEF Done, Good, DbOn
  <2>3. s.fault # "none" => fails + crashes < MaxFaults BY <1>6, <1>7 DEF Ahead
  <2>4. Earned(s, quiet) BY <1>3 DEF Earned
  <2> QED BY <1>2, <1>3, <1>7, <2>1, <2>2, <2>3, <2>4 DEF Over
<1> QED BY <1>7, <1>8

\* Who may be paged while k is answered: that somebody takes an incident up
\* again is known before anybody is.
Awake(k) ==
  LET p == Posts[k]
  IN  IF p.what \in {"reassign", "escalate"}
      THEN quiet \ {[incident |-> p.on, birth |-> mem.incidents[p.on].birth]} ELSE quiet

\* What is known of a place after k has been answered.
Answered(t, k, f) ==
  /\ Done(t, Awake(k)) /\ t.fault = f /\ t.left \in Int
  /\ t.opened = opened \/ t.opened = Append(opened, <<"request", k>>)
  /\ t.err \/ ~Died(t)
  /\ Posts[k].what \in {"acknowledge", "resolve"} =>
       t.pages = {} /\ (~t.hit => t.m.incidents[Posts[k].on].status # "triggered")

\* A request that is accepted is a chain, whatever goes wrong in it.
LEMMA AnsweredIs ==
  ASSUME Inv, NEW k \in DOMAIN Posts, Accepts(Begin("none", 0), Posts[k]), NEW f, NEW j, Ahead(f, j)
  PROVE  Answered(Remember(Act(Begin(f, j), k), k), k, f)
<1> DEFINE b == Begin(f, j)
           c == Begin("none", 0)
           q == Awake(k)
           a == Act(b, k)
           t == Remember(a, k)
<1>1. q \subseteq quiet BY DEF Awake
<1>2. /\ Idle(b, {}, q) /\ ~b.err /\ b.m = mem /\ b.d = db /\ b.opened = opened /\ b.pages = {}
      /\ b.fault = f /\ \A p \in q : p.birth <= Len(b.opened)
  <2>. HIDE DEF q
  <2>1. Began(b, f, q) BY <1>1, BeginIs
  <2> QED BY <2>1 DEF Began
<1>3. Accepts(b, Posts[k])
  <2>1. c.m = mem /\ c.d = db BY DEF Begin
  <2>. HIDE DEF b, c
  <2>2. Accepts(c, Posts[k]) BY DEF c
  <2>3. b.m = c.m /\ b.d = c.d BY <1>2, <2>1
  <2> QED BY <2>2, <2>3 DEF Accepts, IsOpen, Known
<1>4. Posts[k].what \in {"reassign", "escalate"} => Free(b, Posts[k].on, q)
  <2>. HIDE DEF b
  <2> QED BY <1>2 DEF Free, Awake
<1>. HIDE DEF b, c, q
<1>5. Asked(b, k, q) BY <1>2, <1>3, <1>4 DEF Asked
<1>6. RestartLosesNothing BY DEF Inv
<1>7. /\ Done(a, q) /\ a.fault = b.fault
      /\ a.opened = b.opened \/ a.opened = Append(b.opened, <<"request", k>>)
      /\ Posts[k].what \in {"acknowledge", "resolve"} =>
           /\ a.pages = {} /\ Posts[k].on \in DOMAIN a.m.incidents
           /\ ~a.hit => a.m.incidents[Posts[k].on].status # "triggered"
  BY <1>5, <1>6, ActDone
<1>. HIDE DEF a
<1>8. /\ Done(t, q) /\ Later(a, t) /\ t.m = a.m /\ t.pages = a.pages
  BY <1>7, RememberDone
<1>9. t.err \/ ~Died(t) BY <1>7, RememberDone
<1>. HIDE DEF t
<1>10. t.left \in Int BY <1>8 DEF Done, Good, Place
<1>11. t.opened = a.opened /\ t.fault = a.fault /\ (~t.hit => ~a.hit) BY <1>8 DEF Later
<1>12. Answered(t, k, f) BY <1>2, <1>7, <1>8, <1>9, <1>10, <1>11 DEF Answered, q
<1> QED BY <1>12 DEF t, a, b

\* So is the action, and whoever is told that an incident is handled is told right.
LEMMA PostOver ==
  ASSUME Inv, NEW k \in DOMAIN Posts, Post(k)
  PROVE  \E s : /\ Over(s, Awake(k))
                /\ s.opened = opened \/ s.opened = Append(opened, <<"request", k>>)
<1> DEFINE p  == Posts[k]
           me == [incident |-> p.on, birth |-> mem.incidents[p.on].birth]
           q  == Awake(k)
           H(b) == Remember(Act(b, k), k)
<1>1. PICK s \in Runs(LAMBDA b : Remember(Act(b, k), k)) :
        /\ quiet' = (IF p.what \in {"reassign", "escalate"} THEN quiet \ {me}
                     ELSE IF ~s.err /\ p.what \in {"acknowledge", "resolve"} THEN quiet \cup {me}
                     ELSE quiet)
        /\ End(s)
  BY DEF Post
<1>2. UNCHANGED <<clock, waiting, taken>> /\ Accepts(Begin("none", 0), p) BY DEF Post
<1>3. ASSUME NEW f, NEW j, Ahead(f, j) PROVE Answered(H(Begin(f, j)), k, f)
  BY <1>2, <1>3, AnsweredIs
<1>4. PICK f, j : Ahead(f, j) /\ s = H(Begin(f, j))
  <2>1. Ahead("none", 0) BY DEF Ahead
  <2>2. H(Begin("none", 0)).left \in Int BY <1>3, <2>1 DEF Answered
  <2>3. \/ s = H(Begin("none", 0))
        \/ \E f \in (IF fails + crashes < MaxFaults THEN {"fail", "crash"} ELSE {}),
              j \in 1..-(H(Begin("none", 0)).left) : s = H(Begin(f, j))
    BY <1>1 DEF Runs
  <2>. HIDE DEF H
  <2> QED BY <2>1, <2>2, <2>3 DEF Ahead
<1>5. Answered(s, k, f) BY <1>3, <1>4
<1>. HIDE DEF H
<1>6. /\ taken \subseteq db.seen /\ waiting \subseteq DOMAIN Inbox /\ opened \in Seq(Sources)
      /\ fails \in Nat /\ MemFits(mem, opened, quiet)
      /\ \A x \in quiet : x.birth \in Nat /\ x.birth <= Len(opened)
  BY DEF Inv
<1>7. Done(s, q) /\ Good(s, q) BY <1>5 DEF Answered, Done
<1>8. Len(opened) \in Nat /\ Len(s.opened) \in Nat /\ Len(s.opened) >= Len(opened)
  BY <1>5, <1>6 DEF Answered
<1>9. p.what \in {"acknowledge", "resolve"} => me.birth \in Nat /\ me.birth <= Len(opened)
  <2> SUFFICES ASSUME p.what \in {"acknowledge", "resolve"} PROVE me.birth \in Nat /\ me.birth <= Len(opened)
    OBVIOUS
  <2>1. Begin("none", 0).m = mem BY DEF Begin
  <2>2. p.on \in DOMAIN mem.incidents BY <1>2, <2>1 DEF Accepts, IsOpen, Known
  <2>3. mem.incidents[p.on].birth \in DOMAIN opened BY <1>6, <2>2 DEF MemFits, Table, Fits
  <2>4. me.birth = mem.incidents[p.on].birth OBVIOUS
  <2> QED BY <1>6, <2>3, <2>4
<1>10. \A x \in quiet' : x.birth \in Nat /\ x.birth <= Len(s.opened)
  <2>. HIDE DEF me, p
  <2>1. \A x \in quiet' : x \in quiet \/ (x = me /\ p.what \in {"acknowledge", "resolve"}) BY <1>1
  <2> QED BY <1>6, <1>8, <1>9, <2>1
<1>11. Earned(s, q)
  <2> SUFFICES ASSUME fails' = 0, NEW x \in quiet', x \notin q
               PROVE  s.pages = {} /\ Hushed(s.m.incidents, x) /\ Hushed(s.d.incidents, x)
    BY DEF Earned
  <2>1. ~s.err /\ p.what \in {"acknowledge", "resolve"} /\ x = me
    <3>1. q = IF p.what \in {"reassign", "escalate"} THEN quiet \ {me} ELSE quiet BY DEF Awake
    <3>. HIDE DEF me, p, q
    <3> QED BY <1>1, <3>1
  <2>2. ~Died(s) BY <1>5, <2>1 DEF Answered
  <2>3. fails' = fails + (IF s.hit /\ ~Died(s) THEN 1 ELSE 0) BY <1>1 DEF End
  <2>4. ~s.hit /\ fails = 0
    <3>1. CASE s.hit
      <4>1. fails' = fails + 1 BY <2>2, <2>3, <3>1
      <4> QED BY <1>6, <4>1
    <3>2. CASE ~s.hit
      <4>1. fails' = fails + 0 BY <2>3, <3>2
      <4> QED BY <1>6, <3>2, <4>1
    <3> QED BY <3>1, <3>2
  <2>5. s.pages = {} /\ s.m.incidents[p.on].status # "triggered" BY <1>5, <2>1, <2>4 DEF Answered
  <2>6. s.m.incidents = s.d.incidents
    <3>1. s.m = Load(s.d) BY <1>7, <2>4 DEF Done, InStep
    <3> QED BY <3>1 DEF Load
  <2>7. x.incident = p.on BY <2>1
  <2> QED BY <2>5, <2>6, <2>7 DEF Hushed
<1>12. Over(s, q)
  <2>1. db.seen \subseteq s.d.seen BY <1>7 DEF Good, DbOn
  <2>2. s.fault # "none" => fails + crashes < MaxFaults BY <1>4, <1>5 DEF Ahead, Answered
  <2>. HIDE DEF q
  <2> QED BY <1>1, <1>2, <1>6, <1>7, <1>10, <1>11, <2>1, <2>2 DEF Over
<1> QED BY <1>5, <1>12 DEF Answered

\* A step that changes none of these keeps the tables.
LEMMA KeepsTables ==
  ASSUME Inv, UNCHANGED <<db, fails, history>>
  PROVE  /\ DbFits(db, opened, quiet)' /\ Covered(db)' /\ QuietOnceHandled'
         /\ mem' = mem => MemFits(mem, opened, quiet)'
         /\ mem' = Load(db) => MemFits(mem, opened, quiet)'
         /\ taken' \subseteq db'.seen /\ opened' \in Seq(Sources)
         /\ \A p \in quiet' : p.birth \in Nat /\ p.birth <= Len(opened')
<1>1. /\ taken \subseteq db.seen /\ opened \in Seq(Sources) /\ fails \in Nat
      /\ \A p \in quiet : p.birth \in Nat /\ p.birth <= Len(opened)
      /\ MemFits(mem, opened, quiet) /\ DbFits(db, opened, quiet) /\ Covered(db) /\ QuietOnceHandled
  BY DEF Inv
<1>2. /\ db' = db /\ fails' = fails /\ opened' = opened /\ taken' = taken /\ quiet' = quiet
      /\ stray' = stray
  BY DEF history
<1>3. ASSUME NEW t, Table(t, opened, quiet) PROVE Table(t, opened, quiet)'
  BY <1>2, <1>3 DEF Table, Loud
<1>4. DbFits(db, opened, quiet)'
  <2>1. Table(db.incidents, opened, quiet)' BY <1>1, <1>2, <1>3 DEF DbFits
  <2>2. /\ db = [f \in DbFields |-> db[f]]
        /\ db.counters \in [next : Nat, seq : Nat, oncallSeq : Nat]
        /\ db.alerts = [a \in Alerts |-> db.alerts[a]] /\ db.ended \in [Alerts -> Nat \cup {Never}]
    BY <1>1 DEF DbFits
  <2> QED BY <1>2, <2>1, <2>2 DEF DbFits
<1>5. ASSUME mem' = mem PROVE MemFits(mem, opened, quiet)'
  <2>1. Table(mem.incidents, opened, quiet)' BY <1>1, <1>3, <1>5 DEF MemFits
  <2>2. /\ mem = [f \in MemFields |-> mem[f]]
        /\ mem.next \in Nat /\ mem.seq \in Nat /\ mem.oncallSeq \in Nat
    BY <1>1 DEF MemFits
  <2> QED BY <1>5, <2>1, <2>2 DEF MemFits
<1>6. ASSUME mem' = Load(db) PROVE MemFits(mem, opened, quiet)'
  <2>1. /\ mem' = [f \in MemFields |-> mem'[f]] /\ mem'.incidents = db.incidents
        /\ mem'.next \in Nat /\ mem'.seq \in Nat /\ mem'.oncallSeq \in Nat
    BY <1>1, <1>6, LoadIs
  <2>2. Table(mem.incidents, opened, quiet)' BY <1>1, <1>3, <2>1 DEF DbFits
  <2> QED BY <2>1, <2>2 DEF MemFits
<1>7. Covered(db)' BY <1>1, <1>2 DEF Covered
<1>8. QuietOnceHandled' BY <1>1, <1>2 DEF QuietOnceHandled
<1> QED BY <1>1, <1>2, <1>4, <1>5, <1>6, <1>7, <1>8 DEF Sources

\* A restart reads what was written.
LEMMA CrashInv == ASSUME Inv, Crash PROVE Inv'
<1>1. /\ clock \in 0..MaxTime /\ fails \in Nat /\ crashes \in Nat /\ waiting \subseteq DOMAIN Inbox
      /\ taken \subseteq db.seen /\ Covered(db)
  BY DEF Inv
<1>2. /\ fails + crashes < MaxFaults /\ crashes' = crashes + 1 /\ mem' = Load(db)
      /\ waiting' = waiting \/ \E i \in taken : waiting' = waiting \cup {i}
      /\ UNCHANGED <<clock, db, fails, history>>
  BY DEF Crash
<1>3. waiting' \subseteq DOMAIN Inbox BY <1>1, <1>2 DEF Covered
<1>4. /\ fails' \in Nat /\ crashes' \in Nat /\ fails' + crashes' <= MaxFaults
      /\ fails' + crashes' # 0
  <2>1. MaxFaults \in Nat BY OnCallAssumption DEF OnCallAssumption
  <2>2. fails' = fails BY <1>2
  <2> QED BY <1>1, <1>2, <2>1, <2>2
<1>5. RestartLosesNothing' BY <1>2 DEF RestartLosesNothing, Load
<1>6. Found' BY <1>4 DEF Found
<1>7. clock' \in 0..MaxTime BY <1>1, <1>2
<1> QED BY <1>2, <1>3, <1>4, <1>5, <1>6, <1>7, KeepsTables DEF Inv, Sources

\* Time passes, or nothing happens.
LEMMA WaitInv ==
  ASSUME Inv, UNCHANGED <<mem, db, waiting, fails, crashes, history>>, clock' \in 0..MaxTime
  PROVE  Inv'
<1>1. /\ fails \in Nat /\ crashes \in Nat /\ fails + crashes <= MaxFaults
      /\ waiting \subseteq DOMAIN Inbox /\ RestartLosesNothing /\ Found
  BY DEF Inv
<1>2. /\ mem' = mem /\ db' = db /\ fails' = fails /\ crashes' = crashes /\ opened' = opened
      /\ waiting' = waiting
  BY DEF history
<1>3. RestartLosesNothing' BY <1>1, <1>2 DEF RestartLosesNothing, Load
<1>4. Found' BY <1>1, <1>2 DEF Found, Finds, FromFiring
<1>5. UNCHANGED <<db, fails, history>> OBVIOUS
<1>6. /\ DbFits(db, opened, quiet)' /\ Covered(db)' /\ QuietOnceHandled' /\ MemFits(mem, opened, quiet)'
      /\ taken' \subseteq db'.seen /\ opened' \in Seq(Sources)
      /\ \A p \in quiet' : p.birth \in Nat /\ p.birth <= Len(opened')
  BY <1>2, <1>5, KeepsTables
<1> QED BY <1>1, <1>2, <1>3, <1>4, <1>6 DEF Inv, Sources

\* What a step is: the end of a handler, or nothing but time, a death, or nothing.
LEMMA StepIs ==
  ASSUME Inv, [Next]_vars
  PROVE  \/ \E s, q : Over(s, q) /\ s.opened = opened
         \/ \E s, q : \E i \in DOMAIN Inbox :
              Over(s, q) /\ s.opened = Append(opened, <<"delivery", i>>) /\ OpensFor(i)
         \/ \E s, q : \E k \in DOMAIN Posts : Over(s, q) /\ s.opened = Append(opened, <<"request", k>>)
         \/ Crash
         \/ UNCHANGED <<mem, db, waiting, fails, crashes, history>> /\ clock' \in 0..MaxTime
<1>1. CASE Tick BY <1>1, TickOver
<1>2. ASSUME NEW i \in DOMAIN Inbox, Ingest(i) PROVE \E s, q : Over(s, q) /\
        (s.opened = opened \/ (s.opened = Append(opened, <<"delivery", i>>) /\ OpensFor(i)))
  BY <1>2, IngestOver
<1>3. ASSUME NEW k \in DOMAIN Posts, Post(k) PROVE \E s, q : Over(s, q) /\
        (s.opened = opened \/ s.opened = Append(opened, <<"request", k>>))
  BY <1>3, PostOver
<1>4. CASE Advance
  <2>1. clock \in 0..MaxTime /\ MaxTime \in Nat BY OnCallAssumption DEF Inv, OnCallAssumption
  <2> QED BY <1>4, <2>1 DEF Advance
<1>5. CASE UNCHANGED vars
  <2>1. clock \in 0..MaxTime BY DEF Inv
  <2> QED BY <1>5, <2>1 DEF vars
<1>6. CASE \E i \in DOMAIN Inbox : Ingest(i)
  <2>1. PICK i \in DOMAIN Inbox : Ingest(i) BY <1>6
  <2>2. PICK s, q : Over(s, q) /\
          (s.opened = opened \/ (s.opened = Append(opened, <<"delivery", i>>) /\ OpensFor(i)))
    BY <1>2, <2>1
  <2> QED BY <2>2
<1>7. CASE \E k \in DOMAIN Posts : Post(k)
  <2>1. PICK k \in DOMAIN Posts : Post(k) BY <1>7
  <2>2. PICK s, q : Over(s, q) /\
          (s.opened = opened \/ s.opened = Append(opened, <<"request", k>>))
    BY <1>3, <2>1
  <2> QED BY <2>2
<1>8. \/ Tick \/ Advance \/ Crash \/ UNCHANGED vars
      \/ (\E i \in DOMAIN Inbox : Ingest(i)) \/ (\E k \in DOMAIN Posts : Post(k))
  BY DEF Next
<1>9. CASE Crash BY <1>9
<1> QED BY <1>1, <1>4, <1>5, <1>6, <1>7, <1>8, <1>9

\* The invariant is inductive.
LEMMA NextInv == ASSUME Inv, [Next]_vars PROVE Inv'
BY StepIs, OverInv, CrashInv, WaitInv

\* The inductive invariant: the tables fit their history, memory and database
\* agree until a statement fails, the deliveries that were taken in are known and
\* their resolves kept, and nobody is paged for what is handled.
THEOREM OnCallInv == Spec => []Inv
<1>1. Init => Inv BY InitInv
<1>2. Inv /\ [Next]_vars => Inv' BY NextInv
<1> QED BY <1>1, <1>2, PTL DEF Spec

-----------------------------------------------------------------------------
(* What the runs check.                                                    *)

\* Incidents have a status, a level of their policy, and a time only while triggered.
THEOREM OnCallTypeOK == Spec => []TypeOK
<1>1. Inv => TypeOK
  <2> SUFFICES ASSUME Inv PROVE TypeOK OBVIOUS
  <2>1. /\ clock \in 0..MaxTime /\ fails \in Nat /\ crashes \in Nat /\ fails + crashes <= MaxFaults
        /\ waiting \subseteq DOMAIN Inbox /\ taken \subseteq db.seen /\ Covered(db)
        /\ MemFits(mem, opened, quiet)
    BY DEF Inv
  <2>2. fails + crashes \in 0..MaxFaults
    <3>1. MaxFaults \in Nat BY OnCallAssumption DEF OnCallAssumption
    <3> QED BY <2>1, <3>1
  <2>3. taken \subseteq DOMAIN Inbox BY <2>1 DEF Covered
  <2>4. DOMAIN mem = DOMAIN Load(db)
    <3>1. mem = [f \in MemFields |-> mem[f]] BY <2>1 DEF MemFits
    <3>2. DOMAIN mem = MemFields BY <3>1
    <3>3. DOMAIN Load(db) = MemFields BY DEF Load, MemFields
    <3> QED BY <3>2, <3>3
  <2>5. ASSUME NEW n \in DOMAIN mem.incidents
        PROVE  LET inc == mem.incidents[n]
               IN  /\ inc.status \in {"triggered", "acknowledged", "resolved"}
                   /\ inc.level \in 0..Len(Levels(inc)) /\ inc.loops \in Nat
                   /\ inc.due # Never => inc.status = "triggered"
    <3>1. Fits(mem.incidents[n], opened) BY <2>1, <2>5 DEF MemFits, Table
    <3> QED BY <3>1 DEF Fits
  <2> QED BY <2>1, <2>2, <2>3, <2>4, <2>5 DEF TypeOK
<1> QED BY <1>1, OnCallInv, PTL

\* As long as no statement has failed, a restart reads what memory had: every
\* handler writes each change through, and one that dies is read as far as it got.
THEOREM RestartsLoseNothing == Spec => []RestartLosesNothing
<1>1. Inv => RestartLosesNothing BY DEF Inv
<1> QED BY <1>1, OnCallInv, PTL

\* Nobody is paged for an incident after a person was told that it is acknowledged
\* or resolved, until somebody takes it up again, unless a statement has failed.
THEOREM QuietStays == Spec => []QuietOnceHandled
<1>1. Inv => QuietOnceHandled BY DEF Inv
<1> QED BY <1>1, OnCallInv, PTL

\* As long as nothing has failed or died, an alert finds the incident it opened
\* until that is resolved, so that a repeat opens no second one.
THEOREM AlertsFindTheirIncident == Spec => []OneIncidentPerAlert
<1>1. Inv => OneIncidentPerAlert BY DEF Inv, Found, Finds, OneIncidentPerAlert
<1> QED BY <1>1, OnCallInv, PTL

\* What is appended is the only thing that is newly opened.
LEMMA NewlyOpenedIs ==
  ASSUME opened \in Seq(Sources)
  PROVE  /\ opened' = opened => NewlyOpened = {}
         /\ \A x \in Sources : opened' = Append(opened, x) =>
              \A n \in NewlyOpened : opened'[n] = x
<1>1. Len(opened) \in Nat BY DEF Sources
<1>2. opened' = opened => NewlyOpened = {} BY <1>1 DEF NewlyOpened
<1>3. ASSUME NEW x \in Sources, opened' = Append(opened, x), NEW n \in NewlyOpened
      PROVE  opened'[n] = x
  <2>1. Len(opened') = Len(opened) + 1 BY <1>3
  <2>2. n = Len(opened) + 1 BY <1>1, <1>3, <2>1 DEF NewlyOpened
  <2> QED BY <1>3, <2>2
<1> QED BY <1>2, <1>3

\* A delivery that may still open an incident is not over.
LEMMA NotOver ==
  ASSUME Inv, NEW i \in DOMAIN Inbox, OpensFor(i)
  PROVE  /\ i \notin taken
         /\ Inbox[i].status = "firing" =>
              \A r \in taken : Inbox[r].status = "resolved" /\ Inbox[r].alert = Inbox[i].alert
                => Second(Inbox[i].at) >= Second(Inbox[r].at)
<1>1. taken \subseteq db.seen /\ Covered(db) /\ DbFits(db, opened, quiet) BY DEF Inv
<1>2. i \notin taken BY <1>1 DEF OpensFor
<1>3. ASSUME Inbox[i].status = "firing",
             NEW r \in taken, Inbox[r].status = "resolved", Inbox[r].alert = Inbox[i].alert
      PROVE  Second(Inbox[i].at) >= Second(Inbox[r].at)
  <2> DEFINE e == db.ended[Inbox[i].alert]
  <2>1. r \in DOMAIN Inbox /\ NotBefore(Inbox[r].at, e) BY <1>1, <1>3 DEF Covered
  <2>2. Inbox[r].at \in Nat /\ Inbox[i].at \in Nat /\ Inbox[i].alert \in Alerts
    BY <2>1, OnCallAssumption DEF OnCallAssumption
  <2>3. e = Never \/ ~(Inbox[i].at <= e) BY <1>3 DEF OpensFor
  <2>4. e \in Nat \cup {Never} BY <1>1, <2>2 DEF DbFits
  <2>. HIDE DEF e
  <2>5. e # Never /\ Second(e) >= Second(Inbox[r].at)
    <3>1. Inbox[r].at # Never BY <2>2 DEF Never
    <3> QED BY <2>1, <3>1 DEF NotBefore
  <2>6. e \in Nat /\ e < Inbox[i].at BY <2>2, <2>3, <2>4, <2>5
  <2>7. Second(Inbox[i].at) >= Second(e) BY <2>2, <2>6 DEF Second
  <2>8. Second(Inbox[i].at) \in Int /\ Second(e) \in Int /\ Second(Inbox[r].at) \in Int
    BY <2>2, <2>6 DEF Second
  <2> QED BY <2>5, <2>7, <2>8
<1> QED BY <1>2, <1>3

\* A delivery that was taken in opens nothing again, and neither does a firing from
\* an earlier second than a resolve that was taken in, in whatever order the
\* resolves came, through crashes and failed statements.
THEOREM OverIsOver == Spec => WhatIsOverOpensNothing
<1> DEFINE P(n) == opened'[n][1] = "delivery" =>
             LET i == opened'[n][2]
             IN  /\ i \notin taken
                 /\ FromFiring(opened'[n]) =>
                      \A r \in taken : Inbox[r].status = "resolved" /\ Inbox[r].alert = Inbox[i].alert
                        => Second(Inbox[i].at) >= Second(Inbox[r].at)
<1>1. ASSUME Inv, [Next]_vars, NEW n \in NewlyOpened PROVE P(n)
  <2>1. opened \in Seq(Sources) BY <1>1 DEF Inv
  <2>2. CASE opened' = opened BY <1>1, <2>1, <2>2, NewlyOpenedIs
  <2>3. ASSUME NEW i \in DOMAIN Inbox, OpensFor(i), opened' = Append(opened, <<"delivery", i>>)
        PROVE  P(n)
    <3>1. <<"delivery", i>> \in Sources BY DEF Sources
    <3>2. opened'[n] = <<"delivery", i>> BY <1>1, <2>1, <2>3, <3>1, NewlyOpenedIs
    <3>3. opened'[n][2] = i BY <3>2
    <3>4. FromFiring(opened'[n]) => Inbox[i].status = "firing" BY <3>3 DEF FromFiring
    <3> QED BY <1>1, <2>3, <3>3, <3>4, NotOver
  <2>4. ASSUME NEW k \in DOMAIN Posts, opened' = Append(opened, <<"request", k>>) PROVE P(n)
    <3>1. <<"request", k>> \in Sources BY DEF Sources
    <3>2. opened'[n] = <<"request", k>> BY <1>1, <2>1, <2>4, <3>1, NewlyOpenedIs
    <3>3. opened'[n][1] # "delivery" BY <3>2
    <3> QED BY <3>3
  <2>5. \A s, q : Over(s, q) => opened' = s.opened BY DEF Over, End
  <2>6. Crash => opened' = opened BY DEF Crash, history
  <2>7. UNCHANGED <<mem, db, waiting, fails, crashes, history>> => opened' = opened BY DEF history
  <2>. HIDE DEF P
  <2> QED BY <1>1, <2>2, <2>3, <2>4, <2>5, <2>6, <2>7, StepIs
<1> DEFINE A == \A k \in NewlyOpened : opened'[k][1] = "delivery" =>
                 LET i == opened'[k][2]
                 IN  /\ i \notin taken
                     /\ FromFiring(opened'[k]) =>
                          \A r \in taken : Inbox[r].status = "resolved" /\ Inbox[r].alert = Inbox[i].alert
                            => Second(Inbox[i].at) >= Second(Inbox[r].at)
<1>2. Inv /\ [Next]_vars => [A]_vars BY <1>1
<1> QED BY <1>2, OnCallInv, PTL DEF Spec, WhatIsOverOpensNothing

\* What a cursor from before the step is told after it.
LEMMA ListedAfter ==
  ASSUME Inv, [Next]_vars
  PROVE  /\ fails' = 0 => \A n \in DOMAIN mem'.incidents :
              n \notin DOMAIN mem.incidents \/ mem'.incidents[n] # mem.incidents[n]
                => n \in Changes(mem', mem.seq)
         /\ fails' + crashes' = 0 /\ (mem'.overrides # mem.overrides \/ mem'.last # mem.last)
              => OnCallChanged(mem', mem.seq)
<1>1. RestartLosesNothing /\ RestartLosesNothing' /\ fails \in Nat /\ crashes \in Nat
  <2>1. Inv' BY NextInv
  <2> QED BY <2>1 DEF Inv
<1>2. ASSUME NEW s, NEW q, Over(s, q)
      PROVE  /\ fails' = 0 => \A n \in DOMAIN mem'.incidents :
                   n \notin DOMAIN mem.incidents \/ mem'.incidents[n] # mem.incidents[n]
                     => n \in Changes(mem', mem.seq)
             /\ fails' + crashes' = 0 /\ (mem'.overrides # mem.overrides \/ mem'.last # mem.last)
                  => OnCallChanged(mem', mem.seq)
  <2>1. /\ fails' = 0 => fails = 0
        /\ fails' + crashes' = 0 => fails + crashes = 0 /\ ~s.hit
        /\ db' = s.d /\ mem' = (IF Died(s) THEN Load(s.d) ELSE s.m)
    BY <1>2, CountsAfter
  <2>2. Listed(s.d) /\ Told(s) BY <1>2 DEF Over, Done, Good, DbOn
  <2>3. ASSUME fails' = 0, NEW n \in DOMAIN mem'.incidents,
               n \notin DOMAIN mem.incidents \/ mem'.incidents[n] # mem.incidents[n]
        PROVE  n \in Changes(mem', mem.seq)
    <3>1. mem' = Load(s.d) BY <1>1, <2>1, <2>3 DEF RestartLosesNothing, Load
    <3>2. mem'.incidents = s.d.incidents BY <3>1 DEF Load
    <3>3. mem'.incidents[n].changed > mem.seq BY <2>1, <2>2, <2>3, <3>2 DEF Listed
    <3> QED BY <2>3, <3>3 DEF Changes
  <2>4. ASSUME fails' + crashes' = 0, mem'.overrides # mem.overrides \/ mem'.last # mem.last
        PROVE  OnCallChanged(mem', mem.seq)
    <3>1. fails + crashes = 0 /\ ~s.hit BY <2>1, <2>4
    <3>2. mem' = s.m BY <2>1, <3>1 DEF Died
    <3> QED BY <2>2, <2>4, <3>1, <3>2 DEF Told, OnCallChanged
  <2> QED BY <2>3, <2>4
<1>3. CASE Crash
  <2>1. mem' = Load(db) /\ fails' = fails /\ fails' + crashes' # 0 BY <1>1, <1>3 DEF Crash
  <2>2. fails' = 0 => mem' = mem BY <1>1, <2>1 DEF RestartLosesNothing
  <2> QED BY <2>1, <2>2
<1>4. CASE mem' = mem BY <1>4
<1>5. UNCHANGED <<mem, db, waiting, fails, crashes, history>> => mem' = mem OBVIOUS
<1>6. (\E s, q : Over(s, q)) \/ Crash \/ UNCHANGED <<mem, db, waiting, fails, crashes, history>>
  BY StepIs
<1> QED BY <1>2, <1>3, <1>4, <1>5, <1>6

\* A client with the cursor from before a step is told of every incident the step
\* changed, unless a statement has failed, and of overrides and handoffs unless
\* something failed or died.
THEOREM ClientsAreTold == Spec => EveryChangeIsListed
<1> DEFINE P == /\ fails' = 0 => \A n \in DOMAIN mem'.incidents :
                     n \notin DOMAIN mem.incidents \/ mem'.incidents[n] # mem.incidents[n]
                       => n \in Changes(mem', mem.seq)
                /\ fails' + crashes' = 0 /\ (mem'.overrides # mem.overrides \/ mem'.last # mem.last)
                     => OnCallChanged(mem', mem.seq)
<1>1. Inv /\ [Next]_vars => [P]_vars BY ListedAfter
<1> QED BY <1>1, OnCallInv, PTL DEF Spec, EveryChangeIsListed
=============================================================================
