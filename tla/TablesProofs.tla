---------------------------- MODULE TablesProofs ----------------------------
(***************************************************************************)
(* Theorems about the components that are functions of a table, a setting  *)
(* or a short record.                                                      *)
(***************************************************************************)
EXTENDS MCTables, FiniteSetTheorems, SequenceTheorems, WellFoundedInduction, TLAPS

-----------------------------------------------------------------------------
(* Induction over numbers, by the least element of a set.                  *)

\* A set of numbers that is not empty has a least element.
LEMMA Least ==
  ASSUME NEW T, T \subseteq Nat, T # {}
  PROVE  \E x \in T : \A y \in T : x <= y
<1>1. \E x \in T : \A y \in T : ~(<<y, x>> \in OpToRel(<, Nat))
  <2>. HIDE DEF OpToRel
  <2>1. IsWellFoundedOn(OpToRel(<, Nat), Nat) BY NatLessThanWellFounded, Zenon
  <2> QED BY <2>1, WFMin, Zenon
<1>2. PICK x \in T : \A y \in T : <<y, x>> \notin OpToRel(<, Nat) BY <1>1
<1>3. ASSUME NEW y \in T PROVE ~(y < x)
  <2>1. y \in Nat /\ x \in Nat /\ <<y, x>> \notin OpToRel(<, Nat) BY <1>2, <1>3
  <2> QED BY <2>1, Zenon DEF OpToRel
<1>4. \A y \in T : x <= y BY <1>3
<1> QED BY <1>4

\* A set that holds zero and the successor of what it holds has every number.
LEMMA Induction ==
  ASSUME NEW T, 0 \in T, \A k \in Nat : k \in T => k + 1 \in T
  PROVE  \A k \in Nat : k \in T
<1> SUFFICES ASSUME Nat \ T # {} PROVE FALSE OBVIOUS
<1>1. PICK k \in Nat \ T : \A y \in Nat \ T : k <= y BY Least
<1>2. k # 0 /\ k \in Nat /\ k \notin T BY <1>1
<1>3. k - 1 \in Nat /\ (k - 1) + 1 = k BY <1>2
<1>4. k - 1 \notin Nat \ T BY <1>1, <1>3
<1> QED BY <1>2, <1>3, <1>4

-----------------------------------------------------------------------------
(* Router.                                                                 *)

\* The table is a finite function from names to routes.
TableOK == /\ DOMAIN table \subseteq Names /\ IsFiniteSet(DOMAIN table)
           /\ table = [n \in DOMAIN table |-> table[n]]
           /\ \A n \in DOMAIN table : table[n] \in Routes

\* s lists the names of X in the order of Before.
Lists(s, X) ==
  /\ s \in [1..Cardinality(X) -> X]
  /\ \A i, j \in 1..Cardinality(X) : i < j => Before(s[i], s[j])

\* Names of the table have numbers for priorities.
LEMMA Numbers ==
  ASSUME TableOK, NEW n \in DOMAIN table
  PROVE  n \in Nat /\ table[n].priority \in Nat
<1>1. n \in Names /\ table[n].priority \in Priorities BY DEF TableOK, Routes
<1> QED BY <1>1, RouterAssumption DEF RouterAssumption

\* Of the names in a set of the table's, one comes after all others.
LEMMA LastOne ==
  ASSUME TableOK, NEW X, X \subseteq DOMAIN table, X # {}
  PROVE  \E x \in X : \A y \in X : y # x => Before(y, x)
<1> DEFINE P == {table[n].priority : n \in X}
<1>1. P \subseteq Nat /\ P # {} BY Numbers
<1>2. PICK p \in P : \A q \in P : p <= q
  <2>. HIDE DEF P
  <2> QED BY <1>1, Least
<1> DEFINE L == {n \in X : table[n].priority = p}
<1>3. L # {} BY <1>2
<1>4. IsFiniteSet(L)
  <2>1. L \in SUBSET DOMAIN table OBVIOUS
  <2>. HIDE DEF L
  <2> QED BY <2>1, FS_Subset DEF TableOK
<1>5. \E x \in L : \A y \in L : y <= x
  <2> DEFINE F(k) == \A Y \in SUBSET L : Y # {} /\ Cardinality(Y) = k
                       => \E x \in Y : \A y \in Y : y <= x
             T == {k \in Nat : F(k)}
  <2>0. \A n \in L : n \in Nat BY Numbers
  <2>. HIDE DEF L
  <2>1. 0 \in T
    <3>1. ASSUME NEW Y \in SUBSET L, Cardinality(Y) = 0 PROVE Y = {}
      BY <1>4, <3>1, FS_Subset, FS_EmptySet
    <3> QED BY <3>1
  <2>2. ASSUME NEW k \in Nat, k \in T PROVE k + 1 \in T
    <3> SUFFICES ASSUME NEW Y \in SUBSET L, Y # {}, Cardinality(Y) = k + 1
                 PROVE  \E x \in Y : \A y \in Y : y <= x
      OBVIOUS
    <3>1. PICK z : z \in Y OBVIOUS
    <3>2. IsFiniteSet(Y) BY <1>4, FS_Subset
    <3>3. Cardinality(Y \ {z}) = k
      <4>1. Cardinality(Y \ {z}) = Cardinality(Y) - 1 BY <3>1, <3>2, FS_RemoveElement
      <4> QED BY <4>1
    <3>4. CASE Y \ {z} = {} BY <3>1, <3>4, <2>0
    <3>5. CASE Y \ {z} # {}
      <4>1. F(k) BY <2>2
      <4>2. PICK x \in Y \ {z} : \A y \in Y \ {z} : y <= x BY <3>3, <3>5, <4>1
      <4>3. x \in Nat /\ z \in Nat BY <2>0, <3>1, <4>2
      <4>4. CASE z <= x BY <3>1, <4>2, <4>4
      <4>5. CASE ~(z <= x)
        <5>1. \A y \in Y : y <= z BY <2>0, <4>2, <4>3, <4>5
        <5> QED BY <3>1, <5>1
      <4> QED BY <4>4, <4>5
    <3> QED BY <3>4, <3>5
  <2>3. \A k \in Nat : k \in T
    <3>1. \A k \in Nat : k \in T => k + 1 \in T BY <2>2
    <3>. HIDE DEF T
    <3> QED BY <2>1, <3>1, Induction
  <2>4. F(Cardinality(L)) BY <1>4, <2>3, FS_CardinalityType
  <2> QED BY <1>3, <2>4
<1>6. PICK x \in L : \A y \in L : y <= x BY <1>5
<1>7. x \in X /\ table[x].priority = p BY <1>6
<1>8. ASSUME NEW y \in X, y # x PROVE Before(y, x)
  <2>1. x \in Nat /\ y \in Nat /\ table[y].priority \in Nat /\ p \in Nat BY <1>1, <1>7, <1>8, Numbers
  <2>2. p <= table[y].priority BY <1>2
  <2>3. CASE table[y].priority = p
    <3>1. y <= x BY <1>6, <2>3
    <3> QED BY <1>7, <1>8, <2>1, <2>3, <3>1 DEF Before
  <2>4. CASE table[y].priority # p BY <1>7, <2>1, <2>2, <2>4 DEF Before
  <2> QED BY <2>3, <2>4
<1> QED BY <1>7, <1>8

\* Any names of the table can be listed in order.
LEMMA CanBeListed ==
  ASSUME TableOK, NEW X, X \subseteq DOMAIN table
  PROVE  \E s : Lists(s, X)
<1> DEFINE F(k) == \A Y \in SUBSET DOMAIN table : Cardinality(Y) = k => \E s : Lists(s, Y)
           T == {k \in Nat : F(k)}
<1>0. \A Y \in SUBSET DOMAIN table : IsFiniteSet(Y) /\ Cardinality(Y) \in Nat
  BY FS_Subset, FS_CardinalityType DEF TableOK
<1>1. 0 \in T
  <2> SUFFICES ASSUME NEW Y \in SUBSET DOMAIN table, Cardinality(Y) = 0 PROVE \E s : Lists(s, Y)
    OBVIOUS
  <2> DEFINE s == [i \in 1..0 |-> i]
  <2>1. Lists(s, Y) BY DEF Lists
  <2> QED BY <2>1
<1>2. ASSUME NEW k \in Nat, k \in T PROVE k + 1 \in T
  <2> SUFFICES ASSUME NEW Y \in SUBSET DOMAIN table, Cardinality(Y) = k + 1
               PROVE  \E s : Lists(s, Y)
    OBVIOUS
  <2>1. Y # {} BY FS_EmptySet
  <2>2. PICK z \in Y : \A y \in Y : y # z => Before(y, z) BY <2>1, LastOne
  <2> DEFINE Z == Y \ {z}
  <2>3. Z \in SUBSET DOMAIN table /\ Cardinality(Z) = k
    <3>1. Cardinality(Y \ {z}) = Cardinality(Y) - 1 BY <1>0, <2>2, FS_RemoveElement
    <3> QED BY <3>1
  <2>4. PICK s : Lists(s, Z) BY <1>2, <2>3
  <2> DEFINE t == [i \in 1..(k + 1) |-> IF i = k + 1 THEN z ELSE s[i]]
  <2>5. \A i \in 1..k : s[i] \in Y /\ s[i] # z /\ t[i] = s[i]
    <3>1. s \in [1..k -> Z] BY <2>3, <2>4 DEF Lists
    <3>2. \A i \in 1..k : s[i] \in Z BY <3>1
    <3>3. \A i \in 1..k : t[i] = s[i] OBVIOUS
    <3> QED BY <3>2, <3>3
  <2>6. t[k + 1] = z /\ \A i \in 1..(k + 1) : i = k + 1 \/ i \in 1..k OBVIOUS
  <2>7. t \in [1..(k + 1) -> Y] BY <2>5, <2>6
  <2>8. \A i, j \in 1..k : i < j => Before(s[i], s[j]) BY <2>3, <2>4 DEF Lists
  <2>. HIDE DEF t, Z
  <2>9. \A i, j \in 1..(k + 1) : i < j => Before(t[i], t[j])
    <3> TAKE i, j \in 1..(k + 1)
    <3> HAVE i < j
    <3>1. i \in 1..k OBVIOUS
    <3>2. CASE j = k + 1 BY <2>2, <2>5, <2>6, <3>1, <3>2
    <3>3. CASE j # k + 1 BY <2>5, <2>8, <3>1, <3>3
    <3> QED BY <3>2, <3>3
  <2>10. Lists(t, Y) BY <2>7, <2>9 DEF Lists
  <2> QED BY <2>10
<1>3. \A k \in Nat : k \in T
  <2>1. \A k \in Nat : k \in T => k + 1 \in T BY <1>2
  <2>. HIDE DEF T
  <2> QED BY <1>1, <2>1, Induction
<1>4. Cardinality(X) \in T BY <1>0, <1>3
<1> QED BY <1>4

\* SortByPriority lists names of the table in order.
LEMMA Sorted ==
  ASSUME TableOK, NEW X, X \subseteq DOMAIN table
  PROVE  Lists(SortByPriority(X), X)
<1> DEFINE In(s) == \A i, j \in DOMAIN s : i < j => Before(s[i], s[j])
           Q == [1..Cardinality(X) -> X]
           t == SortByPriority(X)
<1>1. PICK s : Lists(s, X) BY CanBeListed
<1>2. s \in Q /\ In(s)
  <2>1. s \in Q /\ DOMAIN s = 1..Cardinality(X) BY <1>1 DEF Lists
  <2>2. In(s) BY <1>1, <2>1 DEF Lists
  <2> QED BY <2>1, <2>2
<1>3. t \in Q /\ In(t) BY <1>2 DEF SortByPriority
<1>. HIDE DEF t
<1>4. DOMAIN t = 1..Cardinality(X) BY <1>3
<1>5. Lists(t, X) BY <1>3, <1>4 DEF Lists
<1> QED BY <1>5 DEF t

\* A list of a set is a sequence with all of its members, highest priority first.
LEMMA Listing ==
  ASSUME TableOK, NEW X, X \subseteq DOMAIN table, NEW s, Lists(s, X)
  PROVE  /\ s \in Seq(X) /\ Len(s) \in Nat
         /\ \A i \in 1..Len(s) : s[i] \in X /\ s[i] \in Nat /\ table[s[i]].priority \in Nat
         /\ \A i, j \in 1..Len(s) : (i # j => s[i] # s[j]) /\ (i < j => Before(s[i], s[j]))
         /\ \A i, j \in 1..Len(s) : i <= j => table[s[j]].priority <= table[s[i]].priority
         /\ \A x \in X : \E i \in 1..Len(s) : s[i] = x
<1> DEFINE N == Cardinality(X)
<1>1. IsFiniteSet(X) /\ N \in Nat BY FS_Subset, FS_CardinalityType DEF TableOK
<1>2. s \in [1..N -> X] BY DEF Lists
<1>3. s \in Seq(X) /\ Len(s) = N
  <2>. HIDE DEF N
  <2> QED BY <1>1, <1>2, SeqDef
<1>4. \A i \in 1..N : s[i] \in X /\ s[i] \in Nat /\ table[s[i]].priority \in Nat
  BY <1>2, Numbers
<1>5. \A i, j \in 1..N : (i # j => s[i] # s[j]) /\ (i < j => Before(s[i], s[j]))
  <2>1. \A i, j \in 1..N : i < j => Before(s[i], s[j]) BY DEF Lists
  <2>2. \A i, j \in 1..N : i < j => s[i] # s[j] BY <1>4, <2>1 DEF Before
  <2> QED BY <1>1, <2>1, <2>2
<1>6. ASSUME NEW i \in 1..N, NEW j \in 1..N, i <= j
      PROVE  table[s[j]].priority <= table[s[i]].priority
  <2>1. CASE i = j BY <1>4, <2>1
  <2>2. CASE i # j
    <3>1. Before(s[i], s[j]) BY <1>5, <1>6, <2>2
    <3> QED BY <1>4, <3>1 DEF Before
  <2> QED BY <2>1, <2>2
<1>7. \A x \in X : \E i \in 1..N : s[i] = x
  <2>1. s \in Injection(1..N, X) BY <1>2, <1>5 DEF Injection, IsInjective
  <2>2. Cardinality(1..N) = N BY <1>1, FS_Interval
  <2>3. s \in Surjection(1..N, X)
    <3>. HIDE DEF N
    <3>1. N = Cardinality(X) BY DEF N
    <3> QED BY <1>1, <2>1, <2>2, <3>1, FS_Injection
  <2> QED BY <2>3 DEF Surjection
<1> QED BY <1>1, <1>3, <1>4, <1>5, <1>6, <1>7

\* A stopping route of s has a higher priority than the mth.
Cuts(s, m) == \E q \in 1..Len(s) : table[s[q]].stop /\ table[s[q]].priority > table[s[m]].priority

\* What is kept of a list is its beginning, up to the first route that is cut off.
LEMMA Kept ==
  ASSUME TableOK, NEW X, X \subseteq DOMAIN table, NEW s, Lists(s, X)
  PROVE  \E c \in 0..Len(s) : /\ ApplyStopProcessing(s) = SubSeq(s, 1, c)
                              /\ \A m \in 1..Len(s) : m <= c <=> ~Cuts(s, m)
<1> DEFINE stops == {n \in 1..Len(s) : table[s[n]].stop}
           first == CHOOSE n \in stops : \A m \in stops : n <= m
           kept(n) == n <= first \/ table[s[n]].priority = table[s[first]].priority
           Right(n) == (\A m \in 1..n : kept(m)) /\ (n = Len(s) \/ ~kept(n + 1))
           c == CHOOSE n \in first..Len(s) : Right(n)
<1>1. /\ s \in Seq(X) /\ Len(s) \in Nat
      /\ \A i \in 1..Len(s) : table[s[i]].priority \in Nat
      /\ \A i, j \in 1..Len(s) : i <= j => table[s[j]].priority <= table[s[i]].priority
  BY Listing
<1>2. CASE stops = {}
  <2>1. ApplyStopProcessing(s) = s BY <1>2 DEF ApplyStopProcessing
  <2>2. SubSeq(s, 1, Len(s)) = s BY <1>1
  <2>3. \A m \in 1..Len(s) : ~Cuts(s, m) BY <1>2 DEF Cuts
  <2>4. \A m \in 1..Len(s) : m <= Len(s) <=> ~Cuts(s, m) BY <1>1, <2>3
  <2>5. ApplyStopProcessing(s) = SubSeq(s, 1, Len(s)) /\ Len(s) \in 0..Len(s) BY <1>1, <2>1, <2>2
  <2> QED BY <2>4, <2>5, Zenon
<1>3. CASE stops # {}
  <2>1. stops \subseteq Nat OBVIOUS
  <2>2. \E n \in stops : \A m \in stops : n <= m
    <3>. HIDE DEF stops
    <3> QED BY <1>3, <2>1, Least
  <2>3. first \in stops /\ \A m \in stops : first <= m
    <3>. HIDE DEF stops
    <3> QED BY <2>2
  <2>4. first \in 1..Len(s) /\ table[s[first]].stop BY <2>3
  <2>5. ApplyStopProcessing(s) = SubSeq(s, 1, c) BY <1>3 DEF ApplyStopProcessing
  <2>. HIDE DEF first, stops
  <2>6. \E n \in first..Len(s) : Right(n)
    <3> DEFINE E == {n \in first..Len(s) : n = Len(s) \/ ~kept(n + 1)}
    <3>1. E \subseteq Nat /\ Len(s) \in E BY <1>1, <2>4
    <3>2. PICK n \in E : \A m \in E : n <= m
      <4>. HIDE DEF E
      <4> QED BY <3>1, Least
    <3>3. \A m \in 1..n : kept(m)
      <4> TAKE m \in 1..n
      <4>1. CASE m <= first BY <4>1
      <4>2. CASE ~(m <= first)
        <5>1. m - 1 \in first..Len(s) /\ ~(n <= m - 1) /\ (m - 1) + 1 = m BY <1>1, <2>4, <4>2
        <5>2. m - 1 \notin E BY <3>2, <5>1
        <5> QED BY <5>1, <5>2
      <4> QED BY <4>1, <4>2
    <3> QED BY <3>2, <3>3
  <2>7. c \in first..Len(s) /\ Right(c) BY <2>6
  <2>. HIDE DEF c
  <2>8. ASSUME NEW m \in 1..Len(s) PROVE m <= c <=> ~Cuts(s, m)
    <3>1. CASE kept(m)
      <4>1. m <= c
        <5> SUFFICES ASSUME ~(m <= c) PROVE FALSE OBVIOUS
        <5>1. c + 1 \in 1..Len(s) /\ c + 1 <= m /\ ~kept(c + 1) BY <1>1, <2>4, <2>7
        <5>2. first <= c + 1 BY <2>4, <2>7
        <5>3. /\ table[s[m]].priority <= table[s[c + 1]].priority
              /\ table[s[c + 1]].priority <= table[s[first]].priority
          BY <1>1, <2>4, <5>1, <5>2
        <5>4. table[s[m]].priority = table[s[first]].priority
          BY <2>4, <2>7, <3>1, <5>1
        <5> QED BY <1>1, <2>4, <5>1, <5>3, <5>4
      <4>2. ~Cuts(s, m)
        <5> SUFFICES ASSUME NEW q \in 1..Len(s), table[s[q]].stop,
                            table[s[q]].priority > table[s[m]].priority
                     PROVE  FALSE
          BY DEF Cuts
        <5>1. first <= q BY <2>3 DEF stops
        <5>2. table[s[q]].priority <= table[s[first]].priority BY <1>1, <2>4, <5>1
        <5>3. table[s[first]].priority <= table[s[m]].priority
          <6>1. CASE m <= first BY <1>1, <2>4, <6>1
          <6>2. CASE ~(m <= first) BY <1>1, <2>4, <3>1, <6>2
          <6> QED BY <6>1, <6>2
        <5> QED BY <1>1, <2>4, <5>2, <5>3
      <4> QED BY <4>1, <4>2
    <3>2. CASE ~kept(m)
      <4>1. ~(m <= c) BY <2>4, <2>7, <3>2
      <4>2. table[s[m]].priority <= table[s[first]].priority /\ table[s[m]].priority # table[s[first]].priority
        BY <1>1, <2>4, <3>2
      <4>3. table[s[first]].priority > table[s[m]].priority BY <1>1, <2>4, <4>2
      <4> QED BY <2>4, <4>1, <4>3 DEF Cuts
    <3> QED BY <3>1, <3>2
  <2>9. c \in 0..Len(s) BY <2>4, <2>7
  <2> QED BY <2>5, <2>8, <2>9
<1> QED BY <1>2, <1>3

\* The routes that Match orders: those that hold, unless a fallback is not needed.
Selected(ev) == LET matched == Candidates(ev, FALSE)
                IN  IF matched = {} THEN Candidates(ev, TRUE) ELSE matched

\* A candidate is a route that holds, and is a fallback if that is asked for.
LEMMA CandidatesHold ==
  ASSUME NEW ev, NEW dflt
  PROVE  Candidates(ev, dflt) = {n \in DOMAIN table : Holds(n, ev) /\ table[n].isDefault = dflt}
<1>1. ASSUME NEW n PROVE MatchesAll(ev, table[n].match) <=>
        \A k \in DOMAIN table[n].match :
          <<k, table[n].match[k]>> \in {<<f, ev[f]>> : f \in DOMAIN ev}
  BY DEF MatchesAll
<1> QED BY <1>1 DEF Candidates, Holds

\* An event is matched by the right routes, in their order.
LEMMA MatchIsRight ==
  ASSUME TableOK, NEW ev
  PROVE  LET s == Match(ev)
         IN  /\ \A i, j \in 1..Len(s) :
                  i < j => \/ table[s[i]].priority > table[s[j]].priority
                           \/ table[s[i]].priority = table[s[j]].priority /\ s[i] < s[j]
             /\ S!ToSet(s) = {n \in Names : Holds(n, ev) /\ ~Shadowed(n, ev)}
<1> DEFINE X == Selected(ev)
           s == SortByPriority(X)
<1>1. X \subseteq DOMAIN table /\ X \subseteq Names
      /\ \A n \in X : Holds(n, ev)
  BY CandidatesHold DEF Selected, TableOK
<1>2. ASSUME NEW n \in DOMAIN table, Holds(n, ev)
      PROVE  n \in X <=> ~(table[n].isDefault /\ \E m \in Names : Holds(m, ev) /\ ~table[m].isDefault)
  <2>1. \A m : Holds(m, ev) => m \in DOMAIN table /\ m \in Names /\ table[m].isDefault \in BOOLEAN
    BY DEF Holds, TableOK, Routes
  <2>2. Candidates(ev, FALSE) = {} <=> ~\E m \in Names : Holds(m, ev) /\ ~table[m].isDefault
    BY <2>1, CandidatesHold
  <2> QED BY <1>2, <2>1, <2>2, CandidatesHold DEF Selected
<1>3. ASSUME NEW n \in X, NEW m, Holds(m, ev), table[m].isDefault = table[n].isDefault
      PROVE  m \in X
  <2>1. m \in DOMAIN table BY <1>3 DEF Holds
  <2> QED BY <1>1, <1>2, <1>3, <2>1
<1>4. Match(ev) = ApplyStopProcessing(s) BY DEF Match, Selected
<1>. HIDE DEF X
<1>5. Lists(s, X) BY <1>1, Sorted
<1>. HIDE DEF s
<1>6. /\ s \in Seq(X) /\ Len(s) \in Nat
      /\ \A i \in 1..Len(s) : s[i] \in X
      /\ \A i, j \in 1..Len(s) : i < j => Before(s[i], s[j])
      /\ \A x \in X : \E i \in 1..Len(s) : s[i] = x
  BY <1>1, <1>5, Listing
<1>7. PICK c \in 0..Len(s) : /\ ApplyStopProcessing(s) = SubSeq(s, 1, c)
                             /\ \A m \in 1..Len(s) : m <= c <=> ~Cuts(s, m)
  BY <1>1, <1>5, Kept
<1> DEFINE r == Match(ev)
<1>8. Len(r) = c /\ \A i \in 1..c : r[i] = s[i]
  BY <1>4, <1>6, <1>7
<1>9. DOMAIN r = 1..c BY <1>4, <1>6, <1>7
<1>. HIDE DEF r
<1>10. \A i, j \in 1..Len(r) : i < j => Before(r[i], r[j])
  <2> TAKE i, j \in 1..Len(r)
  <2> HAVE i < j
  <2>1. i \in 1..Len(s) /\ j \in 1..Len(s) BY <1>6, <1>7, <1>8
  <2>2. Before(s[i], s[j]) BY <1>6, <2>1
  <2>3. r[i] = s[i] /\ r[j] = s[j] BY <1>8
  <2> QED BY <2>2, <2>3
<1>11. S!ToSet(r) = {s[i] : i \in 1..c} BY <1>8, <1>9 DEF S!ToSet
<1>12. ASSUME NEW n \in X, NEW k \in 1..Len(s), s[k] = n
       PROVE  Cuts(s, k) <=> Shadowed(n, ev)
  <2>1. ~(table[n].isDefault /\ \E m \in Names : Holds(m, ev) /\ ~table[m].isDefault)
    BY <1>1, <1>2, <1>12
  <2>2. \A m \in X : table[m].isDefault = table[n].isDefault
    <3> TAKE m \in X
    <3>1. ~(table[m].isDefault /\ \E i \in Names : Holds(i, ev) /\ ~table[i].isDefault)
      BY <1>1, <1>2
    <3>2. table[m].isDefault \in BOOLEAN /\ table[n].isDefault \in BOOLEAN
      BY <1>1, <1>12 DEF TableOK, Routes
    <3> QED BY <1>1, <2>1, <3>1, <3>2
  <2>3. ASSUME Cuts(s, k) PROVE Shadowed(n, ev)
    <3>1. PICK q \in 1..Len(s) : table[s[q]].stop /\ table[s[q]].priority > table[s[k]].priority
      BY <2>3 DEF Cuts
    <3>2. s[q] \in X /\ s[q] \in Names /\ Holds(s[q], ev) BY <1>1, <1>6
    <3> QED BY <1>12, <2>2, <3>1, <3>2 DEF Shadowed
  <2>4. ASSUME Shadowed(n, ev) PROVE Cuts(s, k)
    <3>1. PICK m \in Names : /\ Holds(m, ev) /\ table[m].stop
                             /\ table[m].priority > table[n].priority
                             /\ table[m].isDefault = table[n].isDefault
      BY <2>1, <2>4 DEF Shadowed
    <3>2. PICK q \in 1..Len(s) : s[q] = m BY <1>3, <1>6, <1>12, <3>1
    <3> QED BY <1>12, <3>1, <3>2 DEF Cuts
  <2> QED BY <2>3, <2>4
<1>13. \A n : n \in S!ToSet(r) <=> n \in Names /\ Holds(n, ev) /\ ~Shadowed(n, ev)
  <2> TAKE n
  <2>1. ASSUME n \in S!ToSet(r) PROVE n \in Names /\ Holds(n, ev) /\ ~Shadowed(n, ev)
    <3>1. PICK k \in 1..c : s[k] = n BY <1>11, <2>1
    <3>2. k \in 1..Len(s) /\ k <= c BY <1>6, <1>7, <3>1
    <3>3. n \in X /\ ~Cuts(s, k) BY <1>6, <1>7, <3>1, <3>2
    <3> QED BY <1>1, <1>12, <3>1, <3>2, <3>3
  <2>2. ASSUME n \in Names, Holds(n, ev), ~Shadowed(n, ev) PROVE n \in S!ToSet(r)
    <3>1. n \in X BY <1>2, <2>2 DEF Holds, Shadowed
    <3>2. PICK k \in 1..Len(s) : s[k] = n BY <1>6, <3>1
    <3>3. k <= c BY <1>7, <1>12, <2>2, <3>1, <3>2
    <3>4. k \in 1..c BY <1>6, <1>7, <3>2, <3>3
    <3> QED BY <1>11, <3>2, <3>4
  <2> QED BY <2>1, <2>2
<1>14. S!ToSet(r) = {n \in Names : Holds(n, ev) /\ ~Shadowed(n, ev)} BY <1>13
<1> QED BY <1>10, <1>14 DEF Before, r

\* The table is a finite set of routes.
LEMMA TableStays == RouterSpec => []TableOK
<1>1. RouterInit => TableOK
  BY FS_EmptySet DEF RouterInit, TableOK
<1>2. ASSUME TableOK, [RouterNext]_table PROVE TableOK'
  <2>1. CASE UNCHANGED table BY <1>2, <2>1 DEF TableOK
  <2>2. ASSUME NEW n \in Names, NEW r \in Routes, UpsertRoute(n, r) PROVE TableOK'
    <3>1. table' = [m \in (DOMAIN table) \cup {n} |-> IF m = n THEN r ELSE table[m]]
      BY <2>2 DEF UpsertRoute
    <3>2. DOMAIN table' = (DOMAIN table) \cup {n} BY <3>1
    <3>3. IsFiniteSet((DOMAIN table) \cup {n}) BY <1>2, FS_AddElement DEF TableOK
    <3>4. \A m \in DOMAIN table' : table'[m] \in Routes BY <1>2, <2>2, <3>1 DEF TableOK
    <3>5. table' = [m \in DOMAIN table' |-> table'[m]] BY <3>1, <3>2
    <3>6. DOMAIN table' \subseteq Names BY <1>2, <2>2, <3>2 DEF TableOK
    <3> QED BY <3>2, <3>3, <3>4, <3>5, <3>6 DEF TableOK
  <2> QED BY <1>2, <2>1, <2>2 DEF RouterNext
<1> QED BY <1>1, <1>2, PTL DEF RouterSpec

\* For any routes, priorities and conditions: an event takes exactly the enabled
\* routes whose conditions hold and that no fallback rule or stopping route rules
\* out, in an order that does not depend on how the table was filled.
THEOREM RoutesAreRight == RouterSpec => []TakesTheRightRoutes
<1>1. TableOK => TakesTheRightRoutes
  <2> SUFFICES ASSUME TableOK PROVE TakesTheRightRoutes OBVIOUS
  <2> QED BY MatchIsRight DEF TakesTheRightRoutes, OrderIsDetermined
<1> QED BY <1>1, TableStays, PTL

-----------------------------------------------------------------------------
(* Backoff.                                                                *)

\* p is the powers of b up to the nth.
Powers(p, b, n) == p = [j \in 0..n |-> IF j = 0 THEN 1 ELSE b * p[j - 1]]

\* There are such powers, and Power is the last of them.
LEMMA PowersExist ==
  ASSUME NEW b, NEW n \in Nat
  PROVE  \E p : Powers(p, b, n) /\ Power(b, n) = p[n]
<1> DEFINE Made(k) == \E p : p = [j \in 0..k |-> IF j = 0 THEN 1 ELSE b * p[j - 1]]
           T == {k \in Nat : Made(k)}
<1>1. Made(0)
  <2> DEFINE p == [j \in 0..0 |-> 1]
  <2>1. p = [j \in 0..0 |-> IF j = 0 THEN 1 ELSE b * p[j - 1]] OBVIOUS
  <2> QED BY <2>1
<1>2. ASSUME NEW k \in Nat, Made(k) PROVE Made(k + 1)
  <2>1. PICK p : p = [j \in 0..k |-> IF j = 0 THEN 1 ELSE b * p[j - 1]] BY <1>2
  <2> DEFINE q == [j \in 0..(k + 1) |-> IF j = k + 1 THEN b * p[k] ELSE p[j]]
  <2>2. \A j \in 0..(k + 1) : q[j] = IF j = 0 THEN 1 ELSE b * q[j - 1]
    <3> TAKE j \in 0..(k + 1)
    <3>1. CASE j = k + 1 BY <3>1
    <3>2. CASE j # k + 1 BY <3>2, <2>1
    <3> QED BY <3>1, <3>2
  <2>3. q = [j \in 0..(k + 1) |-> IF j = 0 THEN 1 ELSE b * q[j - 1]] BY <2>2
  <2> QED BY <2>3
<1>3. Made(n)
  <2>. HIDE DEF Made
  <2>1. 0 \in T /\ \A k \in Nat : k \in T => k + 1 \in T BY <1>1, <1>2
  <2>2. \A k \in Nat : k \in T
    <3>. HIDE DEF T
    <3> QED BY <2>1, Induction
  <2> QED BY <2>2
<1>4. \E p : Powers(p, b, n) BY <1>3 DEF Powers
<1> QED BY <1>4 DEF Power, Powers

\* Power does what its name says.
LEMMA PowerIs ==
  ASSUME NEW b \in Int
  PROVE  Power(b, 0) = 1 /\ \A n \in Nat : Power(b, n + 1) = b * Power(b, n)
<1>1. Power(b, 0) = 1
  <2>1. PICK p : Powers(p, b, 0) /\ Power(b, 0) = p[0] BY PowersExist
  <2> QED BY <2>1 DEF Powers
<1>2. ASSUME NEW n \in Nat PROVE Power(b, n + 1) = b * Power(b, n)
  <2>1. PICK p : Powers(p, b, n) /\ Power(b, n) = p[n] BY PowersExist
  <2>2. PICK q : Powers(q, b, n + 1) /\ Power(b, n + 1) = q[n + 1] BY PowersExist
  <2>3. p[0] = 1 /\ \A k \in Nat : k + 1 <= n => p[k + 1] = b * p[k] BY <2>1 DEF Powers
  <2>4. q[0] = 1 /\ \A k \in Nat : k + 1 <= n + 1 => q[k + 1] = b * q[k] BY <2>2 DEF Powers
  <2> DEFINE T == {k \in Nat : k <= n => p[k] = q[k]}
  <2>5. 0 \in T BY <2>3, <2>4
  <2>6. ASSUME NEW k \in Nat, k \in T PROVE k + 1 \in T
    <3>1. CASE k + 1 <= n
      <4>1. p[k] = q[k] BY <2>6, <3>1
      <4> QED BY <2>3, <2>4, <3>1, <4>1
    <3>2. CASE ~(k + 1 <= n) BY <3>2
    <3> QED BY <3>1, <3>2
  <2>7. \A k \in Nat : k \in T
    <3>1. \A k \in Nat : k \in T => k + 1 \in T BY <2>6
    <3>. HIDE DEF T
    <3> QED BY <2>5, <3>1, Induction
  <2>8. p[n] = q[n] BY <2>7
  <2> QED BY <2>1, <2>2, <2>4, <2>8
<1> QED BY <1>1, <1>2

\* The powers of a positive number are positive and do not shrink; those of one are one.
LEMMA PowersGrow ==
  ASSUME NEW b \in Int, b >= 1
  PROVE  /\ \A n \in Nat : Power(b, n) \in Nat /\ Power(b, n) >= 1
         /\ \A n \in Nat : Power(b, n + 1) = b * Power(b, n) /\ Power(b, n + 1) >= Power(b, n)
         /\ b = 1 => \A n \in Nat : Power(b, n) = 1
<1> DEFINE Right(n) == /\ Power(b, n) \in Nat /\ Power(b, n) >= 1
                       /\ b = 1 => Power(b, n) = 1
           T == {n \in Nat : Right(n)}
<1>1. 0 \in T BY PowerIs
<1>2. ASSUME NEW n \in Nat, n \in T PROVE n + 1 \in T
  <2> DEFINE x == Power(b, n)
  <2>1. x \in Nat /\ x >= 1 /\ (b = 1 => x = 1) BY <1>2
  <2>2. Power(b, n + 1) = b * x BY PowerIs
  <2>. HIDE DEF x
  <2>3. b * x \in Nat /\ b * x >= 1 /\ (b = 1 => b * x = 1) BY <2>1
  <2> QED BY <2>2, <2>3
<1>3. \A n \in Nat : Right(n)
  <2>1. \A n \in Nat : n \in T => n + 1 \in T BY <1>2
  <2>2. \A n \in Nat : n \in T
    <3>. HIDE DEF T
    <3> QED BY <1>1, <2>1, Induction
  <2> QED BY <2>2
<1>4. ASSUME NEW n \in Nat PROVE Power(b, n + 1) = b * Power(b, n) /\ Power(b, n + 1) >= Power(b, n)
  <2> DEFINE x == Power(b, n)
  <2>1. x \in Nat BY <1>3
  <2>2. Power(b, n + 1) = b * x BY PowerIs
  <2>. HIDE DEF x
  <2>3. b * x >= x BY <2>1
  <2> QED BY <2>2, <2>3 DEF x
<1> QED BY <1>3, <1>4

\* The largest and the smallest integer, and what is between them.
LEMMA DurationsAre ==
  /\ MaxInt \in Nat /\ MinInt \in Int /\ MinInt < 0
  /\ Durations = MinInt..MaxInt
  /\ Second \in 1..MaxInt
<1>1. Width - 1 \in Nat BY BackoffAssumption DEF BackoffAssumption
<1> DEFINE x == Power(2, Width - 1)
<1>2. x \in Nat /\ x >= 1 BY <1>1, PowersGrow
<1>3. MaxInt = x - 1 /\ MinInt = -x BY DEF MaxInt, MinInt
<1>. HIDE DEF x
<1>4. MaxInt \in Nat /\ MinInt \in Int /\ MinInt < 0 BY <1>2, <1>3
<1> QED BY <1>4, BackoffAssumption DEF BackoffAssumption, Durations

\* The configuration in use: a factor of one at least, durations that fit.
ConfigOK == /\ cfg.factor \in Nat /\ cfg.factor >= 1
            /\ cfg.base \in Durations /\ cfg.max \in Durations

\* The first delay before it is capped, and the uncapped delay after attempt n.
Base == IF cfg.base <= 0 THEN Second ELSE cfg.base
Ideal(n) == Base * Power(cfg.factor, n - 1)

\* The delay is what the attempts so far make it.
DelayOK == /\ ConfigOK /\ attempts \in Nat
           /\ IF attempts = 0 THEN delay = 0
              ELSE delay \in Convert(Capped(Ideal(attempts), cfg.max))

\* The uncapped delays begin with a duration and grow by the factor.
LEMMA IdealGrows ==
  ASSUME ConfigOK
  PROVE  /\ Base \in 1..MaxInt /\ Ideal(1) = Base
         /\ \A n \in Nat \ {0} : /\ Ideal(n) \in Nat /\ Ideal(n) >= Base
                                 /\ Ideal(n + 1) = Ideal(n) * cfg.factor
                                 /\ Ideal(n + 1) >= Ideal(n)
                                 /\ cfg.factor = 1 => Ideal(n) = Base
<1>1. Base \in 1..MaxInt BY DurationsAre DEF ConfigOK, Base
<1> DEFINE f == cfg.factor
<1>2. f \in Nat /\ f >= 1 BY DEF ConfigOK
<1>. HIDE DEF f
<1>3. Power(f, 0) = 1 BY <1>2, PowerIs
<1>4. Ideal(1) = Base BY <1>1, <1>3, DurationsAre DEF Ideal, f
<1>5. ASSUME NEW n \in Nat \ {0}
      PROVE  /\ Ideal(n) \in Nat /\ Ideal(n) >= Base
             /\ Ideal(n + 1) = Ideal(n) * f /\ Ideal(n + 1) >= Ideal(n)
             /\ f = 1 => Ideal(n) = Base
  <2> DEFINE x == Power(f, n - 1)
             b == Base
  <2>1. n - 1 \in Nat /\ (n - 1) + 1 = n /\ (n + 1) - 1 = n OBVIOUS
  <2>2. x \in Nat /\ x >= 1 /\ (f = 1 => x = 1)
    <3>1. /\ \A k \in Nat : Power(f, k) \in Nat /\ Power(f, k) >= 1
          /\ f = 1 => \A k \in Nat : Power(f, k) = 1
      BY <1>2, PowersGrow
    <3> QED BY <2>1, <3>1
  <2>3. Power(f, n) = f * x
    <3>1. Power(f, (n - 1) + 1) = f * x BY <1>2, <2>1, PowersGrow
    <3> QED BY <2>1, <3>1
  <2>4. Ideal(n) = b * x BY DEF Ideal, f
  <2>5. Ideal(n + 1) = b * (f * x) BY <2>1, <2>3 DEF Ideal, f
  <2>6. b \in Nat /\ b >= 1 BY <1>1, DurationsAre
  <2>. HIDE DEF x, b
  <2>7. b * x \in Nat /\ b * x >= b /\ (f = 1 => b * x = b) BY <2>2, <2>6
  <2> DEFINE y == b * x
  <2>8. b * (f * x) = y * f BY <1>2, <2>2, <2>6
  <2>9. y \in Nat BY <2>7
  <2>. HIDE DEF y
  <2>10. y * f >= y BY <1>2, <2>9
  <2> QED BY <2>4, <2>5, <2>7, <2>8, <2>10 DEF y, b
<1> QED BY <1>1, <1>4, <1>5 DEF f

\* What is capped is positive and fits, and a larger one is not less.
LEMMA CappedFits ==
  ASSUME NEW d \in Nat, d >= 1, NEW e \in Nat, d <= e, NEW max \in 1..MaxInt
  PROVE  /\ Convert(Capped(d, max)) = {Capped(d, max)}
         /\ Capped(d, max) \in 1..max /\ Capped(d, max) <= Capped(e, max)
BY DurationsAre DEF Convert, Capped

\* The invariant of the delay.
LEMMA DelayStays == BackoffSpec => []DelayOK
<1>1. ASSUME BackoffInit PROVE DelayOK
  <2>1. PICK raw \in Raw : cfg = WithDefaults(raw) BY <1>1 DEF BackoffInit
  <2>2. /\ raw.base \in Durations /\ raw.factor \in Int /\ raw.max \in Durations
        /\ Defaults.base \in Durations /\ Defaults.factor \in Int /\ Defaults.max \in Durations
    BY BackoffAssumption DEF BackoffAssumption
  <2>3. /\ cfg.base = IF raw.base = 0 THEN Defaults.base ELSE raw.base
        /\ cfg.factor = IF raw.factor = 0 THEN Defaults.factor ELSE raw.factor
        /\ cfg.max = IF raw.max = 0 THEN Defaults.max ELSE raw.max
    BY <2>1 DEF WithDefaults
  <2>4. cfg.factor \in Int /\ cfg.factor >= 1 BY <1>1, <2>2, <2>3 DEF BackoffInit, Valid
  <2>5. ConfigOK BY <2>2, <2>3, <2>4 DEF ConfigOK
  <2> QED BY <1>1, <2>5 DEF DelayOK, BackoffInit
<1>2. ASSUME DelayOK, [ScheduleRetry]_retryVars PROVE DelayOK'
  <2>1. CASE ScheduleRetry
    <3>1. attempts' = attempts + 1 /\ attempts' # 0 /\ attempts' \in Nat /\ cfg' = cfg
      BY <1>2, <2>1 DEF ScheduleRetry, DelayOK
    <3>2. delay' \in Delays(cfg, attempts') BY <2>1, <3>1 DEF ScheduleRetry
    <3>3. delay' \in Convert(Capped(Ideal(attempts'), cfg.max))
      BY <3>2 DEF Delays, Ideal, Base
    <3>4. Ideal(attempts)' = Ideal(attempts') BY <3>1 DEF Ideal, Base
    <3>5. ConfigOK' BY <1>2, <3>1 DEF ConfigOK, DelayOK
    <3> QED BY <3>1, <3>3, <3>4, <3>5 DEF DelayOK
  <2>2. CASE UNCHANGED retryVars
    BY <1>2, <2>2 DEF DelayOK, ConfigOK, Ideal, Base, retryVars
  <2> QED BY <1>2, <2>1, <2>2
<1> QED BY <1>1, <1>2, PTL DEF BackoffSpec

\* For any width of a duration and any configuration that passes validation:
\* with a cap a retry waits for a positive time that never shrinks and never
\* exceeds the cap; without one the delay grows by the factor until it no longer
\* fits.
THEOREM BackoffGrows == BackoffSpec => GrowsToTheCap
<1> DEFINE A == IF cfg.max > 0 THEN delay' \in 1..cfg.max /\ delay' >= delay
                ELSE attempts > 0 /\ delay > 0 /\ delay <= MaxInt \div cfg.factor
                       => delay' = delay * cfg.factor
<1>1. ASSUME DelayOK, ScheduleRetry PROVE A
  <2> DEFINE n == attempts
             f == cfg.factor
  <2>1. ConfigOK /\ n \in Nat /\ n + 1 \in Nat \ {0} BY <1>1 DEF DelayOK
  <2>2. f \in Nat /\ f >= 1 /\ cfg.max \in MinInt..MaxInt
    BY <2>1, DurationsAre DEF ConfigOK
  <2>3. delay' \in Convert(Capped(Ideal(n + 1), cfg.max))
    BY <1>1 DEF ScheduleRetry, Delays, Ideal, Base
  <2>4. IF n = 0 THEN delay = 0 ELSE delay \in Convert(Capped(Ideal(n), cfg.max))
    BY <1>1 DEF DelayOK
  <2>5. /\ Base \in 1..MaxInt /\ Ideal(n + 1) \in Nat /\ Ideal(n + 1) >= Base
        /\ n # 0 => /\ Ideal(n) \in Nat /\ Ideal(n) >= Base
                    /\ Ideal(n + 1) = Ideal(n) * f /\ Ideal(n + 1) >= Ideal(n)
                    /\ f = 1 => Ideal(n) = Base
    BY <2>1, IdealGrows
  <2> DEFINE d == Ideal(n)
             e == Ideal(n + 1)
             max == cfg.max
  <2>. HIDE DEF d, e
  <2>6. CASE max > 0
    <3>1. max \in 1..MaxInt BY <2>2, <2>6, DurationsAre
    <3>2. e \in Nat /\ e >= 1 BY <2>5 DEF e
    <3>3. delay' = Capped(e, max) /\ Capped(e, max) \in 1..max
      BY <2>3, <3>1, <3>2, CappedFits DEF e
    <3>4. delay' >= delay
      <4>1. CASE n = 0 BY <2>4, <3>1, <3>3, <4>1
      <4>2. CASE n # 0
        <5>1. d \in Nat /\ d >= 1 /\ d <= e BY <2>5, <4>2 DEF d, e
        <5>2. delay = Capped(d, max) /\ Capped(d, max) <= Capped(e, max)
              /\ Capped(d, max) \in 1..max
          BY <2>4, <3>1, <3>2, <4>2, <5>1, CappedFits DEF d
        <5> QED BY <3>1, <3>3, <5>2
      <4> QED BY <4>1, <4>2
    <3> QED BY <2>6, <3>3, <3>4
  <2>7. CASE ~(max > 0)
    <3> SUFFICES ASSUME n > 0, delay > 0, delay <= MaxInt \div f
                 PROVE  delay' = delay * f
      BY <2>7
    <3>1. d \in Nat /\ d >= 1 /\ e = d * f /\ (f = 1 => d <= MaxInt)
      BY <2>1, <2>5, DurationsAre DEF d, e
    <3>2. delay \in Convert(d) /\ delay' \in Convert(e)
      BY <2>1, <2>3, <2>4, <2>7 DEF Capped, d, e
    <3>3. delay \in Int BY <3>1, <3>2, DurationsAre DEF Convert
    <3>4. delay * f <= MaxInt
      BY <2>2, <3>3, DurationsAre
    <3>5. CASE d <= MaxInt
      <4>1. delay = d BY <3>2, <3>5 DEF Convert
      <4> QED BY <3>1, <3>2, <3>4, <4>1 DEF Convert
    <3>6. CASE ~(d <= MaxInt)
      <4>1. delay = MaxInt BY <3>2, <3>3, <3>6, DurationsAre DEF Convert
      <4>2. f >= 2 BY <2>2, <3>1, <3>6
      <4>3. MaxInt * f >= MaxInt * 2 BY <2>2, <4>2, DurationsAre
      <4> DEFINE y == MaxInt * f
      <4>4. y <= MaxInt BY <3>4, <4>1
      <4>5. y >= MaxInt * 2 /\ y \in Int BY <2>2, <4>3, DurationsAre
      <4>. HIDE DEF y
      <4>6. MaxInt \in Nat /\ MaxInt >= 1 BY DurationsAre
      <4> QED BY <4>4, <4>5, <4>6
    <3> QED BY <3>1, <3>5, <3>6, DurationsAre
  <2> QED BY <2>6, <2>7
<1>2. ASSUME DelayOK, [ScheduleRetry]_retryVars PROVE [A]_retryVars
  BY <1>1, <1>2
<1>3. DelayOK /\ [ScheduleRetry]_retryVars => [A]_retryVars BY <1>2
<1>. HIDE DEF A
<1>4. BackoffSpec => [][A]_retryVars BY <1>3, DelayStays, PTL DEF BackoffSpec
<1> QED BY <1>4 DEF GrowsToTheCap, A

-----------------------------------------------------------------------------
(* Rotation.                                                               *)

\* A set of integers that is not empty and has a bound has a greatest element.
LEMMA Greatest ==
  ASSUME NEW T, T \subseteq Int, T # {}, NEW N \in Int, \A x \in T : x <= N
  PROVE  \E x \in T : \A y \in T : y <= x
<1> DEFINE U == {N - x : x \in T}
<1>1. U \subseteq Nat /\ U # {}
  <2>1. \A x \in T : x \in Int /\ x <= N OBVIOUS
  <2>2. \A x \in T : N - x \in Nat BY <2>1
  <2> QED BY <2>2
<1>2. PICK u \in U : \A v \in U : u <= v
  <2>. HIDE DEF U
  <2> QED BY <1>1, Least
<1>3. PICK x \in T : u = N - x BY <1>2
<1>4. ASSUME NEW y \in T PROVE y <= x
  <2>1. N - x <= N - y BY <1>2, <1>3
  <2> QED BY <1>3, <2>1
<1> QED BY <1>4

\* A set of integers that is not empty and has a bound below has a least element.
LEMMA Lowest ==
  ASSUME NEW T, T \subseteq Int, T # {}, NEW N \in Int, \A x \in T : N <= x
  PROVE  \E x \in T : \A y \in T : x <= y
<1> DEFINE U == {x - N : x \in T}
<1>1. U \subseteq Nat /\ U # {}
  <2>1. \A x \in T : x \in Int /\ N <= x OBVIOUS
  <2>2. \A x \in T : x - N \in Nat BY <2>1
  <2> QED BY <2>2
<1>2. PICK u \in U : \A v \in U : u <= v
  <2>. HIDE DEF U
  <2> QED BY <1>1, Least
<1>3. PICK x \in T : u = x - N BY <1>2
<1>4. ASSUME NEW y \in T PROVE x <= y
  <2>1. x - N <= y - N BY <1>2, <1>3
  <2> QED BY <1>3, <2>1
<1> QED BY <1>4

\* Later days start later.
LEMMA DaysInOrder ==
  ASSUME NEW d \in DOMAIN DayStart, NEW e \in DOMAIN DayStart
  PROVE  /\ d \in Int /\ e \in Int /\ DayStart[d] \in Int
         /\ d < e => DayStart[d] < DayStart[e]
         /\ d <= e => DayStart[d] <= DayStart[e]
<1> DEFINE D == DOMAIN DayStart
           Right(n) == n \in D => DayStart[d] <= DayStart[n] /\ (d < n => DayStart[d] < DayStart[n])
           T == {n \in Nat : Right(d + n)}
<1>1. D \subseteq Int /\ \A i \in D : DayStart[i] \in Int
  BY RotationAssumption DEF RotationAssumption
<1>2. 0 \in T BY <1>1
<1>3. ASSUME NEW n \in Nat, n \in T PROVE n + 1 \in T
  <2> DEFINE m == d + n
  <2>1. m \in Int /\ d + (n + 1) = m + 1 /\ d <= m BY <1>1
  <2> SUFFICES ASSUME m + 1 \in D PROVE DayStart[d] < DayStart[m + 1] /\ DayStart[m + 1] \in Int
    BY <1>1, <2>1
  <2>2. m \in d..(m + 1) BY <1>1, <2>1
  <2>3. d..(m + 1) \subseteq D BY RotationAssumption DEF RotationAssumption
  <2>4. DayStart[m] < DayStart[m + 1] BY <2>2, <2>3, RotationAssumption DEF RotationAssumption
  <2>5. DayStart[d] <= DayStart[m] BY <1>3, <2>2, <2>3
  <2> QED BY <1>1, <2>2, <2>3, <2>4, <2>5
<1>4. \A n \in Nat : n \in T
  <2>1. \A n \in Nat : n \in T => n + 1 \in T BY <1>3
  <2>. HIDE DEF T
  <2> QED BY <1>2, <2>1, Induction
<1>5. d <= e => Right(e)
  <2> SUFFICES ASSUME d <= e PROVE Right(e) OBVIOUS
  <2>1. e - d \in Nat /\ d + (e - d) = e BY <1>1
  <2>2. Right(d + (e - d)) BY <1>4, <2>1
  <2> QED BY <2>1, <2>2
<1> QED BY <1>1, <1>5

\* What a turn is.
LEMMA TurnIs ==
  ASSUME NEW k \in Turns
  PROVE  /\ k \in Int /\ k * Days \in DOMAIN DayStart /\ (k + 1) * Days \in DOMAIN DayStart
         /\ TurnStart(k) \in Int /\ TurnStart(k + 1) \in Int
         /\ TurnStart(k) < TurnStart(k + 1)
<1>1. Days \in Nat \ {0} BY RotationAssumption DEF RotationAssumption
<1>2. /\ k \in Int /\ k * Days \in DOMAIN DayStart /\ (k + 1) * Days \in DOMAIN DayStart
  <2>1. Cardinality(DOMAIN DayStart) \in Nat
    BY FS_CardinalityType, RotationAssumption DEF RotationAssumption
  <2> QED BY <2>1 DEF Turns
<1>3. k * Days < (k + 1) * Days BY <1>1, <1>2
<1> QED BY <1>2, <1>3, DaysInOrder DEF TurnStart

\* A later turn does not start before an earlier one ends.
LEMMA TurnsInOrder ==
  ASSUME NEW i \in Turns, NEW j \in Turns, i < j
  PROVE  TurnStart(i + 1) <= TurnStart(j) /\ TurnStart(i) < TurnStart(j)
<1>1. Days \in Nat \ {0} BY RotationAssumption DEF RotationAssumption
<1>2. i \in Int /\ j \in Int /\ i + 1 <= j BY TurnIs
<1> DEFINE m == i + 1
<1>3. m \in Int /\ m <= j BY <1>2
<1>. HIDE DEF m
<1>4. m * Days <= j * Days BY <1>1, <1>2, <1>3
<1>5. TurnStart(m) <= TurnStart(j) BY <1>4, TurnIs, DaysInOrder DEF TurnStart, m
<1> QED BY <1>5, TurnIs DEF m

\* Turn k holds t.
On(k, t) == TurnStart(k) <= t /\ t < TurnStart(k + 1)

\* Only one does.
LEMMA OneTurn ==
  ASSUME NEW t \in Int, NEW i \in Turns, NEW j \in Turns, On(i, t), On(j, t)
  PROVE  i = j
<1>1. i \in Int /\ j \in Int BY TurnIs
<1>2. ASSUME NEW a \in Turns, NEW b \in Turns, On(a, t), On(b, t) PROVE ~(a < b)
  <2>1. a < b => TurnStart(a + 1) <= TurnStart(b) BY <1>2, TurnsInOrder
  <2> QED BY <1>2, <2>1, TurnIs DEF On
<1> QED BY <1>1, <1>2

\* turnAt finds the turn that holds an instant, however far off the guess.
LEMMA TurnAtIs ==
  ASSUME NEW t \in Int, NEW k \in Turns, k - 1 \in Turns, On(k, t)
  PROVE  TurnAt(t) = k
<1> DEFINE guess == (t - TurnStart(0)) \div (Day * Days)
           Behind(i) == /\ i <= guess /\ TurnStart(i) <= t
                        /\ \A j \in Turns : j > i /\ j <= guess => TurnStart(j) > t
           back == CHOOSE i \in Turns : Behind(i)
           Found(i) == /\ i >= back /\ TurnStart(i + 1) > t
                       /\ \A j \in Turns : j > back /\ j <= i => TurnStart(j) <= t
<1>1. /\ Days \in Nat \ {0} /\ Day \in Nat \ {0} /\ 0 \in DOMAIN DayStart
      /\ DayStart[0] \in Int /\ \A d \in DOMAIN DayStart : DayStart[d] - DayStart[0] > (d - 1) * Day
  BY RotationAssumption DEF RotationAssumption
<1>2. k \in Int /\ k - 1 \in Int BY TurnIs
<1>3. TurnStart(0) = DayStart[0] BY <1>1 DEF TurnStart
<1>4. guess \in Int /\ k - 1 <= guess
  <2> DEFINE y == Day * Days
             x == t - DayStart[0]
             z == k - 1
             h == k * Days
  <2>1. y \in Nat \ {0} /\ x \in Int /\ z \in Int BY <1>1, <1>2
  <2>2. h \in DOMAIN DayStart /\ h \in Int BY <1>1, <1>2, TurnIs
  <2>3. x > (h - 1) * Day
    <3>1. DayStart[h] <= t BY DEF On, TurnStart
    <3>2. DayStart[h] \in Int BY <2>2, RotationAssumption DEF RotationAssumption
    <3>3. DayStart[h] - DayStart[0] > (h - 1) * Day BY <1>1, <2>2
    <3>4. (h - 1) * Day \in Int BY <1>1, <2>2
    <3>. HIDE DEF h
    <3> QED BY <1>1, <3>1, <3>2, <3>3, <3>4
  <2>4. (h - 1) * Day >= z * y
    <3>1. h - 1 >= z * Days
      <4>1. z * Days = h - Days BY <1>1, <1>2
      <4>. HIDE DEF h
      <4> QED BY <1>1, <2>2, <4>1
    <3> DEFINE w == z * Days
    <3>2. w \in Int /\ z * y = w * Day BY <1>1, <2>1
    <3>. HIDE DEF w, h
    <3>3. (h - 1) * Day >= w * Day BY <1>1, <2>2, <3>1, <3>2 DEF w
    <3> QED BY <3>2, <3>3
  <2>5. x >= z * y
    <3>1. (h - 1) * Day \in Int /\ z * y \in Int BY <1>1, <2>1, <2>2
    <3> QED BY <2>1, <2>3, <2>4, <3>1
  <2>6. guess = x \div y BY <1>3
  <2>. HIDE DEF x, y, z, guess
  <2>7. x \div y \in Int /\ x \div y >= z BY <2>1, <2>5
  <2> QED BY <2>6, <2>7 DEF z
<1>. HIDE DEF guess
<1>5. \E i \in Turns : Behind(i)
  <2> DEFINE B == {i \in Turns : i <= guess /\ TurnStart(i) <= t}
  <2>1. B \subseteq Int /\ \A i \in B : i <= guess BY TurnIs
  <2>2. k - 1 \in B
    <3>1. k - 1 < k BY <1>2
    <3>2. TurnStart(k - 1) < TurnStart(k) BY <3>1, TurnsInOrder
    <3> QED BY <1>4, <3>2, TurnIs DEF On
  <2>3. PICK i \in B : \A j \in B : j <= i
    <3>. HIDE DEF B
    <3> QED BY <1>4, <2>1, <2>2, Greatest
  <2>4. ASSUME NEW j \in Turns, j > i, j <= guess PROVE TurnStart(j) > t
    <3>1. j \notin B BY <2>1, <2>3, <2>4, TurnIs
    <3> QED BY <2>4, <3>1, TurnIs
  <2> QED BY <2>3, <2>4
<1>6. back \in Turns /\ Behind(back) BY <1>5
<1>7. TurnAt(t) = CHOOSE i \in Turns : Found(i) BY DEF TurnAt, guess
<1>. HIDE DEF back
<1>8. back \in Int /\ back <= k
  <2>1. back > k => TurnStart(k + 1) <= TurnStart(back) BY <1>6, TurnsInOrder
  <2> QED BY <1>2, <1>6, <2>1, TurnIs DEF On
<1>9. Found(k)
  <2>1. ASSUME NEW j \in Turns, j > back, j <= k PROVE TurnStart(j) <= t
    <3>1. j # k => TurnStart(j) < TurnStart(k) BY <1>2, <2>1, TurnsInOrder, TurnIs
    <3> QED BY <3>1, TurnIs DEF On
  <2> QED BY <1>2, <1>8, <2>1, TurnIs DEF On
<1>10. ASSUME NEW i \in Turns, Found(i) PROVE i = k
  <2>1. TurnStart(i) <= t
    <3>1. CASE i = back BY <1>6, <3>1
    <3>2. CASE i # back BY <1>8, <1>10, <3>2, TurnIs
    <3> QED BY <3>1, <3>2
  <2>2. On(i, t) BY <1>10, <2>1, TurnIs DEF On
  <2> QED BY <2>2, OneTurn
<1> QED BY <1>7, <1>9, <1>10

-----------------------------------------------------------------------------
(* Spans.                                                                  *)

\* The span s holds t.
Holding(s, t) == s.from <= t /\ t < s.to

\* The spans run from an integer to an integer.
Whole(X) == \A s \in X : s.from \in Int /\ s.to \in Int

\* One span of X holds t, and it is of u.
Covers(X, t, u) ==
  \E s \in X : Holding(s, t) /\ s.user = u /\ \A x \in X : Holding(x, t) => x = s

\* What is left of s without [from, to).
Pieces(s, from, to) ==
  IF s.from >= to \/ s.to <= from THEN {s}
  ELSE   (IF s.from < from THEN {Span(s.user, s.from, from, s.override)} ELSE {})
    \cup (IF s.to > to THEN {Span(s.user, to, s.to, s.override)} ELSE {})

\* A span keeps, in one piece, an instant that is not cut out, and loses the others.
LEMMA PiecesKeep ==
  ASSUME NEW s, s.from \in Int, s.to \in Int, NEW from \in Int, NEW to \in Int, from < to,
         NEW t \in Int
  PROVE  /\ Whole(Pieces(s, from, to))
         /\ \A p \in Pieces(s, from, to) : Holding(p, t) => Holding(s, t) /\ ~(from <= t /\ t < to)
         /\ Holding(s, t) /\ ~(from <= t /\ t < to) => Covers(Pieces(s, from, to), t, s.user)
<1> DEFINE P == Pieces(s, from, to)
           l == Span(s.user, s.from, from, s.override)
           r == Span(s.user, to, s.to, s.override)
<1>1. /\ l.user = s.user /\ l.from = s.from /\ l.to = from
      /\ r.user = s.user /\ r.from = to /\ r.to = s.to
  BY DEF Span
<1>2. P = IF s.from >= to \/ s.to <= from THEN {s}
          ELSE (IF s.from < from THEN {l} ELSE {}) \cup (IF s.to > to THEN {r} ELSE {})
  BY DEF Pieces
<1>. HIDE DEF l, r, P
<1>3. CASE s.from >= to \/ s.to <= from
  <2>1. P = {s} BY <1>2, <1>3
  <2> QED BY <1>3, <2>1 DEF Whole, Holding, Covers, P
<1>4. CASE ~(s.from >= to \/ s.to <= from)
  <2>1. \A p \in P : (p = l /\ s.from < from) \/ (p = r /\ s.to > to)
    <3>1. P = (IF s.from < from THEN {l} ELSE {}) \cup (IF s.to > to THEN {r} ELSE {})
      BY <1>2, <1>4
    <3> QED BY <3>1
  <2>2. s.from < from => l \in P BY <1>2, <1>4
  <2>3. s.to > to => r \in P BY <1>2, <1>4
  <2>4. Whole(P) BY <1>1, <2>1 DEF Whole
  <2>5. \A p \in P : Holding(p, t) => Holding(s, t) /\ ~(from <= t /\ t < to)
    BY <1>1, <1>4, <2>1 DEF Holding
  <2>6. ASSUME Holding(s, t), ~(from <= t /\ t < to) PROVE Covers(P, t, s.user)
    <3>1. CASE t < from
      <4>1. l \in P /\ Holding(l, t) /\ ~Holding(r, t) BY <1>1, <2>2, <2>6, <3>1 DEF Holding
      <4> QED BY <1>1, <2>1, <4>1 DEF Covers
    <3>2. CASE ~(t < from)
      <4>1. r \in P /\ Holding(r, t) /\ ~Holding(l, t) BY <1>1, <2>3, <2>6, <3>2 DEF Holding
      <4> QED BY <1>1, <2>1, <4>1 DEF Covers
    <3> QED BY <3>1, <3>2
  <2> QED BY <2>4, <2>5, <2>6 DEF P
<1> QED BY <1>3, <1>4

\* carve takes [from, to) out of every span and leaves who covers what else.
LEMMA CarveKeeps ==
  ASSUME NEW X, Whole(X), NEW from \in Int, NEW to \in Int, from < to, NEW t \in Int
  PROVE  /\ Whole(Carve(X, from, to))
         /\ from <= t /\ t < to => \A x \in Carve(X, from, to) : ~Holding(x, t)
         /\ ~(from <= t /\ t < to) => \A u : Covers(X, t, u) => Covers(Carve(X, from, to), t, u)
<1> DEFINE C == Carve(X, from, to)
<1>1. C = UNION {Pieces(s, from, to) : s \in X} BY DEF Carve, Pieces
<1>2. \A s \in X :
        /\ Whole(Pieces(s, from, to))
        /\ \A p \in Pieces(s, from, to) : Holding(p, t) => Holding(s, t) /\ ~(from <= t /\ t < to)
        /\ Holding(s, t) /\ ~(from <= t /\ t < to) => Covers(Pieces(s, from, to), t, s.user)
  BY PiecesKeep DEF Whole
<1>. HIDE DEF C
<1>3. \A x \in C : \E s \in X : x \in Pieces(s, from, to) BY <1>1
<1>4. \A s \in X : \A x \in Pieces(s, from, to) : x \in C BY <1>1
<1>5. Whole(C) BY <1>2, <1>3 DEF Whole
<1>6. from <= t /\ t < to => \A x \in C : ~Holding(x, t) BY <1>2, <1>3
<1>7. ASSUME ~(from <= t /\ t < to), NEW u, Covers(X, t, u) PROVE Covers(C, t, u)
  <2>1. PICK s \in X : Holding(s, t) /\ s.user = u /\ \A x \in X : Holding(x, t) => x = s
    BY <1>7 DEF Covers
  <2>2. PICK p \in Pieces(s, from, to) :
          Holding(p, t) /\ p.user = u /\ \A x \in Pieces(s, from, to) : Holding(x, t) => x = p
    BY <1>2, <1>7, <2>1 DEF Covers
  <2>3. p \in C BY <1>4, <2>2
  <2>4. ASSUME NEW x \in C, Holding(x, t) PROVE x = p
    <3>1. PICK y \in X : x \in Pieces(y, from, to) BY <1>3
    <3>2. Holding(y, t) BY <1>2, <2>4, <3>1
    <3>3. y = s BY <2>1, <3>2
    <3> QED BY <2>2, <2>4, <3>1, <3>3
  <2> QED BY <2>2, <2>3, <2>4 DEF Covers
<1> QED BY <1>5, <1>6, <1>7 DEF C

\* A shift of whole ticks, not empty.
Shift(o) == o.from \in Int /\ o.to \in Int /\ o.from < o.to

\* An override covers its time, and what else is covered stays covered as before.
LEMMA LayCovers ==
  ASSUME NEW X, Whole(X), NEW o, Shift(o), NEW t \in Int
  PROVE  /\ Whole(Lay(X, o))
         /\ Holding(o, t) => Covers(Lay(X, o), t, o.user)
         /\ ~Holding(o, t) => \A u : Covers(X, t, u) => Covers(Lay(X, o), t, u)
<1> DEFINE C == Carve(X, o.from, o.to)
           s == Span(o.user, o.from, o.to, TRUE)
<1>1. Lay(X, o) = C \cup {s} BY DEF Lay
<1>2. s.user = o.user /\ s.from = o.from /\ s.to = o.to BY DEF Span
<1>3. o.from \in Int /\ o.to \in Int /\ o.from < o.to BY DEF Shift
<1>4. /\ Whole(C)
      /\ Holding(o, t) => \A x \in C : ~Holding(x, t)
      /\ ~Holding(o, t) => \A u : Covers(X, t, u) => Covers(C, t, u)
  BY <1>3, CarveKeeps DEF Holding
<1>. HIDE DEF C, s
<1>5. Holding(s, t) <=> Holding(o, t) BY <1>2 DEF Holding
<1> QED BY <1>1, <1>2, <1>3, <1>4, <1>5 DEF Whole, Covers

\* The overrides so far, each not empty.
OverridesOK == /\ Len(overrides) \in Nat /\ overrides \in Seq(Shifts)
               /\ \A n \in 1..Len(overrides) : Shift(overrides[n])

\* After the first n overrides t is u's: of the newest that holds it, else of the turn k.
Owner(n, k, t, u) ==
  \/ \E i \in 1..n : /\ Holding(overrides[i], t) /\ u = overrides[i].user
                     /\ \A j \in 1..n : j > i => ~Holding(overrides[j], t)
  \/ u = UserFor(k) /\ \A j \in 1..n : ~Holding(overrides[j], t)

\* The turns that Spans begins with.
RotaTurns(since, until) ==
  {Span(UserFor(k), TurnStart(k), TurnStart(k + 1), FALSE) :
     k \in {j \in Turns : j >= TurnAt(since) /\ TurnStart(j) < until}}

\* l lays the overrides of a window over its turns, one after the other.
Laid(l, since, until) ==
  /\ l[0] = RotaTurns(since, until)
  /\ \A n \in Nat : n + 1 <= Len(overrides) =>
       l[n + 1] = IF overrides[n + 1].to > since /\ overrides[n + 1].from < until
                  THEN Lay(l[n], overrides[n + 1]) ELSE l[n]

\* That is what Spans does.
LEMMA SpansAreLaid ==
  ASSUME OverridesOK, NEW since, NEW until
  PROVE  \E l : Laid(l, since, until) /\ Spans(since, until) = l[Len(overrides)]
<1> DEFINE R == RotaTurns(since, until)
           Step(X, n) == IF overrides[n].to > since /\ overrides[n].from < until
                         THEN Lay(X, overrides[n]) ELSE X
           Made(k) == \E l : l = [n \in 0..k |-> IF n = 0 THEN R ELSE Step(l[n - 1], n)]
           T == {k \in Nat : Made(k)}
<1>1. Made(0)
  <2>. HIDE DEF Step, R
  <2> DEFINE l == [n \in 0..0 |-> R]
  <2>1. l = [n \in 0..0 |-> IF n = 0 THEN R ELSE Step(l[n - 1], n)] OBVIOUS
  <2> QED BY <2>1
<1>2. ASSUME NEW k \in Nat, Made(k) PROVE Made(k + 1)
  <2>. HIDE DEF Step, R
  <2>1. PICK l : l = [n \in 0..k |-> IF n = 0 THEN R ELSE Step(l[n - 1], n)] BY <1>2
  <2> DEFINE p == [n \in 0..(k + 1) |-> IF n = k + 1 THEN Step(l[k], k + 1) ELSE l[n]]
  <2>2. \A n \in 0..(k + 1) : p[n] = IF n = 0 THEN R ELSE Step(p[n - 1], n)
    <3> TAKE n \in 0..(k + 1)
    <3>1. CASE n = k + 1 BY <3>1
    <3>2. CASE n # k + 1 BY <3>2, <2>1
    <3> QED BY <3>1, <3>2
  <2>3. p = [n \in 0..(k + 1) |-> IF n = 0 THEN R ELSE Step(p[n - 1], n)] BY <2>2
  <2> QED BY <2>3
<1>3. Made(Len(overrides))
  <2>. HIDE DEF Made
  <2>1. 0 \in T /\ \A k \in Nat : k \in T => k + 1 \in T BY <1>1, <1>2
  <2>2. \A k \in Nat : k \in T
    <3>. HIDE DEF T
    <3> QED BY <2>1, Induction
  <2>3. Len(overrides) \in Nat BY DEF OverridesOK
  <2> QED BY <2>2, <2>3
<1> DEFINE N == Len(overrides)
           IsLaid(l) == l = [n \in 0..N |-> IF n = 0 THEN R
                                            ELSE IF overrides[n].to > since /\ overrides[n].from < until
                                                 THEN Lay(l[n - 1], overrides[n]) ELSE l[n - 1]]
           m == CHOOSE l : IsLaid(l)
<1>4. \E l : IsLaid(l) BY <1>3
<1>5. IsLaid(m) BY <1>4
<1>6. Spans(since, until) = m[N] BY DEF Spans, RotaTurns
<1>7. ASSUME NEW l, IsLaid(l) PROVE Laid(l, since, until)
  <2>. HIDE DEF R
  <2>1. N \in Nat BY DEF OverridesOK
  <2>2. l[0] = R BY <1>7, <2>1
  <2>3. ASSUME NEW n \in Nat, n + 1 <= N
        PROVE  l[n + 1] = IF overrides[n + 1].to > since /\ overrides[n + 1].from < until
                          THEN Lay(l[n], overrides[n + 1]) ELSE l[n]
    <3>1. n + 1 \in 0..N /\ n + 1 # 0 /\ (n + 1) - 1 = n BY <2>1, <2>3
    <3> QED BY <1>7, <3>1
  <2> QED BY <2>2, <2>3 DEF Laid, R
<1> QED BY <1>5, <1>6, <1>7

\* Whatever window is asked for, each of its instants is covered once, by its owner.
LEMMA SpansCover ==
  ASSUME OverridesOK, NEW since \in Int, NEW until \in Int, NEW t \in Int, since <= t, t < until,
         NEW k \in Turns, On(k, t), NEW i \in Turns, i - 1 \in Turns, On(i, since)
  PROVE  /\ Whole(Spans(since, until))
         /\ \E u : Owner(Len(overrides), k, t, u) /\ Covers(Spans(since, until), t, u)
<1> DEFINE R == RotaTurns(since, until)
           N == Len(overrides)
<1>1. TurnAt(since) = i BY TurnAtIs
<1>2. i <= k
  <2>1. k < i => TurnStart(k + 1) <= TurnStart(i) BY TurnsInOrder
  <2> QED BY <2>1, TurnIs DEF On
<1> DEFINE sp(j) == Span(UserFor(j), TurnStart(j), TurnStart(j + 1), FALSE)
<1>3. R = {sp(j) : j \in {j \in Turns : j >= i /\ TurnStart(j) < until}} BY <1>1 DEF RotaTurns
<1>4. \A j : sp(j).user = UserFor(j) /\ sp(j).from = TurnStart(j) /\ sp(j).to = TurnStart(j + 1)
  BY DEF Span
<1>. HIDE DEF sp, R
<1>5. Whole(R) BY <1>3, <1>4, TurnIs DEF Whole
<1>6. Covers(R, t, UserFor(k))
  <2>1. k >= i /\ TurnStart(k) < until BY <1>2, TurnIs DEF On
  <2>2. sp(k) \in R /\ Holding(sp(k), t) BY <1>3, <1>4, <2>1 DEF Holding, On
  <2>3. ASSUME NEW x \in R, Holding(x, t) PROVE x = sp(k)
    <3>1. PICK j \in Turns : x = sp(j) BY <1>3
    <3>2. On(j, t) BY <1>4, <2>3, <3>1 DEF Holding, On
    <3>3. j = k BY <3>2, OneTurn
    <3> QED BY <3>1, <3>3
  <2> QED BY <1>4, <2>2, <2>3 DEF Covers
<1>7. PICK l : Laid(l, since, until) /\ Spans(since, until) = l[N] BY SpansAreLaid
<1>8. N \in Nat /\ \A n \in 1..N : Shift(overrides[n]) BY DEF OverridesOK
<1> DEFINE Right(n) == n <= N => Whole(l[n]) /\ \E u : Owner(n, k, t, u) /\ Covers(l[n], t, u)
           T == {n \in Nat : Right(n)}
<1>9. 0 \in T
  <2>1. l[0] = R BY <1>7 DEF Laid, R
  <2>2. Owner(0, k, t, UserFor(k)) BY DEF Owner
  <2> QED BY <1>5, <1>6, <2>1, <2>2
<1>10. ASSUME NEW n \in Nat, n \in T PROVE n + 1 \in T
  <2> SUFFICES ASSUME n + 1 <= N PROVE Right(n + 1) OBVIOUS
  <2> DEFINE o == overrides[n + 1]
             X == l[n]
             Y == l[n + 1]
             m == n + 1
  <2>1. PICK u : Whole(X) /\ Owner(n, k, t, u) /\ Covers(X, t, u) BY <1>8, <1>10
  <2>2. Y = IF o.to > since /\ o.from < until THEN Lay(X, o) ELSE X BY <1>7 DEF Laid
  <2>3. Shift(o) BY <1>8
  <2>4. m \in Nat /\ m \in 1..m /\ \A j \in 1..m : j = m \/ j \in 1..n BY DEF m
  <2>5. n \in Nat /\ \A j \in 1..n : j \in 1..m /\ m > j BY DEF m
  <2>. HIDE DEF X, Y
  <2>6. ~Holding(o, t) => Owner(m, k, t, u)
    <3> SUFFICES ASSUME ~Holding(overrides[m], t) PROVE Owner(m, k, t, u) OBVIOUS
    <3>. HIDE DEF m
    <3> QED BY <2>1, <2>4, <2>5 DEF Owner
  <2>7. Holding(o, t) => Owner(m, k, t, o.user)
    <3> SUFFICES ASSUME Holding(overrides[m], t) PROVE Owner(m, k, t, overrides[m].user) OBVIOUS
    <3>1. \A j \in 1..m : ~(j > m) BY <2>4
    <3>. HIDE DEF m
    <3> QED BY <2>4, <3>1 DEF Owner
  <2>. HIDE DEF o, m
  <2>8. CASE o.to > since /\ o.from < until
    <3>1. Y = Lay(X, o) BY <2>2, <2>8
    <3>2. /\ Whole(Lay(X, o))
          /\ Holding(o, t) => Covers(Lay(X, o), t, o.user)
          /\ ~Holding(o, t) => \A w : Covers(X, t, w) => Covers(Lay(X, o), t, w)
      BY <2>1, <2>3, LayCovers
    <3> QED BY <2>1, <2>6, <2>7, <3>1, <3>2 DEF Y, m
  <2>9. CASE ~(o.to > since /\ o.from < until)
    <3>1. Y = X BY <2>2, <2>9
    <3>2. ~Holding(o, t) BY <2>3, <2>9 DEF Holding, Shift
    <3> QED BY <2>1, <2>6, <3>1, <3>2 DEF Y, m
  <2> QED BY <2>8, <2>9
<1>11. \A n \in Nat : n \in T
  <2>1. \A n \in Nat : n \in T => n + 1 \in T BY <1>10
  <2>. HIDE DEF T
  <2> QED BY <1>9, <2>1, Induction
<1>12. Right(N) BY <1>8, <1>11
<1> QED BY <1>7, <1>8, <1>12

-----------------------------------------------------------------------------
(* Who is paged, and who is listed.                                        *)

\* The user that owns an instant is the one that the documentation names.
LEMMA OwnerIsRightful ==
  ASSUME OverridesOK, NEW t \in Int, NEW k \in Turns, On(k, t), NEW u,
         Owner(Len(overrides), k, t, u)
  PROVE  u = Rightful(t)
<1> DEFINE N == Len(overrides)
           H == {n \in DOMAIN overrides : overrides[n].from <= t /\ t < overrides[n].to}
           newest == CHOOSE n \in H : \A m \in H : m <= n
           turn == CHOOSE j \in Turns : TurnStart(j) <= t /\ t < TurnStart(j + 1)
<1>1. N \in Nat /\ DOMAIN overrides = 1..N BY DEF OverridesOK
<1>2. \A n : n \in H <=> n \in 1..N /\ Holding(overrides[n], t) BY <1>1 DEF Holding
<1>3. Rightful(t) = IF H # {} THEN overrides[newest].user ELSE UserFor(turn) BY DEF Rightful
<1>4. CASE \A j \in 1..N : ~Holding(overrides[j], t)
  <2>1. H = {} BY <1>2, <1>4
  <2>2. turn = k
    <3>1. \E j \in Turns : TurnStart(j) <= t /\ t < TurnStart(j + 1) BY DEF On
    <3>2. turn \in Turns /\ On(turn, t) BY <3>1 DEF On
    <3>. HIDE DEF turn
    <3> QED BY <3>2, OneTurn
  <2>3. u = UserFor(k) BY <1>4 DEF Owner
  <2> QED BY <1>3, <2>1, <2>2, <2>3
<1>5. CASE ~\A j \in 1..N : ~Holding(overrides[j], t)
  <2>1. PICK i \in 1..N : /\ Holding(overrides[i], t) /\ u = overrides[i].user
                          /\ \A j \in 1..N : j > i => ~Holding(overrides[j], t)
    BY <1>5 DEF Owner
  <2>2. i \in H /\ \A m \in H : m <= i BY <1>1, <1>2, <2>1
  <2>3. newest \in H /\ \A m \in H : m <= newest
    <3>. HIDE DEF H
    <3> QED BY <2>2
  <2>4. H \subseteq Nat BY <1>1, <1>2
  <2>. HIDE DEF newest, H
  <2>5. newest <= i /\ i <= newest /\ newest \in Nat /\ i \in Nat BY <2>2, <2>3, <2>4
  <2>6. newest = i BY <2>5
  <2> QED BY <1>3, <2>1, <2>2, <2>6
<1> QED BY <1>4, <1>5

\* An instant of Instants is in a turn with one before it.
LEMMA InstantIs ==
  ASSUME NEW t \in Instants
  PROVE  t \in Int /\ \E k \in Turns : k - 1 \in Turns /\ On(k, t)
<1>1. Day \in Nat /\ Cardinality(DOMAIN DayStart) \in Nat
  BY FS_CardinalityType, RotationAssumption DEF RotationAssumption
<1> DEFINE b == Day * Cardinality(DOMAIN DayStart)
<1>2. b \in Nat BY <1>1
<1>. HIDE DEF b
<1>3. t \in -b..b BY DEF Instants, b
<1>4. \E k \in Turns : k - 1 \in Turns /\ On(k, t) BY DEF Instants, On
<1> QED BY <1>2, <1>3, <1>4

\* The person who is paged is the one whose turn or override it is.
LEMMA PagedIsRight ==
  ASSUME OverridesOK, NEW t \in Instants
  PROVE  OnCallAt(t).user = Rightful(t)
<1>1. t \in Int BY InstantIs
<1>2. PICK k \in Turns : k - 1 \in Turns /\ On(k, t) BY InstantIs
<1>3. t + 1 \in Int /\ t <= t /\ t < t + 1 BY <1>1
<1>4. PICK u : Owner(Len(overrides), k, t, u) /\ Covers(Spans(t, t + 1), t, u)
  BY <1>1, <1>2, <1>3, SpansCover
<1> DEFINE X == Spans(t, t + 1)
           on == {s \in X : s.from <= t /\ t < s.to}
           F(s) == \A x \in on : s.from <= x.from
<1>5. OnCallAt(t) = IF on = {} THEN NobodyOn ELSE CHOOSE s \in on : F(s) BY DEF OnCallAt
<1>. HIDE DEF X
<1>6. PICK s \in X : /\ s.from <= t /\ t < s.to /\ s.user = u
                     /\ \A x \in X : x.from <= t /\ t < x.to => x = s
  BY <1>4 DEF Covers, Holding, X
<1>7. s \in on /\ \A x \in on : x = s BY <1>6
<1>8. on = {s} BY <1>7
<1>. HIDE DEF on
<1>9. CASE F(s)
  <2>1. (CHOOSE x \in on : F(x)) = s BY <1>7, <1>9
  <2> QED BY <1>1, <1>2, <1>4, <1>5, <1>6, <1>7, <2>1, OwnerIsRightful
<1>10. F(s)
  <2>1. Whole(X) BY <1>1, <1>2, <1>3, SpansCover DEF X
  <2> QED BY <1>6, <1>7, <2>1 DEF Whole
<1> QED BY <1>9, <1>10

\* For any rota, lengths of days and overrides: who is paged and who is listed.
LEMMA RotaIsRight == OverridesOK => PagesTheRightPerson /\ ListMatchesPages
<1> SUFFICES ASSUME OverridesOK PROVE PagesTheRightPerson /\ ListMatchesPages OBVIOUS
<1>1. PagesTheRightPerson BY PagedIsRight DEF PagesTheRightPerson
<1> DEFINE first == CHOOSE t \in Instants : \A x \in Instants : t <= x
           last == CHOOSE t \in Instants : \A x \in Instants : t >= x
           ahead == Spans(first, last)
<1>2. ASSUME NEW t \in Instants, t < last
      PROVE  \E s \in ahead : /\ s.from <= t /\ t < s.to /\ s.user = OnCallAt(t).user
                              /\ \A x \in ahead \ {s} : t < x.from \/ t >= x.to
  <2> DEFINE b == Day * Cardinality(DOMAIN DayStart)
  <2>1. b \in Nat
    BY FS_CardinalityType, RotationAssumption DEF RotationAssumption
  <2>2. \A x \in Instants : x \in Int /\ -b <= x /\ x <= b BY <2>1 DEF Instants
  <2>. HIDE DEF b
  <2>3. Instants \subseteq Int /\ Instants # {} /\ -b \in Int /\ b \in Int BY <2>1, <2>2
  <2>4. \E x \in Instants : \A y \in Instants : x <= y BY <2>2, <2>3, Lowest
  <2>5. \E x \in Instants : \A y \in Instants : y <= x BY <2>2, <2>3, Greatest
  <2>6. first \in Instants /\ \A x \in Instants : first <= x BY <2>4
  <2>7. last \in Instants
    <3>1. \E x \in Instants : \A y \in Instants : x >= y BY <2>2, <2>5
    <3> QED BY <3>1
  <2>. HIDE DEF first, last
  <2>8. /\ t \in Int /\ first \in Int /\ last \in Int /\ first <= t BY <2>2, <2>6, <2>7
  <2>9. PICK k \in Turns : k - 1 \in Turns /\ On(k, t) BY InstantIs
  <2>10. PICK i \in Turns : i - 1 \in Turns /\ On(i, first) BY <2>6, InstantIs
  <2>11. PICK u : Owner(Len(overrides), k, t, u) /\ Covers(ahead, t, u)
    BY <1>2, <2>8, <2>9, <2>10, SpansCover
  <2>12. u = OnCallAt(t).user BY <2>8, <2>9, <2>11, OwnerIsRightful, PagedIsRight
  <2>. HIDE DEF ahead
  <2>13. PICK s \in ahead : /\ s.from <= t /\ t < s.to /\ s.user = u
                            /\ \A x \in ahead : x.from <= t /\ t < x.to => x = s
    BY <2>11 DEF Covers, Holding
  <2>14. Whole(ahead) BY <1>2, <2>8, <2>9, <2>10, SpansCover DEF ahead
  <2>15. \A x \in ahead \ {s} : t < x.from \/ t >= x.to BY <2>8, <2>13, <2>14 DEF Whole
  <2> QED BY <2>12, <2>13, <2>15
<1>3. ListMatchesPages BY <1>2 DEF ListMatchesPages
<1> QED BY <1>1, <1>3

-----------------------------------------------------------------------------
\* Overrides are created one after the other, none of them empty.
LEMMA OverridesStay ==
  /\ RotationInit => OverridesOK
  /\ OverridesOK /\ [RotationNext]_overrides => OverridesOK'
<1>1. RotationInit => OverridesOK BY DEF RotationInit, OverridesOK
<1>2. ASSUME OverridesOK, [RotationNext]_overrides PROVE OverridesOK'
  <2>1. CASE UNCHANGED overrides BY <1>2, <2>1 DEF OverridesOK
  <2>2. ASSUME NEW o \in Shifts, CreateOverride(o) PROVE OverridesOK'
    <3>1. o.from \in Int /\ o.to \in Int /\ o.from < o.to
      BY <2>2, RotationAssumption DEF CreateOverride, RotationAssumption
    <3> QED BY <1>2, <2>2, <3>1 DEF OverridesOK, CreateOverride, Shift
  <2> QED BY <1>2, <2>1, <2>2 DEF RotationNext
<1> QED BY <1>1, <1>2

\* For any rota, days of any length that clock changes leave, and overrides: the
\* newest override that holds an instant, else the user whose turn it is, is
\* paged then, and the shifts that are listed ahead cover each instant once, by
\* the person who will be paged.
THEOREM RotationIsRight == RotationSpec => [](PagesTheRightPerson /\ ListMatchesPages)
<1>1. RotationSpec => []OverridesOK BY OverridesStay, PTL DEF RotationSpec
<1> QED BY <1>1, RotaIsRight, PTL

\* The same where the rota is one of the tables that may move.
THEOREM RotaIsRightAmongTables == TablesSpec => []RotaHolds
<1>1. TablesInit => OverridesOK BY OverridesStay DEF TablesInit
<1>2. OverridesOK /\ [TablesNext]_tablesVars => OverridesOK'
  <2>1. [TablesNext]_tablesVars => [RotationNext]_overrides BY DEF TablesNext, tablesVars
  <2> QED BY <2>1, OverridesStay
<1>3. OverridesOK => RotaHolds BY RotaIsRight DEF RotaHolds
<1> QED BY <1>1, <1>2, <1>3, PTL DEF TablesSpec

-----------------------------------------------------------------------------
(* DedupHistory.                                                           *)

\* An alert that fires has been notified once.
Stamped(r) == r.active => r.notified # Never

\* The assumptions on the bounds, element by element.
LEMMA Bounds ==
  /\ \A t \in Times : t \in Nat /\ t \in Int /\ t # Never
  /\ \A p \in Policies : p.window \in Int /\ p.repeat \in Int
  /\ DefaultWindow \in Int /\ DefaultRepeat \in Int
  <1>1. \A t \in Times : t \in Nat
    BY HistoryAssumption, Zenon DEF HistoryAssumption
  <1>2. \A n \in Nat : n \in Int /\ n # Never
    BY DEF Never
  <1>3. \A p \in Policies : p \in [window : Int, repeat : Int]
    BY HistoryAssumption, Zenon DEF HistoryAssumption
  <1>4. \A p \in Policies : p.window \in Int /\ p.repeat \in Int
    BY <1>3
  <1> QED BY <1>1, <1>2, <1>4, HistoryAssumption DEF HistoryAssumption

-----------------------------------------------------------------------------
(* Adding an entry to a history.                                           *)

\* A history with one more entry keeps the others in their places.
LEMMA Appended ==
  ASSUME NEW h \in Seq(Entries), NEW e \in Entries
  PROVE  LET g == Append(h, e)
         IN  /\ g \in Seq(Entries) /\ Len(h) \in Nat /\ Len(g) = Len(h) + 1
             /\ \A n \in 1..Len(h) : g[n] = h[n]
             /\ g[Len(h) + 1] = e
  OBVIOUS

\* What was said of the past stays true of it.
LEMMA PastStays ==
  ASSUME NEW h \in Seq(Entries), NEW e \in Entries
  PROVE  LET g == Append(h, e)
         IN  /\ \A n \in 0..Len(h) : /\ FiringAfter(g, n) <=> FiringAfter(h, n)
                                     /\ NoticeBefore(g, n + 1) <=> NoticeBefore(h, n + 1)
                                     /\ \A m \in 1..n : LastNotice(g, n, m) <=> LastNotice(h, n, m)
  <1> DEFINE g == Append(h, e)
  <1>1. /\ Len(h) \in Nat /\ \A n \in 1..Len(h) : g[n] = h[n]
    BY Appended
  <1> HIDE DEF g
  <1> SUFFICES ASSUME NEW n \in 0..Len(h)
               PROVE  /\ FiringAfter(g, n) <=> FiringAfter(h, n)
                      /\ NoticeBefore(g, n + 1) <=> NoticeBefore(h, n + 1)
                      /\ \A m \in 1..n : LastNotice(g, n, m) <=> LastNotice(h, n, m)
    BY DEF g
  <1>2. n \in Nat /\ n <= Len(h) /\ (n + 1) - 1 = n
    BY <1>1
  <1>3. \A m \in 1..n : g[m] = h[m] /\ \A l \in (m + 1)..n : g[l] = h[l]
    BY <1>1, <1>2
  <1>4. FiringAfter(g, n) <=> FiringAfter(h, n)
    BY <1>3 DEF FiringAfter
  <1>5. NoticeBefore(g, n + 1) <=> NoticeBefore(h, n + 1)
    BY <1>2, <1>3 DEF NoticeBefore
  <1>6. \A m \in 1..n : LastNotice(g, n, m) <=> LastNotice(h, n, m)
    BY <1>3 DEF LastNotice
  <1> QED BY <1>4, <1>5, <1>6

\* There is one last notice at most.
LEMMA OneLastNotice ==
  ASSUME NEW h, NEW n \in Nat, NEW l \in 1..n, NEW m \in 1..n,
         LastNotice(h, n, l), LastNotice(h, n, m)
  PROVE  l = m
  <1>1. ~(l < m)
    BY DEF LastNotice
  <1>2. ~(m < l)
    BY DEF LastNotice
  <1> QED BY <1>1, <1>2

\* Nor does a new entry change whether an old one followed its rule.
LEMMA PastRulesStay ==
  ASSUME NEW h \in Seq(Entries), NEW e \in Entries, NEW n \in 1..Len(h)
  PROVE  LET g == Append(h, e)
         IN  /\ FiringNotice(g, n) <=> FiringNotice(h, n)
             /\ ResolveNotice(g, n) <=> ResolveNotice(h, n)
             /\ StatelessNotice(g, n) <=> StatelessNotice(h, n)
  <1> DEFINE g == Append(h, e)
  <1>1. /\ Len(h) \in Nat /\ n \in Nat /\ n - 1 \in 0..Len(h) /\ (n - 1) + 1 = n
        /\ g[n] = h[n] /\ \A m \in 1..(n - 1) : g[m] = h[m]
    BY Appended
  <1>2. /\ FiringAfter(g, n - 1) <=> FiringAfter(h, n - 1)
        /\ NoticeBefore(g, n) <=> NoticeBefore(h, n)
        /\ \A m \in 1..(n - 1) : LastNotice(g, n - 1, m) <=> LastNotice(h, n - 1, m)
    <2>1. \A p \in 0..Len(h) : /\ FiringAfter(g, p) <=> FiringAfter(h, p)
                               /\ NoticeBefore(g, p + 1) <=> NoticeBefore(h, p + 1)
                               /\ \A m \in 1..p : LastNotice(g, p, m) <=> LastNotice(h, p, m)
      BY PastStays
    <2> HIDE DEF g
    <2> QED BY <1>1, <2>1
  <1> HIDE DEF g
  <1>3. \A d : PassedSinceNotice(g, n, d) <=> PassedSinceNotice(h, n, d)
    BY <1>1, <1>2 DEF PassedSinceNotice
  <1>4. FiringNotice(g, n) <=> FiringNotice(h, n)
    BY <1>1, <1>2, <1>3 DEF FiringNotice
  <1>5. ResolveNotice(g, n) <=> ResolveNotice(h, n)
    BY <1>1, <1>2 DEF ResolveNotice
  <1>6. StatelessNotice(g, n) <=> StatelessNotice(h, n)
    BY <1>1, <1>2, <1>3 DEF StatelessNotice
  <1> QED BY <1>4, <1>5, <1>6 DEF g

-----------------------------------------------------------------------------
(* One decision.                                                           *)

\* The interval of a policy has passed on the record's clock exactly when it
\* has on the history's.
LEMMA PassedByRecord ==
  ASSUME NEW h \in Seq(Entries), NEW r \in Records, SumsUp(r, h),
         NEW e \in Entries, NEW d \in Nat
  PROVE  PassedSinceNotice(Append(h, e), Len(h) + 1, d)
           <=> NoticeBefore(h, Len(h) + 1) /\ e.at >= r.notified + d
  <1> DEFINE g == Append(h, e)
             N == Len(h)
  <1>1. /\ N \in Nat /\ (N + 1) - 1 = N /\ g[N + 1] = e
        /\ \A m \in 1..N : g[m] = h[m] /\ h[m] \in Entries
        /\ \A m \in 1..N : LastNotice(g, N, m) <=> LastNotice(h, N, m)
    BY Appended, PastStays
  <1>2. PassedSinceNotice(g, N + 1, d)
          <=> \E m \in 1..N : LastNotice(h, N, m) /\ e.at - h[m].at >= d
    BY <1>1 DEF PassedSinceNotice
  <1>3. CASE NoticeBefore(h, N + 1)
    <2>1. PICK l \in 1..N : LastNotice(h, N, l) /\ r.notified = h[l].at
      BY <1>3 DEF SumsUp
    <2>2. e.at \in Int /\ h[l].at \in Int
      <3>1. e.at \in Times /\ h[l].at \in Times
        BY <1>1 DEF Entries
      <3> QED BY <3>1, Bounds
    <2>3. (e.at - h[l].at >= d) <=> (e.at >= h[l].at + d)
      BY <2>2
    <2> HIDE DEF g
    <2>4. \A m \in 1..N : LastNotice(h, N, m) => m = l
      BY <1>1, <2>1, OneLastNotice
    <2> QED BY <1>2, <1>3, <2>1, <2>3, <2>4 DEF g
  <1>4. CASE ~NoticeBefore(h, N + 1)
    BY <1>1, <1>2, <1>4 DEF NoticeBefore, LastNotice
  <1> QED BY <1>3, <1>4

\* An alert fires after one more entry if that fires or does not resolve what fired.
LEMMA FiringStep ==
  ASSUME NEW h \in Seq(Entries), NEW e \in Entries
  PROVE  FiringAfter(Append(h, e), Len(h) + 1)
           <=> \/ e.status = "firing"
               \/ e.status # "resolved" /\ FiringAfter(h, Len(h))
  <1> DEFINE g == Append(h, e)
             N == Len(h)
  <1>1. N \in Nat /\ g[N + 1] = e /\ \A n \in 1..N : g[n] = h[n]
    BY Appended
  <1> HIDE DEF g
  <1>2. ASSUME e.status = "firing" PROVE FiringAfter(g, N + 1)
    BY <1>1, <1>2 DEF FiringAfter
  <1>3. ASSUME e.status # "resolved", FiringAfter(h, N) PROVE FiringAfter(g, N + 1)
    <2>1. PICK m \in 1..N : h[m].status = "firing"
                            /\ \A l \in (m + 1)..N : h[l].status # "resolved"
      BY <1>3 DEF FiringAfter
    <2>2. \A l \in (m + 1)..(N + 1) : g[l].status # "resolved"
      BY <1>1, <1>3, <2>1
    <2> QED BY <1>1, <2>1, <2>2 DEF FiringAfter
  <1>4. ASSUME FiringAfter(g, N + 1), e.status # "firing"
        PROVE  e.status # "resolved" /\ FiringAfter(h, N)
    <2>1. PICK m \in 1..(N + 1) : g[m].status = "firing"
                                  /\ \A l \in (m + 1)..(N + 1) : g[l].status # "resolved"
      BY <1>4 DEF FiringAfter
    <2>2. m \in 1..N /\ N + 1 \in (m + 1)..(N + 1)
      BY <1>1, <1>4, <2>1
    <2>3. \A l \in (m + 1)..N : l \in 1..N /\ l \in (m + 1)..(N + 1)
      BY <1>1, <2>2
    <2> QED BY <1>1, <2>1, <2>2, <2>3 DEF FiringAfter
  <1> QED BY <1>2, <1>3, <1>4 DEF g

\* The last notice is the new entry's if that notified, else the one it was.
LEMMA NoticeStep ==
  ASSUME NEW h \in Seq(Entries), NEW e \in Entries
  PROVE  LET g == Append(h, e)
             N == Len(h)
         IN  /\ e.notified => LastNotice(g, N + 1, N + 1) /\ NoticeBefore(g, N + 2)
             /\ ~e.notified =>
                  /\ NoticeBefore(g, N + 2) <=> NoticeBefore(h, N + 1)
                  /\ \A m \in 1..N : LastNotice(h, N, m) => LastNotice(g, N + 1, m)
  <1> DEFINE g == Append(h, e)
             N == Len(h)
  <1>1. N \in Nat /\ g[N + 1] = e /\ \A n \in 1..N : g[n] = h[n]
    BY Appended
  <1> HIDE DEF g
  <1>2. ASSUME e.notified PROVE LastNotice(g, N + 1, N + 1) /\ NoticeBefore(g, N + 2)
    BY <1>1, <1>2 DEF LastNotice, NoticeBefore
  <1>3. ASSUME ~e.notified
        PROVE  /\ NoticeBefore(g, N + 2) <=> NoticeBefore(h, N + 1)
               /\ \A m \in 1..N : LastNotice(h, N, m) => LastNotice(g, N + 1, m)
    <2>1. \A m \in 1..((N + 2) - 1) : m \in 1..N \/ m = N + 1
      BY <1>1
    <2>2. \A m \in 1..((N + 1) - 1) : m \in 1..N /\ m \in 1..((N + 2) - 1)
      BY <1>1
    <2>3. NoticeBefore(g, N + 2) <=> NoticeBefore(h, N + 1)
      BY <1>1, <1>3, <2>1, <2>2 DEF NoticeBefore
    <2>4. \A m \in 1..N : LastNotice(h, N, m) => LastNotice(g, N + 1, m)
      BY <1>1, <1>3 DEF LastNotice
    <2> QED BY <2>3, <2>4
  <1> QED BY <1>2, <1>3 DEF g

\* The decision for one event keeps the rules and the sum.
LEMMA NewEntry ==
  ASSUME NEW h \in Seq(Entries), NEW r \in Records, SumsUp(r, h), Stamped(r),
         NEW status \in Statuses, NEW policy \in Policies, NEW at \in Times
  PROVE  LET pol == EffectivePolicy(policy)
             e == [status |-> status, policy |-> policy, at |-> at,
                   notified |-> Notifies(status, r, pol, at)]
             g == Append(h, e)
         IN  /\ e \in Entries
             /\ NextRecord(status, r, pol, at) \in Records
             /\ SumsUp(NextRecord(status, r, pol, at), g)
             /\ Stamped(NextRecord(status, r, pol, at))
             /\ FiringNotice(g, Len(g)) /\ ResolveNotice(g, Len(g))
             /\ StatelessNotice(g, Len(g))
  <1> DEFINE pol == EffectivePolicy(policy)
             notifies == Notifies(status, r, pol, at)
             e == [status |-> status, policy |-> policy, at |-> at, notified |-> notifies]
             g == Append(h, e)
             N == Len(h)
             q == NextRecord(status, r, pol, at)
  <1>1. /\ policy.window \in Int /\ policy.repeat \in Int /\ at \in Nat
        /\ DefaultWindow \in Int /\ DefaultRepeat \in Int
        /\ r.active \in BOOLEAN /\ r.notified \in Int
        /\ (r.notified = Never \/ r.notified \in Nat)
    <2>1. r.active \in BOOLEAN /\ (r.notified = Never \/ r.notified \in Times)
      BY DEF Records
    <2> QED BY <2>1, Bounds DEF Never
  <1>2. notifies \in BOOLEAN
    BY DEF Notifies
  <1>3. /\ e \in Entries /\ e.status = status /\ e.policy = policy /\ e.at = at
        /\ e.notified = notifies
    BY <1>2 DEF Entries
  <1> HIDE DEF e
  <1>4. /\ N \in Nat /\ Len(g) = N + 1 /\ (N + 1) - 1 = N /\ g[N + 1] = e
        /\ FiringAfter(g, N) <=> FiringAfter(h, N)
        /\ NoticeBefore(g, N + 1) <=> NoticeBefore(h, N + 1)
    BY <1>3, Appended, PastStays
  <1>5. r.active <=> FiringAfter(h, N)
    BY DEF SumsUp
  <1>6. NoticeBefore(h, N + 1) <=> r.notified # Never
    <2>1. \A m \in 1..N : h[m].at # Never
      <3>1. \A m \in 1..N : h[m] \in Entries
        BY <1>3, Appended
      <3> QED BY <3>1, Bounds DEF Entries
    <2> QED BY <2>1 DEF SumsUp
  <1>7. \A d \in Nat : PassedSinceNotice(g, N + 1, d)
                         <=> r.notified # Never /\ at >= r.notified + d
    BY <1>3, <1>6, PassedByRecord
  <1>8. q.active \in BOOLEAN /\ (q.active <=> FiringAfter(g, N + 1))
    <2>1. q.active = NextActive(status, r)
      BY DEF NextRecord
    <2>2. FiringAfter(g, N + 1) <=> status = "firing" \/ (status # "resolved" /\ r.active)
      BY <1>3, <1>5, FiringStep
    <2> QED BY <1>1, <2>1, <2>2 DEF NextActive, Statuses
  <1>9. q.notified = IF notifies THEN at ELSE r.notified
    BY DEF NextRecord
  <1>10. q \in Records
    <2>1. q = [active |-> q.active, notified |-> q.notified]
      BY DEF NextRecord
    <2> QED BY <1>8, <1>9, <2>1 DEF Records
  <1>14. Stamped(q)
    <2>1. at # Never
      BY <1>1 DEF Never
    <2>2. q.active = NextActive(status, r)
      BY DEF NextRecord
    <2>3. status = "firing" /\ ~notifies => r.active
      BY DEF Notifies
    <2>4. q.active => notifies \/ r.active
      BY <2>2, <2>3 DEF NextActive, Statuses
    <2> QED BY <1>9, <2>1, <2>4 DEF Stamped
  <1> HIDE DEF q
  <1>11. SumsUp(q, g)
    <2>1. (N + 1) + 1 = N + 2
      BY <1>4
    <2>2. CASE notifies
      <3>1. LastNotice(g, N + 1, N + 1) /\ NoticeBefore(g, N + 2) /\ q.notified = g[N + 1].at
        BY <1>3, <1>4, <1>9, <2>2, NoticeStep
      <3> QED BY <1>4, <1>8, <2>1, <3>1 DEF SumsUp
    <2>3. CASE ~notifies
      <3>1. /\ NoticeBefore(g, N + 2) <=> NoticeBefore(h, N + 1)
            /\ \A m \in 1..N : LastNotice(h, N, m) => LastNotice(g, N + 1, m)
            /\ \A m \in 1..N : g[m] = h[m]
        BY <1>3, <2>3, NoticeStep, Appended
      <3>2. q.notified = r.notified
        BY <1>9, <2>3
      <3>3. CASE NoticeBefore(h, N + 1)
        <4>1. PICK m \in 1..N : LastNotice(h, N, m) /\ r.notified = h[m].at
          BY <3>3 DEF SumsUp
        <4> QED BY <1>4, <1>8, <2>1, <3>1, <3>2, <3>3, <4>1 DEF SumsUp
      <3>4. CASE ~NoticeBefore(h, N + 1)
        BY <1>4, <1>6, <1>8, <2>1, <3>1, <3>2, <3>4 DEF SumsUp
      <3> QED BY <3>3, <3>4
    <2> QED BY <1>2, <2>2, <2>3
  <1>12. FiringNotice(g, N + 1)
    <2> SUFFICES ASSUME status = "firing"
                 PROVE  notifies <=> ~r.active \/ \E d \in {policy.repeat, DefaultRepeat} :
                                       /\ Applies(policy.repeat, DefaultRepeat, d)
                                       /\ PassedSinceNotice(g, N + 1, d)
      BY <1>3, <1>4, <1>5 DEF FiringNotice
    <2>1. notifies <=> (r.active => pol.repeat > 0 /\ at >= r.notified + pol.repeat)
      BY DEF Notifies
    <2>2. r.active => r.notified # Never
      BY DEF Stamped
    <2>3. pol.repeat \in Int /\ pol.repeat = ResolvePolicyField(policy.repeat, DefaultRepeat)
      BY <1>1 DEF EffectivePolicy, ResolvePolicyField
    <2>4. \A d \in {policy.repeat, DefaultRepeat} :
            Applies(policy.repeat, DefaultRepeat, d) <=> d > 0 /\ d = pol.repeat
      BY <1>1, <2>3 DEF Applies, ResolvePolicyField
    <2>5. pol.repeat > 0 => pol.repeat \in {policy.repeat, DefaultRepeat}
      BY <1>1, <2>3 DEF ResolvePolicyField
    <2> HIDE DEF pol, notifies, g
    <2> QED BY <1>1, <1>7, <2>1, <2>2, <2>3, <2>4, <2>5
  <1>13. ResolveNotice(g, N + 1)
    <2>1. status = "resolved" => (notifies <=> r.active)
      BY DEF Notifies
    <2> QED BY <1>3, <1>4, <1>5, <2>1 DEF ResolveNotice
  <1>15. StatelessNotice(g, N + 1)
    <2> SUFFICES ASSUME status = "none"
                 PROVE  notifies <=> \/ Disabled(policy.window, DefaultWindow)
                                     \/ r.notified = Never
                                     \/ \E d \in {policy.window, DefaultWindow} :
                                          /\ Applies(policy.window, DefaultWindow, d)
                                          /\ PassedSinceNotice(g, N + 1, d)
      BY <1>3, <1>4, <1>6 DEF StatelessNotice
    <2>1. notifies <=> pol.window <= 0 \/ r.notified = Never \/ at >= r.notified + pol.window
      BY DEF Notifies
    <2>2. pol.window \in Int /\ pol.window = ResolvePolicyField(policy.window, DefaultWindow)
      BY <1>1 DEF EffectivePolicy, ResolvePolicyField
    <2>3. Disabled(policy.window, DefaultWindow) <=> pol.window <= 0
      BY <1>1, <2>2 DEF Disabled, ResolvePolicyField
    <2>4. \A d \in {policy.window, DefaultWindow} :
            Applies(policy.window, DefaultWindow, d) <=> d > 0 /\ d = pol.window
      BY <1>1, <2>2 DEF Applies, ResolvePolicyField
    <2>5. pol.window > 0 => pol.window \in {policy.window, DefaultWindow}
      BY <1>1, <2>2 DEF ResolvePolicyField
    <2> HIDE DEF pol, notifies, g
    <2> QED BY <1>1, <1>7, <2>1, <2>2, <2>3, <2>4, <2>5
  <1> QED BY <1>3, <1>4, <1>10, <1>11, <1>12, <1>13, <1>14, <1>15 DEF e, q

-----------------------------------------------------------------------------
(* The specification.                                                      *)

StampedInv == \A k \in Keys : Stamped(rec[k])
Inv == /\ TypeOK /\ RecordSumsUp /\ StampedInv
       /\ FiringRule /\ ResolveRule /\ StatelessRule

\* Empty histories and no records agree.
LEMMA InitInv == Init => Inv
  <1> SUFFICES ASSUME Init PROVE Inv
    OBVIOUS
  <1>1. TypeOK
    <2>1. NoRecord \in Records
      BY DEF NoRecord, Records
    <2>2. <<>> \in Seq(Entries)
      OBVIOUS
    <2> QED BY <2>1, <2>2 DEF Init, TypeOK
  <1>2. Len(<<>>) = 0 /\ \A n \in 1..0 : FALSE
    OBVIOUS
  <1>3. SumsUp(NoRecord, <<>>) /\ Stamped(NoRecord)
    BY <1>2 DEF SumsUp, Stamped, NoRecord, FiringAfter, NoticeBefore
  <1>4. RecordSumsUp /\ StampedInv
    BY <1>3 DEF Init, RecordSumsUp, StampedInv
  <1>5. FiringRule /\ ResolveRule /\ StatelessRule
    BY <1>2 DEF Init, FiringRule, ResolveRule, StatelessRule
  <1> QED BY <1>1, <1>4, <1>5 DEF Inv

\* A decision keeps the record and the history in agreement.
LEMMA DecideInv ==
  ASSUME Inv, NEW k \in Keys, NEW status \in Statuses, NEW policy \in Policies,
         NEW at \in Times, Decide(k, status, policy, at)
  PROVE  Inv'
  <1> DEFINE h == hist[k]
             e == Entry(k, status, policy, at)
             g == Append(h, e)
             q == NextRecord(status, rec[k], EffectivePolicy(policy), at)
  <1>1. /\ h \in Seq(Entries) /\ rec[k] \in Records
        /\ SumsUp(rec[k], h) /\ Stamped(rec[k])
    BY DEF Inv, TypeOK, RecordSumsUp, StampedInv
  <1>2. /\ e \in Entries /\ q \in Records /\ SumsUp(q, g) /\ Stamped(q)
        /\ FiringNotice(g, Len(g)) /\ ResolveNotice(g, Len(g)) /\ StatelessNotice(g, Len(g))
    BY <1>1, NewEntry DEF Entry
  <1>3. /\ rec \in [Keys -> Records] /\ hist \in [Keys -> Seq(Entries)]
        /\ rec' = [rec EXCEPT ![k] = q] /\ hist' = [hist EXCEPT ![k] = g]
    BY DEF Inv, TypeOK, Decide
  <1>4. g \in Seq(Entries) /\ Len(h) \in Nat /\ Len(g) = Len(h) + 1
    BY <1>1, <1>2, Appended
  <1>5. \A n \in 1..Len(g) : n \in 1..Len(h) \/ n = Len(g)
    BY <1>4
  <1>6. \A n \in 1..Len(h) : /\ FiringNotice(h, n) /\ ResolveNotice(h, n)
                             /\ StatelessNotice(h, n)
    BY DEF Inv, FiringRule, ResolveRule, StatelessRule
  <1>7. \A n \in 1..Len(g) : /\ FiringNotice(g, n) /\ ResolveNotice(g, n)
                             /\ StatelessNotice(g, n)
    <2> SUFFICES ASSUME NEW n \in 1..Len(h)
                 PROVE  FiringNotice(g, n) /\ ResolveNotice(g, n) /\ StatelessNotice(g, n)
      BY <1>2, <1>5
    <2> QED BY <1>1, <1>2, <1>6, PastRulesStay
  <1> HIDE DEF h, e, g, q
  <1>8. /\ rec'[k] = q /\ hist'[k] = g
        /\ \A j \in Keys : j # k => rec'[j] = rec[j] /\ hist'[j] = hist[j]
    BY <1>3
  <1>9. TypeOK'
    BY <1>2, <1>3, <1>4 DEF TypeOK
  <1>10. RecordSumsUp' /\ StampedInv'
    BY <1>2, <1>8 DEF Inv, RecordSumsUp, StampedInv
  <1>11. FiringRule'
    BY <1>7, <1>8 DEF Inv, FiringRule
  <1>12. ResolveRule'
    BY <1>7, <1>8 DEF Inv, ResolveRule
  <1>13. StatelessRule'
    BY <1>7, <1>8 DEF Inv, StatelessRule
  <1> QED BY <1>9, <1>10, <1>11, <1>12, <1>13 DEF Inv

\* So does every step.
LEMMA NextInv == ASSUME Inv, [Next]_vars PROVE Inv'
  <1>1. CASE Next
    BY <1>1, DecideInv DEF Next
  <1>2. CASE UNCHANGED vars
    BY <1>2 DEF vars, Inv, TypeOK, RecordSumsUp, StampedInv, FiringRule, ResolveRule,
                StatelessRule
  <1> QED BY <1>1, <1>2

\* They agree always.
LEMMA Invariance == Spec => []Inv
  BY InitInv, NextInv, PTL DEF Spec

(* After any sequence of decisions the record holds what the rules need to know
   of the history. *)
THEOREM RecordIsEnough == Spec => []RecordSumsUp
  <1>1. Inv => RecordSumsUp
    BY DEF Inv
  <1> QED BY <1>1, Invariance, PTL

(* Firing: once, then only when the repeat interval has elapsed. *)
THEOREM FiringNotifiesOnce == Spec => []FiringRule
  <1>1. Inv => FiringRule
    BY DEF Inv
  <1> QED BY <1>1, Invariance, PTL

(* Resolved: once for an alert that was firing. *)
THEOREM ResolveNotifiesOnce == Spec => []ResolveRule
  <1>1. Inv => ResolveRule
    BY DEF Inv
  <1> QED BY <1>1, Invariance, PTL

(* Stateless: unless the window has not elapsed. *)
THEOREM StatelessKeepsWindow == Spec => []StatelessRule
  <1>1. Inv => StatelessRule
    BY DEF Inv
  <1> QED BY <1>1, Invariance, PTL

(* All decisions follow the rules, however the intervals are edited and however
   long the history is. *)
THEOREM RulesAreKept == Spec => []RulesKept
  <1>1. FiringRule /\ ResolveRule /\ StatelessRule => RulesKept
    BY DEF RulesKept
  <1> QED BY <1>1, FiringNotifiesOnce, ResolveNotifiesOnce, StatelessKeepsWindow, PTL
=============================================================================
