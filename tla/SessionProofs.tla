--------------------------- MODULE SessionProofs ---------------------------
(***************************************************************************)
(* Proofs about module Session, for any program, environment and command   *)
(* line.                                                                   *)
(***************************************************************************)
EXTENDS SessionProperties, FiniteSetTheorems, SequenceTheorems,
        WellFoundedInduction, TLAPS

----------------------------------------------------------------------------
(* Numbers and sequences.                                                  *)

(* Every set of natural numbers has a least element, which Min chooses.    *)
LEMMA Least ==
    ASSUME NEW S, S \subseteq Nat, S # {}
    PROVE  Min(S) \in S /\ \A y \in S : Min(S) <= y
<1>1. PICK x \in S : \A y \in S : <<y, x>> \notin OpToRel(<, Nat)
  BY NatLessThanWellFounded, WFMin
<1>2. \A y \in S : ~(y < x)
  BY <1>1 DEF OpToRel
<1>3. \A y \in S : x <= y
  BY <1>2
<1> QED
  BY <1>3 DEF Min

(* A least element that stays is chosen again when greater ones come.      *)
LEMMA LeastStays ==
    ASSUME NEW S, NEW T, S \subseteq Nat, S # {}, T \subseteq Nat, S \subseteq T,
           \A t \in T \ S : \A s \in S : s <= t
    PROVE  Min(T) = Min(S)
<1> DEFINE m == Min(S)
           n == Min(T)
<1>1. m \in S /\ \A y \in S : m <= y
  BY Least
<1>2. n \in T /\ \A y \in T : n <= y
  BY Least
<1> HIDE DEF m, n
<1>3. m \in T /\ (n \notin S => m <= n)
  BY <1>1, <1>2
<1>4. m \in Nat /\ n \in Nat /\ n <= m /\ m <= n
  BY <1>1, <1>2, <1>3
<1> QED
  BY <1>4 DEF m, n

(* One element more of a prefix.                                           *)
LEMMA Longer ==
    ASSUME NEW E, NEW list \in Seq(E), NEW n \in 0 .. Len(list) - 1
    PROVE  /\ SubSeq(list, 1, n) \in Seq(E) /\ SubSeq(list, 1, n + 1) \in Seq(E)
           /\ DOMAIN SubSeq(list, 1, n) = 1 .. n
           /\ DOMAIN SubSeq(list, 1, n + 1) = 1 .. n + 1
           /\ \A i \in 1 .. n : SubSeq(list, 1, n)[i] = list[i]
           /\ \A i \in 1 .. n + 1 : SubSeq(list, 1, n + 1)[i] = list[i]
<1>1. Len(SubSeq(list, 1, n)) = n /\ Len(SubSeq(list, 1, n + 1)) = n + 1
  BY SubSeqProperties
<1> QED
  BY <1>1, SubSeqProperties

----------------------------------------------------------------------------
(* insert_ordered_set keeps a list in the order of its names.              *)

(* The place of a name, which the loop finds.                              *)
LEMMA PlaceOf ==
    ASSUME NEW E, \A e \in E : e.name \in Nat, NEW list \in Seq(E), NEW name \in Nat
    PROVE  /\ place(list, name) \in 1 .. Len(list) + 1
           /\ \A k \in 1 .. place(list, name) - 1 : list[k].name < name
           /\ place(list, name) <= Len(list) => name <= list[place(list, name)].name
<1> DEFINE Stops == {i \in 1 .. Len(list) + 1 :
                        i <= Len(list) => name <= list[i].name}
           i == Min(Stops)
<1>1. Stops \subseteq Nat /\ Len(list) + 1 \in Stops
  OBVIOUS
<1>2. i \in Stops /\ \A j \in Stops : i <= j
  <2> HIDE DEF Stops
  <2> QED BY <1>1, Least
<1>3. \A k \in 1 .. i - 1 : list[k].name < name
  <2> SUFFICES ASSUME NEW k \in 1 .. i - 1 PROVE list[k].name < name
    OBVIOUS
  <2>1. k \notin Stops /\ k \in 1 .. Len(list)
    BY <1>2
  <2>2. list[k].name \in Nat
    BY <2>1
  <2> QED BY <2>1, <2>2
<1> HIDE DEF i
<1> QED BY <1>2, <1>3 DEF place

(* A name that is taken is where the loop stops.                           *)
LEMMA Taken ==
    ASSUME NEW E, \A e \in E : e.name \in Nat, NEW list \in Seq(E),
           Sorted(list), NEW name \in Nat, has(list, name)
    PROVE  /\ place(list, name) \in DOMAIN list
           /\ list[place(list, name)].name = name
<1> DEFINE p == place(list, name)
<1>1. PICK k \in DOMAIN list : list[k].name = name
  BY DEF has
<1>2. /\ p \in 1 .. Len(list) + 1 /\ \A j \in 1 .. p - 1 : list[j].name < name
      /\ p <= Len(list) => name <= list[p].name
  BY PlaceOf
<1>3. p <= k
  BY <1>1, <1>2
<1>4. p \in DOMAIN list
  BY <1>2, <1>3
<1>5. p < k => list[p].name < list[k].name
  BY <1>4, <1>1 DEF Sorted
<1>6. list[p].name \in Nat
  BY <1>4
<1> QED BY <1>1, <1>2, <1>3, <1>4, <1>5, <1>6

(* A name that is new comes between the smaller and the greater ones.      *)
LEMMA Inserted ==
    ASSUME NEW E, \A e \in E : e.name \in Nat, NEW list \in Seq(E),
           Sorted(list), NEW x \in E, ~has(list, x.name)
    PROVE  LET p   == place(list, x.name)
               new == insert_ordered_set(list, x)
           IN  /\ p \in 1 .. Len(list) + 1
               /\ new \in Seq(E) /\ Len(new) = Len(list) + 1
               /\ \A k \in 1 .. p - 1 : new[k] = list[k]
               /\ new[p] = x
               /\ \A k \in p + 1 .. Len(list) + 1 : new[k] = list[k - 1]
               /\ Sorted(new)
<1> DEFINE p == place(list, x.name)
           new == insert_ordered_set(list, x)
           n == Len(list)
<1>1. /\ p \in 1 .. n + 1 /\ \A k \in 1 .. p - 1 : list[k].name < x.name
      /\ p <= n => x.name <= list[p].name
  BY PlaceOf
<1>2. new = SubSeq(list, 1, p - 1) \o <<x>> \o SubSeq(list, p, n)
  BY DEF insert_ordered_set
<1> HIDE DEF p, new
<1>3. /\ SubSeq(list, 1, p - 1) \in Seq(E) /\ Len(SubSeq(list, 1, p - 1)) = p - 1
      /\ \A k \in 1 .. p - 1 : SubSeq(list, 1, p - 1)[k] = list[k]
  BY <1>1, SubSeqProperties
<1>4. /\ SubSeq(list, p, n) \in Seq(E) /\ Len(SubSeq(list, p, n)) = n + 1 - p
      /\ \A k \in 1 .. n + 1 - p : SubSeq(list, p, n)[k] = list[p + k - 1]
  BY <1>1, SubSeqProperties
<1> DEFINE front == SubSeq(list, 1, p - 1) \o <<x>>
<1>a. /\ front \in Seq(E) /\ Len(front) = p /\ front[p] = x
      /\ \A k \in 1 .. p - 1 : front[k] = list[k]
  <2>1. <<x>> \in Seq(E) /\ Len(<<x>>) = 1 /\ <<x>>[1] = x
    OBVIOUS
  <2> QED BY <1>1, <1>3, <2>1, ConcatProperties
<1> HIDE DEF front
<1> DEFINE back == SubSeq(list, p, n)
<1>b. new = front \o back
  BY <1>2 DEF front
<1>d. /\ back \in Seq(E) /\ Len(back) = n + 1 - p
      /\ \A k \in 1 .. n + 1 - p : back[k] = list[p + k - 1]
  BY <1>4
<1> HIDE DEF back
<1>c. /\ new \in Seq(E) /\ Len(new) = p + (n + 1 - p)
      /\ \A k \in 1 .. p + (n + 1 - p) :
            new[k] = IF k <= p THEN front[k] ELSE back[k - p]
  BY <1>a, <1>b, <1>d, ConcatProperties, SMTT(30)
<1>5. new \in Seq(E) /\ Len(new) = n + 1
  BY <1>1, <1>c
<1>6. \A k \in 1 .. p - 1 : new[k] = list[k]
  BY <1>1, <1>a, <1>c
<1>7. new[p] = x
  BY <1>1, <1>a, <1>c
<1>8. \A k \in p + 1 .. n + 1 : new[k] = list[k - 1]
  <2> SUFFICES ASSUME NEW k \in p + 1 .. n + 1 PROVE new[k] = list[k - 1]
    OBVIOUS
  <2>1. new[k] = back[k - p]
    BY <1>1, <1>c
  <2>2. k - p \in 1 .. n + 1 - p /\ p + (k - p) - 1 = k - 1
    BY <1>1
  <2> QED BY <1>d, <2>1, <2>2
<1>9. \A k \in p .. n : x.name < list[k].name
  <2> SUFFICES ASSUME NEW k \in p .. n PROVE x.name < list[k].name
    OBVIOUS
  <2>1. k \in DOMAIN list /\ p \in DOMAIN list
    BY <1>1
  <2>2. p < k => list[p].name < list[k].name
    BY <2>1 DEF Sorted
  <2>3. list[k].name # x.name /\ list[p].name # x.name
    BY <2>1 DEF has
  <2>4. list[k].name \in Nat /\ list[p].name \in Nat /\ x.name \in Nat
    BY <2>1
  <2> QED BY <1>1, <2>2, <2>3, <2>4
<1>10. Sorted(new)
  <2> SUFFICES ASSUME NEW i \in DOMAIN new, NEW j \in DOMAIN new, i < j
               PROVE  new[i].name < new[j].name
    BY DEF Sorted
  <2>0. i \in 1 .. n + 1 /\ j \in 1 .. n + 1
    BY <1>5
  <2>1. CASE j < p
    <3>1. i \in DOMAIN list /\ j \in DOMAIN list /\ new[i] = list[i] /\ new[j] = list[j]
      BY <1>1, <1>6, <2>0, <2>1
    <3> QED BY <3>1 DEF Sorted
  <2>2. CASE j = p
    BY <1>1, <1>6, <1>7, <2>0, <2>2
  <2>3. CASE i < p /\ p < j
    <3>2. new[i] = list[i] /\ new[j] = list[j - 1]
      BY <1>1, <1>6, <1>8, <2>0, <2>3
    <3>3. list[i].name < x.name /\ x.name < list[j - 1].name
      BY <1>1, <1>9, <2>0, <2>3, SMTT(30)
    <3>4. list[i].name \in Nat /\ list[j - 1].name \in Nat /\ x.name \in Nat
      BY <1>1, <2>0, <2>3
    <3> QED BY <3>2, <3>3, <3>4
  <2>4. CASE i = p
    <3>1. new[j] = list[j - 1] /\ j - 1 \in p .. n
      BY <1>1, <1>8, <2>0, <2>4, SMTT(30)
    <3> QED BY <1>7, <1>9, <2>4, <3>1
  <2>5. CASE p < i
    <3>1. new[i] = list[i - 1] /\ new[j] = list[j - 1]
      BY <1>1, <1>8, <2>0, <2>5
    <3> QED BY <1>1, <2>0, <2>5, <3>1 DEF Sorted
  <2> QED BY <1>1, <2>0, <2>1, <2>2, <2>3, <2>4, <2>5
<1> QED BY <1>1, <1>5, <1>6, <1>7, <1>8, <1>10 DEF p, new

----------------------------------------------------------------------------
(* Registration: what one entry more of a section changes.                 *)

SuiteRec == [name : Nat, data : Data, tests : Seq(TestDecl)]
SetRec   == [suites : Seq(SuiteRec), tests : Nat]
SuiteEntry == SuiteDecl \cup {Pad}
TestEntry  == TestDecl \cup {Pad}

\* Q is P and one entry more, e.
Extends(P, Q, e) ==
    \E n \in Nat : /\ DOMAIN P = 1 .. n /\ DOMAIN Q = 1 .. n + 1
                   /\ \A i \in 1 .. n : Q[i] = P[i]
                   /\ Q[n + 1] = e

LEMMA OneMore ==
    ASSUME NEW E, NEW list \in Seq(E), NEW i \in 0 .. Len(list) - 1,
           NEW P, NEW Q, P = SubSeq(list, 1, i), Q = SubSeq(list, 1, i + 1)
    PROVE  Extends(P, Q, list[i + 1])
<1>1. /\ DOMAIN P = 1 .. i /\ DOMAIN Q = 1 .. i + 1
      /\ \A j \in 1 .. i : P[j] = list[j]
      /\ \A j \in 1 .. i + 1 : Q[j] = list[j]
  BY Longer
<1>2. i \in Nat /\ (\A j \in 1 .. i : Q[j] = P[j]) /\ Q[i + 1] = list[i + 1]
  BY <1>1
<1> QED BY <1>1, <1>2 DEF Extends

(* What was declared of a suite first stays.                               *)
LEMMA DeclaredMore ==
    ASSUME NEW P, NEW Q, NEW e, Extends(P, Q, e), NEW m
    PROVE  Declared(Q, m) = IF m \in Names(P) \/ m # e.name THEN Declared(P, m)
                                                            ELSE e.data
<1>1. PICK n \in Nat : /\ DOMAIN P = 1 .. n /\ DOMAIN Q = 1 .. n + 1
                       /\ \A i \in 1 .. n : Q[i] = P[i]
                       /\ Q[n + 1] = e
  BY DEF Extends
<1>2. Of(P, m) \subseteq 1 .. n /\ (Of(P, m) # {} <=> m \in Names(P))
  BY <1>1 DEF Of, Names
<1>3. Of(Q, m) = IF m = e.name THEN Of(P, m) \cup {n + 1} ELSE Of(P, m)
  BY <1>1 DEF Of
<1>4. CASE m # e.name
  <2>1. Of(P, m) # {} => Q[Min(Of(P, m))] = P[Min(Of(P, m))]
    <3> HAVE Of(P, m) # {}
    <3>1. Min(Of(P, m)) \in Of(P, m)
      BY <1>2, Least
    <3> QED BY <1>1, <1>2, <3>1
  <2> QED BY <1>3, <1>4, <2>1 DEF Declared
<1>5. CASE m = e.name /\ m \in Names(P)
  <2>1. Min(Of(Q, m)) = Min(Of(P, m))
    <3> DEFINE S == Of(P, m)
               T == Of(Q, m)
    <3>1. S \subseteq Nat /\ S # {} /\ T \subseteq Nat /\ S \subseteq T
      BY <1>2, <1>3, <1>5
    <3>2. \A t \in T \ S : \A s \in S : s <= t
      BY <1>2, <1>3, <1>5
    <3> HIDE DEF S, T
    <3> QED BY <3>1, <3>2, LeastStays DEF S, T
  <2>2. Min(Of(P, m)) \in Of(P, m)
    BY <1>2, <1>5, Least
  <2> QED BY <1>1, <1>2, <1>3, <1>5, <2>1, <2>2 DEF Declared
<1>6. CASE m = e.name /\ m \notin Names(P)
  <2>1. Of(Q, m) = {n + 1}
    BY <1>2, <1>3, <1>6
  <2>2. Min(Of(Q, m)) \in Of(Q, m)
    BY <2>1, Least
  <2> QED BY <1>1, <1>6, <2>1, <2>2 DEF Declared
<1> QED BY <1>4, <1>5, <1>6

LEMMA NamesMore ==
    ASSUME NEW P, NEW Q, NEW e, Extends(P, Q, e)
    PROVE  Names(Q) = Names(P) \cup {e.name}
<1>1. PICK n \in Nat : /\ DOMAIN P = 1 .. n /\ DOMAIN Q = 1 .. n + 1
                       /\ \A i \in 1 .. n : Q[i] = P[i]
                       /\ Q[n + 1] = e
  BY DEF Extends
<1> QED BY <1>1 DEF Names

(* What a test is, when it is registered first, stays.                     *)
KeysOf(tests) == {Key(tests[i]) : i \in Reals(tests)}

LEMMA TestMore ==
    ASSUME NEW P, NEW Q, NEW e, Extends(P, Q, e), NEW k, k \in KeysOf(Q)
    PROVE  TestOf(Q, k) = IF k \in KeysOf(P) THEN TestOf(P, k) ELSE e
<1>1. PICK n \in Nat : /\ DOMAIN P = 1 .. n /\ DOMAIN Q = 1 .. n + 1
                       /\ \A i \in 1 .. n : Q[i] = P[i]
                       /\ Q[n + 1] = e
  BY DEF Extends
<1>2. EntriesOf(P, k) \subseteq 1 .. n /\ (EntriesOf(P, k) # {} <=> k \in KeysOf(P))
  BY <1>1 DEF EntriesOf, Reals, KeysOf
<1>3. EntriesOf(Q, k) = IF Real(e) /\ Key(e) = k THEN EntriesOf(P, k) \cup {n + 1}
                                                 ELSE EntriesOf(P, k)
  BY <1>1 DEF EntriesOf, Reals
<1>4. EntriesOf(Q, k) # {}
  BY DEF EntriesOf, KeysOf
<1>5. CASE k \in KeysOf(P)
  <2>1. Min(EntriesOf(Q, k)) = Min(EntriesOf(P, k))
    <3> DEFINE S == EntriesOf(P, k)
               T == EntriesOf(Q, k)
    <3>1. S \subseteq Nat /\ S # {} /\ T \subseteq Nat /\ S \subseteq T
      BY <1>2, <1>3, <1>5
    <3>2. \A t \in T \ S : \A s \in S : s <= t
      BY <1>2, <1>3, <1>5
    <3> HIDE DEF S, T
    <3> QED BY <3>1, <3>2, LeastStays DEF S, T
  <2>2. Min(EntriesOf(P, k)) \in EntriesOf(P, k)
    BY <1>2, <1>5, Least
  <2> QED BY <1>1, <1>2, <1>5, <2>1, <2>2 DEF TestOf
<1>6. CASE k \notin KeysOf(P)
  <2>1. EntriesOf(Q, k) = {n + 1}
    BY <1>2, <1>3, <1>4, <1>6
  <2>2. Min(EntriesOf(Q, k)) \in EntriesOf(Q, k)
    BY <2>1, Least
  <2> QED BY <1>1, <1>6, <2>1, <2>2 DEF TestOf
<1> QED BY <1>5, <1>6

LEMMA KeysMore ==
    ASSUME NEW P, NEW Q, NEW e, Extends(P, Q, e)
    PROVE  /\ KeysOf(Q) = IF Real(e) THEN KeysOf(P) \cup {Key(e)} ELSE KeysOf(P)
           /\ {Q[i].category : i \in Reals(Q)}
                = IF Real(e) THEN {P[i].category : i \in Reals(P)} \cup {e.category}
                             ELSE {P[i].category : i \in Reals(P)}
           /\ Cardinality(Reals(P)) \in Nat
           /\ Cardinality(Reals(Q))
                = IF Real(e) THEN Cardinality(Reals(P)) + 1 ELSE Cardinality(Reals(P))
<1>1. PICK n \in Nat : /\ DOMAIN P = 1 .. n /\ DOMAIN Q = 1 .. n + 1
                       /\ \A i \in 1 .. n : Q[i] = P[i]
                       /\ Q[n + 1] = e
  BY DEF Extends
<1>2. Reals(Q) = IF Real(e) THEN Reals(P) \cup {n + 1} ELSE Reals(P)
  BY <1>1 DEF Reals
<1>3. Reals(P) \subseteq 1 .. n /\ \A i \in Reals(P) : Q[i] = P[i]
  BY <1>1 DEF Reals
<1>4. IsFiniteSet(Reals(P)) /\ n + 1 \notin Reals(P)
  <2>1. IsFiniteSet(1 .. n)
    BY FS_Interval
  <2> QED BY <1>3, <2>1, FS_Subset
<1>5. KeysOf(Q) = IF Real(e) THEN KeysOf(P) \cup {Key(e)} ELSE KeysOf(P)
  BY <1>1, <1>2, <1>3 DEF KeysOf
<1>6. {Q[i].category : i \in Reals(Q)}
         = IF Real(e) THEN {P[i].category : i \in Reals(P)} \cup {e.category}
                      ELSE {P[i].category : i \in Reals(P)}
  BY <1>1, <1>2, <1>3
<1>7. Cardinality(Reals(P)) \in Nat
  BY <1>4, FS_CardinalityType
<1>8. Cardinality(Reals(Q))
         = IF Real(e) THEN Cardinality(Reals(P)) + 1 ELSE Cardinality(Reals(P))
  BY <1>2, <1>4, FS_AddElement
<1> QED BY <1>5, <1>6, <1>7, <1>8

(* What a list is once a name was inserted, there or not.                  *)
LEMMA Inserting ==
    ASSUME NEW E, \A e \in E : e.name \in Nat, NEW list \in Seq(E),
           Sorted(list), NEW x \in E
    PROVE  LET new == insert_ordered_set(list, x)
           IN  /\ new \in Seq(E) /\ Sorted(new)
               /\ Names(new) = Names(list) \cup {x.name}
               /\ has(new, x.name)
               /\ \A i \in DOMAIN new :
                     \/ \E j \in DOMAIN list : new[i] = list[j]
                     \/ new[i] = x /\ x.name \notin Names(list)
<1> DEFINE new == insert_ordered_set(list, x)
           p == place(list, x.name)
           n == Len(list)
<1>1. CASE has(list, x.name)
  BY <1>1 DEF insert_ordered_set, has, Names
<1>2. CASE ~has(list, x.name)
  <2>1. /\ p \in 1 .. n + 1
        /\ new \in Seq(E) /\ Len(new) = n + 1 /\ Sorted(new)
        /\ \A k \in 1 .. p - 1 : new[k] = list[k]
        /\ new[p] = x
        /\ \A k \in p + 1 .. n + 1 : new[k] = list[k - 1]
    BY <1>2, Inserted
  <2> HIDE DEF new, p
  <2>2. x.name \notin Names(list)
    BY <1>2 DEF has, Names
  <2>3. DOMAIN new = 1 .. n + 1 /\ DOMAIN list = 1 .. n /\ n \in Nat
    BY <2>1
  <2>4. ASSUME NEW i \in DOMAIN new
        PROVE  (\E j \in DOMAIN list : new[i] = list[j]) \/ new[i] = x
    <3>1. CASE i < p
      BY <2>1, <2>3, <3>1
    <3>2. CASE i = p
      BY <2>1, <3>2
    <3>3. CASE i > p
      <4>0. i \in p + 1 .. n + 1
        BY <2>1, <2>3, <3>3
      <4>1. new[i] = list[i - 1] /\ i - 1 \in 1 .. n
        BY <2>1, <2>3, <4>0
      <4> QED BY <2>3, <4>1
    <3> QED BY <2>1, <2>3, <3>1, <3>2, <3>3
  <2>5. ASSUME NEW j \in DOMAIN list
        PROVE  \E i \in DOMAIN new : new[i] = list[j]
    <3>1. CASE j < p
      BY <2>1, <2>3, <3>1
    <3>2. CASE ~(j < p)
      <4>1. j + 1 \in p + 1 .. n + 1 /\ (j + 1) - 1 = j
        BY <2>1, <2>3, <3>2
      <4>2. new[j + 1] = list[j] /\ j + 1 \in DOMAIN new
        BY <2>1, <2>3, <4>1
      <4> QED BY <4>2
    <3> QED BY <3>1, <3>2
  <2>6. Names(new) = Names(list) \cup {x.name}
    <3>1. Names(new) \subseteq Names(list) \cup {x.name}
      BY <2>4 DEF Names
    <3>2. p \in DOMAIN new /\ x.name \in Names(new)
      BY <2>1, <2>3 DEF Names
    <3>3. Names(list) \subseteq Names(new)
      BY <2>5 DEF Names
    <3> QED BY <3>1, <3>2, <3>3
  <2>7. has(new, x.name)
    BY <2>1, <2>3 DEF has
  <2> QED BY <2>1, <2>2, <2>4, <2>6, <2>7 DEF new
<1> QED BY <1>1, <1>2

LEMMA SuiteInserting ==
    ASSUME NEW list \in Seq(SuiteRec), Sorted(list), NEW x \in SuiteRec
    PROVE  LET new == insert_ordered_set(list, x)
           IN  /\ new \in Seq(SuiteRec) /\ Sorted(new)
               /\ Names(new) = Names(list) \cup {x.name}
               /\ has(new, x.name)
               /\ \A i \in DOMAIN new :
                     \/ \E j \in DOMAIN list : new[i] = list[j]
                     \/ new[i] = x /\ x.name \notin Names(list)
<1>1. \A z \in SuiteRec : z.name \in Nat
  BY DEF SuiteRec
<1> QED BY <1>1, Inserting

LEMMA TestInserting ==
    ASSUME NEW list \in Seq(TestDecl), Sorted(list), NEW x \in TestDecl
    PROVE  LET new == insert_ordered_set(list, x)
           IN  /\ new \in Seq(TestDecl) /\ Sorted(new)
               /\ Names(new) = Names(list) \cup {x.name}
               /\ has(new, x.name)
               /\ \A i \in DOMAIN new :
                     \/ \E j \in DOMAIN list : new[i] = list[j]
                     \/ new[i] = x /\ x.name \notin Names(list)
<1>1. \A z \in TestDecl : z.name \in Nat
  BY DEF TestDecl
<1> QED BY <1>1, Inserting

(* One entry more of the section of suites.                                *)
LEMMA SuiteStep ==
    ASSUME NEW x \in SetRec, NEW P, NEW Q, NEW e \in SuiteEntry, Extends(P, Q, e),
           RegisteredFrom(x, P, <<>>)
    PROVE  register_suite(x, e) \in SetRec
           /\ RegisteredFrom(register_suite(x, e), Q, <<>>)
<1> DEFINE y == register_suite(x, e)
<1>0. Reals(<<>>) = {}
  BY DEF Reals
<1>1. /\ Sorted(x.suites) /\ x.suites \in Seq(SuiteRec) /\ x.tests = Cardinality({})
      /\ Names(x.suites) = Names(P) \ {0}
      /\ \A i \in DOMAIN x.suites : SuiteFrom(x.suites[i], P, <<>>)
  BY <1>0 DEF RegisteredFrom, SetRec, Pad
<1>2. Names(Q) = Names(P) \cup {e.name}
  BY NamesMore
<1>3. CASE e.name = 0
  <2>1. y = x
    BY <1>3 DEF register_suite, Pad
  <2>2. ASSUME NEW i \in DOMAIN x.suites PROVE SuiteFrom(x.suites[i], Q, <<>>)
    <3>1. x.suites[i].name \in Names(x.suites)
      BY DEF Names
    <3>2. x.suites[i].name # 0
      BY <1>1, <3>1
    <3>3. Declared(Q, x.suites[i].name) = Declared(P, x.suites[i].name)
      BY <1>3, <3>2, DeclaredMore
    <3> QED BY <1>1, <3>3 DEF SuiteFrom
  <2> QED BY <1>0, <1>1, <1>2, <1>3, <2>1, <2>2 DEF RegisteredFrom, Pad
<1>4. CASE e.name # 0
  <2> DEFINE s == Suite(e.name, e.data)
             new == insert_ordered_set(x.suites, s)
  <2>0. e \in SuiteDecl
    BY <1>4 DEF SuiteEntry, Pad
  <2>1. s \in SuiteRec /\ s.name = e.name /\ s.data = e.data /\ s.tests = <<>>
    BY <2>0 DEF Suite, SuiteRec, SuiteDecl
  <2>2. y = [x EXCEPT !.suites = new]
    BY <1>4 DEF register_suite, Pad
  <2> HIDE DEF s
  <2>3. /\ new \in Seq(SuiteRec) /\ Sorted(new)
        /\ Names(new) = Names(x.suites) \cup {s.name}
        /\ \A i \in DOMAIN new :
              \/ \E j \in DOMAIN x.suites : new[i] = x.suites[j]
              \/ new[i] = s /\ s.name \notin Names(x.suites)
    BY <1>1, <2>1, SuiteInserting
  <2> HIDE DEF new
  <2>4. y \in SetRec /\ y.suites = new /\ y.tests = x.tests
    BY <2>2, <2>3 DEF SetRec
  <2>5. ASSUME NEW i \in DOMAIN new PROVE SuiteFrom(new[i], Q, <<>>)
    <3>1. CASE \E j \in DOMAIN x.suites : new[i] = x.suites[j]
      <4>1. PICK j \in DOMAIN x.suites : new[i] = x.suites[j]
        BY <3>1
      <4>2. x.suites[j].name \in Names(x.suites)
        BY DEF Names
      <4>3. x.suites[j].name \in Names(P)
        BY <1>1, <4>2
      <4>4. Declared(Q, x.suites[j].name) = Declared(P, x.suites[j].name)
        BY <4>3, DeclaredMore
      <4> QED BY <1>1, <4>1, <4>4 DEF SuiteFrom
    <3>2. CASE new[i] = s /\ s.name \notin Names(x.suites)
      <4>1. e.name \notin Names(P)
        BY <1>1, <1>4, <2>1, <3>2
      <4>2. Declared(Q, e.name) = e.data
        BY <4>1, DeclaredMore
      <4> QED BY <1>0, <2>1, <3>2, <4>2 DEF SuiteFrom, Sorted, Names
    <3> QED BY <2>3, <3>1, <3>2
  <2>6. Names(new) = Names(Q) \ {0}
    BY <1>1, <1>2, <1>4, <2>1, <2>3
  <2> QED BY <1>0, <1>1, <2>3, <2>4, <2>5, <2>6 DEF RegisteredFrom, Pad
<1> QED BY <1>3, <1>4

(* One entry more of the section of tests.                                 *)
LEMMA TestStep ==
    ASSUME NEW x \in SetRec, NEW P, NEW T, NEW U, NEW e \in TestEntry,
           Extends(T, U, e), RegisteredFrom(x, P, T)
    PROVE  register_test(x, e) \in SetRec
           /\ RegisteredFrom(register_test(x, e), P, U)
<1> DEFINE y == register_test(x, e)
           CategoriesOf(V) == {V[i].category : i \in Reals(V)}
<1>1. /\ Sorted(x.suites) /\ x.suites \in Seq(SuiteRec)
      /\ x.tests = Cardinality(Reals(T))
      /\ Names(x.suites) = (Names(P) \ {0}) \cup CategoriesOf(T)
      /\ \A i \in DOMAIN x.suites : SuiteFrom(x.suites[i], P, T)
  BY DEF RegisteredFrom, SetRec, Pad
<1>2. /\ KeysOf(U) = IF Real(e) THEN KeysOf(T) \cup {Key(e)} ELSE KeysOf(T)
      /\ CategoriesOf(U) = IF Real(e) THEN CategoriesOf(T) \cup {e.category}
                                      ELSE CategoriesOf(T)
      /\ Cardinality(Reals(T)) \in Nat
      /\ Cardinality(Reals(U))
            = IF Real(e) THEN Cardinality(Reals(T)) + 1 ELSE Cardinality(Reals(T))
  BY KeysMore
<1>a. \A k \in KeysOf(T) : k \in KeysOf(U) /\ TestOf(U, k) = TestOf(T, k)
  BY <1>2, TestMore
<1>b. \A k \in KeysOf(T) : k[1] \in CategoriesOf(T)
  BY DEF KeysOf, Key
<1> HIDE DEF CategoriesOf
<1>3. CASE ~Real(e)
  <2>1. y = x
    BY <1>3 DEF register_test, Real
  <2>2. ASSUME NEW s, SuiteFrom(s, P, T) PROVE SuiteFrom(s, P, U)
    <3>1. {<<s.name, n>> : n \in Names(s.tests)} = {k \in KeysOf(T) : k[1] = s.name}
      BY <2>2 DEF SuiteFrom, KeysOf
    <3>2. ASSUME NEW n \in DOMAIN s.tests
          PROVE  s.tests[n] = TestOf(U, <<s.name, s.tests[n].name>>)
      <4>1. <<s.name, s.tests[n].name>> \in KeysOf(T)
        BY <3>1 DEF Names
      <4> QED BY <1>a, <2>2, <4>1 DEF SuiteFrom
    <3> QED BY <1>2, <1>3, <2>2, <3>1, <3>2 DEF SuiteFrom, KeysOf
  <2> QED BY <1>1, <1>2, <1>3, <2>1, <2>2 DEF RegisteredFrom, Pad, CategoriesOf
<1>4. CASE Real(e)
  <2> DEFINE c    == e.category
             s    == Suite(c, NoData)
             some == insert_ordered_set(x.suites, s)
             p    == place(some, c)
             list == some[p].tests
             more == insert_ordered_set(list, e)
             new  == [some EXCEPT ![p].tests = more]
  <2>0. e \in TestDecl /\ c \in Nat /\ c # 0 /\ Key(e) = <<c, e.name>>
    BY <1>4 DEF Real, Pad, TestEntry, TestDecl, Key
  <2>1. s \in SuiteRec /\ s.name = c /\ s.data = NoData /\ s.tests = <<>>
    BY <2>0 DEF Suite, SuiteRec, NoData, Data
  <2>2. y = [suites |-> new, tests |-> x.tests + 1]
    BY <1>4 DEF register_test, criterion_register_test, Real
  <2> HIDE DEF s
  <2>3. /\ some \in Seq(SuiteRec) /\ Sorted(some)
        /\ Names(some) = Names(x.suites) \cup {c}
        /\ has(some, c)
        /\ \A i \in DOMAIN some :
              \/ \E j \in DOMAIN x.suites : some[i] = x.suites[j]
              \/ some[i] = s /\ c \notin Names(x.suites)
    <3> HIDE DEF c
    <3>1. /\ some \in Seq(SuiteRec) /\ Sorted(some)
          /\ Names(some) = Names(x.suites) \cup {s.name}
          /\ has(some, s.name)
          /\ \A i \in DOMAIN some :
                \/ \E j \in DOMAIN x.suites : some[i] = x.suites[j]
                \/ some[i] = s /\ s.name \notin Names(x.suites)
      BY <1>1, <2>1, SuiteInserting
    <3> QED BY <2>1, <3>1
  <2> HIDE DEF some
  <2>4. p \in DOMAIN some /\ some[p].name = c
    <3>1. \A z \in SuiteRec : z.name \in Nat
      BY DEF SuiteRec
    <3> QED BY <2>0, <2>3, <3>1, Taken
  <2> HIDE DEF p
  <2>5. \A i \in DOMAIN some : SuiteFrom(some[i], P, T)
    <3> SUFFICES ASSUME NEW i \in DOMAIN some PROVE SuiteFrom(some[i], P, T)
      OBVIOUS
    <3>1. CASE some[i] = s /\ c \notin Names(x.suites)
      <4>1. c \notin Names(P) /\ c \notin CategoriesOf(T)
        BY <1>1, <2>0, <3>1
      <4>2. Declared(P, c) = NoData
        BY <4>1 DEF Declared, Of, Names
      <4>3. {k \in KeysOf(T) : k[1] = c} = {}
        BY <1>b, <4>1
      <4> QED BY <2>1, <3>1, <4>2, <4>3 DEF SuiteFrom, Sorted, Names, KeysOf
    <3>2. CASE \E j \in DOMAIN x.suites : some[i] = x.suites[j]
      BY <1>1, <3>2
    <3> QED BY <2>3, <3>1, <3>2
  <2>6. /\ list \in Seq(TestDecl) /\ Sorted(list)
        /\ {<<c, n>> : n \in Names(list)} = {k \in KeysOf(T) : k[1] = c}
        /\ \A n \in DOMAIN list : list[n] = TestOf(T, <<c, list[n].name>>)
        /\ some[p].data = Declared(P, c)
    <3>1. some[p] \in SuiteRec /\ SuiteFrom(some[p], P, T)
      BY <2>3, <2>4, <2>5
    <3>2. list \in Seq(TestDecl)
      BY <3>1 DEF SuiteRec
    <3> QED BY <2>4, <3>1, <3>2 DEF SuiteFrom, KeysOf
  <2>7. /\ more \in Seq(TestDecl) /\ Sorted(more)
        /\ Names(more) = Names(list) \cup {e.name}
        /\ \A i \in DOMAIN more :
              \/ \E j \in DOMAIN list : more[i] = list[j]
              \/ more[i] = e /\ e.name \notin Names(list)
    <3> HIDE DEF list
    <3> QED BY <2>0, <2>6, TestInserting
  <2>8. \A i \in DOMAIN some \ {p} : some[i].name # c
    <3> SUFFICES ASSUME NEW i \in DOMAIN some, i # p PROVE some[i].name # c
      OBVIOUS
    <3>1. i < p \/ p < i
      BY <2>3, <2>4
    <3>2. some[i].name < some[p].name \/ some[p].name < some[i].name
      BY <2>3, <2>4, <3>1 DEF Sorted
    <3> QED BY <2>0, <2>4, <3>2
  <2>9. /\ DOMAIN new = DOMAIN some /\ Len(new) = Len(some)
        /\ \A i \in DOMAIN some \ {p} : new[i] = some[i]
        /\ new[p].name = c /\ new[p].data = some[p].data /\ new[p].tests = more
        /\ new \in Seq(SuiteRec)
    <3> HIDE DEF more
    <3>1. some[p] \in SuiteRec
      BY <2>3, <2>4
    <3>2. [some[p] EXCEPT !.tests = more] \in SuiteRec
      BY <2>7, <3>1 DEF SuiteRec
    <3>3. /\ [some[p] EXCEPT !.tests = more].name = some[p].name
          /\ [some[p] EXCEPT !.tests = more].data = some[p].data
          /\ [some[p] EXCEPT !.tests = more].tests = more
      BY <3>1 DEF SuiteRec
    <3> DEFINE z == [some[p] EXCEPT !.tests = more]
    <3>4. new = [some EXCEPT ![p] = z]
      OBVIOUS
    <3> HIDE DEF z, new
    <3>5. new \in Seq(SuiteRec) /\ DOMAIN new = DOMAIN some /\ Len(new) = Len(some)
      BY <2>3, <2>4, <3>2, <3>4 DEF z
    <3>6. new[p] = z /\ \A i \in DOMAIN some \ {p} : new[i] = some[i]
      BY <2>3, <2>4, <3>4
    <3> QED BY <2>4, <3>3, <3>5, <3>6 DEF z
  <2> HIDE DEF new, more, list
  <2>10. SuiteFrom(new[p], P, U)
    <3>1. {<<c, n>> : n \in Names(more)} = {k \in KeysOf(U) : k[1] = c}
      BY <1>2, <1>4, <2>0, <2>6, <2>7
    <3>2. ASSUME NEW n \in DOMAIN more
          PROVE  more[n] = TestOf(U, <<c, more[n].name>>)
      <4>1. CASE \E j \in DOMAIN list : more[n] = list[j]
        <5>1. PICK j \in DOMAIN list : more[n] = list[j]
          BY <4>1
        <5>2. <<c, list[j].name>> \in KeysOf(T)
          BY <2>6 DEF Names
        <5> QED BY <1>a, <2>6, <5>1, <5>2
      <4>2. CASE more[n] = e /\ e.name \notin Names(list)
        <5>1. Key(e) \notin KeysOf(T)
          BY <2>0, <2>6, <4>2
        <5>2. Key(e) \in KeysOf(U)
          BY <1>2, <1>4
        <5>3. TestOf(U, Key(e)) = e
          BY <5>1, <5>2, TestMore
        <5> QED BY <2>0, <4>2, <5>3
      <4> QED BY <2>7, <4>1, <4>2
    <3> QED BY <2>6, <2>7, <2>9, <3>1, <3>2 DEF SuiteFrom, KeysOf
  <2>11. ASSUME NEW i \in DOMAIN some, i # p PROVE SuiteFrom(new[i], P, U)
    <3> DEFINE z == some[i]
    <3>1. new[i] = z /\ z.name # c /\ SuiteFrom(z, P, T)
      BY <2>5, <2>8, <2>9, <2>11
    <3> HIDE DEF z
    <3>2. {<<z.name, n>> : n \in Names(z.tests)} = {k \in KeysOf(T) : k[1] = z.name}
      BY <3>1 DEF SuiteFrom, KeysOf
    <3>3. {k \in KeysOf(U) : k[1] = z.name} = {k \in KeysOf(T) : k[1] = z.name}
      BY <1>2, <1>4, <2>0, <3>1
    <3>4. ASSUME NEW n \in DOMAIN z.tests
          PROVE  z.tests[n] = TestOf(U, <<z.name, z.tests[n].name>>)
      <4>1. <<z.name, z.tests[n].name>> \in KeysOf(T)
        BY <3>2 DEF Names
      <4> QED BY <1>a, <3>1, <4>1 DEF SuiteFrom
    <3> QED BY <3>1, <3>2, <3>3, <3>4 DEF SuiteFrom, KeysOf
  <2>12. \A i \in DOMAIN new : new[i].name = some[i].name
    BY <2>4, <2>9
  <2>13. Sorted(new) /\ Names(new) = Names(some)
    BY <2>3, <2>9, <2>12 DEF Sorted, Names
  <2>14. y \in SetRec
    BY <1>1, <1>2, <2>2, <2>9 DEF SetRec
  <2>15. Names(new) = (Names(P) \ {0}) \cup CategoriesOf(U)
    BY <1>1, <1>2, <1>4, <2>3, <2>13
  <2> QED BY <1>1, <1>2, <1>4, <2>2, <2>9, <2>10, <2>11, <2>13, <2>14, <2>15
          DEF RegisteredFrom, Pad, CategoriesOf
<1> QED BY <1>3, <1>4

----------------------------------------------------------------------------
(* Registration and the stages of a session.                               *)

\* The stages in which all the sections were read and nothing was filtered.
Configuration == {"environment", "outputs", "args", "settle", "decide", "filter"}

\* A session's sections and arguments are what the assumption says they are.
Inputs ==
    /\ linked.suites \in Seq(SuiteEntry) /\ linked.tests \in Seq(TestEntry)
    /\ IsSequence(env.outputs) /\ IsSequence(argv)
    /\ \A i \in DOMAIN env.outputs : IsOutput(env.outputs[i])
    /\ \A i \in DOMAIN argv :
          /\ argv[i].opt \in {"T", "x", "n"} => argv[i].arg # NoPath
          /\ argv[i].opt = "O" => IsOutput(argv[i].arg)

Registering ==
    /\ at \in Nat
    /\ pc = "suites" =>
          /\ at <= Len(linked.suites) /\ set \in SetRec
          /\ RegisteredFrom(set, SubSeq(linked.suites, 1, at), <<>>)
    /\ pc = "tests" =>
          /\ at <= Len(linked.tests) /\ set \in SetRec
          /\ RegisteredFrom(set, linked.suites, SubSeq(linked.tests, 1, at))
    /\ pc \in Configuration =>
          set \in SetRec /\ RegisteredFrom(set, linked.suites, linked.tests)

RInv == Inputs /\ Registering

LEMMA RegisteredNothing ==
    RegisteredFrom(EmptySet, <<>>, <<>>) /\ EmptySet \in SetRec
<1>1. Reals(<<>>) = {} /\ Names(<<>>) = {} /\ Sorted(<<>>)
  BY DEF Reals, Names, Sorted
<1>2. Cardinality({}) = 0
  BY FS_EmptySet
<1>3. EmptySet.suites = <<>> /\ EmptySet.tests = 0 /\ EmptySet \in SetRec
  <2>1. <<>> \in Seq(SuiteRec)
    OBVIOUS
  <2> QED BY <2>1 DEF EmptySet, SetRec
<1>4. {<<>>[i].category : i \in Reals(<<>>)} = {}
  BY <1>1
<1> QED BY <1>1, <1>2, <1>3, <1>4, SMTT(30) DEF RegisteredFrom

LEMMA WholeSection ==
    ASSUME NEW E, NEW list \in Seq(E)
    PROVE  SubSeq(list, 1, 0) = <<>> /\ SubSeq(list, 1, Len(list)) = list
<1>1. SubSeq(list, 1, Len(list)) \in Seq(E)
      /\ Len(SubSeq(list, 1, Len(list))) = Len(list)
      /\ \A i \in 1 .. Len(list) : SubSeq(list, 1, Len(list))[i] = list[i]
  BY SubSeqProperties
<1>2. SubSeq(list, 1, Len(list)) = list
  <2> DEFINE whole == SubSeq(list, 1, Len(list))
  <2> HIDE DEF whole
  <2> SUFFICES whole = list
    BY DEF whole
  <2>1. whole \in Seq(E) /\ Len(whole) = Len(list)
        /\ \A i \in 1 .. Len(list) : whole[i] = list[i]
    BY <1>1 DEF whole
  <2> QED BY <2>1, SeqEqual
<1>3. SubSeq(list, 1, 0) = <<>>
  BY SubSeqProperties
<1> QED BY <1>2, <1>3

LEMMA RInit == SessionInit => RInv
<1> SUFFICES ASSUME SessionInit PROVE RInv
  OBVIOUS
<1>1. PICK s \in Sessions : linked = s.linked /\ env = s.env /\ argv = s.argv
  BY DEF SessionInit
<1>2. Inputs
  BY <1>1, SessionAssumption DEF Inputs, SuiteEntry, TestEntry
<1>3. at = 0 /\ set = EmptySet /\ pc = "suites"
  BY DEF SessionInit
<1>4. SubSeq(linked.suites, 1, 0) = <<>>
  BY <1>2, WholeSection DEF Inputs
<1>5. 0 <= Len(linked.suites)
  BY <1>2 DEF Inputs
<1>6. RegisteredFrom(set, SubSeq(linked.suites, 1, at), <<>>) /\ set \in SetRec
  BY <1>3, <1>4, RegisteredNothing
<1>7. Registering
  BY <1>3, <1>5, <1>6 DEF Registering, Configuration
<1> QED BY <1>2, <1>7 DEF RInv

LEMMA RNext == RInv /\ [SessionNext]_sessionVars => RInv'
<1> SUFFICES ASSUME RInv, [SessionNext]_sessionVars PROVE RInv'
  OBVIOUS
<1>1. CASE ReadSuite
  <2>0. Inputs' /\ pc = "suites" /\ linked' = linked
    BY <1>1 DEF ReadSuite, inputVars, RInv, Inputs
  <2>1. CASE at < Len(linked.suites)
    <3>1. set' = register_suite(set, linked.suites[at + 1]) /\ at' = at + 1 /\ pc' = pc
      BY <1>1, <2>1 DEF ReadSuite
    <3>2. at \in 0 .. Len(linked.suites) - 1 /\ linked.suites \in Seq(SuiteEntry)
      BY <2>1 DEF RInv, Registering, Inputs
    <3>3. Extends(SubSeq(linked.suites, 1, at), SubSeq(linked.suites, 1, at + 1),
                  linked.suites[at + 1])
      BY <3>2, OneMore
    <3>4. set \in SetRec /\ linked.suites[at + 1] \in SuiteEntry
          /\ RegisteredFrom(set, SubSeq(linked.suites, 1, at), <<>>)
      BY <2>0, <3>2 DEF RInv, Registering
    <3>5. set' \in SetRec
          /\ RegisteredFrom(set', SubSeq(linked.suites, 1, at + 1), <<>>)
      BY <3>1, <3>3, <3>4, SuiteStep
    <3> QED BY <2>0, <3>1, <3>2, <3>5 DEF RInv, Registering, Configuration
  <2>2. CASE ~(at < Len(linked.suites))
    <3>1. set' = set /\ at' = 0 /\ pc' = "tests"
      BY <1>1, <2>2 DEF ReadSuite
    <3>2. at = Len(linked.suites) /\ linked.suites \in Seq(SuiteEntry)
          /\ linked.tests \in Seq(TestEntry)
      BY <2>0, <2>2 DEF RInv, Registering, Inputs
    <3>3. SubSeq(linked.suites, 1, at) = linked.suites /\ SubSeq(linked.tests, 1, 0) = <<>>
      BY <3>2, WholeSection
    <3>4. RegisteredFrom(set, linked.suites, SubSeq(linked.tests, 1, 0)) /\ set \in SetRec
      BY <2>0, <3>3 DEF RInv, Registering
    <3>5. 0 <= Len(linked.tests) /\ 0 \in Nat
      BY <3>2
    <3> QED BY <2>0, <3>1, <3>4, <3>5 DEF RInv, Registering, Configuration
  <2> QED BY <2>1, <2>2
<1>2. CASE ReadTest
  <2>0. /\ Inputs' /\ pc = "tests" /\ linked' = linked /\ at < Len(linked.tests)
        /\ set' = register_test(set, linked.tests[at + 1]) /\ at' = at + 1 /\ pc' = pc
    BY <1>2 DEF ReadTest, inputVars, RInv, Inputs
  <2>2. at \in 0 .. Len(linked.tests) - 1 /\ linked.tests \in Seq(TestEntry)
    BY <2>0 DEF RInv, Registering, Inputs
  <2>3. Extends(SubSeq(linked.tests, 1, at), SubSeq(linked.tests, 1, at + 1),
                linked.tests[at + 1])
    BY <2>2, OneMore
  <2>4. set \in SetRec /\ linked.tests[at + 1] \in TestEntry
        /\ RegisteredFrom(set, linked.suites, SubSeq(linked.tests, 1, at))
    BY <2>0, <2>2 DEF RInv, Registering
  <2>5. set' \in SetRec
        /\ RegisteredFrom(set', linked.suites, SubSeq(linked.tests, 1, at + 1))
    BY <2>0, <2>3, <2>4, TestStep
  <2> QED BY <2>0, <2>2, <2>5 DEF RInv, Registering, Configuration
<1>3. CASE Initialized
  <2>1. /\ Inputs' /\ pc = "tests" /\ linked' = linked /\ at = Len(linked.tests)
        /\ set' = set /\ at' = 0 /\ pc' = "environment"
    BY <1>3 DEF Initialized, inputVars, RInv, Inputs
  <2>2. SubSeq(linked.tests, 1, Len(linked.tests)) = linked.tests
    BY WholeSection DEF RInv, Inputs
  <2> QED BY <2>1, <2>2 DEF RInv, Registering, Configuration
<1>4. ASSUME pc \in Configuration, pc' \in Configuration, Inputs', linked' = linked,
             set' = set, at' \in Nat
      PROVE  RInv'
  BY <1>4 DEF RInv, Registering, Configuration
<1>5. ASSUME pc' \notin Configuration \cup {"suites", "tests"}, Inputs', at' \in Nat
      PROVE  RInv'
  BY <1>5 DEF RInv, Registering
<1>6. at \in Nat /\ Inputs
  BY DEF RInv, Registering
<1>7. UNCHANGED inputVars => Inputs'
  BY <1>6 DEF inputVars, Inputs
<1>8. CASE ReadEnvironment
  BY <1>4, <1>7, <1>6, <1>8 DEF ReadEnvironment, inputVars, Configuration
<1>9. CASE ReadOutput
  <2>1. UNCHANGED inputVars /\ linked' = linked /\ set' = set
        /\ pc = "outputs" /\ pc' \in {"outputs", "settle", "args"} /\ at' \in Nat
    BY <1>6, <1>9 DEF ReadOutput, inputVars
  <2> QED BY <1>4, <1>7, <2>1 DEF Configuration
<1>10. CASE ReadArg
  <2>1. UNCHANGED inputVars /\ linked' = linked /\ set' = set
        /\ pc = "args" /\ pc' \in {"args", "gone"} /\ at' \in Nat
    BY <1>6, <1>10 DEF ReadArg, inputVars, Leave
  <2> QED BY <1>4, <1>5, <1>7, <2>1 DEF Configuration
<1>11. CASE Settle
  BY <1>4, <1>7, <1>6, <1>11 DEF Settle, inputVars, Configuration
<1>12. CASE Decide
  <2>1. linked' = linked /\ set' = set /\ at' = at
        /\ pc = "decide" /\ pc' \in {"filter", "gone"}
        /\ env' = EmptyEnv /\ argv' = <<>>
    BY <1>12 DEF Decide, Leave
  <2>2. Inputs'
    BY <1>6, <2>1 DEF Inputs, IsSequence, EmptyEnv
  <2> QED BY <1>4, <1>5, <1>6, <2>1, <2>2 DEF Configuration
<1>13. CASE Filter
  <2>1. UNCHANGED inputVars /\ at' = at /\ pc' \in {"start", "gone"}
    BY <1>13 DEF Filter, Leave
  <2> QED BY <1>5, <1>6, <1>7, <2>1 DEF Configuration
<1>14. CASE Start
  BY <1>5, <1>6, <1>7, <1>14 DEF Start, Configuration
<1>15. CASE RunTests
  <2>1. UNCHANGED inputVars /\ at' = at /\ pc' \in {"run", "finish"}
    BY <1>15 DEF RunTests, EnterSuite, SkipDisabled, Spawn, LeaveSuite, RunEnds,
                 Begin, End, AtSuite, AtTest
  <2> QED BY <1>5, <1>6, <1>7, <2>1 DEF Configuration
<1>16. CASE Conclude
  <2>1. UNCHANGED inputVars /\ at' = at /\ pc' \in {"report", "gone"}
    BY <1>16 DEF Conclude, Finish, WriteReport, Return, Leave
  <2> QED BY <1>5, <1>6, <1>7, <2>1 DEF Configuration
<1>17. CASE UNCHANGED sessionVars
  BY <1>17 DEF sessionVars, RInv, Inputs, Registering
<1> QED BY <1>1, <1>2, <1>3, <1>8, <1>9, <1>10, <1>11, <1>12, <1>13, <1>14, <1>15,
           <1>16, <1>17 DEF SessionNext, Prepare, Gone

(* The tests of a program are those of its sections, however many there    *)
(* are and in whatever order the linker lays them out: criterion_init and  *)
(* insert_ordered_set.                                                     *)
THEOREM RegisteredAlways == SessionSpec => []Registered
<1>1. RInv => Registered
  BY DEF RInv, Registering, Registered
<1> QED BY <1>1, RInit, RNext, PTL DEF SessionSpec

----------------------------------------------------------------------------
(* What the command line makes of the options.                             *)

CommandFields == {"opt", "quiet", "list", "version", "usage", "outputs", "failed"}
OptionFields ==
    {"logging_threshold", "always_succeed", "use_ascii", "fail_fast", "pattern",
     "short_filename", "jobs", "measure_time", "wait_for_clients", "crash", "debug",
     "debug_port", "timeout", "full_stats", "encoding", "color", "ignore_warnings"}

\* A command has all the fields of NoCommand, and numbers where they count.
IsCommand(c) ==
    /\ DOMAIN c = CommandFields /\ DOMAIN c.opt = OptionFields
    /\ c.opt.logging_threshold \in Nat /\ c.opt.jobs \in Nat
    /\ c.quiet \in BOOLEAN /\ IsSequence(c.outputs)

\* What an argument a makes of a command c: d.
Argued(c, a, d) ==
    /\ DOMAIN d = CommandFields /\ DOMAIN d.opt = OptionFields
    /\ d.opt.jobs = IF a.opt = "j" THEN atou(a.arg) ELSE c.opt.jobs
    /\ d.opt.pattern = IF a.opt \in {"p", "F"} THEN a.arg ELSE c.opt.pattern
    /\ d.opt.fail_fast = IF a.opt = "f" THEN TRUE ELSE c.opt.fail_fast
    /\ d.opt.always_succeed = IF a.opt = "y" THEN TRUE ELSE c.opt.always_succeed
    /\ d.opt.logging_threshold = IF a.opt = "b" THEN Level(a.arg)
                                 ELSE c.opt.logging_threshold
    /\ d.quiet = IF a.opt = "q" \/ GivesOutput(a) THEN Wants(a) ELSE c.quiet
    /\ d.outputs = IF GivesOutput(a) THEN Append(c.outputs, OutputOf(a)) ELSE c.outputs

(* Every option is set by its own letters, and by nothing else.            *)
LEMMA OptionSet ==
    ASSUME NEW c, IsCommand(c), NEW a, NEW terminal,
           a.opt \in {"T", "x", "n"} => a.arg # NoPath,
           a.opt = "O" => IsOutput(a.arg)
    PROVE  Argued(c, a, handle_option(c, a, terminal))
<1> DEFINE d == handle_option(c, a, terminal)
<1>1. CASE a.opt \notin {"T", "x", "n", "O"}
  <2>1. ~GivesOutput(a) /\ (a.opt = "q" => Wants(a))
    BY <1>1 DEF GivesOutput, Wants
  <2>2. CASE a.opt = "b"
    BY <2>1, <2>2 DEF Argued, IsCommand, handle_option, CommandFields, OptionFields, Level
  <2>3. CASE a.opt = "y"
    BY <2>1, <2>3 DEF Argued, IsCommand, handle_option, CommandFields, OptionFields, Level
  <2>4. CASE a.opt = "z"
    BY <2>1, <2>4 DEF Argued, IsCommand, handle_option, CommandFields, OptionFields, Level
  <2>5. CASE a.opt = "k"
    BY <2>1, <2>5 DEF Argued, IsCommand, handle_option, CommandFields, OptionFields, Level
  <2>6. CASE a.opt = "j"
    BY <2>1, <2>6 DEF Argued, IsCommand, handle_option, CommandFields, OptionFields, Level
  <2>7. CASE a.opt = "f"
    BY <2>1, <2>7 DEF Argued, IsCommand, handle_option, CommandFields, OptionFields, Level
  <2>8. CASE a.opt = "S"
    BY <2>1, <2>8 DEF Argued, IsCommand, handle_option, CommandFields, OptionFields, Level
  <2>9. CASE a.opt = "q"
    BY <2>1, <2>9 DEF Argued, IsCommand, handle_option, CommandFields, OptionFields, Level, Wants
  <2>10. CASE a.opt = "t"
    BY <2>1, <2>10 DEF Argued, IsCommand, handle_option, CommandFields, OptionFields, Level
  <2>11. CASE a.opt = "l"
    BY <2>1, <2>11 DEF Argued, IsCommand, handle_option, CommandFields, OptionFields, Level
  <2>12. CASE a.opt = "v"
    BY <2>1, <2>12 DEF Argued, IsCommand, handle_option, CommandFields, OptionFields, Level
  <2>13. CASE a.opt = "h"
    BY <2>1, <2>13 DEF Argued, IsCommand, handle_option, CommandFields, OptionFields, Level
  <2>14. CASE a.opt = "w"
    BY <2>1, <2>14 DEF Argued, IsCommand, handle_option, CommandFields, OptionFields, Level
  <2>15. CASE a.opt = "s"
    BY <2>1, <2>15 DEF Argued, IsCommand, handle_option, CommandFields, OptionFields, Level, Fails
  <2>16. CASE a.opt = "c"
    BY <2>1, <2>16 DEF Argued, IsCommand, handle_option, CommandFields, OptionFields, Level
  <2>17. CASE a.opt = "U"
    BY <2>1, <2>17 DEF Argued, IsCommand, handle_option, CommandFields, OptionFields, Level
  <2>18. CASE a.opt = "e"
    BY <2>1, <2>18 DEF Argued, IsCommand, handle_option, CommandFields, OptionFields, Level
  <2>19. CASE a.opt = "N"
    BY <2>1, <2>19 DEF Argued, IsCommand, handle_option, CommandFields, OptionFields, Level
  <2>20. CASE a.opt = "d"
    BY <2>1, <2>20 DEF Argued, IsCommand, handle_option, CommandFields, OptionFields, Level, Fails
  <2>21. CASE a.opt = "C"
    BY <2>1, <2>21 DEF Argued, IsCommand, handle_option, CommandFields, OptionFields, Level, Fails
  <2>22. CASE a.opt = "D"
    BY <2>1, <2>22, SMTT(30) DEF Argued, IsCommand, handle_option, CommandFields, OptionFields, Level
  <2>23. CASE a.opt \in {"p", "F"}
    BY <2>1, <2>23 DEF Argued, IsCommand, handle_option, CommandFields, OptionFields, Level
  <2>24. CASE a.opt \notin {"b", "y", "z", "k", "j", "f", "S", "p", "F", "q", "t", "d",
                           "D", "l", "v", "h", "w", "s", "c", "U", "C", "e", "N"}
    BY <1>1, <2>1, <2>24 DEF Argued, IsCommand, handle_option, CommandFields, OptionFields, Level
  <2> QED BY <2>2, <2>3, <2>4, <2>5, <2>6, <2>7, <2>8, <2>9, <2>10, <2>11, <2>12, <2>13, <2>14, <2>15, <2>16, <2>17, <2>18, <2>19, <2>20, <2>21, <2>22, <2>23, <2>24
<1>2. CASE a.opt = "T"
  BY <1>2, OptionsAssumption DEF Argued, IsCommand, handle_option, CommandFields, OptionFields, Level, GivesOutput,
              Wants, OutputOf, add_report, criterion_add_output, Default
<1>3. CASE a.opt = "x"
  BY <1>3, OptionsAssumption DEF Argued, IsCommand, handle_option, CommandFields, OptionFields, Level, GivesOutput,
              Wants, OutputOf, add_report, criterion_add_output, Default
<1>4. CASE a.opt = "n"
  BY <1>4, OptionsAssumption DEF Argued, IsCommand, handle_option, CommandFields, OptionFields, Level, GivesOutput,
              Wants, OutputOf, add_report, criterion_add_output, Default
<1>5. CASE a.opt = "O"
  BY <1>5 DEF Argued, IsCommand, handle_option, CommandFields, OptionFields, Level, GivesOutput,
              Wants, OutputOf, add_report, criterion_add_output, Default, read_output, IsOutput
<1> QED BY <1>1, <1>2, <1>3, <1>4, <1>5

LEMMA SequenceOf ==
    ASSUME NEW A, NEW s \in Seq(A)
    PROVE  IsSequence(s) /\ \A e : IsSequence(Append(s, e))
<1>1. ASSUME NEW B, NEW z \in Seq(B) PROVE IsSequence(z)
  <2> DEFINE R == {z[i] : i \in DOMAIN z}
  <2>1. /\ Len(z) \in Nat /\ DOMAIN z = 1 .. Len(z)
        /\ \A i \in 1 .. Len(z) : z[i] \in R /\ z = [k \in 1 .. Len(z) |-> z[k]]
    OBVIOUS
  <2>2. z \in [1 .. Len(z) -> R]
    BY <2>1
  <2>3. z \in Seq(R)
    <3> HIDE DEF R
    <3> QED BY <2>1, <2>2
  <2> QED BY <2>3 DEF IsSequence
<1>2. ASSUME NEW e PROVE IsSequence(Append(s, e))
  <2>1. s \in Seq(A \cup {e}) /\ e \in A \cup {e}
    OBVIOUS
  <2>2. Append(s, e) \in Seq(A \cup {e})
    BY <2>1, AppendProperties
  <2> QED BY <1>1, <2>2
<1> QED BY <1>1, <1>2

LEMMA LengthOf ==
    ASSUME NEW s, IsSequence(s)
    PROVE  Len(s) \in Nat /\ DOMAIN s = 1 .. Len(s)
BY DEF IsSequence

LEMMA Appended ==
    ASSUME NEW s, IsSequence(s), NEW e
    PROVE  /\ IsSequence(Append(s, e)) /\ Len(Append(s, e)) = Len(s) + 1
           /\ Append(s, e)[Len(s) + 1] = e
           /\ \A i \in 1 .. Len(s) : Append(s, e)[i] = s[i]
<1> DEFINE R == {s[i] : i \in DOMAIN s}
<1>1. s \in Seq(R)
  BY DEF IsSequence
<1> HIDE DEF R
<1>2. s \in Seq(R \cup {e}) /\ e \in R \cup {e}
  BY <1>1
<1>3. /\ Len(Append(s, e)) = Len(s) + 1
      /\ Append(s, e)[Len(s) + 1] = e
      /\ \A i \in 1 .. Len(s) : Append(s, e)[i] = s[i]
  BY <1>2, AppendProperties
<1>4. IsSequence(Append(s, e))
  BY <1>1, SequenceOf
<1> QED BY <1>3, <1>4

LEMMA CommandKept ==
    ASSUME NEW c, IsCommand(c), NEW a, NEW terminal,
           a.opt \in {"T", "x", "n"} => a.arg # NoPath,
           a.opt = "O" => IsOutput(a.arg)
    PROVE  IsCommand(handle_option(c, a, terminal))
<1> DEFINE d == handle_option(c, a, terminal)
<1>1. Argued(c, a, d)
  BY OptionSet
<1> HIDE DEF d
<1>2. d.opt.jobs \in Nat /\ d.opt.logging_threshold \in Nat
  BY <1>1 DEF Argued, IsCommand, atou, Level
<1>3. IsSequence(d.outputs)
  <2>1. IsSequence(c.outputs)
    BY DEF IsCommand
  <2>2. d.outputs = c.outputs \/ d.outputs = Append(c.outputs, OutputOf(a))
    BY <1>1 DEF Argued
  <2>3. IsSequence(Append(c.outputs, OutputOf(a)))
    BY <2>1, Appended
  <2> QED BY <2>1, <2>2, <2>3
<1>4. d.quiet \in BOOLEAN
  <2>1. Wants(a) \in BOOLEAN
    <3>1. CASE a.opt = "q"
      BY <3>1 DEF Wants
    <3>2. CASE a.opt # "q"
      <4>1. Wants(a) = must_be_quiet(OutputOf(a).path)
        BY <3>2 DEF Wants
      <4>2. must_be_quiet(OutputOf(a).path) \in BOOLEAN
        <5> DEFINE x == OutputOf(a).path
        <5> HIDE DEF x
        <5> SUFFICES must_be_quiet(x) \in BOOLEAN
          BY DEF x
        <5> QED BY DEF must_be_quiet
      <4> QED BY <4>1, <4>2
    <3> QED BY <3>1, <3>2
  <2>2. d.quiet = Wants(a) \/ d.quiet = c.quiet
    BY <1>1 DEF Argued
  <2>3. c.quiet \in BOOLEAN
    BY DEF IsCommand
  <2> QED BY <2>1, <2>2, <2>3
<1>5. IsCommand(d)
  BY <1>1, <1>2, <1>3, <1>4 DEF Argued, IsCommand
<1> QED BY <1>5 DEF d

(* What one more output of CRITERION_OUTPUTS does.                         *)
LEMMA OutputRead ==
    ASSUME NEW c, IsCommand(c), NEW e, IsOutput(e)
    PROVE  LET d == read_output(c, e)
           IN  /\ IsCommand(d)
               /\ d.opt = c.opt
               /\ e.path # NoPath => /\ d.usage = c.usage
                                     /\ d.quiet = must_be_quiet(e.path)
                                     /\ d.outputs = Append(c.outputs, e)
<1> DEFINE d == read_output(c, e)
<1>1. CASE e.path = NoPath
  BY <1>1 DEF IsCommand, read_output, CommandFields
<1>2. CASE e.path # NoPath
  <2>1. /\ DOMAIN d = CommandFields /\ d.opt = c.opt
        /\ d.usage = c.usage /\ d.quiet = must_be_quiet(e.path)
        /\ d.outputs = Append(c.outputs, e)
    BY <1>2 DEF IsCommand, read_output, add_report, criterion_add_output, IsOutput,
                CommandFields
  <2>2. IsSequence(d.outputs)
    <3>1. IsSequence(c.outputs)
      BY DEF IsCommand
    <3> QED BY <2>1, <3>1, Appended
  <2> QED BY <2>1, <2>2 DEF IsCommand, must_be_quiet
<1> QED BY <1>1, <1>2

\* What the environment E says of --tap.
Tap(E) == IF E.tap = 1 THEN <<[provider |-> "tap", path |-> "-"]>> ELSE <<>>

\* The options are those of the environment E.
FromEnvironment(o, E) ==
    /\ o.jobs = atou(Default(E.jobs, 0))
    /\ o.pattern = Default(E.pattern, NoPattern)
    /\ o.fail_fast <=> E.fail_fast = 1
    /\ o.always_succeed <=> E.always_succeed = 1
    /\ o.logging_threshold = atou(Default(E.verbosity, CRITERION_IMPORTANT))

(* What the environment says before the command line is read.              *)
LEMMA EnvironmentRead ==
    ASSUME NEW e, NEW terminal
    PROVE  LET d == read_environment(read_locale(NoCommand, terminal), e, terminal)
           IN  /\ IsCommand(d) /\ FromEnvironment(d.opt, e)
               /\ d.quiet <=> e.tap = 1
               /\ d.usage = FALSE
               /\ d.outputs = Tap(e)
<1> DEFINE c == read_locale(NoCommand, terminal)
           d == read_environment(c, e, terminal)
<1>1. /\ DOMAIN c = CommandFields /\ DOMAIN c.opt = OptionFields
      /\ c.opt.logging_threshold = CRITERION_IMPORTANT /\ c.opt.jobs = 0
      /\ c.opt.always_succeed = FALSE /\ c.opt.fail_fast = FALSE
      /\ c.opt.pattern = NoPattern /\ c.quiet = FALSE /\ c.usage = FALSE
      /\ c.outputs = <<>>
  <2> DEFINE o == DefaultOptions
             n == NoCommand
  <2>1. /\ DOMAIN o = OptionFields /\ o.logging_threshold = CRITERION_IMPORTANT
        /\ o.jobs = 0 /\ o.always_succeed = FALSE /\ o.fail_fast = FALSE
        /\ o.pattern = NoPattern
    BY DEF DefaultOptions, OptionFields
  <2> HIDE DEF o
  <2>2. /\ DOMAIN n = CommandFields /\ n.opt = o /\ n.quiet = FALSE
        /\ n.usage = FALSE /\ n.outputs = <<>>
    BY DEF NoCommand, CommandFields, o
  <2> HIDE DEF n
  <2>3. c = [[n EXCEPT !.opt = [n.opt EXCEPT !.encoding = terminal.codeset]]
                EXCEPT !.opt = [[n EXCEPT !.opt = [n.opt EXCEPT !.encoding = terminal.codeset]].opt
                                   EXCEPT !.color = isatty_color(terminal)]]
    BY DEF read_locale, n
  <2> QED BY <2>1, <2>2, <2>3, ZenonT(60) DEF CommandFields, OptionFields
<1> HIDE DEF c
<1>2. /\ DOMAIN d = CommandFields /\ DOMAIN d.opt = OptionFields
      /\ d.opt.jobs = IF e.jobs = Unset THEN 0 ELSE atou(e.jobs)
      /\ d.opt.pattern = Default(e.pattern, NoPattern)
      /\ d.opt.logging_threshold = IF e.verbosity = Unset THEN CRITERION_IMPORTANT
                                   ELSE atou(e.verbosity)
  BY <1>1 DEF read_environment, criterion_add_output, CommandFields, OptionFields
<1>3. /\ d.opt.fail_fast = is_one(e.fail_fast, FALSE)
      /\ d.opt.always_succeed = is_one(e.always_succeed, FALSE)
  BY <1>1 DEF read_environment, criterion_add_output, CommandFields, OptionFields
<1>4. /\ d.quiet = is_one(e.tap, FALSE)
      /\ d.usage = FALSE
      /\ d.outputs = IF is_one(e.tap, FALSE)
                     THEN Append(<<>>, [provider |-> "tap", path |-> "-"]) ELSE <<>>
  BY <1>1 DEF read_environment, criterion_add_output, CommandFields, OptionFields, is_one
<1> HIDE DEF d
<1>5. \A v : is_one(v, FALSE) <=> v = 1
  BY OptionsAssumption DEF is_one
<1>6. d.outputs = IF e.tap = 1 THEN <<[provider |-> "tap", path |-> "-"]>> ELSE <<>>
  <2>1. \A r : Append(<<>>, r) = <<r>>
    OBVIOUS
  <2>2. is_one(e.tap, FALSE) <=> e.tap = 1
    BY <1>5
  <2> QED BY <1>4, <2>1, <2>2
<1>7. IsSequence(d.outputs)
  <2>1. <<>> \in Seq({}) /\ \A r : <<r>> \in Seq({r})
    OBVIOUS
  <2> QED BY <1>6, <2>1, SequenceOf
<1>8. /\ d.opt.jobs = atou(Default(e.jobs, 0)) /\ d.opt.jobs \in Nat
      /\ d.opt.logging_threshold = atou(Default(e.verbosity, CRITERION_IMPORTANT))
      /\ d.opt.logging_threshold \in Nat
  BY <1>2 DEF atou, Default, CRITERION_IMPORTANT
<1>9. IsCommand(d)
  BY <1>2, <1>4, <1>7, <1>8 DEF IsCommand, is_one
<1>10. /\ d.opt.fail_fast <=> e.fail_fast = 1
       /\ d.opt.always_succeed <=> e.always_succeed = 1
       /\ d.quiet <=> e.tap = 1
  BY <1>3, <1>4, <1>5
<1> QED BY <1>2, <1>4, <1>6, <1>8, <1>9, <1>10 DEF d, c, Tap, FromEnvironment

LEMMA Settled ==
    ASSUME NEW c, IsCommand(c)
    PROVE  LET d == settle(c)
           IN  /\ IsCommand(d)
               /\ d.opt.jobs = c.opt.jobs /\ d.opt.pattern = c.opt.pattern
               /\ d.opt.fail_fast = c.opt.fail_fast
               /\ d.opt.always_succeed = c.opt.always_succeed
               /\ d.opt.logging_threshold = IF c.quiet THEN CRITERION_LOG_LEVEL_QUIET
                                            ELSE c.opt.logging_threshold
               /\ d.outputs = c.outputs
<1> DEFINE level == IF c.quiet THEN CRITERION_LOG_LEVEL_QUIET
                    ELSE c.opt.logging_threshold
           o == [c.opt EXCEPT !.logging_threshold = level]
           s == [c EXCEPT !.opt = o]
           d == settle(c)
<1>1. level \in Nat
  BY DEF IsCommand, CRITERION_LOG_LEVEL_QUIET
<1>2. d = IF c.opt.use_ascii
          THEN [[s EXCEPT !.opt = [s.opt EXCEPT !.encoding = "ASCII"]]
                  EXCEPT !.opt = [[s EXCEPT !.opt = [s.opt EXCEPT !.encoding = "ASCII"]].opt
                                     EXCEPT !.color = FALSE]]
          ELSE s
  BY DEF settle, IsCommand, CommandFields, OptionFields
<1> HIDE DEF d, level
<1>3. /\ DOMAIN o = OptionFields /\ o.jobs = c.opt.jobs /\ o.pattern = c.opt.pattern
      /\ o.fail_fast = c.opt.fail_fast /\ o.always_succeed = c.opt.always_succeed
      /\ o.logging_threshold = level
  BY DEF IsCommand, OptionFields
<1> HIDE DEF o
<1>t. s.quiet = c.quiet
  BY DEF IsCommand, CommandFields
<1>4. DOMAIN s = CommandFields /\ s.opt = o /\ s.outputs = c.outputs
  BY DEF IsCommand, CommandFields
<1> HIDE DEF s
<1>5. /\ DOMAIN d = CommandFields /\ DOMAIN d.opt = OptionFields
      /\ d.outputs = c.outputs /\ d.opt.jobs = c.opt.jobs
      /\ d.opt.pattern = c.opt.pattern /\ d.opt.fail_fast = c.opt.fail_fast
      /\ d.opt.always_succeed = c.opt.always_succeed /\ d.opt.logging_threshold = level
  BY <1>2, <1>3, <1>4 DEF OptionFields, CommandFields
<1>q. d.quiet = c.quiet
  BY <1>2, <1>4, <1>t DEF CommandFields
<1>6. IsCommand(d)
  BY <1>1, <1>5, <1>q DEF IsCommand
<1> QED BY <1>5, <1>6 DEF d, level

(* The last of a growing set of numbers.                                   *)
LEMMA LastAdded ==
    ASSUME NEW n \in Nat, NEW S, S \subseteq 1 .. n
    PROVE  Max(S \cup {n + 1}) = n + 1
<1> DEFINE T == S \cup {n + 1}
<1>1. n + 1 \in T /\ \A y \in T : n + 1 >= y
  OBVIOUS
<1>2. \A x \in T : (\A y \in T : x >= y) => x = n + 1
  OBVIOUS
<1> HIDE DEF T
<1>3. Max(T) = n + 1
  BY <1>1, <1>2 DEF Max
<1> QED BY <1>3 DEF T

----------------------------------------------------------------------------
(* The options while the outputs of the environment E and the arguments A  *)
(* are read.                                                               *)

\* The first n arguments that speak of an option, that the log hears, and that
\* give an output.
After(A, n, letters) == {i \in 1 .. n : A[i].opt \in letters}
Heard(A, n) == {i \in 1 .. n : A[i].opt = "q" \/ GivesOutput(A[i])}
Given(A, n) == {i \in 1 .. n : GivesOutput(A[i])}
Preset(E)   == Tap(E) \o E.outputs

\* What the last of them says.
Latest(A, n, letters) == A[Max(After(A, n, letters))].arg

\* n entries of CRITERION_OUTPUTS have been read.
OutputsRead(c, E, n) ==
    /\ FromEnvironment(c.opt, E) /\ c.usage = FALSE
    /\ c.quiet <=> IF n = 0 THEN E.tap = 1 ELSE must_be_quiet(E.outputs[n].path)
    /\ Len(c.outputs) = Len(Tap(E)) + n
    /\ \A i \in 1 .. Len(Tap(E)) : c.outputs[i] = Tap(E)[i]
    /\ \A i \in 1 .. n : c.outputs[Len(Tap(E)) + i] = E.outputs[i]

OptionsRead(o, E, A, n) ==
    /\ o.jobs = IF After(A, n, {"j"}) = {} THEN atou(Default(E.jobs, 0))
                                           ELSE atou(Latest(A, n, {"j"}))
    /\ o.pattern = IF After(A, n, {"p", "F"}) = {} THEN Default(E.pattern, NoPattern)
                                                   ELSE Latest(A, n, {"p", "F"})
    /\ o.fail_fast <=> After(A, n, {"f"}) # {} \/ E.fail_fast = 1
    /\ o.always_succeed <=> After(A, n, {"y"}) # {} \/ E.always_succeed = 1

LevelRead(E, A, n) ==
    IF After(A, n, {"b"}) = {} THEN atou(Default(E.verbosity, CRITERION_IMPORTANT))
                               ELSE Level(Latest(A, n, {"b"}))
Silent(E, A, n) ==
    IF Heard(A, n) # {} THEN Wants(A[Max(Heard(A, n))])
    ELSE IF Len(E.outputs) > 0 THEN must_be_quiet(E.outputs[Len(E.outputs)].path)
    ELSE E.tap = 1

GivenRead(outputs, E, A, n) ==
    /\ Len(outputs) = Len(Preset(E)) + Cardinality(Given(A, n))
    /\ \A i \in 1 .. Len(Preset(E)) : outputs[i] = Preset(E)[i]
    /\ \A i \in Given(A, n) : outputs[Len(Preset(E)) + Cardinality(Given(A, i))]
                                 = OutputOf(A[i])

\* n arguments have been read.
ArgumentsRead(c, E, A, n) ==
    /\ OptionsRead(c.opt, E, A, n)
    /\ c.opt.logging_threshold = LevelRead(E, A, n)
    /\ c.quiet <=> Silent(E, A, n)
    /\ GivenRead(c.outputs, E, A, n)

AllRead(c, E, A) ==
    /\ OptionsRead(c.opt, E, A, Len(A))
    /\ c.opt.logging_threshold = IF Silent(E, A, Len(A)) THEN CRITERION_LOG_LEVEL_QUIET
                                 ELSE LevelRead(E, A, Len(A))
    /\ GivenRead(c.outputs, E, A, Len(A))

Commanded ==
    /\ IsCommand(cmd)
    /\ pc \in {"environment", "decide"} => at = 0
    /\ pc = "outputs" => at <= Len(env.outputs)
    /\ pc = "args" => at <= Len(argv)
    /\ Understood =>
          /\ pc = "outputs" => OutputsRead(cmd, env, at)
          /\ pc = "args" => ArgumentsRead(cmd, env, argv, at)
          /\ pc # "settle"
          /\ pc = "decide" => AllRead(cmd, env, argv)

LEMMA AfterMore ==
    ASSUME NEW A, NEW n \in Nat, NEW letters
    PROVE  /\ After(A, n, letters) \subseteq 1 .. n
           /\ A[n + 1].opt \in letters =>
                 /\ After(A, n + 1, letters) # {}
                 /\ Max(After(A, n + 1, letters)) = n + 1
           /\ A[n + 1].opt \notin letters => After(A, n + 1, letters) = After(A, n, letters)
<1>1. After(A, n, letters) \subseteq 1 .. n
  BY DEF After
<1>2. After(A, n + 1, letters) = IF A[n + 1].opt \in letters
                              THEN After(A, n, letters) \cup {n + 1} ELSE After(A, n, letters)
  BY DEF After
<1>3. Max(After(A, n, letters) \cup {n + 1}) = n + 1
  BY <1>1, LastAdded
<1> QED BY <1>1, <1>2, <1>3

(* A set of numbers up to a bound has a greatest, which Max chooses.       *)
LEMMA Greatest ==
    ASSUME NEW n \in Nat, NEW S, S \subseteq 1 .. n, S # {}
    PROVE  Max(S) \in S
<1> DEFINE T == {n - x : x \in S}
           x == n - Min(T)
<1>1. T \subseteq Nat /\ T # {}
  <2>1. \A y \in S : n - y \in Nat
    OBVIOUS
  <2>2. PICK y : y \in S
    OBVIOUS
  <2>3. n - y \in T
    BY <2>2
  <2> QED BY <2>1, <2>3
<1>2. Min(T) \in T /\ \A y \in T : Min(T) <= y
  <2> HIDE DEF T
  <2> QED BY <1>1, Least
<1>3. x \in S
  BY <1>2
<1>4. \A y \in S : x >= y
  <2> TAKE y \in S
  <2>1. n - y \in T /\ Min(T) \in Nat
    BY <1>1, <1>2
  <2>2. Min(T) <= n - y
    BY <1>2, <2>1
  <2> QED BY <2>1, <2>2
<1> HIDE DEF x
<1> QED BY <1>3, <1>4 DEF Max

LEMMA HeardMore ==
    ASSUME NEW A, NEW n \in Nat
    PROVE  LET loud == A[n + 1].opt = "q" \/ GivesOutput(A[n + 1])
           IN  /\ loud => Heard(A, n + 1) # {} /\ Max(Heard(A, n + 1)) = n + 1
               /\ ~loud => Heard(A, n + 1) = Heard(A, n)
<1> DEFINE loud == A[n + 1].opt = "q" \/ GivesOutput(A[n + 1])
<1>1. Heard(A, n) \subseteq 1 .. n
  BY DEF Heard
<1>2. Heard(A, n + 1) = IF loud THEN Heard(A, n) \cup {n + 1} ELSE Heard(A, n)
  BY DEF Heard
<1>3. Max(Heard(A, n) \cup {n + 1}) = n + 1
  BY <1>1, LastAdded
<1> QED BY <1>2, <1>3

LEMMA GivenMore ==
    ASSUME NEW A, NEW n \in Nat
    PROVE  /\ Given(A, n) \subseteq 1 .. n
           /\ Cardinality(Given(A, n)) \in Nat
           /\ Given(A, n + 1) = IF GivesOutput(A[n + 1]) THEN Given(A, n) \cup {n + 1}
                                                         ELSE Given(A, n)
           /\ Cardinality(Given(A, n + 1)) = IF GivesOutput(A[n + 1])
                                          THEN Cardinality(Given(A, n)) + 1
                                          ELSE Cardinality(Given(A, n))
<1>1. Given(A, n) \subseteq 1 .. n /\ n + 1 \notin Given(A, n)
  BY DEF Given
<1>2. Given(A, n + 1) = IF GivesOutput(A[n + 1]) THEN Given(A, n) \cup {n + 1} ELSE Given(A, n)
  BY DEF Given
<1>3. IsFiniteSet(Given(A, n))
  <2>1. IsFiniteSet(1 .. n)
    BY FS_Interval
  <2> QED BY <1>1, <2>1, FS_Subset
<1>4. Cardinality(Given(A, n)) \in Nat
  BY <1>3, FS_CardinalityType
<1>5. Cardinality(Given(A, n) \cup {n + 1}) = Cardinality(Given(A, n)) + 1
  BY <1>1, <1>3, FS_AddElement
<1> QED BY <1>1, <1>2, <1>4, <1>5

LEMMA PresetLength ==
    ASSUME NEW E, IsSequence(E.outputs)
    PROVE  /\ Len(Tap(E)) \in Nat
           /\ Len(Preset(E)) = Len(Tap(E)) + Len(E.outputs)
           /\ \A i \in 1 .. Len(Tap(E)) : Preset(E)[i] = Tap(E)[i]
           /\ \A i \in 1 .. Len(E.outputs) : Preset(E)[Len(Tap(E)) + i] = E.outputs[i]
           /\ IsSequence(Preset(E))
<1> DEFINE t == Tap(E)
           p == Preset(E)
           R == {E.outputs[i] : i \in DOMAIN E.outputs}
           S == R \cup {[provider |-> "tap", path |-> "-"]}
<1>1. E.outputs \in Seq(R)
  BY DEF IsSequence
<1>2. E.outputs \in Seq(S) /\ t \in Seq(S)
  <2>1. [provider |-> "tap", path |-> "-"] \in S /\ R \subseteq S
    OBVIOUS
  <2> HIDE DEF S, R
  <2> QED BY <1>1, <2>1 DEF Tap
<1>3. p = t \o E.outputs
  BY DEF Preset
<1> HIDE DEF t, p, S
<1>4. /\ p \in Seq(S) /\ Len(p) = Len(t) + Len(E.outputs)
      /\ \A i \in 1 .. Len(t) + Len(E.outputs) :
            p[i] = IF i <= Len(t) THEN t[i] ELSE E.outputs[i - Len(t)]
  BY <1>2, <1>3, ConcatProperties
<1>5. IsSequence(p) /\ Len(t) \in Nat /\ Len(E.outputs) \in Nat
  BY <1>2, <1>4, SequenceOf
<1>6. \A i \in 1 .. Len(t) : p[i] = t[i]
  BY <1>4, <1>5
<1>7. ASSUME NEW i \in 1 .. Len(E.outputs) PROVE p[Len(t) + i] = E.outputs[i]
  <2>1. Len(t) + i \in 1 .. Len(t) + Len(E.outputs) /\ ~(Len(t) + i <= Len(t))
        /\ (Len(t) + i) - Len(t) = i
    BY <1>5
  <2> QED BY <1>4, <2>1
<1> QED BY <1>4, <1>5, <1>6, <1>7 DEF t, p

(* One entry of CRITERION_OUTPUTS more.                                    *)
LEMMA OutputStep ==
    ASSUME NEW c, IsCommand(c), NEW E, IsSequence(E.outputs),
           NEW n \in 0 .. Len(E.outputs) - 1, OutputsRead(c, E, n),
           NEW d, d.opt = c.opt, d.usage = c.usage,
           d.quiet = must_be_quiet(E.outputs[n + 1].path),
           d.outputs = Append(c.outputs, E.outputs[n + 1])
    PROVE  OutputsRead(d, E, n + 1)
<1> DEFINE t == Len(Tap(E))
           e == E.outputs[n + 1]
<1>1. t \in Nat /\ n \in Nat /\ Len(E.outputs) \in Nat
  BY PresetLength, LengthOf
<1>2. /\ Len(c.outputs) = t + n
      /\ \A i \in 1 .. t : c.outputs[i] = Tap(E)[i]
      /\ \A i \in 1 .. n : c.outputs[t + i] = E.outputs[i]
  BY DEF OutputsRead
<1>3. /\ Len(d.outputs) = Len(c.outputs) + 1
      /\ d.outputs[Len(c.outputs) + 1] = e
      /\ \A i \in 1 .. Len(c.outputs) : d.outputs[i] = c.outputs[i]
  <2>1. IsSequence(c.outputs)
    BY DEF IsCommand
  <2>2. /\ Len(Append(c.outputs, e)) = Len(c.outputs) + 1
        /\ Append(c.outputs, e)[Len(c.outputs) + 1] = e
        /\ \A i \in 1 .. Len(c.outputs) : Append(c.outputs, e)[i] = c.outputs[i]
    BY <2>1, Appended
  <2> QED BY <2>2
<1> HIDE DEF t, e
<1>4. Len(d.outputs) = t + (n + 1)
  BY <1>1, <1>2, <1>3
<1>5. \A i \in 1 .. t : d.outputs[i] = Tap(E)[i]
  BY <1>1, <1>2, <1>3
<1>6. ASSUME NEW i \in 1 .. n + 1 PROVE d.outputs[t + i] = E.outputs[i]
  <2>1. CASE i \in 1 .. n
    <3>1. t + i \in 1 .. Len(c.outputs)
      BY <1>1, <1>2, <2>1
    <3> QED BY <1>2, <1>3, <2>1, <3>1
  <2>2. CASE i = n + 1
    BY <1>1, <1>2, <1>3, <2>2 DEF e
  <2>3. i \in 1 .. n \/ i = n + 1
    BY <1>1
  <2> QED BY <2>1, <2>2, <2>3
<1>7. n + 1 # 0
  BY <1>1
<1> QED BY <1>4, <1>5, <1>6, <1>7 DEF OutputsRead, t, FromEnvironment

(* Before the command line the options are those of the environment.       *)
LEMMA ArgumentsBegin ==
    ASSUME NEW c, NEW E, NEW A, IsSequence(E.outputs),
           OutputsRead(c, E, Len(E.outputs))
    PROVE  ArgumentsRead(c, E, A, 0)
<1>1. /\ \A letters : After(A, 0, letters) = {}
      /\ Heard(A, 0) = {} /\ Given(A, 0) = {}
  BY DEF After, Heard, Given
<1>2. Cardinality({}) = 0
  BY FS_EmptySet
<1> DEFINE t == Len(Tap(E))
           n == Len(E.outputs)
<1>3. /\ t \in Nat /\ Len(Preset(E)) = t + n
      /\ \A i \in 1 .. t : Preset(E)[i] = Tap(E)[i]
      /\ \A i \in 1 .. n : Preset(E)[t + i] = E.outputs[i]
      /\ n \in Nat
  BY PresetLength, LengthOf
<1>4. /\ Len(c.outputs) = t + n
      /\ \A i \in 1 .. t : c.outputs[i] = Tap(E)[i]
      /\ \A i \in 1 .. n : c.outputs[t + i] = E.outputs[i]
  BY DEF OutputsRead
<1> HIDE DEF t, n
<1>5. ASSUME NEW i \in 1 .. t + n PROVE c.outputs[i] = Preset(E)[i]
  <2>1. CASE i <= t
    BY <1>3, <1>4, <2>1
  <2>2. CASE ~(i <= t)
    <3>1. i - t \in 1 .. n /\ t + (i - t) = i
      BY <1>3, <2>2
    <3> QED BY <1>3, <1>4, <3>1
  <2> QED BY <2>1, <2>2
<1>6. GivenRead(c.outputs, E, A, 0)
  <2>1. Len(c.outputs) = Len(Preset(E)) + Cardinality(Given(A, 0))
    <3>1. Cardinality(Given(A, 0)) = 0 /\ Len(c.outputs) = Len(Preset(E))
      BY <1>1, <1>2, <1>3, <1>4
    <3>2. Len(Preset(E)) \in Nat
      BY <1>3
    <3> QED BY <3>1, <3>2
  <2>2. \A i \in 1 .. Len(Preset(E)) : c.outputs[i] = Preset(E)[i]
    BY <1>3, <1>5
  <2> QED BY <1>1, <2>1, <2>2 DEF GivenRead
<1>7. OptionsRead(c.opt, E, A, 0) /\ c.opt.logging_threshold = LevelRead(E, A, 0)
  BY <1>1 DEF OptionsRead, LevelRead, OutputsRead, FromEnvironment
<1>8. c.quiet <=> Silent(E, A, 0)
  BY <1>1, <1>3 DEF OutputsRead, Silent, n
<1> QED BY <1>6, <1>7, <1>8 DEF ArgumentsRead

(* One argument more.                                                      *)
LEMMA GivenStep ==
    ASSUME NEW c, IsCommand(c), NEW E, IsSequence(E.outputs), NEW A,
           NEW n \in Nat, GivenRead(c.outputs, E, A, n),
           NEW d, Argued(c, A[n + 1], d)
    PROVE  GivenRead(d.outputs, E, A, n + 1)
<1> DEFINE a == A[n + 1]
           p == Len(Preset(E))
<1>1. p \in Nat /\ IsSequence(c.outputs)
  BY PresetLength, LengthOf DEF IsCommand
<1>2. d.outputs = IF GivesOutput(a) THEN Append(c.outputs, OutputOf(a)) ELSE c.outputs
  BY DEF Argued
<1>3. /\ Len(c.outputs) = p + Cardinality(Given(A, n))
      /\ \A i \in 1 .. p : c.outputs[i] = Preset(E)[i]
      /\ \A i \in Given(A, n) :
            c.outputs[p + Cardinality(Given(A, i))] = OutputOf(A[i])
  BY DEF GivenRead
<1>4. /\ Given(A, n) \subseteq 1 .. n
      /\ Cardinality(Given(A, n)) \in Nat
      /\ Given(A, n + 1) = IF GivesOutput(a) THEN Given(A, n) \cup {n + 1}
                                             ELSE Given(A, n)
      /\ Cardinality(Given(A, n + 1)) = IF GivesOutput(a)
                                        THEN Cardinality(Given(A, n)) + 1
                                        ELSE Cardinality(Given(A, n))
  BY GivenMore
<1> HIDE DEF p, a
<1>5. CASE ~GivesOutput(a)
  BY <1>2, <1>3, <1>4, <1>5 DEF GivenRead, p
<1>6. CASE GivesOutput(a)
  <2>1. /\ Len(d.outputs) = Len(c.outputs) + 1
        /\ d.outputs[Len(c.outputs) + 1] = OutputOf(a)
        /\ \A i \in 1 .. Len(c.outputs) : d.outputs[i] = c.outputs[i]
    <3>1. /\ Len(Append(c.outputs, OutputOf(a))) = Len(c.outputs) + 1
          /\ Append(c.outputs, OutputOf(a))[Len(c.outputs) + 1] = OutputOf(a)
          /\ \A i \in 1 .. Len(c.outputs) :
                Append(c.outputs, OutputOf(a))[i] = c.outputs[i]
      BY <1>1, Appended
    <3> QED BY <1>2, <1>6, <3>1
  <2>2. Len(d.outputs) = p + Cardinality(Given(A, n + 1))
    BY <1>1, <1>3, <1>4, <1>6, <2>1
  <2>3. \A i \in 1 .. p : d.outputs[i] = Preset(E)[i]
    BY <1>1, <1>3, <1>4, <2>1
  <2>4. ASSUME NEW i \in Given(A, n)
        PROVE  d.outputs[p + Cardinality(Given(A, i))] = OutputOf(A[i])
    <3>1. i \in 1 .. n /\ i \in Given(A, i) /\ Given(A, i) \subseteq Given(A, n)
      BY <1>4 DEF Given
    <3>2. IsFiniteSet(Given(A, n))
      <4>1. IsFiniteSet(1 .. n)
        BY FS_Interval
      <4> QED BY <1>4, <4>1, FS_Subset
    <3>3. /\ Cardinality(Given(A, i)) \in Nat
          /\ Cardinality(Given(A, i)) <= Cardinality(Given(A, n))
          /\ Cardinality(Given(A, i)) # 0
      <4>1. IsFiniteSet(Given(A, i))
        BY <3>1, <3>2, FS_Subset
      <4>2. Cardinality(Given(A, i)) \in Nat
        BY <4>1, FS_CardinalityType
      <4>3. Cardinality(Given(A, i)) <= Cardinality(Given(A, n))
        BY <3>1, <3>2, FS_Subset
      <4>4. Cardinality(Given(A, i)) # 0
        BY <3>1, <4>1, FS_EmptySet
      <4> QED BY <4>2, <4>3, <4>4
    <3>4. p + Cardinality(Given(A, i)) \in 1 .. Len(c.outputs)
      BY <1>1, <1>3, <1>4, <3>3
    <3> QED BY <1>3, <2>1, <3>4
  <2>5. d.outputs[p + Cardinality(Given(A, n + 1))] = OutputOf(A[n + 1])
    BY <1>1, <1>3, <1>4, <1>6, <2>1, SMTT(30) DEF a
  <2> QED BY <1>4, <1>6, <2>2, <2>3, <2>4, <2>5 DEF GivenRead, p
<1> QED BY <1>5, <1>6

LEMMA ArgumentStep ==
    ASSUME NEW c, IsCommand(c), NEW E, IsSequence(E.outputs), NEW A,
           NEW n \in Nat, ArgumentsRead(c, E, A, n),
           NEW d, Argued(c, A[n + 1], d)
    PROVE  ArgumentsRead(d, E, A, n + 1)
<1> DEFINE a == A[n + 1]
<1>1. ASSUME NEW letters
      PROVE  /\ a.opt \in letters =>
                   /\ After(A, n + 1, letters) # {}
                   /\ Latest(A, n + 1, letters) = a.arg
             /\ a.opt \notin letters => After(A, n + 1, letters) = After(A, n, letters)
  <2>1. /\ a.opt \in letters =>
              /\ After(A, n + 1, letters) # {}
              /\ Max(After(A, n + 1, letters)) = n + 1
        /\ a.opt \notin letters => After(A, n + 1, letters) = After(A, n, letters)
    BY AfterMore
  <2> QED BY <2>1 DEF Latest
<1>2. /\ (a.opt = "q" \/ GivesOutput(a)) =>
            Heard(A, n + 1) # {} /\ Max(Heard(A, n + 1)) = n + 1
      /\ ~(a.opt = "q" \/ GivesOutput(a)) => Heard(A, n + 1) = Heard(A, n)
  BY HeardMore
<1> HIDE DEF a
<1>3. Argued(c, a, d)
  BY DEF a
<1>4. OptionsRead(c.opt, E, A, n) /\ c.opt.logging_threshold = LevelRead(E, A, n)
      /\ (c.quiet <=> Silent(E, A, n)) /\ GivenRead(c.outputs, E, A, n)
  BY DEF ArgumentsRead
<1>5. d.opt.jobs = IF After(A, n + 1, {"j"}) = {} THEN atou(Default(E.jobs, 0))
                                                  ELSE atou(Latest(A, n + 1, {"j"}))
  BY <1>1, <1>3, <1>4 DEF OptionsRead, Argued, Latest
<1>6. d.opt.pattern = IF After(A, n + 1, {"p", "F"}) = {}
                      THEN Default(E.pattern, NoPattern)
                      ELSE Latest(A, n + 1, {"p", "F"})
  BY <1>1, <1>3, <1>4 DEF OptionsRead, Argued, Latest
<1>7. d.opt.fail_fast <=> After(A, n + 1, {"f"}) # {} \/ E.fail_fast = 1
  BY <1>1, <1>3, <1>4 DEF OptionsRead, Argued
<1>8. d.opt.always_succeed <=> After(A, n + 1, {"y"}) # {} \/ E.always_succeed = 1
  BY <1>1, <1>3, <1>4 DEF OptionsRead, Argued
<1>9. d.opt.logging_threshold = LevelRead(E, A, n + 1)
  BY <1>1, <1>3, <1>4 DEF LevelRead, Argued, Latest
<1>10. d.quiet <=> Silent(E, A, n + 1)
  BY <1>2, <1>3, <1>4 DEF Silent, Argued, a
<1>11. GivenRead(d.outputs, E, A, n + 1)
  BY <1>4, GivenStep
<1> QED BY <1>5, <1>6, <1>7, <1>8, <1>9, <1>10, <1>11 DEF ArgumentsRead, OptionsRead

CInv == RInv /\ Commanded

LEMMA CInit == SessionInit => CInv
<1> SUFFICES ASSUME SessionInit PROVE Commanded
  BY RInit DEF CInv
<1>1. cmd = NoCommand /\ pc = "suites"
  BY DEF SessionInit
<1>2. IsCommand(NoCommand)
  <2>1. IsSequence(<<>>)
    <3>1. <<>> \in Seq({})
      OBVIOUS
    <3> QED BY <3>1, SequenceOf
  <2>2. /\ DefaultOptions.logging_threshold \in Nat /\ DefaultOptions.jobs \in Nat
        /\ DOMAIN DefaultOptions = OptionFields
    BY DEF DefaultOptions, OptionFields, CRITERION_IMPORTANT
  <2>3. /\ DOMAIN NoCommand = CommandFields /\ NoCommand.opt = DefaultOptions
        /\ NoCommand.outputs = <<>> /\ NoCommand.quiet = FALSE
    BY DEF NoCommand, CommandFields
  <2> QED BY <2>1, <2>2, <2>3 DEF IsCommand
<1> QED BY <1>1, <1>2 DEF Commanded

LEMMA DebugKept ==
    ASSUME NEW c, IsCommand(c)
    PROVE  LET d == [c EXCEPT !.opt = debug_options(c.opt)]
           IN  /\ IsCommand(d) /\ d.outputs = c.outputs
               /\ d.usage = c.usage /\ d.version = c.version /\ d.list = c.list
               /\ d.opt.pattern = c.opt.pattern
               /\ d.opt.always_succeed = c.opt.always_succeed
               /\ d.opt.ignore_warnings = c.opt.ignore_warnings
<1> DEFINE o == debug_options(c.opt)
           d == [c EXCEPT !.opt = o]
<1>1. /\ DOMAIN o = OptionFields /\ o.logging_threshold \in Nat /\ o.jobs \in Nat
      /\ o.pattern = c.opt.pattern /\ o.always_succeed = c.opt.always_succeed
      /\ o.ignore_warnings = c.opt.ignore_warnings
  BY DEF debug_options, IsCommand, OptionFields, CRITERION_INFO
<1> HIDE DEF o
<1>2. /\ DOMAIN d = CommandFields /\ d.opt = o /\ d.outputs = c.outputs
      /\ d.quiet = c.quiet
      /\ d.usage = c.usage /\ d.version = c.version /\ d.list = c.list
  BY DEF IsCommand, CommandFields
<1> HIDE DEF d
<1>3. IsCommand(d)
  BY <1>1, <1>2 DEF IsCommand
<1> QED BY <1>1, <1>2, <1>3 DEF d, o

LEMMA CNext == CInv /\ [SessionNext]_sessionVars => CInv'
<1> SUFFICES ASSUME CInv, [SessionNext]_sessionVars PROVE Commanded'
  BY RNext DEF CInv
<1>0. /\ Inputs /\ Commanded /\ IsCommand(cmd) /\ at \in Nat
  BY DEF CInv, RInv, Registering, Commanded
<1>a. IsSequence(env.outputs) /\ Len(env.outputs) \in Nat
      /\ DOMAIN env.outputs = 1 .. Len(env.outputs)
      /\ \A i \in DOMAIN env.outputs : IsOutput(env.outputs[i])
  BY <1>0, LengthOf DEF Inputs
<1>b. IsSequence(argv) /\ Len(argv) \in Nat /\ DOMAIN argv = 1 .. Len(argv)
      /\ \A i \in DOMAIN argv :
            /\ argv[i].opt \in {"T", "x", "n"} => argv[i].arg # NoPath
            /\ argv[i].opt = "O" => IsOutput(argv[i].arg)
  BY <1>0, LengthOf DEF Inputs
<1>1. ASSUME IsCommand(cmd'),
             pc' \notin {"environment", "outputs", "args", "settle", "decide"}
      PROVE  Commanded'
  BY <1>1 DEF Commanded
<1>2. CASE ReadSuite \/ ReadTest
  <2>1. IsCommand(cmd') /\ pc' \in {"suites", "tests"}
    BY <1>0, <1>2 DEF ReadSuite, ReadTest
  <2> QED BY <1>1, <2>1
<1>3. CASE Initialized
  BY <1>0, <1>3 DEF Initialized, Commanded
<1>4. CASE ReadEnvironment
  <2> DEFINE d == read_environment(read_locale(NoCommand, Standard), env, Standard)
  <2>1. cmd' = d /\ pc = "environment" /\ pc' = "outputs" /\ at' = at /\ env' = env
    BY <1>4 DEF ReadEnvironment, inputVars
  <2> HIDE DEF d
  <2>2. /\ IsCommand(d) /\ FromEnvironment(d.opt, env)
        /\ d.quiet <=> env.tap = 1
        /\ d.usage = FALSE /\ d.outputs = Tap(env)
    BY EnvironmentRead DEF d
  <2>3. at = 0 /\ Len(Tap(env)) \in Nat
    BY <1>0, <1>a, <2>1, PresetLength DEF Commanded
  <2>4. OutputsRead(cmd', env', at')
    BY <2>1, <2>2, <2>3 DEF OutputsRead
  <2> QED BY <1>a, <2>1, <2>2, <2>3, <2>4 DEF Commanded
<1>5. CASE ReadOutput
  <2>0. pc = "outputs" /\ env' = env /\ argv' = argv /\ at <= Len(env.outputs)
        /\ (Understood => OutputsRead(cmd, env, at))
    BY <1>0, <1>5 DEF ReadOutput, inputVars, Commanded
  <2>1. CASE at < Len(env.outputs)
    <3> DEFINE e == env.outputs[at + 1]
    <3>1. /\ cmd' = read_output(cmd, e) /\ at' = at + 1
          /\ pc' = IF cmd'.usage THEN "settle" ELSE pc
      BY <1>5, <2>1 DEF ReadOutput
    <3>2. at + 1 \in DOMAIN env.outputs /\ IsOutput(e)
      BY <1>0, <1>a, <2>1
    <3> HIDE DEF e
    <3>3. /\ IsCommand(cmd') /\ cmd'.opt = cmd.opt
          /\ e.path # NoPath => /\ cmd'.usage = cmd.usage
                                /\ cmd'.quiet = must_be_quiet(e.path)
                                /\ cmd'.outputs = Append(cmd.outputs, e)
      BY <1>0, <3>1, <3>2, OutputRead
    <3>4. CASE Understood
      <4>1. OutputsRead(cmd, env, at) /\ e.path # NoPath
        BY <2>0, <3>2, <3>4 DEF Understood, e
      <4>2. at \in 0 .. Len(env.outputs) - 1
        BY <1>0, <1>a, <2>1
      <4>3. OutputsRead(cmd', env, at + 1)
        BY <1>0, <1>a, <3>3, <4>1, <4>2, OutputStep DEF e
      <4>4. cmd'.usage = FALSE
        BY <4>3 DEF OutputsRead
      <4>5. pc' = "outputs" /\ at' <= Len(env.outputs)
        BY <1>0, <1>a, <2>0, <2>1, <3>1, <4>4
      <4> QED BY <2>0, <3>1, <3>3, <4>3, <4>5 DEF Commanded
    <3>5. CASE ~Understood
      <4>1. ~Understood' /\ at' <= Len(env'.outputs) /\ pc' \in {"settle", "outputs"}
        BY <1>0, <1>a, <2>0, <2>1, <3>1, <3>5 DEF Understood
      <4> QED BY <3>3, <4>1 DEF Commanded
    <3> QED BY <3>4, <3>5
  <2>2. CASE ~(at < Len(env.outputs))
    <3>1. at' = 0 /\ pc' = "args" /\ cmd' = cmd /\ at = Len(env.outputs)
      BY <1>0, <1>5, <1>a, <2>0, <2>2 DEF ReadOutput
    <3>2. Understood => ArgumentsRead(cmd, env, argv, 0)
      BY <1>a, <2>0, <3>1, ArgumentsBegin
    <3>3. Understood' <=> Understood
      BY <2>0 DEF Understood
    <3> QED BY <1>0, <1>b, <2>0, <3>1, <3>2, <3>3 DEF Commanded
  <2> QED BY <2>1, <2>2
<1>6. CASE ReadArg
  <2> DEFINE a == argv[at + 1]
  <2>1. /\ pc = "args" /\ at < Len(argv) /\ cmd' = handle_option(cmd, a, Standard)
        /\ at' = at + 1 /\ env' = env /\ argv' = argv /\ pc' \in {"args", "gone"}
    BY <1>6 DEF ReadArg, inputVars, Leave
  <2>2. /\ a.opt \in {"T", "x", "n"} => a.arg # NoPath
        /\ a.opt = "O" => IsOutput(a.arg)
    BY <1>0, <1>b, <2>1
  <2> HIDE DEF a
  <2>3. IsCommand(cmd') /\ Argued(cmd, a, cmd')
    BY <1>0, <2>1, <2>2, CommandKept, OptionSet
  <2>4. Understood => ArgumentsRead(cmd', env, argv, at + 1)
    <3> HAVE Understood
    <3>1. ArgumentsRead(cmd, env, argv, at)
      BY <1>0, <2>1 DEF Commanded
    <3> QED BY <1>0, <1>a, <2>3, <3>1, ArgumentStep DEF a
  <2>5. Understood' <=> Understood
    BY <2>1 DEF Understood
  <2>6. at' <= Len(argv')
    BY <1>0, <1>b, <2>1
  <2> QED BY <2>1, <2>3, <2>4, <2>5, <2>6 DEF Commanded
<1>7. CASE Settle
  <2>1. /\ pc = "settle" \/ (pc = "args" /\ at = Len(argv))
        /\ cmd' = settle(cmd) /\ at' = 0 /\ pc' = "decide"
        /\ env' = env /\ argv' = argv
    BY <1>7 DEF Settle, inputVars
  <2>2. /\ IsCommand(cmd')
        /\ cmd'.opt.jobs = cmd.opt.jobs /\ cmd'.opt.pattern = cmd.opt.pattern
        /\ cmd'.opt.fail_fast = cmd.opt.fail_fast
        /\ cmd'.opt.always_succeed = cmd.opt.always_succeed
        /\ cmd'.opt.logging_threshold = IF cmd.quiet THEN CRITERION_LOG_LEVEL_QUIET
                                        ELSE cmd.opt.logging_threshold
        /\ cmd'.outputs = cmd.outputs
    BY <1>0, <2>1, Settled
  <2>3. Understood => AllRead(cmd', env, argv)
    <3> HAVE Understood
    <3>1. ArgumentsRead(cmd, env, argv, Len(argv))
      BY <1>0, <2>1 DEF Commanded
    <3> QED BY <2>2, <3>1 DEF ArgumentsRead, AllRead, OptionsRead
  <2>4. Understood' <=> Understood
    BY <2>1 DEF Understood
  <2> QED BY <2>1, <2>2, <2>3, <2>4 DEF Commanded
<1>8. CASE Decide
  BY <1>0, <1>1, <1>8 DEF Decide, Leave
<1>9. CASE Filter
  BY <1>0, <1>1, <1>9 DEF Filter, Leave
<1>10. CASE Start
  <2>1. cmd' = [cmd EXCEPT !.opt = debug_options(cmd.opt)] /\ pc' = "run"
    BY <1>10 DEF Start
  <2>2. IsCommand(cmd')
    BY <1>0, <2>1, DebugKept
  <2> QED BY <1>1, <2>1, <2>2
<1>11. CASE RunTests
  <2>1. cmd' = cmd /\ pc' \in {"run", "finish"}
    BY <1>11 DEF RunTests, EnterSuite, SkipDisabled, Spawn, LeaveSuite, RunEnds,
                 Begin, End, AtSuite, AtTest
  <2> QED BY <1>0, <1>1, <2>1
<1>12. CASE Conclude
  <2>1. cmd' = cmd /\ pc' \in {"report", "gone"}
    BY <1>12 DEF Conclude, Finish, WriteReport, Return, Leave
  <2> QED BY <1>0, <1>1, <2>1
<1>13. CASE UNCHANGED sessionVars
  BY <1>0, <1>13 DEF sessionVars, Commanded, Understood
<1> QED BY <1>2, <1>3, <1>4, <1>5, <1>6, <1>7, <1>8, <1>9, <1>10, <1>11, <1>12, <1>13
        DEF SessionNext, Prepare, Gone

LEMMA CommandsKnown == SessionSpec => []CInv
BY CInit, CNext, PTL DEF SessionSpec

(* The level is that of the last of --quiet and the outputs, which is more *)
(* than Precedence asks for.                                               *)
LEMMA LastWordCounts == CInv => Precedence
<1> SUFFICES ASSUME CInv, pc = "decide", Understood
             PROVE  Precedence
  BY DEF Precedence
<1> DEFINE n == Len(argv)
           given == {i \in DOMAIN argv : GivesOutput(argv[i])}
           heard == {i \in DOMAIN argv : argv[i].opt = "q" \/ GivesOutput(argv[i])}
           preset == (IF env.tap = 1 THEN <<[provider |-> "tap", path |-> "-"]>>
                                     ELSE <<>>) \o env.outputs
           p == Len(preset)
<1>1. AllRead(cmd, env, argv) /\ IsCommand(cmd) /\ Inputs
  BY DEF CInv, Commanded, RInv
<1>2. n \in Nat /\ DOMAIN argv = 1 .. n /\ IsSequence(env.outputs)
  BY <1>1, LengthOf DEF Inputs
<1>3. /\ \A letters : Speaks(letters) = After(argv, n, letters)
      /\ heard = Heard(argv, n) /\ given = Given(argv, n)
  BY <1>2 DEF Speaks, After, Heard, Given
<1>4. ASSUME NEW i \in given PROVE {j \in given : j <= i} = Given(argv, i)
  BY <1>2 DEF Given
<1>5. preset = Preset(env)
  BY DEF Preset, Tap
<1> HIDE DEF given, heard, preset, n
<1>6. OptionsRead(cmd.opt, env, argv, n)
  BY <1>1 DEF AllRead, n
<1>7. cmd.opt.logging_threshold = IF Silent(env, argv, n) THEN CRITERION_LOG_LEVEL_QUIET
                                  ELSE LevelRead(env, argv, n)
  BY <1>1 DEF AllRead, n
<1>8. GivenRead(cmd.outputs, env, argv, n)
  BY <1>1 DEF AllRead, n
<1>9. /\ cmd.opt.jobs = Said({"j"}, atou, atou(Default(env.jobs, 0)))
      /\ cmd.opt.pattern = Said({"p", "F"}, Same_, Default(env.pattern, NoPattern))
  BY <1>3, <1>6 DEF OptionsRead, Said, Last_, Latest, Same_
<1>10. /\ cmd.opt.fail_fast <=> Speaks({"f"}) # {} \/ env.fail_fast = 1
       /\ cmd.opt.always_succeed <=> Speaks({"y"}) # {} \/ env.always_succeed = 1
  BY <1>3, <1>6 DEF OptionsRead
<1> DEFINE silent == IF heard # {} THEN Wants(argv[Max(heard)])
                     ELSE IF Len(env.outputs) > 0
                          THEN must_be_quiet(env.outputs[Len(env.outputs)].path)
                          ELSE env.tap = 1
           level == Said({"b"}, Level, atou(Default(env.verbosity, CRITERION_IMPORTANT)))
<1>11. silent = Silent(env, argv, n)
  BY <1>3 DEF Silent
<1>12. level = LevelRead(env, argv, n)
  BY <1>3 DEF LevelRead, Said, Last_, Latest
<1> HIDE DEF silent, level
<1>13. cmd.opt.logging_threshold = IF silent THEN CRITERION_LOG_LEVEL_QUIET ELSE level
  BY <1>7, <1>11, <1>12
<1>14. Len(cmd.outputs) = p + Cardinality(given)
  BY <1>3, <1>5, <1>8 DEF GivenRead
<1>15. SubSeq(cmd.outputs, 1, p) = preset
  <2> DEFINE R == {cmd.outputs[i] : i \in DOMAIN cmd.outputs}
             S == {preset[i] : i \in DOMAIN preset}
             front == SubSeq(cmd.outputs, 1, p)
  <2>1. IsSequence(preset) /\ IsSequence(cmd.outputs)
    BY <1>1, <1>2, <1>5, PresetLength DEF IsCommand
  <2>2. cmd.outputs \in Seq(R) /\ preset \in Seq(S) /\ p \in Nat
    BY <2>1, LengthOf DEF IsSequence
  <2> HIDE DEF R, S, front
  <2>3. Cardinality(given) \in Nat
    BY <1>2, <1>3, GivenMore
  <2>4. p <= Len(cmd.outputs)
    BY <1>14, <2>2, <2>3
  <2>5. /\ front \in Seq(R) /\ Len(front) = p
        /\ \A i \in 1 .. p : front[i] = cmd.outputs[i]
    BY <2>2, <2>4, SubSeqProperties DEF front
  <2>6. \A i \in 1 .. p : cmd.outputs[i] = preset[i]
    BY <1>5, <1>8 DEF GivenRead
  <2>7. front \in Seq(R \cup S) /\ preset \in Seq(R \cup S)
    BY <2>2, <2>5
  <2>8. front = preset
    BY <2>5, <2>6, <2>7, SeqEqual
  <2> QED BY <2>8 DEF front
<1>16. ASSUME NEW i \in given
       PROVE  cmd.outputs[p + Cardinality({j \in given : j <= i})] = OutputOf(argv[i])
  <2>1. {j \in given : j <= i} = Given(argv, i)
    BY <1>4
  <2>2. cmd.outputs[Len(Preset(env)) + Cardinality(Given(argv, i))] = OutputOf(argv[i])
    BY <1>3, <1>8 DEF GivenRead
  <2> QED BY <1>5, <2>1, <2>2
<1> DEFINE wanted == \/ env.tap = 1
                     \/ \E i \in 1 .. Len(env.outputs) : must_be_quiet(env.outputs[i].path)
                     \/ \E i \in heard : Wants(argv[i])
<1>17. silent => wanted
  <2>1. CASE heard # {}
    <3>1. heard \subseteq 1 .. n
      BY <1>2 DEF heard
    <3>2. Max(heard) \in heard
      BY <1>2, <2>1, <3>1, Greatest
    <3> QED BY <2>1, <3>2 DEF silent
  <2>2. CASE heard = {} /\ Len(env.outputs) > 0
    <3>1. Len(env.outputs) \in Nat
      BY <1>2, LengthOf
    <3> QED BY <2>2, <3>1 DEF silent
  <2>3. CASE heard = {} /\ ~(Len(env.outputs) > 0)
    BY <2>3 DEF silent
  <2> QED BY <2>1, <2>2, <2>3
<1> HIDE DEF wanted
<1>18. /\ cmd.opt.logging_threshold \in {CRITERION_LOG_LEVEL_QUIET, level}
       /\ silent => quiet(cmd.opt)
       /\ ~wanted => cmd.opt.logging_threshold = level
  BY <1>13, <1>17 DEF quiet
<1> QED BY <1>9, <1>10, <1>14, <1>15, <1>16, <1>18
        DEF Precedence, given, heard, preset, silent, wanted, level

(* The last argument that speaks of an option counts, before it the        *)
(* environment, and the outputs are all kept in their order, whatever the  *)
(* command line: criterion_handle_args.                                    *)
THEOREM PrecedenceAlways == SessionSpec => []Precedence
BY CommandsKnown, LastWordCounts, PTL

----------------------------------------------------------------------------
(* What the end of a test leaves, and what it counts.                      *)

ViewFields == {"state", "alive", "t", "ss", "g", "ev"}
TestFields == {"test_status", "passed_asserts", "failed_asserts", "timed_out",
               "signal", "exit_code", "crashed"}

\* w is v, with the statistics t, and the counters of K moved by one, in the
\* suite and in the run.
Moved(v, w, t, K) ==
    /\ DOMAIN w = ViewFields /\ w.state = v.state /\ w.t = t
    /\ w.ss = Count(v.ss, K, 1) /\ w.g = Count(v.g, K, 1)

LEMMA PushesMove ==
    ASSUME NEW v, DOMAIN v = ViewFields, NEW expected
    PROVE  /\ Moved(v, push_pre_init(v), v.t, PreInitCounts(v.t))
           /\ \A passed : Moved(v, push_assert(v, passed), AssertStats(v.t, passed),
                                AssertCounts(passed))
           /\ Moved(v, push_post_test(v, expected), PostTestStats(v.t, expected),
                    PostTestCounts(v.t, expected))
           /\ Moved(v, push_end(v, expected), PostTestStats(v.t, expected),
                    PostTestCounts(v.t, expected))
           /\ \A reported : Moved(v, push_test_crash(v, reported), CrashStats(v.t),
                                  CrashCounts)
<1>1. ASSUME NEW w, DOMAIN w = ViewFields, NEW e
      PROVE  /\ DOMAIN Report(w, e) = ViewFields /\ Report(w, e).state = w.state
             /\ Report(w, e).t = w.t /\ Report(w, e).ss = w.ss /\ Report(w, e).g = w.g
  BY <1>1 DEF Report, ViewFields
<1>2. ASSUME NEW K
      PROVE  Moved(v, Tally(v, K), v.t, K)
  BY DEF Tally, Moved, ViewFields
<1>3. ASSUME NEW w, DOMAIN w = ViewFields, NEW t
      PROVE  LET x == [w EXCEPT !.t = t]
             IN  /\ DOMAIN x = ViewFields /\ x.state = w.state /\ x.t = t
                 /\ x.ss = w.ss /\ x.g = w.g
  BY <1>3 DEF ViewFields
<1>4. Moved(v, push_pre_init(v), v.t, PreInitCounts(v.t))
  <2> DEFINE w == Tally(v, PreInitCounts(v.t))
  <2>1. Moved(v, w, v.t, PreInitCounts(v.t))
    BY <1>2
  <2> HIDE DEF w
  <2>2. push_pre_init(v) = Report(w, "PRE_INIT")
    BY DEF push_pre_init, w
  <2> QED BY <1>1, <2>1, <2>2 DEF Moved
<1>5. ASSUME NEW K, NEW w, w = Tally(v, K), NEW t, NEW f, f = w.t
      PROVE  Moved(v, [w EXCEPT !.t = t], t, K)
  BY <1>2, <1>3, <1>5 DEF Moved
<1>6. ASSUME NEW passed
      PROVE  Moved(v, push_assert(v, passed), AssertStats(v.t, passed),
                   AssertCounts(passed))
  <2> DEFINE w == Tally(v, AssertCounts(passed))
  <2>1. Moved(v, w, v.t, AssertCounts(passed))
    BY <1>2
  <2> HIDE DEF w
  <2>2. push_assert(v, passed) = [w EXCEPT !.t = AssertStats(v.t, passed)]
    BY <2>1 DEF push_assert, w, Moved
  <2> QED BY <1>5, <2>2 DEF w
<1>7. Moved(v, push_post_test(v, expected), PostTestStats(v.t, expected),
            PostTestCounts(v.t, expected))
  <2> DEFINE K == PostTestCounts(v.t, expected)
             w == Tally(v, K)
             x == [w EXCEPT !.t = PostTestStats(v.t, expected)]
  <2>1. Moved(v, w, v.t, K)
    BY <1>2
  <2> HIDE DEF w
  <2>2. push_post_test(v, expected) = Report(x, "POST_TEST")
    BY <2>1 DEF push_post_test, w, Moved
  <2>3. Moved(v, x, PostTestStats(v.t, expected), K)
    BY <1>5 DEF w
  <2> HIDE DEF x
  <2> QED BY <1>1, <2>2, <2>3 DEF Moved
<1>8. Moved(v, push_end(v, expected), PostTestStats(v.t, expected),
            PostTestCounts(v.t, expected))
  <2> DEFINE x == push_post_test(v, expected)
  <2>1. push_end(v, expected) = Report(x, "POST_FINI")
    BY DEF push_end, push_post_fini
  <2> HIDE DEF x
  <2> QED BY <1>1, <1>7, <2>1 DEF Moved, x
<1>9. ASSUME NEW reported
      PROVE  Moved(v, push_test_crash(v, reported), CrashStats(v.t), CrashCounts)
  <2> DEFINE w == Tally(v, CrashCounts)
             x == [w EXCEPT !.t = CrashStats(v.t)]
             e == IF reported THEN "TEST_CRASH" ELSE "SILENT_CRASH"
  <2>1. Moved(v, w, v.t, CrashCounts)
    BY <1>2
  <2> HIDE DEF w, e
  <2>2. push_test_crash(v, reported) = Report(x, e)
    BY <2>1 DEF push_test_crash, w, Moved, e
  <2>3. Moved(v, x, CrashStats(v.t), CrashCounts)
    BY <1>5 DEF w
  <2> HIDE DEF x
  <2> QED BY <1>1, <2>2, <2>3 DEF Moved
<1> QED BY <1>4, <1>6, <1>7, <1>8, <1>9

FailedEnds == {"fail", "crash", "timeout", "no signal", "stillborn"}
VerdictOf(end) == IF end \in FailedEnds \cup {"late die"} THEN FAILED
                  ELSE IF end = "skip" THEN SKIPPED ELSE PASSED

\* The counters of the run that say something of how tests end, and the ends
\* that move each of them.
Tallied == {"tests_failed", "tests_passed", "tests_skipped", "errors", "warnings",
            "nb_tests"}
Kinds(c) == CASE c = "tests_failed"  -> FailedEnds
              [] c = "tests_passed"  -> {"pass", "error", "late crash", "late die"}
              [] c = "tests_skipped" -> {"skip"}
              [] c = "errors"        -> {"error"}
              [] c = "warnings"      -> {"late crash", "stillborn"}
              [] c = "nb_tests"      -> {}

Totals == [GlobalCounter -> Nat]

\* The counters h are g with those that are in K moved by one.
Adds(g1, h, K) ==
    h \in Totals /\ \A c \in Tallied : h[c] = g1[c] + (IF c \in K THEN 1 ELSE 0)

\* What is left of a test with the verdict status.
Judged(t, verdict) ==
    t.test_status = verdict /\ (t.crashed \/ t.timed_out => verdict = FAILED)

LEMMA CountAdds ==
    ASSUME NEW h \in Totals, NEW K
    PROVE  Adds(h, Count(h, K, 1), K)
BY DEF Adds, Count, Totals, Tallied, GlobalCounter, SuiteCounter

LEMMA AddsBoth ==
    ASSUME NEW h \in Totals, NEW h1, NEW h2, NEW K, NEW L,
           Adds(h, h1, K), Adds(h1, h2, L), K \cap L = {}
    PROVE  Adds(h, h2, K \cup L)
<1>1. \A c \in Tallied : h[c] \in Nat
  BY DEF Totals, Tallied, GlobalCounter, SuiteCounter
<1> QED BY <1>1 DEF Adds

LEMMA MovedAdds ==
    ASSUME NEW v, NEW w, NEW t, NEW K, v.g \in Totals, Moved(v, w, t, K)
    PROVE  DOMAIN w = ViewFields /\ w.t = t /\ w.state = v.state /\ Adds(v.g, w.g, K)
BY CountAdds DEF Moved

\* The statistics that the pushes leave of a fresh test.
LEMMA FreshVerdicts ==
    LET failed   == [FreshTest EXCEPT !.failed_asserts = @ + 1]
        signaled == [FreshTest EXCEPT !.signal = SIGNAL]
        timed    == [FreshTest EXCEPT !.timed_out = TRUE]
        skipped  == [FreshTest EXCEPT !.test_status = SKIPPED]
        judged(t, e) == PostTestStats(t, e)
    IN  /\ judged(FreshTest, Expected) = FreshTest
        /\ Judged(FreshTest, PASSED)
        /\ Judged(judged(FreshTest, ExpectedSignal), FAILED)
        /\ Judged(judged(failed, Expected), FAILED)
        /\ Judged(CrashStats(signaled), FAILED)
        /\ Judged(judged(timed, Expected), FAILED)
        /\ Judged(judged(skipped, Expected), SKIPPED)
        /\ Judged(CrashStats(FreshTest), FAILED)
BY DEF FreshTest, PostTestStats, Unexpected, Expected, ExpectedSignal, SIGNAL, Judged,
       CrashStats, PASSED, FAILED, SKIPPED

LEMMA VerdictCounts ==
    ASSUME NEW t, NEW e, NEW verdict \in TestStatus,
           Judged(PostTestStats(t, e), verdict)
    PROVE  PostTestCounts(t, e) = {VerdictCounter(verdict)}
BY DEF PostTestCounts, Judged

LEMMA InState ==
    ASSUME NEW v, DOMAIN v = ViewFields, NEW s
    PROVE  /\ DOMAIN In(v, s) = ViewFields /\ In(v, s).state = s
           /\ In(v, s).t = v.t /\ In(v, s).g = v.g
BY DEF In, ViewFields

LEMMA TestIn ==
    ASSUME NEW v, DOMAIN v = ViewFields, NEW t
    PROVE  LET w == [v EXCEPT !.t = t]
           IN  /\ DOMAIN w = ViewFields /\ w.state = v.state
               /\ w.t = t /\ w.g = v.g
BY DEF ViewFields

LEMMA Ending ==
    ASSUME NEW v, DOMAIN v = ViewFields, v.t = FreshTest, v.g \in Totals,
           NEW end \in EndingKind
    PROVE  LET w == ended(v, end)
           IN  /\ DOMAIN w = ViewFields
               /\ Judged(w.t, VerdictOf(end))
               /\ Adds(v.g, w.g, {c \in Tallied : end \in Kinds(c)})
<1> DEFINE K == {c \in Tallied : end \in Kinds(c)}
           w == ended(v, end)
           Good(u) == /\ DOMAIN u = ViewFields
                      /\ Judged(u.t, VerdictOf(end))
                      /\ Adds(v.g, u.g, K)
<1> SUFFICES Good(w)
  OBVIOUS
<1>0. VerdictCounter(PASSED) = "tests_passed" /\ VerdictCounter(FAILED) = "tests_failed"
      /\ VerdictCounter(SKIPPED) = "tests_skipped" /\ {PASSED, FAILED, SKIPPED} = TestStatus
  BY DEF VerdictCounter, PASSED, FAILED, SKIPPED, TestStatus
<1>v. /\ end \in {"pass", "error", "late crash"} => VerdictOf(end) = PASSED
      /\ end \in FailedEnds \cup {"late die"} => VerdictOf(end) = FAILED
      /\ end = "skip" => VerdictOf(end) = SKIPPED
  BY DEF VerdictOf, FailedEnds
<1>k. /\ end = "pass" => K = {"tests_passed"}
      /\ end \in {"fail", "crash", "timeout", "no signal"} => K = {"tests_failed"}
      /\ end = "skip" => K = {"tests_skipped"}
      /\ end = "error" => K = {"tests_passed", "errors"}
      /\ end = "late crash" => K = {"tests_passed", "warnings"}
      /\ end = "late die" => K = {"tests_passed"}
      /\ end = "stillborn" => K = {"warnings", "tests_failed"}
  BY DEF Kinds, Tallied, FailedEnds
<1>a. ASSUME NEW u, NEW x, NEW t, NEW L, Moved(u, x, t, L), u.g \in Totals,
             NEW M, L \cap Tallied = M \cap Tallied
      PROVE  DOMAIN x = ViewFields /\ x.t = t /\ x.state = u.state /\ Adds(u.g, x.g, M)
  <2>1. DOMAIN x = ViewFields /\ x.t = t /\ x.state = u.state /\ Adds(u.g, x.g, L)
    BY <1>a, MovedAdds
  <2> QED BY <1>a, <2>1 DEF Adds
<1>b. ASSUME NEW u, DOMAIN u = ViewFields, u.g = v.g, NEW e, NEW verdict \in TestStatus,
             Judged(PostTestStats(u.t, e), verdict), NEW x, x = push_end(u, e)
                \/ x = push_post_test(u, e)
      PROVE  /\ DOMAIN x = ViewFields /\ x.t = PostTestStats(u.t, e)
             /\ Adds(v.g, x.g, {VerdictCounter(verdict)})
  <2>1. Moved(u, x, PostTestStats(u.t, e), {VerdictCounter(verdict)})
    BY <1>b, PushesMove, VerdictCounts
  <2> QED BY <1>a, <1>b, <2>1
<1> HIDE DEF K
<1>1. CASE end = "pass"
  <2>1. w = push_end(v, Expected)
    BY <1>1 DEF ended
  <2>2. Judged(PostTestStats(v.t, Expected), PASSED)
    BY FreshVerdicts
  <2> HIDE DEF w
  <2> QED BY <1>0, <1>1, <1>b, <1>k, <1>v, <2>1, <2>2
<1>2. CASE end = "no signal"
  <2>1. w = push_end(v, ExpectedSignal)
    BY <1>2 DEF ended
  <2>2. Judged(PostTestStats(v.t, ExpectedSignal), FAILED) /\ end \in FailedEnds
    BY <1>2, FreshVerdicts DEF FailedEnds
  <2> HIDE DEF w
  <2>3. DOMAIN w = ViewFields /\ w.t = PostTestStats(v.t, ExpectedSignal)
        /\ Adds(v.g, w.g, {"tests_failed"})
    BY <1>0, <1>b, <2>1, <2>2
  <2> QED BY <1>2, <1>k, <1>v, <2>2, <2>3
<1>3. CASE end = "fail"
  <2> DEFINE u == push_assert(v, FALSE)
  <2>1. w = push_end(u, Expected)
    BY <1>3 DEF ended
  <2>2. Moved(v, u, AssertStats(v.t, FALSE), AssertCounts(FALSE))
    BY PushesMove
  <2> HIDE DEF u
  <2>a. AssertCounts(FALSE) \cap Tallied = {} \cap Tallied
    BY DEF AssertCounts, Tallied
  <2>3. DOMAIN u = ViewFields /\ u.t = AssertStats(v.t, FALSE) /\ Adds(v.g, u.g, {})
    BY <1>a, <2>2, <2>a
  <2>4. Judged(PostTestStats(u.t, Expected), FAILED) /\ end \in FailedEnds
    BY <1>3, <2>3, FreshVerdicts DEF FailedEnds, AssertStats
  <2>b. PostTestCounts(u.t, Expected) = {"tests_failed"}
    BY <1>0, <2>4, VerdictCounts
  <2>5. Moved(u, w, PostTestStats(u.t, Expected), {"tests_failed"})
    BY <2>1, <2>3, <2>b, PushesMove
  <2> HIDE DEF w
  <2>6. u.g \in Totals
    BY <2>3 DEF Adds
  <2>7. DOMAIN w = ViewFields /\ w.t = PostTestStats(u.t, Expected)
        /\ Adds(u.g, w.g, {"tests_failed"})
    BY <2>5, <2>6, MovedAdds
  <2>8. Adds(v.g, w.g, {} \cup {"tests_failed"})
    BY <2>3, <2>7, AddsBoth
  <2>9. {} \cup {"tests_failed"} = K
    BY <1>3, <1>k
  <2> QED BY <1>v, <2>4, <2>7, <2>8, <2>9
<1>4. CASE end = "crash"
  <2> DEFINE i == In(v, CS_MAIN)
             u == [i EXCEPT !.t.signal = SIGNAL]
  <2>1. w = handle_crash(i, SIGNAL, Expected)
    BY <1>4 DEF ended
  <2>2. DOMAIN i = ViewFields /\ i.state = 1 /\ i.t = FreshTest /\ i.g = v.g
    BY InState DEF CS_MAIN
  <2> HIDE DEF i
  <2>3. DOMAIN u = ViewFields /\ u.t = [FreshTest EXCEPT !.signal = SIGNAL] /\ u.g = v.g
    BY <2>2 DEF ViewFields
  <2>4. curstate(i.state) = CS_MAIN
    BY <2>2 DEF curstate, CS_MAIN, CS_MAX_CLIENT_STATES
  <2>5. w = push_test_crash(u, TRUE)
    BY <2>1, <2>4 DEF handle_crash, Expected
  <2> HIDE DEF u, w
  <2>6. Moved(u, w, CrashStats(u.t), CrashCounts)
    BY <2>3, <2>5, PushesMove
  <2>7. DOMAIN w = ViewFields /\ w.t = CrashStats(u.t) /\ Adds(v.g, w.g, {"tests_failed"})
    BY <1>a, <2>3, <2>6 DEF CrashCounts, Tallied
  <2>8. Judged(CrashStats(u.t), FAILED) /\ end \in FailedEnds
    BY <1>4, <2>3, FreshVerdicts DEF FailedEnds
  <2> QED BY <1>4, <1>k, <1>v, <2>7, <2>8
<1>5. CASE end = "timeout"
  <2> DEFINE i == In(v, CS_MAIN)
             u == [i EXCEPT !.t.timed_out = TRUE]
  <2>1. w = handle_timeout(i, Expected)
    BY <1>5 DEF ended
  <2>2. DOMAIN i = ViewFields /\ i.state = 1 /\ i.t = FreshTest /\ i.g = v.g
    BY InState DEF CS_MAIN
  <2> HIDE DEF i
  <2>3. DOMAIN u = ViewFields /\ u.t = [FreshTest EXCEPT !.timed_out = TRUE] /\ u.g = v.g
    BY <2>2 DEF ViewFields
  <2>5. w = push_end(u, Expected)
    BY <2>1, <2>2 DEF handle_timeout, nested, CS_MAX_CLIENT_STATES
  <2> HIDE DEF u, w
  <2>8. Judged(PostTestStats(u.t, Expected), FAILED) /\ end \in FailedEnds
    BY <1>5, <2>3, FreshVerdicts DEF FailedEnds
  <2>a. PostTestCounts(u.t, Expected) = {"tests_failed"}
    BY <1>0, <2>8, VerdictCounts
  <2>c. DOMAIN u = ViewFields
    BY <2>3
  <2>b. Moved(u, w, PostTestStats(u.t, Expected), {"tests_failed"})
    BY <2>5, <2>a, <2>c, PushesMove
  <2>9. DOMAIN w = ViewFields /\ w.t = PostTestStats(u.t, Expected)
        /\ Adds(v.g, w.g, {"tests_failed"})
    BY <2>3, <2>b, MovedAdds
  <2> QED BY <1>5, <1>k, <1>v, <2>8, <2>9
<1>6. CASE end = "skip"
  <2> DEFINE i == In(v, CS_MAIN)
             u == [i EXCEPT !.t.test_status = SKIPPED]
  <2>1. w = handle_skip(i, Expected)
    BY <1>6 DEF ended
  <2>2. DOMAIN i = ViewFields /\ i.state = 1 /\ i.t = FreshTest /\ i.g = v.g
    BY InState DEF CS_MAIN
  <2> HIDE DEF i
  <2>3. DOMAIN u = ViewFields /\ u.t = [FreshTest EXCEPT !.test_status = SKIPPED]
        /\ u.g = v.g
    BY <2>2 DEF ViewFields
  <2>5. w = push_end(u, Expected)
    BY <2>1, <2>2 DEF handle_skip, nested, CS_MAX_CLIENT_STATES
  <2> HIDE DEF u, w
  <2>8. Judged(PostTestStats(u.t, Expected), SKIPPED)
    BY <2>3, FreshVerdicts
  <2> QED BY <1>0, <1>6, <1>b, <1>k, <1>v, <2>3, <2>5, <2>8, SMTT(30)
<1>7. CASE end = "error"
  <2> DEFINE u == handle_message(v, "ERROR")
  <2>1. w = push_end(u, Expected)
    BY <1>7 DEF ended
  <2>2. u = [v EXCEPT !.g = Count(@, {"errors"}, 1)]
    BY DEF handle_message
  <2>3. DOMAIN u = ViewFields /\ u.t = FreshTest /\ u.g = Count(v.g, {"errors"}, 1)
    BY <2>2 DEF ViewFields
  <2> HIDE DEF u
  <2>4. Adds(v.g, u.g, {"errors"}) /\ u.g \in Totals
    BY <2>3, CountAdds DEF Adds
  <2>5. Judged(PostTestStats(u.t, Expected), PASSED)
    BY <2>3, FreshVerdicts
  <2>6. Moved(u, w, PostTestStats(u.t, Expected), {"tests_passed"})
    BY <1>0, <2>1, <2>3, <2>5, PushesMove, VerdictCounts
  <2> HIDE DEF w
  <2>7. DOMAIN w = ViewFields /\ w.t = PostTestStats(u.t, Expected)
        /\ Adds(u.g, w.g, {"tests_passed"})
    BY <2>4, <2>6, MovedAdds
  <2>8. Adds(v.g, w.g, {"errors"} \cup {"tests_passed"})
    BY <2>4, <2>7, AddsBoth
  <2>9. {"errors"} \cup {"tests_passed"} = K
    BY <1>7, <1>k
  <2> QED BY <1>7, <1>v, <2>5, <2>7, <2>8, <2>9
<1>8. CASE end = "late crash"
  <2> DEFINE p == push_post_test(v, Expected)
             i == In(p, CS_TEARDOWN)
  <2>1. w = handle_crash(i, SIGNAL, Expected)
    BY <1>8 DEF ended
  <2>2. Judged(PostTestStats(v.t, Expected), PASSED)
    BY FreshVerdicts
  <2>3. DOMAIN p = ViewFields /\ p.t = PostTestStats(v.t, Expected)
        /\ Adds(v.g, p.g, {"tests_passed"})
    BY <1>0, <1>b, <2>2
  <2> HIDE DEF p
  <2>4. DOMAIN i = ViewFields /\ i.state = 2 /\ i.t = p.t /\ i.g = p.g
    BY <2>3, InState DEF CS_TEARDOWN
  <2> HIDE DEF i
  <2>5. w = warn(i)
    BY <2>1, <2>4 DEF handle_crash, curstate, CS_MAIN, CS_MAX_CLIENT_STATES
  <2>6. DOMAIN w = ViewFields /\ w.t = p.t /\ w.g = Count(p.g, {"warnings"}, 1)
    BY <2>4, <2>5 DEF warn, ViewFields
  <2> HIDE DEF w
  <2>7. Adds(p.g, w.g, {"warnings"})
    BY <2>3, <2>6, CountAdds DEF Adds
  <2>8. Adds(v.g, w.g, {"tests_passed"} \cup {"warnings"})
    BY <2>3, <2>7, AddsBoth
  <2>9. {"tests_passed"} \cup {"warnings"} = K
    BY <1>8, <1>k
  <2> QED BY <1>8, <1>v, <2>2, <2>3, <2>6, <2>8, <2>9
<1>9. CASE end = "late die"
  <2> DEFINE p == push_post_test(v, Expected)
             i == In(p, CS_TEARDOWN)
             u == [i EXCEPT !.t.test_status = FAILED]
  <2>1. w = handle_abort(i, Expected)
    BY <1>9 DEF ended
  <2>2. PostTestStats(v.t, Expected) = FreshTest
        /\ Judged(PostTestStats(v.t, Expected), PASSED)
    BY FreshVerdicts
  <2>3. DOMAIN p = ViewFields /\ p.t = FreshTest /\ Adds(v.g, p.g, {"tests_passed"})
    BY <1>0, <1>b, <2>2
  <2> HIDE DEF p
  <2>4. DOMAIN i = ViewFields /\ i.state = 2 /\ i.t = FreshTest /\ i.g = p.g
    BY <2>3, InState DEF CS_TEARDOWN
  <2> HIDE DEF i
  <2>5. w = push_post_fini(u)
    BY <2>1, <2>4 DEF handle_abort, curstate, nested, CS_TEARDOWN, CS_END,
                      CS_MAX_CLIENT_STATES
  <2>6. DOMAIN u = ViewFields /\ u.t = [FreshTest EXCEPT !.test_status = FAILED]
        /\ u.g = p.g
    BY <2>4 DEF ViewFields
  <2> HIDE DEF u
  <2>7. DOMAIN w = ViewFields /\ w.t = [FreshTest EXCEPT !.test_status = FAILED]
        /\ w.g = p.g
    BY <2>5, <2>6 DEF push_post_fini, Report, ViewFields
  <2> HIDE DEF w
  <2>8. Judged(w.t, FAILED)
    BY <2>7 DEF Judged, FreshTest
  <2> QED BY <1>9, <1>k, <1>v, <2>3, <2>7, <2>8
<1>10. CASE end = "stillborn"
  <2> DEFINE i == In(v, CS_SETUP)
             u == warn(i)
  <2>1. w = handle_crash(i, SIGNAL, Expected)
    BY <1>10 DEF ended
  <2>2. DOMAIN i = ViewFields /\ i.state = 0 /\ i.t = FreshTest /\ i.g = v.g
    BY InState DEF CS_SETUP
  <2> HIDE DEF i
  <2>3. w = push_test_crash(u, FALSE)
    BY <2>1, <2>2 DEF handle_crash, curstate, CS_MAIN, CS_MAX_CLIENT_STATES
  <2>4. DOMAIN u = ViewFields /\ u.t = FreshTest /\ u.g = Count(v.g, {"warnings"}, 1)
    BY <2>2 DEF warn, ViewFields
  <2> HIDE DEF u, w
  <2>5. Adds(v.g, u.g, {"warnings"}) /\ u.g \in Totals
    BY <2>4, CountAdds DEF Adds
  <2>6. Moved(u, w, CrashStats(u.t), CrashCounts)
    BY <2>3, <2>4, PushesMove
  <2>7. DOMAIN w = ViewFields /\ w.t = CrashStats(u.t) /\ Adds(u.g, w.g, {"tests_failed"})
    BY <1>a, <2>5, <2>6 DEF CrashCounts, Tallied
  <2>8. Adds(v.g, w.g, {"warnings"} \cup {"tests_failed"})
    BY <2>5, <2>7, AddsBoth
  <2>9. {"warnings"} \cup {"tests_failed"} = K
    BY <1>10, <1>k
  <2>10. Judged(w.t, FAILED) /\ end \in FailedEnds
    BY <1>10, <2>4, <2>7, FreshVerdicts DEF FailedEnds
  <2> QED BY <1>v, <2>7, <2>8, <2>9, <2>10
<1> QED BY <1>1, <1>2, <1>3, <1>4, <1>5, <1>6, <1>7, <1>8, <1>9, <1>10 DEF EndingKind

----------------------------------------------------------------------------
(* The tests that are chosen, and the way the coroutine goes through them. *)

IsSpot(x, i, n)  == i \in DOMAIN x.suites /\ n \in DOMAIN x.suites[i].tests
KeyAt(x, i, n)   == <<x.suites[i].name, x.suites[i].tests[n].name>>
Disabled(x, i, n) == is_disabled(x.suites[i], x.suites[i].tests[n])
Before(p, i, n)  == i < p.suite \/ (i = p.suite /\ n < p.test)

\* The tests that the coroutine at p has seen of the set x, those that it has
\* found enabled, and all that are.
Seen(x, p) ==
    {k \in Nat \X Nat : \E i, n \in Nat :
        IsSpot(x, i, n) /\ k = KeyAt(x, i, n) /\ Before(p, i, n)}
SeenEnabled(x, p) ==
    {k \in Nat \X Nat : \E i, n \in Nat :
        /\ IsSpot(x, i, n) /\ k = KeyAt(x, i, n) /\ Before(p, i, n)
        /\ ~Disabled(x, i, n)}
AllEnabled(x) ==
    {k \in Nat \X Nat : \E i, n \in Nat :
        IsSpot(x, i, n) /\ k = KeyAt(x, i, n) /\ ~Disabled(x, i, n)}

\* Each test of the set has one place.
Ordered(x) ==
    /\ x \in SetRec /\ Sorted(x.suites)
    /\ \A i \in DOMAIN x.suites : Sorted(x.suites[i].tests)

LEMMA Spot ==
    ASSUME NEW x, Ordered(x), NEW i, NEW n, IsSpot(x, i, n)
    PROVE  /\ i \in Nat /\ n \in Nat /\ i \in 1 .. Len(x.suites)
           /\ Len(x.suites) \in Nat /\ Len(x.suites[i].tests) \in Nat
           /\ n \in 1 .. Len(x.suites[i].tests)
           /\ x.suites[i] \in SuiteRec /\ x.suites[i].tests[n] \in TestDecl
           /\ KeyAt(x, i, n) \in Nat \X Nat
<1>1. x.suites \in Seq(SuiteRec)
  BY DEF Ordered, SetRec
<1>2. i \in 1 .. Len(x.suites) /\ x.suites[i] \in SuiteRec /\ Len(x.suites) \in Nat
  BY <1>1 DEF IsSpot
<1>3. x.suites[i].tests \in Seq(TestDecl) /\ x.suites[i].name \in Nat
  BY <1>2 DEF SuiteRec
<1>4. /\ n \in 1 .. Len(x.suites[i].tests) /\ x.suites[i].tests[n] \in TestDecl
      /\ Len(x.suites[i].tests) \in Nat
  BY <1>3 DEF IsSpot
<1>5. x.suites[i].tests[n].name \in Nat
  BY <1>4 DEF TestDecl
<1> QED BY <1>2, <1>3, <1>4, <1>5 DEF KeyAt

LEMMA OneSpot ==
    ASSUME NEW x, Ordered(x), NEW i, NEW n, NEW j, NEW m,
           IsSpot(x, i, n), IsSpot(x, j, m), KeyAt(x, i, n) = KeyAt(x, j, m)
    PROVE  i = j /\ n = m
<1>1. i \in Nat /\ j \in Nat /\ n \in Nat /\ m \in Nat
      /\ x.suites[i] \in SuiteRec /\ x.suites[j] \in SuiteRec
      /\ x.suites[i].tests[n] \in TestDecl /\ x.suites[j].tests[m] \in TestDecl
  BY Spot
<1>2. x.suites[i].name = x.suites[j].name /\ x.suites[i].name \in Nat
      /\ x.suites[i].tests[n].name = x.suites[j].tests[m].name
      /\ x.suites[i].tests[n].name \in Nat
  BY <1>1 DEF KeyAt, SuiteRec, TestDecl
<1>3. ~(i < j) /\ ~(j < i)
  BY <1>1, <1>2 DEF Ordered, Sorted, IsSpot
<1>4. i = j
  BY <1>1, <1>3
<1>5. ~(n < m) /\ ~(m < n)
  BY <1>1, <1>2, <1>4 DEF Ordered, Sorted, IsSpot
<1> QED BY <1>1, <1>4, <1>5

(* What the coroutine has seen once it has passed one test more.           *)
LEMMA SeenMore ==
    ASSUME NEW x, Ordered(x), NEW p, NEW q, IsSpot(x, p.suite, p.test),
           q.suite = p.suite, q.test = p.test + 1
    PROVE  LET k == KeyAt(x, p.suite, p.test)
           IN  /\ k \in Nat \X Nat /\ k \notin Seen(x, p)
               /\ Seen(x, q) = Seen(x, p) \cup {k}
               /\ SeenEnabled(x, q) = IF Disabled(x, p.suite, p.test)
                                      THEN SeenEnabled(x, p)
                                      ELSE SeenEnabled(x, p) \cup {k}
<1> DEFINE k == KeyAt(x, p.suite, p.test)
<1>1. p.suite \in Nat /\ p.test \in Nat /\ k \in Nat \X Nat
  BY Spot
<1>2. k \notin Seen(x, p)
  <2> SUFFICES ASSUME NEW i \in Nat, NEW n \in Nat, IsSpot(x, i, n),
                      k = KeyAt(x, i, n), Before(p, i, n)
               PROVE  FALSE
    BY DEF Seen
  <2>1. i = p.suite /\ n = p.test
    BY OneSpot
  <2> QED BY <1>1, <2>1 DEF Before
<1>3. ASSUME NEW i \in Nat, NEW n \in Nat
      PROVE  Before(q, i, n) <=> Before(p, i, n) \/ (i = p.suite /\ n = p.test)
  BY <1>1 DEF Before
<1> HIDE DEF k
<1>4. Seen(x, q) = Seen(x, p) \cup {k}
  <2>1. Seen(x, q) \subseteq Seen(x, p) \cup {k}
    BY <1>3 DEF Seen, k
  <2>2. Seen(x, p) \subseteq Seen(x, q)
    BY <1>3 DEF Seen
  <2>3. k \in Seen(x, q)
    BY <1>1, <1>3 DEF Seen, k
  <2> QED BY <2>1, <2>2, <2>3
<1>5. SeenEnabled(x, p) \subseteq SeenEnabled(x, q)
  BY <1>3 DEF SeenEnabled
<1>6. SeenEnabled(x, q) \subseteq SeenEnabled(x, p) \cup {k}
  BY <1>3 DEF SeenEnabled, k
<1>7. CASE Disabled(x, p.suite, p.test)
  <2>1. k \notin SeenEnabled(x, q)
    <3> SUFFICES ASSUME NEW i \in Nat, NEW n \in Nat, IsSpot(x, i, n),
                        k = KeyAt(x, i, n), ~Disabled(x, i, n)
                 PROVE  FALSE
      BY DEF SeenEnabled
    <3> QED BY <1>7, OneSpot DEF k
  <2> QED BY <1>1, <1>2, <1>4, <1>5, <1>6, <1>7, <2>1 DEF k
<1>8. CASE ~Disabled(x, p.suite, p.test)
  <2>1. k \in SeenEnabled(x, q)
    BY <1>1, <1>3, <1>8 DEF SeenEnabled, k
  <2> QED BY <1>1, <1>2, <1>4, <1>5, <1>6, <1>8, <2>1 DEF k
<1> QED BY <1>7, <1>8

(* Nothing is seen where there is no test to pass.                         *)
LEMMA SeenSame ==
    ASSUME NEW x, Ordered(x), NEW p, NEW q,
           \A i, n \in Nat : IsSpot(x, i, n) => (Before(q, i, n) <=> Before(p, i, n))
    PROVE  Seen(x, q) = Seen(x, p) /\ SeenEnabled(x, q) = SeenEnabled(x, p)
BY DEF Seen, SeenEnabled

(* The filter disables what it does not match, and moves nothing.          *)
LEMMA Unmatched ==
    ASSUME NEW x, Ordered(x), NEW selects
    PROVE  LET y == disable_unmatching(x, selects)
           IN  /\ Ordered(y)
               /\ \A i, n : IsSpot(y, i, n) <=> IsSpot(x, i, n)
               /\ \A i, n : IsSpot(x, i, n) =>
                     /\ KeyAt(y, i, n) = KeyAt(x, i, n)
                     /\ Disabled(y, i, n) <=> \/ Disabled(x, i, n)
                                              \/ KeyAt(x, i, n) \notin selects
<1> DEFINE y == disable_unmatching(x, selects)
           matched(z, t) == [t EXCEPT !.disabled = @ \/ <<z.name, t.name>> \notin selects]
           named(i, n) == matched(x.suites[i], x.suites[i].tests[n])
           tests(i) == [n \in DOMAIN x.suites[i].tests |-> named(i, n)]
           s(i) == IF x.suites[i].data.disabled THEN x.suites[i]
                   ELSE [x.suites[i] EXCEPT !.tests = tests(i)]
           suites == [i \in DOMAIN x.suites |-> s(i)]
<1>1. x.suites \in Seq(SuiteRec) /\ DOMAIN x = {"suites", "tests"} /\ x.tests \in Nat
  BY DEF Ordered, SetRec
<1>2. y = [x EXCEPT !.suites = suites]
  BY DEF disable_unmatching
<1> HIDE DEF y, suites
<1>3. y.suites = suites /\ y.tests = x.tests /\ DOMAIN y = {"suites", "tests"}
      /\ y = [suites |-> suites, tests |-> x.tests]
  BY <1>1, <1>2, SMTT(30) DEF Ordered, SetRec
<1>4. ASSUME NEW i \in DOMAIN x.suites
      PROVE  /\ s(i) \in SuiteRec /\ s(i).name = x.suites[i].name
             /\ s(i).data = x.suites[i].data
             /\ DOMAIN s(i).tests = DOMAIN x.suites[i].tests
             /\ \A n \in DOMAIN x.suites[i].tests :
                   /\ s(i).tests[n].name = x.suites[i].tests[n].name
                   /\ s(i).tests[n].disabled \in BOOLEAN
                   /\ x.suites[i].tests[n].disabled \in BOOLEAN
                   /\ x.suites[i].data.disabled \/
                        (s(i).tests[n].disabled <=>
                            \/ x.suites[i].tests[n].disabled
                            \/ <<x.suites[i].name, x.suites[i].tests[n].name>>
                                  \notin selects)
  <2> DEFINE z == x.suites[i]
  <2>1. z \in SuiteRec
    BY <1>1
  <2>2. z.tests \in Seq(TestDecl) /\ z.name \in Nat /\ z.data \in Data
    BY <2>1 DEF SuiteRec
  <2>3. ASSUME NEW n \in DOMAIN z.tests
        PROVE  /\ named(i, n) \in TestDecl /\ named(i, n).name = z.tests[n].name
               /\ z.tests[n].disabled \in BOOLEAN
               /\ named(i, n).disabled <=> \/ z.tests[n].disabled
                                           \/ <<z.name, z.tests[n].name>> \notin selects
    <3>1. z.tests[n] \in TestDecl
      BY <2>2
    <3> QED BY <3>1 DEF TestDecl
  <2>4. tests(i) \in Seq(TestDecl) /\ DOMAIN tests(i) = DOMAIN z.tests
    <3> DEFINE l == Len(z.tests)
    <3>0. l \in Nat /\ DOMAIN z.tests = 1 .. l
      BY <2>2
    <3> HIDE DEF l
    <3>1. \A n \in 1 .. l : named(i, n) \in TestDecl
      BY <2>3, <3>0
    <3> HIDE DEF named
    <3>2. tests(i) = [n \in 1 .. l |-> named(i, n)]
      BY <3>0
    <3>3. tests(i) \in [1 .. l -> TestDecl]
      BY <3>1, <3>2
    <3> QED BY <3>0, <3>3
  <2>5. CASE z.data.disabled
    <3>1. s(i) = z
      BY <2>5
    <3>2. \A n \in DOMAIN z.tests : z.tests[n].disabled \in BOOLEAN
      BY <2>3
    <3> QED BY <2>1, <2>5, <3>1, <3>2
  <2>6. CASE ~z.data.disabled
    <3>1. s(i) = [z EXCEPT !.tests = tests(i)]
      BY <2>6
    <3> HIDE DEF s
    <3>2. s(i) \in SuiteRec /\ s(i).name = z.name /\ s(i).data = z.data
          /\ s(i).tests = tests(i)
      <4> HIDE DEF tests, z
      <4> QED BY <2>1, <2>4, <3>1, SMTT(30) DEF SuiteRec
    <3>3. \A n \in DOMAIN z.tests : s(i).tests[n] = named(i, n)
      BY <3>2
    <3>4. \A n \in DOMAIN z.tests : named(i, n).disabled \in BOOLEAN
      <4> TAKE n \in DOMAIN z.tests
      <4>1. named(i, n) \in TestDecl
        BY <2>3
      <4> HIDE DEF named
      <4> QED BY <4>1 DEF TestDecl
    <3> HIDE DEF named, tests
    <3> QED BY <2>3, <2>4, <3>2, <3>3, <3>4
  <2> QED BY <2>5, <2>6
<1> HIDE DEF s
<1>5. suites \in Seq(SuiteRec) /\ DOMAIN suites = DOMAIN x.suites
      /\ \A i \in DOMAIN x.suites : suites[i] = s(i)
  <2>1. \A i \in DOMAIN x.suites : s(i) \in SuiteRec
    BY <1>4
  <2> QED BY <1>1, <2>1 DEF suites
<1>6. ASSUME NEW i, NEW n
      PROVE  IsSpot(y, i, n) <=> IsSpot(x, i, n)
  BY <1>3, <1>4, <1>5 DEF IsSpot
<1>7. ASSUME NEW i, NEW n, IsSpot(x, i, n)
      PROVE  /\ KeyAt(y, i, n) = KeyAt(x, i, n)
             /\ Disabled(y, i, n) <=> Disabled(x, i, n) \/ KeyAt(x, i, n) \notin selects
  <2>1. i \in DOMAIN x.suites /\ n \in DOMAIN x.suites[i].tests
    BY <1>7 DEF IsSpot
  <2>2. y.suites[i] = s(i)
    BY <1>3, <1>5, <2>1
  <2>3. KeyAt(y, i, n) = KeyAt(x, i, n)
    BY <1>4, <2>1, <2>2 DEF KeyAt
  <2>4. x.suites[i].data.disabled \in BOOLEAN
    <3>1. x.suites[i] \in SuiteRec
      BY <1>1, <2>1
    <3>2. x.suites[i].data \in Data
      BY <3>1 DEF SuiteRec
    <3> QED BY <3>2 DEF Data
  <2>5. Disabled(y, i, n) <=> Disabled(x, i, n) \/ KeyAt(x, i, n) \notin selects
    BY <1>4, <2>1, <2>2, <2>4 DEF Disabled, is_disabled, KeyAt
  <2> QED BY <2>3, <2>5
<1>8. y \in SetRec
  BY <1>1, <1>3, <1>5 DEF SetRec
<1>9. Sorted(y.suites)
  BY <1>3, <1>4, <1>5 DEF Sorted, Ordered
<1>10. ASSUME NEW i \in DOMAIN y.suites PROVE Sorted(y.suites[i].tests)
  <2>1. i \in DOMAIN x.suites /\ y.suites[i] = s(i) /\ Sorted(x.suites[i].tests)
    BY <1>3, <1>5 DEF Ordered
  <2> DEFINE old == x.suites[i].tests
             new == y.suites[i].tests
  <2>2. DOMAIN new = DOMAIN old /\ \A n \in DOMAIN old : new[n].name = old[n].name
    BY <1>4, <2>1
  <2>3. Sorted(old)
    BY <2>1
  <2> HIDE DEF old, new
  <2>4. Sorted(new)
    BY <2>2, <2>3 DEF Sorted
  <2> QED BY <2>4 DEF new
<1>11. Ordered(y)
  BY <1>8, <1>9, <1>10 DEF Ordered
<1> QED BY <1>6, <1>7, <1>11 DEF y

(* The tests that a set registered from its sections has enabled.          *)
LEMMA RegisteredEnabled ==
    ASSUME NEW x \in SetRec, NEW suites, NEW tests, RegisteredFrom(x, suites, tests)
    PROVE  /\ Ordered(x)
           /\ AllEnabled(x) = {k \in KeysOf(tests) : /\ ~TestOf(tests, k).disabled
                                                     /\ ~Declared(suites, k[1]).disabled}
<1>1. Ordered(x)
  BY DEF Ordered, RegisteredFrom, SuiteFrom
<1> DEFINE A == {k \in KeysOf(tests) : /\ ~TestOf(tests, k).disabled
                                       /\ ~Declared(suites, k[1]).disabled}
<1>2. ASSUME NEW i, NEW n, IsSpot(x, i, n)
      PROVE  LET k == KeyAt(x, i, n)
             IN  /\ k \in KeysOf(tests) /\ k[1] = x.suites[i].name
                 /\ Disabled(x, i, n) <=> \/ TestOf(tests, k).disabled
                                          \/ Declared(suites, k[1]).disabled
  <2> DEFINE k == KeyAt(x, i, n)
             s == x.suites[i]
  <2>1. i \in DOMAIN x.suites /\ n \in DOMAIN s.tests /\ SuiteFrom(s, suites, tests)
    BY <1>2 DEF IsSpot, RegisteredFrom
  <2>2. k = <<s.name, s.tests[n].name>> /\ s.tests[n].name \in Names(s.tests)
    BY <2>1 DEF KeyAt, Names
  <2>3. k \in KeysOf(tests) /\ k[1] = s.name
    BY <2>1, <2>2 DEF SuiteFrom, KeysOf
  <2>4. s.tests[n] = TestOf(tests, k) /\ s.data = Declared(suites, s.name)
    BY <2>1, <2>2 DEF SuiteFrom
  <2> QED BY <2>3, <2>4 DEF Disabled, is_disabled
<1>3. AllEnabled(x) \subseteq A
  <2> SUFFICES ASSUME NEW k \in Nat \X Nat, NEW i \in Nat, NEW n \in Nat,
                      IsSpot(x, i, n), k = KeyAt(x, i, n), ~Disabled(x, i, n)
               PROVE  k \in A
    BY DEF AllEnabled
  <2> QED BY <1>2
<1>4. A \subseteq AllEnabled(x)
  <2> SUFFICES ASSUME NEW k \in KeysOf(tests), ~TestOf(tests, k).disabled,
                      ~Declared(suites, k[1]).disabled
               PROVE  k \in AllEnabled(x)
    OBVIOUS
  <2>1. PICK e \in Reals(tests) : k = Key(tests[e])
    BY DEF KeysOf
  <2>2. k = <<tests[e].category, tests[e].name>> /\ k[1] = tests[e].category
    BY <2>1 DEF Key
  <2>3. k[1] \in Names(x.suites)
    BY <2>1, <2>2 DEF RegisteredFrom
  <2>4. PICK i \in DOMAIN x.suites : x.suites[i].name = k[1]
    BY <2>3 DEF Names
  <2>5. SuiteFrom(x.suites[i], suites, tests)
    BY DEF RegisteredFrom
  <2>6. k \in {<<x.suites[i].name, n>> : n \in Names(x.suites[i].tests)}
    BY <2>4, <2>5 DEF SuiteFrom, KeysOf
  <2>7. PICK n \in DOMAIN x.suites[i].tests :
            k = <<x.suites[i].name, x.suites[i].tests[n].name>>
    BY <2>6 DEF Names
  <2>8. IsSpot(x, i, n) /\ k = KeyAt(x, i, n)
    BY <2>7 DEF IsSpot, KeyAt
  <2>9. ~Disabled(x, i, n)
    BY <1>2, <2>8
  <2>10. i \in Nat /\ n \in Nat /\ k \in Nat \X Nat
    BY <1>1, <2>8, Spot
  <2> QED BY <2>8, <2>9, <2>10 DEF AllEnabled
<1> QED BY <1>1, <1>3, <1>4

----------------------------------------------------------------------------
(* The stages of a run: nothing is touched before the tests are run, and   *)
(* then the tests are those that were asked for.                           *)

Late  == {"run", "finish", "report", "gone"}
\* A run that goes on, or has come to its end.
Under == \/ pc \in {"run", "finish", "report"}
         \/ pc = "gone" /\ decision(cmd) = "run" /\ exit \in {0, 1}

\* What is said of the options is all that is seen so far.
Remark(l, fd) == fd = CR_STDERR /\ l[2] = "notice"
Hushed ==
    /\ DOMAIN term = {CR_STDOUT, CR_STDERR}
    /\ \A fd \in {CR_STDOUT, CR_STDERR} : \A l \in term[fd] : Remark(l, fd)

Untouched ==
    /\ pos = [suite |-> 1, test |-> 0]
    /\ running = {} /\ begun = {}
    /\ ts = None /\ g = ZeroGlobal /\ listed = <<>> /\ how = None
    /\ fds = Standing /\ Hushed
    /\ fs = Files /\ pend = <<>>
    /\ stopped = FALSE

Chosen == Ordered(set) /\ AllEnabled(set) = ToRun

Stage ==
    /\ pc \notin Late => Untouched
    /\ pc = "start" \/ Under => Chosen

SInv == CInv /\ Stage

\* What is left alone until the run begins.
runVars == <<pos, statVars, fds, fs, pend, stopped>>

LEMMA NoticesOnly ==
    ASSUME Hushed, fds = Standing, NEW whats, Noticed(whats)
    PROVE  Hushed'
<1> DEFINE items == {Notice(w) : w \in whats}
<1>1. \A l \in items : l[2] = "notice"
  BY DEF Notice, Line
<1> HIDE DEF items
<1>2. term' = [n \in DOMAIN term |-> IF Standing[CR_STDERR] = Terminal(n)
                                     THEN term[n] \cup items ELSE term[n]]
  BY DEF Noticed, shown, items
<1>3. Standing[CR_STDERR] = Terminal(CR_STDERR)
  BY DEF Standing, CR_STDERR, StdFd
<1>4. Terminal(CR_STDERR) # Terminal(CR_STDOUT)
  BY DEF Terminal, CR_STDERR, CR_STDOUT
<1>5. /\ DOMAIN term' = {CR_STDOUT, CR_STDERR}
      /\ term'[CR_STDOUT] = term[CR_STDOUT]
      /\ term'[CR_STDERR] = term[CR_STDERR] \cup items
  BY <1>2, <1>3, <1>4 DEF Hushed
<1>6. \A l \in term'[CR_STDERR] : Remark(l, CR_STDERR)
  BY <1>1, <1>5 DEF Hushed, Remark
<1>7. \A l \in term'[CR_STDOUT] : Remark(l, CR_STDOUT)
  BY <1>5 DEF Hushed
<1> QED BY <1>5, <1>6, <1>7 DEF Hushed, Remark

LEMMA ToRunSame ==
    ASSUME linked' = linked, cmd'.opt.pattern = cmd.opt.pattern
    PROVE  ToRun' = ToRun
BY DEF ToRun, Selected

LEMMA Turns ==
    ASSUME [SessionNext]_sessionVars, Under'
    PROVE  \/ Start
           \/ pc = "run" /\ RunTests
           \/ Under /\ Conclude
           \/ Under /\ UNCHANGED sessionVars
<1>1. CASE Prepare
  <2>1. ASSUME pc' \notin Late PROVE FALSE
    BY <2>1 DEF Under, Late
  <2>2. ~ReadSuite /\ ~ReadTest /\ ~Initialized /\ ~ReadEnvironment /\ ~ReadOutput
        /\ ~Settle
    BY <2>1 DEF ReadSuite, ReadTest, Initialized, ReadEnvironment, ReadOutput, Settle,
                Late
  <2>3. ~ReadArg /\ ~Filter
    BY <2>1 DEF ReadArg, Filter, Leave, Under, Late
  <2>4. ~Decide
    BY <2>1 DEF Decide, Leave, Under, Late
  <2> QED BY <1>1, <2>2, <2>3, <2>4 DEF Prepare
<1>2. CASE RunTests
  BY <1>2 DEF RunTests, EnterSuite, SkipDisabled, Spawn, LeaveSuite, RunEnds,
              Begin, End, AtSuite, AtTest
<1>3. CASE Conclude
  BY <1>3 DEF Conclude, Finish, WriteReport, Return, Under
<1>4. CASE UNCHANGED sessionVars
  BY <1>4 DEF sessionVars, Under
<1> QED BY <1>1, <1>2, <1>3, <1>4 DEF SessionNext, Gone

\* What the steps of a run leave alone.
LEMMA Kept ==
    /\ RunTests => /\ linked' = linked /\ set' = set /\ cmd' = cmd
                   /\ fds' = fds /\ fs' = fs /\ pend' = pend
                   /\ pc' \in {"run", "finish"}
    /\ Conclude => /\ linked' = linked /\ set' = set /\ cmd' = cmd /\ pos' = pos
                   /\ UNCHANGED statVars /\ stopped' = stopped
                   /\ pc' \in {"report", "gone"}
<1>1. RunTests => /\ linked' = linked /\ set' = set /\ cmd' = cmd
                  /\ fds' = fds /\ fs' = fs /\ pend' = pend
                  /\ pc' \in {"run", "finish"}
  BY DEF RunTests, EnterSuite, SkipDisabled, Spawn, LeaveSuite, RunEnds, Begin, End,
         AtSuite, AtTest, inputVars, outVars
<1>2. Conclude => /\ linked' = linked /\ set' = set /\ cmd' = cmd /\ pos' = pos
                  /\ UNCHANGED statVars /\ stopped' = stopped
                  /\ pc' \in {"report", "gone"}
  BY DEF Conclude, Finish, WriteReport, Return, Leave, inputVars, statVars
<1> QED BY <1>1, <1>2

LEMMA SInit == SessionInit => SInv
<1> SUFFICES ASSUME SessionInit PROVE Stage
  BY CInit DEF SInv
<1> QED BY DEF SessionInit, Stage, Untouched, Hushed, Under

LEMMA SNext == SInv /\ [SessionNext]_sessionVars => SInv'
<1> SUFFICES ASSUME SInv, [SessionNext]_sessionVars PROVE Stage'
  BY CNext DEF SInv
<1>0. CInv /\ Stage /\ CInv'
  BY CNext DEF SInv
<1>1. pc' \notin Late => Untouched'
  <2> SUFFICES ASSUME pc' \notin Late PROVE Untouched'
    OBVIOUS
  <2>1. CASE Prepare
    <3>1. pc \notin Late /\ UNCHANGED runVars
      BY <2>1 DEF Prepare, ReadSuite, ReadTest, Initialized, ReadEnvironment, ReadOutput,
             ReadArg, Settle, Decide, Filter, Start, Late, runVars, outVars, statVars,
             inputVars
    <3>2. Untouched
      BY <1>0, <3>1 DEF Stage
    <3>3. term' = term \/ \E whats : Noticed(whats)
      BY <2>1 DEF Prepare, ReadSuite, ReadTest, Initialized, ReadEnvironment, ReadOutput,
             ReadArg, Settle, Decide, Filter, Start, Late, outVars
    <3>4. Hushed'
      BY <3>2, <3>3, NoticesOnly DEF Untouched, Hushed
    <3> QED BY <3>1, <3>2, <3>4 DEF Untouched, runVars, statVars
  <2>2. CASE RunTests \/ Conclude
    BY <2>2, Kept DEF Late
  <2>3. CASE UNCHANGED sessionVars
    BY <1>0, <2>3 DEF sessionVars, Stage, Untouched, Hushed
  <2> QED BY <2>1, <2>2, <2>3 DEF SessionNext, Gone
<1>2. ASSUME Under' PROVE Chosen'
  <2>1. CASE Start
    <3>1. Chosen /\ set' = set /\ linked' = linked
          /\ cmd' = [cmd EXCEPT !.opt = debug_options(cmd.opt)]
      BY <1>0, <2>1 DEF Start, Stage, inputVars
    <3>2. IsCommand(cmd)
      BY <1>0 DEF CInv, Commanded
    <3>3. cmd'.opt.pattern = cmd.opt.pattern
      BY <3>1, <3>2, DebugKept
    <3> QED BY <3>1, <3>3, ToRunSame DEF Chosen
  <2>2. CASE (pc = "run" /\ RunTests) \/ (Under /\ Conclude)
    <3>1. Chosen /\ set' = set /\ linked' = linked /\ cmd' = cmd
      BY <1>0, <2>2, Kept DEF Stage, Under
    <3> QED BY <3>1, ToRunSame DEF Chosen
  <2>3. CASE Under /\ UNCHANGED sessionVars
    <3>1. Chosen /\ set' = set /\ linked' = linked /\ cmd' = cmd
      BY <1>0, <2>3 DEF Stage, sessionVars
    <3> QED BY <3>1, ToRunSame DEF Chosen
  <2> QED BY <1>2, <2>1, <2>2, <2>3, Turns
<1>3. ASSUME pc' = "start" PROVE Chosen'
  <2>1. CASE Filter
    <3>1. /\ pc = "filter" /\ linked' = linked /\ cmd' = cmd
      BY <2>1 DEF Filter, inputVars
    <3>2. set \in SetRec /\ RegisteredFrom(set, linked.suites, linked.tests)
      BY <1>0, <3>1 DEF CInv, RInv, Registering, Configuration
    <3>3. /\ Ordered(set)
          /\ AllEnabled(set) = {k \in KeysOf(linked.tests) :
                /\ ~TestOf(linked.tests, k).disabled
                /\ ~Declared(linked.suites, k[1]).disabled}
      BY <3>2, RegisteredEnabled
    <3>4. ToRun = {k \in AllEnabled(set) : Selected(k)}
      BY <3>3 DEF ToRun, KeysOf
    <3>5. CASE cmd.opt.pattern = NoPattern /\ set' = set
      <4>1. ToRun = AllEnabled(set)
        BY <3>4, <3>5 DEF Selected
      <4> QED BY <3>1, <3>3, <3>5, <4>1, ToRunSame DEF Chosen
    <3>6. CASE /\ cmd.opt.pattern \in DOMAIN Selects
               /\ set' = disable_unmatching(set, Selects[cmd.opt.pattern])
      <4> DEFINE S == Selects[cmd.opt.pattern]
      <4>1. cmd.opt.pattern # NoPattern
        BY <3>6, SessionAssumption
      <4>2. \A k : Selected(k) <=> k \in S
        BY <4>1 DEF Selected
      <4> HIDE DEF S
      <4>3. /\ Ordered(set')
            /\ \A i, n : IsSpot(set', i, n) <=> IsSpot(set, i, n)
            /\ \A i, n : IsSpot(set, i, n) =>
                  /\ KeyAt(set', i, n) = KeyAt(set, i, n)
                  /\ Disabled(set', i, n) <=> \/ Disabled(set, i, n)
                                              \/ KeyAt(set, i, n) \notin S
        BY <3>3, <3>6, Unmatched DEF S
      <4>4. AllEnabled(set') = {k \in AllEnabled(set) : k \in S}
        BY <4>3 DEF AllEnabled
      <4>5. AllEnabled(set') = ToRun
        BY <3>4, <4>2, <4>4
      <4> QED BY <3>1, <4>3, <4>5, ToRunSame DEF Chosen
    <3> QED BY <1>3, <2>1, <3>5, <3>6 DEF Filter, Leave
  <2>2. CASE UNCHANGED sessionVars
    <3>1. pc = "start" /\ set' = set /\ linked' = linked /\ cmd' = cmd
      BY <1>3, <2>2 DEF sessionVars
    <3>2. Chosen
      BY <1>0, <3>1 DEF Stage
    <3> QED BY <3>1, <3>2, ToRunSame DEF Chosen
  <2>3. ~RunTests /\ ~Conclude
    BY <1>3, Kept
  <2>4. ~ReadSuite /\ ~ReadTest /\ ~Initialized /\ ~ReadEnvironment /\ ~ReadOutput
        /\ ~Settle /\ ~ReadArg /\ ~Decide /\ ~Start
    BY <1>3 DEF ReadSuite, ReadTest, Initialized, ReadEnvironment, ReadOutput, Settle,
                ReadArg, Decide, Start, Leave
  <2> QED BY <2>1, <2>2, <2>3, <2>4 DEF SessionNext, Prepare, Gone
<1> QED BY <1>1, <1>2, <1>3 DEF Stage

LEMMA Staged == SessionSpec => []SInv
BY SInit, SNext, PTL DEF SessionSpec

----------------------------------------------------------------------------
(* The accounts of a run: each test that was seen is running, has ended or *)
(* was disabled, and the counters are the sizes of sets of tests.          *)

Idle    == DOMAIN ts \ (running \cup DOMAIN how)
HeardOf == DOMAIN ts \ (Ended({"stillborn"}) \cup (running \ begun))
Counted(c) == IF c = "nb_tests" THEN HeardOf
              ELSE Ended(Kinds(c)) \cup (IF c = "tests_skipped" THEN Idle ELSE {})

Accounts ==
    /\ DOMAIN pos = {"suite", "test"} /\ pos.suite \in Nat \ {0} /\ pos.test \in Nat
    /\ DOMAIN ts = Seen(set, pos) /\ IsFiniteSet(DOMAIN ts)
    /\ running \cup DOMAIN how = SeenEnabled(set, pos)
    /\ running \cap DOMAIN how = {} /\ begun \subseteq running
    /\ \A k \in running : ts[k] = FreshTest
    /\ \A k \in DOMAIN how : /\ how[k] \in EndingKind
                             /\ Judged(ts[k], VerdictOf(how[k]))
    /\ \A k \in Idle : Judged(ts[k], SKIPPED)
    /\ g \in Totals /\ \A c \in Tallied : g[c] = Cardinality(Counted(c))

AInv == SInv /\ (Under => Accounts)

LEMMA AccountSets ==
    ASSUME Accounts
    PROVE  /\ running \subseteq DOMAIN ts /\ DOMAIN how \subseteq DOMAIN ts
           /\ DOMAIN ts \subseteq Nat \X Nat
           /\ \A E : Ended(E) \subseteq DOMAIN how
           /\ \A c : Counted(c) \subseteq DOMAIN ts
           /\ \A S : S \subseteq DOMAIN ts => IsFiniteSet(S) /\ Cardinality(S) \in Nat
<1>1. SeenEnabled(set, pos) \subseteq Seen(set, pos)
  BY DEF SeenEnabled, Seen
<1>2. running \subseteq DOMAIN ts /\ DOMAIN how \subseteq DOMAIN ts
  BY <1>1 DEF Accounts
<1>3. DOMAIN ts \subseteq Nat \X Nat
  BY DEF Accounts, Seen
<1>4. \A E : Ended(E) \subseteq DOMAIN how
  BY DEF Ended
<1>5. \A c : Counted(c) \subseteq DOMAIN ts
  BY <1>2, <1>4 DEF Counted, HeardOf, Idle
<1>6. ASSUME NEW S, S \subseteq DOMAIN ts PROVE IsFiniteSet(S) /\ Cardinality(S) \in Nat
  BY <1>6, FS_Subset, FS_CardinalityType DEF Accounts
<1> QED BY <1>2, <1>3, <1>4, <1>5, <1>6

LEMMA CountsMove ==
    ASSUME Accounts, NEW K, NEW k, Adds(g, g', K),
           \A c \in Tallied : Counted(c)' = IF c \in K THEN Counted(c) \cup {k}
                                                       ELSE Counted(c),
           \A c \in Tallied : c \in K => k \notin Counted(c)
    PROVE  g' \in Totals /\ \A c \in Tallied : g'[c] = Cardinality(Counted(c)')
<1>1. ASSUME NEW c \in Tallied PROVE g'[c] = Cardinality(Counted(c)')
  <2>1. g'[c] = g[c] + (IF c \in K THEN 1 ELSE 0)
    BY DEF Adds
  <2>2. g[c] = Cardinality(Counted(c)) /\ g[c] \in Nat
    BY DEF Accounts, Totals, Tallied, GlobalCounter, SuiteCounter
  <2>3. IsFiniteSet(Counted(c))
    BY AccountSets
  <2> DEFINE S == Counted(c)
             T == Counted(c)'
  <2>4. T = IF c \in K THEN S \cup {k} ELSE S
    OBVIOUS
  <2>5. c \in K => k \notin S
    OBVIOUS
  <2>6. Cardinality(S) = g[c] /\ IsFiniteSet(S)
    BY <2>2, <2>3
  <2> HIDE DEF S, T
  <2>7. Cardinality(T) = g[c] + (IF c \in K THEN 1 ELSE 0)
    <3>1. CASE c \in K
      BY <2>2, <2>4, <2>5, <2>6, <3>1, FS_AddElement
    <3>2. CASE c \notin K
      BY <2>2, <2>4, <2>6, <3>2
    <3> QED BY <3>1, <3>2
  <2> QED BY <2>1, <2>7 DEF T
<1> QED BY <1>1 DEF Adds

LEMMA AccountsStill ==
    ASSUME Accounts, set' = set, running' = running, begun' = begun, ts' = ts,
           how' = how, DOMAIN pos' = {"suite", "test"}, pos'.suite \in Nat \ {0},
           pos'.test \in Nat, Seen(set, pos') = Seen(set, pos),
           SeenEnabled(set, pos') = SeenEnabled(set, pos),
           NEW K, Adds(g, g', K), K \cap Tallied = {}
    PROVE  Accounts'
<1>1. \A c \in Tallied : Counted(c)' = Counted(c)
  BY DEF Counted, HeardOf, Idle, Ended
<1>2. g' \in Totals /\ \A c \in Tallied : g'[c] = Cardinality(Counted(c)')
  BY <1>1, CountsMove
<1> QED BY <1>2 DEF Accounts, Idle

LEMMA NoneAdded ==
    ASSUME NEW h \in Totals
    PROVE  Adds(h, h, {})
BY DEF Adds, Totals, Tallied, GlobalCounter, SuiteCounter

LEMMA AccountsBegin ==
    ASSUME Untouched, Ordered(set), UNCHANGED <<set, pos, statVars>>
    PROVE  Accounts'
<1>1. Seen(set, pos) = {} /\ SeenEnabled(set, pos) = {}
  <2>1. ASSUME NEW i \in Nat, NEW n \in Nat, IsSpot(set, i, n) PROVE ~Before(pos, i, n)
    BY <2>1, Spot DEF Untouched, Before
  <2> QED BY <2>1 DEF Seen, SeenEnabled
<1>2. DOMAIN ts = {} /\ DOMAIN how = {} /\ running = {} /\ begun = {}
  BY DEF Untouched, None
<1>3. \A c : Counted(c) = {}
  BY <1>2 DEF Counted, HeardOf, Idle, Ended
<1>4. g \in Totals /\ \A c \in Tallied : g[c] = 0
  BY DEF Untouched, ZeroGlobal, Totals, Tallied, GlobalCounter, SuiteCounter
<1>5. \A c \in Tallied : g[c] = Cardinality(Counted(c))
  BY <1>3, <1>4, FS_EmptySet
<1>6. DOMAIN pos = {"suite", "test"} /\ pos.suite \in Nat \ {0} /\ pos.test \in Nat
  BY DEF Untouched
<1>7. IsFiniteSet(DOMAIN ts)
  BY <1>2, FS_EmptySet
<1>8. Accounts
  BY <1>1, <1>2, <1>4, <1>5, <1>6, <1>7 DEF Accounts, Idle
<1> QED BY <1>8 DEF Accounts, statVars, Idle, Counted, HeardOf, Ended

(* The steps between suites, at which no test is seen.                     *)
LEMMA AccountsBetween ==
    ASSUME Accounts, Ordered(set), EnterSuite \/ LeaveSuite
    PROVE  Accounts'
<1>1. DOMAIN pos = {"suite", "test"} /\ pos.suite \in Nat \ {0} /\ pos.test \in Nat
      /\ g \in Totals
  BY DEF Accounts
<1>2. /\ set' = set /\ running' = running /\ begun' = begun /\ ts' = ts /\ how' = how
  BY DEF EnterSuite, LeaveSuite, statVars
<1>3. ASSUME \A i, n \in Nat : IsSpot(set, i, n) =>
                 (Before(pos', i, n) <=> Before(pos, i, n))
      PROVE  Seen(set, pos') = Seen(set, pos)
             /\ SeenEnabled(set, pos') = SeenEnabled(set, pos)
  BY <1>3, SeenSame
<1>4. CASE LeaveSuite \/ (EnterSuite /\ suite.tests = <<>>)
  <2>1. /\ pos' = [suite |-> pos.suite + 1, test |-> 0] /\ g' = g
        /\ \A n \in DOMAIN suite.tests : n < pos.test
    <3>1. CASE LeaveSuite
      <4>1. pos' = [suite |-> pos.suite + 1, test |-> 0] /\ g' = g
            /\ pos.suite <= Len(set.suites) /\ pos.test > Len(suite.tests)
        BY <3>1 DEF LeaveSuite, NextSuite, statVars
      <4>2. ASSUME NEW n \in DOMAIN suite.tests PROVE n < pos.test
        <5>1. CASE pos.suite \in DOMAIN set.suites
          <6>1. IsSpot(set, pos.suite, n)
            BY <4>2, <5>1 DEF IsSpot, suite
          <6>2. n \in 1 .. Len(suite.tests) /\ Len(suite.tests) \in Nat
            BY <6>1, Spot DEF suite
          <6> QED BY <1>1, <4>1, <6>2
        <5>2. CASE pos.suite \notin DOMAIN set.suites
          <6>1. set.suites \in Seq(SuiteRec)
            BY DEF Ordered, SetRec
          <6> QED BY <1>1, <4>1, <5>2, <6>1
        <5> QED BY <5>1, <5>2
      <4> QED BY <4>1, <4>2
    <3>2. CASE EnterSuite /\ suite.tests = <<>>
      BY <3>2 DEF EnterSuite, NextSuite
    <3> QED BY <1>4, <3>1, <3>2
  <2>2. ASSUME NEW i \in Nat, NEW n \in Nat, IsSpot(set, i, n)
        PROVE  Before(pos', i, n) <=> Before(pos, i, n)
    <3>1. i = pos.suite => n < pos.test
      BY <2>1, <2>2 DEF IsSpot, suite
    <3> QED BY <1>1, <2>1, <3>1 DEF Before
  <2>3. DOMAIN pos' = {"suite", "test"} /\ pos'.suite \in Nat \ {0} /\ pos'.test \in Nat
    BY <1>1, <2>1
  <2>4. Adds(g, g', {})
    BY <1>1, <2>1, NoneAdded
  <2> QED BY <1>2, <1>3, <2>2, <2>3, <2>4, AccountsStill
<1>5. CASE EnterSuite /\ suite.tests # <<>>
  <2>1. /\ pos' = [pos EXCEPT !.test = @ + 1] /\ pos.test = 0
        /\ g' = Count(g, {"nb_suites"}, 1)
    BY <1>5 DEF EnterSuite, NextTest, AtSuite
  <2>2. pos'.suite = pos.suite /\ pos'.test = 1 /\ DOMAIN pos' = {"suite", "test"}
    BY <1>1, <2>1
  <2>3. ASSUME NEW i \in Nat, NEW n \in Nat, IsSpot(set, i, n)
        PROVE  Before(pos', i, n) <=> Before(pos, i, n)
    <3>1. n \in 1 .. Len(set.suites[i].tests) /\ Len(set.suites[i].tests) \in Nat
      BY <2>3, Spot
    <3> QED BY <1>1, <2>1, <2>2, <3>1 DEF Before
  <2>4. Adds(g, g', {"nb_suites"}) /\ {"nb_suites"} \cap Tallied = {}
    BY <1>1, <2>1, CountAdds DEF Tallied
  <2>5. pos'.suite \in Nat \ {0} /\ pos'.test \in Nat
    BY <1>1, <2>2
  <2> QED BY <1>2, <1>3, <2>2, <2>3, <2>4, <2>5, AccountsStill
<1> QED BY <1>4, <1>5

(* The test at which the coroutine is.                                     *)
LEMMA AtSpot ==
    ASSUME Accounts, Ordered(set), AtTest
    PROVE  /\ IsSpot(set, pos.suite, pos.test)
           /\ key = KeyAt(set, pos.suite, pos.test)
           /\ is_disabled(suite, test) <=> Disabled(set, pos.suite, pos.test)
<1>1. set.suites \in Seq(SuiteRec) /\ pos.suite \in Nat \ {0}
  BY DEF Ordered, SetRec, Accounts
<1>2. pos.suite \in DOMAIN set.suites
  BY <1>1 DEF AtTest
<1> QED BY <1>2 DEF AtTest, IsSpot, KeyAt, Disabled, key, suite, test

LEMMA AccountsSkip ==
    ASSUME Accounts, Ordered(set), SkipDisabled
    PROVE  Accounts' /\ HeardOf' = HeardOf \cup {key} /\ key \notin HeardOf
<1>1. /\ pos' = [pos EXCEPT !.test = @ + 1] /\ AtTest /\ is_disabled(suite, test)
      /\ ts' = With(ts, key, [FreshTest EXCEPT !.test_status = SKIPPED])
      /\ g' = Count(g, PreInitCounts([FreshTest EXCEPT !.test_status = SKIPPED]), 1)
      /\ set' = set /\ running' = running /\ begun' = begun /\ how' = how
  BY DEF SkipDisabled, NextTest
<1>2. DOMAIN pos = {"suite", "test"} /\ pos.suite \in Nat \ {0} /\ pos.test \in Nat
      /\ g \in Totals
  BY DEF Accounts
<1>3. pos'.suite = pos.suite /\ pos'.test = pos.test + 1
      /\ DOMAIN pos' = {"suite", "test"}
  BY <1>1, <1>2
<1>4. PICK k : k = key
  OBVIOUS
<1>5. /\ k \in Nat \X Nat /\ k \notin Seen(set, pos)
      /\ Seen(set, pos') = Seen(set, pos) \cup {k}
      /\ SeenEnabled(set, pos') = SeenEnabled(set, pos)
  BY <1>1, <1>3, <1>4, AtSpot, SeenMore
<1>6. [FreshTest EXCEPT !.test_status = SKIPPED].test_status = SKIPPED
  BY DEF FreshTest
<1>7. Adds(g, g', {"nb_tests", "tests_skipped"})
  <2>1. PreInitCounts([FreshTest EXCEPT !.test_status = SKIPPED])
          = {"nb_tests", "tests_skipped"}
    BY <1>6 DEF PreInitCounts
  <2> QED BY <1>1, <1>2, <2>1, CountAdds
<1>8. /\ DOMAIN ts' = DOMAIN ts \cup {k} /\ Judged(ts'[k], SKIPPED)
      /\ \A x \in DOMAIN ts : ts'[x] = ts[x]
  <2>1. Judged([FreshTest EXCEPT !.test_status = SKIPPED], SKIPPED)
    BY DEF Judged, FreshTest
  <2>2. k \notin DOMAIN ts
    BY <1>5 DEF Accounts
  <2> DEFINE t == [FreshTest EXCEPT !.test_status = SKIPPED]
  <2>3. ts' = With(ts, k, t)
    BY <1>1, <1>4
  <2> HIDE DEF t
  <2>4. DOMAIN ts' = DOMAIN ts \cup {k} /\ ts'[k] = t
        /\ \A x \in DOMAIN ts : ts'[x] = ts[x]
    BY <2>2, <2>3 DEF With
  <2> QED BY <2>1, <2>4 DEF t
<1>9. k \notin DOMAIN ts /\ k \notin running /\ k \notin DOMAIN how
  BY <1>5, AccountSets DEF Accounts
<1>10. Idle' = Idle \cup {k} /\ HeardOf' = HeardOf \cup {k}
  BY <1>1, <1>8, <1>9 DEF Idle, HeardOf, Ended
<1>11. ASSUME NEW c \in Tallied
       PROVE  /\ Counted(c)' = IF c \in {"nb_tests", "tests_skipped"}
                               THEN Counted(c) \cup {k} ELSE Counted(c)
              /\ k \notin Counted(c)
  <2>1. k \notin Counted(c)
    BY <1>9, AccountSets
  <2>2. \A E : Ended(E)' = Ended(E)
    BY <1>1 DEF Ended
  <2>3. CASE c = "nb_tests"
    BY <1>10, <2>1, <2>3 DEF Counted
  <2>4. CASE c = "tests_skipped"
    BY <1>10, <2>1, <2>2, <2>4 DEF Counted
  <2>5. CASE c \notin {"nb_tests", "tests_skipped"}
    BY <2>1, <2>2, <2>5 DEF Counted
  <2> QED BY <2>3, <2>4, <2>5
<1>12. g' \in Totals /\ \A c \in Tallied : g'[c] = Cardinality(Counted(c)')
  BY <1>7, <1>11, CountsMove
<1>13. IsFiniteSet(DOMAIN ts')
  BY <1>8, FS_AddElement DEF Accounts
<1>14. \A x \in running \cup DOMAIN how : x \in DOMAIN ts
  BY AccountSets
<1>15. \A x \in Idle' : Judged(ts'[x], SKIPPED)
  BY <1>8, <1>10 DEF Accounts, Idle
<1>16. DOMAIN ts' = Seen(set, pos') /\ running' \cup DOMAIN how' = SeenEnabled(set, pos')
  BY <1>1, <1>5, <1>8 DEF Accounts
<1>17. /\ \A x \in running : ts'[x] = FreshTest
       /\ \A x \in DOMAIN how : Judged(ts'[x], VerdictOf(how[x]))
  BY <1>8, <1>14 DEF Accounts
<1>20. Accounts'
  BY <1>1, <1>2, <1>3, <1>12, <1>13, <1>15, <1>16, <1>17 DEF Accounts
<1> QED BY <1>4, <1>9, <1>10, <1>20 DEF HeardOf

LEMMA AccountsSpawn ==
    ASSUME Accounts, Ordered(set), Spawn
    PROVE  Accounts' /\ HeardOf' = HeardOf
<1>1. /\ pos' = [pos EXCEPT !.test = @ + 1] /\ AtTest /\ ~is_disabled(suite, test)
      /\ ts' = With(ts, key, FreshTest) /\ running' = running \cup {key}
      /\ g' = g /\ set' = set /\ begun' = begun /\ how' = how
  BY DEF Spawn, NextTest
<1>2. DOMAIN pos = {"suite", "test"} /\ pos.suite \in Nat \ {0} /\ pos.test \in Nat
      /\ g \in Totals
  BY DEF Accounts
<1>3. pos'.suite = pos.suite /\ pos'.test = pos.test + 1
      /\ DOMAIN pos' = {"suite", "test"}
  BY <1>1, <1>2
<1>4. PICK k : k = key
  OBVIOUS
<1>5. /\ k \in Nat \X Nat /\ k \notin Seen(set, pos)
      /\ Seen(set, pos') = Seen(set, pos) \cup {k}
      /\ SeenEnabled(set, pos') = SeenEnabled(set, pos) \cup {k}
  BY <1>1, <1>3, <1>4, AtSpot, SeenMore
<1>7. Adds(g, g', {})
  BY <1>1, <1>2, NoneAdded
<1>9. k \notin DOMAIN ts /\ k \notin running /\ k \notin DOMAIN how /\ k \notin begun
  BY <1>5, AccountSets DEF Accounts
<1>8. /\ DOMAIN ts' = DOMAIN ts \cup {k} /\ ts'[k] = FreshTest
      /\ \A x \in DOMAIN ts : ts'[x] = ts[x]
  BY <1>1, <1>4, <1>9 DEF With
<1>10. Idle' = Idle /\ HeardOf' = HeardOf
  BY <1>1, <1>4, <1>8, <1>9 DEF Idle, HeardOf, Ended
<1>11. \A c \in Tallied : Counted(c)' = Counted(c)
  BY <1>1, <1>10 DEF Counted, Ended
<1>12. g' \in Totals /\ \A c \in Tallied : g'[c] = Cardinality(Counted(c)')
  BY <1>7, <1>11, CountsMove
<1>13. IsFiniteSet(DOMAIN ts')
  BY <1>8, FS_AddElement DEF Accounts
<1>14. \A x \in running \cup DOMAIN how : x \in DOMAIN ts
  BY AccountSets
<1>15. \A x \in Idle' : Judged(ts'[x], SKIPPED)
  BY <1>8, <1>10 DEF Accounts, Idle
<1>16. DOMAIN ts' = Seen(set, pos') /\ running' \cup DOMAIN how' = SeenEnabled(set, pos')
  BY <1>1, <1>4, <1>5, <1>8 DEF Accounts
<1>17. /\ \A x \in running' : ts'[x] = FreshTest
       /\ \A x \in DOMAIN how : Judged(ts'[x], VerdictOf(how[x]))
  BY <1>1, <1>4, <1>8, <1>14 DEF Accounts
<1>18. running' \cap DOMAIN how' = {} /\ begun' \subseteq running'
  BY <1>1, <1>4, <1>9 DEF Accounts
<1>20. Accounts'
  BY <1>1, <1>2, <1>3, <1>12, <1>13, <1>15, <1>16, <1>17, <1>18 DEF Accounts
<1> QED BY <1>10, <1>20

\* What the handlers are given for a test.
LEMMA ViewOf ==
    ASSUME NEW k
    PROVE  /\ DOMAIN view(k) = ViewFields /\ view(k).state = CS_SETUP
           /\ view(k).t = ts[k] /\ view(k).g = g
BY DEF view, ViewFields

LEMMA TestSet ==
    ASSUME NEW k \in DOMAIN ts, NEW t, ts' = [ts EXCEPT ![k] = t]
    PROVE  /\ DOMAIN ts' = DOMAIN ts /\ ts'[k] = t
           /\ \A x \in DOMAIN ts : x # k => ts'[x] = ts[x]
OBVIOUS

LEMMA AccountsSetup ==
    ASSUME Accounts, NEW k, Begin(k)
    PROVE  Accounts' /\ HeardOf' = HeardOf \cup {k} /\ k \notin HeardOf
<1> DEFINE w == handle_pre_init(view(k))
<1>1. /\ k \in running \ begun /\ begun' = begun \cup {k}
      /\ ts' = [ts EXCEPT ![k] = w.t] /\ g' = w.g
      /\ set' = set /\ pos' = pos /\ running' = running /\ how' = how
  BY DEF Begin, Viewed
<1>2. DOMAIN view(k) = ViewFields /\ view(k).t = FreshTest /\ view(k).g = g
      /\ view(k).state = 0 /\ g \in Totals
  BY <1>1, ViewOf DEF Accounts, CS_SETUP
<1>3. w = push_pre_init(view(k))
  BY <1>2 DEF handle_pre_init
<1> HIDE DEF w
<1>4. Moved(view(k), w, FreshTest, PreInitCounts(FreshTest))
  BY <1>2, <1>3, PushesMove
<1>5. PreInitCounts(FreshTest) = {"nb_tests"}
  BY DEF PreInitCounts, FreshTest, PASSED, SKIPPED
<1>6. w.t = FreshTest /\ Adds(g, w.g, {"nb_tests"})
  BY <1>2, <1>4, <1>5, MovedAdds
<1>7. k \in DOMAIN ts /\ ts[k] = FreshTest /\ k \notin DOMAIN how
  BY <1>1, AccountSets DEF Accounts
<1>8. DOMAIN ts' = DOMAIN ts /\ ts'[k] = FreshTest
      /\ \A x \in DOMAIN ts : x # k => ts'[x] = ts[x]
  BY <1>1, <1>6, <1>7, TestSet
<1>9. \A x \in DOMAIN ts : ts'[x] = ts[x]
  BY <1>7, <1>8
<1>10. \A E : Ended(E)' = Ended(E)
  BY <1>1 DEF Ended
<1>11. Idle' = Idle /\ HeardOf' = HeardOf \cup {k} /\ k \notin HeardOf
  BY <1>1, <1>7, <1>8, <1>10 DEF Idle, HeardOf, Ended
<1>12. ASSUME NEW c \in Tallied
       PROVE  /\ Counted(c)' = IF c \in {"nb_tests"} THEN Counted(c) \cup {k} ELSE Counted(c)
              /\ c \in {"nb_tests"} => k \notin Counted(c)
  BY <1>10, <1>11 DEF Counted
<1>13. g' \in Totals /\ \A c \in Tallied : g'[c] = Cardinality(Counted(c)')
  BY <1>1, <1>6, <1>12, CountsMove
<1>14. \A x \in running \cup DOMAIN how : x \in DOMAIN ts
  BY AccountSets
<1>15. /\ \A x \in running : ts'[x] = FreshTest
       /\ \A x \in DOMAIN how : Judged(ts'[x], VerdictOf(how[x]))
       /\ \A x \in Idle' : Judged(ts'[x], SKIPPED)
  BY <1>9, <1>11, <1>14 DEF Accounts, Idle
<1>16. begun' \subseteq running
  BY <1>1 DEF Accounts
<1>20. Accounts'
  BY <1>1, <1>8, <1>13, <1>15, <1>16 DEF Accounts
<1> QED BY <1>11, <1>20

LEMMA AccountsEnd ==
    ASSUME Accounts, NEW k, NEW end, End(k, end)
    PROVE  Accounts' /\ HeardOf' = HeardOf
<1> DEFINE w == ended(view(k), end)
           K == {c \in Tallied : end \in Kinds(c)}
<1>1. /\ k \in running /\ end \in Endings /\ (end = "stillborn" <=> k \notin begun)
      /\ running' = running \ {k} /\ begun' = begun \ {k} /\ how' = With(how, k, end)
      /\ ts' = [ts EXCEPT ![k] = w.t] /\ g' = w.g
      /\ set' = set /\ pos' = pos
  BY DEF End, Viewed
<1>2. DOMAIN view(k) = ViewFields /\ view(k).t = FreshTest /\ view(k).g = g
      /\ g \in Totals /\ end \in EndingKind
  BY <1>1, ViewOf, SessionAssumption DEF Accounts
<1>3. Judged(w.t, VerdictOf(end)) /\ Adds(g, w.g, K)
  BY <1>2, Ending
<1> HIDE DEF w
<1>4. k \in DOMAIN ts /\ k \notin DOMAIN how /\ begun \subseteq running
  BY <1>1, AccountSets DEF Accounts
<1>5. DOMAIN ts' = DOMAIN ts /\ Judged(ts'[k], VerdictOf(end))
      /\ \A x \in DOMAIN ts : x # k => ts'[x] = ts[x]
  BY <1>1, <1>3, <1>4, TestSet
<1>6. DOMAIN how' = DOMAIN how \cup {k} /\ how'[k] = end
      /\ \A x \in DOMAIN how : how'[x] = how[x]
  BY <1>1, <1>4 DEF With
<1>7. ASSUME NEW E
      PROVE  Ended(E)' = (IF end \in E THEN Ended(E) \cup {k} ELSE Ended(E))
  BY <1>6, <1>4 DEF Ended
<1>8. Idle' = Idle
  BY <1>1, <1>5, <1>6 DEF Idle
<1>9. HeardOf' = HeardOf
  <2>1. Ended({"stillborn"})' = IF end = "stillborn" THEN Ended({"stillborn"}) \cup {k}
                                ELSE Ended({"stillborn"})
    BY <1>7
  <2>2. Ended({"stillborn"})' \cup (running' \ begun')
          = Ended({"stillborn"}) \cup (running \ begun)
    <3>1. CASE end = "stillborn"
      BY <1>1, <1>4, <2>1, <3>1
    <3>2. CASE end # "stillborn"
      BY <1>1, <1>4, <2>1, <3>2
    <3> QED BY <3>1, <3>2
  <2> QED BY <1>5, <2>2 DEF HeardOf
<1>10. ASSUME NEW c \in Tallied
       PROVE  /\ Counted(c)' = IF c \in K THEN Counted(c) \cup {k} ELSE Counted(c)
              /\ c \in K => k \notin Counted(c)
  <2>1. CASE c = "nb_tests"
    <3>1. c \notin K
      BY <2>1 DEF Kinds
    <3> QED BY <1>9, <2>1, <3>1 DEF Counted
  <2>2. CASE c # "nb_tests"
    <3> DEFINE E == Kinds(c)
               D == IF c = "tests_skipped" THEN Idle ELSE {}
    <3>1. Counted(c) = Ended(E) \cup D
      BY <2>2 DEF Counted
    <3>2. Counted(c)' = Ended(E)' \cup D
      BY <1>8, <2>2 DEF Counted
    <3>3. c \in K <=> end \in E
      OBVIOUS
    <3>4. k \notin Ended(E) /\ k \notin D
      BY <1>1, <1>4 DEF Ended, Idle
    <3>5. Ended(E)' = (IF end \in E THEN Ended(E) \cup {k} ELSE Ended(E))
      BY <1>7
    <3> HIDE DEF E, D, K
    <3> QED BY <3>1, <3>2, <3>3, <3>4, <3>5
  <2> QED BY <2>1, <2>2
<1> HIDE DEF K
<1>11. g' \in Totals /\ \A c \in Tallied : g'[c] = Cardinality(Counted(c)')
  BY <1>1, <1>3, <1>10, CountsMove
<1>12. \A x \in running \cup DOMAIN how : x \in DOMAIN ts
  BY AccountSets
<1>13. \A x \in running' : ts'[x] = FreshTest
  BY <1>1, <1>5, <1>12 DEF Accounts
<1>14. \A x \in DOMAIN how' : how'[x] \in EndingKind /\ Judged(ts'[x], VerdictOf(how'[x]))
  <2> SUFFICES ASSUME NEW x \in DOMAIN how'
               PROVE  how'[x] \in EndingKind /\ Judged(ts'[x], VerdictOf(how'[x]))
    OBVIOUS
  <2>1. CASE x = k
    BY <1>2, <1>5, <1>6, <2>1
  <2>2. CASE x # k
    <3>1. x \in DOMAIN how /\ x \in DOMAIN ts
      BY <1>6, <1>12, <2>2
    <3> QED BY <1>5, <1>6, <2>2, <3>1 DEF Accounts
  <2> QED BY <2>1, <2>2
<1>15. \A x \in Idle' : Judged(ts'[x], SKIPPED)
  <2>1. \A x \in Idle : x \in DOMAIN ts /\ x # k
    BY <1>1 DEF Idle
  <2> QED BY <1>5, <1>8, <2>1 DEF Accounts
<1>16. running' \cup DOMAIN how' = running \cup DOMAIN how
  BY <1>1, <1>6
<1>17. running' \cap DOMAIN how' = {} /\ begun' \subseteq running'
  BY <1>1, <1>6 DEF Accounts
<1>20. Accounts'
  BY <1>1, <1>5, <1>11, <1>13, <1>14, <1>15, <1>16, <1>17 DEF Accounts
<1> QED BY <1>9, <1>20

LEMMA AccountsUnmoved ==
    ASSUME Accounts, UNCHANGED <<set, pos, statVars>>
    PROVE  Accounts'
BY DEF Accounts, statVars, Idle, Counted, HeardOf, Ended

LEMMA AInit == SessionInit => AInv
BY SInit DEF AInv, SessionInit, Under

LEMMA ANext == AInv /\ [SessionNext]_sessionVars => AInv'
<1> SUFFICES ASSUME AInv, [SessionNext]_sessionVars, Under' PROVE Accounts'
  BY SNext DEF AInv
<1>1. SInv /\ (Under => Accounts) /\ (Under => Ordered(set))
  BY DEF AInv, SInv, Stage, Chosen
<1>2. CASE Start
  <2>1. Untouched /\ Ordered(set) /\ UNCHANGED <<set, pos, statVars>>
    BY <1>1, <1>2 DEF Start, SInv, Stage, Late, Chosen
  <2> QED BY <2>1, AccountsBegin
<1>3. CASE pc = "run" /\ RunTests
  <2>1. Accounts /\ Ordered(set)
    BY <1>1, <1>3 DEF Under
  <2>2. CASE EnterSuite \/ LeaveSuite
    BY <2>1, <2>2, AccountsBetween
  <2>3. CASE RunEnds
    BY <2>1, <2>3, AccountsUnmoved DEF RunEnds
  <2>4. CASE \E k \in running : Begin(k) \/ \E end \in Endings : End(k, end)
    BY <2>1, <2>4, AccountsSetup, AccountsEnd
  <2> QED BY <1>3, <2>1, <2>2, <2>3, <2>4, AccountsSkip, AccountsSpawn DEF RunTests
<1>4. CASE Under /\ Conclude
  BY <1>1, <1>4, Kept, AccountsUnmoved
<1>5. CASE Under /\ UNCHANGED sessionVars
  BY <1>1, <1>5, AccountsUnmoved DEF sessionVars, statVars
<1> QED BY <1>2, <1>3, <1>4, <1>5, Turns

LEMMA Accounted == SessionSpec => []AInv
BY AInit, ANext, PTL DEF SessionSpec

----------------------------------------------------------------------------
(* The end of a run, and its exit status.                                  *)

Ends ==
    /\ pc = "run" => ~stopped
    /\ pc # "run" /\ ~stopped => running = {} /\ pos.suite > Len(set.suites)
    /\ pc = "gone" => exit = status

EInv == AInv /\ (Under => Ends)

LEMMA EInit == SessionInit => EInv
BY AInit DEF EInv, SessionInit, Under

LEMMA ENext == EInv /\ [SessionNext]_sessionVars => EInv'
<1> SUFFICES ASSUME EInv, [SessionNext]_sessionVars, Under' PROVE Ends'
  BY ANext DEF EInv
<1>1. AInv /\ (Under => Ends)
  BY DEF EInv
<1>2. CASE Start
  <2>1. stopped = FALSE /\ stopped' = stopped /\ pc' = "run"
    BY <1>1, <1>2 DEF Start, AInv, SInv, Stage, Untouched, Late
  <2> QED BY <2>1 DEF Ends
<1>3. CASE pc = "run" /\ RunTests
  <2>1. ~stopped /\ set' = set /\ pc' \in {"run", "finish"}
    BY <1>1, <1>3, Kept DEF Ends, Under
  <2>2. CASE EnterSuite \/ SkipDisabled \/ Spawn \/ LeaveSuite \/ \E k \in running : Begin(k)
    <3>1. pc' = "run" /\ stopped' = stopped
      BY <1>3, <2>2 DEF EnterSuite, SkipDisabled, Spawn, LeaveSuite, Begin, outVars
    <3> QED BY <2>1, <3>1 DEF Ends
  <2>3. CASE \E k \in running : \E end \in Endings : End(k, end)
    <3>1. (pc' = "finish" /\ stopped' = TRUE) \/ (pc' = "run" /\ stopped' = stopped)
      BY <1>3, <2>3 DEF End
    <3> QED BY <2>1, <3>1 DEF Ends
  <2>4. CASE RunEnds
    <3>1. pc' = "finish" /\ running' = running /\ running = {} /\ pos' = pos
          /\ pos.suite > Len(set.suites)
      BY <2>4 DEF RunEnds, statVars
    <3> QED BY <2>1, <3>1 DEF Ends
  <2> QED BY <1>3, <2>2, <2>3, <2>4 DEF RunTests
<1>4. CASE Under /\ Conclude
  <2>1. /\ set' = set /\ cmd' = cmd /\ pos' = pos /\ g' = g /\ running' = running
        /\ stopped' = stopped /\ pc' \in {"report", "gone"} /\ pc # "run"
    BY <1>4, Kept DEF statVars, Conclude, Finish, WriteReport, Return
  <2>2. status' = status
    BY <2>1 DEF status, run_ok
  <2>3. pc' = "gone" => exit' = status
    BY <1>4 DEF Conclude, Finish, WriteReport, Return, Leave
  <2>4. ~stopped => running = {} /\ pos.suite > Len(set.suites)
    BY <1>1, <1>4, <2>1 DEF Ends
  <2> QED BY <2>1, <2>2, <2>3, <2>4 DEF Ends
<1>5. CASE Under /\ UNCHANGED sessionVars
  <2>1. /\ set' = set /\ cmd' = cmd /\ pos' = pos /\ g' = g /\ running' = running
        /\ stopped' = stopped /\ pc' = pc /\ exit' = exit
    BY <1>5 DEF sessionVars
  <2>2. status' = status
    BY <2>1 DEF status, run_ok
  <2> QED BY <1>1, <1>5, <2>1, <2>2 DEF Ends
<1> QED BY <1>2, <1>3, <1>4, <1>5, Turns

LEMMA ToTheEnd == SessionSpec => []EInv
BY EInit, ENext, PTL DEF SessionSpec

(* A run that was not stopped has seen and ended every test that is to run.*)
LEMMA AllEnded ==
    ASSUME EInv, Under, pc # "run", ~stopped
    PROVE  running = {} /\ begun = {} /\ DOMAIN how = ToRun
<1>1. Accounts /\ running = {} /\ pos.suite > Len(set.suites)
  BY DEF EInv, AInv, Ends
<1>2. Ordered(set) /\ AllEnabled(set) = ToRun
  BY DEF EInv, AInv, SInv, Stage, Chosen
<1>3. ASSUME NEW i \in Nat, NEW n \in Nat, IsSpot(set, i, n) PROVE Before(pos, i, n)
  <2>1. i \in 1 .. Len(set.suites) /\ Len(set.suites) \in Nat /\ pos.suite \in Nat
    BY <1>1, <1>2, <1>3, Spot DEF Accounts
  <2> QED BY <1>1, <2>1 DEF Before
<1>4. SeenEnabled(set, pos) = AllEnabled(set)
  BY <1>3 DEF SeenEnabled, AllEnabled
<1> QED BY <1>1, <1>2, <1>4 DEF Accounts

LEMMA StatusTells == EInv => ExitStatus
<1> SUFFICES ASSUME EInv, Complete PROVE ExitStatus
  BY DEF ExitStatus
<1>1. Under /\ pc = "gone" /\ ~stopped
  BY DEF Complete, Under
<1>2. DOMAIN how = ToRun
  BY <1>1, AllEnded
<1>3. Accounts /\ exit = status
  BY <1>1 DEF EInv, AInv, Ends
<1>4. ASSUME NEW c \in {"tests_failed", "errors", "warnings"}
      PROVE  g[c] = 0 <=> \A k \in DOMAIN how : how[k] \notin Kinds(c)
  <2>1. c \in Tallied /\ Counted(c) = Ended(Kinds(c))
    BY DEF Tallied, Counted
  <2>2. g[c] = Cardinality(Ended(Kinds(c)))
    BY <1>3, <2>1 DEF Accounts
  <2>3. IsFiniteSet(Ended(Kinds(c)))
    BY <1>3, <2>1, AccountSets
  <2>4. g[c] = 0 <=> Ended(Kinds(c)) = {}
    BY <2>2, <2>3, FS_EmptySet
  <2> QED BY <2>4 DEF Ended
<1>5. /\ g["tests_failed"] = 0 <=> \A k \in DOMAIN how : how[k] \notin FailedEnds
      /\ g["errors"] = 0 <=> \A k \in DOMAIN how : how[k] # "error"
      /\ g["warnings"] = 0 <=> \A k \in DOMAIN how : how[k] \notin {"late crash", "stillborn"}
  BY <1>4 DEF Kinds
<1>6. /\ \A k : how[k] \notin Failing <=> how[k] \notin FailedEnds /\ how[k] # "error"
      /\ \A k : how[k] = "stillborn" => how[k] \in FailedEnds
  BY DEF Failing, FailedEnds
<1>7. run_ok <=> \A k \in DOMAIN how : /\ how[k] \notin Failing
                                       /\ how[k] = "late crash" => cmd.opt.ignore_warnings
  BY <1>5, <1>6 DEF run_ok
<1>8. exit = 0 <=> cmd.opt.always_succeed \/ run_ok
  BY <1>1, <1>3 DEF status
<1> QED BY <1>2, <1>7, <1>8 DEF ExitStatus

(* A run that was completed has run the tests that the sections give and   *)
(* the filter leaves, and its exit status tells whether one failed, for    *)
(* any program, command line and filter and however the tests end:         *)
(* criterion_run_all_tests, main.                                          *)
THEOREM ExitStatusAlways == SessionSpec => []ExitStatus
BY ToTheEnd, StatusTells, PTL

----------------------------------------------------------------------------
(* What is seen of the tests that fail.                                    *)

Loud == Failing \cup {"late crash"}
Visible ==
    cmd.opt.logging_threshold <= IMPORTANT =>
        /\ fds = Standing /\ DOMAIN term = {CR_STDOUT, CR_STDERR}
        /\ \A k \in DOMAIN how : how[k] \in Loud =>
              \E l \in term[CR_STDERR] : Tells(l, k, how[k])

VInv == EInv /\ (Under => Visible)

\* What has been seen stays.
Grown(seen, more) ==
    DOMAIN more = DOMAIN seen /\ \A n \in DOMAIN seen : seen[n] \subseteq more[n]

LEMMA ShownGrows ==
    ASSUME NEW seen, NEW f, NEW fd, NEW items
    PROVE  Grown(seen, shown(seen, f, fd, items))
BY DEF Grown, shown

LEMMA GrowsOn ==
    ASSUME NEW seen, NEW more, NEW f, NEW fd, NEW items, Grown(seen, more)
    PROVE  Grown(seen, shown(more, f, fd, items))
BY DEF Grown, shown

LEMMA LoggedGrows ==
    ASSUME NEW seen, NEW more, Grown(seen, more), NEW f, NEW o, NEW lines
    PROVE  Grown(seen, logged(more, f, o, lines))
BY GrowsOn DEF logged

LEMMA LoggedShows ==
    ASSUME NEW seen, DOMAIN seen = {CR_STDOUT, CR_STDERR}, NEW o,
           o.logging_threshold <= IMPORTANT, NEW lines, NEW l \in lines, l[1] = IMPORTANT
    PROVE  l \in logged(seen, Standing, o, lines)[CR_STDERR]
<1>1. l \in printed(lines, o.logging_threshold)
  BY DEF printed
<1>2. Standing[CR_STDERR] = Terminal(CR_STDERR)
  BY DEF Standing, CR_STDERR, StdFd
<1> QED BY <1>1, <1>2 DEF logged, shown

LEMMA EndLines ==
    ASSUME NEW k, NEW t, NEW end \in Loud, Judged(t, VerdictOf(end))
    PROVE  \E l \in end_lines(k, t, end) : Tells(l, k, end)
<1>1. ASSUME NEW what, end # "error" PROVE Tells(Line(IMPORTANT, what, k), k, end)
  BY <1>1 DEF Line, Tells
<1>2. CASE end \in {"no signal", "fail"}
  <2>1. t.test_status = FAILED
    BY <1>2 DEF Judged, VerdictOf, FailedEnds
  <2>2. Line(IMPORTANT, "fail", k) \in end_lines(k, t, end)
    BY <1>2, <2>1 DEF end_lines, normal_log_post_test, FAILED, SKIPPED
  <2> QED BY <1>1, <1>2, <2>2
<1>3. CASE end = "crash"
  <2>1. Line(IMPORTANT, "crash", k) \in end_lines(k, t, end)
    BY <1>3 DEF end_lines, normal_log_test_crash
  <2> QED BY <1>1, <1>3, <2>1
<1>4. CASE end = "timeout"
  <2>1. Line(IMPORTANT, "timed out", k) \in end_lines(k, t, end)
    BY <1>4 DEF end_lines, normal_log_test_timeout
  <2> QED BY <1>1, <1>4, <2>1
<1>5. CASE end = "error"
  <2>1. Line(IMPORTANT, "ERROR", Run) \in end_lines(k, t, end)
    BY <1>5 DEF end_lines, normal_log_message, log_level
  <2>2. Tells(Line(IMPORTANT, "ERROR", Run), k, end)
    BY <1>5 DEF Line, Tells
  <2> QED BY <2>1, <2>2
<1>6. CASE end \in {"late crash", "stillborn"}
  <2>1. Line(IMPORTANT, "crash outside", k) \in end_lines(k, t, end)
    BY <1>6 DEF end_lines, normal_log_other_crash
  <2> QED BY <1>1, <1>6, <2>1
<1> QED BY <1>2, <1>3, <1>4, <1>5, <1>6 DEF Loud, Failing

LEMMA TermGrows ==
    ASSUME RunTests \/ Conclude
    PROVE  Grown(term, term')
<1>0. Grown(term, term)
  BY DEF Grown
<1>1. ASSUME NEW lines, Log(lines) PROVE Grown(term, term')
  BY <1>0, <1>1, LoggedGrows DEF Log
<1>2. term' = term => Grown(term, term')
  BY <1>0
<1>3. CASE EnterSuite
  BY <1>1, <1>2, <1>3 DEF EnterSuite
<1>4. CASE SkipDisabled
  BY <1>1, <1>4 DEF SkipDisabled
<1>5. CASE Spawn \/ LeaveSuite \/ RunEnds
  BY <1>2, <1>5 DEF Spawn, LeaveSuite, RunEnds, outVars
<1>6. ASSUME NEW k \in running, Begin(k) PROVE Grown(term, term')
  BY <1>1, <1>6 DEF Begin
<1>7. ASSUME NEW k \in running, NEW end \in Endings, End(k, end) PROVE Grown(term, term')
  <2> DEFINE more == IF end = "stillborn" THEN term
                     ELSE shown(term, fds, CR_STDOUT, {Printed(k)})
  <2>1. Grown(term, more)
    BY <1>0, ShownGrows
  <2>2. term' = logged(more, fds, cmd.opt, end_lines(k, ts'[k], end))
    BY <1>7 DEF End
  <2> HIDE DEF more
  <2> QED BY <2>1, <2>2, LoggedGrows
<1>8. CASE Finish
  BY <1>2, <1>8 DEF Finish
<1>9. CASE WriteReport
  <2> DEFINE o == Head(pend)
             note(level) == logged(term, fds, cmd.opt, {Line(level, "output", <<o.path>>)})
  <2>1. ASSUME NEW level PROVE Grown(term, note(level))
    BY <1>0, LoggedGrows
  <2>2. ASSUME NEW fd, NEW items PROVE Grown(term, shown(note(INFO), fds, fd, items))
    BY <2>1, GrowsOn
  <2>3. Write(o)
    BY <1>9 DEF WriteReport
  <2>4. \/ term' = note(INFO) \/ term' = note(IMPORTANT)
        \/ \E fd, items : term' = shown(note(INFO), fds, fd, items)
    <3> HIDE DEF o
    <3> QED BY <2>3 DEF Write
  <2> HIDE DEF note
  <2> QED BY <2>1, <2>2, <2>4
<1>10. CASE Return
  BY <1>1, <1>10 DEF Return
<1> QED BY <1>3, <1>4, <1>5, <1>6, <1>7, <1>8, <1>9, <1>10 DEF RunTests, Conclude

LEMMA VInit == SessionInit => VInv
BY EInit DEF VInv, SessionInit, Under

LEMMA VNext == VInv /\ [SessionNext]_sessionVars => VInv'
<1> SUFFICES ASSUME VInv, [SessionNext]_sessionVars, Under',
                    cmd'.opt.logging_threshold <= IMPORTANT
             PROVE  Visible'
  BY ENext DEF VInv, Visible
<1>1. EInv /\ EInv' /\ (Under => Visible) /\ (Under' => Accounts')
  BY ENext DEF VInv, EInv, AInv
<1>2. CASE Start
  <2> DEFINE o == debug_options(cmd.opt)
  <2>1. /\ cmd' = [cmd EXCEPT !.opt = o] /\ pc = "start" /\ how' = how
        /\ term' = logged(term, fds', o, normal_log_pre_all)
        /\ ~quiet(o) => fds' = fds
    BY <1>2 DEF Start, statVars
  <2> HIDE DEF o
  <2>2. IsCommand(cmd) /\ Untouched
    BY <1>1, <2>1 DEF EInv, AInv, SInv, CInv, Commanded, Stage, Late
  <2>3. cmd'.opt = o
    BY <2>1, <2>2 DEF IsCommand, CommandFields
  <2>4. ~quiet(o)
    BY <2>3 DEF quiet, IMPORTANT, CRITERION_LOG_LEVEL_QUIET
  <2>5. fds' = Standing /\ DOMAIN term = {CR_STDOUT, CR_STDERR} /\ DOMAIN how' = {}
    BY <2>1, <2>2, <2>4 DEF Untouched, Hushed, None
  <2>6. Grown(term, term')
    BY <2>1, LoggedGrows DEF Grown
  <2>7. DOMAIN term' = {CR_STDOUT, CR_STDERR}
    BY <2>5, <2>6 DEF Grown
  <2> QED BY <2>5, <2>7 DEF Visible
<1>3. ASSUME Under, Grown(term, term'), cmd' = cmd, how' = how, fds' = fds PROVE Visible'
  <2>1. Visible /\ cmd.opt.logging_threshold <= IMPORTANT
    BY <1>1, <1>3
  <2>2. /\ fds' = Standing /\ DOMAIN term' = {CR_STDOUT, CR_STDERR}
        /\ term[CR_STDERR] \subseteq term'[CR_STDERR]
    BY <1>3, <2>1 DEF Visible, Grown
  <2> QED BY <1>3, <2>1, <2>2 DEF Visible
<1>4. CASE pc = "run" /\ RunTests
  <2>1. Under /\ cmd' = cmd /\ fds' = fds /\ Grown(term, term')
    BY <1>4, Kept, TermGrows DEF Under
  <2>2. CASE how' = how
    BY <1>3, <2>1, <2>2
  <2>3. ASSUME NEW k \in running, NEW end \in Endings, End(k, end)
        PROVE  Visible'
    <3>1. Visible /\ fds = Standing /\ DOMAIN term = {CR_STDOUT, CR_STDERR}
          /\ cmd.opt.logging_threshold <= IMPORTANT
      BY <1>1, <2>1 DEF Visible
    <3> DEFINE more == IF end = "stillborn" THEN term
                       ELSE shown(term, fds, CR_STDOUT, {Printed(k)})
               lines == end_lines(k, ts'[k], end)
    <3>2. /\ how' = With(how, k, end)
          /\ term' = logged(more, fds, cmd.opt, lines)
      BY <2>3 DEF End
    <3>3. DOMAIN more = {CR_STDOUT, CR_STDERR}
      BY <3>1 DEF shown
    <3>4. DOMAIN how' = DOMAIN how \cup {k} /\ how'[k] = end
          /\ \A x \in DOMAIN how : x # k => how'[x] = how[x]
      BY <3>2 DEF With
    <3>5. Accounts'
      BY <1>1
    <3>6. Judged(ts'[k], VerdictOf(end))
      BY <3>4, <3>5 DEF Accounts
    <3>7. ASSUME end \in Loud
          PROVE  \E l \in term'[CR_STDERR] : Tells(l, k, end)
      <4>1. PICK l \in lines : Tells(l, k, end)
        BY <3>6, <3>7, EndLines
      <4> HIDE DEF lines, more
      <4>2. l \in logged(more, Standing, cmd.opt, lines)[CR_STDERR]
        BY <3>1, <3>3, <4>1, LoggedShows DEF Tells
      <4> QED BY <3>1, <3>2, <4>1, <4>2
    <3> HIDE DEF lines, more
    <3>8. /\ DOMAIN term' = {CR_STDOUT, CR_STDERR}
          /\ term[CR_STDERR] \subseteq term'[CR_STDERR]
      BY <2>1, <3>1 DEF Grown
    <3>9. ASSUME NEW x \in DOMAIN how', how'[x] \in Loud
          PROVE  \E l \in term'[CR_STDERR] : Tells(l, x, how'[x])
      <4>1. CASE x = k
        BY <3>4, <3>7, <3>9, <4>1
      <4>2. CASE x # k
        <5>1. x \in DOMAIN how /\ how[x] \in Loud
          BY <3>4, <3>9, <4>2
        <5>2. \E l \in term[CR_STDERR] : Tells(l, x, how[x])
          BY <3>1, <5>1 DEF Visible
        <5> QED BY <3>4, <3>8, <4>2, <5>2
      <4> QED BY <4>1, <4>2
    <3> QED BY <2>1, <3>1, <3>8, <3>9 DEF Visible
  <2> QED BY <1>4, <2>2, <2>3 DEF RunTests, EnterSuite, SkipDisabled, Spawn, LeaveSuite,
             RunEnds, Begin, statVars
<1>5. CASE Under /\ Conclude
  <2>1. cmd' = cmd /\ how' = how /\ Grown(term, term')
    BY <1>5, Kept, TermGrows DEF statVars
  <2>2. ~quiet(cmd.opt)
    BY <2>1 DEF quiet, IMPORTANT, CRITERION_LOG_LEVEL_QUIET
  <2>3. fds' = fds
    BY <1>5, <2>2 DEF Conclude, Finish, WriteReport, Return
  <2> QED BY <1>3, <1>5, <2>1, <2>3
<1>6. CASE Under /\ UNCHANGED sessionVars
  BY <1>3, <1>6 DEF sessionVars, Grown
<1> QED BY <1>2, <1>4, <1>5, <1>6, Turns

LEMMA FailuresSeen == VInv => FailureVisible
BY DEF VInv, Visible, FailureVisible, Loud, Under, IMPORTANT, CRITERION_IMPORTANT

(* Every test that makes the run fail is named by a line that the default  *)
(* verbosity shows, but for one that only logs an error, of which the      *)
(* message is shown: normal.c, and the descriptors the runner writes to.   *)
THEOREM FailureVisibleAlways == SessionSpec => []FailureVisible
BY VInit, VNext, FailuresSeen, PTL DEF SessionSpec

----------------------------------------------------------------------------
(* The lists of the reports: each suite that was entered once, and in it   *)
(* once each test that the server heard of.                                *)

ListRec == [name : Nat, tests : Seq(Nat)]
Lists(l, H) ==
    /\ l \in Seq(ListRec)
    /\ \A i, j \in DOMAIN l : l[i].name = l[j].name => i = j
    /\ \A i \in DOMAIN l : \A m, n \in DOMAIN l[i].tests :
          l[i].tests[m] = l[i].tests[n] => m = n
    /\ \A i \in DOMAIN l : \A n \in DOMAIN l[i].tests :
          <<l[i].name, l[i].tests[n]>> \in H
    /\ \A k \in H : \E i \in DOMAIN l : \E n \in DOMAIN l[i].tests :
          k = <<l[i].name, l[i].tests[n]>>

\* The suites that the coroutine has begun.
Entered(x, p) ==
    {name \in Nat :
        \E i \in DOMAIN x.suites :
            /\ name = x.suites[i].name
            /\ x.suites[i].tests # <<>>
            /\ (i < p.suite \/ (i = p.suite /\ p.test > 0))}

Listing == Lists(listed, HeardOf) /\ Names(listed) = Entered(set, pos)
LInv == EInv /\ (Under => Listing)

LEMMA RangeIsSeq ==
    ASSUME NEW E, NEW n \in Nat, NEW f, f = [i \in 1 .. n |-> f[i]],
           \A i \in 1 .. n : f[i] \in E
    PROVE  f \in Seq(E)
<1>1. f \in [1 .. n -> E]
  OBVIOUS
<1> QED BY <1>1

LEMMA Fronted ==
    ASSUME NEW E, NEW e \in E, NEW s \in Seq(E)
    PROVE  /\ <<e>> \o s \in Seq(E) /\ Len(<<e>> \o s) = Len(s) + 1
           /\ (<<e>> \o s)[1] = e
           /\ \A i \in 2 .. Len(s) + 1 : (<<e>> \o s)[i] = s[i - 1]
<1>1. <<e>> \in Seq(E) /\ Len(<<e>>) = 1 /\ <<e>>[1] = e
  OBVIOUS
<1> QED BY <1>1, ConcatProperties

(* A suite more at the head of the list.                                   *)
LEMMA SuiteListed ==
    ASSUME NEW l, NEW H, Lists(l, H), NEW name \in Nat, name \notin Names(l), NEW l2,
           l2 = <<[name |-> name, tests |-> <<>>]>> \o l
    PROVE  Lists(l2, H) /\ Names(l2) = Names(l) \cup {name}
<1> DEFINE e == [name |-> name, tests |-> <<>>]
           n == Len(l)
<1>1. e \in ListRec /\ e.name = name /\ e.tests = <<>>
  BY DEF ListRec
<1> HIDE DEF e
<1>2. l \in Seq(ListRec) /\ n \in Nat /\ DOMAIN l = 1 .. n
  BY DEF Lists
<1>3. /\ l2 \in Seq(ListRec) /\ Len(l2) = n + 1 /\ l2[1] = e
      /\ \A i \in 2 .. n + 1 : l2[i] = l[i - 1]
  BY <1>1, <1>2, Fronted DEF e
<1>4. DOMAIN l2 = 1 .. n + 1
  BY <1>2, <1>3
<1> HIDE DEF n
<1>5. ASSUME NEW i \in DOMAIN l2
      PROVE  (i = 1 /\ l2[i] = e) \/ (i - 1 \in DOMAIN l /\ l2[i] = l[i - 1])
  BY <1>2, <1>3, <1>4
<1>6. ASSUME NEW i \in DOMAIN l
      PROVE  i + 1 \in DOMAIN l2 /\ l2[i + 1] = l[i]
  <2>1. i + 1 \in 2 .. n + 1 /\ (i + 1) - 1 = i
    BY <1>2
  <2> QED BY <1>3, <1>4, <2>1
<1>7. Names(l2) = Names(l) \cup {name}
  <2>1. Names(l2) \subseteq Names(l) \cup {name}
    BY <1>1, <1>5 DEF Names
  <2>2. Names(l) \subseteq Names(l2)
    BY <1>6 DEF Names
  <2>3. 1 \in DOMAIN l2 /\ l2[1].name = name
    BY <1>1, <1>2, <1>3, <1>4
  <2> QED BY <2>1, <2>2, <2>3 DEF Names
<1>8. ASSUME NEW i \in DOMAIN l2, NEW j \in DOMAIN l2, l2[i].name = l2[j].name
      PROVE  i = j
  <2>1. \A x \in DOMAIN l : l[x].name # name
    BY DEF Names
  <2>2. CASE i = 1 \/ j = 1
    BY <1>1, <1>3, <1>5, <1>8, <2>1, <2>2
  <2>3. CASE i # 1 /\ j # 1
    <3>1. i - 1 = j - 1
      BY <1>5, <1>8, <2>3 DEF Lists
    <3> QED BY <1>4, <3>1
  <2> QED BY <2>2, <2>3
<1>9. ASSUME NEW i \in DOMAIN l2
      PROVE  /\ \A m, x \in DOMAIN l2[i].tests : l2[i].tests[m] = l2[i].tests[x] => m = x
             /\ \A x \in DOMAIN l2[i].tests : <<l2[i].name, l2[i].tests[x]>> \in H
  <2>1. DOMAIN e.tests = {}
    BY <1>1
  <2>2. CASE l2[i] = e
    BY <2>1, <2>2
  <2>3. CASE i - 1 \in DOMAIN l /\ l2[i] = l[i - 1]
    <3> DEFINE z == i - 1
    <3>1. z \in DOMAIN l /\ l2[i] = l[z]
      BY <2>3
    <3> HIDE DEF z
    <3>2. /\ \A m, x \in DOMAIN l[z].tests : l[z].tests[m] = l[z].tests[x] => m = x
          /\ \A x \in DOMAIN l[z].tests : <<l[z].name, l[z].tests[x]>> \in H
      BY <3>1 DEF Lists
    <3> QED BY <3>1, <3>2
  <2> QED BY <1>5, <2>2, <2>3
<1>10. ASSUME NEW k \in H
       PROVE  \E i \in DOMAIN l2 : \E x \in DOMAIN l2[i].tests :
                  k = <<l2[i].name, l2[i].tests[x]>>
  <2>0. PICK i \in DOMAIN l : \E x \in DOMAIN l[i].tests : k = <<l[i].name, l[i].tests[x]>>
    BY DEF Lists
  <2>1. PICK x \in DOMAIN l[i].tests : k = <<l[i].name, l[i].tests[x]>>
    BY <2>0
  <2> DEFINE z == i + 1
  <2>2. z \in DOMAIN l2 /\ l2[z] = l[i]
    BY <1>6
  <2> HIDE DEF z
  <2> QED BY <2>1, <2>2
<1>11. Lists(l2, H)
  BY <1>3, <1>8, <1>9, <1>10 DEF Lists
<1> QED BY <1>7, <1>11

(* A test more at the head of the list of its suite.                       *)
AtHead(b, s, t) ==
    /\ DOMAIN t \subseteq Nat /\ DOMAIN s \subseteq Nat
    /\ 1 \in DOMAIN t /\ t[1] = b
    /\ \A x \in DOMAIN t : x = 1 \/ (x - 1 \in DOMAIN s /\ t[x] = s[x - 1])
    /\ \A x \in DOMAIN s : x + 1 \in DOMAIN t /\ t[x + 1] = s[x]

LEMMA HeadFirst ==
    ASSUME NEW E, NEW b \in E, NEW s \in Seq(E)
    PROVE  AtHead(b, s, <<b>> \o s) /\ <<b>> \o s \in Seq(E)
<1> DEFINE t == <<b>> \o s
           n == Len(s)
<1>1. t \in Seq(E) /\ Len(t) = n + 1 /\ t[1] = b
      /\ \A i \in 2 .. n + 1 : t[i] = s[i - 1]
  BY Fronted
<1>2. n \in Nat /\ DOMAIN s = 1 .. n /\ DOMAIN t = 1 .. n + 1
  BY <1>1
<1> HIDE DEF t, n
<1>3. ASSUME NEW x \in DOMAIN t, x # 1
      PROVE  x - 1 \in DOMAIN s /\ t[x] = s[x - 1]
  <2>1. x \in 2 .. n + 1 /\ x - 1 \in 1 .. n
    BY <1>2, <1>3
  <2> QED BY <1>1, <1>2, <2>1
<1>4. ASSUME NEW x \in DOMAIN s PROVE x + 1 \in DOMAIN t /\ t[x + 1] = s[x]
  <2>1. x + 1 \in 2 .. n + 1 /\ (x + 1) - 1 = x
    BY <1>2
  <2> QED BY <1>1, <1>2, <2>1
<1>5. 1 \in DOMAIN t /\ DOMAIN t \subseteq Nat /\ DOMAIN s \subseteq Nat
  BY <1>2
<1>6. AtHead(b, s, t)
  BY <1>1, <1>3, <1>4, <1>5 DEF AtHead
<1> QED BY <1>1, <1>6 DEF t

\* b at the head of the list of suite p, the others as they were.
Prepends(l, p, b, l2) ==
    /\ p \in DOMAIN l /\ l2 \in Seq(ListRec) /\ DOMAIN l2 = DOMAIN l
    /\ \A i \in DOMAIN l : l2[i].name = l[i].name /\ (i # p => l2[i] = l[i])
    /\ AtHead(b, l[p].tests, l2[p].tests)

LEMMA OneListed ==
    ASSUME NEW l, NEW H, Lists(l, H), NEW p, NEW b, NEW l2, Prepends(l, p, b, l2),
           <<l[p].name, b>> \notin H
    PROVE  Lists(l2, H \cup {<<l[p].name, b>>}) /\ Names(l2) = Names(l)
<1> DEFINE s == l[p].tests
           t == l2[p].tests
           a == l[p].name
           G == H \cup {<<a, b>>}
<1>0. p \in DOMAIN l /\ l2 \in Seq(ListRec) /\ DOMAIN l2 = DOMAIN l
  BY DEF Prepends
<1>1. Names(l2) = Names(l)
  BY DEF Names, Prepends
<1>2. ASSUME NEW i \in DOMAIN l2, NEW j \in DOMAIN l2, l2[i].name = l2[j].name
      PROVE  i = j
  BY <1>2 DEF Lists, Prepends
<1>3. /\ \A m, n \in DOMAIN s : s[m] = s[n] => m = n
      /\ \A n \in DOMAIN s : <<a, s[n]>> \in H
  BY <1>0 DEF Lists
<1>4. \A n \in DOMAIN s : s[n] # b
  BY <1>3
<1>5. AtHead(b, s, t)
  BY DEF Prepends
<1>6. /\ p \in DOMAIN l2 /\ l2[p].name = a
      /\ \A i \in DOMAIN l : i # p => l2[i] = l[i]
  BY <1>0 DEF Prepends
<1> HIDE DEF s, t, a
<1>7. ASSUME NEW x \in DOMAIN t, NEW m \in DOMAIN t, t[x] = t[m]
      PROVE  x = m
  <2>1. x \in Nat /\ m \in Nat
    BY <1>5 DEF AtHead
  <2>2. CASE x = 1 \/ m = 1
    BY <1>4, <1>5, <1>7, <2>2 DEF AtHead
  <2>3. CASE x # 1 /\ m # 1
    <3>1. x - 1 \in DOMAIN s /\ m - 1 \in DOMAIN s /\ s[x - 1] = s[m - 1]
      BY <1>5, <1>7, <2>3 DEF AtHead
    <3>2. x - 1 = m - 1
      BY <1>3, <3>1
    <3> QED BY <2>1, <3>2
  <2> QED BY <2>2, <2>3
<1>8. ASSUME NEW x \in DOMAIN t PROVE <<a, t[x]>> \in G
  <2>1. CASE x = 1
    BY <1>5, <2>1 DEF AtHead
  <2>2. CASE x # 1
    <3>1. x - 1 \in DOMAIN s /\ t[x] = s[x - 1]
      BY <1>5, <2>2 DEF AtHead
    <3> QED BY <1>3, <3>1
  <2> QED BY <2>1, <2>2
<1> HIDE DEF G
<1>9. ASSUME NEW i \in DOMAIN l2
      PROVE  /\ \A m, n \in DOMAIN l2[i].tests : l2[i].tests[m] = l2[i].tests[n] => m = n
             /\ \A n \in DOMAIN l2[i].tests : <<l2[i].name, l2[i].tests[n]>> \in G
  <2>1. CASE i = p
    <3>1. l2[i].tests = t /\ l2[i].name = a
      BY <1>6, <2>1 DEF t
    <3> QED BY <1>7, <1>8, <3>1
  <2>2. CASE i # p
    <3>1. i \in DOMAIN l /\ l2[i] = l[i]
      BY <1>0, <1>6, <2>2
    <3>2. /\ \A m, n \in DOMAIN l[i].tests : l[i].tests[m] = l[i].tests[n] => m = n
          /\ \A n \in DOMAIN l[i].tests : <<l[i].name, l[i].tests[n]>> \in H
      BY <3>1 DEF Lists
    <3> QED BY <3>1, <3>2 DEF G
  <2> QED BY <2>1, <2>2
<1>10. ASSUME NEW k \in G
       PROVE  \E i \in DOMAIN l2 : \E n \in DOMAIN l2[i].tests :
                  k = <<l2[i].name, l2[i].tests[n]>>
  <2>1. CASE k = <<a, b>>
    BY <1>5, <1>6, <2>1 DEF AtHead, t
  <2>2. CASE k \in H
    <3>1. PICK i \in DOMAIN l : \E n \in DOMAIN l[i].tests :
              k = <<l[i].name, l[i].tests[n]>>
      BY <2>2 DEF Lists
    <3>2. PICK n \in DOMAIN l[i].tests : k = <<l[i].name, l[i].tests[n]>>
      BY <3>1
    <3>3. CASE i # p
      BY <1>0, <1>6, <3>2, <3>3
    <3>4. CASE i = p
      <4>1. n \in DOMAIN s /\ k = <<a, s[n]>>
        BY <3>2, <3>4 DEF s, a
      <4> DEFINE m == n + 1
      <4>2. m \in DOMAIN t /\ t[m] = s[n]
        BY <1>5, <4>1 DEF AtHead
      <4> HIDE DEF m
      <4>3. p \in DOMAIN l2 /\ m \in DOMAIN l2[p].tests
            /\ k = <<l2[p].name, l2[p].tests[m]>>
        BY <1>6, <4>1, <4>2 DEF t
      <4> QED BY <4>3
    <3> QED BY <3>3, <3>4
  <2> QED BY <2>1, <2>2 DEF G
<1>11. Lists(l2, G)
  BY <1>0, <1>2, <1>9, <1>10 DEF Lists
<1> QED BY <1>1, <1>11 DEF G, a

LEMMA TestListed ==
    ASSUME NEW l, NEW H, Lists(l, H), NEW k \in Nat \X Nat, k[1] \in Names(l),
           k \notin H, NEW l2,
           l2 = [i \in DOMAIN l |-> IF l[i].name = k[1]
                                    THEN [l[i] EXCEPT !.tests = <<k[2]>> \o @]
                                    ELSE l[i]]
    PROVE  Lists(l2, H \cup {k}) /\ Names(l2) = Names(l)
<1>1. PICK p \in DOMAIN l : l[p].name = k[1]
  BY DEF Names
<1>2. l[p] \in ListRec /\ l \in Seq(ListRec)
  BY DEF Lists
<1>3. l[p].tests \in Seq(Nat) /\ k[2] \in Nat /\ l[p].name \in Nat
      /\ DOMAIN l[p] = {"name", "tests"}
  BY <1>2 DEF ListRec
<1> DEFINE t == <<k[2]>> \o l[p].tests
           e == [l[p] EXCEPT !.tests = t]
<1>4. AtHead(k[2], l[p].tests, t) /\ t \in Seq(Nat)
  BY <1>3, HeadFirst
<1>5. DOMAIN l2 = DOMAIN l /\ l2[p] = e
      /\ \A i \in DOMAIN l : l[i].name # k[1] => l2[i] = l[i]
  BY <1>1
<1>6. \A i \in DOMAIN l : l[i].name = k[1] => i = p
  BY <1>1 DEF Lists
<1> HIDE DEF t
<1>7. e.name = l[p].name /\ e.tests = t /\ e \in ListRec
  BY <1>2, <1>3, <1>4 DEF ListRec
<1> HIDE DEF e
<1>8. \A i \in DOMAIN l : i # p => l2[i] = l[i]
  BY <1>5, <1>6
<1>9. \A i \in DOMAIN l : l2[i].name = l[i].name
  BY <1>5, <1>7, <1>8
<1>10. l2 \in Seq(ListRec)
  <2> DEFINE L == Len(l)
  <2>1. L \in Nat /\ DOMAIN l = 1 .. L /\ \A i \in 1 .. L : l[i] \in ListRec
    BY <1>2
  <2>2. l2 = [i \in 1 .. L |-> l2[i]]
    BY <1>5, <2>1
  <2>3. \A i \in 1 .. L : l2[i] \in ListRec
    BY <1>5, <1>7, <1>8, <2>1
  <2> HIDE DEF L
  <2> QED BY <2>1, <2>2, <2>3, RangeIsSeq
<1>11. k = <<l[p].name, k[2]>>
  BY <1>1
<1>12. Lists(l2, H \cup {<<l[p].name, k[2]>>}) /\ Names(l2) = Names(l)
  <2>1. AtHead(k[2], l[p].tests, l2[p].tests)
    BY <1>4, <1>5, <1>7
  <2>2. <<l[p].name, k[2]>> \notin H
    BY <1>11
  <2>3. DOMAIN l2 = DOMAIN l /\ \A i \in DOMAIN l : /\ l2[i].name = l[i].name
                                                  /\ i # p => l2[i] = l[i]
    BY <1>5, <1>8, <1>9
  <2>4. Prepends(l, p, k[2], l2)
    BY <1>10, <2>1, <2>3 DEF Prepends
  <2> QED BY <2>2, <2>4, OneListed, SMTT(30)
<1> QED BY <1>11, <1>12

\* The suite and the test that the coroutine comes to.
LEMMA EnteredSame ==
    ASSUME NEW x, Ordered(x), NEW p, NEW q, p.suite \in Nat, p.test \in Nat,
           \/ q.suite = p.suite /\ q.test \in Nat /\ (q.test > 0 <=> p.test > 0)
           \/ /\ q.suite = p.suite + 1 /\ q.test = 0
              /\ p.suite \in DOMAIN x.suites =>
                    x.suites[p.suite].tests = <<>> \/ p.test > 0
    PROVE  Entered(x, q) = Entered(x, p)
<1>1. DOMAIN x.suites \subseteq Nat
  BY DEF Ordered, SetRec
<1>2. ASSUME NEW i \in DOMAIN x.suites, x.suites[i].tests # <<>>
      PROVE  (i < q.suite \/ (i = q.suite /\ q.test > 0))
                <=> (i < p.suite \/ (i = p.suite /\ p.test > 0))
  BY <1>1, <1>2
<1> QED BY <1>2 DEF Entered

LEMMA EnteredMore ==
    ASSUME NEW x, Ordered(x), NEW p, NEW q, p.suite \in DOMAIN x.suites, p.test = 0,
           x.suites[p.suite].tests # <<>>, q.suite = p.suite, q.test = 1
    PROVE  LET name == x.suites[p.suite].name
           IN  /\ name \in Nat /\ name \notin Entered(x, p)
               /\ Entered(x, q) = Entered(x, p) \cup {name}
<1> DEFINE name == x.suites[p.suite].name
<1>1. x.suites \in Seq(SuiteRec) /\ DOMAIN x.suites \subseteq Nat
  BY DEF Ordered, SetRec
<1>2. \A i \in DOMAIN x.suites : x.suites[i] \in SuiteRec
  BY <1>1
<1>3. \A i \in DOMAIN x.suites : x.suites[i].name \in Nat
  BY <1>2 DEF SuiteRec
<1>4. ASSUME NEW i \in DOMAIN x.suites, i < p.suite PROVE x.suites[i].name # name
  <2>1. x.suites[i].name < name
    BY <1>4 DEF Ordered, Sorted
  <2> QED BY <1>3, <2>1
<1>5. ASSUME NEW i \in DOMAIN x.suites
      PROVE  /\ i < q.suite \/ (i = q.suite /\ q.test > 0) <=> i < p.suite \/ i = p.suite
             /\ i < p.suite \/ (i = p.suite /\ p.test > 0) <=> i < p.suite
  BY <1>1
<1> HIDE DEF name
<1>6. name \notin Entered(x, p)
  BY <1>4, <1>5 DEF Entered
<1>7. Entered(x, q) \subseteq Entered(x, p) \cup {name}
  BY <1>5 DEF Entered, name
<1>8. Entered(x, p) \subseteq Entered(x, q)
  BY <1>5 DEF Entered
<1>9. name \in Entered(x, q)
  BY <1>3, <1>5 DEF Entered, name
<1> QED BY <1>3, <1>6, <1>7, <1>8, <1>9 DEF name

LEMMA SeenEntered ==
    ASSUME NEW x, Ordered(x), NEW p, p.suite \in Nat, p.test \in Nat, NEW k \in Seen(x, p)
    PROVE  k \in Nat \X Nat /\ k[1] \in Entered(x, p)
<1>1. PICK i \in Nat, n \in Nat : IsSpot(x, i, n) /\ k = KeyAt(x, i, n) /\ Before(p, i, n)
  BY DEF Seen
<1>2. k \in Nat \X Nat /\ n \in 1 .. Len(x.suites[i].tests)
  BY <1>1, Spot DEF Seen
<1>3. i \in DOMAIN x.suites /\ k[1] = x.suites[i].name /\ n \in DOMAIN x.suites[i].tests
  BY <1>1 DEF IsSpot, KeyAt
<1>4. x.suites[i].tests # <<>>
  BY <1>3
<1>5. i < p.suite \/ (i = p.suite /\ p.test > 0)
  BY <1>1, <1>2 DEF Before
<1> QED BY <1>2, <1>3, <1>4, <1>5 DEF Entered

LEMMA LInit == SessionInit => LInv
BY EInit DEF LInv, SessionInit, Under

LEMMA LNext == LInv /\ [SessionNext]_sessionVars => LInv'
<1> SUFFICES ASSUME LInv, [SessionNext]_sessionVars, Under' PROVE Listing'
  BY ENext DEF LInv
<1>1. EInv /\ EInv' /\ (Under => Listing)
  BY ENext DEF LInv
<1>2. CASE Start
  <2>1. Untouched /\ Ordered(set) /\ UNCHANGED <<set, pos, statVars>>
    BY <1>1, <1>2 DEF Start, EInv, AInv, SInv, Stage, Late, Chosen
  <2>2. listed = <<>> /\ DOMAIN ts = {} /\ pos.suite = 1 /\ pos.test = 0
    BY <2>1 DEF Untouched, None
  <2>3. HeardOf = {}
    BY <2>2 DEF HeardOf
  <2>4. Lists(listed, HeardOf)
    BY <2>2, <2>3 DEF Lists
  <2>5. DOMAIN set.suites \subseteq Nat \ {0}
    BY <2>1 DEF Ordered, SetRec
  <2>6. \A i \in DOMAIN set.suites : ~(i < pos.suite \/ (i = pos.suite /\ pos.test > 0))
    BY <2>2, <2>5
  <2>7. Entered(set, pos) = {} /\ Names(listed) = {}
    BY <2>2, <2>6 DEF Entered, Names
  <2> QED BY <2>1, <2>4, <2>7 DEF Listing, statVars, HeardOf, Ended
<1>3. ASSUME UNCHANGED <<set, pos, statVars>>, Under PROVE Listing'
  BY <1>1, <1>3 DEF Listing, statVars, HeardOf, Ended
<1>4. CASE pc = "run" /\ RunTests
  <2>1. Accounts /\ Ordered(set) /\ Listing /\ set' = set /\ Under
    BY <1>1, <1>4, Kept DEF Under, EInv, AInv, SInv, Stage, Chosen
  <2>2. DOMAIN pos = {"suite", "test"} /\ pos.suite \in Nat \ {0} /\ pos.test \in Nat
    BY <2>1 DEF Accounts
  <2>3. Lists(listed, HeardOf) /\ Names(listed) = Entered(set, pos)
    BY <2>1 DEF Listing
  <2>4. set.suites \in Seq(SuiteRec)
    BY <2>1 DEF Ordered, SetRec
  <2>5. \A k \in DOMAIN ts : k \in Nat \X Nat /\ k[1] \in Names(listed)
    BY <2>1, <2>2, <2>3, SeenEntered DEF Accounts
  <2>6. ASSUME HeardOf' = HeardOf, listed' = listed, Entered(set, pos') = Entered(set, pos)
        PROVE  Listing'
    BY <2>1, <2>3, <2>6 DEF Listing
  <2>7. CASE EnterSuite
    <3>1. /\ AtSuite /\ HeardOf' = HeardOf
      BY <2>7 DEF EnterSuite, HeardOf, Ended
    <3>2. pos.test = 0 /\ pos.suite \in DOMAIN set.suites
      BY <2>2, <2>4, <3>1 DEF AtSuite
    <3>3. CASE suite.tests = <<>>
      <4>1. pos' = [suite |-> pos.suite + 1, test |-> 0] /\ listed' = listed
        BY <2>7, <3>3 DEF EnterSuite, NextSuite
      <4>2. Entered(set, pos') = Entered(set, pos)
        BY <2>1, <2>2, <3>2, <3>3, <4>1, EnteredSame DEF suite
      <4> QED BY <2>6, <3>1, <4>1, <4>2
    <3>4. CASE suite.tests # <<>>
      <4>1. pos' = [pos EXCEPT !.test = @ + 1] /\ listed' = new_suite(suite.name)
        BY <2>7, <3>4 DEF EnterSuite, NextTest
      <4>2. pos'.suite = pos.suite /\ pos'.test = 1
        BY <2>2, <3>2, <4>1
      <4>3. /\ suite.name \in Nat /\ suite.name \notin Names(listed)
            /\ Entered(set, pos') = Names(listed) \cup {suite.name}
        BY <2>1, <2>3, <3>2, <3>4, <4>2, EnteredMore DEF suite
      <4>4. Lists(listed', HeardOf) /\ Names(listed') = Names(listed) \cup {suite.name}
        BY <2>3, <4>1, <4>3, SuiteListed DEF new_suite
      <4> QED BY <2>1, <3>1, <4>3, <4>4 DEF Listing
    <3> QED BY <3>3, <3>4
  <2>8. ASSUME NEW k \in Nat \X Nat, k[1] \in Names(listed), k \notin HeardOf,
               HeardOf' = HeardOf \cup {k}, listed' = new_test(k),
               Entered(set, pos') = Entered(set, pos)
        PROVE  Listing'
    <3>1. Lists(listed', HeardOf \cup {k}) /\ Names(listed') = Names(listed)
      BY <2>3, <2>8, TestListed, SMTT(30) DEF new_test
    <3> QED BY <2>1, <2>3, <2>8, <3>1 DEF Listing
  <2>9. ASSUME AtTest, pos' = [pos EXCEPT !.test = @ + 1]
        PROVE  Entered(set, pos') = Entered(set, pos)
    <3>1. IsSpot(set, pos.suite, pos.test)
      BY <2>1, <2>9, AtSpot
    <3>2. pos.test > 0
      BY <2>1, <3>1, Spot
    <3>3. pos'.suite = pos.suite /\ pos'.test = pos.test + 1
      BY <2>2, <2>9
    <3> QED BY <2>1, <2>2, <3>2, <3>3, EnteredSame
  <2>10. CASE SkipDisabled
    <3>1. AtTest /\ pos' = [pos EXCEPT !.test = @ + 1] /\ listed' = new_test(key)
      BY <2>10 DEF SkipDisabled, NextTest
    <3>2. HeardOf' = HeardOf \cup {key} /\ key \notin HeardOf /\ Accounts'
      BY <2>1, <2>10, AccountsSkip
    <3>3. key \in DOMAIN ts'
      BY <3>2 DEF HeardOf
    <3>4. Entered(set, pos') = Entered(set, pos)
      BY <2>9, <3>1
    <3>5. key \in Seen(set, pos')
      BY <2>1, <3>2, <3>3 DEF Accounts
    <3>6. pos'.suite \in Nat /\ pos'.test \in Nat
      BY <3>2 DEF Accounts
    <3>7. key \in Nat \X Nat /\ key[1] \in Names(listed)
      BY <2>1, <2>3, <3>4, <3>5, <3>6, SeenEntered
    <3> QED BY <2>8, <3>1, <3>2, <3>4, <3>7
  <2>11. CASE Spawn
    <3>1. AtTest /\ pos' = [pos EXCEPT !.test = @ + 1] /\ listed' = listed
      BY <2>11 DEF Spawn, NextTest
    <3>2. HeardOf' = HeardOf
      BY <2>1, <2>11, AccountsSpawn
    <3> QED BY <2>6, <2>9, <3>1, <3>2
  <2>12. CASE LeaveSuite
    <3>1. /\ pos' = [suite |-> pos.suite + 1, test |-> 0] /\ UNCHANGED statVars
          /\ pos.suite <= Len(set.suites) /\ pos.test > Len(suite.tests)
      BY <2>12 DEF LeaveSuite, NextSuite
    <3>2. pos.suite \in DOMAIN set.suites
      BY <2>2, <2>4, <3>1
    <3>3. suite \in SuiteRec
      BY <2>4, <3>2 DEF suite
    <3>4. suite.tests \in Seq(TestDecl)
      BY <3>3 DEF SuiteRec
    <3>5. pos.test > 0
      BY <2>2, <3>1, <3>4
    <3>6. Entered(set, pos') = Entered(set, pos)
      BY <2>1, <2>2, <3>1, <3>5, EnteredSame
    <3>7. HeardOf' = HeardOf /\ listed' = listed
      BY <3>1 DEF statVars, HeardOf, Ended
    <3> QED BY <2>6, <3>6, <3>7
  <2>13. ASSUME NEW k \in running, Begin(k) PROVE Listing'
    <3>1. HeardOf' = HeardOf \cup {k} /\ k \notin HeardOf
      BY <2>1, <2>13, AccountsSetup
    <3>2. listed' = new_test(k) /\ pos' = pos /\ k \in DOMAIN ts
      BY <2>1, <2>13, AccountSets DEF Begin
    <3> QED BY <2>5, <2>8, <3>1, <3>2
  <2>14. ASSUME NEW k \in running, NEW end \in Endings, End(k, end) PROVE Listing'
    <3>1. HeardOf' = HeardOf
      BY <2>1, <2>14, AccountsEnd
    <3>2. listed' = listed /\ pos' = pos
      BY <2>14 DEF End
    <3> QED BY <2>6, <3>1, <3>2
  <2>15. CASE RunEnds
    BY <1>3, <2>1, <2>15 DEF RunEnds
  <2> QED BY <1>4, <2>7, <2>10, <2>11, <2>12, <2>13, <2>14, <2>15 DEF RunTests
<1>5. CASE Under /\ Conclude
  BY <1>3, <1>5, Kept
<1>6. CASE Under /\ UNCHANGED sessionVars
  BY <1>3, <1>6 DEF sessionVars, statVars
<1> QED BY <1>2, <1>4, <1>5, <1>6, Turns


----------------------------------------------------------------------------
(* The reports: each test that is listed has one place in every report.    *)

Spots     == UNION {{i} \X DOMAIN listed[i].tests : i \in DOMAIN listed}
Called(x) == <<listed[x[1]].name, listed[x[1]].tests[x[2]]>>

LEMMA Placed ==
    ASSUME NEW x
    PROVE  x \in Spots <=> /\ x = <<x[1], x[2]>> /\ x[1] \in DOMAIN listed
                           /\ x[2] \in DOMAIN listed[x[1]].tests
BY DEF Spots

LEMMA StatsListed ==
    /\ stats.g = g /\ DOMAIN stats.suites = DOMAIN listed
    /\ \A i \in DOMAIN listed :
          /\ stats.suites[i].name = listed[i].name
          /\ DOMAIN stats.suites[i].tests = DOMAIN listed[i].tests
          /\ \A n \in DOMAIN listed[i].tests :
                /\ stats.suites[i].tests[n].name = listed[i].tests[n]
                /\ stats.suites[i].tests[n].t = ts[<<listed[i].name, listed[i].tests[n]>>]
BY DEF stats

LEMMA TapPlaces ==
    LET r == tap_report(stats)
    IN  /\ Places(r) = Spots
        /\ \A x \in Spots : /\ Listed(r, x) = Called(x)
                            /\ Entry(r, x).line = tap_line(ts[Called(x)])
<1> DEFINE r == tap_report(stats)
<1>1. /\ DOMAIN r.suites = DOMAIN listed
      /\ \A i \in DOMAIN listed :
            /\ r.suites[i].name = stats.suites[i].name
            /\ DOMAIN r.suites[i].list = DOMAIN listed[i].tests
            /\ \A n \in DOMAIN listed[i].tests :
                  /\ r.suites[i].list[n].name = stats.suites[i].tests[n].name
                  /\ r.suites[i].list[n].line = tap_line(stats.suites[i].tests[n].t)
  BY StatsListed DEF tap_report, tap_suite, tap_test, Written
<1> HIDE DEF r
<1>2. Places(r) = Spots
  BY <1>1 DEF Places, Spots
<1>3. ASSUME NEW x \in Spots
      PROVE  Listed(r, x) = Called(x) /\ Entry(r, x).line = tap_line(ts[Called(x)])
  <2> DEFINE i == x[1]
             n == x[2]
  <2>1. i \in DOMAIN listed /\ n \in DOMAIN listed[i].tests
    BY Placed
  <2> HIDE DEF i, n
  <2>2. /\ stats.suites[i].name = listed[i].name
        /\ stats.suites[i].tests[n].name = listed[i].tests[n]
        /\ stats.suites[i].tests[n].t = ts[<<listed[i].name, listed[i].tests[n]>>]
    BY <2>1, StatsListed
  <2>3. /\ r.suites[i].name = stats.suites[i].name
        /\ r.suites[i].list[n].name = stats.suites[i].tests[n].name
        /\ r.suites[i].list[n].line = tap_line(stats.suites[i].tests[n].t)
    BY <1>1, <2>1
  <2>4. /\ r.suites[i].name = listed[i].name
        /\ r.suites[i].list[n].name = listed[i].tests[n]
        /\ r.suites[i].list[n].line = tap_line(ts[<<listed[i].name, listed[i].tests[n]>>])
    BY <2>2, <2>3
  <2> QED BY <2>4 DEF Listed, Entry, Called, i, n
<1> QED BY <1>2, <1>3, SMTT(30) DEF r

LEMMA XmlPlaces ==
    LET r == xml_report(stats)
    IN  /\ Places(r) = Spots
        /\ \A x \in Spots : /\ Listed(r, x) = Called(x)
                            /\ Entry(r, x).status = get_status_string(ts[Called(x)])
<1> DEFINE r == xml_report(stats)
<1>1. /\ DOMAIN r.suites = DOMAIN listed
      /\ \A i \in DOMAIN listed :
            /\ r.suites[i].name = stats.suites[i].name
            /\ DOMAIN r.suites[i].list = DOMAIN listed[i].tests
            /\ \A n \in DOMAIN listed[i].tests :
                  /\ r.suites[i].list[n].name = stats.suites[i].tests[n].name
                  /\ r.suites[i].list[n].status
                        = get_status_string(stats.suites[i].tests[n].t)
  BY StatsListed DEF xml_report, xml_suite, xml_test, Written
<1> HIDE DEF r
<1>2. Places(r) = Spots
  BY <1>1 DEF Places, Spots
<1>3. ASSUME NEW x \in Spots
      PROVE  Listed(r, x) = Called(x)
             /\ Entry(r, x).status = get_status_string(ts[Called(x)])
  <2> DEFINE i == x[1]
             n == x[2]
  <2>1. i \in DOMAIN listed /\ n \in DOMAIN listed[i].tests
    BY Placed
  <2> HIDE DEF i, n
  <2>2. /\ stats.suites[i].name = listed[i].name
        /\ stats.suites[i].tests[n].name = listed[i].tests[n]
        /\ stats.suites[i].tests[n].t = ts[<<listed[i].name, listed[i].tests[n]>>]
    BY <2>1, StatsListed
  <2>3. /\ r.suites[i].name = stats.suites[i].name
        /\ r.suites[i].list[n].name = stats.suites[i].tests[n].name
        /\ r.suites[i].list[n].status = get_status_string(stats.suites[i].tests[n].t)
    BY <1>1, <2>1
  <2>4. /\ r.suites[i].name = listed[i].name
        /\ r.suites[i].list[n].name = listed[i].tests[n]
        /\ r.suites[i].list[n].status = get_status_string(ts[<<listed[i].name, listed[i].tests[n]>>])
    BY <2>2, <2>3
  <2> QED BY <2>4 DEF Listed, Entry, Called, i, n
<1> QED BY <1>2, <1>3, SMTT(30) DEF r

(* Each test that was heard of is called at one place.                     *)
LEMMA CalledOnce ==
    ASSUME Lists(listed, HeardOf)
    PROVE  /\ \A x \in Spots : Called(x) \in HeardOf
           /\ \A x, y \in Spots : Called(x) = Called(y) => x = y
           /\ \A k \in HeardOf : \E x \in Spots : Called(x) = k
<1>1. ASSUME NEW x \in Spots PROVE Called(x) \in HeardOf
  BY Placed DEF Lists, Called
<1>2. ASSUME NEW x \in Spots, NEW y \in Spots, Called(x) = Called(y)
      PROVE  x = y
  <2> DEFINE i == x[1]
             n == x[2]
             j == y[1]
             m == y[2]
  <2>1. /\ x = <<i, n>> /\ i \in DOMAIN listed /\ n \in DOMAIN listed[i].tests
        /\ y = <<j, m>> /\ j \in DOMAIN listed /\ m \in DOMAIN listed[j].tests
    BY Placed
  <2>2. listed[i].name = listed[j].name /\ listed[i].tests[n] = listed[j].tests[m]
    BY <1>2 DEF Called
  <2> HIDE DEF i, n, j, m
  <2>3. i = j
    BY <2>1, <2>2 DEF Lists
  <2>4. n = m
    BY <2>1, <2>2, <2>3 DEF Lists
  <2> QED BY <2>1, <2>3, <2>4
<1>3. ASSUME NEW k \in HeardOf PROVE \E x \in Spots : Called(x) = k
  <2>1. PICK i \in DOMAIN listed : \E n \in DOMAIN listed[i].tests :
            k = <<listed[i].name, listed[i].tests[n]>>
    BY DEF Lists
  <2>2. PICK n \in DOMAIN listed[i].tests : k = <<listed[i].name, listed[i].tests[n]>>
    BY <2>1
  <2>3. <<i, n>> \in Spots
    BY DEF Spots
  <2> QED BY <2>2, <2>3 DEF Called
<1> QED BY <1>1, <1>2, <1>3

(* Places are counted by the tests that they hold.                         *)
LEMMA PlacesCount ==
    ASSUME Lists(listed, HeardOf), IsFiniteSet(HeardOf), NEW S, S \subseteq Spots,
           NEW T, T \subseteq HeardOf, \A x \in Spots : x \in S <=> Called(x) \in T
    PROVE  Cardinality(S) = Cardinality(T)
<1> DEFINE f == [x \in S |-> Called(x)]
<1>1. f \in [S -> T]
  OBVIOUS
<1>2. \A x, y \in S : f[x] = f[y] => x = y
  BY CalledOnce
<1>3. \A k \in T : \E x \in S : f[x] = k
  BY CalledOnce
<1> HIDE DEF f
<1>4. f \in Injection(S, T)
  BY <1>1, <1>2 DEF Injection, IsInjective
<1>5. f \in Surjection(S, T)
  BY <1>1, <1>3 DEF Surjection
<1>6. IsFiniteSet(T)
  BY FS_Subset
<1> QED BY <1>4, <1>5, <1>6, FS_Injection

(* How the reports tell the verdicts.                                      *)
LEMMA Told ==
    ASSUME NEW t, NEW verdict \in TestStatus, Judged(t, verdict)
    PROVE  /\ tap_line(t)[1] = "not ok" <=> verdict = FAILED
           /\ get_status_string(t) \in {"FAILED", "ERRORED"} <=> verdict = FAILED
           /\ get_status_string(t) = SKIPPED <=> verdict = SKIPPED
<1>1. t.test_status = verdict /\ (t.crashed \/ t.timed_out => verdict = FAILED)
  BY DEF Judged
<1>2. PASSED = "PASSED" /\ FAILED = "FAILED" /\ SKIPPED = "SKIPPED"
      /\ verdict \in {"PASSED", "FAILED", "SKIPPED"}
  BY DEF PASSED, FAILED, SKIPPED, TestStatus
<1>3. CASE t.crashed \/ t.timed_out
  <2>1. verdict = "FAILED" /\ t.test_status = "FAILED"
    BY <1>1, <1>2, <1>3
  <2>2. get_status_string(t) = "ERRORED"
    BY <1>3 DEF get_status_string
  <2>3. tap_line(t)[1] = "not ok"
    BY <1>2, <1>3, <2>1 DEF tap_line
  <2> QED BY <1>2, <2>1, <2>2, <2>3
<1>4. CASE ~(t.crashed \/ t.timed_out)
  <2>1. get_status_string(t) = verdict
    BY <1>1, <1>4 DEF get_status_string
  <2>2. tap_line(t)[1] = "not ok" <=> verdict = FAILED
    BY <1>1, <1>2, <1>4 DEF tap_line
  <2> QED BY <1>2, <2>1, <2>2
<1> QED BY <1>3, <1>4

(* Each test that was seen is running, has ended or was disabled.          *)
LEMMA Verdict ==
    ASSUME Accounts, NEW k \in DOMAIN ts
    PROVE  \E verdict \in TestStatus :
              /\ Judged(ts[k], verdict)
              /\ verdict = FAILED <=> k \in Ended(FailedEnds \cup {"late die"})
              /\ verdict = SKIPPED <=> k \in Ended({"skip"}) \cup Idle
<1>0. {PASSED, FAILED, SKIPPED} = TestStatus /\ PASSED # FAILED /\ PASSED # SKIPPED
      /\ SKIPPED # FAILED
  BY DEF PASSED, FAILED, SKIPPED, TestStatus
<1>1. CASE k \in running
  <2>1. Judged(ts[k], PASSED)
    BY <1>1, FreshVerdicts DEF Accounts
  <2>2. k \notin DOMAIN how /\ k \notin Idle
    BY <1>1 DEF Accounts, Idle
  <2> QED BY <1>0, <2>1, <2>2 DEF Ended
<1>2. CASE k \in DOMAIN how
  <2>1. Judged(ts[k], VerdictOf(how[k])) /\ k \notin Idle
    BY <1>2 DEF Accounts, Idle
  <2>2. /\ VerdictOf(how[k]) = FAILED <=> how[k] \in FailedEnds \cup {"late die"}
        /\ VerdictOf(how[k]) = SKIPPED <=> how[k] = "skip"
        /\ VerdictOf(how[k]) \in TestStatus
    BY <1>0 DEF VerdictOf, FailedEnds
  <2> QED BY <1>2, <2>1, <2>2 DEF Ended
<1>3. CASE k \in Idle
  <2>1. Judged(ts[k], SKIPPED) /\ k \notin DOMAIN how
    BY <1>3 DEF Accounts, Idle
  <2> QED BY <1>0, <1>3, <2>1 DEF Ended
<1> QED BY <1>1, <1>2, <1>3 DEF Idle

LEMMA Disjoint ==
    ASSUME NEW S, NEW T, IsFiniteSet(S), IsFiniteSet(T), S \cap T = {}
    PROVE  /\ IsFiniteSet(S \cup T)
           /\ Cardinality(S \cup T) = Cardinality(S) + Cardinality(T)
<1>1. Cardinality(S) \in Nat /\ Cardinality(T) \in Nat /\ Cardinality(S \cap T) = 0
  BY FS_CardinalityType, FS_EmptySet
<1>2. /\ IsFiniteSet(S \cup T)
      /\ Cardinality(S \cup T) = Cardinality(S) + Cardinality(T) - Cardinality(S \cap T)
  BY FS_Union
<1> QED BY <1>1, <1>2

(* The sums of the tests that were heard of, by how they ended.            *)
LEMMA Sums ==
    ASSUME Accounts
    PROVE  LET fine == Kinds("tests_passed")
               skipped == Ended({"skip"}) \cup Idle
               stillborn == Ended({"stillborn"})
               failed == Ended(FailedEnds \cup {"late die"})
           IN  /\ Cardinality(HeardOf \cap failed) + Cardinality(stillborn)
                    = Cardinality(Ended(FailedEnds)) + Cardinality(Ended({"late die"}))
               /\ skipped \subseteq HeardOf
               /\ Cardinality(Ended(fine)) + Cardinality(Ended(FailedEnds))
                    + Cardinality(skipped) + Cardinality(begun)
                    = Cardinality(HeardOf) + Cardinality(stillborn)
<1> DEFINE fine == Kinds("tests_passed")
           skipped == Ended({"skip"}) \cup Idle
           stillborn == Ended({"stillborn"})
           failed == Ended(FailedEnds \cup {"late die"})
<1>0. fine = {"pass", "error", "late crash", "late die"}
  BY DEF Kinds
<1>1. \A S : S \subseteq DOMAIN ts => IsFiniteSet(S) /\ Cardinality(S) \in Nat
  BY AccountSets
<1>2. /\ running \subseteq DOMAIN ts /\ DOMAIN how \subseteq DOMAIN ts
      /\ running \cap DOMAIN how = {} /\ begun \subseteq running
      /\ \A k \in DOMAIN how : how[k] \in EndingKind
  BY AccountSets DEF Accounts
<1>3. \A E : Ended(E) \subseteq DOMAIN how
  BY DEF Ended
<1>4. /\ Idle \subseteq DOMAIN ts /\ HeardOf \subseteq DOMAIN ts
      /\ Idle \cap DOMAIN how = {} /\ Idle \cap running = {}
  BY DEF Idle, HeardOf
<1>5. stillborn \subseteq failed /\ skipped \cap stillborn = {}
  BY <1>3, <1>4 DEF Ended, FailedEnds
<1>6. skipped \subseteq HeardOf
  BY <1>2, <1>3, <1>4, <1>5 DEF HeardOf
<1>7. Cardinality(HeardOf \cap failed) + Cardinality(stillborn)
        = Cardinality(Ended(FailedEnds)) + Cardinality(Ended({"late die"}))
  <2>1. (HeardOf \cap failed) \cup stillborn = failed
    BY <1>2, <1>3, <1>5 DEF HeardOf
  <2>2. (HeardOf \cap failed) \cap stillborn = {}
    BY DEF HeardOf
  <2>3. Ended(FailedEnds) \cup Ended({"late die"}) = failed
    BY DEF Ended
  <2>4. Ended(FailedEnds) \cap Ended({"late die"}) = {}
    BY DEF Ended, FailedEnds
  <2>5. IsFiniteSet(HeardOf \cap failed) /\ IsFiniteSet(stillborn)
        /\ IsFiniteSet(Ended(FailedEnds)) /\ IsFiniteSet(Ended({"late die"}))
    BY <1>1, <1>2, <1>3, <1>4
  <2>6. Cardinality(failed) = Cardinality(HeardOf \cap failed) + Cardinality(stillborn)
    BY <2>1, <2>2, <2>5, Disjoint
  <2>7. Cardinality(failed) = Cardinality(Ended(FailedEnds)) + Cardinality(Ended({"late die"}))
    BY <2>3, <2>4, <2>5, Disjoint
  <2> QED BY <2>6, <2>7
<1>8. Cardinality(Ended(fine)) + Cardinality(Ended(FailedEnds)) + Cardinality(skipped)
         + Cardinality(begun) = Cardinality(HeardOf) + Cardinality(stillborn)
  <2> DEFINE A == Ended(fine)
             B == Ended(FailedEnds)
             C == skipped
             D == begun
  <2>1. A \cap B = {} /\ (A \cup B) \cap C = {} /\ (A \cup B \cup C) \cap D = {}
    <3>1. A \cap B = {} /\ (A \cup B) \cap Ended({"skip"}) = {}
      BY <1>0 DEF Ended, FailedEnds
    <3> QED BY <1>2, <1>3, <1>4, <3>1
  <2>2. IsFiniteSet(A) /\ IsFiniteSet(B) /\ IsFiniteSet(C) /\ IsFiniteSet(D)
        /\ Cardinality(A) \in Nat /\ Cardinality(B) \in Nat /\ Cardinality(C) \in Nat
        /\ Cardinality(D) \in Nat
    <3>1. A \subseteq DOMAIN ts /\ B \subseteq DOMAIN ts /\ C \subseteq DOMAIN ts
          /\ D \subseteq DOMAIN ts
      BY <1>2, <1>3, <1>4
    <3> HIDE DEF A, B, C, D
    <3> QED BY <1>1, <3>1
  <2>3. A \cup B \cup Ended({"skip"}) = DOMAIN how
    BY <1>0, <1>2 DEF Ended, FailedEnds, EndingKind
  <2>4. A \cup B \cup C \cup D = HeardOf \cup stillborn
    <3>1. DOMAIN ts = running \cup DOMAIN how \cup Idle
      BY <1>2 DEF Idle
    <3>2. stillborn \subseteq DOMAIN how
      BY <1>3
    <3>3. DOMAIN ts \ (running \ begun) = DOMAIN how \cup Idle \cup begun
      BY <1>2, <1>4, <3>1
    <3>4. HeardOf \cup stillborn = DOMAIN ts \ (running \ begun)
      BY <1>2, <3>2 DEF HeardOf
    <3> HIDE DEF A, B, stillborn
    <3> QED BY <2>3, <3>3, <3>4
  <2>5. HeardOf \cap stillborn = {} /\ IsFiniteSet(HeardOf) /\ IsFiniteSet(stillborn)
    BY <1>1, <1>2, <1>3, <1>4 DEF HeardOf
  <2> HIDE DEF A, B, C, D, stillborn
  <2>6. Cardinality(HeardOf \cup stillborn) = Cardinality(HeardOf) + Cardinality(stillborn)
    BY <2>5, Disjoint
  <2>7. IsFiniteSet(A \cup B) /\ Cardinality(A \cup B) = Cardinality(A) + Cardinality(B)
    BY <2>1, <2>2, Disjoint
  <2>8. /\ IsFiniteSet(A \cup B \cup C)
        /\ Cardinality(A \cup B \cup C) = Cardinality(A \cup B) + Cardinality(C)
    BY <2>1, <2>2, <2>7, Disjoint
  <2>9. Cardinality(A \cup B \cup C \cup D) = Cardinality(A \cup B \cup C) + Cardinality(D)
    BY <2>1, <2>2, <2>8, Disjoint
  <2> QED BY <2>4, <2>6, <2>7, <2>8, <2>9 DEF A, B, C, D
<1> QED BY <1>6, <1>7, <1>8

LEMMA ReportsTell == LInv => ReportsAgree
<1> SUFFICES ASSUME LInv, pc = "report" PROVE ReportsAgree
  BY DEF ReportsAgree
<1> DEFINE tap == tap_report(stats)
           xml == xml_report(stats)
           all == Places(tap)
           bad == {x \in all : Entry(tap, x).line[1] = "not ok"}
           failed == Ended(FailedEnds \cup {"late die"})
           skipped == Ended({"skip"}) \cup Idle
           skips == {x \in all : Entry(xml, x).status = SKIPPED}
<1>1. Accounts /\ Lists(listed, HeardOf)
  BY DEF LInv, EInv, AInv, Under, Listing
<1>2. IsFiniteSet(HeardOf) /\ HeardOf \subseteq DOMAIN ts
  BY <1>1, AccountSets DEF HeardOf
<1>3. all = Spots /\ Places(xml) = Spots
  BY TapPlaces, XmlPlaces
<1>4. ASSUME NEW x \in Spots
      PROVE  /\ Listed(tap, x) = Called(x) /\ Listed(xml, x) = Called(x)
             /\ Entry(tap, x).line = tap_line(ts[Called(x)])
             /\ Entry(xml, x).status = get_status_string(ts[Called(x)])
             /\ Called(x) \in HeardOf
  BY <1>1, TapPlaces, XmlPlaces, CalledOnce
<1>5. /\ tap.plan = g["nb_tests"] /\ xml.tests = g["nb_tests"]
      /\ xml.failures = g["tests_failed"] /\ xml.disabled = g["tests_skipped"]
      /\ json_report(stats).passed = g["tests_passed"]
  BY StatsListed DEF tap_report, xml_report, json_report
<1>6. /\ g["nb_tests"] = Cardinality(HeardOf)
      /\ g["tests_failed"] = Cardinality(Ended(FailedEnds))
      /\ g["tests_skipped"] = Cardinality(skipped)
      /\ g["tests_passed"] = Cardinality(Ended(Kinds("tests_passed")))
  <2>1. /\ Counted("nb_tests") = HeardOf
        /\ Counted("tests_failed") = Ended(FailedEnds)
        /\ Counted("tests_skipped") = skipped
        /\ Counted("tests_passed") = Ended(Kinds("tests_passed"))
    BY DEF Counted, Kinds
  <2> QED BY <1>1, <2>1 DEF Accounts, Tallied
<1> HIDE DEF tap, xml
<1>7. ASSUME NEW x \in Spots
      PROVE  /\ Entry(tap, x).line[1] = "not ok" <=> Called(x) \in failed
             /\ Entry(xml, x).status \in {"FAILED", "ERRORED"} <=> Called(x) \in failed
             /\ Entry(xml, x).status = SKIPPED <=> Called(x) \in skipped
  <2> DEFINE k == Called(x)
  <2>1. k \in DOMAIN ts
    BY <1>2, <1>4
  <2>2. PICK verdict \in TestStatus :
            /\ Judged(ts[k], verdict)
            /\ verdict = FAILED <=> k \in failed
            /\ verdict = SKIPPED <=> k \in skipped
    BY <1>1, <2>1, Verdict
  <2> HIDE DEF k, failed, skipped
  <2>3. /\ tap_line(ts[k])[1] = "not ok" <=> verdict = FAILED
        /\ get_status_string(ts[k]) \in {"FAILED", "ERRORED"} <=> verdict = FAILED
        /\ get_status_string(ts[k]) = SKIPPED <=> verdict = SKIPPED
    BY <2>2, Told
  <2>4. /\ Entry(tap, x).line = tap_line(ts[k])
        /\ Entry(xml, x).status = get_status_string(ts[k])
    BY <1>4 DEF k
  <2>5. Entry(tap, x).line[1] = "not ok" <=> k \in failed
    BY <2>2, <2>3, <2>4
  <2>6. Entry(xml, x).status \in {"FAILED", "ERRORED"} <=> k \in failed
    BY <2>2, <2>3, <2>4
  <2>7. Entry(xml, x).status = SKIPPED <=> k \in skipped
    BY <2>2, <2>3, <2>4
  <2> QED BY <2>5, <2>6, <2>7 DEF k
<1>8. Cardinality(all) = Cardinality(HeardOf)
  BY <1>1, <1>2, <1>3, <1>4, PlacesCount
<1>9. Cardinality(bad) = Cardinality(HeardOf \cap failed)
  <2>1. bad \subseteq Spots
    BY <1>3
  <2>2. \A x \in Spots : x \in bad <=> Called(x) \in HeardOf \cap failed
    BY <1>3, <1>4, <1>7
  <2> HIDE DEF bad, failed
  <2> QED BY <1>1, <1>2, <2>1, <2>2, PlacesCount
<1>10. /\ Cardinality(HeardOf \cap failed) + Cardinality(Ended({"stillborn"}))
            = Cardinality(Ended(FailedEnds)) + Cardinality(Ended({"late die"}))
       /\ skipped \subseteq HeardOf
       /\ Cardinality(Ended(Kinds("tests_passed"))) + Cardinality(Ended(FailedEnds))
            + Cardinality(skipped) + Cardinality(begun)
            = Cardinality(HeardOf) + Cardinality(Ended({"stillborn"}))
  BY <1>1, Sums
<1>11. Cardinality(skips) = Cardinality(skipped)
  <2>1. skips \subseteq Spots
    BY <1>3
  <2>2. \A x \in Spots : x \in skips <=> Called(x) \in skipped
    BY <1>3, <1>7
  <2> HIDE DEF skips, skipped
  <2> QED BY <1>1, <1>2, <1>10, <2>1, <2>2, PlacesCount
<1>12. {Listed(tap, x) : x \in all} = HeardOf
  BY <1>1, <1>3, <1>4, CalledOnce
<1>13. bad = {x \in all : Entry(xml, x).status \in {"FAILED", "ERRORED"}}
  BY <1>3, <1>7
<1>14. \A x, y \in all : /\ Listed(tap, x) = Listed(xml, x)
                        /\ Listed(tap, x) = Listed(tap, y) => x = y
  BY <1>1, <1>3, <1>4, CalledOnce
<1>15. {Listed(tap, x) : x \in all}
           = DOMAIN ts \ (Ended({"stillborn"}) \cup (running \ begun))
  BY <1>12 DEF HeardOf
<1> HIDE DEF all, bad, skips, failed, skipped
<1>16. tap.plan = Cardinality(all) /\ xml.tests = Cardinality(all)
  BY <1>5, <1>6, <1>8
<1>17. Cardinality(bad) + Cardinality(Ended({"stillborn"}))
          = xml.failures + Cardinality(Ended({"late die"}))
  BY <1>5, <1>6, <1>9, <1>10
<1>18. Cardinality(skips) = xml.disabled
  BY <1>5, <1>6, <1>11
<1>19. json_report(stats).passed + xml.failures + xml.disabled + Cardinality(begun)
          = xml.tests + Cardinality(Ended({"stillborn"}))
  BY <1>5, <1>6, <1>10
<1>20. Places(xml) = all
  BY <1>3
<1> QED
  BY <1>13, <1>14, <1>15, <1>16, <1>17, <1>18, <1>19, <1>20
  DEF ReportsAgree, tap, xml, all, bad, skips

(* The reports judge every test alike, list each one that was heard of     *)
(* once, and begin with the totals of their entries: print_test of the     *)
(* three reporters, over the counters of stats.c.                          *)
THEOREM ReportsAgreeAlways == SessionSpec => []ReportsAgree
BY LInit, LNext, ReportsTell, PTL DEF SessionSpec

----------------------------------------------------------------------------
(* The descriptors of the runner, and what is seen of a silenced run.      *)

\* The table with a and b on the outputs, c and d where these are saved, and
\* e where the null device is opened.
Slot(n, a, b, c, d, e) ==
    IF n = 0 THEN Terminal(0) ELSE IF n = 1 THEN a ELSE IF n = 2 THEN b
    ELSE IF n = 3 THEN c ELSE IF n = 4 THEN d ELSE IF n = 5 THEN e ELSE Closed
Slots(a, b, c, d, e) == [n \in 0 .. 7 |-> Slot(n, a, b, c, d, e)]
Silenced == Slots(Null, Null, Terminal(1), Terminal(2), Closed)
Saved    == <<3, 4>>

LEMMA Things ==
    /\ \A n : Terminal(n) # Closed /\ Terminal(n) # Null
    /\ \A m, n : Terminal(m) = Terminal(n) => m = n
    /\ Null # Closed
BY DEF Terminal, Closed, Null

LEMMA Upright == Standing = Slots(Terminal(1), Terminal(2), Closed, Closed, Closed)
BY DEF Standing, Slots, Slot, StdFd, CR_STDIN, CR_STDOUT, CR_STDERR

Put(f, n, x) == [f EXCEPT ![n] = x]

LEMMA SlotSet ==
    ASSUME NEW a, NEW b, NEW c, NEW d, NEW e, NEW x
    PROVE  /\ Put(Slots(a, b, c, d, e), 1, x) = Slots(x, b, c, d, e)
           /\ Put(Slots(a, b, c, d, e), 2, x) = Slots(a, x, c, d, e)
           /\ Put(Slots(a, b, c, d, e), 3, x) = Slots(a, b, x, d, e)
           /\ Put(Slots(a, b, c, d, e), 4, x) = Slots(a, b, c, x, e)
           /\ Put(Slots(a, b, c, d, e), 5, x) = Slots(a, b, c, d, x)
<1>0. ASSUME NEW i \in 0 .. 7
      PROVE  Put(Slots(a, b, c, d, e), i, x)
                = [n \in 0 .. 7 |-> IF n = i THEN x ELSE Slot(n, a, b, c, d, e)]
  BY DEF Slots, Put
<1>1. Put(Slots(a, b, c, d, e), 1, x) = Slots(x, b, c, d, e)
  <2>1. \A n \in 0 .. 7 : (IF n = 1 THEN x ELSE Slot(n, a, b, c, d, e))
                             = Slot(n, x, b, c, d, e)
    BY DEF Slot
  <2> QED BY <1>0, <2>1 DEF Slots
<1>2. Put(Slots(a, b, c, d, e), 2, x) = Slots(a, x, c, d, e)
  <2>1. \A n \in 0 .. 7 : (IF n = 2 THEN x ELSE Slot(n, a, b, c, d, e))
                             = Slot(n, a, x, c, d, e)
    BY DEF Slot
  <2> QED BY <1>0, <2>1 DEF Slots
<1>3. Put(Slots(a, b, c, d, e), 3, x) = Slots(a, b, x, d, e)
  <2>1. \A n \in 0 .. 7 : (IF n = 3 THEN x ELSE Slot(n, a, b, c, d, e))
                             = Slot(n, a, b, x, d, e)
    BY DEF Slot
  <2> QED BY <1>0, <2>1 DEF Slots
<1>4. Put(Slots(a, b, c, d, e), 4, x) = Slots(a, b, c, x, e)
  <2>1. \A n \in 0 .. 7 : (IF n = 4 THEN x ELSE Slot(n, a, b, c, d, e))
                             = Slot(n, a, b, c, x, e)
    BY DEF Slot
  <2> QED BY <1>0, <2>1 DEF Slots
<1>5. Put(Slots(a, b, c, d, e), 5, x) = Slots(a, b, c, d, x)
  <2>1. \A n \in 0 .. 7 : (IF n = 5 THEN x ELSE Slot(n, a, b, c, d, e))
                             = Slot(n, a, b, c, d, x)
    BY DEF Slot
  <2> QED BY <1>0, <2>1 DEF Slots
<1> QED BY <1>1, <1>2, <1>3, <1>4, <1>5

LEMMA SlotOf ==
    ASSUME NEW a, NEW b, NEW c, NEW d, NEW e
    PROVE  LET f == Slots(a, b, c, d, e)
           IN  f[1] = a /\ f[2] = b /\ f[3] = c /\ f[4] = d /\ f[5] = e
BY DEF Slots, Slot

LEMMA LowestIs ==
    ASSUME NEW f, NEW n \in Nat, n \in free(f), free(f) \subseteq Nat,
           \A m \in free(f) : n <= m
    PROVE  lowest(f) = n
BY DEF lowest, Min

LEMMA OpenAt ==
    ASSUME NEW f, NEW n, lowest(f) = n, NEW x
    PROVE  open(f, x) = Put(f, n, x)
BY DEF open, Put

(* The next number that is given out.                                      *)
LEMMA SlotOpens ==
    ASSUME NEW a, NEW b, NEW c, NEW d, NEW x, a # Closed, b # Closed
    PROVE  /\ lowest(Slots(a, b, Closed, d, Closed)) = 3
           /\ open(Slots(a, b, Closed, d, Closed), x) = Slots(a, b, x, d, Closed)
           /\ c # Closed => /\ lowest(Slots(a, b, c, Closed, Closed)) = 4
                            /\ open(Slots(a, b, c, Closed, Closed), x)
                                  = Slots(a, b, c, x, Closed)
           /\ c # Closed /\ d # Closed =>
                 /\ lowest(Slots(a, b, c, d, Closed)) = 5
                 /\ open(Slots(a, b, c, d, Closed), x) = Slots(a, b, c, d, x)
<1>1. lowest(Slots(a, b, Closed, d, Closed)) = 3
  <2> DEFINE f == Slots(a, b, Closed, d, Closed)
  <2>1. free(f) \subseteq Nat /\ 3 \in free(f)
    BY DEF free, Slots, Slot
  <2>2. \A m \in free(f) : 3 <= m
    BY Things DEF free, Slots, Slot
  <2> HIDE DEF f
  <2>3. lowest(f) = 3
    BY <2>1, <2>2, LowestIs
  <2> QED BY <2>3 DEF f
<1>2. ASSUME c # Closed PROVE lowest(Slots(a, b, c, Closed, Closed)) = 4
  <2> DEFINE f == Slots(a, b, c, Closed, Closed)
  <2>1. free(f) \subseteq Nat /\ 4 \in free(f)
    BY DEF free, Slots, Slot
  <2>2. \A m \in free(f) : 4 <= m
    BY <1>2, Things DEF free, Slots, Slot
  <2> HIDE DEF f
  <2>3. lowest(f) = 4
    BY <2>1, <2>2, LowestIs
  <2> QED BY <2>3 DEF f
<1>3. ASSUME c # Closed, d # Closed PROVE lowest(Slots(a, b, c, d, Closed)) = 5
  <2> DEFINE f == Slots(a, b, c, d, Closed)
  <2>1. free(f) \subseteq Nat /\ 5 \in free(f)
    BY DEF free, Slots, Slot
  <2>2. \A m \in free(f) : 5 <= m
    BY <1>3, Things DEF free, Slots, Slot
  <2> HIDE DEF f
  <2>3. lowest(f) = 5
    BY <2>1, <2>2, LowestIs
  <2> QED BY <2>3 DEF f
<1>4. open(Slots(a, b, Closed, d, Closed), x) = Slots(a, b, x, d, Closed)
  <2>1. Put(Slots(a, b, Closed, d, Closed), 3, x) = Slots(a, b, x, d, Closed)
    BY SlotSet
  <2> QED BY <1>1, <2>1, OpenAt
<1>5. ASSUME c # Closed
      PROVE  open(Slots(a, b, c, Closed, Closed), x) = Slots(a, b, c, x, Closed)
  <2>1. Put(Slots(a, b, c, Closed, Closed), 4, x) = Slots(a, b, c, x, Closed)
    BY SlotSet
  <2> QED BY <1>2, <1>5, <2>1, OpenAt
<1>6. ASSUME c # Closed, d # Closed
      PROVE  open(Slots(a, b, c, d, Closed), x) = Slots(a, b, c, d, x)
  <2>1. Put(Slots(a, b, c, d, Closed), 5, x) = Slots(a, b, c, d, x)
    BY SlotSet
  <2> QED BY <1>3, <1>6, <2>1, OpenAt
<1> QED BY <1>1, <1>2, <1>3, <1>4, <1>5, <1>6

(* The outputs are saved, silenced and restored.                           *)
LEMMA Silencing ==
    /\ orig_fds(Standing) = Saved
    /\ cri_silence_outputs(Standing) = Silenced
    /\ cri_restore_outputs(Silenced, Saved) = Standing
<1> DEFINE T1 == Terminal(1)
           T2 == Terminal(2)
<1>0. T1 # Closed /\ T2 # Closed /\ Null # Closed
  BY Things
<1> HIDE DEF T1, T2
<1>1. Standing = Slots(T1, T2, Closed, Closed, Closed)
  BY Upright DEF T1, T2
<1>2. /\ lowest(Standing) = 3
      /\ dup(Standing, CR_STDOUT) = Slots(T1, T2, T1, Closed, Closed)
  <2>1. Standing[1] = T1
    BY <1>1, SlotOf
  <2>2. /\ lowest(Standing) = 3
        /\ open(Standing, T1) = Slots(T1, T2, T1, Closed, Closed)
    BY <1>0, <1>1, SlotOpens
  <2> QED BY <2>1, <2>2 DEF dup, CR_STDOUT
<1>3. /\ lowest(Slots(T1, T2, T1, Closed, Closed)) = 4
      /\ dup(Slots(T1, T2, T1, Closed, Closed), CR_STDERR)
            = Slots(T1, T2, T1, T2, Closed)
  <2>1. Slots(T1, T2, T1, Closed, Closed)[2] = T2
    BY SlotOf
  <2>2. /\ lowest(Slots(T1, T2, T1, Closed, Closed)) = 4
        /\ open(Slots(T1, T2, T1, Closed, Closed), T2) = Slots(T1, T2, T1, T2, Closed)
    BY <1>0, SlotOpens
  <2> QED BY <2>1, <2>2 DEF dup, CR_STDERR
<1>4. /\ lowest(Slots(T1, T2, T1, T2, Closed)) = 5
      /\ open(Slots(T1, T2, T1, T2, Closed), Null) = Slots(T1, T2, T1, T2, Null)
      /\ lowest(Slots(Null, T2, T1, T2, Closed)) = 5
      /\ open(Slots(Null, T2, T1, T2, Closed), Null) = Slots(Null, T2, T1, T2, Null)
  BY <1>0, SlotOpens
<1>5. file_std_redirect(Slots(T1, T2, T1, T2, Null), 5, 1)
         = Slots(Null, T2, T1, T2, Closed)
  BY <1>0, SlotSet, SlotOf, SMTT(30) DEF file_std_redirect, dup2, close, Put
<1>6. file_std_redirect(Slots(Null, T2, T1, T2, Null), 5, 2)
         = Slots(Null, Null, T1, T2, Closed)
  BY <1>0, SlotSet, SlotOf DEF file_std_redirect, dup2, close, Put
<1>7. orig_fds(Standing) = Saved
  BY <1>2, <1>3 DEF orig_fds, Saved
<1>8. cri_silence_outputs(Standing) = Slots(Null, Null, T1, T2, Closed)
  BY <1>2, <1>3, <1>4, <1>5, <1>6 DEF cri_silence_outputs, CR_STDOUT, CR_STDERR
<1>9. cri_restore_outputs(Slots(Null, Null, T1, T2, Closed), Saved) = Standing
  <2>1. Saved[1] = 3 /\ Saved[2] = 4
    BY DEF Saved
  <2>2. dup2(Slots(Null, Null, T1, T2, Closed), 3, 1) = Slots(T1, Null, T1, T2, Closed)
    BY <1>0, SlotSet, SlotOf DEF dup2, Put
  <2>3. close(Slots(T1, Null, T1, T2, Closed), 3) = Slots(T1, Null, Closed, T2, Closed)
    BY SlotSet DEF close, Put
  <2>4. dup2(Slots(T1, Null, Closed, T2, Closed), 4, 2)
           = Slots(T1, T2, Closed, T2, Closed)
    BY <1>0, SlotSet, SlotOf DEF dup2, Put
  <2>5. close(Slots(T1, T2, Closed, T2, Closed), 4) = Standing
    <3>1. close(Slots(T1, T2, Closed, T2, Closed), 4)
             = Put(Slots(T1, T2, Closed, T2, Closed), 4, Closed)
      BY DEF close, Put
    <3> QED BY <1>1, <3>1, SlotSet
  <2> QED BY <2>1, <2>2, <2>3, <2>4, <2>5 DEF cri_restore_outputs, CR_STDOUT, CR_STDERR
<1> QED BY <1>7, <1>8, <1>9 DEF Silenced, T1, T2

\* What was seen is still all there is.
Unseen(seen, more) ==
    DOMAIN more = DOMAIN seen /\ \A n \in DOMAIN seen : more[n] = seen[n]

LEMMA SilentShown ==
    ASSUME NEW fd \in {CR_STDOUT, CR_STDERR}, NEW seen, NEW more, NEW items,
           Unseen(seen, more)
    PROVE  Unseen(seen, shown(more, Silenced, fd, items))
<1>1. Silenced[fd] = Null
  BY DEF Silenced, Slots, Slot, CR_STDOUT, CR_STDERR
<1>2. \A n : Silenced[fd] # Terminal(n)
  BY <1>1, Things
<1> HIDE DEF Silenced
<1> QED BY <1>2 DEF shown, Unseen

LEMMA SilentLog ==
    ASSUME NEW seen, NEW more, Unseen(seen, more), NEW o, NEW lines
    PROVE  Unseen(seen, logged(more, Silenced, o, lines))
BY SilentShown DEF logged

(* A run that is silenced shows nothing of its tests.                      *)
LEMMA SilentRun ==
    ASSUME RunTests, fds = Silenced
    PROVE  Unseen(term, term')
<1>0. Unseen(term, term)
  BY DEF Unseen
<1>1. ASSUME NEW lines, Log(lines) PROVE Unseen(term, term')
  BY <1>0, <1>1, SilentLog DEF Log
<1>2. term' = term => Unseen(term, term')
  BY <1>0
<1>3. CASE EnterSuite
  BY <1>1, <1>2, <1>3 DEF EnterSuite
<1>4. CASE SkipDisabled
  BY <1>1, <1>4 DEF SkipDisabled
<1>5. CASE Spawn \/ LeaveSuite \/ RunEnds
  BY <1>2, <1>5 DEF Spawn, LeaveSuite, RunEnds, outVars
<1>6. ASSUME NEW k \in running, Begin(k) PROVE Unseen(term, term')
  BY <1>1, <1>6 DEF Begin
<1>7. ASSUME NEW k \in running, NEW end \in Endings, End(k, end)
      PROVE  Unseen(term, term')
  <2> DEFINE more == IF end = "stillborn" THEN term
                     ELSE shown(term, fds, CR_STDOUT, {Printed(k)})
  <2>1. Unseen(term, more)
    BY <1>0, SilentShown
  <2>2. term' = logged(more, fds, cmd.opt, end_lines(k, ts'[k], end))
    BY <1>7 DEF End
  <2> HIDE DEF more
  <2> QED BY <2>1, <2>2, SilentLog
<1> QED BY <1>3, <1>4, <1>5, <1>6, <1>7 DEF RunTests

----------------------------------------------------------------------------
(* Where the reports go.                                                   *)

Entries == {cmd.outputs[i] : i \in Requested}
Wanted(fd) == {Reported(report_of(p, stats)) : p \in Asked(Stream(fd))}
InFile(path) == path \notin Dirs \cup Streams /\ <<path>> \in DOMAIN fs

\* The report that output i asks for is where it belongs.
Arrived(i) ==
    LET o == cmd.outputs[i]
        r == report_of(o.provider, stats)
    IN  /\ o.path = "-" => Reported(r) \in term[CR_STDOUT]
        /\ o.path = "/dev/stderr" => Reported(r) \in term[CR_STDERR]
        /\ InFile(o.path) => \E p \in Asked(o.path) : fs[<<o.path>>] = report_of(p, stats)

Muted ==
    IF quiet(cmd.opt)
    THEN fds = Silenced /\ orig = Saved /\ Hushed
    ELSE fds = Standing
Writing ==
    /\ fds = Standing
    /\ pend \in Seq(Entries)
    /\ \A i \in Requested : Arrived(i) \/ \E n \in DOMAIN pend : pend[n] = cmd.outputs[i]
    /\ quiet(cmd.opt) => \A fd \in {CR_STDOUT, CR_STDERR} :
                            \A l \in term[fd] \ Wanted(fd) : Remark(l, fd)
    /\ pc = "gone" => pend = <<>>
Streaming ==
    /\ DOMAIN term = {CR_STDOUT, CR_STDERR}
    /\ pc \in {"run", "finish"} => Muted
    /\ pc \in {"report", "gone"} /\ ~stopped => Writing

OInv == SInv /\ (Under => Streaming)

(* What is asked for, and what the reports say, is settled.                *)
LEMMA Settles ==
    ASSUME cmd' = cmd, UNCHANGED statVars
    PROVE  /\ stats' = stats /\ Requested' = Requested /\ Entries' = Entries
           /\ \A path : Asked(path)' = Asked(path)
           /\ \A fd : Wanted(fd)' = Wanted(fd)
<1>1. stats' = stats
  BY DEF stats, statVars
<1>2. Requested' = Requested
  BY DEF Requested
<1>3. ASSUME NEW path PROVE Asked(path)' = Asked(path)
  BY <1>2 DEF Asked, Asking, reporter
<1>4. ASSUME NEW fd PROVE Wanted(fd)' = Wanted(fd)
  BY <1>1, <1>3 DEF Wanted, Stream
<1> QED BY <1>1, <1>2, <1>3, <1>4 DEF Entries

(* The log of a quiet run is empty.                                        *)
LEMMA QuietLog ==
    ASSUME NEW o, o.logging_threshold = CRITERION_LOG_LEVEL_QUIET,
           NEW lines, \A l \in lines : l[1] \in {INFO, IMPORTANT},
           NEW seen, NEW f
    PROVE  Unseen(seen, logged(seen, f, o, lines))
<1>1. printed(lines, o.logging_threshold) = {}
  BY DEF printed, INFO, IMPORTANT, CRITERION_LOG_LEVEL_QUIET
<1> QED BY <1>1 DEF logged, shown, Unseen

\* One stream shows more, the other what it did.
Adding(seen, more, fd, items) ==
    /\ DOMAIN more = {CR_STDOUT, CR_STDERR}
    /\ \A n \in {CR_STDOUT, CR_STDERR} :
          more[n] = IF n = fd THEN seen[n] \cup items ELSE seen[n]

LEMMA StreamShown ==
    ASSUME NEW seen, DOMAIN seen = {CR_STDOUT, CR_STDERR},
           NEW fd \in {CR_STDOUT, CR_STDERR}, NEW items
    PROVE  Adding(seen, shown(seen, Standing, fd, items), fd, items)
<1>1. Standing[fd] = Terminal(fd)
  BY DEF Standing, StdFd, CR_STDOUT, CR_STDERR
<1> HIDE DEF Standing
<1> QED BY <1>1, Things DEF shown, Adding

(* One report is written.                                                  *)
LEMMA ReportGoes ==
    ASSUME fds = Standing, DOMAIN term = {CR_STDOUT, CR_STDERR}, NEW o, Write(o)
    PROVE  LET r == Reported(report_of(o.provider, stats))
           IN  /\ DOMAIN term' = {CR_STDOUT, CR_STDERR}
               /\ \A fd \in {CR_STDOUT, CR_STDERR} :
                     /\ term[fd] \subseteq term'[fd]
                     /\ o.path = Stream(fd) => r \in term'[fd]
                     /\ quiet(cmd.opt) =>
                           \A l \in term'[fd] : \/ l \in term[fd]
                                                \/ l = r /\ o.path = Stream(fd)
<1> DEFINE r == Reported(report_of(o.provider, stats))
           note(level) == logged(term, fds, cmd.opt, {Line(level, "output", <<o.path>>)})
<1>1. ASSUME NEW level \in {INFO, IMPORTANT}
      PROVE  /\ DOMAIN note(level) = {CR_STDOUT, CR_STDERR}
             /\ \A fd \in {CR_STDOUT, CR_STDERR} :
                   /\ term[fd] \subseteq note(level)[fd]
                   /\ quiet(cmd.opt) => note(level)[fd] = term[fd]
  <2> DEFINE lines == {Line(level, "output", <<o.path>>)}
  <2>1. Grown(term, note(level))
    BY LoggedGrows DEF Grown
  <2>2. \A l \in lines : l[1] \in {INFO, IMPORTANT}
    BY DEF Line
  <2> HIDE DEF lines
  <2>3. quiet(cmd.opt) => Unseen(term, logged(term, fds, cmd.opt, lines))
    BY <2>2, QuietLog DEF quiet
  <2> QED BY <2>1, <2>3 DEF Grown, Unseen, lines
<1> DEFINE plain == note(INFO)
<1>2. /\ DOMAIN plain = {CR_STDOUT, CR_STDERR}
      /\ \A fd \in {CR_STDOUT, CR_STDERR} :
            term[fd] \subseteq plain[fd] /\ (quiet(cmd.opt) => plain[fd] = term[fd])
  BY <1>1
<1>3. \/ o.path = "-" /\ term' = shown(plain, fds, CR_STDOUT, {r})
      \/ o.path = "/dev/stderr" /\ term' = shown(plain, fds, CR_STDERR, {r})
      \/ o.path \notin Streams /\ \E level \in {INFO, IMPORTANT} : term' = note(level)
  BY DEF Write, Streams
<1> HIDE DEF note, plain, r
<1>4. ASSUME NEW fd \in {CR_STDOUT, CR_STDERR}, o.path = Stream(fd),
             term' = shown(plain, fds, fd, {r})
      PROVE  Adding(plain, term', fd, {r})
  BY <1>2, <1>4, StreamShown
<1>5. \A fd \in {CR_STDOUT, CR_STDERR} : Stream(fd) \in Streams
  BY DEF Stream, Streams
<1>6. \A m, n \in {CR_STDOUT, CR_STDERR} : Stream(m) = Stream(n) => m = n
  BY DEF Stream, CR_STDOUT, CR_STDERR
<1>7. ASSUME NEW fd \in {CR_STDOUT, CR_STDERR}, o.path = Stream(fd),
             term' = shown(plain, fds, fd, {r})
      PROVE  /\ DOMAIN term' = {CR_STDOUT, CR_STDERR}
             /\ \A n \in {CR_STDOUT, CR_STDERR} :
                   /\ term[n] \subseteq term'[n]
                   /\ o.path = Stream(n) => r \in term'[n]
                   /\ quiet(cmd.opt) =>
                         \A l \in term'[n] : \/ l \in term[n]
                                             \/ l = r /\ o.path = Stream(n)
  BY <1>2, <1>4, <1>6, <1>7 DEF Adding
<1>8. Stream(CR_STDOUT) = "-" /\ Stream(CR_STDERR) = "/dev/stderr"
  BY DEF Stream, CR_STDOUT, CR_STDERR
<1>9. CASE o.path \notin Streams /\ \E level \in {INFO, IMPORTANT} : term' = note(level)
  BY <1>1, <1>5, <1>9 DEF r
<1> QED BY <1>3, <1>7, <1>8, <1>9 DEF r

LEMMA FilesKept ==
    ASSUME NEW o, Write(o), NEW path, InFile(path)
    PROVE  /\ DOMAIN fs' = DOMAIN fs
           /\ fs'[<<path>>] = IF o.path = path THEN report_of(o.provider, stats)
                              ELSE fs[<<path>>]
<1> DEFINE name == file_of(fs, Dirs, o.path, o.provider)
           r == report_of(o.provider, stats)
<1>1. \/ o.path \in Streams /\ fs' = fs
      \/ o.path \notin Streams /\ name \in DOMAIN fs /\ fs' = [fs EXCEPT ![name] = r]
      \/ o.path \notin Streams /\ name \notin DOMAIN fs /\ fs' = fs
  BY DEF Write, Streams
<1>2. o.path \notin Dirs => name = <<o.path>>
  BY DEF file_of
<1>3. o.path \in Dirs => name # <<path>>
  BY DEF file_of, cri_path_gen_unique_filename, Numbered
<1>4. <<o.path>> = <<path>> => o.path = path
  OBVIOUS
<1>5. path \notin Dirs \cup Streams /\ <<path>> \in DOMAIN fs
  BY DEF InFile
<1> HIDE DEF name, r
<1> QED BY <1>1, <1>2, <1>3, <1>4, <1>5 DEF r

(* A walk comes past every output that is asked for.                       *)
LEMMA WalkCovers ==
    ASSUME IsCommand(cmd), NEW w \in Walks
    PROVE  /\ w \in Bijection(1 .. Cardinality(Requested), Requested)
           /\ Cardinality(Requested) \in Nat
<1> DEFINE n == Cardinality(Requested)
<1>1. cmd.outputs \in Seq({cmd.outputs[i] : i \in DOMAIN cmd.outputs})
  BY DEF IsCommand, IsSequence
<1>2. Len(cmd.outputs) \in Nat /\ DOMAIN cmd.outputs = 1 .. Len(cmd.outputs)
  BY <1>1
<1>3. Requested \subseteq 1 .. Len(cmd.outputs)
  BY <1>2 DEF Requested
<1>4. IsFiniteSet(Requested)
  <2>1. IsFiniteSet(1 .. Len(cmd.outputs))
    BY <1>2, FS_Interval
  <2> QED BY <1>3, <2>1, FS_Subset
<1>5. n \in Nat
  BY <1>4, FS_CardinalityType
<1>6. /\ w \in [1 .. n -> Requested]
      /\ \A i, j \in 1 .. n : i < j => w[i] # w[j]
  <2>1. /\ w \in [1 .. n -> Requested]
        /\ \A i, j \in DOMAIN w : i < j =>
              /\ reporter(w[i]) = reporter(w[j]) => w[i] < w[j]
    BY DEF Walks
  <2> HIDE DEF n
  <2>2. ASSUME NEW i \in 1 .. n, NEW j \in 1 .. n, i < j, w[i] = w[j] PROVE FALSE
    <3>1. w[i] < w[j]
      BY <2>1, <2>2
    <3>2. w[i] \in Nat
      <4>1. w[i] \in Requested
        BY <2>1
      <4>2. w[i] \in 1 .. Len(cmd.outputs)
        BY <1>3, <4>1
      <4> QED BY <1>2, <4>2
    <3> QED BY <2>2, <3>1, <3>2
  <2> QED BY <2>1, <2>2
<1>7. w \in Injection(1 .. n, Requested)
  <2> HIDE DEF n
  <2>1. \A i, j \in 1 .. n : w[i] = w[j] => i = j
    <3> SUFFICES ASSUME NEW i \in 1 .. n, NEW j \in 1 .. n, w[i] = w[j], i # j
                 PROVE  FALSE
      OBVIOUS
    <3>1. i < j \/ j < i
      BY <1>5
    <3> QED BY <1>6, <3>1
  <2> QED BY <1>6, <2>1 DEF Injection, IsInjective
<1>8. Cardinality(1 .. n) = n
  BY <1>5, FS_Interval
<1> HIDE DEF n
<1>9. w \in Surjection(1 .. n, Requested)
  BY <1>4, <1>7, <1>8, FS_Injection DEF n
<1> QED BY <1>5, <1>7, <1>9 DEF Bijection, n

LEMMA OInit == SessionInit => OInv
BY SInit DEF OInv, SessionInit, Under

LEMMA FinishAsks ==
    ASSUME IsCommand(cmd), Finish
    PROVE  /\ pend' \in Seq(Entries)
           /\ \A i \in Requested : \E n \in DOMAIN pend' : pend'[n] = cmd.outputs[i]
<1>1. PICK w \in Walks : pend' = [i \in DOMAIN w |-> cmd.outputs[w[i]]]
  BY DEF Finish
<1> DEFINE n == Cardinality(Requested)
<1>2. n \in Nat /\ w \in [1 .. n -> Requested]
      /\ \A i \in Requested : \E k \in 1 .. n : w[k] = i
  BY WalkCovers DEF Bijection, Injection, Surjection
<1> HIDE DEF n
<1>3. pend' = [k \in 1 .. n |-> cmd.outputs[w[k]]]
  BY <1>1, <1>2
<1>4. \A k \in 1 .. n : cmd.outputs[w[k]] \in Entries
  BY <1>2 DEF Entries
<1>5. pend' \in Seq(Entries)
  <2> DEFINE E(k) == cmd.outputs[w[k]]
  <2>1. \A k \in 1 .. n : E(k) \in Entries
    BY <1>4
  <2> HIDE DEF E
  <2>2. [k \in 1 .. n |-> E(k)] \in Seq(Entries)
    BY <1>2, <2>1
  <2> QED BY <1>3, <2>2 DEF E
<1>6. ASSUME NEW i \in Requested
      PROVE  \E k \in DOMAIN pend' : pend'[k] = cmd.outputs[i]
  <2>1. PICK k \in 1 .. n : w[k] = i
    BY <1>2
  <2> QED BY <1>3, <2>1
<1> QED BY <1>5, <1>6

LEMMA OutputsWritten ==
    ASSUME Writing, DOMAIN term = {CR_STDOUT, CR_STDERR}, WriteReport
    PROVE  Writing' /\ DOMAIN term' = {CR_STDOUT, CR_STDERR}
<1> DEFINE o == Head(pend)
<1>1. /\ pend # <<>> /\ pend' = Tail(pend) /\ Write(o)
      /\ cmd' = cmd /\ UNCHANGED statVars /\ fds' = fds /\ pc = "report" /\ pc' = pc
  BY DEF WriteReport, inputVars
<1>2. /\ stats' = stats /\ Requested' = Requested /\ Entries' = Entries
      /\ \A path : Asked(path)' = Asked(path)
      /\ \A fd : Wanted(fd)' = Wanted(fd)
  BY <1>1, Settles
<1>3. pend \in Seq(Entries) /\ fds = Standing
  BY DEF Writing
<1>4. o \in Entries /\ pend' \in Seq(Entries)
  BY <1>1, <1>3
<1>5. \A n \in DOMAIN pend : pend[n] = o \/ \E m \in DOMAIN pend' : pend'[m] = pend[n]
  <2> SUFFICES ASSUME NEW n \in DOMAIN pend, n # 1
               PROVE  \E m \in DOMAIN pend' : pend'[m] = pend[n]
    BY <1>3
  <2>1. n \in 2 .. Len(pend)
    BY <1>3
  <2> DEFINE m == n - 1
  <2>2. m \in 1 .. Len(pend) - 1 /\ n = m + 1
    BY <2>1
  <2> HIDE DEF m
  <2>3. m \in DOMAIN pend' /\ pend'[m] = pend[n]
    BY <1>1, <1>3, <2>2
  <2> QED BY <2>3
<1>6. PICK a \in Requested : o = cmd.outputs[a]
  BY <1>4 DEF Entries
<1>7. o.provider \in Asked(o.path)
  <2>1. a \in Asking(o.provider, o.path) /\ o.provider \in Providers
    BY <1>6 DEF Asking, reporter, Requested
  <2> QED BY <2>1 DEF Asked
<1> HIDE DEF o
<1> DEFINE r == Reported(report_of(o.provider, stats))
<1>8. /\ DOMAIN term' = {CR_STDOUT, CR_STDERR}
      /\ \A fd \in {CR_STDOUT, CR_STDERR} :
            /\ term[fd] \subseteq term'[fd]
            /\ o.path = Stream(fd) => r \in term'[fd]
            /\ quiet(cmd.opt) =>
                  \A l \in term'[fd] : l \in term[fd] \/ (l = r /\ o.path = Stream(fd))
  BY <1>1, <1>3, ReportGoes
<1>9. ASSUME NEW path, InFile(path)
      PROVE  /\ DOMAIN fs' = DOMAIN fs
             /\ fs'[<<path>>] = IF o.path = path THEN report_of(o.provider, stats)
                                ELSE fs[<<path>>]
  BY <1>1, <1>9, FilesKept
<1>10. DOMAIN fs' = DOMAIN fs
  BY <1>1 DEF Write
<1>11. ASSUME NEW path PROVE InFile(path)' <=> InFile(path)
  BY <1>10 DEF InFile
<1>12. Stream(CR_STDOUT) = "-" /\ Stream(CR_STDERR) = "/dev/stderr"
  BY DEF Stream, CR_STDOUT, CR_STDERR
<1>13. ASSUME NEW i \in Requested, Arrived(i) \/ cmd.outputs[i] = o
       PROVE  Arrived(i)'
  <2> DEFINE q == cmd.outputs[i]
             s == Reported(report_of(q.provider, stats))
  <2>1. cmd'.outputs[i] = q /\ stats' = stats
    BY <1>1, <1>2
  <2>2. q.path = "-" => s \in term'[CR_STDOUT]
    BY <1>8, <1>12, <1>13 DEF Arrived
  <2>3. q.path = "/dev/stderr" => s \in term'[CR_STDERR]
    BY <1>8, <1>12, <1>13 DEF Arrived
  <2>4. ASSUME InFile(q.path)
        PROVE  \E p \in Asked(q.path) : fs'[<<q.path>>] = report_of(p, stats)
    <3>1. CASE o.path = q.path
      BY <1>7, <1>9, <2>4, <3>1
    <3>2. CASE o.path # q.path
      <4>1. Arrived(i)
        BY <1>13, <3>2
      <4>2. PICK p \in Asked(q.path) : fs[<<q.path>>] = report_of(p, stats)
        BY <2>4, <4>1 DEF Arrived
      <4> QED BY <1>9, <2>4, <3>2, <4>2
    <3> QED BY <3>1, <3>2
  <2> HIDE DEF q, s
  <2> QED BY <1>2, <1>11, <2>1, <2>2, <2>3, <2>4 DEF Arrived, s
<1>14. ASSUME NEW i \in Requested
       PROVE  Arrived(i)' \/ \E n \in DOMAIN pend' : pend'[n] = cmd.outputs[i]
  <2>1. CASE Arrived(i)
    BY <1>13, <2>1
  <2>2. CASE \E n \in DOMAIN pend : pend[n] = cmd.outputs[i]
    BY <1>5, <1>13, <2>2
  <2> QED BY <2>1, <2>2 DEF Writing
<1>15. ASSUME quiet(cmd.opt), NEW fd \in {CR_STDOUT, CR_STDERR}
       PROVE  \A l \in term'[fd] \ Wanted(fd) : Remark(l, fd)
  <2>1. \A l \in term[fd] \ Wanted(fd) : Remark(l, fd)
    BY <1>15 DEF Writing
  <2>2. o.path = Stream(fd) => r \in Wanted(fd)
    BY <1>7 DEF Wanted
  <2> QED BY <1>8, <1>15, <2>1, <2>2
<1> QED BY <1>1, <1>2, <1>3, <1>4, <1>8, <1>14, <1>15 DEF Writing, Remark

LEMMA ONext == OInv /\ [SessionNext]_sessionVars => OInv'
<1> SUFFICES ASSUME OInv, [SessionNext]_sessionVars, Under' PROVE Streaming'
  BY SNext DEF OInv
<1>1. SInv /\ (Under => Streaming) /\ IsCommand(cmd)
  BY DEF OInv, SInv, CInv, Commanded
<1>2. CASE Start
  <2> DEFINE o == debug_options(cmd.opt)
  <2>1. /\ cmd' = [cmd EXCEPT !.opt = o] /\ pc = "start" /\ pc' = "run"
        /\ term' = logged(term, fds', o, normal_log_pre_all)
        /\ IF quiet(o) THEN orig' = orig_fds(fds) /\ fds' = cri_silence_outputs(fds)
                       ELSE fds' = fds
    BY <1>2 DEF Start
  <2> HIDE DEF o
  <2>2. Untouched
    BY <1>1, <2>1 DEF SInv, Stage, Late
  <2>3. cmd'.opt = o
    BY <1>1, <2>1 DEF IsCommand, CommandFields
  <2>4. fds = Standing /\ DOMAIN term = {CR_STDOUT, CR_STDERR} /\ Hushed
    BY <2>2 DEF Untouched, Hushed
  <2>5. DOMAIN term' = {CR_STDOUT, CR_STDERR}
    BY <2>1, <2>4, LoggedGrows DEF Grown
  <2>6. CASE quiet(o)
    <3>1. orig' = Saved /\ fds' = Silenced
      BY <2>1, <2>4, <2>6, Silencing
    <3>2. Unseen(term, term')
      BY <2>1, <3>1, SilentLog DEF Unseen
    <3>3. Hushed'
      BY <2>4, <2>5, <3>2 DEF Unseen, Hushed, Remark
    <3> QED BY <2>1, <2>3, <2>5, <2>6, <3>1, <3>3 DEF Streaming, Muted
  <2>7. CASE ~quiet(o)
    BY <2>1, <2>3, <2>4, <2>5, <2>7 DEF Streaming, Muted
  <2> QED BY <2>6, <2>7
<1>3. CASE pc = "run" /\ RunTests
  <2>1. /\ Streaming /\ Muted /\ cmd' = cmd /\ fds' = fds /\ pc' \in {"run", "finish"}
        /\ DOMAIN term = {CR_STDOUT, CR_STDERR}
    BY <1>1, <1>3, Kept DEF Under, Streaming
  <2>2. orig' = orig
    BY <1>3 DEF RunTests, EnterSuite, SkipDisabled, Spawn, LeaveSuite, RunEnds, Begin,
                End, outVars
  <2>3. DOMAIN term' = {CR_STDOUT, CR_STDERR}
    BY <1>3, <2>1, TermGrows DEF Grown
  <2>4. quiet(cmd.opt) => Unseen(term, term')
    BY <1>3, <2>1, SilentRun DEF Muted
  <2>5. quiet(cmd.opt) => Hushed'
    BY <2>1, <2>3, <2>4 DEF Muted, Unseen, Hushed, Remark
  <2> QED BY <2>1, <2>2, <2>3, <2>5 DEF Streaming, Muted
<1>4. CASE Under /\ Finish
  <2>1. /\ Streaming /\ Muted /\ cmd' = cmd /\ pc' = "report" /\ term' = term
        /\ UNCHANGED statVars /\ stopped' = stopped
        /\ IF ~stopped /\ quiet(cmd.opt) THEN fds' = cri_restore_outputs(fds, orig)
                                        ELSE fds' = fds
    BY <1>1, <1>4 DEF Finish, Streaming
  <2>2. /\ pend' \in Seq(Entries)
        /\ \A i \in Requested : \E n \in DOMAIN pend' : pend'[n] = cmd.outputs[i]
    BY <1>1, <1>4, FinishAsks
  <2>3. Requested' = Requested /\ Entries' = Entries
    BY <2>1, Settles
  <2>4. ~stopped => fds' = Standing
    BY <2>1, Silencing DEF Muted
  <2>5. quiet(cmd.opt) => \A fd \in {CR_STDOUT, CR_STDERR} :
                            \A l \in term'[fd] : Remark(l, fd)
    BY <2>1 DEF Muted, Hushed
  <2>6. ~stopped => Writing'
    BY <2>1, <2>2, <2>3, <2>4, <2>5 DEF Writing, Remark
  <2> QED BY <2>1, <2>6 DEF Streaming
<1>5. CASE Under /\ WriteReport
  <2>1. /\ Streaming /\ pc = "report" /\ pc' = pc /\ stopped' = stopped
        /\ DOMAIN term = {CR_STDOUT, CR_STDERR}
    BY <1>1, <1>5 DEF WriteReport, Streaming
  <2>2. ~stopped => Writing' /\ DOMAIN term' = {CR_STDOUT, CR_STDERR}
    BY <1>5, <2>1, OutputsWritten DEF Streaming
  <2>3. DOMAIN term' = {CR_STDOUT, CR_STDERR}
    BY <1>5, <2>1, TermGrows DEF Grown, Conclude
  <2> QED BY <2>1, <2>2, <2>3 DEF Streaming
<1>6. CASE Under /\ Return
  <2>1. /\ Streaming /\ pc = "report" /\ pc' = "gone" /\ stopped' = stopped
        /\ pend = <<>> /\ pend' = pend /\ fds' = fds /\ fs' = fs /\ cmd' = cmd
        /\ UNCHANGED statVars /\ term' = logged(term, fds, cmd.opt, normal_log_post_all)
    BY <1>1, <1>6 DEF Return, Leave, Log
  <2>2. Grown(term, term') /\ DOMAIN term = {CR_STDOUT, CR_STDERR}
    BY <2>1, LoggedGrows DEF Grown, Streaming
  <2>3. ASSUME ~stopped PROVE Writing'
    <3>1. Writing
      BY <2>1, <2>3 DEF Streaming
    <3>2. /\ stats' = stats /\ Requested' = Requested /\ Entries' = Entries
          /\ \A path : Asked(path)' = Asked(path)
          /\ \A fd : Wanted(fd)' = Wanted(fd)
      BY <2>1, Settles
    <3>3. ASSUME NEW i \in Requested PROVE Arrived(i)'
      <4>1. Arrived(i)
        BY <2>1, <3>1 DEF Writing
      <4>2. \A path : InFile(path)' <=> InFile(path)
        BY <2>1 DEF InFile
      <4>3. /\ term[CR_STDOUT] \subseteq term'[CR_STDOUT]
            /\ term[CR_STDERR] \subseteq term'[CR_STDERR]
        BY <2>2 DEF Grown
      <4> QED BY <2>1, <3>2, <4>1, <4>2, <4>3 DEF Arrived
    <3>4. quiet(cmd.opt) => Unseen(term, term')
      <4>1. \A l \in normal_log_post_all : l[1] \in {INFO, IMPORTANT}
        BY DEF normal_log_post_all, Line
      <4> QED BY <2>1, <4>1, QuietLog DEF quiet
    <3>5. ASSUME quiet(cmd.opt), NEW fd \in {CR_STDOUT, CR_STDERR}
          PROVE  \A l \in term'[fd] \ Wanted(fd) : Remark(l, fd)
      BY <2>2, <3>1, <3>4, <3>5 DEF Unseen, Writing
    <3> QED BY <2>1, <3>1, <3>2, <3>3, <3>5 DEF Writing, Remark
  <2> QED BY <2>1, <2>2, <2>3 DEF Streaming, Grown
<1>7. CASE Under /\ UNCHANGED sessionVars
  <2>1. /\ Streaming /\ cmd' = cmd /\ pc' = pc /\ term' = term /\ fds' = fds
        /\ orig' = orig /\ fs' = fs /\ pend' = pend /\ stopped' = stopped
        /\ UNCHANGED statVars
    BY <1>1, <1>7 DEF sessionVars, statVars
  <2>2. /\ stats' = stats /\ Requested' = Requested /\ Entries' = Entries
        /\ \A path : Asked(path)' = Asked(path)
        /\ \A fd : Wanted(fd)' = Wanted(fd)
    BY <2>1, Settles
  <2>3. \A path : InFile(path)' <=> InFile(path)
    BY <2>1 DEF InFile
  <2>4. \A i : Arrived(i)' <=> Arrived(i)
    BY <2>1, <2>2, <2>3 DEF Arrived
  <2>5. Writing' <=> Writing
    BY <2>1, <2>2, <2>4 DEF Writing, Remark
  <2> QED BY <2>1, <2>5 DEF Streaming, Muted, Hushed, Remark
<1> QED BY <1>2, <1>3, <1>4, <1>5, <1>6, <1>7, Turns DEF Conclude

LEMMA ReportsArrive == OInv => Delivered
<1> SUFFICES ASSUME OInv, Complete PROVE Delivered
  BY DEF Delivered
<1>1. Under /\ pc = "gone" /\ ~stopped
  BY DEF Complete, Under
<1>2. Writing /\ DOMAIN term = {CR_STDOUT, CR_STDERR} /\ pend = <<>>
  BY <1>1 DEF OInv, Streaming, Writing
<1>3. \A i \in Requested : Arrived(i)
  BY <1>2 DEF Writing
<1>4. ASSUME NEW fd \in {CR_STDOUT, CR_STDERR} PROVE Wanted(fd) \subseteq term[fd]
  <2> SUFFICES ASSUME NEW p \in Asked(Stream(fd))
               PROVE  Reported(report_of(p, stats)) \in term[fd]
    BY DEF Wanted
  <2>1. PICK i \in Requested : reporter(i) = p /\ cmd.outputs[i].path = Stream(fd)
    BY DEF Asked, Asking
  <2>2. Arrived(i)
    BY <1>3
  <2> QED BY <2>1, <2>2 DEF Arrived, reporter, Stream, CR_STDOUT, CR_STDERR
<1>5. ASSUME NEW fd \in {CR_STDOUT, CR_STDERR}, quiet(cmd.opt)
      PROVE  \A l \in term[fd] \ Wanted(fd) : fd = CR_STDERR /\ l[2] = "notice"
  BY <1>2, <1>5 DEF Writing, Remark
<1>6. ASSUME NEW i \in Requested, cmd.outputs[i].path \notin Dirs \cup Streams,
             <<cmd.outputs[i].path>> \in DOMAIN fs
      PROVE  \E p \in Asked(cmd.outputs[i].path) :
                fs[<<cmd.outputs[i].path>>] = report_of(p, stats)
  BY <1>3, <1>6 DEF Arrived, InFile
<1>7. fds = Standing
  BY <1>2 DEF Writing
<1> QED BY <1>4, <1>5, <1>6, <1>7 DEF Delivered, Wanted

(* The reports of a run that was completed are where they were asked for,  *)
(* for any outputs: files, and the standard streams that were closed to    *)
(* the tests, where a quiet log leaves nothing else but what is said of    *)
(* the options on stderr (cri_silence_outputs, cri_restore_outputs,        *)
(* process_all_output).                                                    *)
THEOREM DeliveredAlways == SessionSpec => []Delivered
BY OInit, ONext, ReportsArrive, PTL DEF SessionSpec

----------------------------------------------------------------------------
(* The names of the reports in directories.                                *)

\* Whether a report may be written under this name, as far as the names go.
FreeName(f, name) == name \in DOMAIN f => f[name] = Absent

LEMMA UniqueName ==
    ASSUME NEW f, IsFiniteSet(DOMAIN f), NEW dir, NEW p
    PROVE  \E c \in 0 .. Cardinality(DOMAIN f) :
              /\ cri_path_gen_unique_filename(f, dir, p) = Numbered(dir, c, p)
              /\ FreeName(f, Numbered(dir, c, p))
              /\ \A k \in 0 .. c - 1 : ~FreeName(f, Numbered(dir, k, p))
<1> DEFINE N == Cardinality(DOMAIN f)
           F == {c \in 0 .. N : FreeName(f, Numbered(dir, c, p))}
           First(c) == /\ FreeName(f, Numbered(dir, c, p))
                       /\ \A k \in 0 .. c - 1 : ~FreeName(f, Numbered(dir, k, p))
<1>1. N \in Nat
  BY FS_CardinalityType
<1>2. \A c, d : Numbered(dir, c, p) = Numbered(dir, d, p) => c = d
  BY DEF Numbered
<1>3. F # {}
  <2> SUFFICES ASSUME F = {} PROVE FALSE
    OBVIOUS
  <2> DEFINE h == [c \in 0 .. N |-> Numbered(dir, c, p)]
  <2>1. \A c \in 0 .. N : Numbered(dir, c, p) \in DOMAIN f
    BY DEF FreeName
  <2> HIDE DEF N
  <2>2. h \in [0 .. N -> DOMAIN f]
    BY <2>1
  <2>3. \A c, d \in 0 .. N : h[c] = h[d] => c = d
    BY <1>2
  <2>4. h \in Injection(0 .. N, DOMAIN f)
    <3> HIDE DEF h
    <3> QED BY <2>2, <2>3 DEF Injection, IsInjective
  <2>5. Cardinality(0 .. N) <= N
    <3> HIDE DEF h
    <3> QED BY <2>4, FS_Injection DEF N
  <2>6. Cardinality(0 .. N) = N + 1
    BY <1>1, FS_Interval
  <2> QED BY <1>1, <2>5, <2>6
<1>4. PICK m \in F : \A c \in F : m <= c
  <2>1. F \subseteq Nat
    BY <1>1
  <2> HIDE DEF F
  <2> QED BY <1>3, <2>1, Least
<1>5. First(m)
  <2>1. \A k \in 0 .. m - 1 : k \in 0 .. N /\ ~(m <= k)
    BY <1>1, <1>4
  <2> QED BY <1>4, <2>1
<1>6. m \in 0 .. N
  BY <1>4
<1>7. cri_path_gen_unique_filename(f, dir, p)
         = Numbered(dir, CHOOSE c \in 0 .. N : First(c), p)
  BY DEF cri_path_gen_unique_filename, FreeName
<1> DEFINE c == CHOOSE d \in 0 .. N : First(d)
<1>8. c \in 0 .. N /\ First(c)
  <2> HIDE DEF N, First
  <2> QED BY <1>5, <1>6
<1> QED BY <1>7, <1>8

Its(dir, p) == {name \in DOMAIN fs : name[1] = dir /\ name[3] = p}
New(dir, p) == {name \in Its(dir, p) : fs[name] # Files[name]}
\* The reports to write into a directory, by their places from the end of the
\* walk, which do not change on the way.
Left(p, path) ==
    {m \in 1 .. Len(pend) : LET o == pend[Len(pend) + 1 - m]
                            IN  o.provider = p /\ o.path = path}
UsedUp(dir, p) ==
    \E c \in 0 .. Cardinality(DOMAIN fs) :
        /\ Numbered(dir, c, p) \notin DOMAIN fs
        /\ \A k \in 0 .. c - 1 : /\ Numbered(dir, k, p) \in DOMAIN fs
                                 /\ fs[Numbered(dir, k, p)] # Absent

Named(dir, p) ==
    /\ \A name \in New(dir, p) : /\ Files[name] = Absent
                                 /\ fs[name] = report_of(p, stats)
    /\ \/ Cardinality(New(dir, p)) + Cardinality(Left(p, dir)) = Cardinality(Asking(p, dir))
       \/ UsedUp(dir, p)
Naming ==
    /\ pc \in {"run", "finish"} => fs = Files
    /\ pc \in {"report", "gone"} =>
          /\ pend \in Seq(Entries) /\ DOMAIN fs = DOMAIN Files
          /\ \A dir \in Dirs \ Streams, p \in Providers : Named(dir, p)
    /\ pc = "gone" => pend = <<>>

NInv == SInv /\ (Under => Naming)

(* What a walk still has to write into a directory.                        *)
LEMMA LeftShrinks ==
    ASSUME NEW S, pend \in Seq(S), pend # <<>>, pend' = Tail(pend), NEW p, NEW path
    PROVE  /\ Left(p, path)' = Left(p, path) \ {Len(pend)}
           /\ Len(pend) \in Left(p, path) <=>
                 Head(pend).provider = p /\ Head(pend).path = path
           /\ IsFiniteSet(Left(p, path))
<1> DEFINE n == Len(pend)
           At(m) == pend[n + 1 - m]
           Mine(o) == o.provider = p /\ o.path = path
<1>1. n \in Nat /\ n >= 1 /\ Len(pend') = n - 1
  BY DEF n
<1>2. ASSUME NEW m \in 1 .. n - 1 PROVE pend'[Len(pend') + 1 - m] = At(m)
  <2> DEFINE j == n - m
  <2>1. j \in 1 .. n - 1 /\ Len(pend') + 1 - m = j /\ n + 1 - m = j + 1
    BY <1>1
  <2> HIDE DEF j
  <2>2. pend'[j] = pend[j + 1]
    BY <2>1
  <2> QED BY <2>1, <2>2
<1>3. At(n) = Head(pend)
  BY <1>1
<1>4. Left(p, path) = {m \in 1 .. n : Mine(At(m))}
  BY DEF Left
<1>5. Left(p, path)' = {m \in 1 .. n - 1 : Mine(pend'[Len(pend') + 1 - m])}
  BY <1>1 DEF Left
<1> HIDE DEF At
<1>6. Left(p, path)' = {m \in 1 .. n - 1 : Mine(At(m))}
  BY <1>2, <1>5
<1>7. n \notin 1 .. n - 1 /\ 1 .. n = (1 .. n - 1) \cup {n}
  BY <1>1
<1> HIDE DEF n
<1>8. Left(p, path)' = Left(p, path) \ {n}
  <2> HIDE DEF Mine
  <2> QED BY <1>4, <1>6, <1>7
<1>9. n \in Left(p, path) <=> Mine(Head(pend))
  BY <1>1, <1>3, <1>4
<1>10. IsFiniteSet(Left(p, path))
  <2>1. IsFiniteSet(1 .. n)
    BY <1>1, FS_Interval
  <2> QED BY <1>4, <2>1, FS_Subset
<1> QED BY <1>8, <1>9, <1>10 DEF n

LEMMA LeftBegins ==
    ASSUME IsCommand(cmd), Finish, NEW p \in Providers, NEW path
    PROVE  Cardinality(Left(p, path)') = Cardinality(Asking(p, path))
<1>1. PICK w \in Walks : pend' = [i \in DOMAIN w |-> cmd.outputs[w[i]]]
  BY DEF Finish
<1> DEFINE n == Cardinality(Requested)
<1>2. /\ n \in Nat /\ w \in [1 .. n -> Requested]
      /\ \A i \in Requested : \E k \in 1 .. n : w[k] = i
      /\ \A i, j \in 1 .. n : w[i] = w[j] => i = j
  BY WalkCovers DEF Bijection, Injection, Surjection, IsInjective
<1> HIDE DEF n
<1> DEFINE L == Left(p, path)'
           A == Asking(p, path)
           b == [m \in L |-> w[n + 1 - m]]
<1>3. DOMAIN pend' = 1 .. n /\ Len(pend') = n
      /\ \A k \in 1 .. n : pend'[k] = cmd.outputs[w[k]]
  <2>1. pend' = [k \in 1 .. n |-> cmd.outputs[w[k]]]
    BY <1>1, <1>2
  <2> DEFINE E(k) == cmd.outputs[w[k]]
  <2> HIDE DEF E
  <2>2. Len([k \in 1 .. n |-> E(k)]) = n
    BY <1>2
  <2> QED BY <2>1, <2>2 DEF E
<1>4. \A m \in 1 .. n : n + 1 - m \in 1 .. n /\ n + 1 - (n + 1 - m) = m
  BY <1>2
<1>5. L = {m \in 1 .. n : w[n + 1 - m] \in A}
  <2>1. L = {m \in 1 .. n : LET o == pend'[n + 1 - m] IN o.provider = p /\ o.path = path}
    BY <1>3 DEF Left
  <2>2. ASSUME NEW k \in 1 .. n
        PROVE  (pend'[k].provider = p /\ pend'[k].path = path) <=> w[k] \in A
    <3>1. w[k] \in Requested
      BY <1>2
    <3> QED BY <1>3, <3>1 DEF Asking, reporter
  <2> HIDE DEF L, A
  <2> QED BY <1>4, <2>1, <2>2
<1>6. IsFiniteSet(L)
  <2>1. IsFiniteSet(1 .. n)
    BY <1>2, FS_Interval
  <2> QED BY <1>5, <2>1, FS_Subset
<1>7. \A i \in A : i \in Requested
  BY DEF Asking
<1> HIDE DEF L, A
<1>8. b \in [L -> A]
  BY <1>5
<1>9. \A x, y \in L : b[x] = b[y] => x = y
  <2> SUFFICES ASSUME NEW x \in L, NEW y \in L, w[n + 1 - x] = w[n + 1 - y] PROVE x = y
    OBVIOUS
  <2>1. x \in 1 .. n /\ y \in 1 .. n
    BY <1>5
  <2>2. n + 1 - x = n + 1 - y
    BY <1>2, <1>4, <2>1
  <2> QED BY <1>2, <2>1, <2>2
<1>10. \A i \in A : \E x \in L : b[x] = i
  <2> SUFFICES ASSUME NEW i \in A PROVE \E x \in L : b[x] = i
    OBVIOUS
  <2>1. PICK k \in 1 .. n : w[k] = i
    BY <1>2, <1>7
  <2> DEFINE x == n + 1 - k
  <2>2. x \in 1 .. n /\ n + 1 - x = k
    BY <1>4
  <2>3. x \in L /\ b[x] = i
    BY <1>5, <2>1, <2>2
  <2> QED BY <2>3
<1>11. b \in Bijection(L, A)
  <2> HIDE DEF b
  <2> QED BY <1>8, <1>9, <1>10 DEF Bijection, Injection, Surjection, IsInjective
<1>12. Cardinality(A) = Cardinality(L)
  <2> HIDE DEF b
  <2>1. ExistsBijection(L, A)
    BY <1>11 DEF ExistsBijection
  <2> QED BY <1>6, <2>1, FS_Bijection
<1> QED BY <1>12 DEF L, A

NamesKept(dir, p) ==
    /\ \A name \in Its(dir, p) : fs'[name] = fs[name]
    /\ \A c : Numbered(dir, c, p) \in DOMAIN fs =>
                 fs'[Numbered(dir, c, p)] = fs[Numbered(dir, c, p)]

(* A report that is written elsewhere touches no name of this kind.        *)
LEMMA Elsewhere ==
    ASSUME NEW o, Write(o), NEW dir \in Dirs \ Streams, NEW p,
           ~(o.path = dir /\ o.provider = p)
    PROVE  NamesKept(dir, p)
<1> DEFINE name == file_of(fs, Dirs, o.path, o.provider)
<1>1. fs' = fs \/ \E r : fs' = [fs EXCEPT ![name] = r]
  BY DEF Write
<1>2. \A x : x[1] = dir /\ x[3] = p => x # name
  <2>1. CASE o.path \in Dirs
    <3>1. PICK c : name = Numbered(o.path, c, o.provider)
      BY <2>1 DEF file_of, cri_path_gen_unique_filename
    <3>2. name[1] = o.path /\ name[3] = o.provider
      BY <3>1 DEF Numbered
    <3> HIDE DEF name
    <3> QED BY <3>2
  <2>2. CASE o.path \notin Dirs
    <3>1. name = <<o.path>>
      BY <2>2 DEF file_of
    <3>2. name[1] = o.path
      BY <3>1
    <3> HIDE DEF name
    <3> QED BY <2>2, <3>2
  <2> QED BY <2>1, <2>2
<1>3. \A c : Numbered(dir, c, p)[1] = dir /\ Numbered(dir, c, p)[3] = p
  BY DEF Numbered
<1> HIDE DEF name
<1>4. \A x \in DOMAIN fs : x[1] = dir /\ x[3] = p => fs'[x] = fs[x]
  BY <1>1, <1>2
<1> QED BY <1>3, <1>4 DEF Its, NamesKept

(* Names that are taken stay taken.                                        *)
LEMMA StaysUsedUp ==
    ASSUME NEW dir, NEW p, UsedUp(dir, p), DOMAIN fs' = DOMAIN fs,
           \A c : Numbered(dir, c, p) \in DOMAIN fs /\ fs[Numbered(dir, c, p)] # Absent
                     => fs'[Numbered(dir, c, p)] # Absent
    PROVE  UsedUp(dir, p)'
<1>1. PICK c \in 0 .. Cardinality(DOMAIN fs) :
         /\ Numbered(dir, c, p) \notin DOMAIN fs
         /\ \A k \in 0 .. c - 1 : /\ Numbered(dir, k, p) \in DOMAIN fs
                                  /\ fs[Numbered(dir, k, p)] # Absent
  BY DEF UsedUp
<1>2. \A k \in 0 .. c - 1 : /\ Numbered(dir, k, p) \in DOMAIN fs'
                            /\ fs'[Numbered(dir, k, p)] # Absent
  BY <1>1
<1>3. Numbered(dir, c, p)' = Numbered(dir, c, p)
  OBVIOUS
<1> QED BY <1>1, <1>2, <1>3 DEF UsedUp

LEMMA ReportsDiffer ==
    ASSUME NEW p \in Providers, NEW st
    PROVE  report_of(p, st) # Absent
<1>1. report_of(p, st).provider \in Providers
  BY DEF report_of, Providers, tap_report, xml_report, json_report
<1>2. Absent.provider \notin Providers
  BY DEF Absent, Providers
<1> QED BY <1>1, <1>2

LEMMA NamedKept ==
    ASSUME NEW dir \in Dirs \ Streams, NEW p \in Providers, Named(dir, p),
           IsFiniteSet(DOMAIN fs), pend \in Seq(Entries), WriteReport
    PROVE  Named(dir, p)'
<1> DEFINE o == Head(pend)
           N == New(dir, p)
           L == Left(p, dir)
           r == report_of(p, stats)
<1>1. /\ pend # <<>> /\ pend' = Tail(pend) /\ Write(o)
      /\ cmd' = cmd /\ UNCHANGED statVars
  BY DEF WriteReport
<1>2. stats' = stats /\ Requested' = Requested
  BY <1>1, Settles
<1>3. Asking(p, dir)' = Asking(p, dir)
  BY <1>1, <1>2 DEF Asking, reporter
<1>4. /\ Left(p, dir)' = L \ {Len(pend)}
      /\ Len(pend) \in L <=> o.provider = p /\ o.path = dir
      /\ IsFiniteSet(L)
  BY <1>1, LeftShrinks
<1>5. DOMAIN fs' = DOMAIN fs
  BY <1>1 DEF Write
<1>6. Its(dir, p)' = Its(dir, p)
  BY <1>5 DEF Its
<1>7. IsFiniteSet(N)
  BY FS_Subset DEF New, Its
<1>8. r # Absent
  BY ReportsDiffer
<1>9. \A name \in N : Files[name] = Absent /\ fs[name] = r
  BY DEF Named
<1> HIDE DEF o, L, N, r
<1>10. CASE ~(o.path = dir /\ o.provider = p)
  <2>1. /\ \A name \in Its(dir, p) : fs'[name] = fs[name]
        /\ \A c : Numbered(dir, c, p) \in DOMAIN fs =>
                     fs'[Numbered(dir, c, p)] = fs[Numbered(dir, c, p)]
    <3>1. NamesKept(dir, p)
      BY <1>1, <1>10, Elsewhere
    <3> QED BY <3>1 DEF NamesKept
  <2>2. New(dir, p)' = N
    BY <1>6, <2>1 DEF New, N
  <2>3. Left(p, dir)' = L
    BY <1>4, <1>10
  <2>4. UsedUp(dir, p) => UsedUp(dir, p)'
    BY <1>5, <2>1, StaysUsedUp
  <2>5. \A name \in N : Files[name] = Absent /\ fs'[name] = r
    BY <1>9, <2>1 DEF N, New
  <2> QED BY <1>2, <1>3, <2>2, <2>3, <2>4, <2>5 DEF Named, r, N, L
<1>11. CASE o.path = dir /\ o.provider = p
  <2>1. PICK c \in 0 .. Cardinality(DOMAIN fs) :
              /\ cri_path_gen_unique_filename(fs, dir, p) = Numbered(dir, c, p)
              /\ FreeName(fs, Numbered(dir, c, p))
              /\ \A k \in 0 .. c - 1 : ~FreeName(fs, Numbered(dir, k, p))
    BY UniqueName
  <2> DEFINE name == Numbered(dir, c, p)
  <2>2. file_of(fs, Dirs, o.path, o.provider) = name
    BY <1>11, <2>1 DEF file_of
  <2>3. \/ name \in DOMAIN fs /\ fs' = [fs EXCEPT ![name] = r]
        \/ name \notin DOMAIN fs /\ fs' = fs
    <3>1. o.path # "-" /\ o.path # "/dev/stderr"
      BY <1>11 DEF Streams
    <3> HIDE DEF name
    <3> QED BY <1>1, <1>11, <2>2, <3>1 DEF Write, r
  <2>4. name[1] = dir /\ name[3] = p
    BY DEF Numbered
  <2>5. CASE name \in DOMAIN fs /\ fs' = [fs EXCEPT ![name] = r]
    <3>1. fs[name] = Absent
      BY <2>1, <2>5 DEF FreeName
    <3> HIDE DEF name
    <3>2. name \in Its(dir, p) /\ name \notin N
      BY <1>8, <1>9, <2>4, <2>5, <3>1 DEF Its
    <3>3. Files[name] = Absent
      BY <3>1, <3>2 DEF N, New
    <3>4. \A x \in DOMAIN fs : fs'[x] = IF x = name THEN r ELSE fs[x]
      BY <2>5
    <3>5. New(dir, p)' = N \cup {name}
      <4>1. New(dir, p)' = {x \in Its(dir, p) : fs'[x] # Files[x]}
        BY <1>6 DEF New
      <4>2. \A x \in Its(dir, p) : x \in DOMAIN fs
        BY DEF Its
      <4> QED BY <1>8, <3>2, <3>3, <3>4, <4>1, <4>2 DEF N, New
    <3>6. \A x \in New(dir, p)' : Files[x] = Absent /\ fs'[x] = r
      <4>1. \A x \in N : x \in DOMAIN fs
        BY DEF N, New, Its
      <4> QED BY <1>9, <2>5, <3>2, <3>3, <3>4, <3>5, <4>1
    <3>7. Cardinality(N \cup {name}) = Cardinality(N) + 1
      BY <1>7, <3>2, FS_AddElement
    <3>8. Cardinality(L \ {Len(pend)}) = Cardinality(L) - 1
      BY <1>4, <1>11, FS_RemoveElement
    <3>9. Cardinality(N) \in Nat /\ Cardinality(L) \in Nat
      BY <1>4, <1>7, FS_CardinalityType
    <3>10. UsedUp(dir, p) => UsedUp(dir, p)'
      BY <1>5, <1>8, <3>4, StaysUsedUp
    <3>11. Cardinality(N) + Cardinality(L) = Cardinality(Asking(p, dir)) =>
             Cardinality(New(dir, p)') + Cardinality(Left(p, dir)')
                = Cardinality(Asking(p, dir)')
      BY <1>3, <1>4, <3>5, <3>7, <3>8, <3>9
    <3> QED BY <1>2, <3>6, <3>10, <3>11 DEF Named, r, N, L
  <2>6. CASE name \notin DOMAIN fs /\ fs' = fs
    <3>1. \A k \in 0 .. c - 1 : /\ Numbered(dir, k, p) \in DOMAIN fs'
                                /\ fs'[Numbered(dir, k, p)] # Absent
      BY <2>1, <2>6 DEF FreeName
    <3>2. UsedUp(dir, p)'
      BY <2>1, <2>6, <3>1 DEF UsedUp
    <3>3. New(dir, p)' = N
      BY <1>6, <2>6 DEF New, N
    <3> QED BY <1>2, <1>9, <2>6, <3>2, <3>3 DEF Named, r
  <2> QED BY <2>3, <2>5, <2>6
<1> QED BY <1>10, <1>11

LEMMA NInit == SessionInit => NInv
BY SInit DEF NInv, SessionInit, Under

LEMMA NNext == NInv /\ [SessionNext]_sessionVars => NInv'
<1> SUFFICES ASSUME NInv, [SessionNext]_sessionVars, Under' PROVE Naming'
  BY SNext DEF NInv
<1>1. SInv /\ (Under => Naming) /\ IsCommand(cmd)
  BY DEF NInv, SInv, CInv, Commanded
<1>2. CASE Start
  BY <1>1, <1>2 DEF Start, SInv, Stage, Untouched, Late, Naming
<1>3. CASE pc = "run" /\ RunTests
  BY <1>1, <1>3, Kept DEF Naming, Under
<1>4. CASE Under /\ Finish
  <2>1. /\ fs = Files /\ fs' = fs /\ pc' = "report" /\ cmd' = cmd /\ UNCHANGED statVars
    BY <1>1, <1>4 DEF Finish, Naming
  <2>2. pend' \in Seq(Entries)
    BY <1>1, <1>4, FinishAsks
  <2>3. Entries' = Entries /\ Requested' = Requested
    BY <2>1, Settles
  <2>4. ASSUME NEW dir \in Dirs \ Streams, NEW p \in Providers PROVE Named(dir, p)'
    <3>1. New(dir, p)' = {}
      BY <2>1 DEF New
    <3>2. Cardinality(Left(p, dir)') = Cardinality(Asking(p, dir))
      BY <1>1, <1>4, LeftBegins
    <3>3. Asking(p, dir)' = Asking(p, dir)
      BY <2>1, <2>3 DEF Asking, reporter
    <3>4. IsFiniteSet(Asking(p, dir)) /\ Cardinality({}) = 0
      <4>1. Len(cmd.outputs) \in Nat /\ DOMAIN cmd.outputs = 1 .. Len(cmd.outputs)
        <5>1. cmd.outputs \in Seq({cmd.outputs[i] : i \in DOMAIN cmd.outputs})
          BY <1>1 DEF IsCommand, IsSequence
        <5> QED BY <5>1
      <4>2. Asking(p, dir) \subseteq 1 .. Len(cmd.outputs)
        BY <4>1 DEF Asking, Requested
      <4>3. IsFiniteSet(1 .. Len(cmd.outputs))
        BY <4>1, FS_Interval
      <4> QED BY <4>2, <4>3, FS_Subset, FS_EmptySet
    <3>5. Cardinality(Asking(p, dir)) \in Nat
      BY <3>4, FS_CardinalityType
    <3> QED BY <3>1, <3>2, <3>3, <3>4, <3>5 DEF Named
  <2> QED BY <2>1, <2>2, <2>3, <2>4 DEF Naming
<1>5. CASE Under /\ WriteReport
  <2>1. /\ Naming /\ pc = "report" /\ pc' = pc /\ pend # <<>> /\ pend' = Tail(pend)
        /\ cmd' = cmd /\ UNCHANGED statVars
    BY <1>1, <1>5 DEF WriteReport
  <2>2. pend \in Seq(Entries) /\ Entries' = Entries
    BY <2>1, Settles DEF Naming
  <2>3. pend' \in Seq(Entries')
    BY <2>1, <2>2
  <2>4. DOMAIN fs' = DOMAIN fs /\ DOMAIN fs = DOMAIN Files
    BY <1>5, <2>1 DEF WriteReport, Write, Naming
  <2>5. IsFiniteSet(DOMAIN fs)
    BY <2>4, SessionAssumption
  <2>6. ASSUME NEW dir \in Dirs \ Streams, NEW p \in Providers PROVE Named(dir, p)'
    <3>1. Named(dir, p)
      BY <2>1 DEF Naming
    <3> QED BY <1>5, <2>2, <2>5, <3>1, NamedKept
  <2> QED BY <2>1, <2>3, <2>4, <2>6 DEF Naming
<1>6. CASE Under /\ (Return \/ UNCHANGED sessionVars)
  <2>1. /\ Naming /\ fs' = fs /\ pend' = pend /\ cmd' = cmd /\ UNCHANGED statVars
        /\ \/ pc' = pc
           \/ pc = "report" /\ pc' = "gone" /\ pend = <<>>
    BY <1>1, <1>6 DEF Return, Leave, sessionVars, statVars
  <2>2. stats' = stats /\ Requested' = Requested /\ Entries' = Entries
    BY <2>1, Settles
  <2>3. ASSUME NEW dir, NEW p PROVE Named(dir, p)' <=> Named(dir, p)
    <3>1. Asking(p, dir)' = Asking(p, dir) /\ Left(p, dir)' = Left(p, dir)
      BY <2>1, <2>2 DEF Asking, reporter, Left
    <3>2. New(dir, p)' = New(dir, p) /\ UsedUp(dir, p)' = UsedUp(dir, p)
      BY <2>1 DEF New, Its, UsedUp
    <3> QED BY <2>1, <2>2, <3>1, <3>2 DEF Named
  <2> QED BY <2>1, <2>2, <2>3 DEF Naming
<1> QED BY <1>2, <1>3, <1>4, <1>5, <1>6, Turns DEF Conclude

LEMMA NamesAreNew == NInv => NothingReplaced
<1> SUFFICES ASSUME NInv, Complete, NEW dir \in Dirs \ Streams, NEW p \in Providers
             PROVE  LET its     == {name \in DOMAIN fs : name[1] = dir /\ name[3] = p}
                        written == {name \in its : fs[name] # Files[name]}
                    IN  /\ \A name \in written : /\ Files[name] = Absent
                                                 /\ fs[name] = report_of(p, stats)
                        /\ \/ Cardinality(written) = Cardinality(Asking(p, dir))
                           \/ UsedUp(dir, p)
  BY DEF NothingReplaced, UsedUp
<1>1. pc = "gone" /\ pend = <<>> /\ Named(dir, p)
  BY DEF Complete, Under, NInv, Naming
<1>2. Left(p, dir) = {}
  BY <1>1 DEF Left
<1>3. IsFiniteSet(New(dir, p))
  <2>1. DOMAIN fs = DOMAIN Files
    BY <1>1 DEF NInv, Naming, Complete, Under
  <2>2. New(dir, p) \subseteq DOMAIN Files
    BY <2>1 DEF New, Its
  <2> QED BY <2>2, SessionAssumption, FS_Subset
<1>4. Cardinality(New(dir, p)) + Cardinality(Left(p, dir)) = Cardinality(New(dir, p))
  BY <1>2, <1>3, FS_CardinalityType, FS_EmptySet
<1> QED BY <1>1, <1>4 DEF Named, New, Its

(* No report in a directory replaces another, of this run or of an earlier *)
(* one, for any files, directories and outputs: each has a name that no    *)
(* file had, unless the names are used up (cri_path_gen_unique_filename).  *)
THEOREM NothingReplacedAlways == SessionSpec => []NothingReplaced
BY NInit, NNext, NamesAreNew, PTL DEF SessionSpec
=============================================================================
