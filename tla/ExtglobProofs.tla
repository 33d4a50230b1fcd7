--------------------------- MODULE ExtglobProofs ----------------------------
(***************************************************************************)
(* compile never loses or invents a fragment, for any text and any depth   *)
(* of groups.  The counters of the property say how many fragments there   *)
(* are; the proof follows their number through every case of the loop.     *)
(***************************************************************************)
EXTENDS Extglob, TLAPS

Group == [op : Operators, alter : Nat, atoms : {0, 1}]

\* What the fragments are does not matter, only that they form a stack.
IsStack(f) == \E S : f \in Seq(S)

\* base[i] counts the fragments below group i; it never decreases.
Ledger(base, p) ==
    /\ base \in [1 .. Len(p) + 1 -> Nat]
    /\ base[1] = 0
    /\ \A i \in 1 .. Len(p) : base[i + 1] = base[i] + p[i].alter + p[i].atoms
    /\ \A i, k \in 1 .. Len(p) + 1 : i <= k => base[i] <= base[k]

Holds(p, f, a, n) ==
    \E base : Ledger(base, p) /\ Len(f) = base[Len(p) + 1] + a + n

\* No bar is read outside of a group.
TopLevel(p, a) == IF p = <<>> THEN a = 0 ELSE p[1].alter = 0

IInv ==
    /\ IsStack(frags) /\ paren \in Seq(Group)
    /\ alter \in Nat /\ atoms \in 0 .. 2
    /\ status \in {"reading", "done", "error"}
    /\ status = "reading" => Holds(paren, frags, alter, atoms)
    /\ status = "done" => Len(frags) = 1
    /\ TopLevel(paren, alter)

----------------------------------------------------------------------------
(* Stacks.                                                                 *)

LEMMA LenNat == ASSUME NEW f, IsStack(f) PROVE Len(f) \in Nat
  BY DEF IsStack

LEMMA EmptyStack == IsStack(<<>>) /\ Len(<<>>) = 0
  <1>1. <<>> \in Seq({}) OBVIOUS
  <1> QED BY <1>1 DEF IsStack

LEMMA Pushed ==
    ASSUME NEW f, IsStack(f), NEW x
    PROVE  IsStack(Append(f, x)) /\ Len(Append(f, x)) = Len(f) + 1
  <1>1. PICK S : f \in Seq(S) BY DEF IsStack
  <1>2. f \in Seq(S \cup {x}) BY <1>1
  <1>3. Append(f, x) \in Seq(S \cup {x}) /\ Len(Append(f, x)) = Len(f) + 1
    BY <1>2
  <1> QED BY <1>3 DEF IsStack

LEMMA Cut ==
    ASSUME NEW f, IsStack(f), NEW n \in 0 .. Len(f)
    PROVE  IsStack(SubSeq(f, 1, n)) /\ Len(SubSeq(f, 1, n)) = n
  <1>1. PICK S : f \in Seq(S) BY DEF IsStack
  <1>2. SubSeq(f, 1, n) \in Seq(S) /\ Len(SubSeq(f, 1, n)) = n BY <1>1
  <1> QED BY <1>2 DEF IsStack

\* Joining the top n fragments leaves one in their place.
LEMMA Merged ==
    ASSUME NEW f, IsStack(f), NEW n \in 1 .. Len(f), NEW x
    PROVE  LET g == Append(SubSeq(f, 1, Len(f) - n), x)
           IN  IsStack(g) /\ Len(g) = Len(f) - n + 1
  <1>1. Len(f) \in Nat /\ Len(f) - n \in 0 .. Len(f) BY LenNat
  <1> QED BY <1>1, Cut, Pushed

LEMMA MergeTop ==
    ASSUME NEW f, IsStack(f), NEW n \in 1 .. Len(f), NEW type
    PROVE  /\ IsStack(merge_top(type, f, n))
           /\ Len(merge_top(type, f, n)) = Len(f) - n + 1
  BY Merged DEF merge_top

LEMMA CatOne ==
    ASSUME NEW f, IsStack(f), NEW n \in 0 .. 2, n <= Len(f)
    PROVE  /\ IsStack(cat_one(f, n)) /\ room(n) \in {0, 1}
           /\ Len(cat_one(f, n)) = Len(f) - n + room(n)
  <1>1. Len(f) \in Nat BY LenNat
  <1>2. CASE n > 1
    <2>1. n = 2 /\ 2 \in 1 .. Len(f) BY <1>1, <1>2
    <2> QED BY <2>1, <1>1, MergeTop DEF cat_one, room
  <1>3. CASE ~(n > 1)
    BY <1>1, <1>3 DEF cat_one, room
  <1> QED BY <1>2, <1>3

LEMMA CatAll ==
    ASSUME NEW f, IsStack(f), NEW n \in 1 .. 2, n <= Len(f)
    PROVE  IsStack(cat_all(f, n)) /\ Len(cat_all(f, n)) = Len(f) - n + 1
  <1>1. Len(f) \in Nat BY LenNat
  <1>2. CASE n > 1
    <2>1. n \in 1 .. Len(f) BY <1>1
    <2> QED BY <2>1, <1>2, MergeTop DEF cat_all
  <1>3. CASE ~(n > 1)
    BY <1>1, <1>3 DEF cat_all
  <1> QED BY <1>2, <1>3

LEMMA Alternative ==
    ASSUME NEW f, IsStack(f), NEW n \in 1 .. 2, n <= Len(f), NEW op
    PROVE  /\ IsStack(alternative(f, n, op))
           /\ Len(alternative(f, n, op)) = Len(f) - n + 1
  <1> DEFINE whole == cat_all(f, n)
  <1>1. Len(f) \in Nat BY LenNat
  <1>2. IsStack(whole) /\ Len(whole) = Len(f) - n + 1 BY CatAll
  <1>3. Len(whole) - 1 \in 0 .. Len(whole) BY <1>1, <1>2
  <1>4. IsStack(Front(whole)) /\ Len(Front(whole)) = Len(whole) - 1
    BY <1>2, <1>3, Cut DEF Front
  <1>5. IsStack(alternative(f, n, op))
        /\ Len(alternative(f, n, op)) = Len(Front(whole)) + 1
    BY <1>4, Pushed DEF alternative
  <1> QED BY <1>1, <1>2, <1>4, <1>5

LEMMA Joined ==
    ASSUME NEW f, IsStack(f), NEW n \in 1 .. Len(f), NEW op
    PROVE  IsStack(joined(op, f, n)) /\ Len(joined(op, f, n)) = Len(f) - n + 1
  BY MergeTop DEF joined

LEMMA NotEmpty ==
    ASSUME NEW S, NEW p \in Seq(S), p # <<>> PROVE Len(p) \in Nat \ {0}
  OBVIOUS

LEMMA LastAndFront ==
    ASSUME NEW S, NEW p \in Seq(S), Len(p) \in Nat \ {0}
    PROVE  /\ Last(p) = p[Len(p)] /\ Last(p) \in S
           /\ Front(p) \in Seq(S) /\ Len(Front(p)) = Len(p) - 1
           /\ \A i \in 1 .. Len(p) - 1 : Front(p)[i] = p[i]
  <1>1. Len(p) - 1 \in Nat OBVIOUS
  <1> DEFINE n == Len(p) - 1
  <1>2. /\ SubSeq(p, 1, n) \in Seq(S) /\ Len(SubSeq(p, 1, n)) = n
        /\ \A i \in 1 .. n : SubSeq(p, 1, n)[i] = p[i]
    <2>1. SubSeq(p, 1, n) \in Seq(S) BY <1>1
    <2>2. Len(SubSeq(p, 1, n)) = n
      <3>1. IsStack(p) /\ n \in 0 .. Len(p) BY <1>1 DEF IsStack
      <3> QED BY <3>1, Cut
    <2>3. \A i \in 1 .. n : SubSeq(p, 1, n)[i] = p[i] BY <1>1
    <2> QED BY <2>1, <2>2, <2>3
  <1>3. Front(p) = SubSeq(p, 1, n) BY DEF Front
  <1>4. Last(p) = p[Len(p)] /\ Last(p) \in S BY DEF Last
  <1> HIDE DEF n
  <1>5. n = Len(p) - 1 BY DEF n
  <1> QED BY <1>2, <1>3, <1>4, <1>5

----------------------------------------------------------------------------
(* The ledger of the open groups.                                          *)

LEMMA HoldsAtLeast ==
    ASSUME NEW p \in Seq(Group), NEW f, NEW a \in Nat, NEW n \in Nat,
           Holds(p, f, a, n)
    PROVE  a + n <= Len(f) /\ Len(f) \in Nat
  <1>1. PICK base : Ledger(base, p) /\ Len(f) = base[Len(p) + 1] + a + n
    BY DEF Holds
  <1>2. base[Len(p) + 1] \in Nat BY <1>1 DEF Ledger
  <1> QED BY <1>1, <1>2

\* What happens above the last group leaves the ledger alone.
LEMMA HoldsSame ==
    ASSUME NEW p \in Seq(Group), NEW f, NEW a \in Nat, NEW n \in Nat,
           Holds(p, f, a, n), NEW h, NEW b \in Nat, NEW m \in Nat,
           Len(h) = Len(f) - a - n + b + m
    PROVE  Holds(p, h, b, m)
  <1>1. PICK base : Ledger(base, p) /\ Len(f) = base[Len(p) + 1] + a + n
    BY DEF Holds
  <1>2. base[Len(p) + 1] \in Nat BY <1>1 DEF Ledger
  <1>3. Len(h) = base[Len(p) + 1] + b + m
    <2> DEFINE top == base[Len(p) + 1]
    <2>1. top \in Nat /\ Len(f) = top + a + n BY <1>1, <1>2
    <2> HIDE DEF top
    <2>2. Len(f) - a - n = top BY <2>1
    <2>3. Len(h) = top + b + m BY <2>2
    <2> QED BY <2>3 DEF top
  <1> QED BY <1>1, <1>3 DEF Holds

\* Opening a group files the counters.
LEMMA HoldsOpen ==
    ASSUME NEW p \in Seq(Group), NEW f, NEW r \in Group,
           Holds(p, f, r.alter, r.atoms)
    PROVE  Holds(Append(p, r), f, 0, 0)
  <1>1. PICK base : /\ Ledger(base, p)
                    /\ Len(f) = base[Len(p) + 1] + r.alter + r.atoms
    BY DEF Holds
  <1> DEFINE q == Append(p, r)
             N == Len(p)
             top == base[N + 1] + r.alter + r.atoms
             more == [i \in 1 .. Len(q) + 1 |-> IF i <= N + 1 THEN base[i] ELSE top]
  <1>2. N \in Nat /\ Len(q) = N + 1 /\ q[N + 1] = r
        /\ \A i \in 1 .. N : q[i] = p[i]
    OBVIOUS
  <1>3. base \in [1 .. N + 1 -> Nat] /\ r.alter \in Nat /\ r.atoms \in Nat
    BY <1>1 DEF Ledger, Group
  <1>4. top \in Nat /\ base[N + 1] <= top BY <1>2, <1>3
  <1>5. more \in [1 .. Len(q) + 1 -> Nat]
    <2>1. \A i \in 1 .. Len(q) + 1 : i <= N + 1 => base[i] \in Nat BY <1>2, <1>3
    <2> QED BY <2>1, <1>4
  <1>6. more[1] = 0 BY <1>1, <1>2 DEF Ledger
  <1>7. ASSUME NEW i \in 1 .. Len(q)
        PROVE  more[i + 1] = more[i] + q[i].alter + q[i].atoms
    <2>1. CASE i = N + 1
      BY <2>1, <1>2
    <2>2. CASE i <= N
      <3>1. base[i + 1] = base[i] + p[i].alter + p[i].atoms
        BY <1>1, <1>2, <2>2 DEF Ledger
      <3>2. more[i + 1] = base[i + 1] /\ more[i] = base[i] BY <1>2, <2>2
      <3> QED BY <3>1, <3>2, <1>2, <2>2
    <2> QED BY <1>2, <2>1, <2>2
  <1>8. ASSUME NEW i \in 1 .. Len(q) + 1, NEW k \in 1 .. Len(q) + 1, i <= k
        PROVE  more[i] <= more[k]
    <2>1. CASE k <= N + 1
      <3>1. i \in 1 .. N + 1 /\ k \in 1 .. N + 1 BY <1>2, <2>1, <1>8
      <3>2. base[i] <= base[k] BY <3>1, <1>1, <1>8 DEF Ledger
      <3> QED BY <3>1, <3>2, <1>2
    <2>2. CASE k > N + 1 /\ i <= N + 1
      <3>1. base[i] <= base[N + 1] BY <1>1, <1>2, <2>2 DEF Ledger
      <3>2. base[i] \in Nat /\ base[N + 1] \in Nat BY <1>2, <1>3, <2>2
      <3>3. base[i] <= top BY <3>1, <3>2, <1>4
      <3> QED BY <3>3, <2>2
    <2>3. CASE i > N + 1
      <3>1. k > N + 1 BY <2>3, <1>2, <1>8
      <3> QED BY <3>1, <2>3, <1>4
    <2> QED BY <1>2, <2>1, <2>2, <2>3
  <1>9. Ledger(more, q) BY <1>5, <1>6, <1>7, <1>8 DEF Ledger
  <1>10. Len(f) = more[Len(q) + 1] + 0 + 0 BY <1>1, <1>2, <1>4
  <1> QED BY <1>9, <1>10 DEF Holds

\* Closing it takes them back.
LEMMA HoldsClose ==
    ASSUME NEW p \in Seq(Group), p # <<>>, NEW f, NEW h,
           NEW a \in Nat, NEW n \in Nat, Holds(p, f, a, n),
           Len(h) = Len(f) - a - n + 1
    PROVE  Holds(Front(p), h, Last(p).alter, Last(p).atoms + 1)
  <1>1. PICK base : Ledger(base, p) /\ Len(f) = base[Len(p) + 1] + a + n
    BY DEF Holds
  <1> DEFINE N == Len(p)
             q == Front(p)
             less == [i \in 1 .. Len(q) + 1 |-> base[i]]
  <1>2. /\ N \in Nat \ {0} /\ Last(p) = p[N] /\ Last(p) \in Group
        /\ Len(q) = N - 1 /\ \A i \in 1 .. N - 1 : q[i] = p[i]
    BY NotEmpty, LastAndFront
  <1>3. base \in [1 .. N + 1 -> Nat] BY <1>1 DEF Ledger
  <1>4. Ledger(less, q)
    <2>1. less \in [1 .. Len(q) + 1 -> Nat] BY <1>2, <1>3
    <2>2. less[1] = 0 BY <1>1, <1>2 DEF Ledger
    <2>3. \A i \in 1 .. Len(q) : less[i + 1] = less[i] + q[i].alter + q[i].atoms
      BY <1>1, <1>2 DEF Ledger
    <2>4. \A i, k \in 1 .. Len(q) + 1 : i <= k => less[i] <= less[k]
      BY <1>1, <1>2 DEF Ledger
    <2> QED BY <2>1, <2>2, <2>3, <2>4 DEF Ledger
  <1>5. base[N + 1] = base[N] + Last(p).alter + Last(p).atoms
    BY <1>1, <1>2 DEF Ledger
  <1>6. base[N + 1] \in Nat /\ base[N] \in Nat /\ Last(p).alter \in Nat
        /\ Last(p).atoms \in Nat
    BY <1>2, <1>3 DEF Group
  <1>7. less[Len(q) + 1] = base[N] BY <1>2
  <1>8. Len(h) = less[Len(q) + 1] + Last(p).alter + (Last(p).atoms + 1)
    <2>1. Len(f) - a - n = base[N + 1] BY SMTT(30), <1>1, <1>6
    <2>2. Len(h) = base[N] + Last(p).alter + Last(p).atoms + 1
      BY <2>1, <1>5
    <2>3. base[N] + Last(p).alter + Last(p).atoms + 1
          = base[N] + Last(p).alter + (Last(p).atoms + 1)
      <3>1. \A x, y, z \in Nat : x + y + z + 1 = x + y + (z + 1) OBVIOUS
      <3> HIDE DEF N
      <3> QED BY SMTT(30), <3>1, <1>6
    <2> HIDE DEF N, less, q
    <2> QED BY <2>2, <2>3, <1>7
  <1> QED BY <1>4, <1>8 DEF Holds

----------------------------------------------------------------------------
LEMMA Started == Init => IInv
  <1> SUFFICES ASSUME Init PROVE IInv OBVIOUS
  <1> DEFINE base == [i \in 1 .. 1 |-> 0]
  <1>1. Ledger(base, <<>>) BY DEF Ledger
  <1>2. Holds(<<>>, <<>>, 0, 0) BY <1>1, EmptyStack DEF Holds
  <1> QED BY <1>2, EmptyStack DEF Init, IInv, TopLevel

\* A text that is refused changes nothing but the status.
LEMMA FailStep == IInv /\ Fail => IInv'
  <1> SUFFICES ASSUME IInv, Fail PROVE IInv' OBVIOUS
  <1>1. frags' = frags /\ paren' = paren /\ alter' = alter /\ atoms' = atoms
        /\ status' = "error"
    BY DEF Fail
  <1> QED BY <1>1 DEF IInv, TopLevel

\* One fragment more, with what was read before it joined to make room.
LEMMA PushStep ==
    ASSUME IInv, status = "reading", NEW x,
           frags' = Append(cat_one(frags, atoms), x),
           atoms' = room(atoms) + 1,
           UNCHANGED <<paren, alter, status>>
    PROVE  IInv'
  <1> DEFINE f == cat_one(frags, atoms)
  <1>1. IsStack(frags) /\ Holds(paren, frags, alter, atoms) BY DEF IInv
  <1>2. alter + atoms <= Len(frags) /\ Len(frags) \in Nat
    BY <1>1, HoldsAtLeast DEF IInv
  <1>3. atoms <= Len(frags) /\ atoms \in 0 .. 2 BY <1>2 DEF IInv
  <1>4. IsStack(f) /\ room(atoms) \in {0, 1}
        /\ Len(f) = Len(frags) - atoms + room(atoms)
    BY <1>1, <1>3, CatOne
  <1>5. IsStack(frags') /\ Len(frags') = Len(f) + 1 BY <1>4, Pushed
  <1>6. atoms' \in 0 .. 2 BY <1>4
  <1>7. Len(frags') = Len(frags) - alter - atoms + alter + atoms'
    BY <1>2, <1>3, <1>4, <1>5 DEF IInv
  <1>8. Holds(paren, frags', alter, atoms')
    <2>1. alter \in Nat /\ atoms \in Nat /\ atoms' \in Nat /\ paren \in Seq(Group)
      BY <1>6 DEF IInv
    <2> QED BY <1>1, <1>7, <2>1, HoldsSame
  <1> QED BY <1>5, <1>6, <1>8 DEF IInv, TopLevel

LEMMA OpenStep == IInv /\ OpenGroup => IInv'
  <1> SUFFICES ASSUME IInv, OpenGroup PROVE IInv' OBVIOUS
  <1> DEFINE r == [op |-> pattern[at], alter |-> alter, atoms |-> room(atoms)]
  <1>1. IsStack(frags) /\ Holds(paren, frags, alter, atoms) /\ alter \in Nat
        /\ paren \in Seq(Group) /\ atoms \in 0 .. 2
    BY DEF IInv, OpenGroup
  <1>2. alter + atoms <= Len(frags) /\ Len(frags) \in Nat
    BY <1>1, HoldsAtLeast
  <1>3. atoms <= Len(frags) BY <1>1, <1>2
  <1>4. IsStack(frags') /\ room(atoms) \in {0, 1}
        /\ Len(frags') = Len(frags) - atoms + room(atoms)
    BY <1>1, <1>3, CatOne DEF OpenGroup
  <1>5. r \in Group BY <1>1, <1>4 DEF Group, OpenGroup, Opens
  <1>6. Holds(paren, frags', r.alter, r.atoms)
    <2>1. Len(frags') = Len(frags) - alter - atoms + alter + room(atoms)
      BY <1>1, <1>2, <1>4
    <2>2. atoms \in Nat /\ room(atoms) \in Nat BY <1>1, <1>4
    <2>3. Holds(paren, frags', alter, room(atoms))
      BY <2>1, <2>2, <1>1, HoldsSame
    <2> QED BY <2>3
  <1>7. Holds(paren', frags', 0, 0) BY <1>1, <1>5, <1>6, HoldsOpen DEF OpenGroup
  <1>8. paren' \in Seq(Group) BY <1>1, <1>5 DEF OpenGroup
  <1>9. TopLevel(paren', 0)
    <2>1. CASE paren = <<>>
      BY <2>1, <1>1, <1>5 DEF IInv, TopLevel, OpenGroup
    <2>2. CASE paren # <<>>
      <3>1. paren' # <<>> /\ paren'[1] = paren[1] BY <2>2, <1>1, <1>5 DEF OpenGroup
      <3> QED BY <3>1, <2>2 DEF IInv, TopLevel
    <2> QED BY <2>1, <2>2
  <1> QED BY <1>4, <1>7, <1>8, <1>9 DEF IInv, OpenGroup

LEMMA CloseStep == IInv /\ CloseGroup => IInv'
  <1> SUFFICES ASSUME IInv, CloseGroup PROVE IInv' OBVIOUS
  <1> DEFINE pa == Last(paren)
             whole == alternative(frags, atoms, pa.op)
  <1>1. IsStack(frags) /\ Holds(paren, frags, alter, atoms) /\ alter \in Nat
        /\ paren \in Seq(Group) /\ paren # <<>> /\ atoms \in 1 .. 2
    BY DEF IInv, CloseGroup, Reading
  <1>2. alter + atoms <= Len(frags) /\ Len(frags) \in Nat
    BY <1>1, HoldsAtLeast
  <1>3. IsStack(whole) /\ Len(whole) = Len(frags) - atoms + 1
    BY <1>1, <1>2, Alternative
  <1>4. alter + 1 \in 1 .. Len(whole) BY <1>1, <1>2, <1>3
  <1>5. IsStack(frags') /\ Len(frags') = Len(whole) - (alter + 1) + 1
    BY <1>3, <1>4, Joined DEF CloseGroup
  <1>6. Len(frags') = Len(frags) - alter - atoms + 1
    BY <1>1, <1>2, <1>3, <1>5
  <1>7. Holds(paren', frags', alter', atoms')
    <2>1. atoms \in Nat BY <1>1
    <2>2. Holds(Front(paren), frags', pa.alter, pa.atoms + 1)
      BY <2>1, <1>1, <1>6, HoldsClose
    <2> QED BY <2>2 DEF CloseGroup
  <1>8. pa \in Group /\ alter' = pa.alter /\ atoms' = pa.atoms + 1
    BY <1>1 DEF Last, CloseGroup
  <1>9. alter' \in Nat /\ atoms' \in 0 .. 2 BY <1>8 DEF Group
  <1>10. paren' \in Seq(Group) BY <1>1 DEF Front, CloseGroup
  <1>11. TopLevel(paren', alter')
    <2>1. paren[1].alter = 0 BY <1>1 DEF IInv, TopLevel
    <2>2. CASE Len(paren) = 1
      <3>1. paren' = <<>> /\ pa = paren[1] BY <2>2, <1>1 DEF Front, Last, CloseGroup
      <3> QED BY <3>1, <2>1, <1>8 DEF TopLevel
    <2>3. CASE Len(paren) # 1
      <3>1. Len(paren) \in Nat \ {0} /\ Len(paren) > 1 BY <2>3, <1>1, NotEmpty
      <3>2. Len(paren') > 0 /\ paren'[1] = paren[1]
        BY <3>1, <1>1, LastAndFront DEF CloseGroup
      <3>3. paren' # <<>> BY <3>2, EmptyStack
      <3> QED BY <3>2, <3>3, <2>1 DEF TopLevel
    <2> QED BY <2>2, <2>3
  <1>12. status' = "reading" BY DEF CloseGroup, Reading
  <1> QED BY <1>5, <1>7, <1>9, <1>10, <1>11, <1>12 DEF IInv

LEMMA BarStep == IInv /\ Bar => IInv'
  <1> SUFFICES ASSUME IInv, Bar PROVE IInv' OBVIOUS
  <1>1. IsStack(frags) /\ Holds(paren, frags, alter, atoms) /\ alter \in Nat
        /\ paren \in Seq(Group) /\ paren # <<>> /\ atoms \in 1 .. 2
    BY DEF IInv, Bar, Reading
  <1>2. alter + atoms <= Len(frags) /\ Len(frags) \in Nat
    BY <1>1, HoldsAtLeast
  <1>3. IsStack(frags') /\ Len(frags') = Len(frags) - atoms + 1
    BY <1>1, <1>2, Alternative DEF Bar
  <1>4. Len(frags') = Len(frags) - alter - atoms + (alter + 1) + 0
    BY <1>1, <1>2, <1>3
  <1>5. Holds(paren, frags', alter + 1, 0)
    <2>1. atoms \in Nat /\ alter + 1 \in Nat /\ 0 \in Nat BY <1>1
    <2> QED BY <2>1, <1>1, <1>4, HoldsSame
  <1>6. paren' = paren /\ alter' = alter + 1 /\ atoms' = 0 /\ status' = "reading"
    BY DEF Bar, Reading
  <1> QED BY <1>1, <1>3, <1>5, <1>6 DEF IInv, TopLevel

LEMMA FinishStep == IInv /\ Finish => IInv'
  <1> SUFFICES ASSUME IInv, Finish PROVE IInv' OBVIOUS
  <1>1. IsStack(frags) /\ paren = <<>> /\ alter = 0 /\ atoms \in 0 .. 2
        /\ Holds(paren, frags, alter, atoms)
    BY DEF IInv, Finish, TopLevel
  <1>2. PICK base : Ledger(base, <<>>) /\ Len(frags) = base[Len(<<>>) + 1] + 0 + atoms
    BY <1>1 DEF Holds
  <1>3. Len(frags) = atoms BY <1>2, <1>1, EmptyStack DEF Ledger
  <1>4. CASE atoms = 0
    <2>1. frags = <<>> BY <1>1, <1>3, <1>4 DEF IsStack
    <2>2. status' = "error" /\ frags' = frags
      BY <2>1, <1>4 DEF Finish, cat_all
    <2> QED BY <2>2 DEF IInv, Finish, TopLevel
  <1>5. CASE atoms \in 1 .. 2
    <2>1. IsStack(frags') /\ Len(frags') = Len(frags) - atoms + 1
      <3>1. atoms \in 1 .. 2 /\ atoms <= Len(frags) BY <1>3, <1>5
      <3>2. frags' = cat_all(frags, atoms) BY DEF Finish
      <3> QED BY <3>1, <3>2, <1>1, CatAll
    <2>2. Len(frags') = 1 /\ status' # "reading" /\ status' \in {"done", "error"}
      BY <2>1, <1>3, <1>5 DEF Finish
    <2> QED BY <2>1, <2>2 DEF IInv, Finish, TopLevel
  <1> QED BY <1>1, <1>4, <1>5

LEMMA Inductive == IInv /\ [Next]_vars => IInv'
  <1> SUFFICES ASSUME IInv, [Next]_vars PROVE IInv' OBVIOUS
  <1>1. CASE OpenGroup BY <1>1, OpenStep
  <1>2. CASE CloseGroup BY <1>2, CloseStep
  <1>3. CASE Bar BY <1>3, BarStep
  <1>4. CASE Finish BY <1>4, FinishStep
  <1>5. CASE CharacterClass BY <1>5, PushStep DEF CharacterClass, Reading
  <1>6. CASE Escaped BY <1>6, PushStep DEF Escaped, Reading, Literal
  <1>7. CASE Character BY <1>7, PushStep DEF Character, Literal
  <1>8. CASE TooManyGroups \/ StrayParen \/ StrayClose \/ StrayBracket
             \/ StrayBar \/ Unclosed
    BY <1>8, FailStep
       DEF TooManyGroups, StrayParen, StrayClose, StrayBracket, StrayBar, Unclosed
  <1>9. CASE UNCHANGED vars
    BY <1>9 DEF vars, IInv, TopLevel
  <1> QED BY <1>1, <1>2, <1>3, <1>4, <1>5, <1>6, <1>7, <1>8, <1>9 DEF Next

LEMMA Accounted == IInv => FragmentsAccounted
  <1> SUFFICES ASSUME IInv, status = "reading"
               PROVE  \E base \in [1 .. Len(paren) + 1 -> 0 .. Len(frags)] :
                        /\ base[1] = 0
                        /\ \A i \in 1 .. Len(paren) :
                              base[i + 1] = base[i] + paren[i].alter + paren[i].atoms
                        /\ Len(frags) = base[Len(paren) + 1] + alter + atoms
    BY DEF IInv, FragmentsAccounted
  <1>1. PICK base : /\ Ledger(base, paren)
                    /\ Len(frags) = base[Len(paren) + 1] + alter + atoms
    BY DEF IInv, Holds
  <1>2. base \in [1 .. Len(paren) + 1 -> Nat] /\ Len(paren) \in Nat
        /\ alter \in Nat /\ atoms \in Nat
    BY <1>1 DEF IInv, Ledger
  <1>3. ASSUME NEW i \in 1 .. Len(paren) + 1 PROVE base[i] \in 0 .. Len(frags)
    <2>1. base[i] <= base[Len(paren) + 1] BY <1>1, <1>2 DEF Ledger
    <2>2. base[i] \in Nat /\ base[Len(paren) + 1] \in Nat BY <1>2
    <2> QED BY <2>1, <2>2, <1>1, <1>2
  <1>4. base \in [1 .. Len(paren) + 1 -> 0 .. Len(frags)] BY <1>2, <1>3
  <1> QED BY <1>1, <1>4 DEF Ledger

(* The stack of fragments always holds what the counters of the open       *)
(* groups say, and a pattern that is complete is one fragment.             *)
THEOREM NoFragmentLost == Spec => []FragmentsAccounted
  <1> QED BY Started, Inductive, Accounted, PTL DEF Spec
=============================================================================
