---------------------------- MODULE TheoryProofs ----------------------------
(***************************************************************************)
(* The walk of cr_theory_main over the data points, for every theory.      *)
(*                                                                         *)
(* The indices of the walk are the digits of a number whose bases are the  *)
(* numbers of data points (NumbersOf).  The carry of the loop adds one to  *)
(* it, so that the round counts the combinations, and two combinations     *)
(* never have the same number: each is called once.                        *)
(***************************************************************************)
EXTENDS RunnerProofs, RunnerProperties

\* The walk starts at the first combination, which exists.
LEMMA FirstInRange ==
    ASSUME NEW points \in Points
    PROVE  InRange(points, first_indices(points))
  BY DEF Points, InRange, first_indices

(* The carry at the end of the loop of cr_theory_main never leaves the     *)
(* data points: an index is moved on only when it is not at its last one.  *)
THEOREM WalkInRange ==
    ASSUME NEW points \in Points, NEW indices \in Seq(Nat),
           InRange(points, indices)
    PROVE  InRange(points, next_indices(points, indices))
  <1> DEFINE next == next_indices(points, indices)
  <1>1. DOMAIN next = DOMAIN points BY DEF next_indices, InRange
  <1>2. ASSUME NEW i \in DOMAIN points PROVE next[i] < points[i]
    <2>0. /\ i \in DOMAIN indices /\ indices[i] \in Nat /\ i \in Nat /\ i > 0
          /\ points[i] \in Nat \ {0} /\ indices[i] < points[i]
      BY DEF Points, InRange
    <2>1. CASE i \in carried(points, indices)
      BY <2>0, <2>1 DEF next_indices
    <2>2. CASE /\ i \notin carried(points, indices)
               /\ \A k \in 1 .. (i - 1) : k \in carried(points, indices)
      <3>1. \A k \in 1 .. (i - 1) : indices[k] = points[k] - 1
        BY <2>2 DEF carried
      <3>2. PICK k \in 1 .. i : indices[k] # points[k] - 1
        BY <2>2 DEF carried
      <3>3. k = i BY <2>0, <3>1, <3>2
      <3>4. next[i] = indices[i] + 1 BY <2>0, <2>2 DEF next_indices
      <3>5. QED BY <2>0, <3>2, <3>3, <3>4
    <2>3. CASE /\ i \notin carried(points, indices)
               /\ ~ \A k \in 1 .. (i - 1) : k \in carried(points, indices)
      BY <2>0, <2>3 DEF next_indices
    <2>4. QED BY <2>1, <2>2, <2>3
  <1>3. QED BY <1>1, <1>2 DEF InRange

----------------------------------------------------------------------------
(* The number of a combination.                                            *)

LEMMA Distribution ==
    ASSUME NEW a \in Int, NEW b \in Int
    PROVE  /\ (a + 1) * b = a * b + b /\ a * b \in Int
           /\ b + (a - 1) * b = b * a
  OBVIOUS

\* The weights of the parameters: the products of the data points before them.
WeightsOf(points, w) ==
    /\ w \in [0 .. Len(points) -> Nat \ {0}] /\ w[0] = 1
    /\ \A i \in 1 .. Len(points) : w[i] = w[i - 1] * points[i]

LEMMA ProductPositive ==
    ASSUME NEW a \in Nat \ {0}, NEW b \in Nat \ {0}
    PROVE  a * b \in Nat \ {0}
  <1>1. a * b >= b OBVIOUS
  <1>2. QED BY <1>1

LEMMA WeightsExist ==
    ASSUME NEW points \in Points
    PROVE  WeightsOf(points, Weights(points))
  <1> DEFINE n == Len(points)
             Body(f) == [i \in 0 .. n |-> IF i = 0 THEN 1 ELSE f[i - 1] * points[i]]
             weights == CHOOSE f : f = Body(f)
             Part(m, f) == /\ f \in [0 .. m -> Nat \ {0}] /\ f[0] = 1
                           /\ \A i \in 1 .. m : f[i] = f[i - 1] * points[i]
             S == {m \in 0 .. n : \E f : Part(m, f)}
  <1>0. n \in Nat /\ \A i \in 1 .. n : points[i] \in Nat \ {0} BY DEF Points
  <1>1. 0 \in S
    <2>1. Part(0, [i \in 0 .. 0 |-> 1]) OBVIOUS
    <2>2. 0 \in 0 .. n BY <1>0
    <2> HIDE DEF Part
    <2>3. QED BY <2>1, <2>2
  <1>2. ASSUME NEW m \in 1 .. n, m - 1 \in S PROVE m \in S
    <2>1. PICK f : Part(m - 1, f) BY <1>2
    <2> DEFINE h == [i \in 0 .. m |-> IF i = m THEN f[m - 1] * points[m] ELSE f[i]]
    <2>2. f[m - 1] \in Nat \ {0} /\ points[m] \in Nat \ {0} BY <1>0, <2>1
    <2>3. h[m] \in Nat \ {0} BY <1>0, <2>2, ProductPositive
    <2>4. \A i \in 0 .. m - 1 : h[i] = f[i] /\ f[i] \in Nat \ {0}
      BY <1>0, <2>1
    <2>5. h \in [0 .. m -> Nat \ {0}]
      <3>1. \A i \in 0 .. m : i = m \/ i \in 0 .. m - 1 BY <1>0
      <3>2. \A i \in 0 .. m : h[i] \in Nat \ {0} BY <2>3, <2>4, <3>1
      <3>3. h = [i \in 0 .. m |-> h[i]] OBVIOUS
      <3> HIDE DEF h
      <3>4. QED BY <3>2, <3>3
    <2>6. h[0] = 1 BY <1>0, <2>1, <2>4
    <2>7. ASSUME NEW i \in 1 .. m PROVE h[i] = h[i - 1] * points[i]
      <3>1. CASE i = m BY <1>0, <3>1
      <3>2. CASE i # m
        <4>1. i \in 1 .. m - 1 /\ i - 1 \in 0 .. m - 1 /\ i \in 0 .. m - 1
          BY <1>0, <3>2
        <4>2. f[i] = f[i - 1] * points[i] BY <2>1, <4>1
        <4> HIDE DEF h
        <4>3. QED BY <2>4, <4>1, <4>2
      <3>3. QED BY <3>1, <3>2
    <2> HIDE DEF h
    <2>8. Part(m, h) BY <2>5, <2>6, <2>7
    <2>9. m \in 0 .. n BY <1>0
    <2> HIDE DEF Part
    <2>10. QED BY <2>8, <2>9
  <1>3. \E f : Part(n, f)
    <2>1. \A m \in 1 .. n : m - 1 \in S => m \in S BY <1>2
    <2> HIDE DEF S
    <2>2. \A m \in 0 .. n : m \in S BY <1>0, <1>1, <2>1, UpTo
    <2>3. n \in 0 .. n BY <1>0
    <2> USE DEF S
    <2>4. QED BY <2>2, <2>3
  <1>4. PICK f : Part(n, f) BY <1>3
  <1>5. f = Body(f)
    <2>1. \A i \in 0 .. n : i # 0 => i \in 1 .. n BY <1>0
    <2>2. \A i \in 0 .. n : f[i] = Body(f)[i] BY <1>0, <1>4, <2>1
    <2>3. QED BY <1>4, <2>2
  <1>6. Weights(points) = weights BY DEF Weights
  <1>7. weights = Body(weights) BY <1>5
  <1> HIDE DEF weights
  <1>8. /\ \A i \in 0 .. n : weights[i] = IF i = 0 THEN 1
                                          ELSE weights[i - 1] * points[i]
        /\ weights = [i \in 0 .. n |-> weights[i]]
    BY <1>7
  <1>9. weights[0] = 1
    <2>1. 0 \in 0 .. n BY <1>0
    <2>2. QED BY <1>8, <2>1
  <1>10. \A i \in 1 .. n : weights[i] = weights[i - 1] * points[i]
    <2>1. \A i \in 1 .. n : i \in 0 .. n /\ i # 0 BY <1>0
    <2>2. QED BY <1>8, <2>1
  <1>11. \A i \in 0 .. n : weights[i] \in Nat \ {0}
    <2> DEFINE P == {i \in 0 .. n : weights[i] \in Nat \ {0}}
    <2>1. 0 \in P BY <1>0, <1>9
    <2>2. ASSUME NEW i \in 1 .. n, i - 1 \in P PROVE i \in P
      <3>1. weights[i - 1] \in Nat \ {0} /\ points[i] \in Nat \ {0}
        BY <1>0, <2>2
      <3>2. weights[i] \in Nat \ {0} BY <1>10, <3>1, ProductPositive
      <3>3. QED BY <1>0, <3>2
    <2>3. \A i \in 1 .. n : i - 1 \in P => i \in P BY <2>2
    <2> HIDE DEF P
    <2>4. \A i \in 0 .. n : i \in P BY <1>0, <2>1, <2>3, UpTo
    <2> USE DEF P
    <2>5. QED BY <2>4
  <1>12. QED BY <1>6, <1>8, <1>9, <1>10, <1>11 DEF WeightsOf

\* The numbers the indices spell, parameter by parameter.
NumbersOf(points, indices, v) ==
    /\ v \in [0 .. Len(points) -> Nat] /\ v[0] = 0
    /\ \A i \in 1 .. Len(points) :
          v[i] = v[i - 1] + indices[i] * Weights(points)[i - 1]

LEMMA NumbersExist ==
    ASSUME NEW points \in Points, NEW indices \in [DOMAIN points -> Nat]
    PROVE  NumbersOf(points, indices, Numbers(points, indices))
  <1> DEFINE n == Len(points)
             w == Weights(points)
             Body(f) == [i \in 0 .. n |-> IF i = 0 THEN 0
                                          ELSE f[i - 1] + indices[i] * w[i - 1]]
             numbers == CHOOSE f : f = Body(f)
             Part(m, f) == /\ f \in [0 .. m -> Nat] /\ f[0] = 0
                           /\ \A i \in 1 .. m :
                                 f[i] = f[i - 1] + indices[i] * w[i - 1]
             S == {m \in 0 .. n : \E f : Part(m, f)}
  <1>w. Numbers(points, indices) = numbers BY DEF Numbers
  <1>0. n \in Nat /\ \A i \in 1 .. n : indices[i] * w[i - 1] \in Nat
    <2>1. n \in Nat /\ DOMAIN points = 1 .. n BY DEF Points
    <2>2. w \in [0 .. n -> Nat \ {0}] BY WeightsExist DEF WeightsOf
    <2> HIDE DEF w
    <2>3. ASSUME NEW i \in 1 .. n PROVE indices[i] * w[i - 1] \in Nat
      <3>1. i - 1 \in 0 .. n BY <2>1
      <3>2. indices[i] \in Nat /\ w[i - 1] \in Nat BY <2>1, <2>2, <3>1
      <3>3. QED BY <3>2
    <2>4. QED BY <2>1, <2>3
  <1> HIDE DEF w
  <1>1. 0 \in S
    <2>1. Part(0, [i \in 0 .. 0 |-> 0]) OBVIOUS
    <2>2. 0 \in 0 .. n BY <1>0
    <2> HIDE DEF Part
    <2>3. QED BY <2>1, <2>2
  <1>2. ASSUME NEW m \in 1 .. n, m - 1 \in S PROVE m \in S
    <2>1. PICK f : Part(m - 1, f) BY <1>2
    <2> DEFINE h == [i \in 0 .. m |-> IF i = m THEN f[m - 1] + indices[m] * w[m - 1]
                                      ELSE f[i]]
    <2>2. f[m - 1] \in Nat BY <1>0, <2>1
    <2>3. h[m] \in Nat BY <1>0, <2>2
    <2>4. \A i \in 0 .. m - 1 : h[i] = f[i] /\ f[i] \in Nat
      BY <1>0, <2>1
    <2>5. h \in [0 .. m -> Nat]
      <3>1. \A i \in 0 .. m : i = m \/ i \in 0 .. m - 1 BY <1>0
      <3>2. \A i \in 0 .. m : h[i] \in Nat BY <2>3, <2>4, <3>1
      <3>3. h = [i \in 0 .. m |-> h[i]] OBVIOUS
      <3> HIDE DEF h
      <3>4. QED BY <3>2, <3>3
    <2>6. h[0] = 0 BY <1>0, <2>1, <2>4
    <2>7. ASSUME NEW i \in 1 .. m PROVE h[i] = h[i - 1] + indices[i] * w[i - 1]
      <3>1. CASE i = m BY <1>0, <3>1
      <3>2. CASE i # m
        <4>1. i \in 1 .. m - 1 /\ i - 1 \in 0 .. m - 1 /\ i \in 0 .. m - 1
          BY <1>0, <3>2
        <4>2. f[i] = f[i - 1] + indices[i] * w[i - 1] BY <2>1, <4>1
        <4> HIDE DEF h
        <4>3. QED BY <2>4, <4>1, <4>2
      <3>3. QED BY <3>1, <3>2
    <2> HIDE DEF h
    <2>8. Part(m, h) BY <2>5, <2>6, <2>7
    <2>9. m \in 0 .. n BY <1>0
    <2> HIDE DEF Part
    <2>10. QED BY <2>8, <2>9
  <1>3. \E f : Part(n, f)
    <2>1. \A m \in 1 .. n : m - 1 \in S => m \in S BY <1>2
    <2> HIDE DEF S
    <2>2. \A m \in 0 .. n : m \in S BY <1>0, <1>1, <2>1, UpTo
    <2>3. n \in 0 .. n BY <1>0
    <2> USE DEF S
    <2>4. QED BY <2>2, <2>3
  <1>4. PICK f : Part(n, f) BY <1>3
  <1>5. f = Body(f)
    <2>1. \A i \in 0 .. n : i # 0 => i \in 1 .. n BY <1>0
    <2>2. \A i \in 0 .. n : f[i] = Body(f)[i] BY <1>0, <1>4, <2>1
    <2>3. QED BY <1>4, <2>2
  <1>7. numbers = Body(numbers) BY <1>5
  <1> HIDE DEF numbers
  <1>8. /\ \A i \in 0 .. n : numbers[i] = IF i = 0 THEN 0
                                ELSE numbers[i - 1] + indices[i] * w[i - 1]
        /\ numbers = [i \in 0 .. n |-> numbers[i]]
    BY <1>7
  <1>9. numbers[0] = 0
    <2>1. 0 \in 0 .. n BY <1>0
    <2>2. QED BY <1>8, <2>1
  <1>10. \A i \in 1 .. n : numbers[i] = numbers[i - 1] + indices[i] * w[i - 1]
    <2>1. \A i \in 1 .. n : i \in 0 .. n /\ i # 0 BY <1>0
    <2>2. QED BY <1>8, <2>1
  <1>11. \A i \in 0 .. n : numbers[i] \in Nat
    <2> DEFINE P == {i \in 0 .. n : numbers[i] \in Nat}
    <2>1. 0 \in P BY <1>0, <1>9
    <2>2. \A i \in 1 .. n : i - 1 \in P => i \in P BY <1>0, <1>10
    <2> HIDE DEF P
    <2>3. \A i \in 0 .. n : i \in P BY <1>0, <2>1, <2>2, UpTo
    <2> USE DEF P
    <2>4. QED BY <2>3
  <1>12. QED BY <1>w, <1>8, <1>9, <1>10, <1>11 DEF NumbersOf, w

----------------------------------------------------------------------------
(* What the walk does to the number.                                       *)

\* The first combination is the number zero.
LEMMA FirstNumber ==
    ASSUME NEW points \in Points
    PROVE  Combination(points, first_indices(points)) = 0
  <1> DEFINE n == Len(points)
             v == Numbers(points, first_indices(points))
             w == Weights(points)
             P == {i \in 0 .. n : v[i] = 0}
  <1>0. n \in Nat /\ DOMAIN points = 1 .. n BY DEF Points
  <1>1. first_indices(points) \in [DOMAIN points -> Nat] BY DEF first_indices
  <1>2. NumbersOf(points, first_indices(points), v) BY <1>1, NumbersExist
  <1>3. w \in [0 .. n -> Nat \ {0}] BY WeightsExist DEF WeightsOf
  <1>4. \A i \in 1 .. n : v[i] = v[i - 1] + 0 * w[i - 1] /\ w[i - 1] \in Nat
    <2>1. \A i \in 1 .. n : first_indices(points)[i] = 0 BY <1>0 DEF first_indices
    <2>2. \A i \in 1 .. n : i - 1 \in 0 .. n BY <1>0
    <2> HIDE DEF v
    <2>3. QED BY <1>2, <1>3, <2>1, <2>2 DEF NumbersOf
  <1>5. 0 \in P BY <1>0, <1>2 DEF NumbersOf
  <1> HIDE DEF v, w
  <1>6. \A i \in 1 .. n : i - 1 \in P => i \in P BY <1>0, <1>4
  <1>7. \A i \in 0 .. n : i \in P
    <2> HIDE DEF P
    <2>1. QED BY <1>0, <1>5, <1>6, UpTo
  <1>8. v[n] = 0 BY <1>0, <1>7
  <1>9. QED BY <1>8 DEF Combination, v

(* Up to a parameter that was carried the number is the largest there is,  *)
(* and nothing is left of it; after one that was not, it is one more.      *)
LEMMA NextNumbers ==
    ASSUME NEW points \in Points, NEW indices \in [DOMAIN points -> Nat],
           InRange(points, indices), NEW i \in 0 .. Len(points)
    PROVE  LET v == Numbers(points, indices)
               u == Numbers(points, next_indices(points, indices))
           IN  IF i = 0 \/ i \in carried(points, indices)
               THEN v[i] + 1 = Weights(points)[i] /\ u[i] = 0
               ELSE u[i] = v[i] + 1
  <1> DEFINE n == Len(points)
             next == next_indices(points, indices)
             v == Numbers(points, indices)
             u == Numbers(points, next)
             w == Weights(points)
             done(k) == k = 0 \/ k \in carried(points, indices)
             S == {k \in 0 .. n : IF done(k) THEN v[k] + 1 = w[k] /\ u[k] = 0
                                  ELSE u[k] = v[k] + 1}
  <1>0. n \in Nat /\ DOMAIN points = 1 .. n /\ \A k \in 1 .. n : points[k] \in Nat \ {0}
    BY DEF Points
  <1>1. next \in [DOMAIN points -> Nat]
    <2>1. next = [k \in DOMAIN points |-> next[k]] BY DEF next_indices
    <2>2. \A k \in DOMAIN points : next[k] \in Nat BY DEF next_indices
    <2> HIDE DEF next
    <2>3. QED BY <2>1, <2>2
  <1>2. WeightsOf(points, w) BY WeightsExist
  <1>3. NumbersOf(points, indices, v) BY NumbersExist
  <1>4. NumbersOf(points, next, u)
    <2> HIDE DEF next
    <2>1. QED BY <1>1, NumbersExist
  <1> HIDE DEF v, u, w
  <1>5. 0 \in S BY <1>0, <1>2, <1>3, <1>4 DEF WeightsOf, NumbersOf
  <1>6. ASSUME NEW k \in 1 .. n, k - 1 \in S PROVE k \in S
    <2>0. /\ k \in Nat /\ k - 1 \in 0 .. n /\ k \in 0 .. n /\ k # 0
          /\ k \in DOMAIN points /\ k \in DOMAIN indices
      BY <1>0
    <2>1. /\ w[k] = w[k - 1] * points[k]
          /\ v[k] = v[k - 1] + indices[k] * w[k - 1]
          /\ u[k] = u[k - 1] + next[k] * w[k - 1]
          /\ w[k - 1] \in Nat /\ v[k - 1] \in Nat /\ u[k - 1] \in Nat
          /\ points[k] \in Nat /\ indices[k] \in Nat
      <3> HIDE DEF next
      <3>1. QED
        BY <1>0, <1>2, <1>3, <1>4, <2>0 DEF WeightsOf, NumbersOf, w
    <2>2. done(k - 1) <=> \A l \in 1 .. (k - 1) : l \in carried(points, indices)
      BY <1>0, <2>0 DEF carried
    <2>3. k \in carried(points, indices)
             <=> done(k - 1) /\ indices[k] = points[k] - 1
      BY <1>0, <2>0 DEF carried
    <2>4. next[k] = IF k \in carried(points, indices) THEN 0
                    ELSE IF done(k - 1) THEN indices[k] + 1 ELSE indices[k]
      BY <2>0, <2>2 DEF next_indices
    <2> HIDE DEF next
    <2>5. CASE k \in carried(points, indices)
      <3>1. v[k - 1] + 1 = w[k - 1] /\ u[k - 1] = 0 BY <1>6, <2>3, <2>5
      <3>2. u[k] = 0 BY <2>1, <2>4, <2>5, <3>1
      <3>3. v[k] + 1 = w[k - 1] + (points[k] - 1) * w[k - 1]
        BY <2>1, <2>3, <2>5, <3>1
      <3>4. w[k - 1] + (points[k] - 1) * w[k - 1] = w[k - 1] * points[k]
        <4>1. points[k] \in Int /\ w[k - 1] \in Int BY <2>1
        <4>2. \A a, b \in Int : b + (a - 1) * b = b * a BY Distribution
        <4>3. QED BY <4>1, <4>2
      <3>5. QED BY <2>0, <2>1, <2>5, <3>2, <3>3, <3>4
    <2>6. CASE k \notin carried(points, indices) /\ done(k - 1)
      <3>1. v[k - 1] + 1 = w[k - 1] /\ u[k - 1] = 0 BY <1>6, <2>6
      <3>2. u[k] = (indices[k] + 1) * w[k - 1] BY <2>1, <2>4, <2>6, <3>1
      <3>3. (indices[k] + 1) * w[k - 1] = indices[k] * w[k - 1] + w[k - 1]
        <4>1. indices[k] \in Int /\ w[k - 1] \in Int BY <2>1
        <4>2. \A a, b \in Int : (a + 1) * b = a * b + b BY Distribution
        <4>3. QED BY <4>1, <4>2
      <3>4. indices[k] * w[k - 1] \in Nat BY <2>1
      <3>5. u[k] = v[k] + 1 BY <2>1, <3>1, <3>2, <3>3, <3>4
      <3>6. QED BY <2>0, <2>6, <3>5
    <2>7. CASE k \notin carried(points, indices) /\ ~done(k - 1)
      <3>1. u[k - 1] = v[k - 1] + 1 BY <1>6, <2>7
      <3>2. next[k] = indices[k] BY <2>4, <2>7
      <3>3. indices[k] * w[k - 1] \in Nat BY <2>1
      <3>4. u[k] = v[k] + 1 BY <2>1, <3>1, <3>2, <3>3
      <3>5. QED BY <2>0, <2>7, <3>4
    <2>8. QED BY <2>5, <2>6, <2>7
  <1>7. \A k \in 1 .. n : k - 1 \in S => k \in S BY <1>6
  <1>8. i \in S
    <2> HIDE DEF S
    <2>1. QED BY <1>0, <1>5, <1>7, UpTo
  <1>9. QED BY <1>8 DEF v, u, w

(* The loop moves on to the next number, and stops after the largest.      *)
LEMMA NextNumber ==
    ASSUME NEW points \in Points, points # <<>>,
           NEW indices \in [DOMAIN points -> Nat], InRange(points, indices)
    PROVE  LET r == Combination(points, indices)
           IN  /\ r \in Nat
               /\ IF has_next(points, indices)
                  THEN Combination(points, next_indices(points, indices)) = r + 1
                  ELSE r + 1 = Product(points)
  <1>1. Len(points) \in 0 .. Len(points) /\ Len(points) # 0 BY DEF Points
  <1>2. NumbersOf(points, indices, Numbers(points, indices)) BY NumbersExist
  <1>3. QED
    BY <1>1, <1>2, NextNumbers DEF Combination, Product, has_next, NumbersOf

\* A number and its last digit: what is left is smaller than the weight.
LEMMA LastDigit ==
    ASSUME NEW x \in Nat, NEW y \in Nat, NEW w \in Nat, x < w, y < w,
           NEW a \in Nat, NEW b \in Nat, x + a * w = y + b * w
    PROVE  a = b /\ x = y
  <1>1. ASSUME NEW u \in Nat, NEW v \in Nat, NEW c \in Nat, NEW d \in Nat,
               u < w, v < w, u + c * w = v + d * w
        PROVE  ~(c < d)
    <2>1. SUFFICES ASSUME c < d PROVE FALSE OBVIOUS
    <2>2. PICK e \in Nat : d = c + 1 + e
      <3>1. d - c - 1 \in Nat /\ d = c + 1 + (d - c - 1) BY <2>1
      <3>2. QED BY <3>1
    <2>3. d * w = c * w + w + e * w /\ e * w \in Nat BY <2>2
    <2>4. c * w \in Nat /\ d * w \in Nat OBVIOUS
    <2>5. QED BY <1>1, <2>3, <2>4
  <1>2. ~(a < b) /\ ~(b < a) BY <1>1
  <1>3. a = b BY <1>2
  <1>4. a * w \in Nat OBVIOUS
  <1>5. QED BY <1>3, <1>4

\* The number of the first parameters is smaller than the next weight.
LEMMA NumbersSmall ==
    ASSUME NEW points \in Points, NEW indices \in [DOMAIN points -> Nat],
           InRange(points, indices), NEW i \in 0 .. Len(points)
    PROVE  Numbers(points, indices)[i] < Weights(points)[i]
  <1> DEFINE n == Len(points)
             v == Numbers(points, indices)
             w == Weights(points)
             S == {k \in 0 .. n : v[k] < w[k]}
  <1>0. n \in Nat /\ DOMAIN points = 1 .. n BY DEF Points
  <1>1. WeightsOf(points, w) BY WeightsExist
  <1>2. NumbersOf(points, indices, v) BY NumbersExist
  <1> HIDE DEF v
  <1>3. 0 \in S BY <1>0, <1>1, <1>2 DEF WeightsOf, NumbersOf
  <1>4. ASSUME NEW k \in 1 .. n, k - 1 \in S PROVE k \in S
    <2>0. k - 1 \in 0 .. n /\ k \in 0 .. n /\ k \in DOMAIN points BY <1>0
    <2>1. /\ w[k] = w[k - 1] * points[k]
          /\ v[k] = v[k - 1] + indices[k] * w[k - 1]
          /\ w[k - 1] \in Nat /\ v[k - 1] \in Nat
      BY <1>0, <1>1, <1>2, <2>0 DEF WeightsOf, NumbersOf
    <2>2. PICK a \in Nat : a = indices[k] BY <2>0
    <2>3. PICK e \in Nat : points[k] = a + 1 + e
      <3>1. points[k] \in Nat /\ a < points[k]
        BY <1>0, <2>0, <2>2 DEF Points, InRange
      <3>2. points[k] - a - 1 \in Nat /\ points[k] = a + 1 + (points[k] - a - 1)
        BY <3>1
      <3>3. QED BY <3>2
    <2>4. PICK b \in Nat : b = w[k - 1] BY <2>1
    <2>5. b * (a + 1 + e) = a * b + b + e * b /\ e * b \in Nat /\ a * b \in Nat
      OBVIOUS
    <2>6. v[k - 1] < b BY <1>4, <2>4
    <2>7. w[k] = a * b + b + e * b /\ v[k] = v[k - 1] + a * b
      BY <2>1, <2>2, <2>3, <2>4, <2>5
    <2> HIDE DEF w
    <2>8. PICK c \in Nat, d \in Nat : c = a * b /\ d = e * b BY <2>5
    <2>9. w[k] = c + b + d /\ v[k] = v[k - 1] + c BY <2>7, <2>8
    <2>10. PICK x \in Nat : x = v[k - 1] BY <2>1
    <2>11. x + c < c + b + d BY <2>6, <2>10
    <2>12. v[k] < w[k] BY <2>9, <2>10, <2>11
    <2>13. QED BY <2>0, <2>12 DEF w
  <1>5. \A k \in 1 .. n : k - 1 \in S => k \in S BY <1>4
  <1>6. i \in S
    <2> HIDE DEF S
    <2>1. QED BY <1>0, <1>3, <1>5, UpTo
  <1>7. QED BY <1>6 DEF v

(* No two combinations have the same number, and there are as many numbers *)
(* as the product of the data points: with CalledWithAll below, a theory   *)
(* is called once with each combination.                                   *)
THEOREM EachOnce ==
    ASSUME NEW points \in Points,
           NEW first \in [DOMAIN points -> Nat], InRange(points, first),
           NEW second \in [DOMAIN points -> Nat], InRange(points, second),
           Combination(points, first) = Combination(points, second)
    PROVE  first = second /\ Combination(points, first) < Product(points)
  <1> DEFINE n == Len(points)
             w == Weights(points)
             u == Numbers(points, first)
             v == Numbers(points, second)
             S == {k \in 0 .. n : u[n - k] = v[n - k]}
  <1>0. n \in Nat /\ DOMAIN points = 1 .. n BY DEF Points
  <1>1. WeightsOf(points, w) BY WeightsExist
  <1>2. NumbersOf(points, first, u) /\ NumbersOf(points, second, v)
    BY NumbersExist
  <1>3. \A k \in 0 .. n : u[k] < w[k] /\ v[k] < w[k] BY NumbersSmall
  <1>4. u[n] = v[n] BY DEF Combination
  <1> HIDE DEF u, v, w
  <1>5. ASSUME NEW k \in 1 .. n, u[k] = v[k]
        PROVE  first[k] = second[k] /\ u[k - 1] = v[k - 1]
    <2>1. k - 1 \in 0 .. n BY <1>0
    <2>2. /\ u[k] = u[k - 1] + first[k] * w[k - 1]
          /\ v[k] = v[k - 1] + second[k] * w[k - 1]
          /\ u[k - 1] \in Nat /\ v[k - 1] \in Nat /\ w[k - 1] \in Nat
          /\ u[k - 1] < w[k - 1] /\ v[k - 1] < w[k - 1]
          /\ first[k] \in Nat /\ second[k] \in Nat
      BY <1>0, <1>1, <1>2, <1>3, <2>1 DEF NumbersOf, WeightsOf, w
    <2>3. u[k - 1] + first[k] * w[k - 1] = v[k - 1] + second[k] * w[k - 1]
      BY <1>5, <2>2
    <2>4. \A x, y, z, a, b \in Nat :
             x < z /\ y < z /\ x + a * z = y + b * z => a = b /\ x = y
      BY LastDigit
    <2>5. PICK x \in Nat, y \in Nat, z \in Nat, a \in Nat, b \in Nat :
             /\ x = u[k - 1] /\ y = v[k - 1] /\ z = w[k - 1]
             /\ a = first[k] /\ b = second[k]
      BY <2>2
    <2>6. x < z /\ y < z BY <2>2, <2>5
    <2>7. x + a * z = y + b * z BY <2>3, <2>5
    <2>8. a = b /\ x = y BY <2>4, <2>6, <2>7
    <2>9. QED BY <2>5, <2>8
  <1>6. 0 \in S BY <1>0, <1>4
  <1>7. ASSUME NEW k \in 1 .. n, k - 1 \in S PROVE k \in S
    <2>1. n - (k - 1) \in 1 .. n /\ k \in 0 .. n BY <1>0
    <2>2. (n - (k - 1)) - 1 = n - k BY <1>0
    <2>3. u[n - (k - 1)] = v[n - (k - 1)] BY <1>7
    <2>4. QED BY <1>5, <2>1, <2>2, <2>3
  <1>8. \A k \in 0 .. n : k \in S
    <2>1. \A k \in 1 .. n : k - 1 \in S => k \in S BY <1>7
    <2> HIDE DEF S
    <2>2. QED BY <1>0, <1>6, <2>1, UpTo
  <1>9. ASSUME NEW k \in 1 .. n PROVE first[k] = second[k]
    <2>1. n - k \in 0 .. n /\ n - (n - k) = k BY <1>0
    <2>2. u[n - (n - k)] = v[n - (n - k)] BY <1>8, <2>1
    <2>3. u[k] = v[k] BY <2>1, <2>2
    <2>4. QED BY <1>5, <2>3
  <1>10. first = second BY <1>0, <1>9
  <1>11. Combination(points, first) < Product(points)
    BY <1>0, <1>3 DEF Combination, Product, u, w
  <1>12. QED BY <1>10, <1>11

----------------------------------------------------------------------------
Early == {"boot", "setup", "init"}

Walk(j) ==
    /\ wk[j].pc \in TheoryCounter => InRange(Test(j).points, wk[j].indices)
    /\ Test(j).points # <<>> =>
          /\ wk[j].pc \in Early => wk[j].round = 0
          /\ wk[j].pc \in TheoryCounter
                => wk[j].round = Combination(Test(j).points, wk[j].indices)
          /\ wk[j].pc = "stat" => wk[j].round = Product(Test(j).points)
          /\ wk[j].pc # "main"

\* A move from p to q that leaves the walk where it is, or ends it.
KeepsPlace(j, p, q) ==
    /\ q \in TheoryCounter => p \in TheoryCounter
    /\ Test(j).points # <<>> =>
          /\ q \in Early => p \in Early
          /\ q = "stat" => p = "stat"
          /\ q # "main" \/ p = "main"

\* What a step may do to the walk of a worker: leave it, end it, or move on
\* within the combination.
Steady(j) == /\ KeepsPlace(j, wk[j].pc, wk'[j].pc)
             /\ wk'[j].indices = wk[j].indices
             /\ wk'[j].round = wk[j].round

LEMMA SteadyWalk ==
    ASSUME NEW j \in Job, Walk(j), Steady(j)
    PROVE  Walk(j)'
  <1>1. Test(j)' = Test(j) BY DEF Test
  <1>2. QED BY <1>1 DEF Walk, Steady, KeepsPlace

\* A worker that stays where it is keeps its walk.
LEMMA StaySteady ==
    ASSUME NEW j, wk'[j].pc = wk[j].pc, wk'[j].indices = wk[j].indices,
           wk'[j].round = wk[j].round
    PROVE  Steady(j)
  BY DEF Steady, KeepsPlace

LEMMA BeginWalk ==
    ASSUME TypeOK, NEW j \in Job, Walk(j), wk[j].pc = "init",
           Test(j).points # <<>>, BeginTheory(j)
    PROVE  Walk(j)'
  <1>1. /\ wk'[j].indices = first_indices(Test(j).points)
        /\ wk'[j].pc = "th_setup" /\ wk'[j].round = wk[j].round
    BY DEF BeginTheory, TypeOK, WorkerTypeOK, WorkerRec
  <1>2. Test(j).points \in Points BY JobFacts DEF TestRec
  <1>3. Test(j)' = Test(j) BY DEF Test
  <1>4. InRange(Test(j).points, first_indices(Test(j).points))
    BY <1>2, FirstInRange
  <1>5. Combination(Test(j).points, first_indices(Test(j).points)) = 0
    BY <1>2, FirstNumber
  <1>6. wk[j].round = 0 BY DEF Walk, Early
  <1>7. QED BY <1>1, <1>3, <1>4, <1>5, <1>6 DEF Walk, Early

LEMMA RoundWalk ==
    ASSUME TypeOK, NEW j \in Job, wk[j].pc \in TheoryCounter, Walk(j),
           NEW m, NextRound(j, m)
    PROVE  Walk(j)'
  <1> DEFINE points == Test(j).points
             indices == wk[j].indices
             next == next_indices(points, indices)
  <1>1. /\ wk'[j].indices = next
        /\ wk'[j].round = wk[j].round + 1
        /\ wk'[j].pc = IF has_next(points, indices) THEN "th_setup" ELSE "stat"
    BY DEF NextRound, TypeOK, WorkerTypeOK, WorkerRec
  <1>2. points \in Points BY JobFacts DEF TestRec
  <1>3. indices \in Seq(Nat) BY DEF TypeOK, WorkerTypeOK, WorkerRec
  <1>4. Test(j)' = Test(j) BY DEF Test
  <1>5. InRange(points, indices) BY DEF Walk
  <1>6. InRange(points, next) BY <1>2, <1>3, <1>5, WalkInRange
  <1>7. ASSUME points # <<>>
        PROVE  IF has_next(points, indices)
               THEN wk[j].round + 1 = Combination(points, next)
               ELSE wk[j].round + 1 = Product(points)
    <2>1. indices \in [DOMAIN points -> Nat] BY <1>3, <1>5 DEF InRange
    <2>2. wk[j].round = Combination(points, indices) BY <1>7 DEF Walk
    <2> HIDE DEF points, indices
    <2>3. QED BY <1>2, <1>5, <1>7, <2>1, <2>2, NextNumber DEF next
  <1> HIDE DEF next
  <1>8. QED BY <1>1, <1>4, <1>6, <1>7 DEF Walk, Early, TheoryCounter

\* A worker that sends a message and moves within, or out of, the theory.
LEMMA SendWalk ==
    ASSUME TypeOK, NEW j \in Job, NEW m, NEW next, KeepsPlace(j, wk[j].pc, next),
           Send(j, m, next)
    PROVE  Steady(j)
  BY DEF Send, Steady, TypeOK, WorkerTypeOK, WorkerRec

LEMMA WorkerWalk ==
    ASSUME TypeOK, NEW j \in Job, Walk(j), WorkerStep(j)
    PROVE  Walk(j)'
  <1>0. wk[j] \in WorkerRec /\ wk \in [Job -> WorkerRec]
    BY DEF TypeOK, WorkerTypeOK
  <1>1. CASE UNCHANGED wk BY <1>1, StaySteady, SteadyWalk
  <1>2. CASE \/ ReceiveAck(j) \/ AssertPasses(j) \/ ExpectFails(j)
             \/ LogInfo(j) \/ LogWarning(j) \/ LogError(j)
    <2>1. ASSUME NEW m, Interject(j, m) PROVE Steady(j)
      BY <1>0, <2>1, StaySteady DEF Interject, WorkerRec
    <2>2. CASE AssertPasses(j) /\ ~FullStats
      BY <1>0, <2>2, StaySteady, SteadyWalk DEF AssertPasses, WorkerRec
    <2>3. CASE ReceiveAck(j) BY <1>1, <2>3 DEF ReceiveAck
    <2>4. CASE \E m : Interject(j, m) BY <2>1, <2>4, SteadyWalk
    <2>5. ExpectFails(j) \/ LogInfo(j) \/ LogWarning(j) \/ LogError(j)
            => \E m : Interject(j, m)
      BY DEF ExpectFails, LogInfo, LogWarning, LogError
    <2>6. AssertPasses(j) /\ FullStats => \E m : Interject(j, m)
      BY DEF AssertPasses
    <2>7. QED BY <1>2, <2>2, <2>3, <2>4, <2>5, <2>6
  <1>3. CASE \/ ReceiveNack(j) \/ Exit(j) \/ AbortInit(j) \/ ExitTest(j)
             \/ Crash(j)
    <2>1. PICK crashed, code : Dies(j, crashed, code)
      BY <1>3 DEF ReceiveNack, Exit, AbortInit, ExitTest, Crash
    <2>2. Steady(j) BY <1>0, <2>1, StaySteady DEF Dies, WorkerRec
    <2>3. QED BY <2>2, SteadyWalk
  <1>4. CASE \/ SendBirth(j) \/ SendSetup(j) \/ SendStatistic(j)
             \/ SendTeardown(j) \/ SendEnd(j) \/ SkipTest(j) \/ TestDie(j)
    <2>1. PICK m, next : Send(j, m, next) /\ KeepsPlace(j, wk[j].pc, next)
      BY <1>4 DEF SendBirth, SendSetup, SendStatistic, SendTeardown, SendEnd,
                  SkipTest, TestDie, At, KeepsPlace, TheoryCounter, Early
    <2>2. QED BY <2>1, SendWalk, SteadyWalk
  <1>5. CASE SendTheorySetup(j) \/ SendTheoryMain(j) \/ SendTheoryTeardown(j)
    <2>1. PICK m, next : Send(j, m, next) /\ KeepsPlace(j, wk[j].pc, next)
      BY <1>5 DEF SendTheorySetup, SendTheoryMain, SendTheoryTeardown, At,
                  KeepsPlace, TheoryCounter, Early
    <2>2. QED BY <2>1, SendWalk, SteadyWalk
  <1>6. CASE SendMain(j)
    <2>0. wk[j].pc = "init" BY <1>6 DEF SendMain, At
    <2>1. CASE Test(j).points # <<>> /\ BeginTheory(j)
      BY <2>0, <2>1, BeginWalk
    <2>2. CASE Test(j).points = <<>> /\ Send(j, M("PHASE", CS_MAIN), "main")
      <3>1. KeepsPlace(j, wk[j].pc, "main") BY <2>2 DEF KeepsPlace, TheoryCounter
      <3>2. QED BY <2>2, <3>1, SendWalk, SteadyWalk
    <2>3. QED BY <1>6, <2>1, <2>2 DEF SendMain
  <1>7. CASE SendTheoryAbort(j) \/ SendTheoryEnd(j)
    <2>1. PICK m : NextRound(j, m) /\ wk[j].pc \in TheoryCounter
      BY <1>7 DEF SendTheoryAbort, SendTheoryEnd, At, TheoryCounter
    <2>2. QED BY <2>1, RoundWalk
  <1>8. CASE AssertFails(j) \/ AbortTest(j)
    <2>1. PICK s \in Section : At(j, s) BY <1>8 DEF AssertFails, AbortTest, May
    <2>2. wk[j].pc = s BY <2>1 DEF At
    <2>3. KeepsPlace(j, s, landing(s))
      BY <2>2 DEF KeepsPlace, Walk, landing, TheoryCounter, Section, Early
    <2>4. CASE AssertFails(j)
      BY <2>2, <2>3, <2>4, SendWalk, SteadyWalk DEF AssertFails
    <2>5. CASE AbortTest(j)
      <3>1. /\ wk'[j].pc = landing(s) /\ wk'[j].indices = wk[j].indices
            /\ wk'[j].round = wk[j].round
        BY <1>0, <2>2, <2>5 DEF AbortTest, WorkerRec
      <3>2. QED BY <2>2, <2>3, <3>1, SteadyWalk DEF Steady
    <2>6. QED BY <1>8, <2>4, <2>5
  <1>9. CASE Hang(j)
    <2>1. /\ wk'[j].pc = "hung" /\ wk'[j].indices = wk[j].indices
          /\ wk'[j].round = wk[j].round
      BY <1>0, <1>9 DEF Hang, WorkerRec
    <2>2. Steady(j) BY <2>1 DEF Steady, KeepsPlace, TheoryCounter, Early
    <2>3. QED BY <2>2, SteadyWalk
  <1>10. QED
    BY <1>2, <1>3, <1>4, <1>5, <1>6, <1>7, <1>8, <1>9
    DEF WorkerStep, Trampoline, UserCode

LEMMA OutsideWalk ==
    ASSUME TypeOK, NEW j \in Job, Walk(j), Outside(j) \/ CallbackStep
    PROVE  Walk(j)'
  <1>0. wk[j] \in WorkerRec /\ wk \in [Job -> WorkerRec]
    BY DEF TypeOK, WorkerTypeOK
  <1>1. CASE UNCHANGED wk BY <1>1, StaySteady, SteadyWalk
  <1>2. CASE TimeLimit(j) \/ Kill(j)
    <2>1. PICK late : Killed(j, late) BY <1>2 DEF TimeLimit, Kill
    <2>2. Steady(j) BY <1>0, <2>1, StaySteady DEF Killed, WorkerRec
    <2>3. QED BY <2>2, SteadyWalk
  <1>3. CASE CallbackReturn
    <2>1. Steady(j) BY <1>0, <1>3, StaySteady DEF CallbackReturn, WorkerRec
    <2>2. QED BY <2>1, SteadyWalk
  <1>4. CASE Spin(j) \/ (\E k \in Job : CallbackStart(k)) \/ CallbackDeath
    BY <1>1, <1>4 DEF Spin, workerVars, CallbackStart, CallbackDeath
  <1>5. QED BY <1>2, <1>3, <1>4 DEF Outside, CallbackStep

\* A step of one worker leaves the records of the others alone.
LEMMA OtherWalk ==
    ASSUME TypeOK, NEW j \in Job, NEW k \in Job \ {j}, Walk(k),
           WorkerStep(j) \/ Outside(j)
    PROVE  Walk(k)'
  <1>1. wk'[k] = wk[k]
    BY SMTT(30) DEF TypeOK, WorkerTypeOK, WorkerStep, Trampoline, UserCode, Outside,
           ReceiveAck, ReceiveNack, SendBirth, SendSetup, SendMain, BeginTheory,
           SendStatistic, SendTeardown, SendEnd, Exit, AbortInit,
           SendTheorySetup, SendTheoryMain, SendTheoryAbort, SendTheoryTeardown,
           SendTheoryEnd, NextRound, Send, Dies, AssertPasses, ExpectFails,
           LogInfo, LogWarning, LogError, Interject, AssertFails, AbortTest,
           SkipTest, TestDie, ExitTest, Crash, Hang, TimeLimit, Kill, Killed,
           Spin, workerVars
  <1>2. QED BY <1>1, StaySteady, SteadyWalk

LEMMA RunnerWalk ==
    ASSUME TypeOK, NEW j \in Job, Walk(j), RunnerStep
    PROVE  Walk(j)'
  <1>1. CASE UNCHANGED wk BY <1>1, StaySteady, SteadyWalk
  <1>2. CASE SpawnNext
    <2>1. /\ wk'[j].pc = wk[j].pc /\ wk'[j].indices = wk[j].indices
          /\ wk'[j].round = wk[j].round
      BY ZenonT(60), <1>2 DEF SpawnNext, TypeOK, WorkerTypeOK, WorkerRec
    <2>2. QED BY <2>1, StaySteady, SteadyWalk
  <1>3. QED
    BY <1>1, <1>2
    DEF RunnerStep, Schedule, SkipSuite, EnterSuite, SkipDisabled, EndTest,
        LeaveSuite, NoNext, Receive, DropMessage, HandleBirth, RefusePhase,
        HandlePhase, HandleDeath, HandleAssert, HandleStatistic, HandleMessage,
        Handled, Reap, Terminate, CallbackAborts, Cleanup, workerVars

Walks == \A j \in Job : Walk(j)

LEMMA WalkStep == TypeOK /\ Walks /\ [Next]_vars => Walks'
  <1> SUFFICES ASSUME TypeOK, Walks, [Next]_vars, NEW j \in Job
               PROVE  Walk(j)'
    BY DEF Walks, Job
  <1>0. \A k \in Job : Walk(k) BY DEF Walks
  <1>1. CASE RunnerStep BY <1>0, <1>1, RunnerWalk
  <1>2. CASE Others
    <2>1. CASE CallbackStep BY <1>0, <2>1, OutsideWalk
    <2>2. ASSUME NEW k \in Job, WorkerStep(k) \/ Outside(k) PROVE Walk(j)'
      BY <1>0, <2>2, WorkerWalk, OutsideWalk, OtherWalk
    <2>3. QED BY <1>2, <2>1, <2>2 DEF Others
  <1>3. CASE UNCHANGED vars BY <1>0, <1>3, StaySteady, SteadyWalk DEF vars
  <1>4. QED BY <1>1, <1>2, <1>3 DEF Next, Ended

THEOREM WalksAlways == Spec => []Walks
  <1>1. Init => Walks
    BY DEF Init, WorkerInit, Walks, Walk, Unborn, TheoryCounter, Early
  <1>2. QED BY <1>1, TypeCorrect, WalkStep, PTL DEF Spec

(* No theory is ever called with a data point past the end of its arrays,  *)
(* for any number of parameters and data points, and however its rounds    *)
(* end: the pointers cr_theory_main forms from its indices are valid.      *)
THEOREM NoDataPointPastTheEnd == Spec => []DataPointsInRange
  <1>1. Walks => DataPointsInRange BY DEF Walks, Walk, DataPointsInRange
  <1>2. QED BY <1>1, WalksAlways, PTL

(* A theory is called with every combination of its data points, in the    *)
(* order of their numbers: the round is the number of the combination, and *)
(* the walk is over when the rounds are as many as there are combinations, *)
(* however each of them ended.                                             *)
THEOREM CalledWithAll == Spec => []EveryCombination
  <1>1. Walks => EveryCombination BY DEF Walks, Walk, EveryCombination
  <1>2. QED BY <1>1, WalksAlways, PTL
=============================================================================
