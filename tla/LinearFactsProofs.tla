-------------------------- MODULE LinearFactsProofs --------------------------
(***************************************************************************)
(* Proofs about the fact sets of the refinement layer, for every number of *)
(* names, every word, every inequality, equation and question.             *)
(*                                                                         *)
(* What is proved of a question is true of all integers that satisfy what  *)
(* was assumed: each rule of the entailment (a fact scaled, two facts      *)
(* added, a name cancelled, elimination of the connected facts with the    *)
(* goal negated) is sound over the integers, rewriting by the equations    *)
(* keeps the value of a row, and the cache holds what rewriting would give *)
(* now.  The equations are a solved form: each is about names that come    *)
(* later in a ranking, or have no equation.  From that it follows that     *)
(* eight passes rewrite completely, that no assumption is lost, and that   *)
(* the order in which a pass meets the equations cannot be seen.           *)
(***************************************************************************)
EXTENDS LinearFacts, FiniteSetTheorems, WellFoundedInduction, TLAPS

-----------------------------------------------------------------------------
(* Natural numbers, by sets for what is shown and functions for steps.        *)

\* A nonempty set of natural numbers has a least one.
LEMMA LeastNatural ==
  ASSUME NEW S, S \subseteq Nat, S # {}
  PROVE  \E n \in S : \A m \in S : n <= m
<1>1. PICK n \in S : \A m \in S : ~(<<m, n>> \in OpToRel(<, Nat))
  BY NatLessThanWellFounded, WFMin
<1>2. ASSUME NEW m \in S PROVE n <= m
  <2>1. n \in Nat /\ m \in Nat
    OBVIOUS
  <2>2. ~(m < n)
    BY <1>1, <2>1 DEF OpToRel
  <2> QED BY <2>1, <2>2
<1> QED BY <1>2

\* What holds of 0, and of the next number when it holds of one, holds up to n.
LEMMA UpTo ==
  ASSUME NEW n \in Nat, NEW A, 0 \in A, \A m \in 0 .. n - 1 : m \in A => m + 1 \in A
  PROVE  \A m \in 0 .. n : m \in A
<1> DEFINE S == {m \in 0 .. n : m \notin A}
<1> SUFFICES ASSUME S # {} PROVE FALSE
  OBVIOUS
<1>1. PICK m \in S : \A k \in S : m <= k
  <2>1. S \subseteq Nat
    OBVIOUS
  <2> HIDE DEF S
  <2> QED BY <2>1, LeastNatural
<1>2. m \in 0 .. n /\ m \notin A /\ m # 0
  BY <1>1
<1>3. m - 1 \in 0 .. n - 1 /\ m - 1 \notin S
  BY <1>1, <1>2
<1>4. m - 1 \in A /\ (m - 1) + 1 = m
  BY <1>2, <1>3
<1> QED BY <1>2, <1>3, <1>4

Steps(n, S) == [1 .. n -> [S -> S]]

\* A function by recursion: its first value, and a step from each to the next.
Recursive(n, S, a, F) ==
  \E h \in [0 .. n -> S] : h[0] = a /\ \A m \in 1 .. n : h[m] = F[m][h[m - 1]]

\* Every first value in a set and steps within it define such a function.
LEMMA Recursion ==
  ASSUME NEW n, NEW S, NEW a, NEW F, n \in Nat, a \in S, F \in Steps(n, S)
  PROVE  Recursive(n, S, a, F)
<1> USE DEF Steps, Recursive
<1> DEFINE Good(m, h) == h[0] = a /\ \A i \in 1 .. m : h[i] = F[i][h[i - 1]]
           A == {m \in 0 .. n : \E h \in [0 .. n -> S] : Good(m, h)}
<1>1. 0 \in A
  <2> DEFINE h == [i \in 0 .. n |-> a]
  <2>1. h \in [0 .. n -> S] /\ Good(0, h)
    OBVIOUS
  <2>2. 0 \in 0 .. n
    OBVIOUS
  <2> HIDE DEF h, Good
  <2> QED BY <2>1, <2>2
<1>2. ASSUME NEW m \in 0 .. n - 1, m \in A PROVE m + 1 \in A
  <2>1. PICK h \in [0 .. n -> S] : Good(m, h)
    BY <1>2
  <2> DEFINE g == [h EXCEPT ![m + 1] = F[m + 1][h[m]]]
  <2>2. m \in 0 .. n /\ m + 1 \in 1 .. n /\ m + 1 \in 0 .. n /\ h[m] \in S
    OBVIOUS
  <2>3. F[m + 1][h[m]] \in S
    BY <2>2
  <2>4. g \in [0 .. n -> S]
    BY <2>2, <2>3
  <2>5. g[m + 1] = F[m + 1][h[m]] /\ \A i \in 0 .. m : g[i] = h[i]
    BY <2>2
  <2> HIDE DEF g
  <2>6. g[0] = a
    BY <2>1, <2>5, <2>2
  <2>7. ASSUME NEW i \in 1 .. m + 1 PROVE g[i] = F[i][g[i - 1]]
    <3>1. CASE i = m + 1
      <4>1. i - 1 = m /\ g[m] = h[m]
        BY <3>1, <2>2, <2>5
      <4> QED BY <3>1, <4>1, <2>5
    <3>2. CASE i # m + 1
      <4>1. i \in 1 .. m /\ i \in 0 .. m /\ i - 1 \in 0 .. m
        BY <3>2
      <4> QED BY <4>1, <2>1, <2>5
    <3> QED BY <3>1, <3>2
  <2> QED BY <2>2, <2>4, <2>6, <2>7
<1>3. \A m \in 0 .. n : m \in A
  <2> HIDE DEF A
  <2> QED BY <1>1, <1>2, UpTo
<1>4. n \in 0 .. n
  OBVIOUS
<1> QED BY <1>3, <1>4

\* Division by m rounds down, of a negative integer too.
LEMMA DivMod ==
  ASSUME NEW m \in Nat, m > 0, NEW n \in Int
  PROVE  n \div m \in Int /\ n % m \in 0 .. m - 1 /\ n = m * (n \div m) + (n % m)
<1>1. n % m \in 0 .. m - 1
  BY SMT
<1>2. n \div m \in Int
  BY SMT
<1>3. n = m * (n \div m) + (n % m)
  BY SMT
<1> QED
  BY <1>1, <1>2, <1>3

\* A quotient and a remainder are the only ones.
LEMMA DivModUnique ==
  ASSUME NEW m \in Nat, m > 0, NEW q \in Int, NEW r \in 0 .. m - 1
  PROVE  (m * q + r) % m = r /\ (m * q + r) \div m = q
<1> DEFINE n == m * q + r
           d == n \div m
           e == n % m
<1>1. n \in Int
  BY SMT
<1>2. d \in Int /\ e \in 0 .. m - 1 /\ n = m * d + e
  BY <1>1, DivMod
<1> HIDE DEF d, e
<1>3. m * (q - d) = e - r
  BY <1>2, SMT
<1>4. q - d < 1
  <2> SUFFICES ASSUME q - d >= 1 PROVE FALSE
    BY <1>2, SMT
  <2>1. m * (q - d) >= m
    BY <1>2, SMT
  <2> QED
    BY <2>1, <1>2, <1>3, SMT
<1>5. q - d > -1
  <2> SUFFICES ASSUME d - q >= 1 PROVE FALSE
    BY <1>2, SMT
  <2>1. m * (d - q) >= m
    BY <1>2, SMT
  <2>2. m * (d - q) = r - e
    BY <1>2, <1>3, SMT
  <2> QED
    BY <2>1, <2>2, <1>2, SMT
<1>6. q = d
  BY <1>2, <1>4, <1>5, SMT
<1>7. r = e
  BY <1>2, <1>6, SMT
<1> QED
  BY <1>6, <1>7 DEF d, e



\* A nonempty set of integers with a bound below has a least one.
LEMMA LeastInteger ==
  ASSUME NEW S, S \subseteq Int, S # {}, NEW b \in Int, \A n \in S : b <= n
  PROVE  \E n \in S : \A m \in S : n <= m
<1> DEFINE T == {n - b : n \in S}
<1>1. T \subseteq Nat /\ T # {}
  <2>1. ASSUME NEW n \in S PROVE n - b \in Nat
    <3>1. n \in Int /\ b <= n
      OBVIOUS
    <3> QED BY <3>1
  <2> QED BY <2>1
<1>2. PICK d \in T : \A e \in T : d <= e
  <2> HIDE DEF T
  <2> QED BY <1>1, LeastNatural
<1>3. PICK n \in S : d = n - b
  BY <1>2
<1>4. ASSUME NEW m \in S PROVE n <= m
  <2>1. m - b \in T
    OBVIOUS
  <2>2. n - b <= m - b /\ n \in Int /\ m \in Int
    BY <1>2, <1>3, <2>1
  <2> QED BY <2>2
<1> QED BY <1>4

\* A nonempty set of integers with a bound above has a greatest one.
LEMMA GreatestInteger ==
  ASSUME NEW S, S \subseteq Int, S # {}, NEW b \in Int, \A n \in S : n <= b
  PROVE  \E n \in S : \A m \in S : m <= n
<1> DEFINE T == {-n : n \in S}
<1>1. T \subseteq Int /\ T # {} /\ -b \in Int /\ \A d \in T : -b <= d
  <2>1. ASSUME NEW n \in S PROVE -n \in Int /\ -b <= -n
    <3>1. n \in Int /\ n <= b
      OBVIOUS
    <3> QED BY <3>1
  <2>2. -b \in Int /\ T # {}
    <3>1. PICK n \in S : TRUE
      OBVIOUS
    <3>2. -n \in T
      OBVIOUS
    <3>3. -b \in Int
      OBVIOUS
    <3> QED BY <3>2, <3>3
  <2>3. ASSUME NEW d \in T PROVE d \in Int /\ -b <= d
    <3>1. PICK n \in S : d = -n
      OBVIOUS
    <3> QED BY <2>1, <3>1
  <2> QED BY <2>2, <2>3
<1>2. PICK d \in T : \A e \in T : d <= e
  <2> HIDE DEF T
  <2> QED BY <1>1, LeastInteger
<1>3. PICK n \in S : d = -n
  BY <1>2
<1>4. ASSUME NEW m \in S PROVE m <= n
  <2>1. -m \in T
    OBVIOUS
  <2>2. -n <= -m /\ n \in Int /\ m \in Int
    BY <1>2, <1>3, <2>1
  <2> QED BY <2>2
<1> QED BY <1>4

-----------------------------------------------------------------------------
(* Rows of integers, and their values.                                        *)

IntLinears == [co : [Names -> Int], k : Int]
Points == [Names -> Int]

\* The constants, and the rows of the program among those of integers.
LEMMA Basics ==
  /\ NumNames \in Nat /\ NumNames > 0 /\ Names = 1 .. NumNames
  /\ WordHalf \in Nat /\ WordHalf > 0 /\ Int64s \subseteq Int /\ Linears \subseteq IntLinears
<1>1. NumNames \in Nat /\ NumNames > 0 /\ WordHalf \in Nat /\ WordHalf > 0 /\ Names = 1 .. NumNames
  BY FarkasAssumption DEF Names
<1>2. Int64s \subseteq Int
  BY <1>1 DEF Int64s
<1>3. [Names -> Int64s] \subseteq [Names -> Int]
  BY <1>2
<1>4. Linears \subseteq IntLinears
  BY <1>2, <1>3 DEF Linears, IntLinears
<1> QED BY <1>1, <1>2, <1>4

\* A row of integers by its fields.
LEMMA RowFields ==
  ASSUME NEW r \in IntLinears
  PROVE  r.co \in [Names -> Int] /\ r.k \in Int /\ \A n \in Names : r.co[n] \in Int
BY DEF IntLinears

\* The partial sums of a row's value.
Partial(r, at, h) == h[0] = r.k /\ \A m \in 1 .. NumNames : h[m] = h[m - 1] + r.co[m] * at[m]

\* The value is the last of the partial sums.
LEMMA ValueFacts ==
  ASSUME NEW r \in IntLinears, NEW at \in Points
  PROVE  \E h \in [0 .. NumNames -> Int] : Partial(r, at, h) /\ ValueOf(r, at) = h[NumNames]
<1> DEFINE n == NumNames
           Law(h) == [m \in 0 .. n |-> IF m = 0 THEN r.k ELSE h[m - 1] + r.co[m] * at[m]]
           F == [m \in 1 .. n |-> [s \in Int |-> s + r.co[m] * at[m]]]
           sum == CHOOSE h : h = Law(h)
<1>1. n \in Nat /\ n \in 0 .. n /\ r.k \in Int
  BY Basics, RowFields
<1>2. ValueOf(r, at) = sum[n]
  BY DEF ValueOf
<1>3. \A m \in 1 .. n : r.co[m] * at[m] \in Int
  <2> SUFFICES ASSUME NEW m \in 1 .. n PROVE r.co[m] * at[m] \in Int
    OBVIOUS
  <2>1. r.co[m] \in Int /\ at[m] \in Int
    BY Basics, RowFields DEF Points
  <2> QED BY <2>1
<1>4. F \in Steps(n, Int)
  BY <1>3 DEF Steps
<1>5. \A m \in 1 .. n : \A s \in Int : F[m][s] = s + r.co[m] * at[m]
  OBVIOUS
<1> HIDE DEF F
<1>7. PICK h \in [0 .. n -> Int] : h[0] = r.k /\ \A m \in 1 .. n : h[m] = F[m][h[m - 1]]
  <2> DEFINE S == Int
             z == r.k
             nn == n
  <2>1. F \in Steps(nn, S) /\ z \in S /\ nn \in Nat
    BY <1>1, <1>4
  <2> HIDE DEF S, z, nn
  <2>2. Recursive(nn, S, z, F)
    BY <2>1, Recursion
  <2> QED BY <2>2 DEF Recursive, S, z, nn
<1>8. \A m \in 1 .. n : m - 1 \in 0 .. n /\ h[m - 1] \in Int
  BY <1>1
<1>9. h[0] = r.k /\ \A m \in 1 .. n : h[m] = h[m - 1] + r.co[m] * at[m]
  BY <1>5, <1>7, <1>8
<1>10. h = Law(h)
  <2>1. \A m \in 0 .. n : h[m] = IF m = 0 THEN r.k ELSE h[m - 1] + r.co[m] * at[m]
    BY <1>1, <1>9
  <2> QED BY <2>1
<1>11. sum = Law(sum)
  <2> HIDE DEF Law
  <2> QED BY <1>10
<1> HIDE DEF sum
<1>12. \A m \in 0 .. n : sum[m] = IF m = 0 THEN r.k ELSE sum[m - 1] + r.co[m] * at[m]
  BY <1>11
<1> DEFINE A == {m \in 0 .. n : sum[m] = h[m]}
<1>13. 0 \in A
  BY <1>1, <1>9, <1>12
<1>14. ASSUME NEW m \in 0 .. n - 1, m \in A PROVE m + 1 \in A
  <2>1. m + 1 \in 1 .. n /\ m + 1 \in 0 .. n /\ (m + 1) - 1 = m /\ m + 1 # 0
    BY <1>1
  <2>2. sum[m + 1] = sum[m] + r.co[m + 1] * at[m + 1]
    BY <1>12, <2>1
  <2>3. h[m + 1] = h[m] + r.co[m + 1] * at[m + 1]
    BY <1>9, <2>1
  <2> QED BY <1>14, <2>1, <2>2, <2>3
<1>15. n \in A
  <2> DEFINE nn == n
  <2>1. nn \in 0 .. nn /\ nn \in Nat /\ \A m \in 0 .. nn - 1 : m \in A => m + 1 \in A
    BY <1>1, <1>14
  <2>2. 0 \in A
    BY <1>13
  <2> HIDE DEF A, nn
  <2>3. \A m \in 0 .. nn : m \in A
    BY <2>1, <2>2, UpTo
  <2>4. nn \in A
    BY <2>1, <2>3
  <2> QED BY <2>4 DEF nn
<1> QED BY <1>2, <1>9, <1>15 DEF Partial

\* It is an integer.
LEMMA ValueType ==
  ASSUME NEW r \in IntLinears, NEW at \in Points
  PROVE  ValueOf(r, at) \in Int
BY ValueFacts, Basics

\* A row that is u times one and v times another.
Combination(c, u, d, v, e) == (\A n \in Names : c.co[n] = u * d.co[n] + v * e.co[n]) /\ c.k = u * d.k + v * e.k

\* The value is linear in the row.
LEMMA ValueLinear ==
  ASSUME NEW c \in IntLinears, NEW d \in IntLinears, NEW e \in IntLinears, NEW at \in Points,
         NEW u \in Int, NEW v \in Int, Combination(c, u, d, v, e)
  PROVE  ValueOf(c, at) = u * ValueOf(d, at) + v * ValueOf(e, at)
<1> USE DEF Combination
<1> DEFINE n == NumNames
<1>1. PICK h \in [0 .. n -> Int] : Partial(c, at, h) /\ ValueOf(c, at) = h[n]
  BY ValueFacts
<1>2. PICK f \in [0 .. n -> Int] : Partial(d, at, f) /\ ValueOf(d, at) = f[n]
  BY ValueFacts
<1>3. PICK g \in [0 .. n -> Int] : Partial(e, at, g) /\ ValueOf(e, at) = g[n]
  BY ValueFacts
<1>0. /\ h[0] = c.k /\ \A m \in 1 .. n : h[m] = h[m - 1] + c.co[m] * at[m]
      /\ f[0] = d.k /\ \A m \in 1 .. n : f[m] = f[m - 1] + d.co[m] * at[m]
      /\ g[0] = e.k /\ \A m \in 1 .. n : g[m] = g[m - 1] + e.co[m] * at[m]
  BY <1>1, <1>2, <1>3 DEF Partial
<1>6. n \in Nat /\ Names = 1 .. n /\ n \in 0 .. n
  BY Basics
<1>7. \A m \in Names : c.co[m] \in Int /\ d.co[m] \in Int /\ e.co[m] \in Int /\ at[m] \in Int
  BY RowFields DEF Points
<1> HIDE DEF n
<1> DEFINE A == {m \in 0 .. n : h[m] = u * f[m] + v * g[m]}
<1>4. 0 \in A
  BY <1>0, <1>6
<1>5. ASSUME NEW m \in 0 .. n - 1, m \in A PROVE m + 1 \in A
  <2>1. m + 1 \in 1 .. n /\ m + 1 \in 0 .. n /\ (m + 1) - 1 = m /\ m \in 0 .. n
    BY <1>6
  <2> DEFINE cx == c.co[m + 1]
             dx == d.co[m + 1]
             ex == e.co[m + 1]
             ax == at[m + 1]
             fm == f[m]
             gm == g[m]
  <2>2. cx \in Int /\ dx \in Int /\ ex \in Int /\ ax \in Int /\ fm \in Int /\ gm \in Int
    BY <1>6, <1>7, <2>1
  <2>3. h[m] = u * fm + v * gm /\ cx = u * dx + v * ex
    BY <1>5, <1>6, <2>1
  <2>4. h[m + 1] = h[m] + cx * ax /\ f[m + 1] = fm + dx * ax /\ g[m + 1] = gm + ex * ax
    BY <1>0, <2>1
  <2> HIDE DEF cx, dx, ex, ax, fm, gm
  <2>5. (u * dx + v * ex) * ax = u * (dx * ax) + v * (ex * ax)
    BY <2>2
  <2>6. dx * ax \in Int /\ ex * ax \in Int
    BY <2>2
  <2>7. u * (fm + dx * ax) = u * fm + u * (dx * ax)
    BY <2>2, <2>6
  <2>8. v * (gm + ex * ax) = v * gm + v * (ex * ax)
    BY <2>2, <2>6
  <2>9. u * fm \in Int /\ v * gm \in Int /\ u * (dx * ax) \in Int /\ v * (ex * ax) \in Int
    BY <2>2, <2>6
  <2>10. h[m + 1] = (u * fm + v * gm) + (u * (dx * ax) + v * (ex * ax))
    BY <2>3, <2>4, <2>5
  <2>11. u * f[m + 1] + v * g[m + 1] = (u * fm + u * (dx * ax)) + (v * gm + v * (ex * ax))
    BY <2>4, <2>7, <2>8
  <2>12. h[m + 1] = u * f[m + 1] + v * g[m + 1]
    BY <2>9, <2>10, <2>11
  <2> QED BY <2>1, <2>12
<1>8. n \in A
  <2> HIDE DEF A
  <2> QED BY <1>4, <1>5, <1>6, UpTo
<1>9. h[n] = u * f[n] + v * g[n]
  BY <1>8
<1> QED BY <1>1, <1>2, <1>3, <1>9 DEF n

\* The value of one row from another's, name by name.
LEMMA ValueAgree ==
  ASSUME NEW c \in IntLinears, NEW d \in IntLinears, NEW at \in Points, NEW bt \in Points, c.k = d.k,
         \A n \in Names : c.co[n] * at[n] = d.co[n] * bt[n]
  PROVE  ValueOf(c, at) = ValueOf(d, bt)
<1> DEFINE n == NumNames
<1>1. PICK h \in [0 .. n -> Int] : Partial(c, at, h) /\ ValueOf(c, at) = h[n]
  BY ValueFacts
<1>2. PICK f \in [0 .. n -> Int] : Partial(d, bt, f) /\ ValueOf(d, bt) = f[n]
  BY ValueFacts
<1>0. /\ h[0] = c.k /\ \A m \in 1 .. n : h[m] = h[m - 1] + c.co[m] * at[m]
      /\ f[0] = d.k /\ \A m \in 1 .. n : f[m] = f[m - 1] + d.co[m] * bt[m]
  BY <1>1, <1>2 DEF Partial
<1>6. n \in Nat /\ Names = 1 .. n /\ n \in 0 .. n
  BY Basics
<1> HIDE DEF n
<1> DEFINE A == {m \in 0 .. n : h[m] = f[m]}
<1>4. 0 \in A
  BY <1>0, <1>6
<1>5. ASSUME NEW m \in 0 .. n - 1, m \in A PROVE m + 1 \in A
  <2>1. m + 1 \in 1 .. n /\ m + 1 \in 0 .. n /\ (m + 1) - 1 = m /\ m \in 0 .. n
    BY <1>6
  <2>2. h[m + 1] = h[m] + c.co[m + 1] * at[m + 1] /\ f[m + 1] = f[m] + d.co[m + 1] * bt[m + 1]
    BY <1>0, <2>1
  <2>3. c.co[m + 1] * at[m + 1] = d.co[m + 1] * bt[m + 1] /\ h[m] = f[m]
    BY <1>5, <1>6, <2>1
  <2>4. h[m + 1] = f[m + 1]
    BY <2>2, <2>3
  <2> QED BY <2>1, <2>4
<1>8. n \in A
  <2> HIDE DEF A
  <2> QED BY <1>4, <1>5, <1>6, UpTo
<1>9. h[n] = f[n]
  BY <1>8
<1> QED BY <1>1, <1>2, <1>9 DEF n

\* Only the values of its own names matter to a row.
LEMMA ValueOwn ==
  ASSUME NEW r \in IntLinears, NEW at \in Points, NEW bt \in Points, \A n \in NamesOf(r) : at[n] = bt[n]
  PROVE  ValueOf(r, at) = ValueOf(r, bt)
<1>1. \A n \in Names : r.co[n] * at[n] = r.co[n] * bt[n]
  <2> SUFFICES ASSUME NEW n \in Names PROVE r.co[n] * at[n] = r.co[n] * bt[n]
    OBVIOUS
  <2>1. r.co[n] \in Int /\ at[n] \in Int /\ bt[n] \in Int
    BY RowFields DEF Points
  <2>2. CASE r.co[n] = 0
    BY <2>1, <2>2
  <2>3. CASE r.co[n] # 0
    <3>1. n \in NamesOf(r)
      BY <2>3 DEF NamesOf
    <3> QED BY <3>1
  <2> QED BY <2>2, <2>3
<1> QED BY <1>1, ValueAgree

\* A constant row of integers.
LEMMA ConstantRow ==
  ASSUME NEW k \in Int
  PROVE  /\ Constant(k) \in IntLinears /\ Constant(k).k = k /\ \A n \in Names : Constant(k).co[n] = 0
         /\ NamesOf(Constant(k)) = {}
<1>1. Constant(k) = [co |-> [n \in Names |-> 0], k |-> k]
  BY DEF Constant
<1>2. Constant(k) \in IntLinears
  BY <1>1 DEF IntLinears
<1>3. Constant(k).k = k /\ \A n \in Names : Constant(k).co[n] = 0
  BY <1>1
<1> QED BY <1>2, <1>3 DEF NamesOf

\* A row without names has its constant as its value.
LEMMA ValueNameless ==
  ASSUME NEW r \in IntLinears, NEW at \in Points, NamesOf(r) = {}
  PROVE  ValueOf(r, at) = r.k
<1>1. PICK h \in [0 .. NumNames -> Int] : Partial(r, at, h) /\ ValueOf(r, at) = h[NumNames]
  BY ValueFacts
<1> DEFINE n == NumNames
<1>2. n \in Nat /\ Names = 1 .. n /\ n \in 0 .. n
  BY Basics
<1>3. h[0] = r.k /\ \A m \in 1 .. n : h[m] = h[m - 1] + r.co[m] * at[m]
  BY <1>1 DEF Partial
<1>4. \A m \in 1 .. n : r.co[m] * at[m] = 0
  <2> SUFFICES ASSUME NEW m \in 1 .. n PROVE r.co[m] * at[m] = 0
    OBVIOUS
  <2>1. m \in Names /\ at[m] \in Int
    BY <1>2 DEF Points
  <2>2. r.co[m] = 0
    BY <2>1 DEF NamesOf
  <2> QED BY <2>1, <2>2
<1>5. h \in [0 .. n -> Int]
  OBVIOUS
<1> HIDE DEF n
<1> DEFINE A == {m \in 0 .. n : h[m] = r.k}
<1>6. 0 \in A
  BY <1>2, <1>3
<1>7. ASSUME NEW m \in 0 .. n - 1, m \in A PROVE m + 1 \in A
  <2>1. m + 1 \in 1 .. n /\ m + 1 \in 0 .. n /\ (m + 1) - 1 = m /\ m \in 0 .. n
    BY <1>2
  <2>2. h[m + 1] = h[m] + r.co[m + 1] * at[m + 1] /\ h[m] \in Int
    BY <1>3, <1>5, <2>1
  <2>3. h[m + 1] = h[m] + 0
    BY <1>4, <2>1, <2>2
  <2> QED BY <1>7, <2>1, <2>2, <2>3
<1>8. n \in A
  <2> HIDE DEF A
  <2> QED BY <1>2, <1>6, <1>7, UpTo
<1>9. h[n] = r.k
  BY <1>8
<1> QED BY <1>1, <1>9 DEF n

\* A name's row.
LEMMA VariableRow ==
  ASSUME NEW x \in Names
  PROVE  /\ Variable(x) \in IntLinears /\ Variable(x).k = 0
         /\ \A n \in Names : Variable(x).co[n] = IF n = x THEN 1 ELSE 0
<1>1. Variable(x) = [co |-> [n \in Names |-> IF n = x THEN 1 ELSE 0], k |-> 0]
  BY DEF Variable
<1>2. Variable(x) \in IntLinears
  BY <1>1 DEF IntLinears
<1>3. Variable(x).k = 0 /\ \A n \in Names : Variable(x).co[n] = IF n = x THEN 1 ELSE 0
  BY <1>1
<1> QED BY <1>2, <1>3

\* Its value is the name's.
LEMMA ValueVariable ==
  ASSUME NEW x \in Names, NEW at \in Points
  PROVE  ValueOf(Variable(x), at) = at[x]
<1> DEFINE n == NumNames
           r == Variable(x)
<1>r. r \in IntLinears /\ r.k = 0 /\ \A m \in Names : r.co[m] = IF m = x THEN 1 ELSE 0
  BY VariableRow
<1> HIDE DEF r
<1>1. PICK h \in [0 .. n -> Int] : Partial(r, at, h) /\ ValueOf(r, at) = h[n]
  BY ValueFacts, <1>r
<1>2. n \in Nat /\ Names = 1 .. n /\ n \in 0 .. n
  BY Basics
<1>3. h[0] = 0 /\ \A m \in 1 .. n : h[m] = h[m - 1] + r.co[m] * at[m]
  BY <1>1, <1>r DEF Partial
<1>5. h \in [0 .. n -> Int] /\ x \in 1 .. n /\ at[x] \in Int /\ \A m \in 1 .. n : at[m] \in Int
  BY <1>2 DEF Points
<1>9. \A m \in 1 .. n : r.co[m] = IF m = x THEN 1 ELSE 0
  BY <1>2, <1>r
<1> HIDE DEF n
<1> DEFINE A == {m \in 0 .. n : h[m] = IF m < x THEN 0 ELSE at[x]}
<1>6. 0 \in A
  BY <1>2, <1>3, <1>5
<1>7. ASSUME NEW m \in 0 .. n - 1, m \in A PROVE m + 1 \in A
  <2>1. m + 1 \in 1 .. n /\ m + 1 \in 0 .. n /\ (m + 1) - 1 = m /\ m \in 0 .. n /\ m \in Int
    BY <1>2
  <2>2. h[m + 1] = h[m] + r.co[m + 1] * at[m + 1] /\ h[m] \in Int /\ at[m + 1] \in Int
    BY <1>3, <1>5, <2>1
  <2>3. h[m] = IF m < x THEN 0 ELSE at[x]
    BY <1>7
  <2>4. CASE m + 1 = x
    <3>1. r.co[m + 1] = 1
      BY <1>9, <2>1, <2>4
    <3>2. m < x /\ ~(m + 1 < x)
      BY <2>1, <2>4, <1>5
    <3> QED BY <2>1, <2>2, <2>3, <2>4, <3>1, <3>2
  <2>5. CASE m + 1 # x
    <3>1. r.co[m + 1] = 0
      BY <1>9, <2>1, <2>5
    <3>2. m < x <=> m + 1 < x
      BY <2>1, <2>5, <1>5
    <3>3. h[m + 1] = h[m]
      BY <2>2, <3>1
    <3> QED BY <2>1, <2>3, <3>2, <3>3
  <2> QED BY <2>4, <2>5
<1>8. n \in A
  <2> HIDE DEF A
  <2> QED BY <1>2, <1>6, <1>7, UpTo
<1>10. h[n] = at[x]
  BY <1>2, <1>5, <1>8
<1> QED BY <1>1, <1>10 DEF n, r

\* A name taken out of a row takes its part of the value along.
LEMMA ValueWithout ==
  ASSUME NEW r \in IntLinears, NEW x \in Names, NEW at \in Points
  PROVE  /\ [r EXCEPT !.co[x] = 0] \in IntLinears
         /\ ValueOf([r EXCEPT !.co[x] = 0], at) = ValueOf(r, at) - r.co[x] * at[x]
<1> DEFINE c == [r EXCEPT !.co[x] = 0]
           u == Variable(x)
           d == -r.co[x]
<1>1. r = [co |-> r.co, k |-> r.k] /\ r.co \in [Names -> Int] /\ r.k \in Int
  BY DEF IntLinears
<1>2. c = [co |-> [r.co EXCEPT ![x] = 0], k |-> r.k]
  BY <1>1
<1>3. c \in IntLinears /\ c.k = r.k /\ \A n \in Names : c.co[n] = IF n = x THEN 0 ELSE r.co[n]
  BY <1>1, <1>2 DEF IntLinears
<1>4. u \in IntLinears /\ u.k = 0 /\ \A n \in Names : u.co[n] = IF n = x THEN 1 ELSE 0
  BY VariableRow
<1>5. d \in Int /\ at[x] \in Int /\ r.co[x] \in Int
  BY <1>1 DEF Points
<1>6. \A n \in Names : c.co[n] = 1 * r.co[n] + d * u.co[n]
  BY <1>1, <1>3, <1>4, <1>5
<1>7. c.k = 1 * r.k + d * u.k
  BY <1>1, <1>3, <1>4, <1>5
<1>8. ValueOf(u, at) = at[x]
  BY ValueVariable
<1>13. d * at[x] = -(r.co[x] * at[x])
  <2> DEFINE p == r.co[x]
             q == at[x]
  <2>1. p \in Int /\ q \in Int
    BY <1>5
  <2> HIDE DEF p, q
  <2>2. (-p) * q = -(p * q)
    BY <2>1
  <2> QED BY <2>2 DEF p, q
<1>14. r.co[x] * at[x] \in Int
  BY <1>5
<1>15. c \in IntLinears /\ u \in IntLinears /\ d \in Int /\ 1 \in Int
  BY <1>3, <1>4, <1>5
<1>16. at \in Points /\ r \in IntLinears
  OBVIOUS
<1>17. Combination(c, 1, r, d, u)
  BY <1>6, <1>7 DEF Combination
<1> HIDE DEF c, u, d
<1>9. ValueOf(c, at) = 1 * ValueOf(r, at) + d * ValueOf(u, at)
  BY ONLY <1>15, <1>16, <1>17, ValueLinear
<1>10. ValueOf(r, at) \in Int
  BY ValueType
<1>11. ValueOf(c, at) = ValueOf(r, at) - r.co[x] * at[x]
  BY <1>8, <1>9, <1>10, <1>13, <1>14
<1> QED BY <1>3, <1>11 DEF c

-----------------------------------------------------------------------------
(* The arithmetic of the word.                                                *)

Modulus == 2 * WordHalf

\* The same but for a multiple of the word's range.
Same(x, y) == \E t \in Int : x = y + Modulus * t

\* Two integers of the word that differ by a multiple of its range are one.
LEMMA SameInWord ==
  ASSUME NEW x \in Int64s, NEW y \in Int64s, Same(x, y)
  PROVE  x = y
<1>1. PICK t \in Int : x = y + Modulus * t
  BY DEF Same
<1> DEFINE M == Modulus
<1>2. M \in Nat /\ M > 0 /\ M = 2 * WordHalf /\ WordHalf \in Nat
  BY Basics DEF Modulus
<1>3. x \in Int /\ y \in Int /\ -WordHalf <= x /\ x <= WordHalf - 1 /\ -WordHalf <= y /\ y <= WordHalf - 1
  BY Basics DEF Int64s
<1>4. x = y + M * t
  BY <1>1
<1> HIDE DEF M
<1>5. CASE t >= 1
  <2>1. M * t >= M
    BY <1>2, <1>5
  <2> QED BY <1>2, <1>3, <1>4, <2>1
<1>6. CASE t <= -1
  <2>1. M * t <= -M
    BY <1>2, <1>6
  <2> QED BY <1>2, <1>3, <1>4, <2>1
<1>7. CASE t = 0
  BY <1>2, <1>3, <1>4, <1>7
<1> QED BY <1>5, <1>6, <1>7

\* An integer as the word holds it.
LEMMA Int64Facts ==
  ASSUME NEW i \in Int
  PROVE  /\ Int64(i) \in Int64s /\ Same(Int64(i), i)
         /\ i \in Int64s => Int64(i) = i
<1> DEFINE M == Modulus
           n == i + WordHalf
           q == n \div M
           m == n % M
<1>1. M \in Nat /\ M > 0 /\ M = 2 * WordHalf /\ WordHalf \in Nat /\ n \in Int
  BY Basics DEF Modulus
<1>2. Int64(i) = m - WordHalf
  BY DEF Int64, Modulus
<1> HIDE DEF M
<1>3. q \in Int /\ m \in 0 .. M - 1 /\ n = M * q + m
  <2> HIDE DEF n
  <2> QED BY <1>1, DivMod
<1> HIDE DEF q, m
<1>4. Int64(i) \in Int64s
  BY <1>1, <1>2, <1>3 DEF Int64s
<1>5. Same(Int64(i), i)
  <2>1. M * (-q) = -(M * q) /\ M * q \in Int /\ -q \in Int
    BY <1>1, <1>3
  <2>2. Int64(i) = i + M * (-q)
    BY <1>1, <1>2, <1>3, <2>1
  <2> QED BY <2>1, <2>2 DEF Same, M
<1>6. i \in Int64s => Int64(i) = i
  BY <1>4, <1>5, SameInWord
<1> QED BY <1>4, <1>5, <1>6

\* What the sum of two rows would be without a word.
Sum(a, ma, b, mb) == [co |-> [n \in Names |-> ma * a.co[n] + mb * b.co[n]], k |-> ma * a.k + mb * b.k]

\* Its value.
LEMMA SumValue ==
  ASSUME NEW a \in IntLinears, NEW b \in IntLinears, NEW ma \in Int, NEW mb \in Int
  PROVE  /\ Sum(a, ma, b, mb) \in IntLinears
         /\ \A n \in Names : Sum(a, ma, b, mb).co[n] = ma * a.co[n] + mb * b.co[n]
         /\ Sum(a, ma, b, mb).k = ma * a.k + mb * b.k
         /\ \A at \in Points : ValueOf(Sum(a, ma, b, mb), at) = ma * ValueOf(a, at) + mb * ValueOf(b, at)
<1> DEFINE s == Sum(a, ma, b, mb)
<1>1. s = [co |-> [n \in Names |-> ma * a.co[n] + mb * b.co[n]], k |-> ma * a.k + mb * b.k]
  BY DEF Sum
<1>2. \A n \in Names : ma * a.co[n] + mb * b.co[n] \in Int
  <2> SUFFICES ASSUME NEW n \in Names PROVE ma * a.co[n] + mb * b.co[n] \in Int
    OBVIOUS
  <2>1. a.co[n] \in Int /\ b.co[n] \in Int
    BY RowFields
  <2> QED BY <2>1
<1>3. ma * a.k + mb * b.k \in Int
  BY RowFields
<1>4. s \in IntLinears
  <2> DEFINE f == [n \in Names |-> ma * a.co[n] + mb * b.co[n]]
             k == ma * a.k + mb * b.k
  <2>1. f \in [Names -> Int] /\ k \in Int
    BY <1>2, <1>3
  <2>2. s = [co |-> f, k |-> k]
    BY <1>1
  <2> HIDE DEF f, k, s
  <2> QED BY <2>1, <2>2 DEF IntLinears
<1>5. (\A n \in Names : s.co[n] = ma * a.co[n] + mb * b.co[n]) /\ s.k = ma * a.k + mb * b.k
  BY <1>1
<1> HIDE DEF s
<1>6. ASSUME NEW at \in Points PROVE ValueOf(s, at) = ma * ValueOf(a, at) + mb * ValueOf(b, at)
  <2>1. Combination(s, ma, a, mb, b)
    BY <1>5 DEF Combination
  <2> QED BY <1>4, <2>1, ValueLinear
<1> QED BY <1>4, <1>5, <1>6 DEF s

\* The sum of two rows in the word: a row of the program, with the same value
\* but for a multiple of the word's range, and that of the sum where it fits.
LEMMA WeightedFacts ==
  ASSUME NEW a \in IntLinears, NEW b \in IntLinears, NEW ma \in Int, NEW mb \in Int
  PROVE  /\ Weighted(a, ma, b, mb) \in Linears
         /\ \A n \in Names : Weighted(a, ma, b, mb).co[n] = Int64(ma * a.co[n] + mb * b.co[n])
         /\ Weighted(a, ma, b, mb).k = Int64(ma * a.k + mb * b.k)
         /\ \A at \in Points : Same(ValueOf(Weighted(a, ma, b, mb), at), ma * ValueOf(a, at) + mb * ValueOf(b, at))
         /\ Sum(a, ma, b, mb) \in Linears => Weighted(a, ma, b, mb) = Sum(a, ma, b, mb)
<1> DEFINE s == Sum(a, ma, b, mb)
           w == Weighted(a, ma, b, mb)
<1>1. /\ s \in IntLinears
      /\ \A n \in Names : s.co[n] = ma * a.co[n] + mb * b.co[n]
      /\ s.k = ma * a.k + mb * b.k
      /\ \A at \in Points : ValueOf(s, at) = ma * ValueOf(a, at) + mb * ValueOf(b, at)
  BY SumValue
<1>2. w = [co |-> [n \in Names |-> Int64(ma * a.co[n] + mb * b.co[n])], k |-> Int64(ma * a.k + mb * b.k)]
  BY DEF Weighted
<1>2a. (\A n \in Names : w.co[n] = Int64(ma * a.co[n] + mb * b.co[n])) /\ w.k = Int64(ma * a.k + mb * b.k)
  BY <1>2
<1>3. w = [co |-> [n \in Names |-> Int64(s.co[n])], k |-> Int64(s.k)]
  BY <1>1, <1>2
<1> HIDE DEF s, w
<1>4. s.co \in [Names -> Int] /\ s.k \in Int /\ \A n \in Names : s.co[n] \in Int
  BY <1>1, RowFields
<1>5. \A n \in Names : Int64(s.co[n]) \in Int64s /\ Same(Int64(s.co[n]), s.co[n])
  BY <1>4, Int64Facts
<1>6. Int64(s.k) \in Int64s /\ Same(Int64(s.k), s.k)
  BY <1>4, Int64Facts
<1>7. w \in Linears /\ w \in IntLinears
  <2> DEFINE f == [n \in Names |-> Int64(s.co[n])]
             k == Int64(s.k)
  <2>1. f \in [Names -> Int64s] /\ k \in Int64s
    BY <1>5, <1>6
  <2>2. w = [co |-> f, k |-> k]
    BY <1>3
  <2> HIDE DEF f, k
  <2>3. w \in Linears
    BY <2>1, <2>2 DEF Linears
  <2> QED BY <2>3, Basics
<1>8. (\A n \in Names : w.co[n] = Int64(s.co[n])) /\ w.k = Int64(s.k)
  BY <1>3
<1>9. ASSUME s \in Linears PROVE w = s
  <2>1. s.co \in [Names -> Int64s] /\ s.k \in Int64s /\ s = [co |-> s.co, k |-> s.k]
    BY <1>9 DEF Linears
  <2>2. \A n \in Names : Int64(s.co[n]) = s.co[n]
    BY <1>4, <2>1, Int64Facts
  <2>3. Int64(s.k) = s.k
    BY <1>4, <2>1, Int64Facts
  <2>4. [n \in Names |-> Int64(s.co[n])] = s.co
    BY <2>1, <2>2
  <2> QED BY <1>3, <2>1, <2>3, <2>4
<1>10. ASSUME NEW at \in Points PROVE Same(ValueOf(w, at), ValueOf(s, at))
  <2> DEFINE T(n) == CHOOSE t \in Int : w.co[n] = s.co[n] + Modulus * t
             tk == CHOOSE t \in Int : w.k = s.k + Modulus * t
             d == [co |-> [n \in Names |-> T(n)], k |-> tk]
  <2>1. \A n \in Names : T(n) \in Int /\ w.co[n] = s.co[n] + Modulus * T(n)
    BY <1>5, <1>8 DEF Same
  <2>2. tk \in Int /\ w.k = s.k + Modulus * tk
    BY <1>6, <1>8 DEF Same
  <2> HIDE DEF T, tk
  <2>3. d \in IntLinears /\ d.k = tk /\ \A n \in Names : d.co[n] = T(n)
    <3> DEFINE f == [n \in Names |-> T(n)]
    <3>1. f \in [Names -> Int] /\ \A n \in Names : f[n] = T(n)
      BY <2>1
    <3> HIDE DEF f
    <3>2. d = [co |-> f, k |-> tk]
      BY DEF f
    <3> HIDE DEF d
    <3> QED BY <2>2, <3>1, <3>2 DEF IntLinears
  <2> HIDE DEF d
  <2>4. Modulus \in Int /\ 1 \in Int
    BY Basics DEF Modulus
  <2>5. \A n \in Names : w.co[n] = 1 * s.co[n] + Modulus * d.co[n]
    BY <1>4, <2>1, <2>3
  <2>6. w.k = 1 * s.k + Modulus * d.k
    BY <1>4, <2>2, <2>3
  <2>7. Combination(w, 1, s, Modulus, d)
    BY <2>5, <2>6 DEF Combination
  <2>8. s \in IntLinears
    BY <1>1
  <2>9. ValueOf(w, at) = 1 * ValueOf(s, at) + Modulus * ValueOf(d, at)
    BY <1>7, <2>8, <2>7, <2>3, <2>4, ValueLinear
  <2>10. ValueOf(s, at) \in Int /\ ValueOf(d, at) \in Int
    BY <2>8, <2>3, ValueType
  <2>11. ValueOf(w, at) = ValueOf(s, at) + Modulus * ValueOf(d, at)
    BY <2>9, <2>10
  <2> QED BY <2>10, <2>11 DEF Same
<1>11. \A at \in Points : Same(ValueOf(w, at), ma * ValueOf(a, at) + mb * ValueOf(b, at))
  BY <1>1, <1>10
<1> QED BY <1>2a, <1>7, <1>9, <1>11 DEF s, w

\* Where the sum fits the word it has the value of the sum.
LEMMA WeightedExact ==
  ASSUME NEW a \in IntLinears, NEW b \in IntLinears, NEW ma \in Int, NEW mb \in Int, NEW at \in Points,
         Sum(a, ma, b, mb) \in Linears
  PROVE  ValueOf(Weighted(a, ma, b, mb), at) = ma * ValueOf(a, at) + mb * ValueOf(b, at)
BY SumValue, WeightedFacts

-----------------------------------------------------------------------------
(* The rules that match a fact, or a sum of two, with the goal.               *)

Satisfied(fs, at) == \A a \in fs : ValueOf(a, at) <= 0

\* What the code computes without a check fits the word: the constant of a
\* multiple that matches the goal, a sum of two facts, a sum that cancels a
\* name, and the goal's negation.
MatchFits(row, g, m) == (\A n \in Names : g.co[n] = m * row.co[n]) => FitsWord(row.k * m)
CancelFits(a, b, v, g) ==
  LET s == Sum(a, Size(b.co[v]), b, Size(a.co[v]))
  IN  s \in Linears /\ \A m \in 1..MaxScale : MatchFits(s, g, m)
ProofFits(fs, g) ==
  /\ \A a \in fs, m \in 1..MaxScale : MatchFits(a, g, m)
  /\ \A a, b \in fs : Sum(a, 1, b, 1) \in Linears
  /\ \A a, b \in fs, v \in Names : a.co[v] * b.co[v] < 0 => CancelFits(a, b, v, g)
  /\ Sum(Constant(1), 1, g, -1) \in Linears

\* A multiple of a satisfied row whose constant is as tight proves the goal.
LEMMA MatchSound ==
  ASSUME NEW row \in IntLinears, NEW g \in IntLinears, NEW m \in Nat, m > 0, NEW at \in Points,
         Matches(row, g, m), MatchFits(row, g, m), ValueOf(row, at) <= 0
  PROVE  ValueOf(g, at) <= 0
<1> DEFINE one == Constant(1)
           rest == g.k - m * row.k
           V == ValueOf(row, at)
<1>1. row.k \in Int /\ g.k \in Int /\ m \in Int /\ V \in Int
  BY RowFields, ValueType
<1>2. row.k * m \in Int /\ m * row.k \in Int /\ row.k * m = m * row.k
  BY <1>1
<1>3. (\A n \in Names : g.co[n] = m * row.co[n]) /\ Int64(row.k * m) >= g.k
  BY DEF Matches
<1>4. row.k * m >= g.k
  <2>1. row.k * m \in Int64s
    BY <1>3 DEF MatchFits, FitsWord
  <2>2. Int64(row.k * m) = row.k * m
    BY <1>2, <2>1, Int64Facts
  <2> QED BY <1>3, <2>2
<1>5. rest \in Int /\ rest <= 0 /\ g.k = m * row.k + rest
  BY <1>1, <1>2, <1>4
<1>6. one \in IntLinears /\ one.k = 1 /\ (\A n \in Names : one.co[n] = 0) /\ NamesOf(one) = {}
  BY ConstantRow
<1> HIDE DEF one, rest
<1>7. ValueOf(one, at) = 1
  BY <1>6, ValueNameless
<1>8. Combination(g, m, row, rest, one)
  <2>1. ASSUME NEW n \in Names PROVE g.co[n] = m * row.co[n] + rest * one.co[n]
    <3>1. g.co[n] = m * row.co[n] /\ one.co[n] = 0 /\ m * row.co[n] \in Int
      BY <1>1, <1>3, <1>6, RowFields
    <3> QED BY <1>5, <3>1
  <2>2. g.k = m * row.k + rest * one.k
    BY <1>1, <1>2, <1>5, <1>6
  <2> QED BY <2>1, <2>2 DEF Combination
<1>9. ValueOf(g, at) = m * V + rest * ValueOf(one, at)
  BY <1>1, <1>5, <1>6, <1>8, ValueLinear
<1>10. V <= 0
  OBVIOUS
<1> HIDE DEF V
<1>11. m * V <= 0 /\ m * V \in Int
  BY <1>1, <1>10
<1> QED BY <1>5, <1>7, <1>9, <1>11

\* The size of an integer.
LEMMA SizeType ==
  ASSUME NEW n \in Int
  PROVE  Size(n) \in Nat /\ (n # 0 => Size(n) > 0)
BY DEF Size

\* A sum of two satisfied rows with multipliers that are not negative is satisfied.
LEMMA WeightedSatisfied ==
  ASSUME NEW a \in IntLinears, NEW b \in IntLinears, NEW ma \in Nat, NEW mb \in Nat, NEW at \in Points,
         Sum(a, ma, b, mb) \in Linears, ValueOf(a, at) <= 0, ValueOf(b, at) <= 0
  PROVE  /\ Weighted(a, ma, b, mb) = Sum(a, ma, b, mb) /\ Weighted(a, ma, b, mb) \in IntLinears
         /\ ValueOf(Weighted(a, ma, b, mb), at) <= 0
<1> DEFINE x == ValueOf(a, at)
           y == ValueOf(b, at)
<1>1. x \in Int /\ y \in Int /\ x <= 0 /\ y <= 0 /\ ma \in Int /\ mb \in Int
  BY ValueType
<1>2. ValueOf(Weighted(a, ma, b, mb), at) = ma * x + mb * y
  BY <1>1, WeightedExact
<1>3. Weighted(a, ma, b, mb) \in Linears /\ Weighted(a, ma, b, mb) = Sum(a, ma, b, mb)
  BY <1>1, WeightedFacts
<1> HIDE DEF x, y
<1>4. ma * x <= 0 /\ mb * y <= 0 /\ ma * x \in Int /\ mb * y \in Int
  BY <1>1
<1> QED BY <1>2, <1>3, <1>4, Basics

\* One fact, scaled, and two, added as they are or to cancel a name.
LEMMA MatchingSound ==
  ASSUME NEW fs, fs \subseteq IntLinears, NEW g \in IntLinears, ProofFits(fs, g), NEW at \in Points,
         Satisfied(fs, at), OneFact(fs, g) \/ TwoFacts(fs, g) \/ Cancelled(fs, g)
  PROVE  ValueOf(g, at) <= 0
<1>0. MaxScale \in Nat /\ MaxScale > 0 /\ 1 \in 1 .. MaxScale
  BY FarkasAssumption
<1>1. CASE OneFact(fs, g)
  <2>1. PICK a \in fs, m \in 1 .. MaxScale : Matches(a, g, m)
    BY <1>1 DEF OneFact
  <2>2. a \in IntLinears /\ m \in Nat /\ m > 0 /\ ValueOf(a, at) <= 0 /\ MatchFits(a, g, m)
    BY <1>0 DEF Satisfied, ProofFits
  <2> QED BY <2>1, <2>2, MatchSound
<1>2. CASE TwoFacts(fs, g)
  <2>1. PICK a \in fs, b \in fs : Matches(Weighted(a, 1, b, 1), g, 1)
    BY <1>2 DEF TwoFacts
  <2> DEFINE w == Weighted(a, 1, b, 1)
  <2>2. a \in IntLinears /\ b \in IntLinears /\ ValueOf(a, at) <= 0 /\ ValueOf(b, at) <= 0
        /\ Sum(a, 1, b, 1) \in Linears /\ 1 \in Nat
    BY DEF Satisfied, ProofFits
  <2>3. w \in IntLinears /\ ValueOf(w, at) <= 0
    BY <2>2, WeightedSatisfied
  <2>4. MatchFits(w, g, 1)
    <3>1. w \in Linears
      BY <2>2, WeightedFacts
    <3>2. w.k \in Int64s /\ w.k \in Int
      BY <3>1, Basics DEF Linears
    <3> HIDE DEF w
    <3>3. w.k * 1 = w.k
      BY <3>2
    <3> QED BY <3>2, <3>3 DEF MatchFits, FitsWord
  <2>5. Matches(w, g, 1)
    BY <2>1
  <2> HIDE DEF w
  <2>6. 1 \in Nat /\ 1 > 0
    OBVIOUS
  <2> QED BY <2>3, <2>4, <2>5, <2>6, MatchSound
<1>3. CASE Cancelled(fs, g)
  <2>1. PICK a \in fs, b \in fs, v \in Names :
          /\ a.co[v] * b.co[v] < 0
          /\ \E m \in 1 .. MaxScale : Matches(Weighted(a, Size(b.co[v]), b, Size(a.co[v])), g, m)
    BY <1>3 DEF Cancelled
  <2> DEFINE ma == Size(b.co[v])
             mb == Size(a.co[v])
             w == Weighted(a, ma, b, mb)
  <2>2. PICK m \in 1 .. MaxScale : Matches(w, g, m)
    BY <2>1
  <2>3. a \in IntLinears /\ b \in IntLinears /\ ValueOf(a, at) <= 0 /\ ValueOf(b, at) <= 0
    BY DEF Satisfied
  <2>4. ma \in Nat /\ mb \in Nat
    BY <2>3, RowFields, SizeType
  <2>5. CancelFits(a, b, v, g)
    BY <2>1 DEF ProofFits
  <2>6. Sum(a, ma, b, mb) \in Linears /\ MatchFits(Sum(a, ma, b, mb), g, m)
    BY <2>5 DEF CancelFits
  <2> HIDE DEF ma, mb
  <2>7. w \in IntLinears /\ ValueOf(w, at) <= 0 /\ w = Sum(a, ma, b, mb)
    BY <2>3, <2>4, <2>6, WeightedSatisfied
  <2>8. MatchFits(w, g, m)
    BY <2>6, <2>7
  <2>9. m \in Nat /\ m > 0
    BY <1>0
  <2> HIDE DEF w
  <2> QED BY <2>2, <2>7, <2>8, <2>9, MatchSound
<1> QED BY <1>1, <1>2, <1>3

-----------------------------------------------------------------------------
(* A row divided by the greatest common divisor of its coefficients.          *)

\* A bounded set of integers that is not empty has a largest element.
LEMMA MaxExists ==
  ASSUME NEW S, S \subseteq Int, S # {}, NEW b \in Int, \A n \in S : n <= b
  PROVE  Max(S) \in S /\ \A n \in S : n <= Max(S)
<1>1. PICK n \in S : \A m \in S : m <= n
  BY GreatestInteger
<1>2. \A m \in S : n >= m
  <2> SUFFICES ASSUME NEW m \in S PROVE n >= m
    OBVIOUS
  <2>1. m \in Int /\ n \in Int /\ m <= n
    BY <1>1
  <2> QED BY <2>1
<1>3. Max(S) \in S /\ \A y \in S : Max(S) >= y
  BY <1>2 DEF Max
<1>4. ASSUME NEW m \in S PROVE m <= Max(S)
  <2>1. m \in Int /\ Max(S) \in Int /\ Max(S) >= m
    BY <1>3
  <2> QED BY <2>1
<1> QED BY <1>3, <1>4

\* The size of one coefficient is the largest, by one number after the other.
LEMMA SizesBounded ==
  ASSUME NEW r \in IntLinears
  PROVE  \E b \in Nat : \A n \in Names : Size(r.co[n]) <= b
<1> DEFINE N == NumNames
           A == {m \in 0 .. N : \E b \in Nat : \A n \in 1 .. m : Size(r.co[n]) <= b}
<1>0. N \in Nat /\ Names = 1 .. N /\ N \in 0 .. N
  BY Basics
<1>1. \A n \in 1 .. N : Size(r.co[n]) \in Nat
  BY <1>0, RowFields, SizeType
<1> HIDE DEF N
<1>2. 0 \in A
  BY <1>0
<1>3. ASSUME NEW m \in 0 .. N - 1, m \in A PROVE m + 1 \in A
  <2>1. PICK b \in Nat : \A n \in 1 .. m : Size(r.co[n]) <= b
    BY <1>3
  <2>2. m + 1 \in 1 .. N /\ m + 1 \in 0 .. N
    BY <1>0
  <2> DEFINE c == Size(r.co[m + 1])
  <2>3. c \in Nat
    BY <1>1, <2>2
  <2>4. \A n \in 1 .. m + 1 : Size(r.co[n]) <= b + c
    <3> SUFFICES ASSUME NEW n \in 1 .. m + 1 PROVE Size(r.co[n]) <= b + c
      OBVIOUS
    <3>1. CASE n = m + 1
      <4>1. Size(r.co[n]) = c
        BY <3>1
      <4> HIDE DEF c
      <4> QED BY <4>1, <2>3
    <3>2. CASE n # m + 1
      <4>1. n \in 1 .. m /\ n \in 1 .. N
        BY <1>0, <2>2, <3>2
      <4>2. Size(r.co[n]) <= b /\ Size(r.co[n]) \in Nat
        BY <1>1, <2>1, <4>1
      <4> HIDE DEF c
      <4> QED BY <2>3, <4>2
    <3> QED BY <3>1, <3>2
  <2>5. b + c \in Nat
    BY <2>3
  <2> HIDE DEF c
  <2> QED BY <2>2, <2>4, <2>5
<1>4. N \in A
  <2> HIDE DEF A
  <2> QED BY <1>0, <1>2, <1>3, UpTo
<1> QED BY <1>0, <1>4

\* The divisor divides every coefficient.
LEMMA DivisorDivides ==
  ASSUME NEW r \in IntLinears, NamesOf(r) # {}
  PROVE  Divisor(r) \in Nat /\ Divisor(r) > 0 /\ \A n \in Names : r.co[n] % Divisor(r) = 0
<1> DEFINE S == {Size(r.co[n]) : n \in NamesOf(r)}
           L == Max(S)
           D == {d \in 1 .. L : \A n \in Names : r.co[n] % d = 0}
<1>1. Divisor(r) = Max(D)
  BY DEF Divisor
<1>2. L \in Nat /\ L > 0
  <2>1. \A n \in NamesOf(r) : n \in Names /\ Size(r.co[n]) \in Nat /\ Size(r.co[n]) > 0
    BY RowFields, SizeType DEF NamesOf
  <2>2. PICK b \in Nat : \A n \in Names : Size(r.co[n]) <= b
    BY SizesBounded
  <2>3. S \subseteq Int /\ S # {} /\ b \in Int /\ \A x \in S : x <= b
    BY <2>1, <2>2
  <2>4. \A x \in S : x \in Nat /\ x > 0
    BY <2>1
  <2> HIDE DEF S
  <2>5. L \in S
    BY <2>3, MaxExists
  <2> QED BY <2>4, <2>5
<1> HIDE DEF L, S
<1>3. 1 \in D
  <2>1. ASSUME NEW n \in Names PROVE r.co[n] % 1 = 0
    <3>1. r.co[n] \in Int
      BY RowFields
    <3> DEFINE c == r.co[n]
    <3> HIDE DEF c
    <3>2. c % 1 \in 0 .. 1 - 1
      BY <3>1, DivMod DEF c
    <3> QED BY <3>2 DEF c
  <2> QED BY <1>2, <2>1
<1>4. D \subseteq Int /\ D # {} /\ L \in Int /\ \A x \in D : x <= L
  BY <1>2, <1>3
<1>5. Max(D) \in D
  <2> HIDE DEF D
  <2> QED BY <1>4, MaxExists
<1> QED BY <1>1, <1>2, <1>5

\* A row divided: a row of integers, that every satisfying point satisfies too.
LEMMA NormalFacts ==
  ASSUME NEW r \in IntLinears
  PROVE  /\ NormalRow(r) \in IntLinears
         /\ \A at \in Points : ValueOf(r, at) <= 0 => ValueOf(NormalRow(r), at) <= 0
<1>1. CASE NamesOf(r) = {}
  BY <1>1 DEF NormalRow
<1>2. CASE NamesOf(r) # {}
  <2> DEFINE g == Divisor(r)
             k == r.k
             q == (-k) \div g
             m == (-k) % g
             d == [co |-> [n \in Names |-> r.co[n] \div g], k |-> 0]
             one == Constant(1)
             w == NormalRow(r)
  <2>1. g \in Nat /\ g > 0 /\ \A n \in Names : r.co[n] % g = 0
    BY <1>2, DivisorDivides
  <2>2. k \in Int /\ \A n \in Names : r.co[n] \in Int
    BY RowFields
  <2>3. w = [co |-> [n \in Names |-> r.co[n] \div g], k |-> -q]
    BY <1>2 DEF NormalRow
  <2> HIDE DEF g, k
  <2>4. q \in Int /\ m \in 0 .. g - 1 /\ -k = g * q + m
    <3> DEFINE j == -k
    <3>1. j \in Int
      BY <2>2
    <3> HIDE DEF j
    <3>2. j \div g \in Int /\ j % g \in 0 .. g - 1 /\ j = g * (j \div g) + (j % g)
      BY <2>1, <3>1, DivMod
    <3> QED BY <3>2 DEF j
  <2>5. \A n \in Names : r.co[n] \div g \in Int /\ r.co[n] = g * (r.co[n] \div g)
    <3> SUFFICES ASSUME NEW n \in Names PROVE r.co[n] \div g \in Int /\ r.co[n] = g * (r.co[n] \div g)
      OBVIOUS
    <3> DEFINE c == r.co[n]
               e == c \div g
               f == c % g
    <3>1. c \in Int /\ f = 0
      BY <2>1, <2>2
    <3> HIDE DEF c
    <3>2. e \in Int /\ c = g * e + f
      BY <2>1, <3>1, DivMod
    <3> HIDE DEF e, f
    <3>3. g * e \in Int
      BY <2>1, <3>2
    <3>4. c = g * e
      BY <3>1, <3>2, <3>3
    <3> QED BY <3>2, <3>4 DEF e, c
  <2> HIDE DEF q, m
  <2> DEFINE f == [n \in Names |-> r.co[n] \div g]
  <2>6. f \in [Names -> Int] /\ \A n \in Names : f[n] \in Int /\ r.co[n] = g * f[n]
    BY <2>5
  <2>7. w = [co |-> f, k |-> -q] /\ d = [co |-> f, k |-> 0]
    BY <2>3
  <2> HIDE DEF f, w, d
  <2>8. w \in IntLinears /\ d \in IntLinears /\ w.co = f /\ d.co = f /\ w.k = -q /\ d.k = 0
    BY <2>4, <2>6, <2>7 DEF IntLinears
  <2>9. one \in IntLinears /\ one.k = 1 /\ (\A n \in Names : one.co[n] = 0) /\ NamesOf(one) = {}
    BY ConstantRow
  <2> HIDE DEF one
  <2>10. ASSUME NEW at \in Points, ValueOf(r, at) <= 0 PROVE ValueOf(w, at) <= 0
    <3> DEFINE S == ValueOf(d, at)
    <3>1. S \in Int /\ ValueOf(one, at) = 1 /\ g \in Int /\ -q \in Int /\ 1 \in Int
      BY <2>1, <2>4, <2>8, <2>9, ValueType, ValueNameless
    <3>2. Combination(r, g, d, k, one)
      <4>1. ASSUME NEW n \in Names PROVE r.co[n] = g * d.co[n] + k * one.co[n]
        <5>1. g * f[n] \in Int /\ k * 0 = 0
          BY <2>1, <2>2, <2>6
        <5> QED BY <2>6, <2>8, <2>9, <5>1
      <4>2. r.k = g * d.k + k * one.k
        BY <2>1, <2>2, <2>8, <2>9 DEF k
      <4> QED BY <4>1, <4>2 DEF Combination
    <3>3. ValueOf(r, at) = g * S + k * ValueOf(one, at)
      BY <2>2, <2>8, <2>9, <3>1, <3>2, ValueLinear
    <3>4. Combination(w, 1, d, -q, one)
      <4>1. ASSUME NEW n \in Names PROVE w.co[n] = 1 * d.co[n] + (-q) * one.co[n]
        BY <2>4, <2>6, <2>8, <2>9
      <4>2. w.k = 1 * d.k + (-q) * one.k
        BY <2>4, <2>8, <2>9
      <4> QED BY <4>1, <4>2 DEF Combination
    <3>5. ValueOf(w, at) = 1 * S + (-q) * ValueOf(one, at)
      BY <2>8, <2>9, <3>1, <3>4, ValueLinear
    <3> HIDE DEF S
    <3>6. ValueOf(w, at) = S - q /\ ValueOf(r, at) = g * S + k /\ g * S \in Int
      BY <2>1, <2>2, <2>4, <3>1, <3>3, <3>5
    <3>7. g * S <= g * q + m
      BY <2>2, <2>4, <2>10, <3>6
    <3>8. S <= q
      <4> SUFFICES ASSUME S >= q + 1 PROVE FALSE
        BY <2>4, <3>1
      <4>1. g * S >= g * (q + 1)
        BY <2>1, <2>4, <3>1
      <4>2. g * (q + 1) = g * q + g /\ g * q \in Int
        BY <2>1, <2>4
      <4> QED BY <2>1, <2>4, <3>6, <3>7, <4>1, <4>2
    <3> QED BY <2>4, <3>1, <3>6, <3>8
  <2> QED BY <2>8, <2>10 DEF w
<1> QED BY <1>1, <1>2

-----------------------------------------------------------------------------
(* Elimination.                                                               *)

\* Finitely many rows, all of them satisfied.
Systems(at) == {s \in SUBSET IntLinears : IsFiniteSet(s) /\ Satisfied(s, at)}

\* A function on a finite set has finitely many values.
LEMMA ImageFinite ==
  ASSUME NEW S, IsFiniteSet(S), NEW f, f = [x \in S |-> f[x]]
  PROVE  IsFiniteSet({f[x] : x \in S})
<1> DEFINE T == {f[x] : x \in S}
<1>1. f \in [S -> T]
  OBVIOUS
<1>2. \A t \in T : \E s \in S : f[s] = t
  OBVIOUS
<1>3. f \in Surjection(S, T)
  BY <1>1, <1>2 DEF Surjection
<1> HIDE DEF T
<1>4. IsFiniteSet(T)
  BY <1>3, FS_Surjection
<1> QED BY <1>4 DEF T

\* A row that is false has no satisfying point.
LEMMA FalseRow ==
  ASSUME NEW r \in IntLinears, IsFalse(r), NEW at \in Points
  PROVE  ~(ValueOf(r, at) <= 0)
<1>1. ValueOf(r, at) = r.k /\ r.k > 0 /\ r.k \in Int
  BY ValueNameless, RowFields DEF IsFalse
<1> QED BY <1>1

Pairs(sys, v) == Cardinality(Above(sys, v)) * Cardinality(Below(sys, v))

\* The name chosen for elimination is one of the rows'.
LEMMA CheapestName ==
  ASSUME NEW sys, IsFiniteSet(sys), \E r \in sys : NamesOf(r) # {}
  PROVE  Cheapest(sys) \in Names
<1> DEFINE appear == UNION {NamesOf(r) : r \in sys}
           Best(v) == \A w \in appear : Pairs(sys, v) < Pairs(sys, w) \/ (Pairs(sys, v) = Pairs(sys, w) /\ v <= w)
<1>1. Cheapest(sys) = CHOOSE v \in appear : Best(v)
  BY DEF Cheapest, Pairs
<1>2. appear \subseteq Names /\ appear # {} /\ appear \subseteq Nat
  BY Basics DEF NamesOf
<1>3. ASSUME NEW v PROVE Pairs(sys, v) \in Nat
  <2>1. IsFiniteSet(Above(sys, v)) /\ IsFiniteSet(Below(sys, v))
    BY FS_Subset DEF Above, Below
  <2>2. Cardinality(Above(sys, v)) \in Nat /\ Cardinality(Below(sys, v)) \in Nat
    BY <2>1, FS_CardinalityType
  <2> QED BY <2>2 DEF Pairs
<1>4. \E v \in appear : Best(v)
  <2> HIDE DEF appear
  <2> DEFINE P == {Pairs(sys, v) : v \in appear}
  <2>1. P \subseteq Nat /\ P # {}
    BY <1>2, <1>3
  <2>2. PICK p \in P : \A q \in P : p <= q
    <3> HIDE DEF P
    <3> QED BY <2>1, LeastNatural
  <2> DEFINE Q == {v \in appear : Pairs(sys, v) = p}
  <2>3. Q \subseteq Nat /\ Q # {}
    BY <1>2, <2>2
  <2>4. PICK v \in Q : \A w \in Q : v <= w
    <3> HIDE DEF Q
    <3> QED BY <2>3, LeastNatural
  <2>5. v \in appear /\ Pairs(sys, v) = p
    BY <2>4
  <2>6. ASSUME NEW w \in appear
        PROVE  Pairs(sys, v) < Pairs(sys, w) \/ (Pairs(sys, v) = Pairs(sys, w) /\ v <= w)
    <3>1. Pairs(sys, w) \in P /\ Pairs(sys, w) \in Nat /\ p \in Nat
      BY <1>3, <2>5
    <3>2. p <= Pairs(sys, w)
      BY <2>2, <3>1
    <3>3. CASE Pairs(sys, w) = p
      BY <2>4, <2>5, <3>3
    <3>4. CASE Pairs(sys, w) # p
      BY <2>5, <3>1, <3>2, <3>4
    <3> QED BY <3>3, <3>4
  <2> QED BY <2>5, <2>6
<1> HIDE DEF Best
<1> QED BY <1>1, <1>2, <1>4

Combined(pn, v) == NormalRow(Weighted(pn[1], -pn[2].co[v], pn[2], pn[1].co[v]))

\* An upper and a lower bound combined, where nothing overflows, are satisfied
\* where both are.
LEMMA CombinedSound ==
  ASSUME NEW a \in IntLinears, NEW b \in IntLinears, NEW v \in Names, a.co[v] > 0, b.co[v] < 0,
         Combines(a, -b.co[v], b, a.co[v])
  PROVE  /\ NormalRow(Weighted(a, -b.co[v], b, a.co[v])) \in IntLinears
         /\ \A at \in Points : ValueOf(a, at) <= 0 /\ ValueOf(b, at) <= 0
              => ValueOf(NormalRow(Weighted(a, -b.co[v], b, a.co[v])), at) <= 0
<1> DEFINE ma == -b.co[v]
           mb == a.co[v]
           w == Weighted(a, ma, b, mb)
           s == Sum(a, ma, b, mb)
<1>1. ma \in Nat /\ mb \in Nat
  <2>1. a.co[v] \in Int /\ b.co[v] \in Int
    BY RowFields
  <2> QED BY <2>1
<1>2. Combines(a, ma, b, mb)
  OBVIOUS
<1> HIDE DEF ma, mb
<1>3. /\ s \in IntLinears /\ s.k = ma * a.k + mb * b.k
      /\ \A n \in Names : s.co[n] = ma * a.co[n] + mb * b.co[n]
  BY <1>1, SumValue
<1>4. s \in Linears
  <2>1. ma * a.k + mb * b.k \in Int64s
    <3>1. 0 \in Names \cup {0}
      OBVIOUS
    <3> QED BY <1>2, <3>1 DEF Combines, FitsWord
  <2>2. ASSUME NEW n \in Names PROVE ma * a.co[n] + mb * b.co[n] \in Int64s
    <3>1. n # 0 /\ n \in Names \cup {0}
      BY Basics
    <3> QED BY <1>2, <3>1 DEF Combines, FitsWord
  <2>3. s = [co |-> s.co, k |-> s.k] /\ s.co \in [Names -> Int]
    BY <1>3 DEF IntLinears
  <2>4. s.k \in Int64s /\ \A n \in Names : s.co[n] \in Int64s
    BY <1>3, <2>1, <2>2
  <2>5. s.co \in [Names -> Int64s]
    BY <2>3, <2>4
  <2> HIDE DEF s
  <2> QED BY <2>3, <2>4, <2>5 DEF Linears
<1>5. w \in IntLinears
  BY <1>1, WeightedFacts, Basics
<1>6. NormalRow(w) \in IntLinears
  BY <1>5, NormalFacts
<1>7. ASSUME NEW at \in Points, ValueOf(a, at) <= 0, ValueOf(b, at) <= 0 PROVE ValueOf(NormalRow(w), at) <= 0
  <2>1. ValueOf(w, at) <= 0
    BY <1>1, <1>4, <1>7, WeightedSatisfied
  <2> HIDE DEF w
  <2> QED BY <1>5, <2>1, NormalFacts
<1> QED BY <1>6, <1>7 DEF ma, mb

\* Eliminating a name keeps every satisfying point.
LEMMA ProjectedSound ==
  ASSUME NEW at \in Points, NEW sys \in Systems(at), NEW v \in Names
  PROVE  Projected(sys, v) \in Systems(at)
<1> DEFINE up == Above(sys, v)
           lo == Below(sys, v)
           P == {q \in up \X lo : Combines(q[1], -q[2].co[v], q[2], q[1].co[v])}
           rest == sys \ (up \cup lo)
           f == [q \in P |-> Combined(q, v)]
           new == {Combined(q, v) : q \in P}
<1>1. sys \subseteq IntLinears /\ IsFiniteSet(sys) /\ \A r \in sys : ValueOf(r, at) <= 0
  BY DEF Systems, Satisfied
<1>2. Projected(sys, v) = rest \cup new
  BY DEF Projected, Combined
<1>3. up \subseteq sys /\ lo \subseteq sys /\ (\A r \in up : r.co[v] > 0) /\ \A r \in lo : r.co[v] < 0
  BY DEF Above, Below
<1> HIDE DEF up, lo
<1>4. IsFiniteSet(new)
  <2>1. IsFiniteSet(up) /\ IsFiniteSet(lo)
    BY <1>1, <1>3, FS_Subset
  <2>2. IsFiniteSet(up \X lo)
    BY <2>1, FS_Product
  <2>3. P \in SUBSET (up \X lo)
    OBVIOUS
  <2> DEFINE Q == P
  <2>4. IsFiniteSet(Q)
    <3> DEFINE B == up \X lo
    <3> HIDE DEF Q
    <3>1. IsFiniteSet(B) /\ Q \in SUBSET B
      BY <2>2, <2>3 DEF Q
    <3> HIDE DEF B
    <3> QED BY <3>1, FS_Subset
  <2> DEFINE h == [q \in Q |-> Combined(q, v)]
  <2> HIDE DEF Q
  <2>5. h = [q \in Q |-> h[q]] /\ {h[q] : q \in Q} = {Combined(q, v) : q \in Q}
    OBVIOUS
  <2> HIDE DEF h
  <2>6. IsFiniteSet({h[q] : q \in Q})
    BY <2>4, <2>5, ImageFinite
  <2> QED BY <2>5, <2>6 DEF Q
<1>5. \A r \in new : r \in IntLinears /\ ValueOf(r, at) <= 0
  <2> SUFFICES ASSUME NEW q \in P PROVE Combined(q, v) \in IntLinears /\ ValueOf(Combined(q, v), at) <= 0
    OBVIOUS
  <2> DEFINE a == q[1]
             b == q[2]
  <2>1. a \in up /\ b \in lo /\ Combines(a, -b.co[v], b, a.co[v])
    OBVIOUS
  <2>2. Combined(q, v) = NormalRow(Weighted(a, -b.co[v], b, a.co[v]))
    BY DEF Combined
  <2> HIDE DEF a, b
  <2>3. a \in IntLinears /\ b \in IntLinears /\ a.co[v] > 0 /\ b.co[v] < 0
        /\ ValueOf(a, at) <= 0 /\ ValueOf(b, at) <= 0
    BY <1>1, <1>3, <2>1
  <2> QED BY <2>1, <2>2, <2>3, CombinedSound
<1> HIDE DEF new
<1>6. IsFiniteSet(rest)
  BY <1>1, FS_Difference
<1>7. IsFiniteSet(rest \cup new)
  <2> HIDE DEF rest
  <2> QED BY <1>4, <1>6, FS_Union
<1>8. rest \cup new \subseteq IntLinears /\ \A r \in rest \cup new : ValueOf(r, at) <= 0
  BY <1>1, <1>5
<1> QED BY <1>2, <1>7, <1>8 DEF Systems, Satisfied

\* A round keeps every satisfying point, and gives up into no rows at all.
LEMMA RoundSound ==
  ASSUME NEW at \in Points, NEW sys \in Systems(at)
  PROVE  Round(sys) \in Systems(at)
<1>1. CASE (\E r \in sys : IsFalse(r)) \/ (\A r \in sys : NamesOf(r) = {})
  BY <1>1 DEF Round
<1>2. CASE ~((\E r \in sys : IsFalse(r)) \/ (\A r \in sys : NamesOf(r) = {}))
  <2>1. IsFiniteSet(sys)
    BY DEF Systems
  <2>2. Cheapest(sys) \in Names
    BY <1>2, <2>1, CheapestName
  <2>3. Projected(sys, Cheapest(sys)) \in Systems(at)
    BY <2>2, ProjectedSound
  <2>4. {} \in Systems(at)
    BY FS_EmptySet DEF Systems, Satisfied
  <2>5. Round(sys) = Projected(sys, Cheapest(sys)) \/ Round(sys) = {}
    BY <1>2 DEF Round
  <2> QED BY <2>3, <2>4, <2>5
<1> QED BY <1>1, <1>2

\* Elimination refutes no system that a point satisfies (the elimination of
\* `farkas`).
THEOREM RefutedSound ==
  ASSUME NEW at \in Points, NEW sys \in Systems(at)
  PROVE  ~Refuted(sys)
<1> DEFINE n == NumNames
           S == Systems(at)
           Law(h) == [m \in 0 .. n |-> IF m = 0 THEN sys ELSE Round(h[m - 1])]
           F == [m \in 1 .. n |-> [s \in S |-> Round(s)]]
           after == CHOOSE h : h = Law(h)
<1>1. n \in Nat /\ n \in 0 .. n
  BY Basics
<1>2. Refuted(sys) <=> \E r \in after[n] : IsFalse(r)
  BY DEF Refuted
<1>3. F \in Steps(n, S) /\ sys \in S
  BY RoundSound DEF Steps
<1>4. \A m \in 1 .. n : \A s \in S : F[m][s] = Round(s)
  OBVIOUS
<1> HIDE DEF F, S
<1>5. PICK h \in [0 .. n -> S] : h[0] = sys /\ \A m \in 1 .. n : h[m] = F[m][h[m - 1]]
  <2> DEFINE k == n
  <2>1. k \in Nat /\ F \in Steps(k, S)
    BY <1>1, <1>3
  <2> HIDE DEF k
  <2>2. Recursive(k, S, sys, F)
    BY <1>3, <2>1, Recursion
  <2> QED BY <2>2 DEF Recursive, k
<1>6. \A m \in 1 .. n : m - 1 \in 0 .. n /\ h[m - 1] \in S
  BY <1>1
<1>7. h[0] = sys /\ \A m \in 1 .. n : h[m] = Round(h[m - 1])
  BY <1>4, <1>5, <1>6
<1>8. h = Law(h)
  <2>1. \A m \in 0 .. n : h[m] = IF m = 0 THEN sys ELSE Round(h[m - 1])
    BY <1>1, <1>7
  <2> QED BY <2>1
<1>9. after = Law(after)
  <2> HIDE DEF Law
  <2> QED BY <1>8
<1> HIDE DEF after
<1>10. \A m \in 0 .. n : after[m] = IF m = 0 THEN sys ELSE Round(after[m - 1])
  BY <1>9
<1> DEFINE A == {m \in 0 .. n : after[m] \in S}
<1>11. 0 \in A
  BY <1>1, <1>3, <1>10
<1>12. ASSUME NEW m \in 0 .. n - 1, m \in A PROVE m + 1 \in A
  <2>1. m + 1 \in 0 .. n /\ (m + 1) - 1 = m /\ m + 1 # 0
    BY <1>1
  <2>2. after[m + 1] = Round(after[m]) /\ after[m] \in S
    BY <1>10, <1>12, <2>1
  <2>3. Round(after[m]) \in S
    BY <2>2, RoundSound DEF S
  <2> QED BY <2>1, <2>2, <2>3
<1>13. n \in A
  <2> DEFINE k == n
  <2>1. k \in Nat /\ k \in 0 .. k /\ \A m \in 0 .. k - 1 : m \in A => m + 1 \in A
    BY <1>1, <1>12
  <2>2. 0 \in A
    BY <1>11
  <2> HIDE DEF A, k
  <2>3. k \in A
    BY <2>1, <2>2, UpTo
  <2> QED BY <2>3 DEF k
<1>14. after[n] \subseteq IntLinears /\ \A r \in after[n] : ValueOf(r, at) <= 0
  BY <1>13 DEF S, Systems, Satisfied
<1>15. ASSUME NEW r \in after[n], IsFalse(r) PROVE FALSE
  BY <1>14, <1>15, FalseRow
<1> QED BY <1>2, <1>15

\* The connected facts and the goal's negation have no common point where they
\* are refuted.
LEMMA EliminatedSound ==
  ASSUME NEW fs, fs \subseteq IntLinears, IsFiniteSet(fs), NEW g \in IntLinears, ProofFits(fs, g),
         NEW at \in Points, Satisfied(fs, at), Eliminated(fs, g)
  PROVE  ValueOf(g, at) <= 0
<1> SUFFICES ASSUME ~(ValueOf(g, at) <= 0) PROVE FALSE
  OBVIOUS
<1> DEFINE rows == Connected(fs, g)
           one == Constant(1)
           neg == AddScaled(one, g, -1)
           f == [r \in rows |-> NormalRow(r)]
           T == {NormalRow(r) : r \in rows}
<1>1. Refuted(T \cup {NormalRow(neg)})
  BY DEF Eliminated
<1>2. rows \subseteq fs /\ IsFiniteSet(rows)
  BY FS_Subset DEF Connected
<1>3. one \in IntLinears /\ NamesOf(one) = {} /\ one.k = 1
  BY ConstantRow
<1>4. neg = Weighted(one, 1, g, -1) /\ Sum(one, 1, g, -1) \in Linears
  BY DEF AddScaled, ProofFits
<1> HIDE DEF one, rows, neg
<1>5. neg \in IntLinears /\ ValueOf(neg, at) = 1 * ValueOf(one, at) + (-1) * ValueOf(g, at)
  <2>1. 1 \in Int /\ -1 \in Int
    OBVIOUS
  <2>2. neg \in Linears
    BY <1>3, <1>4, <2>1, WeightedFacts
  <2> QED BY <1>3, <1>4, <2>1, <2>2, WeightedExact, Basics
<1>6. ValueOf(one, at) = 1 /\ ValueOf(g, at) \in Int
  BY <1>3, ValueNameless, ValueType
<1>7. ValueOf(neg, at) <= 0
  BY <1>5, <1>6
<1>8. NormalRow(neg) \in IntLinears /\ ValueOf(NormalRow(neg), at) <= 0
  BY <1>5, <1>7, NormalFacts
<1>9. IsFiniteSet(T)
  <2>1. f = [r \in rows |-> f[r]] /\ {f[r] : r \in rows} = T
    OBVIOUS
  <2> HIDE DEF f, T
  <2> QED BY <1>2, <2>1, ImageFinite
<1>10. \A r \in T : r \in IntLinears /\ ValueOf(r, at) <= 0
  <2> SUFFICES ASSUME NEW r \in rows PROVE NormalRow(r) \in IntLinears /\ ValueOf(NormalRow(r), at) <= 0
    OBVIOUS
  <2>1. r \in IntLinears /\ ValueOf(r, at) <= 0
    BY <1>2 DEF Satisfied
  <2> QED BY <2>1, NormalFacts
<1> HIDE DEF T
<1>11. IsFiniteSet(T \cup {NormalRow(neg)})
  BY <1>9, FS_AddElement
<1>12. T \cup {NormalRow(neg)} \in Systems(at)
  BY <1>8, <1>10, <1>11 DEF Systems, Satisfied
<1> QED BY <1>1, <1>12, RefutedSound

\* What the rows of the program prove of a goal is true of all integers that
\* satisfy them (`entails`), where what is computed without a check fits the word.
THEOREM ProvesSound ==
  ASSUME NEW fs, fs \subseteq IntLinears, IsFiniteSet(fs), NEW g \in IntLinears, ProofFits(fs, g),
         NEW at \in Points, Satisfied(fs, at), Proves(fs, g)
  PROVE  ValueOf(g, at) <= 0
<1>1. CASE \E a \in fs : IsFalse(a)
  <2>1. PICK a \in fs : IsFalse(a)
    BY <1>1
  <2>2. a \in IntLinears /\ ValueOf(a, at) <= 0
    BY DEF Satisfied
  <2> QED BY <2>1, <2>2, FalseRow
<1>2. CASE NamesOf(g) = {} /\ g.k <= 0
  BY <1>2, ValueNameless
<1>3. CASE OneFact(fs, g) \/ TwoFacts(fs, g) \/ Cancelled(fs, g)
  BY <1>3, MatchingSound
<1>4. CASE Eliminated(fs, g)
  BY <1>4, EliminatedSound
<1> QED BY <1>1, <1>2, <1>3, <1>4 DEF Proves

-----------------------------------------------------------------------------
(* Rewriting by the equations keeps the value of a row.                       *)

\* Equations: some names, each with a row of the program.
EquationSets == UNION {[D -> Linears] : D \in SUBSET Names}

\* The integers satisfy the equations.
Equal(es, at) == \A n \in DOMAIN es : at[n] = ValueOf(es[n], at)

\* Equations by their fields.
LEMMA EquationFields ==
  ASSUME NEW es \in EquationSets
  PROVE  /\ DOMAIN es \subseteq Names /\ es \in [DOMAIN es -> Linears]
         /\ \A n \in DOMAIN es : n \in Names /\ es[n] \in Linears /\ es[n] \in IntLinears
<1>1. PICK D \in SUBSET Names : es \in [D -> Linears]
  BY DEF EquationSets
<1>2. DOMAIN es = D
  BY <1>1
<1> QED BY <1>1, <1>2, Basics

\* Equal, or the same but for a multiple of the word's range.
Near(exact, x, y) == IF exact THEN x = y ELSE Same(x, y)

\* Either is an equivalence.
LEMMA NearFacts ==
  ASSUME NEW exact \in BOOLEAN, NEW x \in Int, NEW y \in Int, NEW z \in Int
  PROVE  /\ Near(exact, x, x)
         /\ Near(exact, x, y) => Near(exact, y, x)
         /\ Near(exact, x, y) /\ Near(exact, y, z) => Near(exact, x, z)
         /\ x = y => Near(exact, x, y)
<1>0. Modulus \in Int
  BY Basics DEF Modulus
<1> DEFINE M == Modulus
<1>1. Same(x, x)
  <2>1. x = x + M * 0 /\ 0 \in Int
    BY <1>0
  <2> QED BY <2>1 DEF Same
<1>2. ASSUME Same(x, y) PROVE Same(y, x)
  <2>1. PICK t \in Int : x = y + M * t
    BY <1>2 DEF Same
  <2> HIDE DEF M
  <2>2. M * (-t) = -(M * t) /\ M * t \in Int /\ -t \in Int
    BY <1>0 DEF M
  <2>3. y = x + M * (-t)
    BY <2>1, <2>2
  <2> QED BY <2>2, <2>3 DEF Same, M
<1>3. ASSUME Same(x, y), Same(y, z) PROVE Same(x, z)
  <2>1. PICK t \in Int : x = y + M * t
    BY <1>3 DEF Same
  <2>2. PICK u \in Int : y = z + M * u
    BY <1>3 DEF Same
  <2>0. M \in Int
    BY <1>0
  <2> HIDE DEF M
  <2>3. M * (t + u) = M * t + M * u /\ M * t \in Int /\ M * u \in Int /\ t + u \in Int
    BY <2>0
  <2>4. x = z + M * (t + u)
    BY <2>1, <2>2, <2>3
  <2> QED BY <2>3, <2>4 DEF Same, M
<1> QED BY <1>1, <1>2, <1>3 DEF Near

\* A step of the rewriting fits the word.
ReplaceFits(es, r, n) == n \in DOMAIN es => Sum([r EXCEPT !.co[n] = 0], 1, es[n], r.co[n]) \in Linears

\* The names of a row of the program, but for one that is replaced, are its own
\* or the equation's.
LEMMA ReplacedFacts ==
  ASSUME NEW es \in EquationSets, NEW r \in Linears, NEW n \in Names
  PROVE  /\ Replaced(es, r, n) \in Linears
         /\ NamesOf(Replaced(es, r, n)) \subseteq
              IF n \in DOMAIN es /\ r.co[n] # 0 THEN (NamesOf(r) \ {n}) \cup NamesOf(es[n]) ELSE NamesOf(r)
         /\ \A at \in Points, exact \in BOOLEAN :
              Equal(es, at) /\ (exact => ReplaceFits(es, r, n))
                => Near(exact, ValueOf(Replaced(es, r, n), at), ValueOf(r, at))
<1>0. r \in IntLinears
  BY Basics
<1>1. CASE n \notin DOMAIN es \/ r.co[n] = 0
  <2>1. Replaced(es, r, n) = r
    BY <1>1 DEF Replaced
  <2>2. \A at \in Points, exact \in BOOLEAN : Near(exact, ValueOf(r, at), ValueOf(r, at))
    BY <1>0, ValueType, NearFacts
  <2> QED BY <1>1, <2>1, <2>2
<1>2. CASE n \in DOMAIN es /\ r.co[n] # 0
  <2> DEFINE c == r.co[n]
             base == [r EXCEPT !.co[n] = 0]
             e == es[n]
             w == Weighted(base, 1, e, c)
  <2>1. c \in Int /\ 1 \in Int /\ e \in IntLinears /\ base \in IntLinears
    <3>1. [m \in Names |-> 0] \in Points
      BY DEF Points
    <3>2. base \in IntLinears
      BY <1>0, <3>1, ValueWithout
    <3> QED BY <1>0, <1>2, <3>2, RowFields, EquationFields
  <2>2. \A m \in Names : base.co[m] = IF m = n THEN 0 ELSE r.co[m]
    BY <1>0 DEF IntLinears
  <2>3. Replaced(es, r, n) = w
    BY <1>2 DEF Replaced, AddScaled
  <2>3a. \A at \in Points : ValueOf(base, at) = ValueOf(r, at) - c * at[n]
    BY <1>0, ValueWithout
  <2>3b. \A exact : (exact => ReplaceFits(es, r, n)) => (exact => Sum(base, 1, e, c) \in Linears)
    BY <1>2 DEF ReplaceFits
  <2> HIDE DEF base, e, c
  <2>4. /\ w \in Linears
        /\ \A m \in Names : w.co[m] = Int64(1 * base.co[m] + c * e.co[m])
        /\ \A at \in Points : Same(ValueOf(w, at), 1 * ValueOf(base, at) + c * ValueOf(e, at))
    BY <2>1, WeightedFacts
  <2>5. ASSUME NEW m \in Names, w.co[m] # 0 PROVE m \in (NamesOf(r) \ {n}) \cup NamesOf(e)
    <3> SUFFICES ASSUME m \notin (NamesOf(r) \ {n}) \cup NamesOf(e) PROVE FALSE
      OBVIOUS
    <3>1. e.co[m] = 0
      BY DEF NamesOf
    <3>2. base.co[m] = 0
      BY <2>2 DEF NamesOf
    <3>3. 1 * base.co[m] + c * e.co[m] = 0
      BY <2>1, <3>1, <3>2
    <3>4. 0 \in Int64s /\ 0 \in Int
      BY Basics DEF Int64s
    <3>5. Int64(0) = 0
      BY <3>4, Int64Facts
    <3> QED BY <2>4, <2>5, <3>3, <3>5
  <2>6. ASSUME NEW at \in Points, NEW exact \in BOOLEAN, Equal(es, at), exact => ReplaceFits(es, r, n)
        PROVE  Near(exact, ValueOf(w, at), ValueOf(r, at))
    <3> DEFINE x == ValueOf(base, at)
               y == ValueOf(e, at)
               z == ValueOf(r, at)
               v == ValueOf(w, at)
    <3>1. x \in Int /\ y \in Int /\ z \in Int /\ at[n] \in Int /\ w \in IntLinears
      BY <1>0, <2>1, <2>4, ValueType, Basics DEF Points
    <3>2. v \in Int
      BY <3>1, ValueType
    <3>3. at[n] = y
      BY <1>2, <2>6 DEF Equal, e
    <3>4. x = z - c * at[n]
      BY <2>3a
    <3>5. 1 * x + c * y = z
      <4>1. c * y \in Int /\ c * at[n] = c * y
        BY <2>1, <3>1, <3>3
      <4> HIDE DEF x, y, z
      <4> QED BY <2>1, <3>1, <3>4, <4>1
    <3>6. CASE exact
      <4>1. v = 1 * x + c * y
        BY <2>1, <2>3b, <2>6, <3>6, WeightedExact
      <4> QED BY <3>5, <3>6, <4>1 DEF Near
    <3>7. CASE ~exact
      <4>1. Same(v, 1 * x + c * y)
        BY <2>4
      <4> QED BY <3>5, <3>7, <4>1 DEF Near
    <3> QED BY <3>6, <3>7
  <2>7. NamesOf(w) \subseteq (NamesOf(r) \ {n}) \cup NamesOf(e)
    BY <2>5 DEF NamesOf
  <2> QED BY <1>2, <2>3, <2>4, <2>6, <2>7 DEF e, c
<1> QED BY <1>1, <1>2

\* The rows a pass goes through.
LEMMA PassFacts ==
  ASSUME NEW es \in EquationSets, NEW e \in Linears, NEW order \in Seq(Names)
  PROVE  /\ PassRows(es, e, order) \in [0 .. Len(order) -> Linears]
         /\ PassRows(es, e, order)[0] = e
         /\ \A i \in 1 .. Len(order) :
              PassRows(es, e, order)[i] = Replaced(es, PassRows(es, e, order)[i - 1], order[i])
         /\ RewritePass(es, e, order) = PassRows(es, e, order)[Len(order)]
         /\ RewritePass(es, e, order) \in Linears
<1> DEFINE n == Len(order)
           S == Linears
           Law(h) == [m \in 0 .. n |-> IF m = 0 THEN e ELSE Replaced(es, h[m - 1], order[m])]
           F == [m \in 1 .. n |-> [s \in S |-> Replaced(es, s, order[m])]]
           out == CHOOSE h : h = Law(h)
<1>1. n \in Nat /\ n \in 0 .. n /\ \A i \in 1 .. n : order[i] \in Names
  OBVIOUS
<1>2. PassRows(es, e, order) = out
  BY DEF PassRows
<1>3. F \in Steps(n, S) /\ e \in S
  BY <1>1, ReplacedFacts DEF Steps
<1>4. \A m \in 1 .. n : \A s \in S : F[m][s] = Replaced(es, s, order[m])
  OBVIOUS
<1> HIDE DEF F
<1>5. PICK h \in [0 .. n -> S] : h[0] = e /\ \A m \in 1 .. n : h[m] = F[m][h[m - 1]]
  <2> DEFINE k == n
             T == S
  <2>1. k \in Nat /\ F \in Steps(k, T) /\ e \in T
    BY <1>1, <1>3
  <2> HIDE DEF k, T
  <2>2. Recursive(k, T, e, F)
    BY <2>1, Recursion
  <2> QED BY <2>2 DEF Recursive, k, T
<1>6. \A m \in 1 .. n : m - 1 \in 0 .. n /\ h[m - 1] \in S
  BY <1>1
<1>7. h[0] = e /\ \A m \in 1 .. n : h[m] = Replaced(es, h[m - 1], order[m])
  BY <1>4, <1>5, <1>6
<1> HIDE DEF S
<1>8. h = Law(h)
  <2>1. \A m \in 0 .. n : h[m] = IF m = 0 THEN e ELSE Replaced(es, h[m - 1], order[m])
    BY <1>1, <1>7
  <2> QED BY <2>1
<1>9. out = Law(out)
  <2> HIDE DEF Law
  <2> QED BY <1>8
<1> HIDE DEF out
<1>10. /\ DOMAIN out = 0 .. n /\ out = [m \in 0 .. n |-> out[m]]
       /\ \A m \in 0 .. n : out[m] = IF m = 0 THEN e ELSE Replaced(es, out[m - 1], order[m])
  BY <1>9
<1> DEFINE A == {m \in 0 .. n : out[m] \in S}
<1>11. 0 \in A
  BY <1>1, <1>3, <1>10
<1>12. ASSUME NEW m \in 0 .. n - 1, m \in A PROVE m + 1 \in A
  <2>1. m + 1 \in 0 .. n /\ (m + 1) - 1 = m /\ m + 1 # 0 /\ m + 1 \in 1 .. n
    BY <1>1
  <2>2. out[m + 1] = Replaced(es, out[m], order[m + 1]) /\ out[m] \in S /\ order[m + 1] \in Names
    BY <1>1, <1>10, <1>12, <2>1
  <2>3. Replaced(es, out[m], order[m + 1]) \in S
    BY <2>2, ReplacedFacts DEF S
  <2> QED BY <2>1, <2>2, <2>3
<1>13. \A m \in 0 .. n : m \in A
  <2> DEFINE k == n
  <2>1. k \in Nat /\ \A m \in 0 .. k - 1 : m \in A => m + 1 \in A
    BY <1>1, <1>12
  <2>2. 0 \in A
    BY <1>11
  <2> HIDE DEF A, k
  <2>3. \A m \in 0 .. k : m \in A
    BY <2>1, <2>2, UpTo
  <2> QED BY <2>3 DEF k
<1>14. \A m \in 0 .. n : out[m] \in S
  BY <1>13
<1>15. out \in [0 .. n -> S]
  BY <1>10, <1>14
<1>16. out[0] = e /\ \A m \in 1 .. n : out[m] = Replaced(es, out[m - 1], order[m])
  BY <1>1, <1>10
<1>17. RewritePass(es, e, order) = out[n] /\ out[n] \in S
  BY <1>1, <1>2, <1>14 DEF RewritePass
<1> QED BY <1>2, <1>15, <1>16, <1>17 DEF S

\* The rows after each pass.
LEMMA PassesFacts ==
  ASSUME NEW es \in EquationSets, NEW e \in Linears, NEW order \in Seq(Names)
  PROVE  /\ Passes(es, e, order) \in [0 .. 8 -> Linears]
         /\ Passes(es, e, order)[0] = e
         /\ \A i \in 1 .. 8 : Passes(es, e, order)[i] = RewritePass(es, Passes(es, e, order)[i - 1], order)
         /\ Rewritten(es, e, order) = Passes(es, e, order)[8]
         /\ Rewritten(es, e, order) \in Linears
<1> DEFINE S == Linears
           Law(h) == [m \in 0 .. 8 |-> IF m = 0 THEN e ELSE RewritePass(es, h[m - 1], order)]
           F == [m \in 1 .. 8 |-> [s \in S |-> RewritePass(es, s, order)]]
           out == CHOOSE h : h = Law(h)
<1>2. Passes(es, e, order) = out
  BY DEF Passes
<1>3. F \in Steps(8, S) /\ e \in S
  BY PassFacts DEF Steps
<1>4. \A m \in 1 .. 8 : \A s \in S : F[m][s] = RewritePass(es, s, order)
  OBVIOUS
<1> HIDE DEF F
<1>5. PICK h \in [0 .. 8 -> S] : h[0] = e /\ \A m \in 1 .. 8 : h[m] = F[m][h[m - 1]]
  <2> DEFINE k == 8
             T == S
  <2>1. k \in Nat /\ F \in Steps(k, T) /\ e \in T
    BY <1>3
  <2> HIDE DEF k, T
  <2>2. Recursive(k, T, e, F)
    BY <2>1, Recursion
  <2> QED BY <2>2 DEF Recursive, k, T
<1>6. \A m \in 1 .. 8 : m - 1 \in 0 .. 8 /\ h[m - 1] \in S
  OBVIOUS
<1>7. h[0] = e /\ \A m \in 1 .. 8 : h[m] = RewritePass(es, h[m - 1], order)
  BY <1>4, <1>5, <1>6
<1> HIDE DEF S
<1>8. h = Law(h)
  <2>1. \A m \in 0 .. 8 : h[m] = IF m = 0 THEN e ELSE RewritePass(es, h[m - 1], order)
    BY <1>7
  <2> QED BY <2>1
<1>9. out = Law(out)
  <2> HIDE DEF Law
  <2> QED BY <1>8
<1> HIDE DEF out
<1>10. /\ out = [m \in 0 .. 8 |-> out[m]]
       /\ \A m \in 0 .. 8 : out[m] = IF m = 0 THEN e ELSE RewritePass(es, out[m - 1], order)
  BY <1>9
<1> DEFINE A == {m \in 0 .. 8 : out[m] \in S}
<1>11. 0 \in A
  BY <1>3, <1>10
<1>12. ASSUME NEW m \in 0 .. 8 - 1, m \in A PROVE m + 1 \in A
  <2>1. m + 1 \in 0 .. 8 /\ (m + 1) - 1 = m /\ m + 1 # 0
    OBVIOUS
  <2>2. out[m + 1] = RewritePass(es, out[m], order) /\ out[m] \in S
    BY <1>10, <1>12, <2>1
  <2>3. RewritePass(es, out[m], order) \in S
    BY <2>2, PassFacts DEF S
  <2> QED BY <2>1, <2>2, <2>3
<1>13. \A m \in 0 .. 8 : m \in A
  <2> DEFINE k == 8
  <2>1. k \in Nat /\ \A m \in 0 .. k - 1 : m \in A => m + 1 \in A
    BY <1>12
  <2>2. 0 \in A
    BY <1>11
  <2> HIDE DEF A, k
  <2>3. \A m \in 0 .. k : m \in A
    BY <2>1, <2>2, UpTo
  <2> QED BY <2>3 DEF k
<1>14. \A m \in 0 .. 8 : out[m] \in S
  BY <1>13
<1>15. out \in [0 .. 8 -> S]
  BY <1>10, <1>14
<1>16. out[0] = e /\ \A m \in 1 .. 8 : out[m] = RewritePass(es, out[m - 1], order)
  BY <1>10
<1>17. Rewritten(es, e, order) = out[8] /\ out[8] \in S
  BY <1>2, <1>14 DEF Rewritten
<1> QED BY <1>2, <1>15, <1>16, <1>17 DEF S

\* Every step of a pass fits the word, and every step of the rewriting.
PassFits(es, e, order) == \A i \in 1 .. Len(order) : ReplaceFits(es, PassRows(es, e, order)[i - 1], order[i])
RewritingFits(es, e, order) == \A p \in 1 .. 8 : PassFits(es, Passes(es, e, order)[p - 1], order)

\* A pass keeps the value, where the equations hold.
LEMMA PassNear ==
  ASSUME NEW es \in EquationSets, NEW e \in Linears, NEW order \in Seq(Names),
         NEW at \in Points, Equal(es, at), NEW exact \in BOOLEAN, exact => PassFits(es, e, order)
  PROVE  Near(exact, ValueOf(RewritePass(es, e, order), at), ValueOf(e, at))
<1> DEFINE n == Len(order)
           out == PassRows(es, e, order)
           A == {m \in 0 .. n : Near(exact, ValueOf(out[m], at), ValueOf(e, at))}
<1>1. /\ out \in [0 .. n -> Linears] /\ out[0] = e
      /\ \A i \in 1 .. n : out[i] = Replaced(es, out[i - 1], order[i])
      /\ RewritePass(es, e, order) = out[n]
  BY PassFacts
<1>2. n \in Nat /\ n \in 0 .. n /\ \A i \in 1 .. n : order[i] \in Names
  OBVIOUS
<1>3. \A i \in 1 .. n : exact => ReplaceFits(es, out[i - 1], order[i])
  BY DEF PassFits
<1>4. ValueOf(e, at) \in Int /\ \A i \in 0 .. n : out[i] \in Linears /\ ValueOf(out[i], at) \in Int
  BY <1>1, ValueType, Basics
<1> HIDE DEF n, out
<1>5. 0 \in A
  BY <1>1, <1>2, <1>4, NearFacts
<1>6. ASSUME NEW m \in 0 .. n - 1, m \in A PROVE m + 1 \in A
  <2>1. m \in 0 .. n /\ m + 1 \in 0 .. n /\ m + 1 \in 1 .. n /\ (m + 1) - 1 = m
    BY <1>2
  <2>2. out[m + 1] = Replaced(es, out[m], order[m + 1]) /\ order[m + 1] \in Names /\ out[m] \in Linears
        /\ (exact => ReplaceFits(es, out[m], order[m + 1]))
    BY <1>1, <1>2, <1>3, <1>4, <2>1
  <2>3. Near(exact, ValueOf(out[m + 1], at), ValueOf(out[m], at))
    BY <2>2, ReplacedFacts
  <2>4. ValueOf(out[m], at) \in Int /\ ValueOf(out[m + 1], at) \in Int
    BY <1>4, <2>1
  <2>5. Near(exact, ValueOf(out[m], at), ValueOf(e, at))
    BY <1>6
  <2>6. Near(exact, ValueOf(out[m + 1], at), ValueOf(e, at))
    BY <1>4, <2>3, <2>4, <2>5, NearFacts
  <2> QED BY <2>1, <2>6
<1>7. n \in A
  <2> HIDE DEF A
  <2> QED BY <1>2, <1>5, <1>6, UpTo
<1> QED BY <1>1, <1>7

\* Rewriting keeps the value, where the equations hold.
LEMMA RewrittenNear ==
  ASSUME NEW es \in EquationSets, NEW e \in Linears, NEW order \in Seq(Names),
         NEW at \in Points, Equal(es, at), NEW exact \in BOOLEAN, exact => RewritingFits(es, e, order)
  PROVE  Near(exact, ValueOf(Rewritten(es, e, order), at), ValueOf(e, at))
<1> DEFINE out == Passes(es, e, order)
           A == {m \in 0 .. 8 : Near(exact, ValueOf(out[m], at), ValueOf(e, at))}
<1>1. /\ out \in [0 .. 8 -> Linears] /\ out[0] = e
      /\ \A i \in 1 .. 8 : out[i] = RewritePass(es, out[i - 1], order)
      /\ Rewritten(es, e, order) = out[8]
  BY PassesFacts
<1>3. \A i \in 1 .. 8 : exact => PassFits(es, out[i - 1], order)
  BY DEF RewritingFits
<1>4. ValueOf(e, at) \in Int /\ \A i \in 0 .. 8 : out[i] \in Linears /\ ValueOf(out[i], at) \in Int
  BY <1>1, ValueType, Basics
<1> HIDE DEF out
<1>5. 0 \in A
  BY <1>1, <1>4, NearFacts
<1>6. ASSUME NEW m \in 0 .. 8 - 1, m \in A PROVE m + 1 \in A
  <2>1. m \in 0 .. 8 /\ m + 1 \in 0 .. 8 /\ m + 1 \in 1 .. 8 /\ (m + 1) - 1 = m
    OBVIOUS
  <2>2. out[m + 1] = RewritePass(es, out[m], order) /\ out[m] \in Linears /\ (exact => PassFits(es, out[m], order))
    BY <1>1, <1>3, <1>4, <2>1
  <2>3. Near(exact, ValueOf(out[m + 1], at), ValueOf(out[m], at))
    BY <2>2, PassNear
  <2>4. ValueOf(out[m], at) \in Int /\ ValueOf(out[m + 1], at) \in Int
    BY <1>4, <2>1
  <2>5. Near(exact, ValueOf(out[m], at), ValueOf(e, at))
    BY <1>6
  <2>6. Near(exact, ValueOf(out[m + 1], at), ValueOf(e, at))
    BY <1>4, <2>3, <2>4, <2>5, NearFacts
  <2> QED BY <2>1, <2>6
<1>7. 8 \in A
  <2> DEFINE k == 8
  <2>1. k \in Nat /\ k \in 0 .. k /\ \A m \in 0 .. k - 1 : m \in A => m + 1 \in A
    BY <1>6
  <2>2. 0 \in A
    BY <1>5
  <2> HIDE DEF A, k
  <2>3. k \in A
    BY <2>1, <2>2, UpTo
  <2> QED BY <2>3 DEF k
<1> QED BY <1>1, <1>7

\* The names' own order is an order of names.
LEMMA OwnOrderType == OwnOrder \in Seq(Names) /\ Len(OwnOrder) = NumNames /\ \A n \in Names : OwnOrder[n] = n
<1>1. NumNames \in Nat /\ Names = 1 .. NumNames
  BY Basics
<1>2. OwnOrder = [n \in 1 .. NumNames |-> n]
  BY <1>1 DEF OwnOrder
<1>3. OwnOrder \in [1 .. NumNames -> Names]
  BY <1>1, <1>2
<1> QED BY <1>1, <1>2, <1>3

\* What the code rewrites a row to is a row of the program, of the same value.
LEMMA SubstituteFacts ==
  ASSUME NEW es \in EquationSets, NEW e \in Linears
  PROVE  /\ FactSubstitute(es, e) \in Linears
         /\ \A at \in Points, exact \in BOOLEAN :
              Equal(es, at) /\ (exact => RewritingFits(es, e, OwnOrder))
                => Near(exact, ValueOf(FactSubstitute(es, e), at), ValueOf(e, at))
<1>1. CASE NamesOf(e) \cap DOMAIN es = {}
  <2>1. FactSubstitute(es, e) = e
    BY <1>1 DEF FactSubstitute
  <2>2. ASSUME NEW at \in Points, NEW exact \in BOOLEAN PROVE Near(exact, ValueOf(e, at), ValueOf(e, at))
    <3>1. ValueOf(e, at) \in Int
      BY ValueType, Basics
    <3> QED BY <3>1, NearFacts
  <2> QED BY <2>1, <2>2
<1>2. CASE NamesOf(e) \cap DOMAIN es # {}
  <2>1. FactSubstitute(es, e) = Rewritten(es, e, OwnOrder)
    BY <1>2 DEF FactSubstitute
  <2> QED BY <2>1, OwnOrderType, PassesFacts, RewrittenNear
<1> QED BY <1>1, <1>2

-----------------------------------------------------------------------------
(* The equations are a solved form, so that eight passes rewrite completely.  *)

\* Every equation is about names that have none, or rank later.
Ranked(es, rank) ==
  /\ rank \in [DOMAIN es -> 1 .. Cardinality(DOMAIN es)]
  /\ \A n \in DOMAIN es : \A m \in NamesOf(es[n]) \cap DOMAIN es : rank[n] < rank[m]
SolvedForm(es) == \E rank : Ranked(es, rank)

\* A row's names rank later than k, or have no equation.
Beyond(es, rank, k, r) == \A n \in NamesOf(r) \cap DOMAIN es : k < rank[n]

\* The order meets every equation.
Meets(es, order) == \A n \in DOMAIN es : \E i \in 1 .. Len(order) : order[i] = n

\* A pass leaves no name of the least rank there was, whatever its order: such a
\* name is replaced when the pass meets it, and only a name of a lesser rank
\* could bring it back.
LEMMA PassRises ==
  ASSUME NEW es \in EquationSets, NEW e \in Linears, NEW order \in Seq(Names), Meets(es, order),
         NEW rank, Ranked(es, rank), NEW k \in Nat, Beyond(es, rank, k, e)
  PROVE  Beyond(es, rank, k + 1, RewritePass(es, e, order))
<1> DEFINE n == Len(order)
           out == PassRows(es, e, order)
           Later(m, r) == \A x \in NamesOf(r) \cap DOMAIN es :
                            k + 1 <= rank[x] /\ (rank[x] = k + 1 => \A j \in 1 .. m : order[j] # x)
           A == {m \in 0 .. n : Later(m, out[m])}
<1>0. \A x \in DOMAIN es : rank[x] \in Int
  <2>1. IsFiniteSet(Names)
    BY Basics, FS_Interval
  <2>2. IsFiniteSet(DOMAIN es)
    BY <2>1, EquationFields, FS_Subset
  <2>3. Cardinality(DOMAIN es) \in Nat
    BY <2>2, FS_CardinalityType
  <2> QED BY <2>3 DEF Ranked
<1>1. /\ out \in [0 .. n -> Linears] /\ out[0] = e
      /\ \A i \in 1 .. n : out[i] = Replaced(es, out[i - 1], order[i])
      /\ RewritePass(es, e, order) = out[n]
  BY PassFacts
<1>2. n \in Nat /\ n \in 0 .. n /\ \A i \in 1 .. n : order[i] \in Names
  OBVIOUS
<1>3. \A x \in DOMAIN es : \E i \in 1 .. n : order[i] = x
  BY DEF Meets
<1> HIDE DEF n, out
<1>4. 0 \in A
  <2>1. Later(0, e)
    <3> SUFFICES ASSUME NEW x \in NamesOf(e) \cap DOMAIN es PROVE k + 1 <= rank[x]
      OBVIOUS
    <3>1. k < rank[x] /\ rank[x] \in Int
      BY <1>0 DEF Beyond
    <3> QED BY <3>1
  <2> QED BY <1>1, <1>2, <2>1
<1>5. ASSUME NEW m \in 0 .. n - 1, m \in A PROVE m + 1 \in A
  <2> DEFINE r == out[m]
             w == out[m + 1]
             z == order[m + 1]
  <2>1. m \in 0 .. n /\ m + 1 \in 0 .. n /\ m + 1 \in 1 .. n /\ (m + 1) - 1 = m /\ m \in Int
    BY <1>2
  <2>2. w = Replaced(es, r, z) /\ z \in Names /\ r \in Linears /\ Later(m, r)
    BY <1>1, <1>2, <1>5, <2>1
  <2>3. NamesOf(w) \subseteq IF z \in DOMAIN es /\ r.co[z] # 0 THEN (NamesOf(r) \ {z}) \cup NamesOf(es[z]) ELSE NamesOf(r)
    BY <2>2, ReplacedFacts
  <2>3a. \A j \in 1 .. m + 1 : j \in 1 .. m \/ order[j] = z
    BY <2>1
  <2> HIDE DEF r, w, z
  <2>4. ASSUME NEW x \in NamesOf(w) \cap DOMAIN es
        PROVE  k + 1 <= rank[x] /\ (rank[x] = k + 1 => \A j \in 1 .. m + 1 : order[j] # x)
    <3>1. CASE x \in NamesOf(r) /\ x # z
      BY <2>2, <2>3a, <3>1
    <3>2. CASE x \in NamesOf(r) /\ x = z
      <4>1. z \in DOMAIN es /\ r.co[z] # 0
        BY <3>2 DEF NamesOf
      <4>2. x \in NamesOf(es[z])
        BY <2>3, <3>2, <4>1
      <4>3. rank[z] < rank[x] /\ k + 1 <= rank[z]
        BY <2>2, <3>2, <4>1, <4>2 DEF Ranked
      <4> QED BY <1>0, <3>2, <4>1, <4>3
    <3>3. CASE x \notin NamesOf(r)
      <4>1. z \in DOMAIN es /\ r.co[z] # 0 /\ x \in NamesOf(es[z])
        BY <2>3, <3>3
      <4>2. z \in NamesOf(r)
        BY <2>2, <4>1 DEF NamesOf
      <4>3. k + 1 <= rank[z] /\ rank[z] < rank[x]
        BY <2>2, <4>1, <4>2 DEF Ranked
      <4>4. rank[z] \in Int /\ rank[x] \in Int
        BY <1>0, <4>1
      <4> QED BY <4>3, <4>4
    <3> QED BY <3>1, <3>2, <3>3
  <2> QED BY <2>1, <2>4 DEF w
<1>6. n \in A
  <2> HIDE DEF A
  <2> QED BY <1>2, <1>4, <1>5, UpTo
<1>7. Later(n, out[n])
  BY <1>6
<1>8. ASSUME NEW x \in NamesOf(out[n]) \cap DOMAIN es PROVE k + 1 < rank[x]
  <2>1. k + 1 <= rank[x] /\ rank[x] # k + 1
    BY <1>3, <1>7
  <2> QED BY <1>0, <2>1
<1> QED BY <1>1, <1>8 DEF Beyond

\* At most eight equations.
FewEquations(es) == Cardinality(DOMAIN es) <= 8

\* Eight passes replace every name that has an equation, whatever their order
\* (`substitute`).
THEOREM RewritingComplete ==
  ASSUME NEW es \in EquationSets, SolvedForm(es), FewEquations(es),
         NEW e \in Linears, NEW order \in Seq(Names), Meets(es, order)
  PROVE  NamesOf(Rewritten(es, e, order)) \cap DOMAIN es = {}
<1>1. PICK rank : Ranked(es, rank)
  BY DEF SolvedForm
<1> DEFINE out == Passes(es, e, order)
           A == {m \in 0 .. 8 : Beyond(es, rank, m, out[m])}
<1>2. /\ out \in [0 .. 8 -> Linears] /\ out[0] = e
      /\ \A i \in 1 .. 8 : out[i] = RewritePass(es, out[i - 1], order)
      /\ Rewritten(es, e, order) = out[8]
  BY PassesFacts
<1>3. \A n \in DOMAIN es : rank[n] \in Int /\ 1 <= rank[n] /\ rank[n] <= 8
  <2>1. IsFiniteSet(Names)
    BY Basics, FS_Interval
  <2>2. IsFiniteSet(DOMAIN es)
    BY <2>1, EquationFields, FS_Subset
  <2>3. Cardinality(DOMAIN es) \in Nat
    BY <2>2, FS_CardinalityType
  <2> QED BY <1>1, <2>3 DEF Ranked, FewEquations
<1> HIDE DEF out
<1>4. 0 \in A
  <2>1. Beyond(es, rank, 0, e)
    <3> SUFFICES ASSUME NEW n \in NamesOf(e) \cap DOMAIN es PROVE 0 < rank[n]
      BY DEF Beyond
    <3> QED BY <1>3
  <2> QED BY <1>2, <2>1
<1>5. ASSUME NEW m \in 0 .. 8 - 1, m \in A PROVE m + 1 \in A
  <2>1. m \in 0 .. 8 /\ m + 1 \in 0 .. 8 /\ m + 1 \in 1 .. 8 /\ (m + 1) - 1 = m /\ m \in Nat
    OBVIOUS
  <2>2. out[m + 1] = RewritePass(es, out[m], order) /\ out[m] \in Linears /\ Beyond(es, rank, m, out[m])
    BY <1>2, <1>5, <2>1
  <2>3. Beyond(es, rank, m + 1, out[m + 1])
    BY <1>1, <2>1, <2>2, PassRises
  <2> QED BY <2>1, <2>3
<1>6. 8 \in A
  <2> DEFINE k == 8
  <2>1. k \in Nat /\ k \in 0 .. k /\ \A m \in 0 .. k - 1 : m \in A => m + 1 \in A
    BY <1>5
  <2>2. 0 \in A
    BY <1>4
  <2> HIDE DEF A, k
  <2>3. k \in A
    BY <2>1, <2>2, UpTo
  <2> QED BY <2>3 DEF k
<1>7. \A n \in NamesOf(out[8]) \cap DOMAIN es : 8 < rank[n]
  BY <1>6 DEF Beyond
<1>8. ASSUME NEW n \in NamesOf(out[8]) \cap DOMAIN es PROVE FALSE
  <2>1. 8 < rank[n] /\ rank[n] <= 8 /\ rank[n] \in Int
    BY <1>3, <1>7
  <2> QED BY <2>1
<1> QED BY <1>2, <1>8

\* So does the code, in the names' own order.
LEMMA SubstituteComplete ==
  ASSUME NEW es \in EquationSets, SolvedForm(es), FewEquations(es), NEW e \in Linears
  PROVE  NamesOf(FactSubstitute(es, e)) \cap DOMAIN es = {}
<1>1. CASE NamesOf(e) \cap DOMAIN es = {}
  BY <1>1 DEF FactSubstitute
<1>2. CASE NamesOf(e) \cap DOMAIN es # {}
  <2>1. FactSubstitute(es, e) = Rewritten(es, e, OwnOrder)
    BY <1>2 DEF FactSubstitute
  <2>2. Meets(es, OwnOrder)
    <3> SUFFICES ASSUME NEW n \in DOMAIN es PROVE \E i \in 1 .. Len(OwnOrder) : OwnOrder[i] = n
      BY DEF Meets
    <3>1. n \in Names /\ n \in 1 .. Len(OwnOrder) /\ OwnOrder[n] = n
      BY EquationFields, OwnOrderType, Basics
    <3> QED BY <3>1
  <2> QED BY <2>1, <2>2, OwnOrderType, RewritingComplete
<1> QED BY <1>1, <1>2

-----------------------------------------------------------------------------
(* The order in which a pass meets the equations cannot be seen.              *)

\* Any values of the names without an equation extend to a point that satisfies
\* the equations.
LEMMA PointExtends ==
  ASSUME NEW es \in EquationSets, SolvedForm(es), NEW base \in Points
  PROVE  \E at \in Points : Equal(es, at) /\ \A n \in Names \ DOMAIN es : at[n] = base[n]
<1>1. PICK rank : Ranked(es, rank)
  BY DEF SolvedForm
<1> DEFINE d == Cardinality(DOMAIN es)
           Free(at) == \A n \in Names \ DOMAIN es : at[n] = base[n]
           Done(k, at) == \A n \in DOMAIN es : d - k < rank[n] => at[n] = ValueOf(es[n], at)
           A == {k \in 0 .. d : \E at \in Points : Free(at) /\ Done(k, at)}
<1>2. d \in Nat /\ d \in 0 .. d
  <2>1. IsFiniteSet(Names)
    BY Basics, FS_Interval
  <2>2. IsFiniteSet(DOMAIN es)
    BY <2>1, EquationFields, FS_Subset
  <2> QED BY <2>2, FS_CardinalityType
<1>3. /\ \A n \in DOMAIN es : rank[n] \in Int /\ 1 <= rank[n] /\ rank[n] <= d
      /\ \A n \in DOMAIN es : \A m \in NamesOf(es[n]) \cap DOMAIN es : rank[n] < rank[m]
  BY <1>1, <1>2 DEF Ranked
<1> HIDE DEF d
<1>4. 0 \in A
  <2>1. Free(base) /\ Done(0, base)
    BY <1>2, <1>3
  <2>2. 0 \in 0 .. d
    BY <1>2
  <2> HIDE DEF Free, Done
  <2> QED BY <2>1, <2>2
<1>5. ASSUME NEW k \in 0 .. d - 1, k \in A PROVE k + 1 \in A
  <2>1. k \in Int /\ k + 1 \in 0 .. d
    BY <1>2
  <2>2. PICK at \in Points : Free(at) /\ Done(k, at)
    BY <1>5
  <2> DEFINE bt == [n \in Names |-> IF n \in DOMAIN es /\ rank[n] = d - k THEN ValueOf(es[n], at) ELSE at[n]]
  <2>3. /\ bt \in Points
        /\ \A n \in Names : bt[n] = IF n \in DOMAIN es /\ rank[n] = d - k THEN ValueOf(es[n], at) ELSE at[n]
    <3>1. \A n \in Names : (IF n \in DOMAIN es /\ rank[n] = d - k THEN ValueOf(es[n], at) ELSE at[n]) \in Int
      BY EquationFields, ValueType DEF Points
    <3> QED BY <3>1 DEF Points
  <2> HIDE DEF bt
  <2>4. Free(bt)
    BY <2>2, <2>3
  <2>5. ASSUME NEW n \in DOMAIN es, d - (k + 1) < rank[n] PROVE bt[n] = ValueOf(es[n], bt)
    <3>1. n \in Names /\ es[n] \in IntLinears /\ rank[n] \in Int
      BY <1>3, EquationFields
    <3>2. d - k <= rank[n]
      BY <1>2, <2>1, <2>5, <3>1
    <3>3. ASSUME NEW m \in NamesOf(es[n]) PROVE bt[m] = at[m]
      <4>1. m \in Names
        BY DEF NamesOf
      <4>2. ASSUME m \in DOMAIN es, rank[m] = d - k PROVE FALSE
        <5>1. rank[n] < rank[m] /\ rank[m] \in Int
          BY <1>3, <4>2
        <5> QED BY <1>2, <2>1, <3>1, <3>2, <4>2, <5>1
      <4> QED BY <2>3, <4>1, <4>2
    <3>4. ValueOf(es[n], bt) = ValueOf(es[n], at)
      BY <2>3, <3>1, <3>3, ValueOwn
    <3>5. CASE rank[n] = d - k
      BY <2>3, <3>1, <3>4, <3>5
    <3>6. CASE rank[n] # d - k
      <4>1. d - k < rank[n]
        BY <1>2, <2>1, <3>1, <3>2, <3>6
      <4> QED BY <2>2, <2>3, <3>1, <3>4, <3>6, <4>1
    <3> QED BY <3>5, <3>6
  <2>6. Done(k + 1, bt)
    BY <2>5
  <2> HIDE DEF Free, Done
  <2> QED BY <2>1, <2>3, <2>4, <2>6
<1>6. d \in A
  <2> HIDE DEF A
  <2> QED BY <1>2, <1>4, <1>5, UpTo
<1>7. PICK at \in Points : Free(at) /\ Done(d, at)
  BY <1>6
<1>8. Equal(es, at)
  BY <1>2, <1>3, <1>7 DEF Equal
<1> QED BY <1>7, <1>8

\* The point that is 1 at x and 0 elsewhere, and the point that is 0.
Unit(x) == [n \in Names |-> IF n = x THEN 1 ELSE 0]
Origin == [n \in Names |-> 0]

\* The value at the origin is the constant.
LEMMA ValueOrigin ==
  ASSUME NEW r \in IntLinears
  PROVE  Origin \in Points /\ ValueOf(r, Origin) = r.k
<1>1. Origin \in Points /\ \A n \in Names : Origin[n] = 0
  BY DEF Points, Origin
<1> DEFINE c == Constant(r.k)
<1>2. c \in IntLinears /\ c.k = r.k /\ (\A n \in Names : c.co[n] = 0) /\ NamesOf(c) = {}
  BY ConstantRow, RowFields
<1> HIDE DEF c
<1>3. \A n \in Names : r.co[n] * Origin[n] = c.co[n] * Origin[n]
  BY <1>1, <1>2, RowFields
<1>4. ValueOf(r, Origin) = ValueOf(c, Origin)
  BY <1>1, <1>2, <1>3, ValueAgree
<1> QED BY <1>1, <1>2, <1>4, ValueNameless

\* The value at a unit point adds the coefficient.
LEMMA ValueUnit ==
  ASSUME NEW r \in IntLinears, NEW x \in Names
  PROVE  Unit(x) \in Points /\ ValueOf(r, Unit(x)) = r.k + r.co[x]
<1> DEFINE u == Unit(x)
           c == [r EXCEPT !.co[x] = 0]
<1>1. u \in Points /\ \A n \in Names : u[n] = IF n = x THEN 1 ELSE 0
  BY DEF Points, Unit
<1>2. c \in IntLinears /\ c.k = r.k /\ \A n \in Names : c.co[n] = IF n = x THEN 0 ELSE r.co[n]
  <2>1. c \in IntLinears
    BY <1>1, ValueWithout
  <2> QED BY <2>1 DEF IntLinears
<1>3. ValueOf(c, u) = ValueOf(r, u) - r.co[x] * u[x]
  BY <1>1, ValueWithout
<1>4. r.k \in Int /\ r.co[x] \in Int
  BY RowFields
<1> HIDE DEF u, c
<1>5. ValueOf(c, u) = ValueOf(c, Origin)
  <2>1. \A n \in Names : c.co[n] * u[n] = c.co[n] * Origin[n]
    <3> SUFFICES ASSUME NEW n \in Names PROVE c.co[n] * u[n] = c.co[n] * Origin[n]
      OBVIOUS
    <3>1. CASE n = x
      BY <1>1, <1>2, <3>1 DEF Origin
    <3>2. CASE n # x
      BY <1>1, <3>2 DEF Origin
    <3> QED BY <3>1, <3>2
  <2> QED BY <1>1, <1>2, <2>1, ValueOrigin, ValueAgree
<1>6. ValueOf(c, u) = r.k
  BY <1>2, <1>5, ValueOrigin
<1>7. ValueOf(r, u) \in Int
  BY <1>1, ValueType
<1>8. ValueOf(r, u) = r.k + r.co[x]
  BY <1>1, <1>3, <1>4, <1>6, <1>7
<1> QED BY <1>1, <1>8 DEF u

\* Two rows of the program without a name that has an equation, that have the
\* same value wherever the equations hold, are one.
LEMMA SameRow ==
  ASSUME NEW es \in EquationSets, SolvedForm(es), NEW r \in Linears, NEW s \in Linears,
         NamesOf(r) \cap DOMAIN es = {}, NamesOf(s) \cap DOMAIN es = {},
         \A at \in Points : Equal(es, at) => Same(ValueOf(r, at), ValueOf(s, at))
  PROVE  r = s
<1>0. r \in IntLinears /\ s \in IntLinears
  BY Basics
<1>1. ASSUME NEW base \in Points PROVE Same(ValueOf(r, base), ValueOf(s, base))
  <2>1. PICK at \in Points : Equal(es, at) /\ \A n \in Names \ DOMAIN es : at[n] = base[n]
    BY PointExtends
  <2>2. (\A n \in NamesOf(r) : at[n] = base[n]) /\ (\A n \in NamesOf(s) : at[n] = base[n])
    BY <2>1 DEF NamesOf
  <2>3. ValueOf(r, at) = ValueOf(r, base) /\ ValueOf(s, at) = ValueOf(s, base)
    BY <1>0, <2>2, ValueOwn
  <2> QED BY <2>1, <2>3
<1>2. /\ r = [co |-> r.co, k |-> r.k] /\ r.co \in [Names -> Int64s] /\ r.k \in Int64s
      /\ s = [co |-> s.co, k |-> s.k] /\ s.co \in [Names -> Int64s] /\ s.k \in Int64s
  BY DEF Linears
<1>3. r.k = s.k
  <2>1. Same(r.k, s.k)
    BY <1>0, <1>1, ValueOrigin
  <2> QED BY <1>2, <2>1, SameInWord
<1>4. ASSUME NEW n \in Names PROVE r.co[n] = s.co[n]
  <2> DEFINE x == r.co[n]
             y == s.co[n]
             k == r.k
  <2>1. x \in Int64s /\ y \in Int64s /\ x \in Int /\ y \in Int /\ k \in Int
    BY <1>2, Basics
  <2>2. Same(k + x, k + y)
    BY <1>0, <1>1, <1>3, ValueUnit
  <2> HIDE DEF x, y, k
  <2>3. PICK t \in Int : k + x = (k + y) + Modulus * t
    BY <2>2 DEF Same
  <2> DEFINE u == Modulus * t
  <2>4. u \in Int
    BY Basics DEF Modulus
  <2>5. k + x = (k + y) + u
    BY <2>3
  <2> HIDE DEF u
  <2>6. x = y + u
    BY <2>1, <2>4, <2>5
  <2>7. Same(x, y)
    BY <2>6 DEF Same, u
  <2>8. x = y
    BY <2>1, <2>7, SameInWord
  <2> QED BY <2>8 DEF x, y
<1>5. r.co = s.co
  <2>1. r.co = [n \in Names |-> r.co[n]] /\ s.co = [n \in Names |-> s.co[n]]
    BY <1>2
  <2> QED BY <1>4, <2>1
<1> QED BY <1>2, <1>3, <1>5

\* Whatever order a pass meets the equations in, the row it ends with is what the
\* names' own order gives, even where the arithmetic wraps (`substitute` ranges
\* over a map).
THEOREM AnyOrder ==
  ASSUME NEW es \in EquationSets, SolvedForm(es), FewEquations(es),
         NEW e \in Linears, NEW order \in Seq(Names), Meets(es, order)
  PROVE  Rewritten(es, e, order) = FactSubstitute(es, e)
<1> DEFINE r == Rewritten(es, e, order)
           s == FactSubstitute(es, e)
<1>1. r \in Linears /\ s \in Linears
  BY PassesFacts, SubstituteFacts
<1>2. NamesOf(r) \cap DOMAIN es = {} /\ NamesOf(s) \cap DOMAIN es = {}
  BY RewritingComplete, SubstituteComplete
<1>3. ASSUME NEW at \in Points, Equal(es, at) PROVE Same(ValueOf(r, at), ValueOf(s, at))
  <2> DEFINE no == FALSE
  <2>0. no \in BOOLEAN /\ ~no
    OBVIOUS
  <2> HIDE DEF no
  <2>1. Near(no, ValueOf(r, at), ValueOf(e, at)) /\ Near(no, ValueOf(s, at), ValueOf(e, at))
    BY <1>3, <2>0, RewrittenNear, SubstituteFacts
  <2>2. ValueOf(r, at) \in Int /\ ValueOf(s, at) \in Int /\ ValueOf(e, at) \in Int
    BY <1>1, ValueType, Basics
  <2> HIDE DEF r, s
  <2>3. Near(no, ValueOf(e, at), ValueOf(s, at))
    BY <2>0, <2>1, <2>2, NearFacts
  <2>4. Near(no, ValueOf(r, at), ValueOf(s, at))
    BY <2>0, <2>1, <2>2, <2>3, NearFacts
  <2> QED BY <2>0, <2>4 DEF Near
<1> HIDE DEF r, s
<1>4. r = s
  BY <1>1, <1>2, <1>3, SameRow
<1> QED BY <1>4 DEF r, s

-----------------------------------------------------------------------------
(* An equation solved for a name.                                             *)

\* The least of a nonempty set of natural numbers.
LEMMA MinExists ==
  ASSUME NEW S, S \subseteq Nat, S # {}
  PROVE  Min(S) \in S
<1>1. PICK n \in S : \A m \in S : n <= m
  BY LeastNatural
<1>2. \E x \in S : \A y \in S : x =< y
  BY <1>1
<1> QED BY <1>2 DEF Min

\* The name an equation is solved for is one of its row's, with a coefficient of
\* 1 or -1.
LEMMA SolvedForFacts ==
  ASSUME NEW row \in Linears, NEW name \in Names
  PROVE  /\ NamesOf(row) = {} => SolvedFor(row, name) = {}
         /\ SolvedFor(row, name) # {} =>
              \E v \in Names : SolvedFor(row, name) = {v} /\ Min(SolvedFor(row, name)) = v /\ row.co[v] \in {1, -1}
<1> DEFINE unit == {n \in Names : Size(row.co[n]) = 1}
<1>0. row \in IntLinears
  BY Basics
<1>1. \A n \in unit : n \in Names /\ row.co[n] \in {1, -1}
  <2> SUFFICES ASSUME NEW n \in unit PROVE row.co[n] \in {1, -1}
    OBVIOUS
  <2>1. row.co[n] \in Int /\ Size(row.co[n]) = 1
    BY <1>0, RowFields
  <2> QED BY <2>1 DEF Size
<1>2. SolvedFor(row, name) = IF name \in unit THEN {name} ELSE IF unit = {} THEN {} ELSE {Min(unit)}
  BY DEF SolvedFor
<1>3. NamesOf(row) = {} => unit = {}
  BY <1>1 DEF NamesOf
<1>4. unit \subseteq Nat
  BY Basics
<1> HIDE DEF unit
<1>5. ASSUME SolvedFor(row, name) # {} PROVE \E v \in unit : SolvedFor(row, name) = {v}
  <2>1. CASE name \in unit
    BY <1>2, <2>1
  <2>2. CASE name \notin unit
    <3>1. unit # {} /\ SolvedFor(row, name) = {Min(unit)}
      BY <1>2, <1>5, <2>2
    <3>2. Min(unit) \in unit
      BY <1>4, <3>1, MinExists
    <3> QED BY <3>1, <3>2
  <2> QED BY <2>1, <2>2
<1>6. ASSUME SolvedFor(row, name) # {}
      PROVE  \E v \in Names : SolvedFor(row, name) = {v} /\ Min(SolvedFor(row, name)) = v /\ row.co[v] \in {1, -1}
  <2>1. PICK v \in unit : SolvedFor(row, name) = {v}
    BY <1>5, <1>6
  <2>2. {v} \subseteq Nat /\ {v} # {}
    BY <1>4
  <2>3. Min({v}) \in {v}
    BY <2>2, MinExists
  <2> QED BY <1>1, <2>1, <2>3
<1>7. NamesOf(row) = {} => SolvedFor(row, name) = {}
  BY <1>2, <1>3
<1> QED BY <1>6, <1>7

\* The negation of a row fits the word.
NegationFits(row) == Sum(Constant(0), 1, row, -1) \in Linears

\* What solving an equation adds, and what it keeps.
SolvesFor(es, row, v, new) ==
  /\ DOMAIN new = DOMAIN es \cup {v}
  /\ \A n \in DOMAIN es : n # v => new[n] = es[n]
  /\ NamesOf(new[v]) \subseteq NamesOf(row) \ {v}
  /\ NegationFits(row) => \A at \in Points : at[v] = ValueOf(new[v], at) <=> ValueOf(row, at) = 0

\* Equations with one more: its row no longer has the name it is solved for, and
\* it holds exactly where the row is 0.
LEMMA SolvedFacts ==
  ASSUME NEW es \in EquationSets, NEW row \in Linears, NEW name \in Names, NEW e,
         NEW v \in Names, SolvedFor(row, name) = {v}, Min(SolvedFor(row, name)) = v, row.co[v] \in {1, -1}
  PROVE  Solved(es, row, name, e) \in EquationSets /\ SolvesFor(es, row, v, Solved(es, row, name, e))
<1> DEFINE c == row.co[v]
           zero == Constant(0)
           rest == [row EXCEPT !.co[v] = 0]
           d == -c
           w == Weighted(zero, 1, rest, d)
           new == Solved(es, row, name, e)
<1>0. row \in IntLinears
  BY Basics
<1>1. new = [n \in DOMAIN es \cup {v} |-> IF n = v THEN w ELSE es[n]]
  BY DEF Solved, AddScaled
<1>2. c \in {1, -1} /\ d \in {1, -1} /\ d = -c
  OBVIOUS
<1>3. rest \in IntLinears /\ rest.k = row.k /\ \A n \in Names : rest.co[n] = IF n = v THEN 0 ELSE row.co[n]
  <2>1. [m \in Names |-> 0] \in Points
    BY DEF Points
  <2>2. rest \in IntLinears
    BY <1>0, <2>1, ValueWithout
  <2> QED BY <1>0, <2>2 DEF IntLinears
<1>4. \A at \in Points : ValueOf(rest, at) = ValueOf(row, at) - c * at[v]
  BY <1>0, ValueWithout
<1>5. zero \in IntLinears /\ zero.k = 0 /\ (\A n \in Names : zero.co[n] = 0) /\ NamesOf(zero) = {}
  BY ConstantRow
<1>6. NegationFits(row) <=> Sum(zero, 1, row, -1) \in Linears
  BY DEF NegationFits
<1> HIDE DEF c, zero, rest, d, new
<1>7. d \in Int /\ 1 \in Int /\ -1 \in Int
  BY <1>2
<1>8. /\ w \in Linears
      /\ \A n \in Names : w.co[n] = Int64(1 * zero.co[n] + d * rest.co[n])
  BY <1>3, <1>5, <1>7, WeightedFacts
<1>9. NamesOf(w) \subseteq NamesOf(row) \ {v}
  <2> SUFFICES ASSUME NEW n \in Names, n \notin NamesOf(row) \ {v} PROVE w.co[n] = 0
    BY DEF NamesOf
  <2>1. rest.co[n] = 0
    BY <1>3 DEF NamesOf
  <2>2. 1 * zero.co[n] + d * rest.co[n] = 0
    BY <1>5, <1>7, <2>1
  <2>3. 0 \in Int64s /\ 0 \in Int
    BY Basics DEF Int64s
  <2>4. Int64(0) = 0
    BY <2>3, Int64Facts
  <2> QED BY <1>8, <2>2, <2>4
<1>10. /\ new \in EquationSets /\ DOMAIN new = DOMAIN es \cup {v} /\ new[v] = w
       /\ \A n \in DOMAIN es : n # v => new[n] = es[n]
  <2>1. DOMAIN es \cup {v} \in SUBSET Names /\ \A n \in DOMAIN es : es[n] \in Linears
    BY EquationFields
  <2> DEFINE D == DOMAIN es \cup {v}
  <2>2. \A n \in D : (IF n = v THEN w ELSE es[n]) \in Linears
    BY <1>8, <2>1
  <2>3. new \in [D -> Linears]
    BY <1>1, <2>2
  <2>4. new \in EquationSets
    BY <2>1, <2>3 DEF EquationSets
  <2> QED BY <1>1, <2>4
<1>11. ASSUME NegationFits(row) PROVE Sum(zero, 1, rest, d) \in Linears
  <2> DEFINE s == Sum(zero, 1, row, -1)
             t == Sum(zero, 1, rest, d)
  <2>1. s \in Linears /\ (\A n \in Names : s.co[n] = 1 * zero.co[n] + (-1) * row.co[n]) /\ s.k = 1 * zero.k + (-1) * row.k
    BY <1>0, <1>5, <1>6, <1>7, <1>11, SumValue
  <2>2. /\ t \in IntLinears /\ t.k = 1 * zero.k + d * rest.k
        /\ \A n \in Names : t.co[n] = 1 * zero.co[n] + d * rest.co[n]
    BY <1>3, <1>5, <1>7, SumValue
  <2> HIDE DEF s, t
  <2>3. s.k \in Int64s /\ (\A n \in Names : s.co[n] \in Int64s)
        /\ row.k \in Int64s /\ (\A n \in Names : row.co[n] \in Int64s) /\ 0 \in Int64s
    BY <2>1, Basics DEF Linears, Int64s
  <2>4. t.k \in Int64s
    <3>1. row.k \in Int /\ rest.k = row.k
      BY <1>0, <1>3, RowFields
    <3>2. d = 1 => t.k = row.k
      BY <1>5, <2>2, <3>1
    <3>3. d = -1 => t.k = s.k
      BY <1>5, <2>1, <2>2, <3>1
    <3> QED BY <1>2, <2>3, <3>2, <3>3
  <2>5. ASSUME NEW n \in Names PROVE t.co[n] \in Int64s
    <3>1. row.co[n] \in Int
      BY <1>0, RowFields
    <3>2. CASE n = v
      <4>1. t.co[n] = 0
        BY <1>3, <1>5, <1>7, <2>2, <3>2
      <4> QED BY <2>3, <4>1
    <3>3. CASE n # v
      <4>1. rest.co[n] = row.co[n]
        BY <1>3, <3>3
      <4>2. d = 1 => t.co[n] = row.co[n]
        BY <1>5, <2>2, <3>1, <4>1
      <4>3. d = -1 => t.co[n] = s.co[n]
        BY <1>5, <2>1, <2>2, <3>1, <4>1
      <4> QED BY <1>2, <2>3, <4>2, <4>3
    <3> QED BY <3>2, <3>3
  <2>6. t = [co |-> t.co, k |-> t.k] /\ t.co \in [Names -> Int64s]
    <3>1. t = [co |-> t.co, k |-> t.k] /\ t.co \in [Names -> Int]
      BY <2>2 DEF IntLinears
    <3> QED BY <2>5, <3>1
  <2>7. t \in Linears
    BY <2>4, <2>6 DEF Linears
  <2> QED BY <2>7 DEF t
<1>12. ASSUME NegationFits(row), NEW at \in Points
       PROVE  at[v] = ValueOf(w, at) <=> ValueOf(row, at) = 0
  <2> DEFINE x == ValueOf(rest, at)
             y == ValueOf(row, at)
             z == at[v]
  <2>1. x \in Int /\ y \in Int /\ z \in Int /\ ValueOf(zero, at) = 0
    BY <1>0, <1>3, <1>5, ValueType, ValueNameless DEF Points
  <2>2. ValueOf(w, at) = 1 * ValueOf(zero, at) + d * x
    BY <1>3, <1>5, <1>7, <1>11, <1>12, WeightedExact
  <2>3. x = y - c * z
    BY <1>4
  <2> HIDE DEF x, y, z
  <2>4. ValueOf(w, at) = d * x
    BY <1>2, <2>1, <2>2
  <2>5. CASE c = 1
    BY <1>2, <2>1, <2>3, <2>4, <2>5 DEF z, y
  <2>6. CASE c = -1
    BY <1>2, <2>1, <2>3, <2>4, <2>6 DEF z, y
  <2> QED BY <1>2, <2>5, <2>6
<1> QED BY <1>9, <1>10, <1>12 DEF new, SolvesFor

\* Solving an equation keeps every equation of another name.
LEMMA SolvedKeeps ==
  ASSUME NEW es \in EquationSets, NEW row \in Linears, NEW name \in Names, NEW e, SolvedFor(row, name) # {}
  PROVE  \E v \in NamesOf(row) : Solved(es, row, name, e) \in EquationSets /\ SolvesFor(es, row, v, Solved(es, row, name, e))
<1>1. PICK v \in Names : SolvedFor(row, name) = {v} /\ Min(SolvedFor(row, name)) = v /\ row.co[v] \in {1, -1}
  BY SolvedForFacts
<1>2. v \in NamesOf(row)
  BY <1>1 DEF NamesOf
<1>3. Solved(es, row, name, e) \in EquationSets /\ SolvesFor(es, row, v, Solved(es, row, name, e))
  BY ONLY <1>1, es \in EquationSets, row \in Linears, name \in Names, v \in Names, SolvedFacts
<1> QED BY <1>2, <1>3

\* The inequalities an unsolved equation leaves are rows of the program, that
\* hold exactly where the row is 0; an equation that is solved leaves none.
LEMMA ResidueFacts ==
  ASSUME NEW row \in Linears, NEW name \in Names
  PROVE  /\ Residue(row, name) \in Seq(Linears)
         /\ SolvedFor(row, name) # {} => Residue(row, name) = <<>>
         /\ SolvedFor(row, name) = {} /\ NegationFits(row) =>
              \A at \in Points : (\A i \in DOMAIN Residue(row, name) : ValueOf(Residue(row, name)[i], at) <= 0)
                                   <=> ValueOf(row, at) = 0
<1> DEFINE zero == Constant(0)
           one == Constant(1)
           neg == Weighted(zero, 1, row, -1)
           left == Residue(row, name)
<1>0. row \in IntLinears
  BY Basics
<1>1. zero \in IntLinears /\ NamesOf(zero) = {} /\ zero.k = 0
      /\ one \in IntLinears /\ NamesOf(one) = {} /\ one.k = 1 /\ (\A n \in Names : one.co[n] = 0)
  BY ConstantRow
<1>2. left = IF NamesOf(row) = {} THEN IF row.k = 0 THEN <<>> ELSE <<one>>
             ELSE IF SolvedFor(row, name) = {} THEN <<row, neg>> ELSE <<>>
  BY DEF Residue, AddScaled
<1>3. NegationFits(row) => Sum(zero, 1, row, -1) \in Linears
  BY DEF NegationFits
<1>4. one \in Linears
  <2>1. 0 \in Int64s /\ 1 \in Int64s
    BY FarkasAssumption DEF Int64s
  <2>2. one = [co |-> [n \in Names |-> 0], k |-> 1]
    BY DEF Constant
  <2>3. [n \in Names |-> 0] \in [Names -> Int64s]
    BY <2>1
  <2> QED BY <2>1, <2>2, <2>3 DEF Linears
<1>5. 1 \in Int /\ -1 \in Int
  OBVIOUS
<1>6. neg \in Linears
  BY <1>0, <1>1, <1>5, WeightedFacts
<1> HIDE DEF zero, one, neg, left
<1>7. left \in Seq(Linears)
  BY <1>2, <1>4, <1>6
<1>8. SolvedFor(row, name) # {} => left = <<>>
  BY <1>2, SolvedForFacts
<1>9. ASSUME SolvedFor(row, name) = {}, NegationFits(row), NEW at \in Points
      PROVE  (\A i \in DOMAIN left : ValueOf(left[i], at) <= 0) <=> ValueOf(row, at) = 0
  <2>1. CASE NamesOf(row) = {} /\ row.k = 0
    BY <1>0, <1>2, <2>1, ValueNameless
  <2>2. CASE NamesOf(row) = {} /\ row.k # 0
    <3>1. left = <<one>> /\ ValueOf(one, at) = 1 /\ ValueOf(row, at) = row.k
      BY <1>0, <1>1, <1>2, <2>2, ValueNameless
    <3>2. 1 \in DOMAIN left /\ left[1] = one
      BY <3>1
    <3> QED BY <2>2, <3>1, <3>2
  <2>3. CASE NamesOf(row) # {}
    <3>1. left = <<row, neg>>
      BY <1>2, <1>9, <2>3
    <3>2. ValueOf(neg, at) = 1 * ValueOf(zero, at) + (-1) * ValueOf(row, at)
      BY <1>0, <1>1, <1>3, <1>5, <1>9, WeightedExact DEF neg
    <3>3. ValueOf(zero, at) = 0 /\ ValueOf(row, at) \in Int
      BY <1>0, <1>1, <1>9, ValueNameless, ValueType
    <3>4. ValueOf(neg, at) = - ValueOf(row, at)
      BY <3>2, <3>3
    <3>5. (\A i \in DOMAIN left : ValueOf(left[i], at) <= 0) <=> ValueOf(row, at) <= 0 /\ ValueOf(neg, at) <= 0
      BY <3>1
    <3> QED BY <3>3, <3>4, <3>5
  <2> QED BY <2>1, <2>2, <2>3
<1> QED BY <1>7, <1>8, <1>9 DEF left

-----------------------------------------------------------------------------
(* The fact set: what no step disturbs, whether or not its arithmetic wraps.  *)

\* A sequence of numbers from 1 to its length.
LEMMA Indices ==
  ASSUME NEW S, NEW s \in Seq(S)
  PROVE  Len(s) \in Nat /\ DOMAIN s = 1 .. Len(s) /\ (\A i \in 1 .. Len(s) : s[i] \in S)
OBVIOUS

Assumptions == [row : Linears, is : {"le", "eq"}]
Answers == [goal : Linears, proved : BOOLEAN]

\* The types of the state, and the cache not of equations to come.
FactsTyped ==
  /\ le \in Seq(Linears) /\ sub \in Seq(Linears) /\ eq \in EquationSets
  /\ eqVer \in Nat /\ subEq \in 0 .. eqVer
  /\ assumed \subseteq Assumptions /\ IsFiniteSet(assumed) /\ asked \in Answers

\* The inequalities, rewritten by the equations as they are.
Fresh == [i \in DOMAIN le |-> FactSubstitute(eq, le[i])]

\* A cache of this version holds the first of them.
Cached == subEq = eqVer => Len(sub) <= Len(le) /\ \A i \in DOMAIN sub : sub[i] = Fresh[i]

FactsHold == FactsTyped /\ Cached

\* A constant, and the difference of a name and a row, are rows of the program.
LEMMA ProgramRows ==
  /\ \A k \in Int64s : Constant(k) \in Linears
  /\ 0 \in Int64s /\ 1 \in Int64s
  /\ \A x \in Names : Variable(x) \in Linears
  /\ \A a, b \in Linears : \A s \in Int : AddScaled(a, b, s) \in Linears
<1>1. 0 \in Int64s /\ 1 \in Int64s
  BY FarkasAssumption DEF Int64s
<1>2. ASSUME NEW k \in Int64s PROVE Constant(k) \in Linears
  <2>1. Constant(k) = [co |-> [n \in Names |-> 0], k |-> k]
    BY DEF Constant
  <2>2. [n \in Names |-> 0] \in [Names -> Int64s]
    BY <1>1
  <2> QED BY <2>1, <2>2 DEF Linears
<1>3. ASSUME NEW x \in Names PROVE Variable(x) \in Linears
  <2>1. Variable(x) = [co |-> [n \in Names |-> IF n = x THEN 1 ELSE 0], k |-> 0]
    BY DEF Variable
  <2>2. [n \in Names |-> IF n = x THEN 1 ELSE 0] \in [Names -> Int64s]
    BY <1>1
  <2> QED BY <1>1, <2>1, <2>2 DEF Linears
<1>4. ASSUME NEW a \in Linears, NEW b \in Linears, NEW s \in Int PROVE AddScaled(a, b, s) \in Linears
  <2>1. a \in IntLinears /\ b \in IntLinears /\ 1 \in Int
    BY Basics
  <2>2. Weighted(a, 1, b, s) \in Linears
    BY <2>1, WeightedFacts
  <2> QED BY <2>2 DEF AddScaled
<1> QED BY <1>1, <1>2, <1>3, <1>4

\* Where the cache is of this version or not, what it becomes is what rewriting
\* every inequality would give now.
LEMMA SubstitutedFresh ==
  ASSUME FactsTyped, Cached
  PROVE  Substituted = Fresh /\ Fresh \in Seq(Linears) /\ Len(Fresh) = Len(le)
<1> DEFINE kept == IF subEq = eqVer THEN sub ELSE <<>>
           rest == [i \in 1..(Len(le) - Len(kept)) |-> FactSubstitute(eq, le[Len(kept) + i])]
<1>1. Len(le) \in Nat /\ DOMAIN le = 1 .. Len(le) /\ \A i \in 1 .. Len(le) : le[i] \in Linears
  BY Indices DEF FactsTyped
<1>2. \A i \in 1 .. Len(le) : FactSubstitute(eq, le[i]) \in Linears
  BY <1>1, SubstituteFacts DEF FactsTyped
<1>3. Fresh \in [1 .. Len(le) -> Linears] /\ \A i \in 1 .. Len(le) : Fresh[i] = FactSubstitute(eq, le[i])
  BY <1>1, <1>2 DEF Fresh
<1>4. Fresh \in Seq(Linears) /\ Len(Fresh) = Len(le)
  BY <1>1, <1>3
<1>5. /\ kept \in Seq(Linears) /\ Len(kept) \in Nat /\ Len(kept) <= Len(le)
      /\ \A i \in 1 .. Len(kept) : kept[i] = Fresh[i]
  <2>1. CASE subEq = eqVer
    <3>1. kept = sub /\ sub \in Seq(Linears) /\ Len(sub) \in Nat /\ DOMAIN sub = 1 .. Len(sub)
      BY <2>1, Indices DEF FactsTyped
    <3> QED BY <2>1, <3>1 DEF Cached
  <2>2. CASE subEq # eqVer
    <3>1. kept = <<>> /\ <<>> \in Seq(Linears) /\ Len(<<>>) = 0
      BY <2>2
    <3> HIDE DEF kept
    <3>2. Len(kept) = 0 /\ kept \in Seq(Linears) /\ 1 .. 0 = {}
      BY <3>1
    <3> QED BY ONLY <1>1, <3>2
  <2> QED BY <2>1, <2>2
<1>6. Substituted = kept \o rest
  BY DEF Substituted
<1> HIDE DEF kept
<1>7. \A i \in 1 .. (Len(le) - Len(kept)) :
        Len(kept) + i \in 1 .. Len(le) /\ rest[i] = FactSubstitute(eq, le[Len(kept) + i])
  BY <1>1, <1>5
<1>8. rest \in Seq(Linears) /\ Len(rest) = Len(le) - Len(kept)
  <2>1. rest \in [1 .. (Len(le) - Len(kept)) -> Linears]
    BY <1>2, <1>7
  <2>2. Len(le) - Len(kept) \in Nat
    BY <1>1, <1>5
  <2> HIDE DEF rest
  <2> QED BY ONLY <2>1, <2>2
<1> HIDE DEF rest
<1> DEFINE all == kept \o rest
<1>9. all \in Seq(Linears) /\ Len(all) = Len(kept) + Len(rest)
      /\ \A i \in 1 .. Len(all) : all[i] = IF i <= Len(kept) THEN kept[i] ELSE rest[i - Len(kept)]
  BY <1>5, <1>8
<1> HIDE DEF all
<1>10. Len(all) = Len(le)
  BY <1>1, <1>5, <1>8, <1>9
<1>11. ASSUME NEW i \in 1 .. Len(le) PROVE all[i] = Fresh[i]
  <2>1. CASE i <= Len(kept)
    <3>1. i \in 1 .. Len(kept)
      BY <1>1, <1>5, <2>1
    <3> QED BY <1>5, <1>9, <1>10, <2>1, <3>1
  <2>2. CASE ~(i <= Len(kept))
    <3>1. i - Len(kept) \in 1 .. (Len(le) - Len(kept)) /\ Len(kept) + (i - Len(kept)) = i
      BY <1>1, <1>5, <2>2
    <3>2. rest[i - Len(kept)] = FactSubstitute(eq, le[i])
      BY <1>7, <3>1
    <3> QED BY <1>3, <1>9, <1>10, <2>2, <3>2
  <2> QED BY <2>1, <2>2
<1>12. all = Fresh
  BY <1>4, <1>9, <1>10, <1>11
<1> QED BY <1>4, <1>6, <1>12 DEF all

\* What an assumed equation is rewritten to, and the row it is recorded as.
Difference(name, e) == AddScaled(Variable(name), e, -1)
Solvable(name, e) == FactSubstitute(eq, Difference(name, e))

\* Both are rows of the program.
LEMMA AssumedRows ==
  ASSUME FactsTyped, NEW p \in Equations
  PROVE  /\ p[1] \in Names /\ p[2] \in Linears
         /\ Difference(p[1], p[2]) \in Linears /\ Solvable(p[1], p[2]) \in Linears
<1>1. p[1] \in Names /\ p[2] \in Linears
  BY LinearFactsAssumption
<1>2. -1 \in Int
  OBVIOUS
<1>3. Difference(p[1], p[2]) \in Linears
  BY <1>1, <1>2, ProgramRows DEF Difference
<1>4. Solvable(p[1], p[2]) \in Linears
  BY <1>3, SubstituteFacts DEF Solvable, FactsTyped
<1> QED BY <1>1, <1>3, <1>4

\* No step disturbs the types or the cache: an equation makes it stale by its
\* version, an inequality makes it shorter.
LEMMA FactsStep ==
  ASSUME FactsHold, [FactsNext]_factVars
  PROVE  FactsHold'
<1> USE DEF FactsHold
<1>0. /\ le \in Seq(Linears) /\ sub \in Seq(Linears) /\ eq \in EquationSets /\ eqVer \in Nat
      /\ subEq \in Int /\ 0 <= subEq /\ subEq <= eqVer
      /\ assumed \subseteq Assumptions /\ IsFiniteSet(assumed) /\ asked \in Answers
  BY DEF FactsTyped
<1>a. NotAsked \in Answers
  BY ProgramRows DEF NotAsked, Answers
<1>k. ASSUME NEW r \in Linears, NEW is \in {"le", "eq"}, Keep(r, is)
      PROVE  assumed' \subseteq Assumptions /\ IsFiniteSet(assumed') /\ asked' \in Answers
  <2>1. [row |-> r, is |-> is] \in Assumptions
    BY DEF Assumptions
  <2>2. assumed' = assumed \cup {[row |-> r, is |-> is]} /\ asked' = NotAsked
    BY <1>k DEF Keep
  <2>3. IsFiniteSet(assumed')
    BY <1>0, <2>2, FS_AddElement
  <2> QED BY <1>0, <1>a, <2>1, <2>2, <2>3
<1>l. ASSUME NEW s \in Seq(Linears), le' = le \o s, UNCHANGED <<eq, eqVer, sub, subEq>>, Cached
      PROVE  Cached'
  <2>1. /\ Len(le') = Len(le) + Len(s) /\ Len(le) \in Nat /\ Len(s) \in Nat
        /\ DOMAIN le = 1 .. Len(le) /\ DOMAIN le' = 1 .. Len(le') /\ \A i \in 1 .. Len(le) : le'[i] = le[i]
    BY <1>0, <1>l
  <2>2. DOMAIN sub = 1 .. Len(sub) /\ Len(sub) \in Nat
    BY <1>0, Indices
  <2>3. ASSUME subEq = eqVer PROVE Len(sub) <= Len(le') /\ \A i \in DOMAIN sub : sub[i] = Fresh'[i]
    <3>1. Len(sub) <= Len(le) /\ \A i \in DOMAIN sub : sub[i] = Fresh[i]
      BY <1>l, <2>3 DEF Cached
    <3>2. \A i \in DOMAIN sub : i \in DOMAIN le /\ i \in DOMAIN le' /\ le'[i] = le[i]
      BY <2>1, <2>2, <3>1
    <3>3. \A i \in DOMAIN sub : Fresh'[i] = Fresh[i]
      BY <1>l, <3>2 DEF Fresh
    <3> QED BY <2>1, <2>2, <3>1, <3>3
  <2> QED BY <1>l, <2>3 DEF Cached
<1>1. ASSUME NEW e \in Inequalities, AssumeLE(e) PROVE FactsHold'
  <2> DEFINE f == FactSubstitute(eq, e)
  <2>1. e \in Linears /\ f \in Linears
    BY <1>0, LinearFactsAssumption, SubstituteFacts
  <2>2. Keep(e, "le") /\ le' = Append(le, f) /\ UNCHANGED <<eq, eqVer, sub, subEq>>
    BY <1>1 DEF AssumeLE
  <2> HIDE DEF f
  <2>3. <<f>> \in Seq(Linears) /\ le' = le \o <<f>> /\ le' \in Seq(Linears)
    BY <1>0, <2>1, <2>2
  <2>4. Cached'
    BY <1>l, <2>2, <2>3
  <2>5. FactsTyped'
    BY <1>0, <1>k, <2>1, <2>2, <2>3 DEF FactsTyped
  <2> QED BY <2>4, <2>5
<1>2. ASSUME NEW p \in Equations, AssumeEQ(p[1], p[2]) PROVE FactsHold'
  <2> DEFINE d == Difference(p[1], p[2])
             row == Solvable(p[1], p[2])
             left == Residue(row, p[1])
  <2>1. p[1] \in Names /\ d \in Linears /\ row \in Linears
    BY AssumedRows
  <2>2. /\ Keep(d, "eq") /\ le' = le \o left /\ UNCHANGED <<sub, subEq>>
        /\ \/ SolvedFor(row, p[1]) = {} /\ UNCHANGED <<eq, eqVer>>
           \/ SolvedFor(row, p[1]) # {} /\ eq' = Solved(eq, row, p[1], p[2]) /\ eqVer' = eqVer + 1
    BY <1>2 DEF AssumeEQ, NextVersion, Difference, Solvable
  <2> HIDE DEF d, row
  <2>3. left \in Seq(Linears)
    BY <2>1, ResidueFacts
  <2> HIDE DEF left
  <2>4. le' \in Seq(Linears)
    BY <1>0, <2>2, <2>3
  <2>5. CASE SolvedFor(row, p[1]) = {}
    <3>1. Cached'
      BY <1>l, <2>2, <2>3, <2>5
    <3>2. FactsTyped'
      BY <1>0, <1>k, <2>1, <2>2, <2>4, <2>5 DEF FactsTyped
    <3> QED BY <3>1, <3>2
  <2>6. CASE SolvedFor(row, p[1]) # {}
    <3>1. eq' = Solved(eq, row, p[1], p[2]) /\ eqVer' = eqVer + 1 /\ subEq' = subEq /\ sub' = sub
      BY <2>2, <2>6
    <3>3. Solved(eq, row, p[1], p[2]) \in EquationSets
      BY <1>0, <2>1, <2>6, SolvedKeeps
    <3>4. subEq' # eqVer' /\ subEq' \in 0 .. eqVer' /\ eqVer' \in Nat
      BY <1>0, <3>1
    <3>5. Cached'
      BY <3>4 DEF Cached
    <3>6. FactsTyped'
      BY <1>0, <1>k, <2>1, <2>2, <2>4, <3>1, <3>3, <3>4 DEF FactsTyped
    <3> QED BY <3>5, <3>6
  <2> QED BY <2>5, <2>6
<1>3. ASSUME NEW g \in Goals, Ask(g) PROVE FactsHold'
  <2>1. /\ sub' = Substituted /\ subEq' = eqVer /\ UNCHANGED <<le, eq, eqVer, assumed>>
        /\ asked' = [goal |-> g, proved |-> Proves(ToSet(Substituted), FactSubstitute(eq, g))]
    BY <1>3 DEF Ask
  <2>2. Substituted = Fresh /\ Fresh \in Seq(Linears) /\ Len(Fresh) = Len(le)
    BY SubstitutedFresh
  <2>3. g \in Linears
    BY LinearFactsAssumption
  <2>4. asked' \in Answers
    <3>1. Proves(ToSet(Substituted), FactSubstitute(eq, g)) \in BOOLEAN
      BY DEF Proves
    <3> QED BY <2>1, <2>3, <3>1 DEF Answers
  <2>5. sub' = Fresh' /\ Len(sub') = Len(le')
    BY <2>1, <2>2 DEF Fresh
  <2>6. Len(le) \in Nat
    BY <1>0, Indices
  <2>7. Cached'
    BY <2>1, <2>5, <2>6 DEF Cached
  <2>8. FactsTyped'
    BY <1>0, <2>1, <2>2, <2>4 DEF FactsTyped
  <2> QED BY <2>7, <2>8
<1>4. ASSUME UNCHANGED factVars PROVE FactsHold'
  BY <1>4 DEF factVars, FactsTyped, Cached, Fresh
<1> QED BY <1>1, <1>2, <1>3, <1>4 DEF FactsNext

\* They hold from the start.
LEMMA FactsStart == FactsInit => FactsHold
<1> SUFFICES ASSUME FactsInit PROVE FactsHold
  OBVIOUS
<1>1. le = <<>> /\ eq = <<>> /\ eqVer = 0 /\ sub = <<>> /\ subEq = 0 /\ assumed = {} /\ asked = NotAsked
  BY DEF FactsInit
<1>2. NotAsked \in Answers
  BY ProgramRows DEF NotAsked, Answers
<1>3. <<>> \in EquationSets
  <2>1. <<>> \in [{} -> Linears] /\ {} \in SUBSET Names
    OBVIOUS
  <2> QED BY <2>1 DEF EquationSets
<1>4. IsFiniteSet({})
  BY FS_EmptySet
<1>5. FactsTyped
  BY <1>1, <1>2, <1>3, <1>4 DEF FactsTyped
<1>6. Len(sub) <= Len(le) /\ DOMAIN sub = {}
  BY <1>1
<1> QED BY <1>5, <1>6 DEF FactsHold, Cached

\* Every run of the fact set keeps its types and its cache.
LEMMA FactsAlways == FactsSpec => []FactsHold
BY FactsStart, FactsStep, PTL DEF FactsSpec

\* A question is asked of the inequalities rewritten by the equations as they
\* are, whenever the cache was last filled (`substituted`).
CacheExact == Substituted = Fresh
THEOREM CacheAlwaysExact == FactsSpec => []CacheExact
<1>1. FactsHold => CacheExact
  BY SubstitutedFresh DEF FactsHold, CacheExact
<1> QED BY <1>1, FactsAlways, PTL

-----------------------------------------------------------------------------
(* What the fact set says, against what was assumed.                          *)

\* Nothing the code computes without a check leaves the word (`addScaled`,
\* `scaled`, `combMatch`): rewriting what may be assumed or asked and what was
\* assumed, negating an equation, and matching facts with a goal.
NothingWraps ==
  /\ \A e \in Inequalities : RewritingFits(eq, e, OwnOrder)
  /\ \A p \in Equations :
       RewritingFits(eq, Difference(p[1], p[2]), OwnOrder) /\ NegationFits(Solvable(p[1], p[2]))
  /\ \A i \in DOMAIN le : RewritingFits(eq, le[i], OwnOrder)
  /\ \A g \in Goals : RewritingFits(eq, g, OwnOrder) /\ ProofFits(ToSet(Substituted), FactSubstitute(eq, g))

\* The inequalities and the equations hold of a point.
Says(at) == (\A i \in DOMAIN le : ValueOf(le[i], at) <= 0) /\ Equal(eq, at)

\* A recorded assumption holds of a point.
Holds(r, is, at) == IF is = "eq" THEN ValueOf(r, at) = 0 ELSE ValueOf(r, at) <= 0

\* All that was assumed holds where it did before, and the new assumption with it.
LEMMA KeepTrue ==
  ASSUME NEW r, NEW is, Keep(r, is), NEW at
  PROVE  True(at)' <=> True(at) /\ Holds(r, is, at)
<1> DEFINE new == [row |-> r, is |-> is]
<1>1. assumed' = assumed \cup {new} /\ new.row = r /\ new.is = is
  BY DEF Keep
<1> DEFINE Of(a) == IF a.is = "eq" THEN ValueOf(a.row, at) = 0 ELSE ValueOf(a.row, at) <= 0
<1>2. True(at) <=> \A a \in assumed : Of(a)
  BY DEF True
<1>3. True(at)' <=> \A a \in assumed' : Of(a)
  BY DEF True
<1>4. Of(new) <=> Holds(r, is, at)
  BY <1>1 DEF Holds
<1> HIDE DEF Of, new
<1> QED BY <1>1, <1>2, <1>3, <1>4

\* Rewriting keeps a value exactly where the equations hold and nothing wraps.
LEMMA SubstituteExact ==
  ASSUME NEW es \in EquationSets, NEW e \in Linears, RewritingFits(es, e, OwnOrder),
         NEW at \in Points, Equal(es, at)
  PROVE  ValueOf(FactSubstitute(es, e), at) = ValueOf(e, at)
<1>1. TRUE \in BOOLEAN /\ (TRUE => RewritingFits(es, e, OwnOrder))
  OBVIOUS
<1>2. Near(TRUE, ValueOf(FactSubstitute(es, e), at), ValueOf(e, at))
  BY <1>1, SubstituteFacts
<1> QED BY <1>2 DEF Near

\* An inequality: the fact set says it, of a point, where it did before and the
\* row holds.
LEMMA AssumeLESays ==
  ASSUME FactsHold, NothingWraps, NEW e \in Inequalities, AssumeLE(e), NEW at \in Points
  PROVE  /\ True(at)' <=> True(at) /\ ValueOf(e, at) <= 0
         /\ Says(at)' <=> Says(at) /\ ValueOf(e, at) <= 0
<1> DEFINE f == FactSubstitute(eq, e)
<1>1. e \in Linears /\ f \in Linears /\ eq \in EquationSets /\ le \in Seq(Linears)
  BY LinearFactsAssumption, SubstituteFacts DEF FactsHold, FactsTyped
<1>2. Keep(e, "le") /\ le' = Append(le, f) /\ eq' = eq
  BY DEF AssumeLE
<1>3. Equal(eq, at) => ValueOf(f, at) = ValueOf(e, at)
  BY <1>1, SubstituteExact DEF NothingWraps
<1> HIDE DEF f
<1>4. /\ DOMAIN le = 1 .. Len(le) /\ DOMAIN le' = 1 .. Len(le) + 1 /\ Len(le) \in Nat
      /\ (\A i \in 1 .. Len(le) : le'[i] = le[i]) /\ le'[Len(le) + 1] = f
  BY <1>1, <1>2
<1>5. (\A i \in DOMAIN le' : ValueOf(le'[i], at) <= 0)
        <=> (\A i \in DOMAIN le : ValueOf(le[i], at) <= 0) /\ ValueOf(f, at) <= 0
  <2>1. \A i : i \in DOMAIN le' <=> i \in DOMAIN le \/ i = Len(le) + 1
    BY <1>4
  <2> QED BY <1>4, <2>1
<1>6. Says(at)' <=> (\A i \in DOMAIN le' : ValueOf(le'[i], at) <= 0) /\ Equal(eq, at)
  BY <1>2 DEF Says
<1>7. Holds(e, "le", at) <=> ValueOf(e, at) <= 0
  BY DEF Holds
<1> QED BY <1>2, <1>3, <1>5, <1>6, <1>7, KeepTrue DEF Says

\* An equation: the fact set says no less than it did and the row being 0, and no
\* more; an equation for a name that has one already is the one case that could
\* lose something.
LEMMA AssumeEQSays ==
  ASSUME FactsHold, NothingWraps, NEW p \in Equations, AssumeEQ(p[1], p[2]), NEW at \in Points
  PROVE  /\ True(at)' <=> True(at) /\ ValueOf(Difference(p[1], p[2]), at) = 0
         /\ Says(at) /\ ValueOf(Difference(p[1], p[2]), at) = 0 => Says(at)'
         /\ NamesOf(Solvable(p[1], p[2])) \cap DOMAIN eq = {} =>
              (Says(at)' => Says(at) /\ ValueOf(Difference(p[1], p[2]), at) = 0)
<1> DEFINE d == Difference(p[1], p[2])
           row == Solvable(p[1], p[2])
           x == p[1]
           e == p[2]
           left == Residue(row, x)
           LeftHolds == \A i \in DOMAIN left : ValueOf(left[i], at) <= 0
           Zero == ValueOf(d, at) = 0
<1>1. /\ x \in Names /\ d \in Linears /\ row \in Linears /\ eq \in EquationSets /\ le \in Seq(Linears)
  BY AssumedRows DEF FactsHold, FactsTyped
<1>2. /\ Keep(d, "eq") /\ le' = le \o left
      /\ \/ SolvedFor(row, x) = {} /\ eq' = eq
         \/ SolvedFor(row, x) # {} /\ eq' = Solved(eq, row, x, e)
  BY DEF AssumeEQ, NextVersion, Difference, Solvable
<1>3. RewritingFits(eq, d, OwnOrder) /\ NegationFits(row)
  BY DEF NothingWraps
<1>4. row = FactSubstitute(eq, d)
  BY DEF Solvable
<1>5. Holds(d, "eq", at) <=> Zero
  BY DEF Holds
<1>6. True(at)' <=> True(at) /\ Zero
  BY <1>2, <1>5, KeepTrue
<1> HIDE DEF d, row, x, e
<1>7. Equal(eq, at) => ValueOf(row, at) = ValueOf(d, at)
  BY <1>1, <1>3, <1>4, SubstituteExact
<1>8. /\ left \in Seq(Linears)
      /\ SolvedFor(row, x) # {} => left = <<>>
      /\ SolvedFor(row, x) = {} => (LeftHolds <=> ValueOf(row, at) = 0)
  BY <1>1, <1>3, ResidueFacts
<1> HIDE DEF left
<1>9. (\A i \in DOMAIN le' : ValueOf(le'[i], at) <= 0)
        <=> (\A i \in DOMAIN le : ValueOf(le[i], at) <= 0) /\ LeftHolds
  <2>1. /\ DOMAIN le = 1 .. Len(le) /\ Len(le) \in Nat /\ DOMAIN left = 1 .. Len(left) /\ Len(left) \in Nat
        /\ DOMAIN le' = 1 .. Len(le) + Len(left)
        /\ \A i \in 1 .. Len(le) + Len(left) : le'[i] = IF i <= Len(le) THEN le[i] ELSE left[i - Len(le)]
    BY <1>1, <1>2, <1>8
  <2>2. ASSUME \A i \in DOMAIN le' : ValueOf(le'[i], at) <= 0
        PROVE  (\A i \in DOMAIN le : ValueOf(le[i], at) <= 0) /\ LeftHolds
    <3>1. ASSUME NEW i \in DOMAIN le PROVE ValueOf(le[i], at) <= 0
      <4>1. i \in DOMAIN le' /\ le'[i] = le[i]
        BY <2>1
      <4> QED BY <2>2, <4>1
    <3>2. ASSUME NEW i \in DOMAIN left PROVE ValueOf(left[i], at) <= 0
      <4>1. Len(le) + i \in DOMAIN le' /\ le'[Len(le) + i] = left[i]
        BY <2>1
      <4> QED BY <2>2, <4>1
    <3> QED BY <3>1, <3>2
  <2>3. ASSUME \A i \in DOMAIN le : ValueOf(le[i], at) <= 0, LeftHolds, NEW i \in DOMAIN le'
        PROVE  ValueOf(le'[i], at) <= 0
    <3>1. CASE i <= Len(le)
      <4>1. i \in DOMAIN le /\ le'[i] = le[i]
        BY <2>1, <3>1
      <4> QED BY <2>3, <4>1
    <3>2. CASE ~(i <= Len(le))
      <4>1. i - Len(le) \in DOMAIN left /\ le'[i] = left[i - Len(le)]
        BY <2>1, <3>2
      <4> QED BY <2>3, <4>1
    <3> QED BY <3>1, <3>2
  <2> QED BY <2>2, <2>3
<1>10. Says(at)' <=> (\A i \in DOMAIN le : ValueOf(le[i], at) <= 0) /\ LeftHolds /\ Equal(eq', at)
  BY <1>9 DEF Says
<1>11. CASE SolvedFor(row, x) = {}
  <2>1. Equal(eq', at) <=> Equal(eq, at)
    BY <1>2, <1>11
  <2>2. LeftHolds <=> ValueOf(row, at) = 0
    BY <1>8, <1>11
  <2>3. Says(at)' <=> Says(at) /\ Zero
    BY <1>7, <1>10, <2>1, <2>2 DEF Says
  <2> QED BY <1>6, <2>3 DEF d, row
<1>12. CASE SolvedFor(row, x) # {}
  <2> DEFINE new == Solved(eq, row, x, e)
  <2>1. eq' = new /\ left = <<>>
    BY <1>2, <1>8, <1>12
  <2>2. LeftHolds
    BY <2>1
  <2>3. PICK v \in NamesOf(row) : SolvesFor(eq, row, v, new)
    BY <1>1, <1>12, SolvedKeeps
  <2>4. /\ DOMAIN new = DOMAIN eq \cup {v}
        /\ \A n \in DOMAIN eq : n # v => new[n] = eq[n]
        /\ at[v] = ValueOf(new[v], at) <=> ValueOf(row, at) = 0
    <3> HIDE DEF new
    <3> QED BY <1>3, <2>3 DEF SolvesFor
  <2>5. Equal(new, at) <=> \A n \in DOMAIN new : at[n] = ValueOf(new[n], at)
    BY DEF Equal
  <2> HIDE DEF new
  <2>6. ASSUME Says(at), Zero PROVE Says(at)'
    <3>1. Equal(eq, at) /\ ValueOf(row, at) = 0
      BY <1>7, <2>6 DEF Says
    <3>2. ASSUME NEW n \in DOMAIN new PROVE at[n] = ValueOf(new[n], at)
      BY <2>4, <3>1 DEF Equal
    <3> QED BY <1>10, <2>1, <2>2, <2>5, <2>6, <3>2 DEF Says
  <2>7. ASSUME NamesOf(row) \cap DOMAIN eq = {}, Says(at)' PROVE Says(at) /\ Zero
    <3>2. v \notin DOMAIN eq
      BY <2>3, <2>7
    <3>3. Equal(new, at) /\ \A i \in DOMAIN le : ValueOf(le[i], at) <= 0
      BY <1>10, <2>1, <2>7
    <3>4. Equal(eq, at)
      <4> SUFFICES ASSUME NEW n \in DOMAIN eq PROVE at[n] = ValueOf(eq[n], at)
        BY DEF Equal
      <4>1. n # v /\ n \in DOMAIN new
        BY <2>4, <3>2
      <4> QED BY <2>4, <2>5, <3>3, <4>1
    <3>5. ValueOf(row, at) = 0
      BY <2>4, <2>5, <3>3
    <3> QED BY <1>7, <3>3, <3>4, <3>5 DEF Says
  <2> QED BY <1>6, <2>6, <2>7 DEF d, row
<1> QED BY <1>11, <1>12

-----------------------------------------------------------------------------
(* Soundness: what is proved of a question.                                   *)

\* The fact set says no more than was assumed.
Kept == \A at \in Points : True(at) => Says(at)

\* What the last answer proved is true of all integers the assumptions allow.
AnswerSound == asked.proved => \A at \in Points : True(at) => ValueOf(asked.goal, at) <= 0

\* No step adds to what was assumed, and no answer goes beyond it.
LEMMA SoundStep ==
  ASSUME FactsHold, NothingWraps, Kept, AnswerSound, [FactsNext]_factVars
  PROVE  Kept' /\ AnswerSound'
<1>a. ASSUME NEW r, NEW is, Keep(r, is) PROVE AnswerSound'
  <2>1. asked'.proved = FALSE
    BY <1>a DEF Keep, NotAsked
  <2> QED BY <2>1 DEF AnswerSound
<1>1. ASSUME NEW e \in Inequalities, AssumeLE(e) PROVE Kept' /\ AnswerSound'
  <2>1. ASSUME NEW at \in Points, True(at)' PROVE Says(at)'
    BY <1>1, <2>1, AssumeLESays DEF Kept
  <2>2. Keep(e, "le")
    BY <1>1 DEF AssumeLE
  <2> QED BY <1>a, <2>1, <2>2 DEF Kept
<1>2. ASSUME NEW p \in Equations, AssumeEQ(p[1], p[2]) PROVE Kept' /\ AnswerSound'
  <2>1. ASSUME NEW at \in Points, True(at)' PROVE Says(at)'
    <3>1. True(at) /\ ValueOf(Difference(p[1], p[2]), at) = 0
      BY <1>2, <2>1, AssumeEQSays
    <3> QED BY <1>2, <3>1, AssumeEQSays DEF Kept
  <2>2. Keep(Difference(p[1], p[2]), "eq")
    BY <1>2 DEF AssumeEQ, Difference
  <2> QED BY <1>a, <2>1, <2>2 DEF Kept
<1>3. ASSUME NEW g \in Goals, Ask(g) PROVE Kept' /\ AnswerSound'
  <2> DEFINE h == FactSubstitute(eq, g)
             fs == ToSet(Fresh)
  <2>1. /\ UNCHANGED <<le, eq, assumed>>
        /\ asked' = [goal |-> g, proved |-> Proves(ToSet(Substituted), h)]
    BY <1>3 DEF Ask
  <2>2. Substituted = Fresh /\ Fresh \in Seq(Linears) /\ Len(Fresh) = Len(le)
    BY SubstitutedFresh DEF FactsHold
  <2>3. /\ g \in Linears /\ h \in Linears /\ h \in IntLinears /\ eq \in EquationSets /\ le \in Seq(Linears)
    BY LinearFactsAssumption, SubstituteFacts, Basics DEF FactsHold, FactsTyped
  <2>4. RewritingFits(eq, g, OwnOrder) /\ ProofFits(fs, h)
    BY <2>2 DEF NothingWraps
  <2>5. fs \subseteq IntLinears /\ IsFiniteSet(fs)
    <3>1. DOMAIN Fresh = 1 .. Len(Fresh) /\ Len(Fresh) \in Nat /\ \A i \in 1 .. Len(Fresh) : Fresh[i] \in Linears
      BY <2>2, Indices
    <3>2. IsFiniteSet(DOMAIN Fresh)
      BY <3>1, FS_Interval
    <3>3. Fresh = [i \in DOMAIN Fresh |-> Fresh[i]]
      BY <2>2
    <3>4. IsFiniteSet({Fresh[i] : i \in DOMAIN Fresh})
      BY <3>2, <3>3, ImageFinite
    <3>5. fs = {Fresh[i] : i \in DOMAIN Fresh}
      BY DEF ToSet
    <3> QED BY <3>1, <3>4, <3>5, Basics
  <2>6. ASSUME asked'.proved, NEW at \in Points, True(at) PROVE ValueOf(g, at) <= 0
    <3>1. Proves(fs, h)
      BY <2>1, <2>2, <2>6
    <3>2. Equal(eq, at) /\ \A i \in DOMAIN le : ValueOf(le[i], at) <= 0
      BY <2>6 DEF Kept, Says
    <3>3. ASSUME NEW i \in DOMAIN le PROVE ValueOf(Fresh[i], at) <= 0
      <4>1. le[i] \in Linears /\ RewritingFits(eq, le[i], OwnOrder)
        BY <2>3 DEF NothingWraps
      <4>2. ValueOf(FactSubstitute(eq, le[i]), at) = ValueOf(le[i], at)
        BY <2>3, <3>2, <4>1, SubstituteExact
      <4> QED BY <3>2, <4>2 DEF Fresh
    <3>4. Satisfied(fs, at)
      <4>1. DOMAIN Fresh = DOMAIN le
        BY DEF Fresh
      <4> QED BY <3>3, <4>1 DEF Satisfied, ToSet
    <3> HIDE DEF h, fs
    <3>5. ValueOf(h, at) <= 0
      BY <2>3, <2>4, <2>5, <3>1, <3>4, ProvesSound
    <3>6. ValueOf(h, at) = ValueOf(g, at)
      BY <2>3, <2>4, <3>2, SubstituteExact DEF h
    <3> QED BY <3>5, <3>6
  <2>7. \A at : True(at)' <=> True(at)
    BY <2>1 DEF True
  <2>8. \A at : Says(at)' <=> Says(at)
    BY <2>1 DEF Says
  <2>9. asked'.goal = g
    BY <2>1
  <2> QED BY <2>6, <2>7, <2>8, <2>9 DEF Kept, AnswerSound
<1>4. ASSUME UNCHANGED factVars PROVE Kept' /\ AnswerSound'
  BY <1>4 DEF factVars, Kept, AnswerSound, True, Says
<1> QED BY <1>1, <1>2, <1>3, <1>4 DEF FactsNext

\* Nothing is assumed and nothing said at the start.
LEMMA SoundStart == FactsInit => Kept /\ AnswerSound
<1> SUFFICES ASSUME FactsInit PROVE Kept /\ AnswerSound
  OBVIOUS
<1>1. DOMAIN le = {} /\ DOMAIN eq = {} /\ asked.proved = FALSE
  BY DEF FactsInit, NotAsked
<1>2. \A at : Says(at)
  BY <1>1 DEF Says, Equal
<1> QED BY <1>1, <1>2 DEF Kept, AnswerSound

\* The points the runs try are points.
LEMMA ValuationsArePoints == Valuations \subseteq Points
<1>1. -Reach..Reach \subseteq Int
  BY LinearFactsAssumption
<1> QED BY <1>1 DEF Valuations, Points

\* What is proved of a question is true of all integers that satisfy what was
\* assumed, whatever was assumed between, of whatever the equations eliminated,
\* and wherever the cache comes from (`entails`, `substituted`), as long as the
\* arithmetic the code does not check stays within the word.
THEOREM AnswersSound == FactsSpec /\ []NothingWraps => []AnswerSound
<1>1. FactsInit => FactsHold /\ Kept /\ AnswerSound
  BY FactsStart, SoundStart
<1>2. FactsHold /\ Kept /\ AnswerSound /\ NothingWraps /\ [FactsNext]_factVars
        => (FactsHold /\ Kept /\ AnswerSound)'
  BY FactsStep, SoundStep
<1> QED BY <1>1, <1>2, PTL DEF FactsSpec

\* So it is true of the values the run tries.
THEOREM EntailmentAlwaysSound == FactsSpec /\ []NothingWraps => []EntailmentSound
<1>1. AnswerSound => EntailmentSound
  BY ValuationsArePoints DEF AnswerSound, EntailmentSound
<1> QED BY <1>1, AnswersSound, PTL

-----------------------------------------------------------------------------
(* The solved form, and with it that nothing is lost.                         *)

\* Few equations in a solved form stay one: a new equation is for a name that has
\* none, and about names that have none, so it ranks last.
LEMMA SolvedFormStep ==
  ASSUME FactsHold, FewEquations(eq), SolvedForm(eq), [FactsNext]_factVars
  PROVE  SolvedForm(eq')
<1>1. CASE eq' = eq
  BY <1>1
<1>2. ASSUME NEW p \in Equations, AssumeEQ(p[1], p[2]), eq' # eq PROVE SolvedForm(eq')
  <2> DEFINE row == Solvable(p[1], p[2])
             d == Difference(p[1], p[2])
             x == p[1]
             new == Solved(eq, row, x, p[2])
             old == DOMAIN eq
             c == Cardinality(old)
  <2>1. x \in Names /\ d \in Linears /\ row \in Linears /\ eq \in EquationSets
    BY AssumedRows DEF FactsHold, FactsTyped
  <2>2. SolvedFor(row, x) # {} /\ eq' = new
    BY <1>2 DEF AssumeEQ, Solvable, Difference
  <2>3. NamesOf(row) \cap old = {}
    BY <2>1, SubstituteComplete DEF Solvable
  <2>4. old \subseteq Names /\ IsFiniteSet(old) /\ c \in Nat
    <3>1. IsFiniteSet(Names)
      BY Basics, FS_Interval
    <3> QED BY <2>1, <3>1, EquationFields, FS_Subset, FS_CardinalityType
  <2> HIDE DEF row, d, x
  <2>5. PICK v \in NamesOf(row) : SolvesFor(eq, row, v, new)
    BY <2>1, <2>2, SolvedKeeps
  <2>6. v \notin old
    BY <2>3
  <2>7. PICK rank : Ranked(eq, rank)
    BY DEF SolvedForm
  <2> HIDE DEF new
  <2>8. DOMAIN new = old \cup {v} /\ (\A n \in old : new[n] = eq[n]) /\ NamesOf(new[v]) \cap DOMAIN new = {}
    BY <2>3, <2>5, <2>6 DEF SolvesFor
  <2>9. Cardinality(DOMAIN new) = c + 1
    BY <2>4, <2>6, <2>8, FS_AddElement
  <2> DEFINE next == [n \in DOMAIN new |-> IF n = v THEN c + 1 ELSE rank[n]]
  <2>10. /\ \A n \in old : rank[n] \in 1 .. c
         /\ \A n \in old : \A m \in NamesOf(eq[n]) \cap old : rank[n] < rank[m]
    BY <2>7 DEF Ranked
  <2> HIDE DEF old, c
  <2>11. next \in [DOMAIN new -> 1 .. Cardinality(DOMAIN new)]
    <3>1. ASSUME NEW n \in DOMAIN new PROVE (IF n = v THEN c + 1 ELSE rank[n]) \in 1 .. c + 1
      <4>1. CASE n = v
        BY <2>4, <4>1
      <4>2. CASE n # v
        <5>1. rank[n] \in 1 .. c
          BY <2>8, <2>10, <4>2
        <5> QED BY <2>4, <4>2, <5>1
      <4> QED BY <4>1, <4>2
    <3> QED BY <2>9, <3>1
  <2>12. ASSUME NEW n \in DOMAIN new, NEW m \in NamesOf(new[n]) \cap DOMAIN new PROVE next[n] < next[m]
    <3>1. n # v /\ n \in old /\ next[n] = rank[n] /\ new[n] = eq[n]
      BY <2>8, <2>12
    <3>2. rank[n] \in 1 .. c
      BY <2>10, <3>1
    <3>3. CASE m = v
      BY <2>4, <2>12, <3>1, <3>2, <3>3
    <3>4. CASE m # v
      <4>1. m \in old /\ next[m] = rank[m]
        BY <2>8, <2>12, <3>4
      <4> QED BY <2>10, <2>12, <3>1, <4>1
    <3> QED BY <3>3, <3>4
  <2> HIDE DEF next
  <2>13. Ranked(new, next)
    BY <2>11, <2>12 DEF Ranked
  <2> QED BY <2>2, <2>13 DEF SolvedForm
<1>3. eq' = eq \/ \E p \in Equations : AssumeEQ(p[1], p[2]) /\ eq' # eq
  BY DEF FactsNext, factVars, AssumeLE, Ask
<1> QED BY <1>1, <1>2, <1>3

\* No equation is a solved form.
LEMMA SolvedFormStart == FactsInit => SolvedForm(eq)
<1> SUFFICES ASSUME FactsInit PROVE SolvedForm(eq)
  OBVIOUS
<1>1. DOMAIN eq = {}
  BY DEF FactsInit
<1>2. [n \in {} |-> 1] \in [{} -> 1 .. Cardinality({})]
  OBVIOUS
<1> QED BY <1>1, <1>2 DEF SolvedForm, Ranked

\* With few equations the equations are a solved form, at every step.
LEMMA SolvedFormAlways == FactsSpec /\ []FewEquations(eq) => []SolvedForm(eq)
<1> DEFINE F == FewEquations(eq)
           S == SolvedForm(eq)
<1>1. FactsInit => FactsHold /\ S
  BY FactsStart, SolvedFormStart
<1>2. FactsHold /\ F /\ S /\ [FactsNext]_factVars => (FactsHold /\ S)'
  BY FactsStep, SolvedFormStep
<1> HIDE DEF F, S
<1>3. FactsSpec /\ []F => []S
  BY <1>1, <1>2, PTL DEF FactsSpec
<1> QED BY <1>3 DEF F, S

\* An order the run tries meets every equation.
LEMMA OrdersMeet ==
  ASSUME eq \in EquationSets, NEW s \in Orders
  PROVE  s \in Seq(Names) /\ Meets(eq, s)
<1>1. DOMAIN eq \subseteq Names /\ IsFiniteSet(DOMAIN eq) /\ Cardinality(DOMAIN eq) \in Nat
  <2>1. IsFiniteSet(Names)
    BY Basics, FS_Interval
  <2> QED BY <2>1, EquationFields, FS_Subset, FS_CardinalityType
<1> DEFINE c == Cardinality(DOMAIN eq)
<1>2. s \in [1 .. c -> DOMAIN eq] /\ ToSet(s) = DOMAIN eq
  BY DEF Orders
<1> HIDE DEF c
<1>3. s \in [1 .. c -> Names] /\ c \in Nat
  BY <1>1, <1>2 DEF c
<1>4. s \in Seq(Names) /\ Len(s) = c /\ DOMAIN s = 1 .. c
  BY <1>3
<1>5. \A n \in DOMAIN eq : \E i \in 1 .. Len(s) : s[i] = n
  BY <1>2, <1>4 DEF ToSet
<1> QED BY <1>4, <1>5 DEF Meets

\* The order in which a pass meets the equations cannot be seen, whatever is
\* rewritten and whether or not the arithmetic wraps, with at most eight equations
\* (`substitute`, which ranges over a map eight times).
THEOREM OrderAlwaysUnseen == FactsSpec /\ []FewEquations(eq) => []OrderUnseen
<1> DEFINE F == FewEquations(eq)
           S == SolvedForm(eq)
<1>1. FactsHold /\ F /\ S => OrderUnseen
  <2> SUFFICES ASSUME FactsHold, F, S, NEW e \in Goals \cup Inequalities, NEW s \in Orders
               PROVE  Rewritten(eq, e, s) = FactSubstitute(eq, e)
    BY DEF OrderUnseen
  <2>1. e \in Linears /\ eq \in EquationSets
    BY LinearFactsAssumption DEF FactsHold, FactsTyped
  <2>2. s \in Seq(Names) /\ Meets(eq, s)
    BY <2>1, OrdersMeet
  <2> QED BY <2>1, <2>2, AnyOrder
<1>2. FactsSpec /\ []F => []S
  BY SolvedFormAlways
<1> HIDE DEF F, S
<1>3. FactsSpec /\ []F => []OrderUnseen
  BY <1>1, <1>2, FactsAlways, PTL
<1> QED BY <1>3 DEF F

\* The fact set says no less than was assumed.
Lossless == \A at \in Points : Says(at) => True(at)

\* No step loses what was assumed: an equation never takes the place of another.
LEMMA LosslessStep ==
  ASSUME FactsHold, NothingWraps, FewEquations(eq), SolvedForm(eq), Lossless, [FactsNext]_factVars
  PROVE  Lossless'
<1>1. ASSUME NEW e \in Inequalities, AssumeLE(e), NEW at \in Points, Says(at)' PROVE True(at)'
  BY <1>1, AssumeLESays DEF Lossless
<1>2. ASSUME NEW p \in Equations, AssumeEQ(p[1], p[2]), NEW at \in Points, Says(at)' PROVE True(at)'
  <2>1. Difference(p[1], p[2]) \in Linears /\ eq \in EquationSets
    BY AssumedRows DEF FactsHold, FactsTyped
  <2>2. NamesOf(Solvable(p[1], p[2])) \cap DOMAIN eq = {}
    BY <2>1, SubstituteComplete DEF Solvable
  <2>3. Says(at) /\ ValueOf(Difference(p[1], p[2]), at) = 0
    BY <1>2, <2>2, AssumeEQSays
  <2> QED BY <1>2, <2>3, AssumeEQSays DEF Lossless
<1>3. ASSUME UNCHANGED <<le, eq, assumed>>, NEW at \in Points, Says(at)' PROVE True(at)'
  <2>1. Says(at)
    BY <1>3 DEF Says
  <2>2. True(at)
    BY <2>1 DEF Lossless
  <2> QED BY <1>3, <2>2 DEF True
<1>4. \/ UNCHANGED <<le, eq, assumed>>
      \/ \E e \in Inequalities : AssumeLE(e)
      \/ \E p \in Equations : AssumeEQ(p[1], p[2])
  BY DEF FactsNext, factVars, Ask
<1> QED BY <1>1, <1>2, <1>3, <1>4 DEF Lossless

\* The inequalities and the solved form say exactly what was assumed, of all
\* integers: no assumption is lost by a later one about the same name and none is
\* added, where nothing wraps and the equations are at most eight (`assumeLE`,
\* `assumeEQ`).
SaysExactly == \A at \in Points : True(at) <=> Says(at)
THEOREM NothingLost == FactsSpec /\ []NothingWraps /\ []FewEquations(eq) => []SaysExactly
<1> DEFINE F == FewEquations(eq)
           S == SolvedForm(eq)
           I == FactsHold /\ S /\ Kept /\ AnswerSound /\ Lossless
<1>1. FactsInit => I
  <2>1. FactsInit => Lossless
    BY DEF FactsInit, Lossless, True
  <2> QED BY <2>1, FactsStart, SoundStart, SolvedFormStart
<1>2. I /\ NothingWraps /\ F /\ [FactsNext]_factVars => I'
  <2>1. I /\ NothingWraps /\ F /\ [FactsNext]_factVars => FactsHold' /\ Kept' /\ AnswerSound'
    BY FactsStep, SoundStep
  <2>2. I /\ NothingWraps /\ F /\ [FactsNext]_factVars => S'
    BY SolvedFormStep
  <2>3. I /\ NothingWraps /\ F /\ [FactsNext]_factVars => Lossless'
    BY LosslessStep
  <2> HIDE DEF F, S
  <2> QED BY <2>1, <2>2, <2>3
<1>3. I => SaysExactly
  BY DEF Kept, Lossless, SaysExactly
<1> HIDE DEF F, I
<1>4. FactsSpec /\ []NothingWraps /\ []F => []SaysExactly
  BY <1>1, <1>2, <1>3, PTL DEF FactsSpec
<1> QED BY <1>4 DEF F

\* So they do of the values the run tries.
THEOREM FactsAlwaysKept == FactsSpec /\ []NothingWraps /\ []FewEquations(eq) => []FactsKept
<1> DEFINE F == FewEquations(eq)
<1>1. SaysExactly => FactsKept
  BY ValuationsArePoints DEF SaysExactly, FactsKept, Says, Equal
<1>2. FactsSpec /\ []NothingWraps /\ []F => []SaysExactly
  BY NothingLost
<1> HIDE DEF F
<1>3. FactsSpec /\ []NothingWraps /\ []F => []FactsKept
  BY <1>1, <1>2, PTL
<1> QED BY <1>3 DEF F

\* Where no more than eight names are spoken of, there are never more equations.
THEOREM EightNames == FactsSpec /\ NumNames <= 8 => []FewEquations(eq)
<1> SUFFICES ASSUME NumNames <= 8 PROVE FactsSpec => []FewEquations(eq)
  OBVIOUS
<1>1. FactsHold => FewEquations(eq)
  <2> SUFFICES ASSUME FactsHold PROVE Cardinality(DOMAIN eq) <= 8
    BY DEF FewEquations
  <2>1. DOMAIN eq \subseteq Names
    BY EquationFields DEF FactsHold, FactsTyped
  <2>2. IsFiniteSet(Names) /\ Cardinality(Names) = NumNames
    BY Basics, FS_Interval
  <2>3. Cardinality(DOMAIN eq) <= Cardinality(Names) /\ Cardinality(DOMAIN eq) \in Nat
    BY <2>1, <2>2, FS_Subset, FS_CardinalityType
  <2> QED BY <2>2, <2>3, Basics
<1> QED BY <1>1, FactsAlways, PTL
=============================================================================
