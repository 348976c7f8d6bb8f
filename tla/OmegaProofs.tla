----------------------------- MODULE OmegaProofs -----------------------------
(***************************************************************************)
(* Proofs about the Omega test, for every question, every number of        *)
(* variables, every word and every budget.                                 *)
(*                                                                         *)
(* An answer is right: "sat" only where some integers satisfy the          *)
(* question, "unsat" only where none do.  Each step of the procedure       *)
(* either keeps whether the conjunction has a solution (normalising,       *)
(* eliminating an equality, dropping a variable bounded on one side, an    *)
(* exact shadow), or sets the conjunction aside for one whose answer       *)
(* settles it: the dark shadow proves a solution, the real shadow refutes  *)
(* one, and the splinters cover what is between.  The inductive invariant  *)
(* says of every conjunction on the stack what the answer to the one above *)
(* it will mean for it.                                                    *)
(***************************************************************************)
EXTENDS Omega, WellFoundedInduction, TLAPS

-----------------------------------------------------------------------------
(* Natural numbers, by sets for what is shown and functions for steps.        *)

\* A nonempty set of natural numbers has a least one.
LEMMA LeastNatural ==
  ASSUME NEW S, S \subseteq Nat, S # {}
  PROVE  \E n \in S : \A m \in S : n <= m
<1>1. PICK n \in S : \A m \in S : ~(<<m, n>> \in OpToRel(<, Nat))
  BY NatLessThanWellFounded, WFMin
<1>2. ASSUME NEW m \in S PROVE n <= m
  <2>1. n \in Nat /\ m \in Nat
    OBVIOUS
  <2>2. ~(m < n)
    BY <1>1, <2>1 DEF OpToRel
  <2> QED BY <2>1, <2>2
<1> QED BY <1>2

\* What holds of 0, and of the next number when it holds of one, holds up to n.
LEMMA UpTo ==
  ASSUME NEW n \in Nat, NEW A, 0 \in A, \A m \in 0 .. n - 1 : m \in A => m + 1 \in A
  PROVE  \A m \in 0 .. n : m \in A
<1> DEFINE S == {m \in 0 .. n : m \notin A}
<1> SUFFICES ASSUME S # {} PROVE FALSE
  OBVIOUS
<1>1. PICK m \in S : \A k \in S : m <= k
  <2>1. S \subseteq Nat
    OBVIOUS
  <2> HIDE DEF S
  <2> QED BY <2>1, LeastNatural
<1>2. m \in 0 .. n /\ m \notin A /\ m # 0
  BY <1>1
<1>3. m - 1 \in 0 .. n - 1 /\ m - 1 \notin S
  BY <1>1, <1>2
<1>4. m - 1 \in A /\ (m - 1) + 1 = m
  BY <1>2, <1>3
<1> QED BY <1>2, <1>3, <1>4

Steps(n, S) == [1 .. n -> [S -> S]]

\* A function by recursion: its first value, and a step from each to the next.
Recursive(n, S, a, F) ==
  \E h \in [0 .. n -> S] : h[0] = a /\ \A m \in 1 .. n : h[m] = F[m][h[m - 1]]

\* Every first value in a set and steps within it define such a function.
LEMMA Recursion ==
  ASSUME NEW n, NEW S, NEW a, NEW F, n \in Nat, a \in S, F \in Steps(n, S)
  PROVE  Recursive(n, S, a, F)
<1> USE DEF Steps, Recursive
<1> DEFINE Good(m, h) == h[0] = a /\ \A i \in 1 .. m : h[i] = F[i][h[i - 1]]
           A == {m \in 0 .. n : \E h \in [0 .. n -> S] : Good(m, h)}
<1>1. 0 \in A
  <2> DEFINE h == [i \in 0 .. n |-> a]
  <2>1. h \in [0 .. n -> S] /\ Good(0, h)
    OBVIOUS
  <2>2. 0 \in 0 .. n
    OBVIOUS
  <2> HIDE DEF h, Good
  <2> QED BY <2>1, <2>2
<1>2. ASSUME NEW m \in 0 .. n - 1, m \in A PROVE m + 1 \in A
  <2>1. PICK h \in [0 .. n -> S] : Good(m, h)
    BY <1>2
  <2> DEFINE g == [h EXCEPT ![m + 1] = F[m + 1][h[m]]]
  <2>2. m \in 0 .. n /\ m + 1 \in 1 .. n /\ m + 1 \in 0 .. n /\ h[m] \in S
    OBVIOUS
  <2>3. F[m + 1][h[m]] \in S
    BY <2>2
  <2>4. g \in [0 .. n -> S]
    BY <2>2, <2>3
  <2>5. g[m + 1] = F[m + 1][h[m]] /\ \A i \in 0 .. m : g[i] = h[i]
    BY <2>2
  <2> HIDE DEF g
  <2>6. g[0] = a
    BY <2>1, <2>5, <2>2
  <2>7. ASSUME NEW i \in 1 .. m + 1 PROVE g[i] = F[i][g[i - 1]]
    <3>1. CASE i = m + 1
      <4>1. i - 1 = m /\ g[m] = h[m]
        BY <3>1, <2>2, <2>5
      <4> QED BY <3>1, <4>1, <2>5
    <3>2. CASE i # m + 1
      <4>1. i \in 1 .. m /\ i \in 0 .. m /\ i - 1 \in 0 .. m
        BY <3>2
      <4> QED BY <4>1, <2>1, <2>5
    <3> QED BY <3>1, <3>2
  <2> QED BY <2>2, <2>4, <2>6, <2>7
<1>3. \A m \in 0 .. n : m \in A
  <2> HIDE DEF A
  <2> QED BY <1>1, <1>2, UpTo
<1>4. n \in 0 .. n
  OBVIOUS
<1> QED BY <1>3, <1>4

\* Division by m rounds down, of a negative integer too.
LEMMA DivMod ==
  ASSUME NEW m \in Nat, m > 0, NEW n \in Int
  PROVE  n \div m \in Int /\ n % m \in 0 .. m - 1 /\ n = m * (n \div m) + (n % m)
<1>1. n % m \in 0 .. m - 1
  BY SMT
<1>2. n \div m \in Int
  BY SMT
<1>3. n = m * (n \div m) + (n % m)
  BY SMT
<1> QED
  BY <1>1, <1>2, <1>3

\* A quotient and a remainder are the only ones.
LEMMA DivModUnique ==
  ASSUME NEW m \in Nat, m > 0, NEW q \in Int, NEW r \in 0 .. m - 1
  PROVE  (m * q + r) % m = r /\ (m * q + r) \div m = q
<1> DEFINE n == m * q + r
           d == n \div m
           e == n % m
<1>1. n \in Int
  BY SMT
<1>2. d \in Int /\ e \in 0 .. m - 1 /\ n = m * d + e
  BY <1>1, DivMod
<1> HIDE DEF d, e
<1>3. m * (q - d) = e - r
  BY <1>2, SMT
<1>4. q - d < 1
  <2> SUFFICES ASSUME q - d >= 1 PROVE FALSE
    BY <1>2, SMT
  <2>1. m * (q - d) >= m
    BY <1>2, SMT
  <2> QED
    BY <2>1, <1>2, <1>3, SMT
<1>5. q - d > -1
  <2> SUFFICES ASSUME d - q >= 1 PROVE FALSE
    BY <1>2, SMT
  <2>1. m * (d - q) >= m
    BY <1>2, SMT
  <2>2. m * (d - q) = r - e
    BY <1>2, <1>3, SMT
  <2> QED
    BY <2>1, <2>2, <1>2, SMT
<1>6. q = d
  BY <1>2, <1>4, <1>5, SMT
<1>7. r = e
  BY <1>2, <1>6, SMT
<1> QED
  BY <1>6, <1>7 DEF d, e

\* Finitely many integers have a bound.
LEMMA BoundOfMany ==
  ASSUME NEW n \in Nat, NEW f, \A i \in 1 .. n : f[i] \in Int
  PROVE  \E b \in Nat : \A i \in 1 .. n : f[i] <= b /\ -f[i] <= b
<1> DEFINE A == {m \in 0 .. n : \E b \in Nat : \A i \in 1 .. m : f[i] <= b /\ -f[i] <= b}
<1>1. 0 \in A
  OBVIOUS
<1>2. ASSUME NEW m \in 0 .. n - 1, m \in A PROVE m + 1 \in A
  <2>1. PICK b \in Nat : \A i \in 1 .. m : f[i] <= b /\ -f[i] <= b
    BY <1>2
  <2>2. m + 1 \in 1 .. n /\ m + 1 \in 0 .. n /\ f[m + 1] \in Int
    OBVIOUS
  <2>3. PICK d \in Nat : f[m + 1] <= d /\ -f[m + 1] <= d
    <3>1. CASE f[m + 1] >= 0
      <4>1. f[m + 1] \in Nat /\ f[m + 1] <= f[m + 1] /\ -f[m + 1] <= f[m + 1]
        BY <2>2, <3>1
      <4> QED BY <4>1
    <3>2. CASE f[m + 1] < 0
      <4>1. -f[m + 1] \in Nat /\ f[m + 1] <= -f[m + 1] /\ -f[m + 1] <= -f[m + 1]
        BY <2>2, <3>2
      <4> QED BY <4>1
    <3> QED BY <2>2, <3>1, <3>2
  <2>4. \A i \in 1 .. m + 1 : f[i] <= b + d /\ -f[i] <= b + d
    <3> SUFFICES ASSUME NEW i \in 1 .. m + 1 PROVE f[i] <= b + d /\ -f[i] <= b + d
      OBVIOUS
    <3>1. f[i] \in Int
      OBVIOUS
    <3>2. CASE i = m + 1
      BY <2>3, <3>1, <3>2
    <3>3. CASE i # m + 1
      BY <2>1, <3>1, <3>3
    <3> QED BY <3>2, <3>3
  <2>5. b + d \in Nat
    OBVIOUS
  <2> QED BY <2>2, <2>4, <2>5
<1>3. n \in A
  <2> HIDE DEF A
  <2>1. n \in 0 .. n
    OBVIOUS
  <2> QED BY <1>1, <1>2, <2>1, UpTo
<1> QED BY <1>3

\* A nonempty set of integers with a bound below has a least one.
LEMMA LeastInteger ==
  ASSUME NEW S, S \subseteq Int, S # {}, NEW b \in Int, \A n \in S : b <= n
  PROVE  \E n \in S : \A m \in S : n <= m
<1> DEFINE T == {n - b : n \in S}
<1>1. T \subseteq Nat /\ T # {}
  <2>1. ASSUME NEW n \in S PROVE n - b \in Nat
    <3>1. n \in Int /\ b <= n
      OBVIOUS
    <3> QED BY <3>1
  <2> QED BY <2>1
<1>2. PICK d \in T : \A e \in T : d <= e
  <2> HIDE DEF T
  <2> QED BY <1>1, LeastNatural
<1>3. PICK n \in S : d = n - b
  BY <1>2
<1>4. ASSUME NEW m \in S PROVE n <= m
  <2>1. m - b \in T
    OBVIOUS
  <2>2. n - b <= m - b /\ n \in Int /\ m \in Int
    BY <1>2, <1>3, <2>1
  <2> QED BY <2>2
<1> QED BY <1>4

\* A nonempty set of integers with a bound above has a greatest one.
LEMMA GreatestInteger ==
  ASSUME NEW S, S \subseteq Int, S # {}, NEW b \in Int, \A n \in S : n <= b
  PROVE  \E n \in S : \A m \in S : m <= n
<1> DEFINE T == {-n : n \in S}
<1>1. T \subseteq Int /\ T # {} /\ -b \in Int /\ \A d \in T : -b <= d
  <2>1. ASSUME NEW n \in S PROVE -n \in Int /\ -b <= -n
    <3>1. n \in Int /\ n <= b
      OBVIOUS
    <3> QED BY <3>1
  <2>2. -b \in Int /\ T # {}
    <3>1. PICK n \in S : TRUE
      OBVIOUS
    <3>2. -n \in T
      OBVIOUS
    <3>3. -b \in Int
      OBVIOUS
    <3> QED BY <3>2, <3>3
  <2>3. ASSUME NEW d \in T PROVE d \in Int /\ -b <= d
    <3>1. PICK n \in S : d = -n
      OBVIOUS
    <3> QED BY <2>1, <3>1
  <2> QED BY <2>2, <2>3
<1>2. PICK d \in T : \A e \in T : d <= e
  <2> HIDE DEF T
  <2> QED BY <1>1, LeastInteger
<1>3. PICK n \in S : d = -n
  BY <1>2
<1>4. ASSUME NEW m \in S PROVE m <= n
  <2>1. -m \in T
    OBVIOUS
  <2>2. -n <= -m /\ n \in Int /\ m \in Int
    BY <1>2, <1>3, <2>1
  <2> QED BY <2>2
<1> QED BY <1>4

-----------------------------------------------------------------------------
(* Sums of products.                                                          *)

\* Numbers at 1..n.
Vector(n, c) == \A x \in 1 .. n : c[x] \in Int

\* The partial sums.
Partial(n, c, a, h) == h[0] = 0 /\ \A m \in 1 .. n : h[m] = h[m - 1] + c[m] * a[m]

\* The sum is the last of the partial sums.
LEMMA DotFacts ==
  ASSUME NEW n \in Nat, NEW c, NEW a, Vector(n, c), Vector(n, a)
  PROVE  \E h \in [0 .. n -> Int] : Partial(n, c, a, h) /\ Dot(n, c, a) = h[n]
<1> DEFINE Law(h) == [m \in 0 .. n |-> IF m = 0 THEN 0 ELSE h[m - 1] + c[m] * a[m]]
           F == [m \in 1 .. n |-> [s \in Int |-> s + c[m] * a[m]]]
           sum == CHOOSE h : h = Law(h)
<1>1. n \in 0 .. n
  OBVIOUS
<1>2. Dot(n, c, a) = sum[n]
  BY DEF Dot
<1>3. \A m \in 1 .. n : c[m] * a[m] \in Int
  BY DEF Vector
<1>4. F \in Steps(n, Int)
  BY <1>3 DEF Steps
<1>5. \A m \in 1 .. n : \A s \in Int : F[m][s] = s + c[m] * a[m]
  OBVIOUS
<1>6. 0 \in Int
  OBVIOUS
<1> HIDE DEF F
<1>7. PICK h \in [0 .. n -> Int] : h[0] = 0 /\ \A m \in 1 .. n : h[m] = F[m][h[m - 1]]
  <2> DEFINE S == Int
             z == 0
  <2>1. F \in Steps(n, S) /\ z \in S
    BY <1>4, <1>6
  <2> HIDE DEF S, z
  <2>2. Recursive(n, S, z, F)
    BY <2>1, Recursion
  <2> QED BY <2>2 DEF Recursive, S, z
<1>8. \A m \in 1 .. n : m - 1 \in 0 .. n /\ h[m - 1] \in Int
  OBVIOUS
<1>9. h[0] = 0 /\ \A m \in 1 .. n : h[m] = h[m - 1] + c[m] * a[m]
  BY <1>5, <1>7, <1>8
<1>10. h = Law(h)
  <2>1. \A m \in 0 .. n : h[m] = IF m = 0 THEN 0 ELSE h[m - 1] + c[m] * a[m]
    BY <1>9
  <2> QED BY <2>1
<1>11. sum = Law(sum)
  <2> HIDE DEF Law
  <2> QED BY <1>10
<1> HIDE DEF sum
<1>12. \A m \in 0 .. n : sum[m] = IF m = 0 THEN 0 ELSE sum[m - 1] + c[m] * a[m]
  BY <1>11
<1> DEFINE A == {m \in 0 .. n : sum[m] = h[m]}
<1>13. 0 \in A
  BY <1>9, <1>12
<1>14. ASSUME NEW m \in 0 .. n - 1, m \in A PROVE m + 1 \in A
  <2>1. m + 1 \in 1 .. n /\ m + 1 \in 0 .. n /\ (m + 1) - 1 = m /\ m + 1 # 0
    OBVIOUS
  <2>2. sum[m + 1] = sum[m] + c[m + 1] * a[m + 1]
    BY <1>12, <2>1
  <2>3. h[m + 1] = h[m] + c[m + 1] * a[m + 1]
    BY <1>9, <2>1
  <2> QED BY <1>14, <2>1, <2>2, <2>3
<1>15. n \in A
  <2> HIDE DEF A
  <2>1. n \in 0 .. n
    OBVIOUS
  <2> QED BY <1>13, <1>14, <2>1, UpTo
<1> QED BY <1>2, <1>9, <1>15 DEF Partial

\* It is an integer.
LEMMA DotType ==
  ASSUME NEW n \in Nat, NEW c, NEW a, Vector(n, c), Vector(n, a)
  PROVE  Dot(n, c, a) \in Int
BY DotFacts

\* It is linear in the first vector.
LEMMA DotLinear ==
  ASSUME NEW n \in Nat, NEW c, NEW d, NEW e, NEW a, NEW u \in Int, NEW v \in Int,
         Vector(n, c), Vector(n, d), Vector(n, e), Vector(n, a),
         \A x \in 1 .. n : c[x] = u * d[x] + v * e[x]
  PROVE  Dot(n, c, a) = u * Dot(n, d, a) + v * Dot(n, e, a)
<1>1. PICK h \in [0 .. n -> Int] : Partial(n, c, a, h) /\ Dot(n, c, a) = h[n]
  BY DotFacts
<1>2. PICK f \in [0 .. n -> Int] : Partial(n, d, a, f) /\ Dot(n, d, a) = f[n]
  BY DotFacts
<1>3. PICK g \in [0 .. n -> Int] : Partial(n, e, a, g) /\ Dot(n, e, a) = g[n]
  BY DotFacts
<1>0. /\ h[0] = 0 /\ \A m \in 1 .. n : h[m] = h[m - 1] + c[m] * a[m]
      /\ f[0] = 0 /\ \A m \in 1 .. n : f[m] = f[m - 1] + d[m] * a[m]
      /\ g[0] = 0 /\ \A m \in 1 .. n : g[m] = g[m - 1] + e[m] * a[m]
  BY <1>1, <1>2, <1>3 DEF Partial
<1> DEFINE A == {m \in 0 .. n : h[m] = u * f[m] + v * g[m]}
<1>4. 0 \in A
  BY <1>0
<1>5. ASSUME NEW m \in 0 .. n - 1, m \in A PROVE m + 1 \in A
  <2>1. m + 1 \in 1 .. n /\ m + 1 \in 0 .. n /\ (m + 1) - 1 = m /\ m \in 0 .. n
    OBVIOUS
  <2> DEFINE cx == c[m + 1]
             dx == d[m + 1]
             ex == e[m + 1]
             ax == a[m + 1]
             fm == f[m]
             gm == g[m]
  <2>2. cx \in Int /\ dx \in Int /\ ex \in Int /\ ax \in Int /\ fm \in Int /\ gm \in Int
    BY <2>1 DEF Vector
  <2>3. h[m] = u * fm + v * gm /\ cx = u * dx + v * ex
    BY <1>5, <2>1
  <2>4. h[m + 1] = h[m] + cx * ax /\ f[m + 1] = fm + dx * ax /\ g[m + 1] = gm + ex * ax
    BY <1>0, <2>1
  <2> HIDE DEF cx, dx, ex, ax, fm, gm
  <2>5. (u * dx + v * ex) * ax = u * (dx * ax) + v * (ex * ax)
    BY <2>2
  <2>6. dx * ax \in Int /\ ex * ax \in Int
    BY <2>2
  <2>7. u * (fm + dx * ax) = u * fm + u * (dx * ax)
    BY <2>2, <2>6
  <2>8. v * (gm + ex * ax) = v * gm + v * (ex * ax)
    BY <2>2, <2>6
  <2>9. u * fm \in Int /\ v * gm \in Int /\ u * (dx * ax) \in Int /\ v * (ex * ax) \in Int
    BY <2>2, <2>6
  <2>10. h[m + 1] = (u * fm + v * gm) + (u * (dx * ax) + v * (ex * ax))
    BY <2>3, <2>4, <2>5
  <2>11. u * f[m + 1] + v * g[m + 1] = (u * fm + u * (dx * ax)) + (v * gm + v * (ex * ax))
    BY <2>4, <2>7, <2>8
  <2>12. h[m + 1] = u * f[m + 1] + v * g[m + 1]
    BY <2>9, <2>10, <2>11
  <2> QED BY <2>1, <2>12
<1>6. n \in A
  <2> HIDE DEF A
  <2>1. n \in 0 .. n
    OBVIOUS
  <2> QED BY <1>4, <1>5, <2>1, UpTo
<1> QED BY <1>1, <1>2, <1>3, <1>6

\* The same but at z.
SameBut(n, z, a, b) == \A x \in 1 .. n : x # z => b[x] = a[x]

\* Changing the second vector at one place.
LEMMA DotChange ==
  ASSUME NEW n \in Nat, NEW c, NEW a, NEW b, NEW z \in 1 .. n,
         Vector(n, c), Vector(n, a), Vector(n, b), SameBut(n, z, a, b)
  PROVE  Dot(n, c, b) = Dot(n, c, a) + c[z] * (b[z] - a[z])
<1>1. PICK f \in [0 .. n -> Int] : Partial(n, c, a, f) /\ Dot(n, c, a) = f[n]
  BY DotFacts
<1>2. PICK g \in [0 .. n -> Int] : Partial(n, c, b, g) /\ Dot(n, c, b) = g[n]
  BY DotFacts
<1>0. /\ f[0] = 0 /\ \A m \in 1 .. n : f[m] = f[m - 1] + c[m] * a[m]
      /\ g[0] = 0 /\ \A m \in 1 .. n : g[m] = g[m - 1] + c[m] * b[m]
  BY <1>1, <1>2 DEF Partial
<1> DEFINE change == c[z] * (b[z] - a[z])
           A == {m \in 0 .. n : g[m] = f[m] + (IF m < z THEN 0 ELSE change)}
<1>3. change \in Int /\ c[z] * b[z] = c[z] * a[z] + change /\ c[z] * a[z] \in Int
  <2> DEFINE cz == c[z]
             bz == b[z]
             az == a[z]
  <2>1. cz \in Int /\ bz \in Int /\ az \in Int
    BY DEF Vector
  <2> HIDE DEF cz, bz, az
  <2>2. cz * (bz - az) \in Int /\ cz * bz = cz * az + cz * (bz - az) /\ cz * az \in Int
    BY <2>1
  <2> QED BY <2>2 DEF cz, bz, az
<1> HIDE DEF change
<1>4. 0 \in A
  BY <1>0
<1>5. ASSUME NEW m \in 0 .. n - 1, m \in A PROVE m + 1 \in A
  <2>1. m + 1 \in 1 .. n /\ m + 1 \in 0 .. n /\ (m + 1) - 1 = m /\ m \in 0 .. n
    OBVIOUS
  <2>2. f[m] \in Int /\ g[m] = f[m] + (IF m < z THEN 0 ELSE change)
    BY <1>5, <2>1
  <2>3. f[m + 1] = f[m] + c[m + 1] * a[m + 1] /\ g[m + 1] = g[m] + c[m + 1] * b[m + 1]
    BY <1>0, <2>1
  <2>4. c[m + 1] * a[m + 1] \in Int
    BY <2>1 DEF Vector
  <2>5. CASE m + 1 = z
    <3>1. m < z /\ ~(m + 1 < z)
      BY <2>1, <2>5
    <3>2. c[m + 1] * b[m + 1] = c[m + 1] * a[m + 1] + change
      BY <1>3, <2>5
    <3> QED BY <1>3, <2>1, <2>2, <2>3, <2>4, <3>1, <3>2
  <2>6. CASE m + 1 # z
    <3>1. (m < z <=> m + 1 < z) /\ b[m + 1] = a[m + 1]
      BY <2>1, <2>6 DEF SameBut
    <3> QED BY <1>3, <2>1, <2>2, <2>3, <2>4, <3>1
  <2> QED BY <2>5, <2>6
<1>6. n \in A
  <2> HIDE DEF A
  <2>1. n \in 0 .. n
    OBVIOUS
  <2> QED BY <1>4, <1>5, <2>1, UpTo
<1>7. ~(n < z)
  OBVIOUS
<1> QED BY <1>1, <1>2, <1>6, <1>7 DEF change

\* Only at z is a number other than 0.
OnlyAt(n, z, c) == \A x \in 1 .. n : x # z => c[x] = 0

\* A vector with one number.
LEMMA DotPoint ==
  ASSUME NEW n \in Nat, NEW c, NEW a, NEW z \in 1 .. n, Vector(n, c), Vector(n, a), OnlyAt(n, z, c)
  PROVE  Dot(n, c, a) = c[z] * a[z]
<1>1. PICK f \in [0 .. n -> Int] : Partial(n, c, a, f) /\ Dot(n, c, a) = f[n]
  BY DotFacts
<1>0. /\ f[0] = 0 /\ \A m \in 1 .. n : f[m] = f[m - 1] + c[m] * a[m]
  BY <1>1 DEF Partial
<1> DEFINE A == {m \in 0 .. n : f[m] = IF m < z THEN 0 ELSE c[z] * a[z]}
<1>2. 0 \in A
  BY <1>0
<1>3. ASSUME NEW m \in 0 .. n - 1, m \in A PROVE m + 1 \in A
  <2>1. m + 1 \in 1 .. n /\ m + 1 \in 0 .. n /\ (m + 1) - 1 = m /\ m \in 0 .. n
    OBVIOUS
  <2>2. f[m] \in Int /\ f[m] = IF m < z THEN 0 ELSE c[z] * a[z]
    BY <1>3, <2>1
  <2>3. f[m + 1] = f[m] + c[m + 1] * a[m + 1] /\ a[m + 1] \in Int /\ c[m + 1] * a[m + 1] \in Int
    BY <1>0, <2>1 DEF Vector
  <2>4. CASE m + 1 = z
    <3>1. m < z /\ ~(m + 1 < z)
      BY <2>1, <2>4
    <3>2. f[m + 1] = c[z] * a[z]
      BY <2>2, <2>3, <2>4, <3>1
    <3> QED BY <2>1, <3>1, <3>2
  <2>5. CASE m + 1 # z
    <3>1. (m < z <=> m + 1 < z) /\ c[m + 1] = 0
      BY <2>1, <2>5 DEF OnlyAt
    <3>2. c[m + 1] * a[m + 1] = 0
      BY <2>3, <3>1
    <3> QED BY <2>1, <2>2, <2>3, <3>1, <3>2
  <2> QED BY <2>4, <2>5
<1>4. n \in A
  <2> HIDE DEF A
  <2>1. n \in 0 .. n
    OBVIOUS
  <2> QED BY <1>2, <1>3, <2>1, UpTo
<1>5. ~(n < z)
  OBVIOUS
<1> QED BY <1>1, <1>4, <1>5

\* Places where the first vector is 0 do not count.
LEMMA DotShort ==
  ASSUME NEW n \in Nat, NEW s \in 0 .. n, NEW c, NEW a, NEW b, Vector(n, c), Vector(s, a), Vector(n, b),
         \A x \in 1 .. s : b[x] = a[x], \A x \in s + 1 .. n : c[x] = 0
  PROVE  Dot(n, c, b) = Dot(s, c, a)
<1>0. Vector(s, c) /\ s \in Nat
  BY DEF Vector
<1>1. PICK f \in [0 .. s -> Int] : Partial(s, c, a, f) /\ Dot(s, c, a) = f[s]
  BY <1>0, DotFacts
<1>2. PICK g \in [0 .. n -> Int] : Partial(n, c, b, g) /\ Dot(n, c, b) = g[n]
  BY DotFacts
<1>7. /\ f[0] = 0 /\ \A m \in 1 .. s : f[m] = f[m - 1] + c[m] * a[m]
      /\ g[0] = 0 /\ \A m \in 1 .. n : g[m] = g[m - 1] + c[m] * b[m]
  BY <1>1, <1>2 DEF Partial
<1> DEFINE A == {m \in 0 .. n : g[m] = IF m <= s THEN f[m] ELSE f[s]}
<1>3. 0 \in A
  BY <1>0, <1>7
<1>4. ASSUME NEW m \in 0 .. n - 1, m \in A PROVE m + 1 \in A
  <2>1. m + 1 \in 1 .. n /\ m + 1 \in 0 .. n /\ (m + 1) - 1 = m /\ m \in 0 .. n
    OBVIOUS
  <2>2. g[m] = (IF m <= s THEN f[m] ELSE f[s]) /\ g[m] \in Int
    BY <1>4, <2>1
  <2>3. g[m + 1] = g[m] + c[m + 1] * b[m + 1] /\ b[m + 1] \in Int
    BY <1>0, <1>7, <2>1 DEF Vector
  <2>4. CASE m + 1 <= s
    <3>1. m + 1 \in 1 .. s /\ m <= s
      BY <2>1, <2>4, <1>0, <1>7
    <3>2. f[m + 1] = f[m] + c[m + 1] * a[m + 1] /\ b[m + 1] = a[m + 1]
      BY <1>0, <1>7, <2>1, <3>1
    <3> QED BY <2>1, <2>2, <2>3, <2>4, <3>1, <3>2
  <2>5. CASE ~(m + 1 <= s)
    <3>1. m + 1 \in s + 1 .. n /\ (m <= s => m = s)
      BY <2>1, <2>5, <1>0, <1>7
    <3>2. c[m + 1] * b[m + 1] = 0
      BY <2>3, <3>1
    <3>3. g[m] = f[s]
      BY <2>2, <3>1
    <3> QED BY <2>1, <2>2, <2>3, <2>5, <3>2, <3>3
  <2> QED BY <2>4, <2>5
<1>5. n \in A
  <2> HIDE DEF A
  <2>1. n \in 0 .. n
    OBVIOUS
  <2> QED BY <1>3, <1>4, <2>1, UpTo
<1>6. n <= s => n = s
  OBVIOUS
<1> QED BY <1>1, <1>2, <1>5, <1>6

-----------------------------------------------------------------------------
(* Rows, the integers that satisfy them, and substitution.                    *)

IntRows == [coef : [Vars -> Int], k : Int, eq : BOOLEAN]
Points == [Vars -> Int]

\* The value of a row's sum, and whether it is as the row asks.
At(r, a) == r.k + Dot(NVars, r.coef, a)
Sat(r, a) == IF r.eq THEN At(r, a) = 0 ELSE At(r, a) >= 0
Solves(a, p) == \A i \in DOMAIN p : Sat(p[i], a)
Solvable(p) == \E a \in Points : Solves(a, p)

\* A row by its fields.
LEMMA RowFields ==
  ASSUME NEW r \in IntRows
  PROVE  /\ r.coef \in [Vars -> Int] /\ r.k \in Int /\ r.eq \in BOOLEAN
         /\ Vector(NVars, r.coef) /\ \A x \in Vars : r.coef[x] \in Int
BY DEF IntRows, Vector, Vars

\* What a point is made of.
LEMMA PointFields ==
  ASSUME NEW a \in Points
  PROVE  Vector(NVars, a) /\ \A x \in Vars : a[x] \in Int
BY DEF Points, Vector, Vars

\* The words are integers, so the rows of words are rows of integers.
LEMMA RowsAreIntRows == Word \subseteq Int /\ Rows \subseteq IntRows /\ NVars \in Nat
<1>1. Word \subseteq Int /\ NVars \in Nat
  BY SizesAssumption DEF Word, MinWord, MaxWord
<1>2. ASSUME NEW r \in Rows PROVE r \in IntRows
  <2>1. r = [coef |-> r.coef, k |-> r.k, eq |-> r.eq]
        /\ r.coef \in [Vars -> Word] /\ r.k \in Word /\ r.eq \in BOOLEAN
    BY DEF Rows
  <2>2. r.coef \in [Vars -> Int] /\ r.k \in Int
    <3> HIDE DEF Word
    <3> QED BY <1>1, <2>1
  <2> QED BY <2>1, <2>2 DEF IntRows
<1> QED BY <1>1, <1>2

\* The value of a row at a point.
LEMMA AtType ==
  ASSUME NEW r \in IntRows, NEW a \in Points
  PROVE  At(r, a) \in Int /\ Dot(NVars, r.coef, a) \in Int
<1>1. Dot(NVars, r.coef, a) \in Int
  BY RowFields, PointFields, RowsAreIntRows, DotType
<1> QED BY <1>1, RowFields DEF At

\* Substituting for x in a row gives it the value it has where x is what is
\* substituted.
LEMMA SubstituteSound ==
  ASSUME NEW r \in IntRows, NEW def \in IntRows, NEW x \in Vars, def.coef[x] = 0, NEW a \in Points
  PROVE  /\ Substitute(r, x, def) \in IntRows
         /\ Substitute(r, x, def).eq = r.eq
         /\ [a EXCEPT ![x] = At(def, a)] \in Points
         /\ At(Substitute(r, x, def), a) = At(r, [a EXCEPT ![x] = At(def, a)])
<1> DEFINE n == NVars
           c == r.coef
           d == def.coef
           cx == c[x]
           v == At(def, a)
           b == [a EXCEPT ![x] = v]
           s == [y \in Vars |-> IF y = x THEN 0 ELSE c[y] + cx * d[y]]
           t == [y \in Vars |-> IF y = x THEN cx ELSE 0]
           w == [y \in Vars |-> c[y] + cx * d[y]]
<1>1. n \in Nat /\ x \in 1 .. n /\ Vars = 1 .. n
  BY RowsAreIntRows DEF Vars
<1>2. /\ Vector(n, c) /\ Vector(n, d) /\ Vector(n, a) /\ c \in [Vars -> Int] /\ d \in [Vars -> Int]
      /\ cx \in Int /\ r.k \in Int /\ def.k \in Int /\ r.eq \in BOOLEAN /\ d[x] = 0
      /\ \A y \in Vars : c[y] \in Int /\ d[y] \in Int /\ a[y] \in Int
  BY RowFields, PointFields
<1>3. v \in Int
  BY AtType
<1>4. cx * def.k \in Int /\ \A y \in Vars : cx * d[y] \in Int
  BY <1>2
<1>5. s \in [Vars -> Int] /\ t \in [Vars -> Int] /\ w \in [Vars -> Int]
  BY <1>2, <1>4
<1>6. Substitute(r, x, def) = [coef |-> s, k |-> r.k + cx * def.k, eq |-> r.eq]
  BY DEF Substitute
<1>7. Substitute(r, x, def) \in IntRows
  <2> HIDE DEF cx, s
  <2>1. r.k + cx * def.k \in Int
    BY <1>2, <1>4
  <2> QED BY <2>1, <1>2, <1>5, <1>6 DEF IntRows
<1>8. b \in Points /\ b[x] = v /\ \A y \in Vars : y # x => b[y] = a[y]
  BY <1>3 DEF Points
<1>9. Vector(n, s) /\ Vector(n, t) /\ Vector(n, w) /\ Vector(n, b)
  BY <1>1, <1>5, <1>8, PointFields DEF Vector
<1>10. /\ \A y \in 1 .. n : w[y] = 1 * c[y] + cx * d[y]
       /\ \A y \in 1 .. n : w[y] = 1 * s[y] + 1 * t[y]
       /\ s[x] = 0 /\ t[x] = cx /\ \A y \in 1 .. n : y # x => t[y] = 0
  <2> HIDE DEF n, c, d, cx
  <2>1. \A y \in 1 .. n : c[y] \in Int /\ d[y] \in Int /\ cx * d[y] \in Int
    BY <1>1, <1>2, <1>4
  <2>2. \A y \in 1 .. n : w[y] = c[y] + cx * d[y]
    BY <1>1
  <2>3. \A y \in 1 .. n : w[y] = 1 * c[y] + cx * d[y]
    BY <2>1, <2>2
  <2>4. s[x] = 0 /\ t[x] = cx /\ \A y \in 1 .. n : y # x => t[y] = 0
    BY <1>1
  <2>5. \A y \in 1 .. n : y # x => s[y] = c[y] + cx * d[y]
    BY <1>1
  <2>6. w[x] = cx
    <3>1. c[x] = cx
      BY DEF cx
    <3>2. cx * d[x] = 0
      BY <1>2
    <3> QED BY <1>1, <1>2, <2>2, <3>1, <3>2
  <2> HIDE DEF s, t, w
  <2>7. ASSUME NEW y \in 1 .. n PROVE w[y] = 1 * s[y] + 1 * t[y]
    <3>1. CASE y = x
      BY <1>2, <2>4, <2>6, <3>1
    <3>2. CASE y # x
      BY <2>1, <2>2, <2>4, <2>5, <3>2
    <3> QED BY <3>1, <3>2
  <2> QED BY <2>3, <2>4, <2>7
<1> HIDE DEF n, c, d, cx, v, b, s, t, w
<1>11. Dot(n, w, b) = 1 * Dot(n, c, b) + cx * Dot(n, d, b)
  <2>1. /\ n \in Nat /\ 1 \in Int /\ cx \in Int
        /\ Vector(n, w) /\ Vector(n, c) /\ Vector(n, d) /\ Vector(n, b)
        /\ \A y \in 1 .. n : w[y] = 1 * c[y] + cx * d[y]
    BY <1>1, <1>2, <1>9, <1>10
  <2> QED BY ONLY <2>1, DotLinear
<1>12. Dot(n, w, b) = 1 * Dot(n, s, b) + 1 * Dot(n, t, b)
  <2>1. /\ n \in Nat /\ 1 \in Int
        /\ Vector(n, w) /\ Vector(n, s) /\ Vector(n, t) /\ Vector(n, b)
        /\ \A y \in 1 .. n : w[y] = 1 * s[y] + 1 * t[y]
    BY <1>1, <1>9, <1>10
  <2> QED BY ONLY <2>1, DotLinear
<1>13. Dot(n, t, b) = cx * v
  <2>1. Dot(n, t, b) = t[x] * b[x]
    <3>1. OnlyAt(n, x, t)
      BY <1>10 DEF OnlyAt
    <3>2. n \in Nat /\ x \in 1 .. n /\ Vector(n, t) /\ Vector(n, b)
      BY <1>1, <1>9
    <3> QED BY <3>1, <3>2, DotPoint
  <2> QED BY <2>1, <1>8, <1>10
<1>14. SameBut(n, x, a, b)
  BY <1>1, <1>8 DEF SameBut
<1>15. Dot(n, s, b) = Dot(n, s, a)
  <2>1. Dot(n, s, b) = Dot(n, s, a) + s[x] * (b[x] - a[x])
    BY <1>1, <1>2, <1>9, <1>14, DotChange
  <2>2. b[x] \in Int /\ a[x] \in Int /\ Dot(n, s, a) \in Int
    BY <1>1, <1>2, <1>3, <1>8, <1>9, DotType
  <2> QED BY <2>1, <2>2, <1>10
<1>16. Dot(n, d, b) = Dot(n, d, a)
  <2>0. Vector(n, d) /\ Vector(n, a) /\ Vector(n, b)
    BY <1>2, <1>9
  <2>1. Dot(n, d, b) = Dot(n, d, a) + d[x] * (b[x] - a[x])
    BY <1>1, <1>2, <1>9, <1>14, DotChange
  <2>2. b[x] \in Int /\ a[x] \in Int /\ Dot(n, d, a) \in Int
    BY <1>1, <1>2, <1>3, <1>8, <1>9, DotType
  <2> QED BY <2>1, <2>2, <1>2
<1>17. /\ Dot(n, c, b) \in Int /\ Dot(n, d, a) \in Int /\ Dot(n, s, a) \in Int
  BY <1>1, <1>2, <1>9, DotType
<1>18. v = def.k + Dot(n, d, a)
  BY DEF v, At, n, d
<1>19. Dot(n, s, a) = Dot(n, c, b) - cx * def.k
  <2> DEFINE e == Dot(n, d, a)
             k == def.k
  <2>1. cx * (k + e) = cx * k + cx * e
    BY <1>2, <1>17
  <2>2. cx * k \in Int /\ cx * e \in Int
    BY <1>2, <1>17
  <2> QED BY <2>1, <2>2, <1>11, <1>12, <1>13, <1>15, <1>16, <1>17, <1>18
<1>20. At(Substitute(r, x, def), a) = r.k + cx * def.k + Dot(n, s, a)
  BY <1>6 DEF At, n
<1>21. At(r, b) = r.k + Dot(n, c, b)
  BY DEF At, n, c
<1>22. At(Substitute(r, x, def), a) = At(r, b)
  BY <1>2, <1>4, <1>17, <1>19, <1>20, <1>21
<1> QED BY <1>6, <1>7, <1>8, <1>22 DEF b, v

-----------------------------------------------------------------------------
(* Conjunctions as the sets of their rows.                                    *)

RowsOf(p) == {p[i] : i \in DOMAIN p}

\* The rows of a sequence with one row more.
LEMMA AppendRows ==
  ASSUME NEW S, NEW p \in Seq(S), NEW r \in S
  PROVE  Append(p, r) \in Seq(S) /\ RowsOf(Append(p, r)) = RowsOf(p) \cup {r}
<1> DEFINE q == Append(p, r)
<1>1. /\ q \in Seq(S) /\ DOMAIN p = 1 .. Len(p) /\ DOMAIN q = 1 .. Len(p) + 1 /\ Len(p) \in Nat
      /\ q[Len(p) + 1] = r /\ \A i \in 1 .. Len(p) : q[i] = p[i]
  OBVIOUS
<1> HIDE DEF q
<1>2. ASSUME NEW i \in DOMAIN q PROVE q[i] \in RowsOf(p) \cup {r}
  <2>1. i \in 1 .. Len(p) \/ i = Len(p) + 1
    BY <1>1
  <2> QED BY <1>1, <2>1 DEF RowsOf
<1>3. ASSUME NEW i \in DOMAIN p PROVE p[i] \in RowsOf(q)
  <2>1. i \in DOMAIN q /\ q[i] = p[i]
    BY <1>1
  <2> QED BY <2>1 DEF RowsOf
<1>4. r \in RowsOf(q)
  <2>1. Len(p) + 1 \in DOMAIN q
    BY <1>1
  <2> QED BY <1>1, <2>1 DEF RowsOf
<1>5. RowsOf(q) \subseteq RowsOf(p) \cup {r}
  BY <1>2 DEF RowsOf
<1>6. RowsOf(p) \subseteq RowsOf(q)
  BY <1>3 DEF RowsOf
<1> QED BY <1>1, <1>4, <1>5, <1>6 DEF q

\* The rows of two sequences one after the other.
LEMMA ConcatRows ==
  ASSUME NEW S, NEW p \in Seq(S), NEW q \in Seq(S)
  PROVE  p \o q \in Seq(S) /\ RowsOf(p \o q) = RowsOf(p) \cup RowsOf(q)
<1> DEFINE c == p \o q
           k == Len(p)
           l == Len(q)
<1>1. /\ c \in Seq(S) /\ DOMAIN p = 1 .. k /\ DOMAIN q = 1 .. l /\ DOMAIN c = 1 .. k + l
      /\ k \in Nat /\ l \in Nat /\ \A i \in 1 .. k : c[i] = p[i]
  OBVIOUS
<1>2. \A i \in k + 1 .. k + l : c[i] = q[i - k]
  OBVIOUS
<1> HIDE DEF c, k, l
<1>3. ASSUME NEW i \in DOMAIN c PROVE c[i] \in RowsOf(p) \cup RowsOf(q)
  <2>1. CASE i \in 1 .. k
    BY <1>1, <2>1 DEF RowsOf
  <2>2. CASE i \notin 1 .. k
    <3>1. i \in k + 1 .. k + l /\ i - k \in DOMAIN q
      BY <1>1, <2>2
    <3> QED BY <1>2, <3>1 DEF RowsOf
  <2> QED BY <2>1, <2>2
<1>4. ASSUME NEW i \in DOMAIN p PROVE p[i] \in RowsOf(c)
  <2>1. i \in DOMAIN c /\ c[i] = p[i]
    BY <1>1
  <2> QED BY <2>1 DEF RowsOf
<1>5. ASSUME NEW i \in DOMAIN q PROVE q[i] \in RowsOf(c)
  <2>1. i + k \in DOMAIN c /\ i + k \in k + 1 .. k + l /\ (i + k) - k = i
    BY <1>1
  <2>2. c[i + k] = q[i]
    BY <1>2, <2>1
  <2> QED BY <2>1, <2>2 DEF RowsOf
<1>6. RowsOf(c) \subseteq RowsOf(p) \cup RowsOf(q)
  BY <1>3 DEF RowsOf
<1>7. RowsOf(p) \subseteq RowsOf(c)
  BY <1>4 DEF RowsOf
<1>8. RowsOf(q) \subseteq RowsOf(c)
  BY <1>5 DEF RowsOf
<1> QED BY <1>1, <1>6, <1>7, <1>8 DEF c

\* The rows of a sequence are those at the kept indices.
LEMMA KeptRows ==
  ASSUME NEW S, NEW p \in Seq(S), NEW I
  PROVE  Kept(p, I) \in Seq(S) /\ RowsOf(Kept(p, I)) = {p[i] : i \in I \cap DOMAIN p}
<1> DEFINE n == Len(p)
           T == Seq(S)
           Law(h) == [m \in 0 .. n |-> IF m = 0 THEN <<>>
                                       ELSE IF m \in I THEN Append(h[m - 1], p[m]) ELSE h[m - 1]]
           F == [m \in 1 .. n |-> [q \in T |-> IF m \in I THEN Append(q, p[m]) ELSE q]]
           kept == CHOOSE h : h = Law(h)
<1>1. n \in Nat /\ n \in 0 .. n /\ DOMAIN p = 1 .. n /\ \A m \in 1 .. n : p[m] \in S
  OBVIOUS
<1>2. Kept(p, I) = kept[n]
  BY DEF Kept
<1>3. <<>> \in T /\ \A q \in T : \A r \in S : Append(q, r) \in T
  BY AppendRows
<1> HIDE DEF T, n
<1>4. F \in Steps(n, T)
  <2>1. \A m \in 1 .. n : \A q \in T : (IF m \in I THEN Append(q, p[m]) ELSE q) \in T
    BY <1>1, <1>3
  <2> QED BY <2>1 DEF Steps
<1>5. \A m \in 1 .. n : \A q \in T : F[m][q] = IF m \in I THEN Append(q, p[m]) ELSE q
  OBVIOUS
<1> HIDE DEF F
<1>6. PICK h \in [0 .. n -> T] : h[0] = <<>> /\ \A m \in 1 .. n : h[m] = F[m][h[m - 1]]
  <2> DEFINE z == <<>>
  <2>1. F \in Steps(n, T) /\ z \in T
    BY <1>3, <1>4
  <2> HIDE DEF z
  <2>2. Recursive(n, T, z, F)
    BY <1>1, <2>1, Recursion
  <2> QED BY <2>2 DEF Recursive, z
<1>7. \A m \in 1 .. n : m - 1 \in 0 .. n /\ h[m - 1] \in T
  BY <1>1
<1>8. h[0] = <<>> /\ \A m \in 1 .. n : h[m] = IF m \in I THEN Append(h[m - 1], p[m]) ELSE h[m - 1]
  BY <1>5, <1>6, <1>7
<1>9. h = Law(h)
  <2>1. \A m \in 0 .. n : h[m] = IF m = 0 THEN <<>>
                                 ELSE IF m \in I THEN Append(h[m - 1], p[m]) ELSE h[m - 1]
    BY <1>1, <1>8
  <2> QED BY <2>1
<1>10. kept = Law(kept)
  <2> HIDE DEF Law
  <2> QED BY <1>9
<1> HIDE DEF kept
<1>11. \A m \in 0 .. n : kept[m] = IF m = 0 THEN <<>>
                                   ELSE IF m \in I THEN Append(kept[m - 1], p[m]) ELSE kept[m - 1]
  BY <1>10
<1> HIDE DEF Law
<1> DEFINE P(m) == {p[i] : i \in I \cap (1 .. m)}
           A == {m \in 0 .. n : kept[m] \in T /\ RowsOf(kept[m]) = P(m)}
<1>12. 0 \in A
  <2>1. kept[0] = <<>> /\ 0 \in 0 .. n
    BY <1>1, <1>11
  <2>2. RowsOf(<<>>) = {}
    BY DEF RowsOf
  <2>3. P(0) = {}
    OBVIOUS
  <2> QED BY <1>3, <2>1, <2>2, <2>3
<1>13. ASSUME NEW m \in 0 .. n - 1, m \in A PROVE m + 1 \in A
  <2>1. m + 1 \in 1 .. n /\ m + 1 \in 0 .. n /\ (m + 1) - 1 = m /\ m + 1 # 0
    BY <1>1
  <2>2. kept[m] \in T /\ RowsOf(kept[m]) = P(m)
    BY <1>13
  <2>3. kept[m + 1] = IF m + 1 \in I THEN Append(kept[m], p[m + 1]) ELSE kept[m]
    BY <1>11, <2>1
  <2>4. \A i : i \in 1 .. m + 1 <=> i \in 1 .. m \/ i = m + 1
    BY <2>1, <1>1
  <2>5. CASE m + 1 \in I
    <3>1. kept[m + 1] = Append(kept[m], p[m + 1])
      BY <2>3, <2>5
    <3>2. kept[m + 1] \in T /\ RowsOf(kept[m + 1]) = RowsOf(kept[m]) \cup {p[m + 1]}
      <4>1. p[m + 1] \in S /\ kept[m] \in Seq(S)
        BY <1>1, <2>1, <2>2 DEF T
      <4>2. /\ Append(kept[m], p[m + 1]) \in Seq(S)
            /\ RowsOf(Append(kept[m], p[m + 1])) = RowsOf(kept[m]) \cup {p[m + 1]}
        BY ONLY <4>1, AppendRows
      <4> QED BY <3>1, <4>2 DEF T
    <3>3. P(m + 1) = P(m) \cup {p[m + 1]}
      BY <2>4, <2>5
    <3> HIDE DEF P
    <3> QED BY <2>1, <2>2, <3>2, <3>3
  <2>6. CASE m + 1 \notin I
    <3>1. P(m + 1) = P(m)
      BY <2>4, <2>6
    <3> HIDE DEF P
    <3> QED BY <2>1, <2>2, <2>3, <2>6, <3>1
  <2> QED BY <2>5, <2>6
<1>14. n \in A
  <2> HIDE DEF A
  <2> QED BY <1>1, <1>12, <1>13, UpTo
<1>15. P(n) = {p[i] : i \in I \cap DOMAIN p}
  BY <1>1
<1> QED BY <1>2, <1>14, <1>15 DEF T

\* What solves a conjunction solves its rows.
LEMMA SolvesRows ==
  ASSUME NEW p, NEW a
  PROVE  Solves(a, p) <=> \A r \in RowsOf(p) : Sat(r, a)
BY DEF Solves, RowsOf

\* Kept rows.
LEMMA SolvesKept ==
  ASSUME NEW S, NEW p \in Seq(S), NEW I, NEW a
  PROVE  Solves(a, Kept(p, I)) <=> \A i \in I \cap DOMAIN p : Sat(p[i], a)
<1>1. RowsOf(Kept(p, I)) = {p[i] : i \in I \cap DOMAIN p}
  BY KeptRows
<1> QED BY <1>1, SolvesRows

\* An index of the kept rows is one of the sequence.
LEMMA KeptIndex ==
  ASSUME NEW S, NEW p \in Seq(S), NEW I, NEW j \in DOMAIN Kept(p, I)
  PROVE  \E i \in I \cap DOMAIN p : Kept(p, I)[j] = p[i]
<1>1. RowsOf(Kept(p, I)) = {p[i] : i \in I \cap DOMAIN p}
  BY KeptRows
<1>2. Kept(p, I)[j] \in RowsOf(Kept(p, I))
  BY DEF RowsOf
<1> QED BY <1>1, <1>2

\* A row that is kept is somewhere in what is kept.
LEMMA IndexKept ==
  ASSUME NEW S, NEW p \in Seq(S), NEW I, NEW i \in I \cap DOMAIN p
  PROVE  \E j \in DOMAIN Kept(p, I) : Kept(p, I)[j] = p[i]
<1>1. RowsOf(Kept(p, I)) = {p[j] : j \in I \cap DOMAIN p}
  BY KeptRows
<1>2. p[i] \in RowsOf(Kept(p, I))
  BY <1>1
<1> QED BY <1>2 DEF RowsOf

\* One row more.
LEMMA SolvesAppend ==
  ASSUME NEW S, NEW p \in Seq(S), NEW r \in S, NEW a
  PROVE  Solves(a, Append(p, r)) <=> Solves(a, p) /\ Sat(r, a)
<1>1. RowsOf(Append(p, r)) = RowsOf(p) \cup {r}
  BY AppendRows
<1> QED BY <1>1, SolvesRows

-----------------------------------------------------------------------------
(* Normalisation.                                                             *)

\* The divisor of a row's coefficients divides them all.
LEMMA GcdDivides ==
  ASSUME NEW r \in IntRows, Used(r) # {}
  PROVE  Gcd(r) \in Nat /\ Gcd(r) > 0 /\ \A x \in Vars : r.coef[x] % Gcd(r) = 0
<1> DEFINE A(x) == Abs(r.coef[x])
           least == CHOOSE x \in Used(r) : \A y \in Used(r) : Abs(r.coef[x]) <= Abs(r.coef[y])
           L == Abs(r.coef[least])
           divides(d) == \A x \in Used(r) : r.coef[x] % d = 0
           Greatest(d) == divides(d) /\ \A e \in (d + 1)..L : ~divides(e)
           D == {d \in 1 .. L : divides(d)}
<1>1. \A x \in Used(r) : x \in Vars /\ r.coef[x] \in Int /\ r.coef[x] # 0 /\ A(x) \in Nat /\ A(x) > 0
  BY RowFields DEF Used, Abs
<1>2. least \in Used(r)
  <2> DEFINE S == {A(x) : x \in Used(r)}
  <2>1. S \subseteq Nat /\ S # {}
    BY <1>1
  <2>2. PICK m \in S : \A k \in S : m <= k
    <3> HIDE DEF S
    <3> QED BY <2>1, LeastNatural
  <2>3. PICK x \in Used(r) : m = A(x)
    BY <2>2
  <2>4. \A y \in Used(r) : A(y) \in S
    OBVIOUS
  <2>5. \A y \in Used(r) : Abs(r.coef[x]) <= Abs(r.coef[y])
    BY <2>2, <2>3, <2>4
  <2> QED BY <2>3, <2>5
<1> HIDE DEF least
<1>3. L \in Nat /\ L > 0
  BY <1>1, <1>2
<1>4. Gcd(r) = CHOOSE d \in 1 .. L : Greatest(d)
  BY DEF Gcd, least
<1> HIDE DEF L, A
<1>5. 1 \in D
  <2>1. \A x \in Used(r) : r.coef[x] % 1 = 0
    <3> SUFFICES ASSUME NEW x \in Used(r) PROVE r.coef[x] % 1 = 0
      OBVIOUS
    <3>1. r.coef[x] \in Int
      BY <1>1
    <3>2. r.coef[x] % 1 \in 0 .. 1 - 1
      BY <3>1, DivMod
    <3> QED BY <3>2
  <2> QED BY <1>3, <2>1
<1>6. \E d \in D : \A e \in D : e <= d
  <2>1. D \subseteq Int /\ \A e \in D : e <= L
    BY <1>3
  <2>2. L \in Int /\ D # {}
    BY <1>3, <1>5
  <2> HIDE DEF D
  <2> QED BY <2>1, <2>2, GreatestInteger
<1>7. \E d \in 1 .. L : Greatest(d)
  <2>1. PICK d \in D : \A e \in D : e <= d
    BY <1>6
  <2>2. d \in 1 .. L /\ divides(d)
    OBVIOUS
  <2>3. ASSUME NEW e \in (d + 1)..L, divides(e) PROVE FALSE
    <3>1. e \in 1 .. L /\ ~(e <= d)
      BY <1>3, <2>2
    <3>2. e \in D
      BY <2>3, <3>1
    <3> QED BY <2>1, <3>1, <3>2
  <2> HIDE DEF divides, D
  <2> QED BY <2>2, <2>3
<1>8. Gcd(r) \in 1 .. L /\ Greatest(Gcd(r))
  <2> HIDE DEF Greatest
  <2> QED BY <1>4, <1>7
<1>9. Gcd(r) \in Nat /\ Gcd(r) > 0
  BY <1>3, <1>8
<1>10. ASSUME NEW x \in Vars PROVE r.coef[x] % Gcd(r) = 0
  <2>1. CASE x \in Used(r)
    BY <1>8, <2>1
  <2>2. CASE x \notin Used(r)
    <3>1. r.coef[x] = 0
      BY <2>2 DEF Used
    <3>2. Gcd(r) * 0 + 0 = 0 /\ 0 \in 0 .. Gcd(r) - 1
      BY <1>9
    <3>3. (Gcd(r) * 0 + 0) % Gcd(r) = 0
      BY <1>9, <3>2, DivModUnique
    <3> QED BY <3>1, <3>2, <3>3
  <2> QED BY <2>1, <2>2
<1> QED BY <1>9, <1>10

\* The quotient of a word is a word.
LEMMA QuotientWord ==
  ASSUME NEW n \in Word, NEW g \in Nat, g > 0
  PROVE  n \div g \in Word
<1> DEFINE q == n \div g
           m == n % g
           B == WordBound
<1>1. B \in Nat /\ n \in Int /\ -B <= n /\ n <= B - 1
  BY SizesAssumption DEF Word, MinWord, MaxWord
<1>2. q \in Int /\ m \in 0 .. g - 1 /\ n = g * q + m
  BY <1>1, DivMod
<1> HIDE DEF q, m, B
<1>3. -B <= q
  <2> SUFFICES ASSUME q <= -B - 1 PROVE FALSE
    BY <1>1, <1>2
  <2>1. g * q <= g * (-B - 1)
    BY <1>1, <1>2
  <2>2. g * (-B - 1) = -(g * B) - g /\ g * B \in Int
    BY <1>1
  <2>3. g * B >= B
    BY <1>1
  <2> QED BY <1>1, <1>2, <2>1, <2>2, <2>3
<1>4. q <= B - 1
  <2> SUFFICES ASSUME q >= B PROVE FALSE
    BY <1>1, <1>2
  <2>1. g * q >= g * B
    BY <1>1, <1>2
  <2>2. g * B >= B /\ g * B \in Int /\ g * q \in Int
    BY <1>1, <1>2
  <2> QED BY <1>1, <1>2, <2>1, <2>2
<1> QED BY <1>1, <1>2, <1>3, <1>4 DEF q, B, Word, MinWord, MaxWord

\* A row without coefficients is its constant.
LEMMA EmptyRow ==
  ASSUME NEW r \in IntRows, NEW a \in Points, Used(r) = {}
  PROVE  Sat(r, a) <=> ~Contradicts(r)
<1>1. \A x \in 1 .. NVars : r.coef[x] = 0
  BY DEF Used, Vars
<1>2. Dot(NVars, r.coef, a) = 0
  <2> DEFINE c == r.coef
  <2>1. Vector(NVars, c) /\ Vector(NVars, a) /\ NVars \in Nat /\ 0 \in Int
    BY RowFields, PointFields, RowsAreIntRows
  <2>2. \A x \in 1 .. NVars : c[x] = 0 * c[x] + 0 * c[x]
    <3>1. \A x \in 1 .. NVars : c[x] = 0
      BY <1>1
    <3> HIDE DEF c
    <3> QED BY <3>1
  <2> HIDE DEF c
  <2>3. Dot(NVars, c, a) = 0 * Dot(NVars, c, a) + 0 * Dot(NVars, c, a)
    BY <2>1, <2>2, DotLinear
  <2>4. Dot(NVars, c, a) \in Int
    BY <2>1, DotType
  <2> QED BY <2>3, <2>4 DEF c
<1>3. At(r, a) = r.k /\ r.k \in Int /\ r.eq \in BOOLEAN
  BY <1>2, RowFields DEF At
<1> QED BY <1>3 DEF Sat, Contradicts

Residue(r) == r.k % Gcd(r)

\* A row is its divisor times the divided row, and what the constant leaves.
LEMMA DividedValue ==
  ASSUME NEW r \in IntRows, NEW a \in Points, Used(r) # {}
  PROVE  /\ Divided(r) \in IntRows /\ Divided(r).eq = r.eq
         /\ Residue(r) \in 0 .. Gcd(r) - 1
         /\ At(r, a) = Gcd(r) * At(Divided(r), a) + Residue(r)
<1> DEFINE g == Gcd(r)
           c == r.coef
           d == [x \in Vars |-> c[x] \div g]
           k == r.k
           q == k \div g
           m == k % g
<1>0. \A x \in Vars : c[x] % g = 0
  BY GcdDivides
<1>1. g \in Nat /\ g > 0
  BY GcdDivides
<1>2. NVars \in Nat /\ Vector(NVars, c) /\ Vector(NVars, a) /\ r.k \in Int /\ Vars = 1 .. NVars
      /\ r.eq \in BOOLEAN
  BY RowFields, PointFields, RowsAreIntRows DEF Vars
<1>3. Divided(r) = [coef |-> d, k |-> q, eq |-> r.eq]
  BY DEF Divided, FloorDiv
<1> HIDE DEF g, c
<1>4. q \in Int /\ m \in 0 .. g - 1 /\ k = g * q + m
  <2>1. k \in Int
    BY <1>2
  <2> HIDE DEF k
  <2>2. k \div g \in Int /\ k % g \in 0 .. g - 1 /\ k = g * (k \div g) + (k % g)
    BY <1>1, <2>1, DivMod
  <2> QED BY <2>2
<1>5. \A x \in Vars : c[x] \div g \in Int /\ c[x] = g * (c[x] \div g)
  <2> SUFFICES ASSUME NEW x \in Vars PROVE c[x] \div g \in Int /\ c[x] = g * (c[x] \div g)
    OBVIOUS
  <2> DEFINE cx == c[x]
             e == cx \div g
             f == cx % g
  <2>1. cx \in Int
    BY <1>2 DEF Vector
  <2>2. f = 0
    BY <1>0
  <2> HIDE DEF cx
  <2>3. e \in Int /\ cx = g * e + f
    BY <1>1, <2>1, DivMod
  <2> HIDE DEF e, f
  <2>4. g * e \in Int
    BY <1>1, <2>3
  <2>5. cx = g * e
    BY <2>2, <2>3, <2>4
  <2> QED BY <2>3, <2>5 DEF e, cx
<1>6. d \in [Vars -> Int] /\ Vector(NVars, d) /\ \A x \in 1 .. NVars : c[x] = g * d[x]
  BY <1>2, <1>5 DEF Vector
<1> HIDE DEF d, q, m, k
<1>7. Divided(r) \in IntRows /\ Divided(r).eq = r.eq
  BY <1>2, <1>3, <1>4, <1>6 DEF IntRows
<1>8. Dot(NVars, c, a) = g * Dot(NVars, d, a) /\ Dot(NVars, d, a) \in Int
  <2>1. \A x \in 1 .. NVars : c[x] = g * d[x] + 0 * d[x]
    <3> SUFFICES ASSUME NEW x \in 1 .. NVars PROVE c[x] = g * d[x] + 0 * d[x]
      OBVIOUS
    <3>1. d[x] \in Int /\ c[x] = g * d[x] /\ g * d[x] \in Int
      BY <1>1, <1>6 DEF Vector
    <3>2. 0 * d[x] = 0
      BY <3>1
    <3> QED BY <3>1, <3>2
  <2>2. g \in Int /\ 0 \in Int
    BY <1>1
  <2>3. Dot(NVars, c, a) = g * Dot(NVars, d, a) + 0 * Dot(NVars, d, a)
    BY <1>2, <1>6, <2>1, <2>2, DotLinear
  <2>4. Dot(NVars, d, a) \in Int
    BY <1>2, <1>6, DotType
  <2> QED BY <1>1, <2>3, <2>4
<1>9. At(r, a) = r.k + Dot(NVars, c, a) /\ At(Divided(r), a) = q + Dot(NVars, d, a)
  BY <1>3 DEF At, c
<1>10. At(r, a) = g * At(Divided(r), a) + m
  <2> DEFINE e == Dot(NVars, d, a)
  <2>1. e \in Int /\ m \in Int /\ k = g * q + m /\ q \in Int /\ g \in Int
    BY <1>1, <1>4, <1>8
  <2>2. At(r, a) = k + g * e /\ At(Divided(r), a) = q + e
    BY <1>8, <1>9 DEF k
  <2> HIDE DEF e
  <2>3. g * (q + e) = g * q + g * e /\ g * q \in Int /\ g * e \in Int
    BY <2>1
  <2>4. k + g * e = g * (q + e) + m
    BY <2>1, <2>3
  <2> QED BY <2>2, <2>4
<1>11. m = Residue(r)
  BY DEF m, k, g, Residue
<1> QED BY <1>4, <1>7, <1>10, <1>11 DEF g

\* A row that normalize stops at has no solution.
LEMMA ContradictsSound ==
  ASSUME NEW r \in IntRows, NEW a \in Points, Contradicts(r)
  PROVE  ~Sat(r, a)
<1>1. CASE Used(r) = {}
  BY <1>1, EmptyRow
<1>2. CASE Used(r) # {}
  <2> DEFINE g == Gcd(r)
             e == At(Divided(r), a)
             m == Residue(r)
  <2>1. r.eq /\ m # 0
    BY <1>2 DEF Contradicts, Residue
  <2>2. At(r, a) = g * e + m /\ e \in Int
    <3>1. Divided(r) \in IntRows /\ At(r, a) = g * e + m
      BY <1>2, DividedValue
    <3> HIDE DEF g, m
    <3> QED BY <3>1, AtType
  <2>3. g \in Nat /\ g > 0 /\ m \in 0 .. g - 1
    BY <1>2, GcdDivides, DividedValue
  <2> HIDE DEF g, e, m
  <2>4. (g * e + m) % g = m
    BY <2>2, <2>3, DivModUnique
  <2>5. 0 % g = 0
    <3>1. (g * 0 + 0) % g = 0 /\ g * 0 + 0 = 0
      BY <2>3, DivModUnique
    <3> QED BY <3>1
  <2>6. At(r, a) # 0
    BY <2>1, <2>2, <2>4, <2>5
  <2> QED BY <2>1, <2>6 DEF Sat
<1> QED BY <1>1, <1>2

\* Dividing a row keeps its solutions.
LEMMA DividedSound ==
  ASSUME NEW r \in IntRows, NEW a \in Points, Used(r) # {}, ~Contradicts(r)
  PROVE  Sat(Divided(r), a) <=> Sat(r, a)
<1> DEFINE g == Gcd(r)
           e == At(Divided(r), a)
           m == Residue(r)
<1>1. At(r, a) = g * e + m /\ e \in Int /\ Divided(r).eq = r.eq /\ r.eq \in BOOLEAN
  <2>1. Divided(r) \in IntRows /\ Divided(r).eq = r.eq /\ At(r, a) = g * e + m
    BY DividedValue
  <2> HIDE DEF g, m
  <2> QED BY <2>1, AtType, RowFields
<1>2. g \in Nat /\ g > 0 /\ m \in 0 .. g - 1
  BY GcdDivides, DividedValue
<1>3. r.eq => m = 0
  BY DEF Contradicts, Residue
<1> HIDE DEF g, e, m
<1>4. r.eq => (g * e + m = 0 <=> e = 0)
  <2>1. e > 0 => g * e > 0
    BY <1>1, <1>2
  <2>2. e < 0 => g * e < 0
    BY <1>1, <1>2
  <2>3. e = 0 => g * e = 0
    BY <1>2
  <2>4. g * e \in Int
    BY <1>1, <1>2
  <2> QED BY <1>1, <1>2, <1>3, <2>1, <2>2, <2>3, <2>4
<1>5. g * e + m >= 0 <=> e >= 0
  <2>1. e >= 0 => g * e >= 0
    BY <1>1, <1>2
  <2>2. e <= -1 => g * e <= -g
    <3> SUFFICES ASSUME e <= -1 PROVE g * e <= g * (-1)
      BY <1>2
    <3> QED BY <1>1, <1>2
  <2>3. g * e \in Int
    BY <1>1, <1>2
  <2> QED BY <1>1, <1>2, <2>1, <2>2, <2>3
<1> QED BY <1>1, <1>4, <1>5 DEF Sat, e

\* Normalisation keeps the solutions, and rows of words.
THEOREM NormalSound ==
  ASSUME NEW p \in Seq(Rows), \A i \in DOMAIN p : ~Contradicts(p[i])
  PROVE  Normal(p) \in Seq(Rows) /\ \A a \in Points : Solves(a, Normal(p)) <=> Solves(a, p)
<1> DEFINE I == {i \in DOMAIN p : Used(p[i]) # {}}
           kept == Kept(p, I)
<1>1. kept \in Seq(Rows) /\ RowsOf(kept) = {p[i] : i \in I \cap DOMAIN p}
  BY KeptRows
<1>2. Normal(p) = [i \in DOMAIN kept |-> Divided(kept[i])]
  BY DEF Normal
<1>3. \A i \in DOMAIN p : p[i] \in Rows /\ p[i] \in IntRows
  BY RowsAreIntRows
<1> HIDE DEF kept
<1>4. ASSUME NEW r \in Rows, Used(r) # {} PROVE Divided(r) \in Rows
  <2>1. r.coef \in [Vars -> Word] /\ r.k \in Word /\ r.eq \in BOOLEAN
    BY DEF Rows
  <2>2. Gcd(r) \in Nat /\ Gcd(r) > 0
    BY <1>4, RowsAreIntRows, GcdDivides
  <2>3. FloorDiv(r.k, Gcd(r)) \in Word /\ \A x \in Vars : r.coef[x] \div Gcd(r) \in Word
    BY <2>1, <2>2, QuotientWord DEF FloorDiv
  <2> HIDE DEF Word
  <2>4. [x \in Vars |-> r.coef[x] \div Gcd(r)] \in [Vars -> Word]
    BY <2>3
  <2> QED BY <2>1, <2>3, <2>4 DEF Divided, Rows
<1>5. \A j \in DOMAIN kept : \E i \in I : kept[j] = p[i]
  BY <1>1 DEF RowsOf
<1>6. \A i \in I : \E j \in DOMAIN kept : kept[j] = p[i]
  <2> SUFFICES ASSUME NEW i \in I PROVE p[i] \in RowsOf(kept)
    BY DEF RowsOf
  <2> QED BY <1>1
<1>7. Normal(p) \in Seq(Rows)
  <2>1. \A j \in DOMAIN kept : Divided(kept[j]) \in Rows
    BY <1>3, <1>4, <1>5
  <2>2. DOMAIN kept = 1 .. Len(kept) /\ Len(kept) \in Nat
    BY <1>1
  <2> QED BY <1>2, <2>1, <2>2
<1>8. ASSUME NEW a \in Points, Solves(a, p) PROVE Solves(a, Normal(p))
  <2>1. ASSUME NEW j \in DOMAIN kept PROVE Sat(Divided(kept[j]), a)
    <3>1. PICK i \in I : kept[j] = p[i]
      BY <1>5
    <3>2. Sat(p[i], a)
      BY <1>8 DEF Solves
    <3> QED BY <1>3, <3>1, <3>2, DividedSound
  <2> QED BY <1>2, <2>1 DEF Solves
<1>9. ASSUME NEW a \in Points, Solves(a, Normal(p)) PROVE Solves(a, p)
  <2>1. ASSUME NEW i \in DOMAIN p PROVE Sat(p[i], a)
    <3>1. CASE i \in I
      <4>1. PICK j \in DOMAIN kept : kept[j] = p[i]
        BY <1>6, <3>1
      <4>2. Sat(Divided(kept[j]), a)
        BY <1>2, <1>9 DEF Solves
      <4> QED BY <1>3, <3>1, <4>1, <4>2, DividedSound
    <3>2. CASE i \notin I
      BY <1>3, <3>2, EmptyRow
    <3> QED BY <3>1, <3>2
  <2> QED BY <2>1 DEF Solves
<1> QED BY <1>7, <1>8, <1>9

-----------------------------------------------------------------------------
(* Equalities.                                                                *)

\* Moving a point along one variable.
LEMMA AtChange ==
  ASSUME NEW r \in IntRows, NEW a \in Points, NEW x \in Vars, NEW v \in Int
  PROVE  /\ [a EXCEPT ![x] = v] \in Points
         /\ At(r, [a EXCEPT ![x] = v]) = At(r, a) + r.coef[x] * (v - a[x])
<1> DEFINE b == [a EXCEPT ![x] = v]
           c == r.coef
<1>1. b \in Points /\ b[x] = v /\ \A y \in Vars : y # x => b[y] = a[y]
  BY DEF Points
<1> HIDE DEF b
<1>2. NVars \in Nat /\ x \in 1 .. NVars /\ Vector(NVars, c) /\ Vector(NVars, a) /\ Vector(NVars, b)
  BY <1>1, RowFields, PointFields, RowsAreIntRows DEF Vars
<1>3. SameBut(NVars, x, a, b)
  BY <1>1 DEF SameBut, Vars
<1> HIDE DEF c
<1>4. Dot(NVars, c, b) = Dot(NVars, c, a) + c[x] * (b[x] - a[x])
  BY <1>2, <1>3, DotChange
<1>5. Dot(NVars, c, a) \in Int /\ c[x] * (v - a[x]) \in Int /\ r.k \in Int
  <2>1. c[x] \in Int /\ a[x] \in Int
    BY <1>2 DEF Vector
  <2>2. c[x] * (v - a[x]) \in Int
    BY <2>1
  <2> QED BY <1>2, <2>2, DotType, RowFields
<1>6. At(r, b) = r.k + Dot(NVars, c, b) /\ At(r, a) = r.k + Dot(NVars, c, a)
  BY DEF At, c
<1>7. At(r, b) = At(r, a) + c[x] * (v - a[x])
  BY <1>1, <1>4, <1>5, <1>6
<1> QED BY <1>1, <1>7 DEF b, c

Substituted(p, x, def) == [j \in DOMAIN p |-> Substitute(p[j], x, def)]

\* Substituting in a conjunction moves its solutions.
LEMMA SubstitutedSound ==
  ASSUME NEW p \in Seq(Rows), NEW def \in IntRows, NEW x \in Vars, def.coef[x] = 0
  PROVE  /\ Substituted(p, x, def) \in Seq(IntRows)
         /\ \A a \in Points : /\ [a EXCEPT ![x] = At(def, a)] \in Points
                              /\ Solves(a, Substituted(p, x, def)) <=> Solves([a EXCEPT ![x] = At(def, a)], p)
<1>1. DOMAIN p = 1 .. Len(p) /\ Len(p) \in Nat /\ \A j \in DOMAIN p : p[j] \in IntRows
  BY RowsAreIntRows
<1>2. \A j \in DOMAIN p : Substitute(p[j], x, def) \in IntRows
  <2>1. [y \in Vars |-> 0] \in Points
    BY DEF Points
  <2> QED BY <1>1, <2>1, SubstituteSound
<1>3. Substituted(p, x, def) \in Seq(IntRows)
  BY <1>1, <1>2 DEF Substituted
<1>4. ASSUME NEW a \in Points
      PROVE  /\ [a EXCEPT ![x] = At(def, a)] \in Points
             /\ Solves(a, Substituted(p, x, def)) <=> Solves([a EXCEPT ![x] = At(def, a)], p)
  <2> DEFINE b == [a EXCEPT ![x] = At(def, a)]
  <2>1. b \in Points
    BY AtType, AtChange
  <2>2. ASSUME NEW j \in DOMAIN p PROVE Sat(Substitute(p[j], x, def), a) <=> Sat(p[j], b)
    <3>1. Substitute(p[j], x, def).eq = p[j].eq /\ At(Substitute(p[j], x, def), a) = At(p[j], b)
      BY <1>1, SubstituteSound
    <3> QED BY <3>1 DEF Sat
  <2>3. Solves(a, Substituted(p, x, def)) <=> \A j \in DOMAIN p : Sat(Substitute(p[j], x, def), a)
    BY DEF Solves, Substituted
  <2>4. Solves(b, p) <=> \A j \in DOMAIN p : Sat(p[j], b)
    BY DEF Solves
  <2> HIDE DEF b
  <2> QED BY <2>1, <2>2, <2>3, <2>4 DEF b
<1> QED BY <1>3, <1>4

\* The negation of a word other than the least is exact.
LEMMA WrappedExact ==
  ASSUME NEW n \in Int, n \in Word
  PROVE  Wrapped(n) = n
<1> DEFINE B == WordBound
           m == n + B
<1>1. B \in Nat /\ B > 0 /\ n >= -B /\ n <= B - 1
  BY SizesAssumption DEF Word, MinWord, MaxWord
<1>2. Wrapped(n) = (m % (2 * B)) - B
  BY DEF Wrapped
<1> HIDE DEF B
<1>3. 2 * B \in Nat /\ 2 * B > 0 /\ m \in 0 .. 2 * B - 1 /\ 0 \in Int /\ (2 * B) * 0 + m = m
  BY <1>1
<1>4. m - B = n
  BY <1>1
<1> DEFINE W == 2 * B
<1> HIDE DEF m
<1>5. W \in Nat /\ W > 0 /\ m \in 0 .. W - 1 /\ W * 0 + m = m
  BY <1>3
<1> HIDE DEF W
<1>6. (W * 0 + m) % W = m
  BY <1>5, DivModUnique
<1> QED BY <1>2, <1>4, <1>5, <1>6 DEF W

\* What a variable with a unit coefficient is equal to.
LEMMA UnitValue ==
  ASSUME NEW e \in Rows, NEW x \in Vars, Abs(e.coef[x]) = 1, e.k # MinWord, NEW a \in Points
  PROVE  /\ UnitDef(e, x) \in IntRows /\ UnitDef(e, x).coef[x] = 0
         /\ At(UnitDef(e, x), a) = a[x] - e.coef[x] * At(e, a)
<1> DEFINE n == NVars
           c == e.coef
           u == c[x]
           d == [y \in Vars |-> IF y = x THEN 0 ELSE -c[y] * u]
           t == [y \in Vars |-> IF y = x THEN -1 ELSE 0]
           w == [y \in Vars |-> -u * c[y]]
<1>0. e \in IntRows /\ e.k \in Word /\ e.k \in Int
  BY RowsAreIntRows, RowFields DEF Rows
<1>1. n \in Nat /\ x \in 1 .. n /\ Vars = 1 .. n
  BY RowsAreIntRows DEF Vars
<1>2. c \in [Vars -> Int] /\ Vector(n, c) /\ Vector(n, a) /\ u \in Int /\ \A y \in Vars : c[y] \in Int
  BY <1>0, RowFields, PointFields
<1>3. u = 1 \/ u = -1
  <2> HIDE DEF u
  <2>1. Abs(u) = 1
    BY DEF u
  <2> QED BY <1>2, <2>1 DEF Abs
<1>4. Neg(e.k) = -e.k
  <2>1. -e.k \in Int /\ -e.k \in Word
    BY <1>0, SizesAssumption DEF Word, MinWord, MaxWord
  <2> HIDE DEF Word
  <2> QED BY <2>1, WrappedExact DEF Neg
<1>5. UnitDef(e, x) = [coef |-> d, k |-> (-e.k) * u, eq |-> FALSE]
  BY <1>4 DEF UnitDef
<1> HIDE DEF n, c, u
<1>6. \A y \in Vars : -c[y] * u \in Int /\ -u * c[y] \in Int /\ -c[y] * u = -u * c[y]
  BY <1>2, <1>3
<1>7. d \in [Vars -> Int] /\ t \in [Vars -> Int] /\ w \in [Vars -> Int]
  BY <1>6
<1>8. (-e.k) * u \in Int /\ (-e.k) * u = -u * e.k
  BY <1>0, <1>3
<1>9. UnitDef(e, x) \in IntRows
  <2> DEFINE k == (-e.k) * u
  <2> HIDE DEF d, k
  <2> QED BY <1>5, <1>7, <1>8 DEF IntRows, k
<1>10. d[x] = 0 /\ UnitDef(e, x).coef[x] = 0
  BY <1>1, <1>5
<1>11. Vector(n, d) /\ Vector(n, t) /\ Vector(n, w)
  BY <1>1, <1>7 DEF Vector
<1>12. t[x] = -1 /\ \A y \in 1 .. n : y # x => t[y] = 0
  BY <1>1
<1>13. ASSUME NEW y \in 1 .. n PROVE w[y] = (-u) * c[y] + 0 * c[y] /\ w[y] = 1 * d[y] + 1 * t[y]
  <2>1. y \in Vars /\ c[y] \in Int /\ w[y] = -u * c[y]
    BY <1>1, <1>2
  <2>2. w[y] = (-u) * c[y] + 0 * c[y]
    BY <1>3, <2>1
  <2>3. CASE y = x
    <3>1. c[y] = u
      BY <2>3 DEF u
    <3>2. d[y] = 0 /\ t[y] = -1
      BY <2>1, <2>3
    <3>3. w[y] = -1
      BY <1>3, <2>1, <3>1
    <3> QED BY <2>2, <3>2, <3>3
  <2>4. CASE y # x
    <3>1. d[y] = w[y] /\ t[y] = 0 /\ w[y] \in Int
      BY <1>6, <2>1, <2>4
    <3> HIDE DEF d, t, w
    <3> QED BY <2>2, <3>1
  <2> QED BY <2>3, <2>4
<1> HIDE DEF d, t, w
<1>14. Dot(n, w, a) = (-u) * Dot(n, c, a) + 0 * Dot(n, c, a)
  <2> DEFINE s == -u
  <2>1. s \in Int /\ 0 \in Int /\ \A y \in 1 .. n : w[y] = s * c[y] + 0 * c[y]
    BY <1>2, <1>13
  <2> HIDE DEF s
  <2>2. Dot(n, w, a) = s * Dot(n, c, a) + 0 * Dot(n, c, a)
    BY <1>1, <1>2, <1>11, <2>1, DotLinear
  <2> QED BY <2>2 DEF s
<1>15. Dot(n, w, a) = 1 * Dot(n, d, a) + 1 * Dot(n, t, a)
  <2>1. 1 \in Int /\ \A y \in 1 .. n : w[y] = 1 * d[y] + 1 * t[y]
    BY <1>13
  <2> QED BY <1>1, <1>2, <1>11, <2>1, DotLinear
<1>16. Dot(n, t, a) = t[x] * a[x]
  <2>1. OnlyAt(n, x, t)
    BY <1>12 DEF OnlyAt
  <2>2. n \in Nat /\ x \in 1 .. n /\ Vector(n, t) /\ Vector(n, a)
    BY <1>1, <1>2, <1>11
  <2> QED BY ONLY <2>1, <2>2, DotPoint
<1>17. Dot(n, c, a) \in Int /\ Dot(n, d, a) \in Int /\ a[x] \in Int
  BY <1>1, <1>2, <1>11, DotType, PointFields
<1>18. Dot(n, d, a) = a[x] - u * Dot(n, c, a)
  BY <1>2, <1>3, <1>12, <1>14, <1>15, <1>16, <1>17
<1>19. At(UnitDef(e, x), a) = (-e.k) * u + Dot(n, d, a) /\ At(e, a) = e.k + Dot(n, c, a)
  BY <1>5 DEF At, n, c
<1>20. At(UnitDef(e, x), a) = a[x] - u * At(e, a)
  BY <1>0, <1>3, <1>8, <1>17, <1>18, <1>19
<1> QED BY <1>9, <1>10, <1>20 DEF u, c

\* Solving an equality for a variable with a unit coefficient and substituting
\* keeps whether there is a solution.
THEOREM UnitSound ==
  ASSUME NEW p \in Seq(Rows), NEW i \in DOMAIN p, p[i].eq, NEW x \in Vars,
         Abs(p[i].coef[x]) = 1, p[i].k # MinWord
  PROVE  /\ Substituted(Kept(p, DOMAIN p \ {i}), x, UnitDef(p[i], x)) \in Seq(IntRows)
         /\ Solvable(Substituted(Kept(p, DOMAIN p \ {i}), x, UnitDef(p[i], x))) <=> Solvable(p)
<1> DEFINE e == p[i]
           def == UnitDef(e, x)
           I == DOMAIN p \ {i}
           rest == Kept(p, I)
           q == Substituted(rest, x, def)
           u == e.coef[x]
           To(a) == [a EXCEPT ![x] = At(def, a)]
<1>1. e \in Rows /\ e \in IntRows /\ e.eq /\ Abs(u) = 1 /\ e.k # MinWord
  BY RowsAreIntRows
<1>2. rest \in Seq(Rows)
  BY KeptRows
<1>3. \A a : Solves(a, rest) <=> \A j \in I \cap DOMAIN p : Sat(p[j], a)
  BY SolvesKept
<1>4. \A a : Solves(a, p) <=> Solves(a, rest) /\ Sat(e, a)
  <2>1. \A j \in DOMAIN p : j = i \/ j \in I \cap DOMAIN p
    OBVIOUS
  <2> HIDE DEF rest, I
  <2>2. I \subseteq DOMAIN p
    BY DEF I
  <2> QED BY <1>3, <2>1, <2>2 DEF Solves
<1>5. u \in Int /\ (u = 1 \/ u = -1)
  <2>1. u \in Int
    BY <1>1, RowFields
  <2> HIDE DEF u
  <2> QED BY <1>1, <2>1 DEF Abs
<1> HIDE DEF e, rest, I
<1>6. ASSUME NEW a \in Points
      PROVE  def \in IntRows /\ def.coef[x] = 0 /\ At(def, a) = a[x] - u * At(e, a)
  BY <1>1, UnitValue
<1>7. \E a : a \in Points
  <2>1. [y \in Vars |-> 0] \in Points
    BY DEF Points
  <2> QED BY <2>1
<1> HIDE DEF def
<1>8. q \in Seq(IntRows) /\ \A a \in Points : To(a) \in Points /\ (Solves(a, q) <=> Solves(To(a), rest))
  BY <1>2, <1>6, <1>7, SubstitutedSound
<1> HIDE DEF q
<1>9. ASSUME NEW a \in Points, Solves(a, p) PROVE Solves(a, q)
  <2>1. Solves(a, rest) /\ At(e, a) = 0
    BY <1>1, <1>4, <1>9 DEF Sat
  <2>2. At(def, a) = a[x]
    <3>1. a[x] \in Int
      BY PointFields
    <3> QED BY <1>5, <1>6, <2>1, <3>1
  <2>3. To(a) = a
    BY <2>2 DEF Points
  <2> QED BY <1>8, <2>1, <2>3
<1>10. ASSUME NEW a \in Points, Solves(a, q) PROVE To(a) \in Points /\ Solves(To(a), p)
  <2>1. To(a) \in Points /\ Solves(To(a), rest)
    BY <1>8, <1>10
  <2> DEFINE v == At(def, a)
             f == At(e, a)
  <2>2. v \in Int /\ f \in Int /\ a[x] \in Int
    BY <1>1, <1>6, AtType, PointFields
  <2>3. At(e, To(a)) = f + u * (v - a[x])
    BY <1>1, <2>2, AtChange
  <2>4. v = a[x] - u * f
    BY <1>6
  <2> HIDE DEF v, f
  <2>5. f + u * (v - a[x]) = 0
    <3>1. CASE u = 1
      BY <2>2, <2>4, <3>1
    <3>2. CASE u = -1
      BY <2>2, <2>4, <3>2
    <3> QED BY <1>5, <3>1, <3>2
  <2>6. Sat(e, To(a))
    BY <1>1, <2>3, <2>5 DEF Sat
  <2> QED BY <1>4, <2>1, <2>6
<1>11. Solvable(q) <=> Solvable(p)
  <2> HIDE DEF To
  <2> QED BY <1>9, <1>10 DEF Solvable
<1> QED BY <1>8, <1>11 DEF q, def, rest, e, I

\* The symmetric residue differs by a multiple of the modulus.
LEMMA ModHatMultiple ==
  ASSUME NEW a \in Int, NEW m \in Nat, m > 0
  PROVE  \E q \in Int : ModHat(a, m) = a - m * q
<1> DEFINE n == 2 * a + m
           k == 2 * m
<1>1. n \in Int /\ k \in Nat /\ k > 0
  OBVIOUS
<1>2. ModHat(a, m) = a - m * (n \div k)
  BY DEF ModHat, FloorDiv
<1> HIDE DEF n, k
<1>3. n \div k \in Int
  BY <1>1, DivMod
<1> QED BY <1>2, <1>3

\* The arithmetic of the mod-hat step: the new variable makes up the difference.
LEMMA SumShift ==
  ASSUME NEW v \in Int, NEW a \in Int, NEW y \in Int, NEW q \in Int, NEW d \in Int,
         v = a - y - q - d
  PROVE  q + (d + (v - a)) = -y
OBVIOUS

\* The expression for x in terms of the new variable has, for every solution of
\* the equality, x's value at some value of the new variable.
LEMMA ModHatValue ==
  ASSUME NEW e \in Rows, NEW x \in Vars, e.coef[x] # 0, NEW sigma \in Vars, e.coef[sigma] = 0
  PROVE  /\ ModHatDef(e, x, sigma) \in IntRows /\ ModHatDef(e, x, sigma).coef[x] = 0
         /\ \A a \in Points : At(e, a) = 0 =>
              \E v \in Int : At(ModHatDef(e, x, sigma), [a EXCEPT ![sigma] = v]) = a[x]
<1> DEFINE n == NVars
           c == e.coef
           u == c[x]
           m == Abs(u) + 1
           s == IF u < 0 THEN -1 ELSE 1
           Hat(y) == ModHat(c[y], m)
           def == ModHatDef(e, x, sigma)
           d == [y \in Vars |-> CASE y = sigma -> -m * s [] y = x -> 0 [] OTHER -> Hat(y) * s]
<1>1. e \in IntRows /\ e.k \in Int /\ x # sigma
  BY RowsAreIntRows, RowFields
<1>2. n \in Nat /\ x \in 1 .. n /\ sigma \in 1 .. n /\ Vars = 1 .. n
  BY RowsAreIntRows DEF Vars
<1>3. Vector(n, c) /\ \A y \in Vars : c[y] \in Int
  BY <1>1, RowFields
<1>4. def = [coef |-> d, k |-> ModHat(e.k, m) * s, eq |-> FALSE]
  BY DEF ModHatDef
<1>5. c[sigma] = 0 /\ u \in Int /\ u # 0 /\ u = c[x]
  BY <1>3
<1> HIDE DEF n, c, u
<1>6. m \in Nat /\ m > 0 /\ (s = 1 \/ s = -1) /\ s * u = m - 1 /\ s * s = 1 /\ s \in Int
  BY <1>5 DEF Abs
<1> HIDE DEF m, s
<1>7. PICK qk \in Int : ModHat(e.k, m) = e.k - m * qk
  BY <1>1, <1>6, ModHatMultiple
<1>8. \A y \in Vars : \E q \in Int : Hat(y) = c[y] - m * q
  BY <1>3, <1>6, ModHatMultiple
<1> DEFINE Q == [y \in Vars |-> IF y = x THEN 0 ELSE IF y = sigma THEN 1
                                ELSE CHOOSE q \in Int : Hat(y) = c[y] - m * q]
           t == [y \in Vars |-> IF y = x THEN m - 1 ELSE 0]
           w == [y \in Vars |-> s * c[y] + (-(s * m)) * Q[y]]
           sm == -(s * m)
<1>9. /\ Q \in [Vars -> Int] /\ Q[x] = 0 /\ Q[sigma] = 1
      /\ \A y \in Vars : y # x /\ y # sigma => Hat(y) = c[y] - m * Q[y]
  <2>1. \A y \in Vars : (CHOOSE q \in Int : Hat(y) = c[y] - m * q) \in Int
    BY <1>8
  <2>2. Q \in [Vars -> Int]
    BY <2>1
  <2>3. Q[x] = 0 /\ Q[sigma] = 1
    BY <1>1
  <2>4. ASSUME NEW y \in Vars, y # x, y # sigma PROVE Hat(y) = c[y] - m * Q[y]
    <3>1. Q[y] = CHOOSE q \in Int : Hat(y) = c[y] - m * q
      BY <2>4
    <3> HIDE DEF Q, Hat
    <3> QED BY <1>8, <3>1
  <2> QED BY <2>2, <2>3, <2>4
<1> HIDE DEF Q, Hat
<1>10. sm \in Int /\ \A y \in Vars : Q[y] \in Int /\ s * c[y] \in Int /\ sm * Q[y] \in Int
  <2>1. sm \in Int
    BY <1>6
  <2> HIDE DEF sm
  <2> QED BY <1>3, <1>6, <1>9, <2>1
<1>11. ASSUME NEW y \in Vars PROVE d[y] \in Int /\ w[y] = d[y] + t[y]
  <2>1. w[y] = s * c[y] + sm * Q[y] /\ c[y] \in Int /\ Q[y] \in Int
    BY <1>3, <1>10
  <2>2. CASE y = x
    <3>1. d[y] = 0 /\ t[y] = m - 1
      BY <1>1, <2>2
    <3>2. w[y] = s * u
      BY <1>5, <1>6, <1>9, <1>10, <2>1, <2>2
    <3> QED BY <1>6, <3>1, <3>2
  <2>3. CASE y = sigma
    <3>1. d[y] = -m * s /\ t[y] = 0
      BY <1>1, <2>3
    <3>2. w[y] = sm
      BY <1>5, <1>6, <1>9, <1>10, <2>1, <2>3
    <3>3. sm = -m * s
      BY <1>6
    <3> QED BY <1>10, <3>1, <3>2, <3>3
  <2>4. CASE y # x /\ y # sigma
    <3>1. d[y] = Hat(y) * s /\ t[y] = 0
      BY <2>4
    <3>2. Hat(y) = c[y] - m * Q[y]
      BY <1>9, <2>4
    <3> DEFINE cy == c[y]
               qy == Q[y]
    <3>3. cy \in Int /\ qy \in Int /\ d[y] = (cy - m * qy) * s /\ w[y] = s * cy + (-(s * m)) * qy
      BY <2>1, <3>1, <3>2
    <3> HIDE DEF cy, qy, d, w, t
    <3>4. (cy - m * qy) * s = s * cy + (-(s * m)) * qy
      <4>1. CASE s = 1
        BY <1>6, <3>3, <4>1
      <4>2. CASE s = -1
        BY <1>6, <3>3, <4>2
      <4> QED BY <1>6, <4>1, <4>2
    <3>5. (cy - m * qy) * s \in Int
      BY <1>6, <3>3
    <3> QED BY <3>1, <3>3, <3>4, <3>5
  <2> QED BY <2>2, <2>3, <2>4
<1>12. t \in [Vars -> Int] /\ OnlyAt(n, x, t) /\ t[x] = m - 1
  BY <1>2, <1>6 DEF OnlyAt
<1>13. w \in [Vars -> Int] /\ \A y \in Vars : w[y] = s * c[y] + sm * Q[y]
  BY <1>10
<1>14. d \in [Vars -> Int] /\ d[x] = 0
  <2>1. \A y \in Vars : d[y] \in Int
    BY <1>11
  <2>2. d[x] = 0 /\ d = [y \in Vars |-> d[y]]
    BY <1>1
  <2> HIDE DEF d
  <2> QED BY <2>1, <2>2
<1> HIDE DEF d, t, w, sm
<1>15. Vector(n, d) /\ Vector(n, t) /\ Vector(n, w) /\ Vector(n, Q)
  BY <1>2, <1>9, <1>12, <1>13, <1>14 DEF Vector
<1>16. def \in IntRows /\ def.coef[x] = 0
  <2> DEFINE k == ModHat(e.k, m) * s
  <2>1. k \in Int
    BY <1>1, <1>6, <1>7
  <2> HIDE DEF k
  <2> QED BY <1>4, <1>14, <2>1 DEF IntRows, k
<1> DEFINE hat == ModHat(e.k, m) * s
<1> HIDE DEF def
<1>17. ASSUME NEW a \in Points
       PROVE  /\ Dot(n, Q, a) \in Int
              /\ At(def, a) = s * At(e, a) + sm * (qk + Dot(n, Q, a)) - (m - 1) * a[x]
  <2>1. Vector(n, a) /\ a[x] \in Int
    BY <1>2, PointFields DEF n
  <2>2. Dot(n, w, a) = s * Dot(n, c, a) + sm * Dot(n, Q, a)
    <3>1. \A y \in 1 .. n : w[y] = s * c[y] + sm * Q[y]
      BY <1>2, <1>13
    <3>2. s \in Int /\ sm \in Int
      BY <1>6, <1>10
    <3> QED BY <1>2, <1>3, <1>15, <2>1, <3>1, <3>2, DotLinear
  <2>3. Dot(n, w, a) = 1 * Dot(n, d, a) + 1 * Dot(n, t, a)
    <3>1. \A y \in 1 .. n : w[y] = 1 * d[y] + 1 * t[y]
      <4>1. ASSUME NEW y \in 1 .. n PROVE w[y] = 1 * d[y] + 1 * t[y]
        <5>1. w[y] = d[y] + t[y] /\ d[y] \in Int /\ t[y] \in Int
          BY <1>2, <1>11, <1>12
        <5> QED BY <5>1
      <4> QED BY <4>1
    <3>2. 1 \in Int
      OBVIOUS
    <3> QED BY <1>2, <1>15, <2>1, <3>1, <3>2, DotLinear
  <2>4. Dot(n, t, a) = t[x] * a[x]
    <3>1. n \in Nat /\ x \in 1 .. n /\ Vector(n, t) /\ OnlyAt(n, x, t)
      BY <1>2, <1>12, <1>15
    <3> QED BY <2>1, <3>1, DotPoint
  <2> DEFINE dc == Dot(n, c, a)
             dd == Dot(n, d, a)
             dq == Dot(n, Q, a)
             ax == a[x]
             k == e.k
  <2>5. dc \in Int /\ dd \in Int /\ dq \in Int /\ ax \in Int /\ k \in Int
    BY <1>1, <1>2, <1>3, <1>15, <2>1, DotType
  <2>6. At(e, a) = k + dc
    BY DEF At, n, c
  <2>7. At(def, a) = (k - m * qk) * s + dd
    BY <1>4, <1>7 DEF At, n, def
  <2>8. s * dc + sm * dq = dd + (m - 1) * ax
    <3>1. s * dc + sm * dq = 1 * dd + 1 * (t[x] * ax)
      BY <2>2, <2>3, <2>4
    <3> HIDE DEF dc, dd, dq, ax
    <3>2. t[x] * ax = (m - 1) * ax /\ (m - 1) * ax \in Int
      BY <1>6, <1>12, <2>5
    <3> QED BY <2>5, <3>1, <3>2
  <2> HIDE DEF dc, dd, dq, ax, k
  <2>9. (k - m * qk) * s + dd = s * (k + dc) + sm * (qk + dq) - (m - 1) * ax
    <3> DEFINE P == (m - 1) * ax
               R == m * qk
               T == m * dq
    <3>1. P \in Int /\ R \in Int /\ T \in Int /\ m * (qk + dq) = R + T
      BY <1>6, <1>7, <2>5
    <3>2. CASE s = 1
      <4>1. sm = -m
        BY <1>6, <3>2 DEF sm
      <4>2. sm * dq = -T /\ sm * (qk + dq) = -(R + T)
        BY <1>6, <1>7, <2>5, <3>1, <4>1
      <4>3. s * dc = dc /\ (k - R) * s = k - R /\ s * (k + dc) = k + dc
        BY <2>5, <3>1, <3>2
      <4> HIDE DEF P, R, T
      <4>4. dc - T = dd + P
        BY <2>8, <2>5, <3>1, <4>2, <4>3 DEF P
      <4>5. k - R + dd = (k + dc) + (-(R + T)) - P
        BY <2>5, <3>1, <4>4
      <4> QED BY <4>2, <4>3, <4>5 DEF R, P
    <3>3. CASE s = -1
      <4>1. sm = m
        BY <1>6, <3>3 DEF sm
      <4>2. sm * dq = T /\ sm * (qk + dq) = R + T
        BY <1>6, <1>7, <2>5, <3>1, <4>1
      <4>3. s * dc = -dc /\ (k - R) * s = R - k /\ s * (k + dc) = -(k + dc)
        BY <2>5, <3>1, <3>3
      <4> HIDE DEF P, R, T
      <4>4. T - dc = dd + P
        BY <2>8, <2>5, <3>1, <4>2, <4>3 DEF P
      <4>5. R - k + dd = -(k + dc) + (R + T) - P
        BY <2>5, <3>1, <4>4
      <4> QED BY <4>2, <4>3, <4>5 DEF R, P
    <3> QED BY <1>6, <3>2, <3>3
  <2> QED BY <2>5, <2>6, <2>7, <2>9 DEF dq, ax
<1>18. ASSUME NEW a \in Points, At(e, a) = 0
       PROVE  \E v \in Int : At(def, [a EXCEPT ![sigma] = v]) = a[x]
  <2> DEFINE ax == a[x]
             ag == a[sigma]
             dq == Dot(n, Q, a)
             y == s * ax
             v == ag - y - qk - dq
             b == [a EXCEPT ![sigma] = v]
  <2>1. ax \in Int /\ ag \in Int /\ dq \in Int
    BY <1>17, PointFields
  <2>2. y \in Int
    <3> HIDE DEF ax
    <3> QED BY <1>6, <2>1
  <2> HIDE DEF y
  <2>3. v \in Int
    <3> HIDE DEF ax, ag, dq
    <3> QED BY <2>1, <2>2
  <2>4. b \in Points /\ b[sigma] = v /\ b[x] = ax
    <3> HIDE DEF v
    <3> QED BY <1>1, <2>3 DEF Points
  <2>5. At(e, b) = 0
    <3> HIDE DEF v
    <3>1. At(e, b) = At(e, a) + e.coef[sigma] * (v - a[sigma])
      BY <1>1, <2>3, AtChange
    <3>2. v - a[sigma] \in Int
      BY <2>1, <2>3
    <3> QED BY <1>18, <3>1, <3>2
  <2>6. Dot(n, Q, b) = dq + Q[sigma] * (b[sigma] - a[sigma])
    <3>1. SameBut(n, sigma, a, b)
      BY <1>2 DEF SameBut, Points
    <3>2. Vector(n, a) /\ Vector(n, b) /\ n \in Nat /\ sigma \in 1 .. n /\ Vector(n, Q)
      BY <1>2, <1>15, <2>4, PointFields DEF n
    <3> HIDE DEF b
    <3> QED BY <3>1, <3>2, DotChange
  <2>7. Dot(n, Q, b) = dq + (v - ag)
    <3>1. Q[sigma] = 1
      BY <1>9
    <3> HIDE DEF v, b, dq
    <3> QED BY <2>1, <2>3, <2>4, <2>6, <3>1
  <2>8. At(def, b) = s * At(e, b) + sm * (qk + Dot(n, Q, b)) - (m - 1) * b[x]
    <3> HIDE DEF b
    <3> QED BY <1>17, <2>4
  <2>9. At(def, b) = s * 0 + sm * (qk + (dq + (v - ag))) - (m - 1) * ax
    BY <2>4, <2>5, <2>7, <2>8
  <2>10. qk + (dq + (v - ag)) = -y
    <3>1. v = ag - y - qk - dq /\ qk \in Int
      OBVIOUS
    <3> HIDE DEF ax, ag, dq, v
    <3> QED BY <2>1, <2>2, <2>3, <3>1, SumShift
  <2> HIDE DEF v, b, ax, ag, dq
  <2>11. At(def, b) = sm * (-y) - (m - 1) * ax
    <3>1. s * 0 = 0 /\ sm * (-y) \in Int /\ (m - 1) * ax \in Int
      BY <1>6, <1>10, <2>1, <2>2
    <3>2. At(def, b) = 0 + sm * (-y) - (m - 1) * ax
      BY <2>9, <2>10, <3>1
    <3> QED BY <3>1, <3>2
  <2>12. sm * (-y) - (m - 1) * ax = ax
    <3>0. y = s * ax
      BY DEF y
    <3>1. CASE s = 1
      <4>1. sm = -m
        BY <1>6, <3>1 DEF sm
      <4> QED BY <1>6, <2>1, <3>0, <3>1, <4>1
    <3>2. CASE s = -1
      <4>1. sm = m
        BY <1>6, <3>2 DEF sm
      <4> QED BY <1>6, <2>1, <3>0, <3>2, <4>1
    <3> QED BY <1>6, <3>1, <3>2
  <2>13. At(def, b) = a[x]
    BY <2>11, <2>12 DEF ax
  <2> QED BY <2>3, <2>13 DEF b
<1> QED BY <1>16, <1>18 DEF def

\* Eliminating an equality by a new variable keeps whether there is a solution.
THEOREM ModHatSound ==
  ASSUME NEW p \in Seq(Rows), NEW i \in DOMAIN p, p[i].eq, NEW x \in Used(p[i]),
         NEW sigma \in Vars, New(p, sigma)
  PROVE  /\ Substituted(p, x, ModHatDef(p[i], x, sigma)) \in Seq(IntRows)
         /\ Solvable(Substituted(p, x, ModHatDef(p[i], x, sigma))) <=> Solvable(p)
<1> DEFINE e == p[i]
           def == ModHatDef(e, x, sigma)
           q == Substituted(p, x, def)
           To(a) == [a EXCEPT ![x] = At(def, a)]
<1>1. e \in Rows /\ e \in IntRows /\ e.eq /\ x \in Vars /\ e.coef[x] # 0 /\ Word \subseteq Int
  BY RowsAreIntRows DEF Used
<1>2. \A j \in DOMAIN p : p[j] \in IntRows /\ p[j].coef[sigma] = 0
  <2>1. \A y \in {Asked} \cup Appear(p) : y < sigma
    BY DEF New
  <2>2. ASSUME NEW j \in DOMAIN p, p[j].coef[sigma] # 0 PROVE FALSE
    <3>1. sigma \in Appear(p)
      BY <2>2 DEF Appear, Used
    <3>2. sigma < sigma /\ sigma \in Int
      BY <2>1, <3>1 DEF Vars
    <3> QED BY <3>2
  <2> QED BY <2>2, RowsAreIntRows
<1>3. e.coef[sigma] = 0
  BY <1>2
<1> HIDE DEF e
<1>4. /\ def \in IntRows /\ def.coef[x] = 0
      /\ \A a \in Points : At(e, a) = 0 => \E v \in Int : At(def, [a EXCEPT ![sigma] = v]) = a[x]
  BY <1>1, <1>3, ModHatValue
<1> HIDE DEF def
<1>5. q \in Seq(IntRows) /\ \A a \in Points : To(a) \in Points /\ (Solves(a, q) <=> Solves(To(a), p))
  BY <1>1, <1>4, SubstitutedSound
<1> HIDE DEF q
<1>6. ASSUME NEW a \in Points, Solves(a, p) PROVE \E b \in Points : Solves(b, q)
  <2>1. At(e, a) = 0
    BY <1>1, <1>6 DEF Solves, Sat, e
  <2>2. PICK v \in Int : At(def, [a EXCEPT ![sigma] = v]) = a[x]
    BY <1>4, <2>1
  <2> DEFINE b == [a EXCEPT ![sigma] = v]
  <2>3. b \in Points
    BY <2>2 DEF Points
  <2>4. ASSUME NEW j \in DOMAIN p PROVE Sat(p[j], b)
    <3>1. At(p[j], b) = At(p[j], a) + p[j].coef[sigma] * (v - a[sigma])
      BY <1>2, AtChange
    <3>2. v - a[sigma] \in Int /\ At(p[j], a) \in Int
      BY <1>2, PointFields, AtType
    <3>3. At(p[j], b) = At(p[j], a)
      BY <1>2, <3>1, <3>2
    <3> QED BY <1>6, <3>3 DEF Solves, Sat
  <2>5. b[x] = a[x]
    <3>1. x # sigma
      BY <1>1, <1>3
    <3> QED BY <1>1, <3>1 DEF Points
  <2> HIDE DEF b
  <2>6. At(def, b) = b[x]
    BY <2>2, <2>5 DEF b
  <2>7. To(b) = b
    BY <2>3, <2>6 DEF Points
  <2>8. Solves(b, p)
    BY <2>4 DEF Solves
  <2> QED BY <1>5, <2>3, <2>7, <2>8
<1>7. Solvable(q) <=> Solvable(p)
  <2> HIDE DEF To
  <2> QED BY <1>5, <1>6 DEF Solvable
<1> QED BY <1>5, <1>7 DEF q, def, e


-----------------------------------------------------------------------------
(* Inequalities.                                                              *)

\* No row is an equality.
Inequalities(p) == \A i \in DOMAIN p : ~p[i].eq

\* The values of the rows at a point have a bound.
LEMMA ValuesBounded ==
  ASSUME NEW p \in Seq(IntRows), NEW a \in Points
  PROVE  \E b \in Nat : \A i \in DOMAIN p : At(p[i], a) <= b /\ -At(p[i], a) <= b
<1> DEFINE n == Len(p)
           f == [i \in 1 .. n |-> At(p[i], a)]
<1>1. n \in Nat /\ DOMAIN p = 1 .. n /\ \A i \in 1 .. n : p[i] \in IntRows
  OBVIOUS
<1>2. \A i \in 1 .. n : f[i] = At(p[i], a)
  OBVIOUS
<1> HIDE DEF n, f
<1>3. \A i \in 1 .. n : f[i] \in Int
  BY <1>1, <1>2, AtType
<1>4. PICK b \in Nat : \A i \in 1 .. n : f[i] <= b /\ -f[i] <= b
  BY <1>1, <1>3, BoundOfMany
<1> QED BY <1>1, <1>2, <1>4

\* A conjunction of rows of words is one of rows of integers.
LEMMA SeqIntRows ==
  ASSUME NEW p \in Seq(Rows)
  PROVE  p \in Seq(IntRows) /\ \A i \in DOMAIN p : p[i] \in IntRows /\ p[i] \in Rows
<1>1. Rows \subseteq IntRows
  BY RowsAreIntRows
<1> HIDE DEF Rows, IntRows
<1> QED BY <1>1

\* What the coefficient of a product with a step of one sign can do.
LEMMA StepUp ==
  ASSUME NEW v \in Int, NEW c \in Int, NEW d \in Int, NEW b \in Nat, -v <= b,
         (c >= 1 /\ d >= b) \/ (c <= -1 /\ d <= -b)
  PROVE  v + c * d >= 0
<1>1. CASE c >= 1 /\ d >= b
  <2>1. c * d >= d
    BY <1>1
  <2>2. c * d \in Int
    OBVIOUS
  <2> QED BY <1>1, <2>1, <2>2
<1>2. CASE c <= -1 /\ d <= -b
  <2>1. (-c) * (-d) >= -d
    BY <1>2
  <2>2. c * d \in Int /\ (-c) * (-d) = c * d
    OBVIOUS
  <2> QED BY <1>2, <2>1, <2>2
<1> QED BY <1>1, <1>2

\* A variable bounded on one side: its rows can be satisfied last.
LEMMA OneSidedSound ==
  ASSUME NEW p \in Seq(Rows), Inequalities(p), NEW x \in Vars, OneSided(p, x)
  PROVE  Solvable(Without(p, x)) <=> Solvable(p)
<1> DEFINE I == {i \in DOMAIN p : p[i].coef[x] = 0}
<1>1. \A a : Solves(a, Without(p, x)) <=> \A i \in I : Sat(p[i], a)
  <2> SUFFICES ASSUME NEW a PROVE Solves(a, Without(p, x)) <=> \A i \in I : Sat(p[i], a)
    OBVIOUS
  <2>1. Without(p, x) = Kept(p, I) /\ I \cap DOMAIN p = I
    BY DEF Without
  <2> HIDE DEF I
  <2> QED BY <2>1, SolvesKept
<1>2. p \in Seq(IntRows) /\ \A i \in DOMAIN p : p[i] \in IntRows /\ p[i].coef[x] \in Int
  BY SeqIntRows, RowFields
<1>3. ASSUME NEW a \in Points, Solves(a, p) PROVE Solves(a, Without(p, x))
  BY <1>1, <1>3 DEF Solves
<1>4. ASSUME NEW a \in Points, Solves(a, Without(p, x)) PROVE \E c \in Points : Solves(c, p)
  <2>1. PICK b \in Nat : \A i \in DOMAIN p : At(p[i], a) <= b /\ -At(p[i], a) <= b
    BY <1>2, ValuesBounded
  <2>2. PICK d \in Int : \/ d = b /\ \A i \in DOMAIN p : p[i].coef[x] >= 0
                         \/ d = -b /\ \A i \in DOMAIN p : p[i].coef[x] <= 0
    <3>1. b \in Int /\ -b \in Int
      OBVIOUS
    <3> QED BY <3>1 DEF OneSided
  <2> DEFINE v == a[x] + d
             c == [a EXCEPT ![x] = v]
  <2>3. a[x] \in Int /\ v \in Int /\ v - a[x] = d
    <3>1. a[x] \in Int
      BY PointFields
    <3> QED BY <3>1
  <2>4. c \in Points /\ \A i \in DOMAIN p : At(p[i], c) = At(p[i], a) + p[i].coef[x] * d
    <3>1. \A i \in DOMAIN p : At(p[i], c) = At(p[i], a) + p[i].coef[x] * (v - a[x])
      <4> HIDE DEF v
      <4> QED BY <1>2, <2>3, AtChange
    <3>2. c \in Points
      <4> HIDE DEF v
      <4> QED BY <2>3 DEF Points
    <3> HIDE DEF v, c
    <3> QED BY <2>3, <3>1, <3>2
  <2> HIDE DEF c, v
  <2>5. ASSUME NEW i \in DOMAIN p PROVE Sat(p[i], c)
    <3> DEFINE k == p[i].coef[x]
               e == At(p[i], a)
    <3>1. k \in Int /\ e \in Int /\ e <= b /\ -e <= b /\ At(p[i], c) = e + k * d /\ ~p[i].eq
      BY <1>2, <2>1, <2>4, AtType DEF Inequalities
    <3>2. CASE k = 0
      <4>1. Sat(p[i], a)
        BY <1>1, <1>4, <3>2
      <4>2. e >= 0
        BY <3>1, <4>1 DEF Sat
      <4> HIDE DEF k, e
      <4> QED BY <3>1, <3>2, <4>2 DEF Sat
    <3>3. CASE k # 0
      <4>1. (d = b /\ k >= 0) \/ (d = -b /\ k <= 0)
        BY <2>2
      <4> HIDE DEF k, e
      <4>2. (k >= 1 /\ d >= b) \/ (k <= -1 /\ d <= -b)
        BY <3>1, <3>3, <4>1
      <4>3. e + k * d >= 0
        BY <3>1, <4>2, StepUp
      <4> QED BY <3>1, <4>3 DEF Sat
    <3> QED BY <3>2, <3>3
  <2> QED BY <2>4, <2>5 DEF Solves
<1> QED BY <1>3, <1>4 DEF Solvable

\* Two rows that are each other's negation sum to their constants.
LEMMA OpposedSound ==
  ASSUME NEW p \in Seq(Rows), Inequalities(p), NEW i \in DOMAIN p, NEW j \in DOMAIN p,
         Opposed(p, i, j), p[i].k + p[j].k < 0
  PROVE  ~Solvable(p)
<1> SUFFICES ASSUME NEW a \in Points, Solves(a, p) PROVE FALSE
  BY DEF Solvable
<1> DEFINE n == NVars
           c == p[i].coef
           d == p[j].coef
<1>1. p[i] \in IntRows /\ p[j] \in IntRows
  BY SeqIntRows
<1>2. n \in Nat /\ Vector(n, c) /\ Vector(n, d) /\ Vector(n, a)
  BY <1>1, RowFields, PointFields, RowsAreIntRows
<1>3. \A x \in 1 .. n : d[x] = -c[x]
  BY DEF Opposed, Vars
<1>4. At(p[i], a) = p[i].k + Dot(n, c, a) /\ At(p[j], a) = p[j].k + Dot(n, d, a)
  BY DEF At
<1>5. p[i].k \in Int /\ p[j].k \in Int /\ p[i].k + p[j].k < 0
  BY <1>1, RowFields
<1>6. At(p[i], a) >= 0 /\ At(p[j], a) >= 0
  BY DEF Solves, Sat, Inequalities
<1> HIDE DEF n, c, d
<1>7. \A x \in 1 .. n : d[x] = (-1) * c[x] + 0 * c[x]
  BY <1>2, <1>3 DEF Vector
<1>8. Dot(n, d, a) = (-1) * Dot(n, c, a) + 0 * Dot(n, c, a)
  <2> DEFINE u == -1
  <2>1. u \in Int /\ 0 \in Int /\ \A x \in 1 .. n : d[x] = u * c[x] + 0 * c[x]
    BY <1>7
  <2> HIDE DEF u
  <2>2. Dot(n, d, a) = u * Dot(n, c, a) + 0 * Dot(n, c, a)
    BY <1>2, <2>1, DotLinear
  <2> QED BY <2>2 DEF u
<1>9. Dot(n, c, a) \in Int
  BY <1>2, DotType
<1>10. Dot(n, d, a) = -Dot(n, c, a)
  BY <1>8, <1>9
<1> QED BY <1>4, <1>5, <1>6, <1>9, <1>10

-----------------------------------------------------------------------------
(* Shadows.                                                                   *)

\* The coefficients of a lower and of an upper bound.
Up(r, z) == -r.coef[z]

\* How far the dark shadow of two rows is below their real one.
Gap(lo, up, z, dark) == IF dark THEN Room(lo.coef[z], Up(up, z)) ELSE 0

\* The sum of two rows that eliminates z, at a point.
LEMMA CombinedValue ==
  ASSUME NEW lo \in IntRows, NEW up \in IntRows, NEW z \in Vars, NEW dark \in BOOLEAN,
         NEW a \in Points
  PROVE  /\ Combined(lo, up, z, dark) \in IntRows
         /\ Combined(lo, up, z, dark).eq = FALSE
         /\ Combined(lo, up, z, dark).coef[z] = 0
         /\ Gap(lo, up, z, dark) \in Int
         /\ At(Combined(lo, up, z, dark), a) =
              (Up(up, z) * At(lo, a) + lo.coef[z] * At(up, a)) - Gap(lo, up, z, dark)
<1> DEFINE n == NVars
           c == lo.coef
           d == up.coef
           u == c[z]
           v == Up(up, z)
           w == [x \in Vars |-> IF x = z THEN 0 ELSE v * c[x] + u * d[x]]
           g == Gap(lo, up, z, dark)
           k == v * lo.k + u * up.k - g
           kl == lo.k
           ku == up.k
<1>1. n \in Nat /\ z \in 1 .. n /\ Vars = 1 .. n
  BY RowsAreIntRows DEF Vars
<1>2. /\ \A x \in Vars : c[x] \in Int /\ d[x] \in Int
      /\ Vector(n, c) /\ Vector(n, d) /\ Vector(n, a) /\ kl \in Int /\ ku \in Int
  BY RowFields, PointFields
<1>3. u \in Int /\ v \in Int /\ u = c[z] /\ d[z] = -v
  <2>1. d[z] \in Int /\ c[z] \in Int
    BY <1>2
  <2> QED BY <2>1 DEF Up
<1>4. Combined(lo, up, z, dark) = [coef |-> w, k |-> k, eq |-> FALSE]
  BY DEF Combined, Gap, Up
<1>5. g \in Int
  <2> DEFINE ro == Room(u, v)
  <2>1. ro \in Int
    <3> HIDE DEF u, v
    <3> QED BY <1>3 DEF Room
  <2> HIDE DEF ro
  <2>2. g = IF dark THEN ro ELSE 0
    BY DEF Gap, ro
  <2> QED BY <2>1, <2>2
<1> HIDE DEF n, c, d, u, v, g, kl, ku
<1>6. v * kl \in Int /\ u * ku \in Int /\ \A x \in Vars : v * c[x] \in Int /\ u * d[x] \in Int
  BY <1>2, <1>3
<1>7. k \in Int /\ k = (v * kl + u * ku) - g
  BY <1>5, <1>6 DEF kl, ku
<1>8. w \in [Vars -> Int] /\ w[z] = 0
  BY <1>6
<1>9. \A x \in 1 .. n : w[x] = v * c[x] + u * d[x]
  <2> SUFFICES ASSUME NEW x \in 1 .. n PROVE w[x] = v * c[x] + u * d[x]
    OBVIOUS
  <2>1. CASE x = z
    <3>1. v * c[x] = v * u /\ u * d[x] = u * (-v) /\ w[x] = 0
      BY <1>1, <1>3, <2>1
    <3>2. u * (-v) = -(v * u) /\ v * u \in Int
      BY <1>3
    <3> QED BY <3>1, <3>2
  <2>2. CASE x # z
    BY <1>1, <2>2
  <2> QED BY <2>1, <2>2
<1> HIDE DEF w, k
<1>10. Vector(n, w)
  BY <1>1, <1>8 DEF Vector
<1>11. Dot(n, w, a) = v * Dot(n, c, a) + u * Dot(n, d, a)
  BY <1>1, <1>2, <1>3, <1>9, <1>10, DotLinear
<1> DEFINE dc == Dot(n, c, a)
           dd == Dot(n, d, a)
<1>12. dc \in Int /\ dd \in Int
  BY <1>1, <1>2, DotType
<1>13. /\ At(Combined(lo, up, z, dark), a) = k + Dot(n, w, a)
       /\ At(lo, a) = kl + dc /\ At(up, a) = ku + dd
  BY <1>4 DEF At, n, c, d, kl, ku
<1> HIDE DEF dc, dd
<1>14. v * (kl + dc) = v * kl + v * dc /\ u * (ku + dd) = u * ku + u * dd
       /\ v * dc \in Int /\ u * dd \in Int
  BY <1>2, <1>3, <1>12
<1>15. Dot(n, w, a) = v * dc + u * dd
  BY <1>11 DEF dc, dd
<1>16. k + Dot(n, w, a) = (v * (kl + dc) + u * (ku + dd)) - g
  BY <1>5, <1>6, <1>7, <1>14, <1>15
<1>17. At(Combined(lo, up, z, dark), a) = (v * At(lo, a) + u * At(up, a)) - g
  BY <1>13, <1>16
<1>18. Combined(lo, up, z, dark) \in IntRows
  BY <1>4, <1>7, <1>8 DEF IntRows
<1> QED BY <1>4, <1>5, <1>8, <1>17, <1>18 DEF g, u, v, c

\* A pair of indices is one number.
First(c, u) == ((c - 1) \div u) + 1
Second(c, u) == ((c - 1) % u) + 1

\* First and Second count the pairs of 1..l and 1..u once through l*u.
LEMMA PairIndex ==
  ASSUME NEW l \in Nat, NEW u \in Nat
  PROVE  /\ \A c \in 1 .. l * u : First(c, u) \in 1 .. l /\ Second(c, u) \in 1 .. u
         /\ \A i \in 1 .. l, j \in 1 .. u : \E c \in 1 .. l * u :
              First(c, u) = i /\ Second(c, u) = j
<1>1. ASSUME NEW c \in 1 .. l * u
      PROVE  First(c, u) \in 1 .. l /\ Second(c, u) \in 1 .. u
  <2>1. l * u \in Nat /\ c \in Nat /\ c >= 1 /\ c <= l * u /\ u > 0
    <3>1. l * u \in Nat
      OBVIOUS
    <3>2. u = 0 => l * u = 0
      OBVIOUS
    <3> QED BY <3>1, <3>2
  <2> DEFINE n == c - 1
             q == n \div u
             r == n % u
  <2>2. n \in Int /\ n >= 0 /\ n < l * u
    BY <2>1
  <2> HIDE DEF n
  <2>3. q \in Int /\ r \in 0 .. u - 1 /\ n = u * q + r
    BY <2>1, <2>2, DivMod
  <2> HIDE DEF q, r
  <2>4. q >= 0
    <3> SUFFICES ASSUME q <= -1 PROVE FALSE
      BY <2>3
    <3>1. u * q <= -u
      BY <2>1, <2>3
    <3>2. u * q \in Int
      BY <2>3
    <3> QED BY <2>1, <2>2, <2>3, <3>1, <3>2
  <2>5. q <= l - 1
    <3> SUFFICES ASSUME q >= l PROVE FALSE
      BY <2>3
    <3>1. u * q >= u * l
      BY <2>1, <2>3
    <3>2. u * q \in Int /\ u * l = l * u
      BY <2>3
    <3> QED BY <2>1, <2>2, <2>3, <3>1, <3>2
  <2>6. q + 1 \in 1 .. l /\ r + 1 \in 1 .. u
    BY <2>3, <2>4, <2>5
  <2> QED BY <2>6 DEF q, r, n, First, Second
<1>2. ASSUME NEW i \in 1 .. l, NEW j \in 1 .. u
      PROVE  \E c \in 1 .. l * u : First(c, u) = i /\ Second(c, u) = j
  <2> DEFINE q == i - 1
             r == j - 1
             n == u * q + r
             c == n + 1
  <2>1. q \in Int /\ q >= 0 /\ q <= l - 1 /\ r \in 0 .. u - 1 /\ u > 0 /\ q + 1 = i /\ r + 1 = j
    OBVIOUS
  <2> HIDE DEF q, r
  <2>2. n % u = r /\ n \div u = q
    BY <2>1, DivModUnique
  <2>3. u * q \in Int /\ u * q >= 0 /\ u * q <= u * (l - 1) /\ u * (l - 1) = l * u - u /\ l * u \in Int
    BY <2>1
  <2>4. n \in Int /\ n >= 0 /\ n + 1 <= l * u
    BY <2>1, <2>3
  <2> HIDE DEF n
  <2>5. c \in 1 .. l * u /\ c - 1 = n
    BY <2>3, <2>4
  <2>6. First(c, u) = i /\ Second(c, u) = j
    BY <2>1, <2>2, <2>5 DEF First, Second
  <2> HIDE DEF c
  <2> QED BY <2>5, <2>6
<1> QED BY <1>1, <1>2

\* The rows of a shadow: those without z, and each lower with each upper bound.
LEMMA ShadowRows ==
  ASSUME NEW p \in Seq(Rows), NEW z \in Vars, NEW dark \in BOOLEAN
  PROVE  /\ Shadow(p, z, dark) \in Seq(IntRows)
         /\ \A a : Solves(a, Shadow(p, z, dark)) <=>
              /\ \A i \in DOMAIN p : p[i].coef[z] = 0 => Sat(p[i], a)
              /\ \A i \in LowerAt(p, z), j \in UpperAt(p, z) : Sat(Combined(p[i], p[j], z, dark), a)
<1> DEFINE I == {i \in DOMAIN p : p[i].coef[z] = 0}
           w == Without(p, z)
           los == Lowers(p, z)
           ups == Uppers(p, z)
           l == Len(los)
           u == Len(ups)
           C(c) == Combined(los[First(c, u)], ups[Second(c, u)], z, dark)
           s == [c \in 1 .. (l * u) |-> C(c)]
           Pair(i, j) == Combined(p[i], p[j], z, dark)
<1>1. Shadow(p, z, dark) = w \o s
  BY DEF Shadow, First, Second
<1>2. \A i \in DOMAIN p : p[i] \in IntRows
  BY SeqIntRows
<1>3. I \subseteq DOMAIN p /\ LowerAt(p, z) \subseteq DOMAIN p /\ UpperAt(p, z) \subseteq DOMAIN p
  BY DEF LowerAt, UpperAt
<1>4. w \in Seq(Rows) /\ RowsOf(w) = {p[i] : i \in I}
  <2>1. w = Kept(p, I) /\ I \cap DOMAIN p = I
    BY DEF Without
  <2> HIDE DEF I, w
  <2> QED BY <2>1, KeptRows
<1>5. los \in Seq(Rows) /\ RowsOf(los) = {p[i] : i \in LowerAt(p, z)}
  <2>1. LowerAt(p, z) \cap DOMAIN p = LowerAt(p, z)
    BY <1>3
  <2> QED BY <2>1, KeptRows DEF Lowers
<1>6. ups \in Seq(Rows) /\ RowsOf(ups) = {p[i] : i \in UpperAt(p, z)}
  <2>1. UpperAt(p, z) \cap DOMAIN p = UpperAt(p, z)
    BY <1>3
  <2> QED BY <2>1, KeptRows DEF Uppers
<1> HIDE DEF I, w, los, ups
<1>7. l \in Nat /\ u \in Nat /\ DOMAIN los = 1 .. l /\ DOMAIN ups = 1 .. u
  BY <1>5, <1>6
<1>8. /\ \A k \in 1 .. l : \E i \in LowerAt(p, z) : los[k] = p[i]
      /\ \A i \in LowerAt(p, z) : \E k \in 1 .. l : los[k] = p[i]
  <2>1. \A k \in 1 .. l : los[k] \in RowsOf(los)
    BY <1>7 DEF RowsOf
  <2>2. \A i \in LowerAt(p, z) : p[i] \in RowsOf(los)
    BY <1>5
  <2>3. \A i \in LowerAt(p, z) : \E k \in 1 .. l : los[k] = p[i]
    BY <1>7, <2>2 DEF RowsOf
  <2> QED BY <1>5, <2>1, <2>3
<1>9. /\ \A k \in 1 .. u : \E j \in UpperAt(p, z) : ups[k] = p[j]
      /\ \A j \in UpperAt(p, z) : \E k \in 1 .. u : ups[k] = p[j]
  <2>1. \A k \in 1 .. u : ups[k] \in RowsOf(ups)
    BY <1>7 DEF RowsOf
  <2>2. \A j \in UpperAt(p, z) : p[j] \in RowsOf(ups)
    BY <1>6
  <2>3. \A j \in UpperAt(p, z) : \E k \in 1 .. u : ups[k] = p[j]
    BY <1>7, <2>2 DEF RowsOf
  <2> QED BY <1>6, <2>1, <2>3
<1> HIDE DEF l, u
<1>10. l * u \in Nat
  BY <1>7
<1> HIDE DEF Pair
<1>11. \A c \in 1 .. l * u : \E i \in LowerAt(p, z), j \in UpperAt(p, z) : C(c) = Pair(i, j)
  <2> SUFFICES ASSUME NEW c \in 1 .. l * u
               PROVE  \E i \in LowerAt(p, z), j \in UpperAt(p, z) : C(c) = Pair(i, j)
    OBVIOUS
  <2>1. First(c, u) \in 1 .. l /\ Second(c, u) \in 1 .. u
    BY <1>7, PairIndex
  <2>2. PICK i \in LowerAt(p, z) : los[First(c, u)] = p[i]
    BY <1>8, <2>1
  <2>3. PICK j \in UpperAt(p, z) : ups[Second(c, u)] = p[j]
    BY <1>9, <2>1
  <2>4. C(c) = Pair(i, j)
    BY <2>2, <2>3 DEF Pair
  <2> HIDE DEF C
  <2> QED BY <2>4
<1>12. \A i \in LowerAt(p, z), j \in UpperAt(p, z) : \E c \in 1 .. l * u : C(c) = Pair(i, j)
  <2> SUFFICES ASSUME NEW i \in LowerAt(p, z), NEW j \in UpperAt(p, z)
               PROVE  \E c \in 1 .. l * u : C(c) = Pair(i, j)
    OBVIOUS
  <2>1. PICK k \in 1 .. l : los[k] = p[i]
    BY <1>8
  <2>2. PICK m \in 1 .. u : ups[m] = p[j]
    BY <1>9
  <2>3. PICK c \in 1 .. l * u : First(c, u) = k /\ Second(c, u) = m
    BY <1>7, PairIndex
  <2>4. C(c) = Pair(i, j)
    BY <2>1, <2>2, <2>3 DEF Pair
  <2> HIDE DEF C
  <2> QED BY <2>4
<1> HIDE DEF C
<1>13. \A i \in LowerAt(p, z), j \in UpperAt(p, z) : Pair(i, j) \in IntRows
  <2>1. [y \in Vars |-> 0] \in Points
    BY DEF Points
  <2> QED BY <1>2, <1>3, <2>1, CombinedValue DEF Pair
<1>14. s \in Seq(IntRows) /\ RowsOf(s) = {C(c) : c \in 1 .. l * u}
  <2>1. \A c \in 1 .. l * u : C(c) \in IntRows
    BY <1>11, <1>13
  <2> DEFINE n == l * u
  <2>2. n \in Nat
    BY <1>10
  <2> HIDE DEF n, IntRows
  <2>3. s \in Seq(IntRows) /\ DOMAIN s = 1 .. n /\ \A c \in 1 .. n : s[c] = C(c)
    BY <2>1, <2>2 DEF n
  <2> HIDE DEF s
  <2> QED BY <2>3 DEF RowsOf, n
<1>15. w \in Seq(IntRows)
  BY <1>4, SeqIntRows
<1> HIDE DEF s
<1>16. w \o s \in Seq(IntRows) /\ RowsOf(w \o s) = RowsOf(w) \cup RowsOf(s)
  BY <1>14, <1>15, ConcatRows
<1>17. ASSUME NEW a
       PROVE  Solves(a, w \o s) <=> /\ \A i \in I : Sat(p[i], a)
                                    /\ \A i \in LowerAt(p, z), j \in UpperAt(p, z) : Sat(Pair(i, j), a)
  <2>1. Solves(a, w \o s) <=> (\A r \in RowsOf(w) : Sat(r, a)) /\ (\A r \in RowsOf(s) : Sat(r, a))
    BY <1>16, SolvesRows
  <2>2. (\A r \in RowsOf(w) : Sat(r, a)) <=> \A i \in I : Sat(p[i], a)
    BY <1>4
  <2>3. (\A r \in RowsOf(s) : Sat(r, a)) <=>
          \A i \in LowerAt(p, z), j \in UpperAt(p, z) : Sat(Pair(i, j), a)
    <3>1. (\A r \in RowsOf(s) : Sat(r, a)) <=> \A c \in 1 .. l * u : Sat(C(c), a)
      BY <1>14
    <3> QED BY <1>11, <1>12, <3>1
  <2> QED BY <2>1, <2>2, <2>3
<1> QED BY <1>1, <1>16, <1>17 DEF I, Pair

\* The values of a pair of bounds.
LEMMA PairFacts ==
  ASSUME NEW p \in Seq(Rows), Inequalities(p), NEW z \in Vars,
         NEW i \in LowerAt(p, z), NEW j \in UpperAt(p, z), NEW a \in Points, NEW dark \in BOOLEAN
  PROVE  /\ i \in DOMAIN p /\ j \in DOMAIN p
         /\ p[i].coef[z] \in Nat /\ p[i].coef[z] > 0
         /\ Up(p[j], z) \in Nat /\ Up(p[j], z) > 0 /\ p[j].coef[z] = -Up(p[j], z)
         /\ At(p[i], a) \in Int /\ At(p[j], a) \in Int
         /\ Sat(p[i], a) <=> At(p[i], a) >= 0
         /\ Sat(p[j], a) <=> At(p[j], a) >= 0
         /\ Sat(Combined(p[i], p[j], z, dark), a) <=>
              (Up(p[j], z) * At(p[i], a) + p[i].coef[z] * At(p[j], a)) - Gap(p[i], p[j], z, dark) >= 0
<1>1. i \in DOMAIN p /\ j \in DOMAIN p /\ p[i].coef[z] > 0 /\ p[j].coef[z] < 0
  BY DEF LowerAt, UpperAt
<1>2. p[i] \in IntRows /\ p[j] \in IntRows /\ ~p[i].eq /\ ~p[j].eq
  BY <1>1, SeqIntRows DEF Inequalities
<1>3. p[i].coef[z] \in Int /\ p[j].coef[z] \in Int
  BY <1>2, RowFields
<1>4. At(p[i], a) \in Int /\ At(p[j], a) \in Int
  BY <1>2, AtType
<1>5. Sat(Combined(p[i], p[j], z, dark), a) <=>
        (Up(p[j], z) * At(p[i], a) + p[i].coef[z] * At(p[j], a)) - Gap(p[i], p[j], z, dark) >= 0
  <2> DEFINE c == Combined(p[i], p[j], z, dark)
             v == (Up(p[j], z) * At(p[i], a) + p[i].coef[z] * At(p[j], a)) - Gap(p[i], p[j], z, dark)
  <2>1. /\ Combined(p[i], p[j], z, dark).eq = FALSE
        /\ At(Combined(p[i], p[j], z, dark), a) =
             (Up(p[j], z) * At(p[i], a) + p[i].coef[z] * At(p[j], a)) - Gap(p[i], p[j], z, dark)
    <3>1. CASE dark = TRUE
      <4>1. TRUE \in BOOLEAN
        OBVIOUS
      <4> QED BY <1>2, <3>1, <4>1, CombinedValue
    <3>2. CASE dark = FALSE
      <4>1. FALSE \in BOOLEAN
        OBVIOUS
      <4> QED BY <1>2, <3>2, <4>1, CombinedValue
    <3>3. dark = TRUE \/ dark = FALSE
      OBVIOUS
    <3> QED BY <3>1, <3>2, <3>3
  <2> HIDE DEF c, v
  <2> QED BY <2>1 DEF Sat, c, v
<1>6. Sat(p[i], a) <=> At(p[i], a) >= 0
  BY <1>2 DEF Sat
<1>7. Sat(p[j], a) <=> At(p[j], a) >= 0
  BY <1>2 DEF Sat
<1>8. Up(p[j], z) \in Nat /\ Up(p[j], z) > 0 /\ p[j].coef[z] = -Up(p[j], z)
  <2> DEFINE d == p[j].coef[z]
  <2>1. d \in Int /\ d < 0 /\ Up(p[j], z) = -d
    BY <1>1, <1>3 DEF Up
  <2> HIDE DEF d
  <2>2. -d \in Nat /\ -d > 0 /\ d = -(-d)
    BY <2>1
  <2> QED BY <2>1, <2>2 DEF d
<1> QED BY <1>1, <1>3, <1>4, <1>5, <1>6, <1>7, <1>8

\* A solution is one of the real shadow.
LEMMA RealComplete ==
  ASSUME NEW p \in Seq(Rows), Inequalities(p), NEW z \in Vars, Solvable(p)
  PROVE  Solvable(Shadow(p, z, FALSE))
<1>1. PICK a \in Points : Solves(a, p)
  BY DEF Solvable
<1>2. ASSUME NEW i \in LowerAt(p, z), NEW j \in UpperAt(p, z)
      PROVE  Sat(Combined(p[i], p[j], z, FALSE), a)
  <2> DEFINE c == p[i].coef[z]
             b == Up(p[j], z)
             v == At(p[i], a)
             w == At(p[j], a)
  <2>0. FALSE \in BOOLEAN
    OBVIOUS
  <2>1. /\ c \in Nat /\ b \in Nat /\ v \in Int /\ w \in Int
        /\ Sat(p[i], a) <=> v >= 0
        /\ Sat(p[j], a) <=> w >= 0
        /\ Sat(Combined(p[i], p[j], z, FALSE), a) <=> (b * v + c * w) - Gap(p[i], p[j], z, FALSE) >= 0
        /\ i \in DOMAIN p /\ j \in DOMAIN p
    BY <2>0, PairFacts
  <2>2. v >= 0 /\ w >= 0
    BY <1>1, <2>1 DEF Solves
  <2>3. Gap(p[i], p[j], z, FALSE) = 0
    BY DEF Gap
  <2> HIDE DEF c, b, v, w
  <2>4. b * v >= 0 /\ c * w >= 0 /\ b * v \in Int /\ c * w \in Int
    BY <2>1, <2>2
  <2>5. (b * v + c * w) - 0 >= 0
    BY <2>4
  <2> QED BY <2>1, <2>3, <2>5
<1>3. \A i \in DOMAIN p : p[i].coef[z] = 0 => Sat(p[i], a)
  BY <1>1 DEF Solves
<1>4. Solves(a, Shadow(p, z, FALSE))
  <2>1. FALSE \in BOOLEAN
    OBVIOUS
  <2> QED BY <1>2, <1>3, <2>1, ShadowRows
<1> QED BY <1>1, <1>4 DEF Solvable

\* Room between the bounds leaves an integer there.
LEMMA RoomEnough ==
  ASSUME NEW c \in Nat, NEW b \in Nat, c > 0, b > 0, NEW v \in Int, NEW w \in Int,
         v < c, (b * v + c * w) - Room(c, b) >= 0
  PROVE  w >= 0
<1> SUFFICES ASSUME w <= -1 PROVE FALSE
  OBVIOUS
<1>1. b * v <= b * (c - 1)
  OBVIOUS
<1>2. c * w <= -c
  <2>1. c * w <= c * (-1)
    OBVIOUS
  <2> QED BY <2>1
<1>3. Room(c, b) = (b * (c - 1) - c) + 1 /\ b * (c - 1) \in Int /\ b * v \in Int /\ c * w \in Int
  <2>1. (c - 1) * (b - 1) = (b * (c - 1) - c) + 1
    OBVIOUS
  <2>2. b * (c - 1) \in Int /\ b * v \in Int /\ c * w \in Int
    OBVIOUS
  <2> QED BY <2>1, <2>2 DEF Room
<1> QED BY <1>1, <1>2, <1>3

\* A solution of the dark shadow is one of the conjunction: the least integer
\* above the lower bounds is below the upper ones.
THEOREM DarkSound ==
  ASSUME NEW p \in Seq(Rows), Inequalities(p), NEW z \in Vars, LowerAt(p, z) # {},
         Solvable(Shadow(p, z, TRUE))
  PROVE  Solvable(p)
<1>1. PICK a \in Points : Solves(a, Shadow(p, z, TRUE))
  BY DEF Solvable
<1> DEFINE To(v) == [a EXCEPT ![z] = v]
           S == {v \in Int : \A i \in LowerAt(p, z) : At(p[i], To(v)) >= 0}
<1>2. /\ a[z] \in Int /\ p \in Seq(IntRows)
      /\ \A i \in DOMAIN p : p[i] \in IntRows /\ p[i].coef[z] \in Int /\ At(p[i], a) \in Int
  BY SeqIntRows, PointFields, RowFields, AtType
<1>3. \A i \in LowerAt(p, z) : i \in DOMAIN p /\ p[i].coef[z] >= 1
  BY <1>2 DEF LowerAt
<1>4. ASSUME NEW v \in Int
      PROVE  /\ To(v) \in Points /\ To(v)[z] = v
             /\ \A i \in DOMAIN p : At(p[i], To(v)) = At(p[i], a) + p[i].coef[z] * (v - a[z])
  <2>1. To(v) \in Points /\ To(v)[z] = v
    BY DEF Points
  <2>2. ASSUME NEW i \in DOMAIN p
        PROVE  At(p[i], To(v)) = At(p[i], a) + p[i].coef[z] * (v - a[z])
    <3>1. p[i] \in IntRows
      BY <1>2
    <3> QED BY <3>1, AtChange
  <2> HIDE DEF To
  <2> QED BY <2>1, <2>2
<1> HIDE DEF To
<1>5. PICK b \in Nat : \A i \in DOMAIN p : At(p[i], a) <= b /\ -At(p[i], a) <= b
  BY <1>2, ValuesBounded
<1>6. a[z] + b \in S
  <2> DEFINE v == a[z] + b
  <2>1. v \in Int /\ v - a[z] = b
    BY <1>2
  <2> HIDE DEF v
  <2>2. ASSUME NEW i \in LowerAt(p, z) PROVE At(p[i], To(v)) >= 0
    <3> DEFINE k == p[i].coef[z]
               e == At(p[i], a)
    <3>1. k \in Int /\ k >= 1 /\ e \in Int /\ -e <= b /\ At(p[i], To(v)) = e + k * b
      BY <1>2, <1>3, <1>4, <1>5, <2>1
    <3> HIDE DEF k, e
    <3>2. e + k * b >= 0
      BY <3>1, StepUp
    <3> QED BY <3>1, <3>2
  <2> QED BY <2>1, <2>2 DEF v
<1>7. \A v \in S : a[z] - b <= v
  <2> SUFFICES ASSUME NEW v \in Int, v < a[z] - b, v \in S PROVE FALSE
    BY <1>2
  <2>1. PICK i \in LowerAt(p, z) : TRUE
    OBVIOUS
  <2> DEFINE k == p[i].coef[z]
             e == At(p[i], a)
             d == v - a[z]
  <2>2. k \in Int /\ k >= 1 /\ e \in Int /\ e <= b /\ At(p[i], To(v)) = e + k * d
    BY <1>2, <1>3, <1>4, <1>5
  <2>3. At(p[i], To(v)) >= 0
    OBVIOUS
  <2>4. d \in Int /\ d < -b
    BY <1>2
  <2> HIDE DEF k, e, d
  <2>5. k * d <= d
    BY <2>2, <2>4
  <2>6. k * d \in Int
    BY <2>2, <2>4
  <2> QED BY <2>2, <2>3, <2>4, <2>5, <2>6
<1>8. PICK v \in S : \A m \in S : v <= m
  <2>1. S \subseteq Int /\ S # {} /\ a[z] - b \in Int
    BY <1>2, <1>6
  <2> HIDE DEF S
  <2> QED BY <1>7, <2>1, LeastInteger
<1>9. v \in Int /\ v - 1 \in Int /\ v - 1 \notin S
  BY <1>8
<1>0. v \in Int
  BY <1>9
<1> DEFINE t == To(v)
<1>10. t \in Points /\ \A i \in LowerAt(p, z) : At(p[i], t) >= 0
  BY <1>4, <1>9
<1>11. \A i \in DOMAIN p : At(p[i], t) = At(p[i], a) + p[i].coef[z] * (v - a[z])
  BY <1>4, <1>9
<1>12. PICK i \in LowerAt(p, z) : ~(At(p[i], To(v - 1)) >= 0)
  BY <1>9
<1>13. At(p[i], t) < p[i].coef[z]
  <2> DEFINE k == p[i].coef[z]
             e == At(p[i], a)
             d == v - a[z]
             f == (v - 1) - a[z]
  <2>1. k \in Int /\ e \in Int /\ At(p[i], To(v - 1)) = e + k * f /\ At(p[i], t) = e + k * d
    BY <1>2, <1>3, <1>4, <1>9, <1>11
  <2>2. d \in Int /\ f = d - 1
    <3>1. a[z] \in Int
      BY <1>2
    <3> QED BY <1>0, <3>1
  <2> HIDE DEF k, e, d, f
  <2>3. k * f = k * d - k /\ k * d \in Int
    BY <2>1, <2>2
  <2> QED BY <1>12, <2>1, <2>3 DEF k
<1>14. ASSUME NEW j \in UpperAt(p, z) PROVE At(p[j], t) >= 0
  <2> DEFINE c == p[i].coef[z]
             u == Up(p[j], z)
             va == At(p[i], t)
             wa == At(p[j], t)
             C == Combined(p[i], p[j], z, TRUE)
  <2>0. TRUE \in BOOLEAN
    OBVIOUS
  <2>1. /\ c \in Nat /\ c > 0 /\ u \in Nat /\ u > 0 /\ va \in Int /\ wa \in Int
        /\ Sat(C, t) <=> (u * va + c * wa) - Gap(p[i], p[j], z, TRUE) >= 0
        /\ i \in DOMAIN p /\ j \in DOMAIN p
    BY <1>10, <2>0, PairFacts
  <2>2. Gap(p[i], p[j], z, TRUE) = Room(c, u)
    BY DEF Gap
  <2>3. Sat(C, a)
    BY <1>1, <2>0, ShadowRows
  <2>4. C \in IntRows /\ C.coef[z] = 0
    BY <1>2, <2>0, <2>1, CombinedValue
  <2>5. Sat(C, t)
    <3> HIDE DEF C
    <3>1. At(C, t) = At(C, a) + C.coef[z] * (v - a[z])
      <4>1. t = [a EXCEPT ![z] = v]
        BY DEF To
      <4> HIDE DEF t
      <4> QED BY <1>0, <2>4, <4>1, AtChange
    <3>2. At(C, a) \in Int /\ v - a[z] \in Int
      BY <1>2, <1>9, <2>4, AtType
    <3>3. At(C, t) = At(C, a)
      BY <2>4, <3>1, <3>2
    <3> QED BY <2>3, <3>3 DEF Sat
  <2>6. va < c
    BY <1>13
  <2> HIDE DEF c, u, va, wa, C
  <2>7. wa >= 0
    BY <2>1, <2>2, <2>5, <2>6, RoomEnough
  <2> QED BY <2>7 DEF wa
<1>15. ASSUME NEW j \in DOMAIN p PROVE Sat(p[j], t)
  <2>1. ~p[j].eq
    BY DEF Inequalities
  <2>2. CASE j \in LowerAt(p, z)
    BY <1>10, <2>1, <2>2 DEF Sat
  <2>3. CASE j \in UpperAt(p, z)
    BY <1>14, <2>1, <2>3 DEF Sat
  <2>4. CASE j \notin LowerAt(p, z) /\ j \notin UpperAt(p, z)
    <3>1. p[j].coef[z] = 0
      BY <1>2, <2>4 DEF LowerAt, UpperAt
    <3>2. Sat(p[j], a)
      <4>1. TRUE \in BOOLEAN
        OBVIOUS
      <4> QED BY <1>1, <3>1, <4>1, ShadowRows
    <3>3. At(p[j], t) = At(p[j], a)
      <4>1. At(p[j], t) = At(p[j], a) + p[j].coef[z] * (v - a[z])
        BY <1>11
      <4>2. At(p[j], a) \in Int /\ v - a[z] \in Int
        BY <1>2, <1>9
      <4> HIDE DEF t
      <4> QED BY <3>1, <4>1, <4>2
    <3> QED BY <3>2, <3>3 DEF Sat
  <2> QED BY <2>2, <2>3, <2>4
<1> QED BY <1>10, <1>15 DEF Solvable, Solves

\* With a unit coefficient in each pair the two shadows are one.
THEOREM ExactSound ==
  ASSUME NEW p \in Seq(Rows), Inequalities(p), NEW z \in Vars, LowerAt(p, z) # {}, Exact(p, z)
  PROVE  Solvable(Shadow(p, z, FALSE)) <=> Solvable(p)
<1>1. ASSUME NEW a \in Points, Solves(a, Shadow(p, z, FALSE)) PROVE Solves(a, Shadow(p, z, TRUE))
  <2>1. ASSUME NEW i \in LowerAt(p, z), NEW j \in UpperAt(p, z)
        PROVE  Sat(Combined(p[i], p[j], z, TRUE), a)
    <3> DEFINE c == p[i].coef[z]
               b == Up(p[j], z)
               v == At(p[i], a)
               w == At(p[j], a)
    <3>0. FALSE \in BOOLEAN /\ TRUE \in BOOLEAN
      OBVIOUS
    <3>1. /\ c \in Nat /\ c > 0 /\ b \in Nat /\ b > 0 /\ v \in Int /\ w \in Int /\ p[j].coef[z] = -b
          /\ Sat(Combined(p[i], p[j], z, FALSE), a) <=> (b * v + c * w) - Gap(p[i], p[j], z, FALSE) >= 0
          /\ i \in DOMAIN p /\ j \in DOMAIN p
      BY <3>0, PairFacts
    <3>2. Sat(Combined(p[i], p[j], z, TRUE), a) <=> (b * v + c * w) - Gap(p[i], p[j], z, TRUE) >= 0
      BY <3>0, PairFacts
    <3>3. Gap(p[i], p[j], z, FALSE) = 0 /\ Gap(p[i], p[j], z, TRUE) = Room(c, b)
      BY DEF Gap
    <3>4. Sat(Combined(p[i], p[j], z, FALSE), a)
      BY <1>1, <3>0, ShadowRows
    <3>5. c <= 1 \/ -b >= -1
      BY <3>1 DEF Exact
    <3> HIDE DEF c, b, v, w
    <3>6. c = 1 \/ b = 1
      BY <3>1, <3>5
    <3>7. Room(c, b) = 0
      BY <3>1, <3>6 DEF Room
    <3> QED BY <3>1, <3>2, <3>3, <3>4, <3>7
  <2>2. \A i \in DOMAIN p : p[i].coef[z] = 0 => Sat(p[i], a)
    <3>1. FALSE \in BOOLEAN
      OBVIOUS
    <3> QED BY <1>1, <3>1, ShadowRows
  <2>3. TRUE \in BOOLEAN
    OBVIOUS
  <2> QED BY <2>1, <2>2, <2>3, ShadowRows
<1>2. Solvable(Shadow(p, z, FALSE)) => Solvable(Shadow(p, z, TRUE))
  BY <1>1 DEF Solvable
<1> QED BY <1>2, DarkSound, RealComplete

\* A quotient is the greatest number whose product is not above.
LEMMA FloorAbove ==
  ASSUME NEW m \in Nat, m > 0, NEW n \in Int, NEW v \in Int, m * v <= n
  PROVE  v <= FloorDiv(n, m)
<1> DEFINE q == n \div m
           r == n % m
<1>1. q \in Int /\ r \in 0 .. m - 1 /\ n = m * q + r
  BY DivMod
<1>2. FloorDiv(n, m) = q
  BY DEF FloorDiv
<1> HIDE DEF q, r
<1> SUFFICES ASSUME v >= q + 1 PROVE FALSE
  BY <1>1, <1>2
<1>3. m * v >= m * (q + 1)
  BY <1>1
<1>4. m * (q + 1) = m * q + m /\ m * q \in Int /\ m * v \in Int
  BY <1>1
<1> QED BY <1>1, <1>3, <1>4

\* Without room, the lower bound is nearly reached.
LEMMA RoomMissing ==
  ASSUME NEW c \in Nat, NEW b \in Nat, NEW m \in Nat, c > 0, b > 0, b <= m, NEW v \in Nat, NEW w \in Nat,
         ~((b * v + c * w) - Room(c, b) >= 0)
  PROVE  v <= Top(c, m)
<1>1. b * v \in Int /\ c * w \in Int /\ c * w >= 0 /\ b * (c - 1) \in Int
  OBVIOUS
<1>2. Room(c, b) = (b * (c - 1) - c) + 1
  <2>1. (c - 1) * (b - 1) = (b * (c - 1) - c) + 1
    OBVIOUS
  <2> QED BY <2>1 DEF Room
<1>3. b * v <= b * (c - 1) - c
  BY <1>1, <1>2
<1> DEFINE d == (c - 1) - v
<1>4. d \in Int /\ v = (c - 1) - d
  OBVIOUS
<1>5. b * v = b * (c - 1) - b * d /\ b * d \in Int
  BY <1>4
<1> HIDE DEF d
<1>6. b * d >= c
  BY <1>1, <1>3, <1>5
<1>7. d >= 1
  <2> SUFFICES ASSUME d <= 0 PROVE FALSE
    BY <1>4
  <2>1. b * d <= 0
    BY <1>4
  <2> QED BY <1>5, <1>6, <2>1
<1>8. m * d >= b * d
  BY <1>4, <1>7
<1>9. m * v = m * (c - 1) - m * d /\ m * d \in Int /\ m * (c - 1) \in Int
  BY <1>4
<1>10. m * v <= m * (c - 1) - c
  BY <1>5, <1>6, <1>8, <1>9
<1>11. m * (c - 1) - c = c * m - c - m /\ c * m - c - m \in Int
  OBVIOUS
<1>12. m * v <= c * m - c - m
  BY <1>10, <1>11
<1>13. m > 0
  OBVIOUS
<1> DEFINE n == c * m - c - m
<1>14. n \in Int /\ m * v <= n /\ v \in Int
  BY <1>11, <1>12
<1>15. Top(c, m) = FloorDiv(n, m)
  BY DEF Top
<1> HIDE DEF n
<1> QED BY <1>13, <1>14, <1>15, FloorAbove

\* The splinters of a lower bound.
SplinterOf(p, z, k, i) == Append(p, SplinterRow(Lowers(p, z)[k], i))

\* One more row, whatever it is.
LEMMA MoreRows ==
  ASSUME NEW p \in Seq(Rows), NEW r, NEW a
  PROVE  Solves(a, Append(p, r)) <=> Solves(a, p) /\ Sat(r, a)
<1> DEFINE q == Append(p, r)
           n == Len(p)
<1>1. /\ n \in Nat /\ DOMAIN p = 1 .. n /\ DOMAIN q = 1 .. n + 1
      /\ q[n + 1] = r /\ \A i \in 1 .. n : q[i] = p[i]
  OBVIOUS
<1> HIDE DEF q, n
<1>2. \A i : i \in 1 .. n + 1 <=> i \in 1 .. n \/ i = n + 1
  BY <1>1
<1>3. Solves(a, q) <=> \A i \in 1 .. n + 1 : Sat(q[i], a)
  BY <1>1 DEF Solves
<1>4. Solves(a, p) <=> \A i \in 1 .. n : Sat(p[i], a)
  BY <1>1 DEF Solves
<1> HIDE DEF Sat
<1> QED BY <1>1, <1>2, <1>3, <1>4 DEF q

\* A solution of a splinter is one of the conjunction.
LEMMA SplinterSound ==
  ASSUME NEW p \in Seq(Rows), NEW r, Solvable(Append(p, r))
  PROVE  Solvable(p)
BY MoreRows DEF Solvable

\* A solution that is none of the dark shadow is one of a splinter.
THEOREM SplinterCover ==
  ASSUME NEW p \in Seq(Rows), Inequalities(p), NEW z \in Vars, NEW m \in Int, Largest(p, z, m),
         Solvable(p), ~Solvable(Shadow(p, z, TRUE))
  PROVE  \E k \in DOMAIN Lowers(p, z) : \E i \in Nat :
           i <= Top(Lowers(p, z)[k].coef[z], m) /\ Solvable(SplinterOf(p, z, k, i))
<1>1. PICK a \in Points : Solves(a, p)
  BY DEF Solvable
<1>2. ~Solves(a, Shadow(p, z, TRUE))
  BY DEF Solvable
<1>3. TRUE \in BOOLEAN
  OBVIOUS
<1>4. PICK i \in LowerAt(p, z), j \in UpperAt(p, z) : ~Sat(Combined(p[i], p[j], z, TRUE), a)
  <2>1. \A h \in DOMAIN p : p[h].coef[z] = 0 => Sat(p[h], a)
    BY <1>1 DEF Solves
  <2> QED BY <1>2, <1>3, <2>1, ShadowRows
<1> DEFINE c == p[i].coef[z]
           b == Up(p[j], z)
           v == At(p[i], a)
           w == At(p[j], a)
<1>5. /\ i \in DOMAIN p /\ j \in DOMAIN p /\ c \in Nat /\ c > 0 /\ b \in Nat /\ b > 0
      /\ v \in Int /\ w \in Int
      /\ Sat(p[i], a) <=> v >= 0
      /\ Sat(p[j], a) <=> w >= 0
      /\ Sat(Combined(p[i], p[j], z, TRUE), a) <=> (b * v + c * w) - Gap(p[i], p[j], z, TRUE) >= 0
  BY <1>3, PairFacts
<1>6. Gap(p[i], p[j], z, TRUE) = Room(c, b)
  BY DEF Gap
<1>7. Sat(p[i], a) /\ Sat(p[j], a)
  BY <1>1, <1>5 DEF Solves
<1>8. b <= m
  BY <1>5 DEF Largest, Up
<1>9. v <= Top(c, m) /\ v \in Nat
  <2> HIDE DEF c, b, v, w
  <2>1. v \in Nat /\ w \in Nat /\ m \in Nat
    BY <1>5, <1>7, <1>8
  <2>2. ~((b * v + c * w) - Room(c, b) >= 0)
    BY <1>4, <1>5, <1>6
  <2> QED BY <1>5, <1>8, <2>1, <2>2, RoomMissing
<1>10. PICK k \in DOMAIN Lowers(p, z) : Lowers(p, z)[k] = p[i]
  <2>1. i \in LowerAt(p, z) \cap DOMAIN p
    BY <1>5
  <2> QED BY <2>1, IndexKept DEF Lowers
<1>11. Sat(SplinterRow(p[i], v), a)
  <2> DEFINE r == SplinterRow(p[i], v)
             d == Dot(NVars, p[i].coef, a)
             l == p[i].k
  <2>1. p[i] \in IntRows
    BY <1>5, SeqIntRows
  <2>2. l \in Int /\ d \in Int
    BY <2>1, RowFields, AtType
  <2>3. v = l + d /\ At(r, a) = (l - v) + d /\ r.eq = TRUE
    BY DEF At, SplinterRow
  <2> HIDE DEF v, l, d, r
  <2>4. At(r, a) = 0
    BY <2>2, <2>3
  <2> QED BY <2>3, <2>4 DEF Sat, r
<1>12. Solvable(SplinterOf(p, z, k, v))
  <2>1. Solves(a, Append(p, SplinterRow(p[i], v)))
    <3> HIDE DEF v
    <3> QED BY <1>1, <1>11, MoreRows
  <2> QED BY <1>10, <2>1 DEF Solvable, SplinterOf
<1>13. v <= Top(Lowers(p, z)[k].coef[z], m)
  BY <1>9, <1>10
<1> HIDE DEF v
<1> QED BY <1>9, <1>12, <1>13

\* The upper bounds have a largest coefficient.
LEMMA LargestExists ==
  ASSUME NEW p \in Seq(Rows), NEW z \in Vars, UpperAt(p, z) # {}
  PROVE  \E m \in Int : Largest(p, z, m)
<1> DEFINE S == {-p[i].coef[z] : i \in DOMAIN p}
           B == WordBound
<1>1. \A i \in DOMAIN p : -p[i].coef[z] \in Int /\ -p[i].coef[z] <= B
  <2> SUFFICES ASSUME NEW i \in DOMAIN p PROVE -p[i].coef[z] \in Int /\ -p[i].coef[z] <= B
    OBVIOUS
  <2> DEFINE d == p[i].coef[z]
  <2>1. d \in Word
    <3>1. p[i] \in Rows
      OBVIOUS
    <3> HIDE DEF Word
    <3> QED BY <3>1 DEF Rows
  <2>2. B \in Nat
    BY SizesAssumption
  <2> HIDE DEF d, B
  <2>3. d \in Int /\ d >= -B
    BY <2>1, <2>2 DEF Word, MinWord, MaxWord, B
  <2>4. -d \in Int /\ -d <= B
    BY <2>2, <2>3
  <2> QED BY <2>4 DEF d
<1>2. S \subseteq Int /\ S # {} /\ B \in Int /\ \A n \in S : n <= B
  <2>1. \E i \in DOMAIN p : TRUE
    BY DEF UpperAt
  <2>2. B \in Int
    BY SizesAssumption
  <2> HIDE DEF B
  <2> QED BY <1>1, <2>1, <2>2
<1>3. PICK m \in S : \A n \in S : n <= m
  <2> HIDE DEF S, B
  <2> QED BY <1>2, GreatestInteger
<1>4. m \in Int
  BY <1>2
<1>5. Largest(p, z, m)
  BY <1>3 DEF Largest
<1> QED BY <1>4, <1>5

-----------------------------------------------------------------------------
(* The stack, and what the answer being sought will mean.                     *)

Frames == [at : {"dark", "real", "splinter"}, p : Seq(Rows), z : Vars, lo : Nat \ {0}, i : Nat]

\* The splinters tried so far have no solution.
Refuted(f) ==
  \A m \in Int : Largest(f.p, f.z, m) =>
    \A k \in DOMAIN Lowers(f.p, f.z), i \in Nat :
      (k < f.lo /\ i <= Top(Lowers(f.p, f.z)[k].coef[f.z], m)) \/ (k = f.lo /\ i < f.i)
        => ~Solvable(SplinterOf(f.p, f.z, k, i))

\* What is known of a conjunction set aside: it has no equality and bounds on
\* both sides, and what was tried of it and failed.
Standing(f) ==
  /\ Inequalities(f.p) /\ LowerAt(f.p, f.z) # {} /\ UpperAt(f.p, f.z) # {}
  /\ f.at # "dark" => ~Solvable(Shadow(f.p, f.z, TRUE))
  /\ f.at = "real" => f.lo = 1
  /\ f.at = "splinter" => Refuted(f)

\* Whether the conjunction decided for a frame has a solution.
Means(f) ==
  /\ f.at = "dark" => Solvable(Shadow(f.p, f.z, TRUE))
  /\ f.at = "real" => Solvable(Shadow(f.p, f.z, FALSE))
  /\ f.at = "splinter" => Solvable(SplinterOf(f.p, f.z, f.lo, f.i))

\* What is asked above the j-th frame: of the first, the question itself.
Asking(q, s, j) == IF j = 0 THEN Solvable(q) ELSE Means(s[j])
Meant(q, s) == Asking(q, s, Len(s))

\* Each conjunction set aside answers what is asked below it.
Linked(q, s) == \A j \in 1 .. Len(s) : Standing(s[j]) /\ (Solvable(s[j].p) <=> Asking(q, s, j - 1))

\* A conjunction set aside for one that settles it: the chain of meanings is one
\* longer.
LEMMA PushLinked ==
  ASSUME NEW q, NEW s \in Seq(Frames), NEW f \in Frames, Linked(q, s), Standing(f),
         Solvable(f.p) <=> Meant(q, s)
  PROVE  /\ Append(s, f) \in Seq(Frames) /\ Append(s, f) # <<>>
         /\ Append(s, f)[Len(Append(s, f))] = f
         /\ Linked(q, Append(s, f)) /\ (Meant(q, Append(s, f)) <=> Means(f))
<1> DEFINE t == Append(s, f)
           n == Len(s)
<1>1. /\ n \in Nat /\ t \in Seq(Frames) /\ Len(t) = n + 1 /\ t # <<>>
      /\ t[n + 1] = f /\ \A j \in 1 .. n : t[j] = s[j]
  <2> HIDE DEF Frames
  <2> QED OBVIOUS
<1>2. n + 1 # 0 /\ (n + 1) - 1 = n
  BY <1>1
<1> HIDE DEF t
<1>3. Meant(q, t) <=> Means(f)
  BY <1>1, <1>2 DEF Meant, Asking
<1>4. \A j \in 0 .. n : Asking(q, t, j) <=> Asking(q, s, j)
  <2> SUFFICES ASSUME NEW j \in 0 .. n PROVE Asking(q, t, j) <=> Asking(q, s, j)
    OBVIOUS
  <2>1. CASE j = 0
    BY <2>1 DEF Asking
  <2>2. CASE j # 0
    <3>1. t[j] = s[j]
      BY <1>1, <2>2
    <3> QED BY <3>1 DEF Asking
  <2> QED BY <2>1, <2>2
<1>5. ASSUME NEW j \in 1 .. n + 1
      PROVE  Standing(t[j]) /\ (Solvable(t[j].p) <=> Asking(q, t, j - 1))
  <2>1. CASE j = n + 1
    <3>1. t[j] = f /\ j - 1 = n /\ n \in 0 .. n
      BY <1>1, <1>2, <2>1
    <3>2. Asking(q, t, n) <=> Meant(q, s)
      BY <1>4, <3>1 DEF Meant
    <3> QED BY <3>1, <3>2
  <2>2. CASE j # n + 1
    <3>1. j \in 1 .. n /\ j - 1 \in 0 .. n /\ t[j] = s[j]
      BY <1>1, <2>2
    <3>2. Standing(s[j]) /\ (Solvable(s[j].p) <=> Asking(q, s, j - 1))
      BY <3>1 DEF Linked
    <3> QED BY <1>4, <3>1, <3>2
  <2> QED BY <2>1, <2>2
<1>6. Linked(q, t)
  BY <1>1, <1>5 DEF Linked
<1> QED BY <1>1, <1>3, <1>6 DEF t

\* The innermost conjunction set aside becomes the one under way again.
LEMMA PopLinked ==
  ASSUME NEW q, NEW s \in Seq(Frames), s # <<>>, Linked(q, s)
  PROVE  /\ SubSeq(s, 1, Len(s) - 1) \in Seq(Frames) /\ s[Len(s)] \in Frames
         /\ Linked(q, SubSeq(s, 1, Len(s) - 1)) /\ Standing(s[Len(s)])
         /\ Solvable(s[Len(s)].p) <=> Meant(q, SubSeq(s, 1, Len(s) - 1))
         /\ Meant(q, s) <=> Means(s[Len(s)])
<1> DEFINE n == Len(s)
           t == SubSeq(s, 1, n - 1)
           f == s[n]
<1>1. /\ n \in Nat /\ n > 0 /\ n \in 1 .. n /\ t \in Seq(Frames) /\ Len(t) = n - 1 /\ f \in Frames
      /\ \A j \in 1 .. n - 1 : t[j] = s[j]
  <2> HIDE DEF Frames
  <2>1. n \in Nat /\ n > 0 /\ n \in 1 .. n /\ f \in Frames
    OBVIOUS
  <2>2. t \in Seq(Frames) /\ Len(t) = n - 1 /\ \A j \in 1 .. n - 1 : t[j] = s[j]
    <3>1. \A j \in 1 .. n - 1 : s[j] \in Frames
      BY <2>1
    <3>2. t = [j \in 1 .. n - 1 |-> s[j]]
      BY <2>1
    <3>3. n - 1 \in Nat
      BY <2>1
    <3> DEFINE m == n - 1
    <3> HIDE DEF t, n, m
    <3>4. /\ [j \in 1 .. m |-> s[j]] \in Seq(Frames) /\ Len([j \in 1 .. m |-> s[j]]) = m
          /\ \A k \in 1 .. m : [j \in 1 .. m |-> s[j]][k] = s[k]
      BY <3>1, <3>3 DEF m
    <3> QED BY <3>2, <3>4 DEF m
  <2> QED BY <2>1, <2>2
<1> HIDE DEF t
<1>2. \A j \in 0 .. n - 1 : Asking(q, t, j) <=> Asking(q, s, j)
  <2> SUFFICES ASSUME NEW j \in 0 .. n - 1 PROVE Asking(q, t, j) <=> Asking(q, s, j)
    OBVIOUS
  <2>1. CASE j = 0
    BY <2>1 DEF Asking
  <2>2. CASE j # 0
    <3>1. t[j] = s[j]
      BY <1>1, <2>2
    <3> QED BY <3>1 DEF Asking
  <2> QED BY <2>1, <2>2
<1>3. Standing(f) /\ (Solvable(f.p) <=> Asking(q, s, n - 1))
  BY <1>1 DEF Linked
<1>4. Meant(q, t) <=> Asking(q, s, n - 1)
  <2>1. n - 1 \in 0 .. n - 1
    BY <1>1
  <2> QED BY <1>1, <1>2, <2>1 DEF Meant
<1>5. Meant(q, s) <=> Means(f)
  <2>1. n # 0
    BY <1>1
  <2> QED BY <2>1 DEF Meant, Asking
<1>6. ASSUME NEW j \in 1 .. n - 1
      PROVE  Standing(t[j]) /\ (Solvable(t[j].p) <=> Asking(q, t, j - 1))
  <2>1. j \in 1 .. n /\ j - 1 \in 0 .. n - 1 /\ t[j] = s[j]
    BY <1>1
  <2>2. Standing(s[j]) /\ (Solvable(s[j].p) <=> Asking(q, s, j - 1))
    BY <2>1 DEF Linked
  <2> QED BY <1>2, <2>1, <2>2
<1>7. Linked(q, t)
  BY <1>1, <1>6 DEF Linked
<1> HIDE DEF n, f
<1> QED BY <1>1, <1>3, <1>4, <1>5, <1>7 DEF t, f, n

-----------------------------------------------------------------------------
(* The invariant.                                                             *)

OmegaTypeOK ==
  /\ question \in Questions /\ prob \in Seq(Rows) /\ val \in BOOLEAN
  /\ ctl \in {"solve", "decide", "return", "splinter", "done"}
  /\ stack \in Seq(Frames) /\ budget \in 0 .. Budget
  /\ result \in {"none", "unknown", "sat", "unsat"}

\* What is decided, or was answered, is what is asked.
Sought ==
  /\ ctl \in {"solve", "decide"} => (Solvable(prob) <=> Meant(question, stack))
  /\ ctl = "return" => (val <=> Meant(question, stack))
  /\ ctl = "splinter" => stack # <<>> /\ stack[Len(stack)].at = "splinter"

Answers ==
  /\ result = "sat" => Solvable(question)
  /\ result = "unsat" => ~Solvable(question)

OmegaInv == OmegaTypeOK /\ Linked(question, stack) /\ Sought /\ Answers

\* No constant that has no negation is negated: the code does not check it.
NegationFits ==
  ctl = "decide" =>
    \A i \in DOMAIN prob : FirstEq(prob, i) =>
      \A x \in Used(prob[i]) : Pivot(prob[i], x) /\ Abs(prob[i].coef[x]) = 1 => prob[i].k # MinWord

\* What Solve leaves: the conjunction, or no answer.
LEMMA SolveFacts ==
  ASSUME NEW q \in Seq(IntRows), NEW steps, Solve(q, steps)
  PROVE  /\ val' = val
         /\ \/ ctl' = "done" /\ result' = "unknown" /\ prob' = prob
            \/ ctl' = "solve" /\ result' = result /\ prob' = q /\ q \in Seq(Rows)
<1> DEFINE N == UNION {Numbers(q[i]) : i \in DOMAIN q}
<1>1. val' = val
  BY DEF Solve
<1>2. CASE Panics(steps \cup N)
  BY <1>1, <1>2 DEF Solve
<1>3. CASE ~Panics(steps \cup N)
  <2>1. ctl' = "solve" /\ prob' = [i \in DOMAIN q |-> InWord(q[i])] /\ result' = result
    BY <1>3 DEF Solve
  <2>2. N \subseteq Word
    BY <1>3 DEF Panics
  <2>3. ASSUME NEW i \in DOMAIN q PROVE InWord(q[i]) = q[i] /\ q[i] \in Rows
    <3> DEFINE r == q[i]
    <3>1. r \in IntRows
      OBVIOUS
    <3>2. Numbers(r) \subseteq Word
      BY <2>2
    <3> HIDE DEF r
    <3>3. r.k \in Word /\ \A x \in Vars : r.coef[x] \in Word
      BY <3>2 DEF Numbers
    <3>4. Wrapped(r.k) = r.k
      <4>1. r.k \in Int
        BY <3>1, RowFields
      <4> QED BY <3>3, <4>1, WrappedExact
    <3>5. \A x \in Vars : Wrapped(r.coef[x]) = r.coef[x]
      <4>1. \A x \in Vars : r.coef[x] \in Int
        BY <3>1, RowFields
      <4> QED BY <3>3, <4>1, WrappedExact
    <3>6. r.coef \in [Vars -> Int] /\ r.eq \in BOOLEAN
      BY <3>1, RowFields
    <3>7. r = [coef |-> r.coef, k |-> r.k, eq |-> r.eq]
      BY <3>1 DEF IntRows
    <3>8. [x \in Vars |-> Wrapped(r.coef[x])] = r.coef
      BY <3>5, <3>6
    <3>9. InWord(r) = r
      BY <3>4, <3>7, <3>8 DEF InWord
    <3> HIDE DEF Word
    <3>10. r.coef \in [Vars -> Word]
      BY <3>3, <3>6
    <3>11. r \in Rows
      BY <3>3, <3>6, <3>7, <3>10 DEF Rows
    <3> QED BY <3>9, <3>11 DEF r
  <2> HIDE DEF N
  <2>4. DOMAIN q = 1 .. Len(q) /\ Len(q) \in Nat /\ q = [i \in DOMAIN q |-> q[i]]
    <3> HIDE DEF IntRows
    <3> QED OBVIOUS
  <2>5. prob' = q
    BY <2>1, <2>3, <2>4
  <2>6. q \in Seq(Rows)
    <3> HIDE DEF Rows
    <3> QED BY <2>3, <2>4
  <2> QED BY <1>1, <2>1, <2>5, <2>6
<1> QED BY <1>2, <1>3

-----------------------------------------------------------------------------
(* The steps keep the invariant.                                              *)

\* A step to a conjunction that has a solution when what is asked is so.
LEMMA SolveStep ==
  ASSUME OmegaInv, NEW q \in Seq(IntRows), NEW steps, Solve(q, steps),
         question' = question, stack' \in Seq(Frames), Linked(question, stack'),
         budget' \in 0 .. Budget, Solvable(q) <=> Meant(question, stack')
  PROVE  OmegaInv'
<1>1. /\ val' = val
      /\ \/ ctl' = "done" /\ result' = "unknown" /\ prob' = prob
         \/ ctl' = "solve" /\ result' = result /\ prob' = q /\ q \in Seq(Rows)
  BY SolveFacts
<1>2. OmegaTypeOK /\ Answers
  BY DEF OmegaInv
<1>3. CASE ctl' = "done" /\ result' = "unknown" /\ prob' = prob
  <2>1. OmegaTypeOK'
    BY <1>1, <1>2, <1>3 DEF OmegaTypeOK
  <2>2. Sought'
    BY <1>3 DEF Sought
  <2>3. Answers'
    BY <1>3 DEF Answers
  <2> QED BY <2>1, <2>2, <2>3 DEF OmegaInv
<1>4. CASE ctl' = "solve" /\ result' = result /\ prob' = q /\ q \in Seq(Rows)
  <2>1. OmegaTypeOK'
    BY <1>1, <1>2, <1>4 DEF OmegaTypeOK
  <2>2. Sought'
    BY <1>4 DEF Sought
  <2>3. Answers'
    BY <1>2, <1>4 DEF Answers
  <2> QED BY <2>1, <2>2, <2>3 DEF OmegaInv
<1> QED BY <1>1, <1>3, <1>4

\* A step that ends with no answer.
LEMMA UnknownStep ==
  ASSUME OmegaInv, ctl' = "done", result' = "unknown", question' = question, prob' = prob,
         val' = val, stack' = stack, budget' \in 0 .. Budget
  PROVE  OmegaInv'
<1>1. OmegaTypeOK /\ Linked(question, stack)
  BY DEF OmegaInv
<1>2. OmegaTypeOK'
  BY <1>1 DEF OmegaTypeOK
<1>3. Sought' /\ Answers'
  BY DEF Sought, Answers
<1> QED BY <1>1, <1>2, <1>3 DEF OmegaInv

\* A step that answers what is asked.
LEMMA ReturnStep ==
  ASSUME OmegaInv, ctl' = "return", result' = result, question' = question, prob' = prob,
         val' \in BOOLEAN, stack' \in Seq(Frames), Linked(question, stack'),
         budget' \in 0 .. Budget, val' <=> Meant(question, stack')
  PROVE  OmegaInv'
<1>1. OmegaTypeOK /\ Answers
  BY DEF OmegaInv
<1>2. OmegaTypeOK'
  BY <1>1 DEF OmegaTypeOK
<1>3. Sought'
  BY DEF Sought
<1>4. Answers'
  BY <1>1 DEF Answers
<1> QED BY <1>2, <1>3, <1>4 DEF OmegaInv

\* The budget is gone: no answer is given.
LEMMA ExhaustedStep ==
  ASSUME OmegaInv, Exhausted
  PROVE  OmegaInv'
<1>1. /\ ctl' = "done" /\ result' = "unknown" /\ question' = question /\ prob' = prob
      /\ val' = val /\ stack' = stack /\ budget' = budget
  BY DEF Exhausted
<1>2. budget \in 0 .. Budget
  BY DEF OmegaInv, OmegaTypeOK
<1> QED BY <1>1, <1>2, UnknownStep

\* A row no integer satisfies refutes the conjunction; otherwise dividing the
\* rows keeps the solutions.
LEMMA NormalizeStep ==
  ASSUME OmegaInv, Normalize
  PROVE  OmegaInv'
<1>1. /\ OmegaTypeOK /\ Linked(question, stack) /\ Answers
      /\ Solvable(prob) <=> Meant(question, stack)
  BY DEF OmegaInv, Sought, Normalize, Ticking
<1>2. question' = question /\ stack' = stack /\ budget' \in 0 .. Budget
  BY <1>1, SizesAssumption DEF Normalize, Ticking, OmegaTypeOK
<1>3. prob \in Seq(Rows) /\ stack \in Seq(Frames)
  BY <1>1 DEF OmegaTypeOK
<1>4. CASE \A i \in DOMAIN prob : ~Stops(prob[i])
  <2>1. ctl' = "decide" /\ prob' = Normal(prob) /\ val' = val /\ result' = result
    BY <1>4 DEF Normalize
  <2>2. \A i \in DOMAIN prob : ~Contradicts(prob[i])
    BY <1>4 DEF Stops
  <2>3. Normal(prob) \in Seq(Rows) /\ \A a \in Points : Solves(a, Normal(prob)) <=> Solves(a, prob)
    BY <1>3, <2>2, NormalSound
  <2>4. Solvable(Normal(prob)) <=> Solvable(prob)
    BY <2>3 DEF Solvable
  <2>5. OmegaTypeOK'
    BY <1>1, <1>2, <2>1, <2>3 DEF OmegaTypeOK
  <2>6. Sought'
    BY <1>1, <1>2, <2>1, <2>4 DEF Sought
  <2>7. Answers' /\ Linked(question, stack)'
    BY <1>1, <1>2, <2>1 DEF Answers
  <2> QED BY <2>5, <2>6, <2>7 DEF OmegaInv
<1>5. CASE \E i \in DOMAIN prob : Stops(prob[i])
  <2>1. PICK i \in DOMAIN prob :
          /\ Stops(prob[i])
          /\ IF MinWord \in {prob[i].coef[x] : x \in Vars}
             THEN ctl' = "done" /\ result' = "unknown" /\ UNCHANGED <<prob, val>>
             ELSE Give(FALSE) /\ UNCHANGED <<prob, result>>
    BY <1>5 DEF Normalize
  <2>2. CASE MinWord \in {prob[i].coef[x] : x \in Vars}
    <3>1. ctl' = "done" /\ result' = "unknown" /\ prob' = prob /\ val' = val
      BY <2>1, <2>2
    <3> QED BY <1>2, <3>1, UnknownStep
  <2>3. CASE MinWord \notin {prob[i].coef[x] : x \in Vars}
    <3>1. ctl' = "return" /\ val' = FALSE /\ prob' = prob /\ result' = result
      BY <2>1, <2>3 DEF Give
    <3>2. Contradicts(prob[i])
      BY <2>1, <2>3 DEF Stops
    <3>3. ~Solvable(prob)
      <4>1. prob[i] \in IntRows
        BY <1>3, SeqIntRows
      <4>2. \A a \in Points : ~Sat(prob[i], a)
        BY <3>2, <4>1, ContradictsSound
      <4> QED BY <4>2 DEF Solvable, Solves
    <3>4. val' \in BOOLEAN /\ (val' <=> Meant(question, stack'))
      BY <1>1, <1>2, <3>1, <3>3
    <3>5. Linked(question, stack') /\ stack' \in Seq(Frames)
      BY <1>1, <1>2, <1>3
    <3> QED BY <1>2, <3>1, <3>4, <3>5, ReturnStep
  <2> QED BY <2>2, <2>3
<1> QED BY <1>4, <1>5

\* What is known where the conjunction is decided.
LEMMA DecideFacts ==
  ASSUME OmegaInv, Deciding
  PROVE  /\ OmegaTypeOK /\ Linked(question, stack) /\ (Solvable(prob) <=> Meant(question, stack))
         /\ prob \in Seq(Rows) /\ stack \in Seq(Frames)
         /\ ctl = "decide" /\ question' = question /\ budget' \in 0 .. Budget
<1>1. ctl = "decide" /\ question' = question /\ budget' = budget
  BY DEF Deciding
<1>2. OmegaTypeOK /\ Linked(question, stack) /\ (Solvable(prob) <=> Meant(question, stack))
  BY <1>1 DEF OmegaInv, Sought
<1> QED BY <1>1, <1>2 DEF OmegaTypeOK

\* A step of deciding to a conjunction that has a solution when this one has.
LEMMA DecideStep ==
  ASSUME OmegaInv, Deciding, NEW q \in Seq(IntRows), NEW steps, Solve(q, steps),
         stack' = stack, Solvable(q) <=> Solvable(prob)
  PROVE  OmegaInv'
<1>1. /\ Linked(question, stack) /\ (Solvable(prob) <=> Meant(question, stack))
      /\ stack \in Seq(Frames) /\ question' = question /\ budget' \in 0 .. Budget
  BY DecideFacts
<1>2. stack' \in Seq(Frames) /\ Linked(question, stack') /\ (Solvable(q) <=> Meant(question, stack'))
  BY <1>1
<1> QED BY <1>1, <1>2, SolveStep

\* A variable with coefficient 1 or -1 is solved for.
LEMMA EliminateUnitStep ==
  ASSUME OmegaInv, NegationFits, EliminateUnit
  PROVE  OmegaInv'
<1>1. Deciding /\ stack' = stack
  BY DEF EliminateUnit
<1>2. PICK i \in DOMAIN prob : FirstEq(prob, i) /\ \E x \in Used(prob[i]) :
        LET e    == prob[i]
            def  == UnitDef(e, x)
            rest == Kept(prob, DOMAIN prob \ {i})
        IN  /\ Pivot(e, x) /\ Abs(e.coef[x]) = 1
            /\ Solve([j \in DOMAIN rest |-> Substitute(rest[j], x, def)],
                     Numbers(def) \cup UNION {SubstituteSteps(rest[j], x, def) : j \in DOMAIN rest})
  BY DEF EliminateUnit
<1> DEFINE e == prob[i]
           rest == Kept(prob, DOMAIN prob \ {i})
           Steps2(x) == Numbers(UnitDef(e, x))
                        \cup UNION {SubstituteSteps(rest[j], x, UnitDef(e, x)) : j \in DOMAIN rest}
<1>3. PICK x \in Used(e) : /\ Pivot(e, x) /\ Abs(e.coef[x]) = 1
                           /\ Solve(Substituted(rest, x, UnitDef(e, x)), Steps2(x))
  BY <1>2 DEF Substituted
<1>4. prob \in Seq(Rows) /\ ctl = "decide"
  BY <1>1, DecideFacts
<1>5. e.k # MinWord
  BY <1>2, <1>3, <1>4 DEF NegationFits
<1>6. e.eq /\ x \in Vars
  BY <1>2 DEF FirstEq, Used
<1>7. /\ Substituted(rest, x, UnitDef(e, x)) \in Seq(IntRows)
      /\ Solvable(Substituted(rest, x, UnitDef(e, x))) <=> Solvable(prob)
  BY <1>3, <1>4, <1>5, <1>6, UnitSound
<1> DEFINE q == Substituted(rest, x, UnitDef(e, x))
           s == Steps2(x)
<1>8. q \in Seq(IntRows) /\ Solve(q, s) /\ (Solvable(q) <=> Solvable(prob))
  BY <1>3, <1>7
<1> HIDE DEF q, s
<1> QED BY <1>1, <1>8, DecideStep

\* The mod-hat step keeps whether there is a solution.
LEMMA EliminateModHatStep ==
  ASSUME OmegaInv, EliminateModHat
  PROVE  OmegaInv'
<1>1. Deciding /\ stack' = stack
  BY DEF EliminateModHat
<1>2. PICK i \in DOMAIN prob : FirstEq(prob, i) /\ \E x \in Used(prob[i]) : \E sigma \in Vars :
        LET e   == prob[i]
            def == ModHatDef(e, x, sigma)
        IN  /\ Pivot(e, x) /\ Abs(e.coef[x]) # 1 /\ New(prob, sigma)
            /\ Solve([j \in DOMAIN prob |-> Substitute(prob[j], x, def)],
                     ModHatDefSteps(e, x) \cup Numbers(def)
                     \cup UNION {SubstituteSteps(prob[j], x, def) : j \in DOMAIN prob})
  BY DEF EliminateModHat
<1> DEFINE e == prob[i]
           def(x, sigma) == ModHatDef(e, x, sigma)
           Steps2(x, sigma) == ModHatDefSteps(e, x) \cup Numbers(def(x, sigma))
                               \cup UNION {SubstituteSteps(prob[j], x, def(x, sigma)) : j \in DOMAIN prob}
<1>3. PICK x \in Used(e), sigma \in Vars :
        New(prob, sigma) /\ Solve(Substituted(prob, x, def(x, sigma)), Steps2(x, sigma))
  BY <1>2 DEF Substituted
<1>4. prob \in Seq(Rows)
  BY <1>1, DecideFacts
<1>5. e.eq
  BY <1>2 DEF FirstEq
<1> DEFINE q == Substituted(prob, x, def(x, sigma))
           s == Steps2(x, sigma)
<1>6. q \in Seq(IntRows) /\ (Solvable(q) <=> Solvable(prob))
  BY <1>3, <1>4, <1>5, ModHatSound
<1>7. Solve(q, s)
  BY <1>3
<1> HIDE DEF q, s
<1> QED BY <1>1, <1>6, <1>7, DecideStep

\* A conjunction without rows has a solution.
LEMMA TrivialStep ==
  ASSUME OmegaInv, Trivial
  PROVE  OmegaInv'
<1>1. /\ Deciding /\ prob = <<>> /\ ctl' = "return" /\ val' = TRUE
      /\ prob' = prob /\ stack' = stack /\ result' = result
  BY DEF Trivial, Give
<1>2. Solvable(prob)
  <2>1. [x \in Vars |-> 0] \in Points
    BY DEF Points
  <2>2. DOMAIN prob = {}
    BY <1>1
  <2> QED BY <2>1, <2>2 DEF Solvable, Solves
<1>3. /\ Linked(question, stack) /\ (Solvable(prob) <=> Meant(question, stack))
      /\ stack \in Seq(Frames) /\ question' = question /\ budget' \in 0 .. Budget
  BY <1>1, DecideFacts
<1>4. /\ val' \in BOOLEAN /\ (val' <=> Meant(question, stack'))
      /\ Linked(question, stack') /\ stack' \in Seq(Frames)
  BY <1>1, <1>2, <1>3
<1> QED BY <1>1, <1>3, <1>4, ReturnStep

\* The rows of a variable bounded on one side constrain nothing else.
LEMMA DropOneSidedStep ==
  ASSUME OmegaInv, DropOneSided
  PROVE  OmegaInv'
<1>1. Deciding /\ stack' = stack /\ Inequalities(prob)
  BY DEF DropOneSided, OnlyInequalities, Inequalities
<1>2. PICK x \in Appear(prob) : OneSided(prob, x) /\ Solve(Without(prob, x), {})
  BY DEF DropOneSided
<1>3. prob \in Seq(Rows)
  BY <1>1, DecideFacts
<1>4. x \in Vars
  BY DEF Appear, Used
<1>5. Solvable(Without(prob, x)) <=> Solvable(prob)
  BY <1>1, <1>2, <1>3, <1>4, OneSidedSound
<1>6. Without(prob, x) \in Seq(IntRows)
  <2>1. Without(prob, x) \in Seq(Rows)
    BY <1>3, KeptRows DEF Without
  <2> QED BY <2>1, SeqIntRows
<1> QED BY <1>1, <1>2, <1>5, <1>6, DecideStep

\* Two opposed rows that leave no room refute the conjunction.
LEMMA ContradictoryStep ==
  ASSUME OmegaInv, Contradictory
  PROVE  OmegaInv'
<1>1. Deciding /\ stack' = stack /\ prob' = prob /\ Inequalities(prob)
  BY DEF Contradictory, Bounded, OnlyInequalities, Inequalities
<1>2. PICK c \in Clashes(prob) :
        IF Panics({prob[c[1]].k + prob[c[2]].k})
        THEN ctl' = "done" /\ result' = "unknown" /\ UNCHANGED val
        ELSE Give(FALSE) /\ UNCHANGED result
  BY DEF Contradictory
<1>3. /\ Linked(question, stack) /\ (Solvable(prob) <=> Meant(question, stack)) /\ prob \in Seq(Rows)
      /\ stack \in Seq(Frames) /\ question' = question /\ budget' \in 0 .. Budget
  BY <1>1, DecideFacts
<1>4. /\ c[1] \in DOMAIN prob /\ c[2] \in DOMAIN prob /\ Opposed(prob, c[1], c[2])
      /\ prob[c[1]].k + prob[c[2]].k \notin 0..MaxWord
  BY DEF Clashes
<1>5. CASE Panics({prob[c[1]].k + prob[c[2]].k})
  <2>1. ctl' = "done" /\ result' = "unknown" /\ val' = val
    BY <1>2, <1>5
  <2> QED BY <1>1, <1>3, <2>1, UnknownStep
<1>6. CASE ~Panics({prob[c[1]].k + prob[c[2]].k})
  <2>1. ctl' = "return" /\ val' = FALSE /\ result' = result
    BY <1>2, <1>6 DEF Give
  <2> DEFINE n == prob[c[1]].k + prob[c[2]].k
  <2>2. n \in Word
    BY <1>6 DEF Panics
  <2>3. n < 0
    <3>1. n \notin 0 .. MaxWord
      BY <1>4
    <3> HIDE DEF n
    <3> QED BY <2>2, <3>1, SizesAssumption DEF Word, MinWord, MaxWord
  <2>4. ~Solvable(prob)
    BY <1>1, <1>3, <1>4, <2>3, OpposedSound
  <2>5. /\ val' \in BOOLEAN /\ (val' <=> Meant(question, stack'))
        /\ Linked(question, stack') /\ stack' \in Seq(Frames)
    BY <1>1, <1>3, <2>1, <2>4
  <2> QED BY <1>1, <1>3, <2>1, <2>5, ReturnStep
<1> QED BY <1>5, <1>6

\* A variable no rule before takes has bounds on both sides.
LEMMA BothSides ==
  ASSUME NEW p \in Seq(Rows), NEW z \in Vars, ~OneSided(p, z)
  PROVE  LowerAt(p, z) # {} /\ UpperAt(p, z) # {}
<1>1. \A i \in DOMAIN p : p[i].coef[z] \in Int
  BY SeqIntRows, RowFields
<1>2. \E i \in DOMAIN p : ~(p[i].coef[z] >= 0)
  BY DEF OneSided
<1>3. \E i \in DOMAIN p : ~(p[i].coef[z] <= 0)
  BY DEF OneSided
<1>4. \E i \in DOMAIN p : p[i].coef[z] < 0
  BY <1>1, <1>2
<1>5. \E i \in DOMAIN p : p[i].coef[z] > 0
  BY <1>1, <1>3
<1> QED BY <1>4, <1>5 DEF LowerAt, UpperAt

\* A variable that is left has bounds on both sides.
LEMMA OpenFacts ==
  ASSUME Open, NEW z \in Appear(prob), prob \in Seq(Rows)
  PROVE  /\ Deciding /\ Inequalities(prob) /\ z \in Vars
         /\ LowerAt(prob, z) # {} /\ UpperAt(prob, z) # {}
<1>1. Deciding /\ Inequalities(prob) /\ ~OneSided(prob, z)
  BY DEF Open, Bounded, OnlyInequalities, Inequalities
<1>2. z \in Vars
  BY DEF Appear, Used
<1> QED BY <1>1, <1>2, BothSides

\* An elimination with a unit coefficient on one side of each pair is exact.
LEMMA EliminateStep ==
  ASSUME OmegaInv, Eliminate
  PROVE  OmegaInv'
<1>1. Open /\ stack' = stack /\ prob \in Seq(Rows)
  BY DEF Eliminate, OmegaInv, OmegaTypeOK
<1>2. PICK z \in Appear(prob) :
        Exact(prob, z) /\ Solve(Shadow(prob, z, FALSE), ShadowSteps(prob, z, FALSE))
  BY DEF Eliminate
<1>3. Deciding /\ Inequalities(prob) /\ z \in Vars /\ LowerAt(prob, z) # {}
  BY <1>1, OpenFacts
<1>4. Solvable(Shadow(prob, z, FALSE)) <=> Solvable(prob)
  BY <1>1, <1>2, <1>3, ExactSound
<1>5. Shadow(prob, z, FALSE) \in Seq(IntRows)
  <2>1. FALSE \in BOOLEAN
    OBVIOUS
  <2> QED BY <1>1, <1>3, <2>1, ShadowRows
<1> DEFINE q == Shadow(prob, z, FALSE)
           s == ShadowSteps(prob, z, FALSE)
<1>6. q \in Seq(IntRows) /\ Solve(q, s) /\ (Solvable(q) <=> Solvable(prob))
  BY <1>2, <1>4, <1>5
<1> HIDE DEF q, s
<1> QED BY <1>1, <1>3, <1>6, DecideStep

\* A conjunction set aside, by its fields.
LEMMA AsideFacts ==
  ASSUME NEW at \in {"dark", "real", "splinter"}, NEW p \in Seq(Rows), NEW z \in Vars,
         NEW lo \in Nat \ {0}, NEW i \in Nat
  PROVE  /\ Aside(at, p, z, lo, i) \in Frames
         /\ Aside(at, p, z, lo, i).at = at /\ Aside(at, p, z, lo, i).p = p
         /\ Aside(at, p, z, lo, i).z = z /\ Aside(at, p, z, lo, i).lo = lo
         /\ Aside(at, p, z, lo, i).i = i
<1> DEFINE P == Seq(Rows)
<1>1. p \in P
  OBVIOUS
<1>2. Frames = [at : {"dark", "real", "splinter"}, p : P, z : Vars, lo : Nat \ {0}, i : Nat]
  BY DEF Frames
<1> HIDE DEF P
<1>3. [at |-> at, p |-> p, z |-> z, lo |-> lo, i |-> i] \in Frames
  BY <1>1, <1>2
<1> QED BY <1>3 DEF Aside

\* What a conjunction set aside is made of.
LEMMA FrameFacts ==
  ASSUME NEW f \in Frames
  PROVE  /\ f.at \in {"dark", "real", "splinter"} /\ f.p \in Seq(Rows) /\ f.z \in Vars
         /\ f.lo \in Nat \ {0} /\ f.i \in Nat
BY DEF Frames

\* What is known of the innermost conjunction set aside.
LEMMA InnermostFacts ==
  ASSUME OmegaInv, stack # <<>>
  PROVE  /\ Frame \in Frames /\ Outer \in Seq(Frames) /\ Linked(question, Outer) /\ Standing(Frame)
         /\ Solvable(Frame.p) <=> Meant(question, Outer)
         /\ Meant(question, stack) <=> Means(Frame)
         /\ Linked(question, stack) /\ stack \in Seq(Frames) /\ prob \in Seq(Rows)
         /\ budget \in 0 .. Budget
<1>1. /\ stack \in Seq(Frames) /\ Linked(question, stack) /\ prob \in Seq(Rows) /\ budget \in 0 .. Budget
  BY DEF OmegaInv, OmegaTypeOK
<1>2. /\ SubSeq(stack, 1, Len(stack) - 1) \in Seq(Frames) /\ stack[Len(stack)] \in Frames
      /\ Linked(question, SubSeq(stack, 1, Len(stack) - 1)) /\ Standing(stack[Len(stack)])
      /\ Solvable(stack[Len(stack)].p) <=> Meant(question, SubSeq(stack, 1, Len(stack) - 1))
      /\ Meant(question, stack) <=> Means(stack[Len(stack)])
  BY <1>1, PopLinked
<1> QED BY <1>1, <1>2 DEF Frame, Outer

\* The conjunction is set aside and its dark shadow is asked about.
LEMMA TryDarkStep ==
  ASSUME OmegaInv, TryDark
  PROVE  OmegaInv'
<1>1. Open /\ prob \in Seq(Rows)
  BY DEF TryDark, OmegaInv, OmegaTypeOK
<1>2. PICK z \in Appear(prob) :
        /\ Solve(Shadow(prob, z, TRUE), ShadowSteps(prob, z, TRUE))
        /\ stack' = Append(stack, Aside("dark", prob, z, 1, 0))
  BY DEF TryDark
<1>3. Deciding /\ Inequalities(prob) /\ z \in Vars /\ LowerAt(prob, z) # {} /\ UpperAt(prob, z) # {}
  BY <1>1, OpenFacts
<1>4. /\ Linked(question, stack) /\ (Solvable(prob) <=> Meant(question, stack))
      /\ stack \in Seq(Frames) /\ question' = question /\ budget' \in 0 .. Budget
  BY <1>3, DecideFacts
<1> DEFINE f == Aside("dark", prob, z, 1, 0)
           q == Shadow(prob, z, TRUE)
           s == ShadowSteps(prob, z, TRUE)
<1>5. /\ f \in Frames /\ f.at = "dark" /\ f.p = prob /\ f.z = z
  <2>1. "dark" \in {"dark", "real", "splinter"} /\ 1 \in Nat \ {0} /\ 0 \in Nat
    OBVIOUS
  <2> QED BY <1>1, <1>3, <2>1, AsideFacts
<1>6. q \in Seq(IntRows)
  <2>1. TRUE \in BOOLEAN
    OBVIOUS
  <2> QED BY <1>1, <1>3, <2>1, ShadowRows
<1> HIDE DEF f
<1>7. Standing(f) /\ (Means(f) <=> Solvable(q))
  BY <1>3, <1>5 DEF Standing, Means
<1>8. /\ Append(stack, f) \in Seq(Frames) /\ Linked(question, Append(stack, f))
      /\ Meant(question, Append(stack, f)) <=> Means(f)
  <2>1. Solvable(f.p) <=> Meant(question, stack)
    BY <1>4, <1>5
  <2> QED BY <1>4, <1>5, <1>7, <2>1, PushLinked
<1>9. stack' = Append(stack, f) /\ Solve(q, s)
  BY <1>2 DEF f
<1> HIDE DEF q, s
<1>10. stack' \in Seq(Frames) /\ Linked(question, stack') /\ (Solvable(q) <=> Meant(question, stack'))
  BY <1>7, <1>8, <1>9
<1> QED BY <1>4, <1>6, <1>9, <1>10, SolveStep

\* Where an answer is returned, what it means.
LEMMA PendingFacts ==
  ASSUME OmegaInv, NEW at, Pending(at)
  PROVE  /\ stack # <<>> /\ ctl = "return" /\ Frame.at = at /\ val \in BOOLEAN
         /\ val <=> Means(Frame)
<1>1. stack # <<>> /\ ctl = "return" /\ Frame.at = at
  BY DEF Pending, Frame
<1>2. (val <=> Meant(question, stack)) /\ val \in BOOLEAN
  BY <1>1 DEF OmegaInv, Sought, OmegaTypeOK
<1>3. Meant(question, stack) <=> Means(Frame)
  BY <1>1, InnermostFacts
<1> QED BY <1>1, <1>2, <1>3

\* A shadow or a splinter that has a solution, or a real shadow that has none,
\* answers for the conjunction set aside.
LEMMA SettledStep ==
  ASSUME OmegaInv, Settled
  PROVE  OmegaInv'
<1>1. stack # <<>> /\ ctl = "return" /\ val \in BOOLEAN /\ (val <=> Means(Frame))
  <2>1. \E at : Pending(at)
    BY DEF Settled
  <2> QED BY <2>1, PendingFacts
<1>2. /\ stack' = Outer /\ question' = question /\ prob' = prob /\ ctl' = ctl /\ val' = val
      /\ budget' = budget /\ result' = result
  BY DEF Settled
<1>3. /\ Frame \in Frames /\ Outer \in Seq(Frames) /\ Linked(question, Outer) /\ Standing(Frame)
      /\ (Solvable(Frame.p) <=> Meant(question, Outer)) /\ budget \in 0 .. Budget
  BY <1>1, InnermostFacts
<1>4. Frame.p \in Seq(Rows) /\ Frame.z \in Vars
  BY <1>3, FrameFacts
<1>5. Inequalities(Frame.p) /\ LowerAt(Frame.p, Frame.z) # {}
  BY <1>3 DEF Standing
<1>6. val <=> Solvable(Frame.p)
  <2>1. CASE Pending("dark") /\ val
    <3>1. Frame.at = "dark"
      BY <2>1, PendingFacts
    <3>2. Solvable(Shadow(Frame.p, Frame.z, TRUE))
      BY <1>1, <2>1, <3>1 DEF Means
    <3>3. Solvable(Frame.p)
      BY <1>4, <1>5, <3>2, DarkSound
    <3> QED BY <2>1, <3>3
  <2>2. CASE Pending("real") /\ ~val
    <3>1. Frame.at = "real"
      BY <2>2, PendingFacts
    <3>2. ~Solvable(Shadow(Frame.p, Frame.z, FALSE))
      BY <1>1, <2>2, <3>1 DEF Means
    <3>3. ~Solvable(Frame.p)
      BY <1>4, <1>5, <3>2, RealComplete
    <3> QED BY <2>2, <3>3
  <2>3. CASE Pending("splinter") /\ val
    <3>1. Frame.at = "splinter"
      BY <2>3, PendingFacts
    <3>2. Solvable(SplinterOf(Frame.p, Frame.z, Frame.lo, Frame.i))
      BY <1>1, <2>3, <3>1 DEF Means
    <3>3. Solvable(Frame.p)
      BY <1>4, <3>2, SplinterSound DEF SplinterOf
    <3> QED BY <2>3, <3>3
  <2> QED BY <2>1, <2>2, <2>3 DEF Settled
<1>7. /\ ctl' = "return" /\ val' \in BOOLEAN /\ stack' \in Seq(Frames) /\ Linked(question, stack')
      /\ budget' \in 0 .. Budget /\ (val' <=> Meant(question, stack'))
  BY <1>1, <1>2, <1>3, <1>6
<1> QED BY <1>2, <1>7, ReturnStep

\* The dark shadow has no solution: the real one is asked about.
LEMMA TryRealStep ==
  ASSUME OmegaInv, TryReal
  PROVE  OmegaInv'
<1>1. stack # <<>> /\ Frame.at = "dark" /\ (val <=> Means(Frame)) /\ ~val
  BY PendingFacts DEF TryReal
<1> DEFINE p == Frame.p
           z == Frame.z
           f == Aside("real", p, z, 1, 0)
           q == Shadow(p, z, FALSE)
           s == ShadowSteps(p, z, FALSE)
<1>2. /\ Solve(q, s) /\ stack' = Append(Outer, f) /\ question' = question /\ budget' = budget
  BY DEF TryReal
<1>3. /\ Frame \in Frames /\ Outer \in Seq(Frames) /\ Linked(question, Outer) /\ Standing(Frame)
      /\ (Solvable(p) <=> Meant(question, Outer)) /\ budget \in 0 .. Budget
  BY <1>1, InnermostFacts
<1>4. p \in Seq(Rows) /\ z \in Vars
  BY <1>3, FrameFacts
<1>5. Inequalities(p) /\ LowerAt(p, z) # {} /\ UpperAt(p, z) # {} /\ ~Solvable(Shadow(p, z, TRUE))
  BY <1>1, <1>3 DEF Standing, Means
<1> HIDE DEF p, z
<1>6. /\ f \in Frames /\ f.at = "real" /\ f.p = p /\ f.z = z /\ f.lo = 1
  <2>1. "real" \in {"dark", "real", "splinter"} /\ 1 \in Nat \ {0} /\ 0 \in Nat
    OBVIOUS
  <2> QED BY <1>4, <2>1, AsideFacts
<1>7. q \in Seq(IntRows)
  <2>1. FALSE \in BOOLEAN
    OBVIOUS
  <2> QED BY <1>4, <2>1, ShadowRows
<1> HIDE DEF f
<1>8. Standing(f) /\ (Means(f) <=> Solvable(q))
  BY <1>5, <1>6 DEF Standing, Means
<1>9. /\ Append(Outer, f) \in Seq(Frames) /\ Linked(question, Append(Outer, f))
      /\ Meant(question, Append(Outer, f)) <=> Means(f)
  <2>1. Solvable(f.p) <=> Meant(question, Outer)
    BY <1>3, <1>6
  <2> QED BY <1>3, <1>6, <1>8, <2>1, PushLinked
<1> HIDE DEF q, s
<1>10. stack' \in Seq(Frames) /\ Linked(question, stack') /\ (Solvable(q) <=> Meant(question, stack'))
  BY <1>2, <1>8, <1>9
<1>11. budget' \in 0 .. Budget
  BY <1>2, <1>3
<1> QED BY <1>2, <1>7, <1>10, <1>11, SolveStep

\* The next splinter is sought of a conjunction standing, in place of it.
LEMMA SplinterNext ==
  ASSUME OmegaInv, stack # <<>>, NEW f \in Frames, f.p = Frame.p, Standing(f), f.at = "splinter",
         stack' = Append(Outer, f), question' = question, prob' = prob, val' = val,
         budget' = budget, result' = result, ctl' = "splinter"
  PROVE  OmegaInv'
<1>1. /\ Outer \in Seq(Frames) /\ Linked(question, Outer)
      /\ Solvable(Frame.p) <=> Meant(question, Outer)
  BY InnermostFacts
<1>2. /\ Append(Outer, f) \in Seq(Frames) /\ Append(Outer, f) # <<>>
      /\ Append(Outer, f)[Len(Append(Outer, f))] = f /\ Linked(question, Append(Outer, f))
  <2>1. Solvable(f.p) <=> Meant(question, Outer)
    BY <1>1
  <2> QED BY <1>1, <2>1, PushLinked
<1>3. OmegaTypeOK /\ Answers
  BY DEF OmegaInv
<1>4. OmegaTypeOK'
  BY <1>2, <1>3 DEF OmegaTypeOK
<1>5. Sought'
  BY <1>2 DEF Sought
<1>6. Answers'
  BY <1>3 DEF Answers
<1>7. Linked(question, stack)'
  BY <1>2
<1> QED BY <1>4, <1>5, <1>6, <1>7 DEF OmegaInv

\* The dark shadow has none and the real one has: the splinters decide.
LEMMA SplinterStep ==
  ASSUME OmegaInv, Splinter
  PROVE  OmegaInv'
<1> DEFINE p == Frame.p
           z == Frame.z
           lo == Frame.lo
           i == IF Frame.at = "real" THEN 0 ELSE Frame.i + 1
           f == Aside("splinter", p, z, lo, i)
<1>1. stack # <<>> /\ (val <=> Means(Frame))
  <2>1. \E at : Pending(at)
    BY DEF Splinter
  <2> QED BY <2>1, PendingFacts
<1>2. /\ ctl' = "splinter" /\ stack' = Append(Outer, f) /\ question' = question /\ prob' = prob
      /\ val' = val /\ budget' = budget /\ result' = result
  BY DEF Splinter
<1>3. Frame \in Frames /\ Standing(Frame)
  BY <1>1, InnermostFacts
<1>4. p \in Seq(Rows) /\ z \in Vars /\ lo \in Nat \ {0} /\ Frame.i \in Nat
  BY <1>3, FrameFacts
<1>5. \/ Frame.at = "real"
      \/ Frame.at = "splinter" /\ ~Means(Frame)
  BY PendingFacts DEF Splinter
<1>6. /\ Inequalities(p) /\ LowerAt(p, z) # {} /\ UpperAt(p, z) # {}
      /\ ~Solvable(Shadow(p, z, TRUE))
  BY <1>3, <1>5 DEF Standing
<1>7. i \in Nat
  BY <1>4
<1>8. \A m \in Int : Largest(p, z, m) =>
        \A k \in DOMAIN Lowers(p, z), j \in Nat :
          (k < lo /\ j <= Top(Lowers(p, z)[k].coef[z], m)) \/ (k = lo /\ j < i)
            => ~Solvable(SplinterOf(p, z, k, j))
  <2>1. CASE Frame.at = "real"
    <3>1. lo = 1 /\ i = 0
      BY <1>3, <2>1 DEF Standing
    <3>2. \A k \in DOMAIN Lowers(p, z) : k \in Nat /\ k >= 1
      <4>1. Lowers(p, z) \in Seq(Rows)
        BY <1>4, KeptRows DEF Lowers
      <4> QED BY <4>1
    <3> HIDE DEF lo, i
    <3>3. \A k \in DOMAIN Lowers(p, z), j \in Nat : ~(k < lo) /\ ~(j < i)
      BY <3>1, <3>2
    <3> QED BY <3>3
  <2>2. CASE Frame.at = "splinter" /\ ~Means(Frame)
    <3>1. i = Frame.i + 1
      BY <2>2
    <3>2. Refuted(Frame)
      BY <1>3, <2>2 DEF Standing
    <3>3. ~Solvable(SplinterOf(p, z, lo, Frame.i))
      BY <2>2 DEF Means
    <3>4. \A m \in Int : Largest(p, z, m) =>
            \A k \in DOMAIN Lowers(p, z), j \in Nat :
              (k < lo /\ j <= Top(Lowers(p, z)[k].coef[z], m)) \/ (k = lo /\ j < Frame.i)
                => ~Solvable(SplinterOf(p, z, k, j))
      BY <3>2 DEF Refuted
    <3> HIDE DEF p, z, lo, i
    <3>5. \A j \in Nat : j < i => j < Frame.i \/ j = Frame.i
      BY <1>4, <3>1
    <3> QED BY <3>3, <3>4, <3>5
  <2> QED BY <1>5, <2>1, <2>2
<1> HIDE DEF p, z, lo, i
<1>9. f \in Frames /\ f.at = "splinter" /\ f.p = p /\ f.z = z /\ f.lo = lo /\ f.i = i
  <2>1. "splinter" \in {"dark", "real", "splinter"}
    OBVIOUS
  <2> QED BY <1>4, <1>7, <2>1, AsideFacts
<1> HIDE DEF f
<1>10. Refuted(f)
  BY <1>8, <1>9 DEF Refuted
<1>11. Standing(f)
  BY <1>6, <1>9, <1>10 DEF Standing
<1>12. f.p = Frame.p
  BY <1>9 DEF p
<1> QED BY <1>1, <1>2, <1>9, <1>11, <1>12, SplinterNext

\* A splinter's row.
LEMMA SplinterRowType ==
  ASSUME NEW r \in Rows, NEW i \in Nat
  PROVE  SplinterRow(r, i) \in IntRows
<1>1. r \in IntRows
  BY RowsAreIntRows
<1>2. r.coef \in [Vars -> Int] /\ r.k \in Int
  BY <1>1, RowFields
<1> DEFINE k == r.k - i
<1>3. k \in Int
  BY <1>2
<1>4. SplinterRow(r, i) = [coef |-> r.coef, k |-> k, eq |-> TRUE]
  BY DEF SplinterRow
<1> HIDE DEF k
<1> QED BY <1>2, <1>3, <1>4 DEF IntRows

\* The largest coefficient is one number.
LEMMA LargestUnique ==
  ASSUME NEW p \in Seq(Rows), NEW z \in Vars, NEW m \in Int, NEW n \in Int,
         Largest(p, z, m), Largest(p, z, n)
  PROVE  m = n
<1>1. PICK i \in DOMAIN p : m = -p[i].coef[z]
  BY DEF Largest
<1>2. PICK j \in DOMAIN p : n = -p[j].coef[z]
  BY DEF Largest
<1>3. m <= n
  BY <1>1 DEF Largest
<1>4. n <= m
  BY <1>2 DEF Largest
<1> QED BY <1>3, <1>4

\* It is positive when there is an upper bound.
LEMMA LargestPositive ==
  ASSUME NEW p \in Seq(Rows), NEW z \in Vars, NEW m \in Int, Largest(p, z, m), UpperAt(p, z) # {}
  PROVE  m > 0
<1>1. PICK i \in DOMAIN p : p[i].coef[z] < 0
  BY DEF UpperAt
<1>2. p[i].coef[z] \in Int
  BY SeqIntRows, RowFields
<1>3. -p[i].coef[z] <= m
  BY DEF Largest
<1> QED BY <1>1, <1>2, <1>3

\* The number of splinters is an integer.
LEMMA TopType ==
  ASSUME NEW c \in Int, NEW m \in Int, m > 0
  PROVE  Top(c, m) \in Int
<1> DEFINE n == c * m - c - m
<1>1. n \in Int
  OBVIOUS
<1>2. Top(c, m) = n \div m
  BY DEF Top, FloorDiv
<1>3. m \in Nat
  OBVIOUS
<1> HIDE DEF n
<1>4. n \div m \in Int
  BY <1>1, <1>3, DivMod
<1> QED BY <1>2, <1>4

\* The next splinter of a lower bound, the first of the next bound, or, after
\* the last, no solution.
LEMMA NextSplinterStep ==
  ASSUME OmegaInv, NextSplinter
  PROVE  OmegaInv'
<1> DEFINE p == Frame.p
           z == Frame.z
           los == Lowers(p, z)
           lo == Frame.lo
           i == Frame.i
           a == los[lo].coef[z]
           g == Aside("splinter", p, z, lo + 1, 0)
           q == SplinterOf(p, z, lo, i)
<1>1. stack # <<>> /\ Frame.at = "splinter"
  BY DEF NextSplinter, OmegaInv, Sought, Frame
<1>2. /\ Frame \in Frames /\ Outer \in Seq(Frames) /\ Linked(question, Outer) /\ Standing(Frame)
      /\ (Solvable(p) <=> Meant(question, Outer)) /\ budget \in 0 .. Budget
      /\ (Meant(question, stack) <=> Means(Frame))
      /\ Linked(question, stack) /\ stack \in Seq(Frames)
  BY <1>1, InnermostFacts
<1>3. p \in Seq(Rows) /\ z \in Vars /\ lo \in Nat \ {0} /\ i \in Nat
  BY <1>2, FrameFacts
<1>4. /\ Inequalities(p) /\ LowerAt(p, z) # {} /\ UpperAt(p, z) # {}
      /\ ~Solvable(Shadow(p, z, TRUE))
  BY <1>1, <1>2 DEF Standing
<1>5. \A m \in Int : Largest(p, z, m) =>
        \A k \in DOMAIN los, j \in Nat :
          (k < lo /\ j <= Top(los[k].coef[z], m)) \/ (k = lo /\ j < i)
            => ~Solvable(SplinterOf(p, z, k, j))
  BY <1>1, <1>2 DEF Standing, Refuted
<1>6. question' = question /\ budget' = budget /\ ctl = "splinter"
  BY DEF NextSplinter
<1>7. los \in Seq(Rows) /\ DOMAIN los = 1 .. Len(los) /\ Len(los) \in Nat
  <2>1. los \in Seq(Rows)
    BY <1>3, KeptRows DEF Lowers
  <2> HIDE DEF los
  <2> QED BY <2>1
<1>8. IF lo > Len(los)
      THEN ctl' = "return" /\ val' = FALSE /\ stack' = Outer /\ UNCHANGED <<prob, result>>
      ELSE \E m \in {-p[j].coef[z] : j \in DOMAIN p} :
             /\ Largest(p, z, m)
             /\ IF i > Top(a, m) /\ ~Panics(TopSteps(a, m))
                THEN stack' = Append(Outer, g) /\ UNCHANGED <<prob, ctl, val, result>>
                ELSE Solve(q, TopSteps(a, m)) /\ UNCHANGED stack
  BY DEF NextSplinter, SplinterOf
<1>9. \A j \in DOMAIN p : -p[j].coef[z] \in Int
  <2>1. \A j \in DOMAIN p : p[j].coef[z] \in Int
    BY <1>3, SeqIntRows, RowFields
  <2> HIDE DEF p
  <2> QED BY <2>1
<1>10. CASE lo > Len(los)
  <2>1. /\ ctl' = "return" /\ val' = FALSE /\ stack' = Outer /\ prob' = prob /\ result' = result
    BY <1>8, <1>10
  <2>2. ~Solvable(p)
    <3> SUFFICES ASSUME Solvable(p) PROVE FALSE
      OBVIOUS
    <3>1. PICK m \in Int : Largest(p, z, m)
      BY <1>3, <1>4, LargestExists
    <3>2. PICK k \in DOMAIN los, j \in Nat :
            j <= Top(los[k].coef[z], m) /\ Solvable(SplinterOf(p, z, k, j))
      BY <1>3, <1>4, <3>1, SplinterCover
    <3>3. k < lo
      <4> HIDE DEF los, lo
      <4> QED BY <1>3, <1>7, <1>10
    <3> QED BY <1>5, <3>1, <3>2, <3>3
  <2>3. /\ val' \in BOOLEAN /\ (val' <=> Meant(question, stack')) /\ stack' \in Seq(Frames)
        /\ Linked(question, stack') /\ budget' \in 0 .. Budget
    BY <1>2, <1>6, <2>1, <2>2
  <2> QED BY <1>6, <2>1, <2>3, ReturnStep
<1>11. CASE ~(lo > Len(los))
  <2>1. PICK m \in {-p[j].coef[z] : j \in DOMAIN p} :
          /\ Largest(p, z, m)
          /\ IF i > Top(a, m) /\ ~Panics(TopSteps(a, m))
             THEN stack' = Append(Outer, g) /\ UNCHANGED <<prob, ctl, val, result>>
             ELSE Solve(q, TopSteps(a, m)) /\ UNCHANGED stack
    BY <1>8, <1>11
  <2>2. m \in Int
    BY <1>9
  <2>3. lo \in DOMAIN los
    <3> HIDE DEF los, lo
    <3> QED BY <1>3, <1>7, <1>11
  <2>4. los[lo] \in Rows
    <3> HIDE DEF los, lo, Rows
    <3> QED BY <1>7, <2>3
  <2>5. CASE i > Top(a, m) /\ ~Panics(TopSteps(a, m))
    <3>1. /\ stack' = Append(Outer, g) /\ prob' = prob /\ ctl' = "splinter" /\ val' = val
          /\ result' = result
      BY <1>6, <2>1, <2>5
    <3>2. Top(a, m) \in Int
      <4>1. a \in Int
        <5>1. los[lo] \in IntRows
          BY <2>4, RowsAreIntRows
        <5> QED BY <1>3, <5>1, RowFields
      <4>2. m > 0
        BY <1>3, <1>4, <2>1, <2>2, LargestPositive
      <4> HIDE DEF a
      <4> QED BY <2>2, <4>1, <4>2, TopType
    <3>3. lo + 1 \in Nat \ {0}
      BY <1>3
    <3>4. g \in Frames /\ g.at = "splinter" /\ g.p = p /\ g.z = z /\ g.lo = lo + 1 /\ g.i = 0
      <4>1. "splinter" \in {"dark", "real", "splinter"} /\ 0 \in Nat
        OBVIOUS
      <4> HIDE DEF p, z, lo
      <4> QED BY <1>3, <3>3, <4>1, AsideFacts
    <3>5. ASSUME NEW n \in Int, Largest(p, z, n), NEW k \in DOMAIN los, NEW j \in Nat,
                 (k < lo + 1 /\ j <= Top(los[k].coef[z], n)) \/ (k = lo + 1 /\ j < 0)
          PROVE  ~Solvable(SplinterOf(p, z, k, j))
      <4>1. n = m
        BY <1>3, <2>1, <2>2, <3>5, LargestUnique
      <4>2. k \in Int /\ k < lo + 1 /\ j <= Top(los[k].coef[z], n)
        <5> HIDE DEF los
        <5> QED BY <1>7, <3>5
      <4>3. CASE k = lo
        <5>1. j <= Top(a, m)
          BY <4>1, <4>2, <4>3
        <5> DEFINE t == Top(a, m)
        <5>2. j <= t /\ t < i /\ t \in Int /\ i \in Int
          BY <1>3, <2>5, <3>2, <5>1
        <5> HIDE DEF t, i
        <5>3. j < i
          BY <5>2
        <5> QED BY <1>5, <3>5, <4>3, <5>3
      <4>4. CASE k # lo
        <5>1. k < lo
          <6> HIDE DEF lo
          <6> QED BY <1>3, <4>2, <4>4
        <5> QED BY <1>5, <3>5, <4>2, <5>1
      <4> QED BY <4>3, <4>4
    <3> HIDE DEF g
    <3>6. Refuted(g)
      <4> HIDE DEF p, z, lo
      <4> QED BY <3>4, <3>5 DEF Refuted, los
    <3>7. Standing(g)
      <4> HIDE DEF p, z, lo
      <4> QED BY <1>4, <3>4, <3>6 DEF Standing
    <3>8. g.p = Frame.p
      BY <3>4
    <3> QED BY <1>1, <1>6, <3>1, <3>4, <3>7, <3>8, SplinterNext
  <2>6. CASE ~(i > Top(a, m) /\ ~Panics(TopSteps(a, m)))
    <3> DEFINE s == TopSteps(a, m)
    <3>1. Solve(q, s) /\ stack' = stack
      BY <2>1, <2>6
    <3>2. q \in Seq(IntRows)
      <4> DEFINE r == SplinterRow(los[lo], i)
      <4>1. r \in IntRows
        BY <1>3, <2>4, SplinterRowType
      <4>2. p \in Seq(IntRows)
        BY <1>3, SeqIntRows
      <4>3. q = Append(p, r)
        BY DEF SplinterOf
      <4> HIDE DEF r, q, p
      <4> QED BY <4>1, <4>2, <4>3, AppendRows
    <3>3. Solvable(q) <=> Meant(question, stack)
      BY <1>1, <1>2 DEF Means
    <3> HIDE DEF q, s
    <3>4. /\ stack' \in Seq(Frames) /\ Linked(question, stack') /\ budget' \in 0 .. Budget
          /\ (Solvable(q) <=> Meant(question, stack'))
      BY <1>2, <1>6, <3>1, <3>3
    <3> QED BY <1>6, <3>1, <3>2, <3>4, SolveStep
  <2> QED BY <2>5, <2>6
<1> QED BY <1>10, <1>11

\* Nothing is set aside: the answer is the question's.
LEMMA AnsweredStep ==
  ASSUME OmegaInv, Answered
  PROVE  OmegaInv'
<1>1. /\ ctl = "return" /\ stack = <<>> /\ ctl' = "done"
      /\ result' = IF val THEN "sat" ELSE "unsat"
      /\ question' = question /\ prob' = prob /\ val' = val /\ stack' = stack /\ budget' = budget
  BY DEF Answered
<1>2. OmegaTypeOK /\ Linked(question, stack) /\ (val <=> Meant(question, stack)) /\ val \in BOOLEAN
  BY <1>1 DEF OmegaInv, Sought, OmegaTypeOK
<1>3. val <=> Solvable(question)
  <2>1. Len(stack) = 0
    BY <1>1
  <2> QED BY <1>2, <2>1 DEF Meant, Asking
<1>4. /\ result' = "sat" => val
      /\ result' = "unsat" => ~val
      /\ result' \in {"sat", "unsat"}
  BY <1>1, <1>2
<1>5. Answers'
  BY <1>1, <1>3, <1>4 DEF Answers
<1>6. OmegaTypeOK'
  BY <1>1, <1>2, <1>4 DEF OmegaTypeOK
<1>7. Sought' /\ Linked(question, stack)'
  BY <1>1, <1>2 DEF Sought
<1> QED BY <1>5, <1>6, <1>7 DEF OmegaInv

-----------------------------------------------------------------------------
(* The theorems.                                                              *)

\* At the start the question is what is decided.
LEMMA OmegaInit == Init => OmegaInv
<1> SUFFICES ASSUME Init PROVE OmegaInv
  OBVIOUS
<1>1. /\ question \in Questions /\ prob = question /\ ctl = "solve" /\ val = FALSE /\ stack = <<>>
      /\ budget = Budget /\ result = "none"
  BY DEF Init
<1>2. prob \in Seq(Rows)
  BY <1>1, QuestionsAssumption
<1>3. stack \in Seq(Frames) /\ Len(stack) = 0
  BY <1>1
<1>4. budget \in 0 .. Budget
  BY <1>1, SizesAssumption
<1>5. OmegaTypeOK
  BY <1>1, <1>2, <1>3, <1>4 DEF OmegaTypeOK
<1>6. Linked(question, stack)
  BY <1>3 DEF Linked
<1>7. Sought
  BY <1>1, <1>3 DEF Sought, Meant, Asking
<1>8. Answers
  BY <1>1 DEF Answers
<1> QED BY <1>5, <1>6, <1>7, <1>8 DEF OmegaInv

\* Every step keeps it, where no negation fails to fit.
LEMMA OmegaStep == OmegaInv /\ NegationFits /\ [Next]_vars => OmegaInv'
<1> SUFFICES ASSUME OmegaInv, NegationFits, [Next]_vars PROVE OmegaInv'
  OBVIOUS
<1>1. CASE UNCHANGED vars
  BY <1>1 DEF vars, OmegaInv, OmegaTypeOK, Sought, Answers
<1>2. CASE Exhausted
  BY <1>2, ExhaustedStep
<1>3. CASE Normalize
  BY <1>3, NormalizeStep
<1>4. CASE EliminateUnit
  BY <1>4, EliminateUnitStep
<1>5. CASE EliminateModHat
  BY <1>5, EliminateModHatStep
<1>6. CASE Trivial
  BY <1>6, TrivialStep
<1>7. CASE DropOneSided
  BY <1>7, DropOneSidedStep
<1>8. CASE Contradictory
  BY <1>8, ContradictoryStep
<1>9. CASE Eliminate
  BY <1>9, EliminateStep
<1>10. CASE TryDark
  BY <1>10, TryDarkStep
<1>11. CASE Settled
  BY <1>11, SettledStep
<1>12. CASE TryReal
  BY <1>12, TryRealStep
<1>13. CASE Splinter
  BY <1>13, SplinterStep
<1>14. CASE NextSplinter
  BY <1>14, NextSplinterStep
<1>15. CASE Answered
  BY <1>15, AnsweredStep
<1>16. CASE Finished
  BY <1>1, <1>16 DEF Finished
<1> QED
  BY <1>1, <1>2, <1>3, <1>4, <1>5, <1>6, <1>7, <1>8, <1>9, <1>10, <1>11, <1>12, <1>13, <1>14,
     <1>15, <1>16 DEF Next

\* The invariant holds of every behaviour in which the one unchecked operation
\* of the code, the negation of a constant (omega.go:193), stays in a word.
THEOREM OmegaInvariant == Spec /\ []NegationFits => []OmegaInv
BY OmegaInit, OmegaStep, PTL DEF Spec

\* The numbers stay words, and the stack holds conjunctions set aside: whatever
\* is computed is checked before it is used.
THEOREM OmegaTyped == Spec /\ []NegationFits => []OmegaTypeOK
<1>1. OmegaInv => OmegaTypeOK
  BY DEF OmegaInv
<1> QED BY <1>1, OmegaInvariant, PTL

\* A row of a question depends on the question's variables only.
LEMMA HoldsSat ==
  ASSUME NEW r \in Rows, Used(r) \subseteq 1 .. Asked, NEW a \in Points,
         NEW b \in [1 .. Asked -> Int], \A x \in 1 .. Asked : a[x] = b[x]
  PROVE  Holds(r, b) <=> Sat(r, a)
<1> DEFINE c == r.coef
<1>1. Asked \in 0 .. NVars /\ NVars \in Nat
  BY SizesAssumption
<1>2. Vector(NVars, c) /\ Vector(NVars, a)
  BY RowsAreIntRows, RowFields, PointFields
<1>3. Vector(Asked, b)
  BY DEF Vector
<1>4. \A x \in Asked + 1 .. NVars : c[x] = 0
  <2> SUFFICES ASSUME NEW x \in Asked + 1 .. NVars, c[x] # 0 PROVE FALSE
    OBVIOUS
  <2>1. x \in Vars /\ x \notin 1 .. Asked
    BY <1>1 DEF Vars
  <2> QED BY <2>1 DEF Used
<1> HIDE DEF c
<1>5. Dot(NVars, c, a) = Dot(Asked, c, b)
  BY <1>1, <1>2, <1>3, <1>4, DotShort
<1> QED BY <1>5 DEF Holds, Sat, At, c

\* Values for the question's variables solve it when some for all do.
LEMMA SolvableQuestion ==
  ASSUME NEW q \in Questions
  PROVE  Solvable(q) <=> SolutionIn(q, Int)
<1>1. q \in Seq(Rows) /\ Appear(q) \subseteq 1 .. Asked
  BY QuestionsAssumption
<1>2. \A i \in DOMAIN q : q[i] \in Rows /\ Used(q[i]) \subseteq 1 .. Asked
  BY <1>1 DEF Appear
<1>3. 1 .. Asked \subseteq Vars
  BY SizesAssumption DEF Vars
<1>4. ASSUME NEW a \in Points, Solves(a, q) PROVE SolutionIn(q, Int)
  <2> DEFINE b == [x \in 1 .. Asked |-> a[x]]
  <2>1. b \in [1 .. Asked -> Int] /\ \A x \in 1 .. Asked : a[x] = b[x]
    BY <1>3, PointFields
  <2> HIDE DEF b
  <2>2. \A i \in DOMAIN q : Holds(q[i], b)
    BY <1>2, <1>4, <2>1, HoldsSat DEF Solves
  <2> QED BY <2>1, <2>2 DEF SolutionIn
<1>5. ASSUME SolutionIn(q, Int) PROVE Solvable(q)
  <2>1. PICK b \in [1 .. Asked -> Int] : \A i \in DOMAIN q : Holds(q[i], b)
    BY <1>5 DEF SolutionIn
  <2> DEFINE a == [x \in Vars |-> IF x \in 1 .. Asked THEN b[x] ELSE 0]
  <2>2. a \in Points /\ \A x \in 1 .. Asked : a[x] = b[x]
    BY <1>3 DEF Points
  <2> HIDE DEF a
  <2>3. \A i \in DOMAIN q : Sat(q[i], a)
    BY <1>2, <2>1, <2>2, HoldsSat
  <2> QED BY <2>2, <2>3 DEF Solvable, Solves
<1> QED BY <1>4, <1>5 DEF Solvable

\* "sat" is said only of a question some integers satisfy, and "unsat" only of
\* one that none do.
THEOREM OmegaCorrect ==
  Spec /\ []NegationFits => [](/\ result = "sat" => SolutionIn(question, Int)
                               /\ result = "unsat" => ~SolutionIn(question, Int))
<1>1. OmegaInv => /\ result = "sat" => SolutionIn(question, Int)
                  /\ result = "unsat" => ~SolutionIn(question, Int)
  <2> SUFFICES ASSUME OmegaInv PROVE /\ result = "sat" => SolutionIn(question, Int)
                                     /\ result = "unsat" => ~SolutionIn(question, Int)
    OBVIOUS
  <2>1. question \in Questions /\ Answers
    BY DEF OmegaInv, OmegaTypeOK
  <2>2. Solvable(question) <=> SolutionIn(question, Int)
    BY <2>1, SolvableQuestion
  <2> QED BY <2>1, <2>2 DEF Answers
<1> QED BY <1>1, OmegaInvariant, PTL

\* The box of the run's property is large enough for its questions.
BoxSuffices == \A q \in Questions : SolutionIn(q, Int) => HasSolution(q)

\* The property the run checks, for every set of questions whose solutions the
\* box shows.
THEOREM OmegaCorrectInBox == BoxSuffices => (Spec /\ []NegationFits => []Correct)
<1> SUFFICES ASSUME BoxSuffices PROVE Spec /\ []NegationFits => []Correct
  OBVIOUS
<1>1. OmegaInv => Correct
  <2> SUFFICES ASSUME OmegaInv PROVE Correct
    OBVIOUS
  <2>1. question \in Questions /\ Answers
    BY DEF OmegaInv, OmegaTypeOK
  <2>2. Solvable(question) <=> SolutionIn(question, Int)
    BY <2>1, SolvableQuestion
  <2>3. HasSolution(question) => SolutionIn(question, Int)
    <3>1. -Box .. Box \subseteq Int
      BY SizesAssumption
    <3> DEFINE D == -Box .. Box
    <3>2. [1 .. Asked -> D] \subseteq [1 .. Asked -> Int]
      <4> HIDE DEF D
      <4> QED BY <3>1 DEF D
    <3> HIDE DEF D
    <3> QED BY <3>2 DEF HasSolution, SolutionIn, D
  <2> QED BY <2>1, <2>2, <2>3 DEF Answers, Correct, BoxSuffices
<1> QED BY <1>1, OmegaInvariant, PTL
=============================================================================
