------------------------ MODULE IntervalDomainProofs ------------------------
(***************************************************************************)
(* The soundness of the interval domain for every bound EMax: no value of  *)
(* the operands' sets is outside the result's.  Results are intervals of   *)
(* the representation, and canonical where their operands are.             *)
(***************************************************************************)
EXTENDS IntervalDomain, WellFoundedInduction, TLAPS

\* The ends of the representation: integers, symmetric about zero.
LEMMA EndsAreIntegers == /\ E \subseteq Int
                         /\ 0 \in E /\ EMax \in E /\ -EMax \in E
                         /\ EMax \in Int
                         /\ \A v \in Int : v \in E <=> -EMax <= v /\ v <= EMax
                         /\ \A v \in E : -v \in E
BY EMaxAssumption DEF E

\* An interval by its fields.
LEMMA Fields ==
  ASSUME NEW a \in Iv
  PROVE  /\ a.lo \in E /\ a.hi \in E /\ a.lo \in Int /\ a.hi \in Int
         /\ a.nlo \in BOOLEAN /\ a.phi \in BOOLEAN /\ a.bot \in BOOLEAN
BY EndsAreIntegers DEF Iv

\* Every interval is built by a record of its fields.
LEMMA Built ==
  ASSUME NEW l \in E, NEW h \in E, NEW n \in BOOLEAN, NEW p \in BOOLEAN, NEW b \in BOOLEAN
  PROVE  [lo |-> l, hi |-> h, nlo |-> n, phi |-> p, bot |-> b] \in Iv
BY DEF Iv

\* Normalising an interval gives an interval.
LEMMA NormType ==
  ASSUME NEW a \in Iv
  PROVE  Norm(a) \in Iv
BY EndsAreIntegers DEF Norm, Iv, Bot

\* Normalising changes no set: the number under an infinite end is not read.
LEMMA NormIn ==
  ASSUME NEW a \in Iv, NEW z \in Int
  PROVE  In(z, Norm(a)) <=> In(z, a)
BY Fields DEF Norm, In, Bot, Iv

\* Normalising gives the one spelling of a set.
LEMMA NormCanonical ==
  ASSUME NEW a \in Iv, Finite(a) => a.lo <= a.hi
  PROVE  Canonical(Norm(a))
BY Fields DEF Norm, Canonical, Finite, Bot, Iv

\* The constant intervals and the half lines are intervals.
LEMMA ConstantTypes ==
  ASSUME NEW l \in E, NEW h \in E
  PROVE  /\ Bot \in Iv /\ Top \in Iv /\ RangeE(l, h) \in Iv
         /\ AtMost(h) \in Iv /\ AtLeast(l) \in Iv
BY EndsAreIntegers DEF Bot, Top, RangeE, AtMost, AtLeast, Iv

\* The lesser and the greater of two ends.
LEMMA MinMax ==
  ASSUME NEW a \in Int, NEW b \in Int
  PROVE  /\ MinE(a, b) \in {a, b} /\ MinE(a, b) <= a /\ MinE(a, b) <= b
         /\ MaxE(a, b) \in {a, b} /\ a <= MaxE(a, b) /\ b <= MaxE(a, b)
BY DEF MinE, MaxE

-----------------------------------------------------------------------------
(* The lattice. *)

\* The join holds both operands.
THEOREM JoinSound ==
  ASSUME NEW a \in Iv, NEW b \in Iv, NEW z \in Int, In(z, a) \/ In(z, b)
  PROVE  JoinIV(a, b) \in Iv /\ In(z, JoinIV(a, b))
<1> DEFINE r == [lo  |-> MinE(a.lo, b.lo), hi  |-> MaxE(a.hi, b.hi),
                 nlo |-> a.nlo \/ b.nlo,   phi |-> a.phi \/ b.phi, bot |-> FALSE]
<1>1. CASE a.bot \/ b.bot
  BY <1>1 DEF JoinIV, In
<1>2. CASE ~a.bot /\ ~b.bot
  <2>1. r \in Iv
    BY Fields, MinMax DEF Iv
  <2>2. In(z, r)
    BY Fields, MinMax DEF In
  <2>3. JoinIV(a, b) = Norm(r)
    BY <1>2 DEF JoinIV
  <2> QED BY <2>1, <2>2, <2>3, NormType, NormIn
<1> QED BY <1>1, <1>2, Fields

\* The meet is the intersection, and exactly that.
THEOREM MeetExact ==
  ASSUME NEW a \in Iv, NEW b \in Iv, NEW z \in Int
  PROVE  MeetIV(a, b) \in Iv /\ (In(z, MeetIV(a, b)) <=> In(z, a) /\ In(z, b))
<1> DEFINE raise == ~b.nlo /\ (a.nlo \/ a.lo < b.lo)
           lower == ~b.phi /\ (a.phi \/ b.hi < a.hi)
           r == [lo  |-> IF raise THEN b.lo ELSE a.lo,
                 hi  |-> IF lower THEN b.hi ELSE a.hi,
                 nlo |-> a.nlo /\ ~raise,
                 phi |-> a.phi /\ ~lower, bot |-> FALSE]
<1>1. CASE a.bot \/ b.bot
  BY <1>1, ConstantTypes, EndsAreIntegers DEF MeetIV, In, Bot
<1>2. CASE ~a.bot /\ ~b.bot
  <2>1. r \in Iv
    BY Fields DEF Iv
  <2>2. In(z, r) <=> In(z, a) /\ In(z, b)
    BY <1>2, Fields DEF In
  <2>3. MeetIV(a, b) = IF Finite(r) /\ r.hi < r.lo THEN Bot ELSE Norm(r)
    BY <1>2 DEF MeetIV
  <2>4. Finite(r) /\ r.hi < r.lo => ~In(z, r) /\ ~In(z, Bot)
    <3> HIDE DEF r
    <3> QED BY <2>1, Fields DEF In, Finite, Bot
  <2> HIDE DEF r
  <2> QED BY <2>1, <2>2, <2>3, <2>4, NormType, NormIn, ConstantTypes, EndsAreIntegers
<1> QED BY <1>1, <1>2, Fields

\* Widening holds both the old facts and the new.
THEOREM WidenSound ==
  ASSUME NEW a \in Iv, NEW b \in Iv, NEW z \in Int, In(z, a) \/ In(z, b)
  PROVE  WidenIV(a, b) \in Iv /\ In(z, WidenIV(a, b))
<1> DEFINE n == a.nlo \/ b.nlo \/ b.lo < a.lo
           p == a.phi \/ b.phi \/ a.hi < b.hi
           r == [a EXCEPT !.nlo = n, !.phi = p]
<1>1. CASE a.bot \/ b.bot
  BY <1>1 DEF WidenIV, In
<1>2. CASE ~a.bot /\ ~b.bot
  <2>1. r \in Iv /\ r.lo = a.lo /\ r.hi = a.hi /\ r.nlo = n /\ r.phi = p /\ r.bot = a.bot
    BY Fields DEF Iv
  <2>2. In(z, r)
    <3> HIDE DEF r
    <3> QED BY <1>2, <2>1, Fields DEF In
  <2>3. WidenIV(a, b) = Norm(r)
    BY <1>2, Fields DEF WidenIV, Iv
  <2> HIDE DEF r
  <2> QED BY <2>1, <2>2, <2>3, NormType, NormIn
<1> QED BY <1>1, <1>2, Fields

\* A nonempty set of ends has a least one.
LEMMA LeastEnd ==
  ASSUME NEW T \in SUBSET E, T # {}
  PROVE  \E t \in T : \A u \in T : t <= u
<1> DEFINE S == {u + EMax : u \in T}
<1>1. S \subseteq Nat /\ S # {}
  <2>1. \A u \in T : u + EMax \in Nat
    <3> SUFFICES ASSUME NEW u \in T PROVE u + EMax \in Nat
      OBVIOUS
    <3>1. u \in Int /\ -EMax <= u /\ EMax \in Int
      BY EndsAreIntegers
    <3> QED BY <3>1
  <2> QED BY <2>1
<1>2. \E n \in S : \A m \in S : ~(<<m, n>> \in OpToRel(<, Nat))
  <2> HIDE DEF S
  <2> QED BY <1>1, NatLessThanWellFounded, WFMin
<1>3. PICK n \in S : \A m \in S : ~(<<m, n>> \in OpToRel(<, Nat))
  BY <1>2
<1>4. \A m \in S : n <= m
  <2> SUFFICES ASSUME NEW m \in S PROVE n <= m
    OBVIOUS
  <2>1. n \in Nat /\ m \in Nat
    BY <1>1
  <2>2. ~(m < n)
    BY <2>1, <1>3 DEF OpToRel
  <2> QED BY <2>1, <2>2
<1>5. PICK t \in T : n = t + EMax
  BY <1>3
<1>6. ASSUME NEW u \in T PROVE t <= u
  <2>1. t + EMax <= u + EMax
    BY <1>4, <1>5
  <2>2. t \in Int /\ u \in Int /\ EMax \in Int
    BY EndsAreIntegers
  <2> QED BY <2>1, <2>2
<1> QED BY <1>6

\* A nonempty set of ends has a greatest one.
LEMMA GreatestEnd ==
  ASSUME NEW T \in SUBSET E, T # {}
  PROVE  \E t \in T : \A u \in T : u <= t
<1> DEFINE S == {-u : u \in T}
<1>1. S \in SUBSET E /\ S # {}
  BY EndsAreIntegers
<1>2. PICK s \in S : \A v \in S : s <= v
  BY <1>1, LeastEnd
<1>3. PICK t \in T : s = -t
  BY <1>2
<1>4. \A u \in T : -t <= -u
  BY <1>2, <1>3
<1> QED BY <1>3, <1>4, EndsAreIntegers

\* Widening to thresholds holds both the old facts and the new, whichever ends
\* move and whether or not a threshold is left beyond them.
THEOREM WidenThresholdSound ==
  ASSUME NEW a \in Iv, NEW b \in Iv, NEW T \in SUBSET E,
         NEW z \in Int, In(z, a) \/ In(z, b)
  PROVE  WidenIVT(a, b, T) \in Iv /\ In(z, WidenIVT(a, b, T))
<1> DEFINE below == {t \in T : t <= b.lo}
           above == {t \in T : b.hi <= t}
           down == ~b.nlo /\ b.lo < a.lo
           up == ~b.phi /\ a.hi < b.hi
           l == IF down /\ below # {} THEN CHOOSE t \in below : \A u \in below : u <= t
                                     ELSE a.lo
           h == IF up /\ above # {} THEN CHOOSE t \in above : \A u \in above : t <= u
                                   ELSE a.hi
           n == a.nlo \/ b.nlo \/ (down /\ below = {})
           p == a.phi \/ b.phi \/ (up /\ above = {})
           r == [lo |-> l, hi |-> h, nlo |-> n, phi |-> p, bot |-> FALSE]
<1>1. CASE a.bot \/ b.bot
  BY <1>1 DEF WidenIVT, In
<1>2. CASE ~a.bot /\ ~b.bot
  <2>1. l \in E /\ (down /\ below # {} => l <= b.lo) /\ (~(down /\ below # {}) => l = a.lo)
    <3>1. CASE down /\ below # {}
      <4>1. \E t \in below : \A u \in below : u <= t
        BY <3>1, GreatestEnd
      <4>2. l \in below
        BY <3>1, <4>1
      <4> QED BY <3>1, <4>2
    <3>2. CASE ~(down /\ below # {})
      BY <3>2, Fields
    <3> QED BY <3>1, <3>2
  <2>2. h \in E /\ (up /\ above # {} => b.hi <= h) /\ (~(up /\ above # {}) => h = a.hi)
    <3>1. CASE up /\ above # {}
      <4>1. \E t \in above : \A u \in above : t <= u
        BY <3>1, LeastEnd
      <4>2. h \in above
        BY <3>1, <4>1
      <4> QED BY <3>1, <4>2
    <3>2. CASE ~(up /\ above # {})
      BY <3>2, Fields
    <3> QED BY <3>1, <3>2
  <2>3. r \in Iv
    <3> HIDE DEF l, h
    <3> QED BY <2>1, <2>2, Fields DEF Iv
  <2>4. ~n => l <= z
    <3> SUFFICES ASSUME ~n PROVE l <= z
      OBVIOUS
    <3>1. ~a.nlo /\ ~b.nlo /\ ~(down /\ below = {})
      OBVIOUS
    <3>2. (a.lo <= z \/ b.lo <= z) /\ a.lo \in Int /\ b.lo \in Int /\ l \in Int
      BY <3>1, <2>1, Fields, EndsAreIntegers DEF In
    <3>3. CASE down
      <4>1. l <= b.lo /\ b.lo < a.lo
        BY <3>1, <3>3, <2>1
      <4> HIDE DEF l
      <4> QED BY <4>1, <3>2
    <3>4. CASE ~down
      <4>1. l = a.lo /\ ~(b.lo < a.lo)
        BY <3>1, <3>4, <2>1
      <4> HIDE DEF l
      <4> QED BY <4>1, <3>2
    <3> QED BY <3>3, <3>4
  <2>5. ~p => z <= h
    <3> SUFFICES ASSUME ~p PROVE z <= h
      OBVIOUS
    <3>1. ~a.phi /\ ~b.phi /\ ~(up /\ above = {})
      OBVIOUS
    <3>2. (z <= a.hi \/ z <= b.hi) /\ a.hi \in Int /\ b.hi \in Int /\ h \in Int
      BY <3>1, <2>2, Fields, EndsAreIntegers DEF In
    <3>3. CASE up
      <4>1. b.hi <= h /\ a.hi < b.hi
        BY <3>1, <3>3, <2>2
      <4> HIDE DEF h
      <4> QED BY <4>1, <3>2
    <3>4. CASE ~up
      <4>1. h = a.hi /\ ~(a.hi < b.hi)
        BY <3>1, <3>4, <2>2
      <4> HIDE DEF h
      <4> QED BY <4>1, <3>2
    <3> QED BY <3>3, <3>4
  <2>6. In(z, r)
    <3> HIDE DEF l, h, n, p
    <3> QED BY <2>4, <2>5 DEF In
  <2>7. WidenIVT(a, b, T) = Norm(r)
    BY <1>2 DEF WidenIVT
  <2> HIDE DEF r
  <2> QED BY <2>3, <2>6, <2>7, NormType, NormIn
<1> QED BY <1>1, <1>2, Fields

-----------------------------------------------------------------------------
(* The ring operations. *)

\* Negation mirrors the set.
THEOREM NegSound ==
  ASSUME NEW a \in Iv, NEW z \in Int, In(z, a)
  PROVE  NegIV(a) \in Iv /\ In(-z, NegIV(a))
<1> DEFINE r == [lo |-> -a.hi, hi |-> -a.lo, nlo |-> a.phi, phi |-> a.nlo, bot |-> FALSE]
<1>1. r \in Iv
  BY Fields, EndsAreIntegers DEF Iv
<1>2. In(-z, r)
  BY Fields DEF In
<1>3. NegIV(a) = Norm(r)
  BY DEF NegIV, In
<1> QED BY <1>1, <1>2, <1>3, NormType, NormIn

\* The sum of two values is in the sum of their sets, whatever saturates.
THEOREM AddSound ==
  ASSUME NEW a \in Iv, NEW b \in Iv, NEW x \in Int, NEW y \in Int, In(x, a), In(y, b)
  PROVE  AddIV(a, b) \in Iv /\ In(x + y, AddIV(a, b))
<1> DEFINE n == a.nlo \/ b.nlo
           p == a.phi \/ b.phi
           l == a.lo + b.lo
           h == a.hi + b.hi
           over == ~n /\ l > EMax
           top == p \/ over
           under == ~top /\ h < -EMax
           r == [lo  |-> IF over THEN EMax ELSE IF Ok(l) THEN l ELSE 0,
                 hi  |-> IF under THEN -EMax ELSE IF Ok(h) THEN h ELSE 0,
                 nlo |-> n \/ l < -EMax \/ under,
                 phi |-> top \/ h > EMax, bot |-> FALSE]
<1>1. r \in Iv
  BY EndsAreIntegers, Fields DEF Iv, Ok
<1>2. In(x + y, r)
  <2> l \in Int /\ h \in Int /\ EMax \in Int /\ EMax > 0
    BY Fields, EMaxAssumption, EndsAreIntegers
  <2>1. ASSUME ~r.nlo PROVE r.lo <= x + y
    <3>1. ~a.nlo /\ ~b.nlo /\ ~(l < -EMax)
      BY <2>1
    <3>2. l <= x + y
      BY <3>1, Fields DEF In
    <3>3. CASE l > EMax
      <4>1. r.lo = EMax
        BY <3>1, <3>3
      <4> HIDE DEF l, r
      <4> QED BY <4>1, <3>2, <3>3
    <3>4. CASE ~(l > EMax)
      <4>1. Ok(l)
        <5> HIDE DEF l
        <5> QED BY <3>1, <3>4, EndsAreIntegers DEF Ok
      <4>2. r.lo = l
        BY <4>1, <3>4
      <4> HIDE DEF l, r
      <4> QED BY <4>2, <3>2
    <3> QED BY <3>3, <3>4
  <2>2. ASSUME ~r.phi PROVE x + y <= r.hi
    <3>1. ~a.phi /\ ~b.phi /\ ~top /\ ~(h > EMax)
      BY <2>2
    <3>2. x + y <= h
      BY <3>1, Fields DEF In
    <3>3. CASE h < -EMax
      <4>1. under
        BY <3>1, <3>3
      <4>2. r.hi = -EMax
        BY <4>1
      <4>3. ~a.nlo /\ ~b.nlo => l <= x + y
        BY Fields DEF In
      <4> HIDE DEF h, r
      <4> QED BY <4>2, <3>2, <3>3
    <3>4. CASE ~(h < -EMax)
      <4>1. Ok(h)
        <5> HIDE DEF h
        <5> QED BY <3>1, <3>4, EndsAreIntegers DEF Ok
      <4>2. r.hi = h
        BY <4>1, <3>4
      <4> HIDE DEF h, r
      <4> QED BY <4>2, <3>2
    <3> QED BY <3>3, <3>4
  <2> QED BY <2>1, <2>2 DEF In
<1>3. AddIV(a, b) = Norm(r)
  BY DEF AddIV, In
<1> QED BY <1>1, <1>2, <1>3, NormType, NormIn

\* The difference of two values is in the difference of their facts (subIV).
THEOREM SubSound ==
  ASSUME NEW a \in Iv, NEW b \in Iv, NEW x \in Int, NEW y \in Int, In(x, a), In(y, b)
  PROVE  SubIV(a, b) \in Iv /\ In(x - y, SubIV(a, b))
<1>1. NegIV(b) \in Iv /\ In(-y, NegIV(b))
  BY NegSound
<1>2. AddIV(a, NegIV(b)) \in Iv /\ In(x + (-y), AddIV(a, NegIV(b)))
  BY <1>1, AddSound
<1>3. x + (-y) = x - y
  OBVIOUS
<1> QED BY <1>2, <1>3 DEF SubIV

\* Multiplying by a constant keeps or turns the order, by its sign.
LEMMA TimesMonotone ==
  ASSUME NEW p \in Int, NEW q \in Int, NEW c \in Int, p <= q
  PROVE  (c >= 0 => p * c <= q * c) /\ (c <= 0 => q * c <= p * c)
OBVIOUS

\* A product of integers is an integer, in either order.
LEMMA TimesCommutes ==
  ASSUME NEW p \in Int, NEW q \in Int
  PROVE  p * q = q * p /\ p * q \in Int
OBVIOUS

CornersOf(al, ah, bl, bh) == {u * v : u \in {al, ah}, v \in {bl, bh}}

\* A product of two values lies between two products of the ends.
LEMMA Corners ==
  ASSUME NEW al \in Int, NEW ah \in Int, NEW bl \in Int, NEW bh \in Int,
         NEW x \in al .. ah, NEW y \in bl .. bh
  PROVE  /\ \E c \in CornersOf(al, ah, bl, bh) : c <= x * y
         /\ \E c \in CornersOf(al, ah, bl, bh) : x * y <= c
<1> DEFINE cs == {u * v : u \in {al, ah}, v \in {bl, bh}}
<1>1. al * bl \in cs /\ al * bh \in cs /\ ah * bl \in cs /\ ah * bh \in cs
  OBVIOUS
\* With one factor at an end, the other end of the second factor is a corner.
<1>2. ASSUME NEW u \in {al, ah}
      PROVE  (\E c \in cs : c <= u * y) /\ (\E c \in cs : u * y <= c)
  <2>1. u * bl \in cs /\ u * bh \in cs /\ u \in Int
    BY <1>1
  <2>2. /\ u >= 0 => bl * u <= y * u /\ y * u <= bh * u
        /\ u <= 0 => bh * u <= y * u /\ y * u <= bl * u
    BY <2>1, TimesMonotone
  <2>3. bl * u = u * bl /\ bh * u = u * bh /\ y * u = u * y
    BY <2>1, TimesCommutes
  <2>4. u >= 0 \/ u <= 0
    BY <2>1
  <2> HIDE DEF cs
  <2> QED BY <2>1, <2>2, <2>3, <2>4
<1>3. /\ y >= 0 => al * y <= x * y /\ x * y <= ah * y
      /\ y <= 0 => ah * y <= x * y /\ x * y <= al * y
  BY TimesMonotone
<1>4. \A c \in cs : c \in Int
  BY TimesCommutes
<1>5. x * y \in Int /\ al * y \in Int /\ ah * y \in Int
  BY TimesCommutes
<1>6. PICK l1 \in cs, h1 \in cs : l1 <= al * y /\ al * y <= h1
  BY <1>2
<1>7. PICK l2 \in cs, h2 \in cs : l2 <= ah * y /\ ah * y <= h2
  BY <1>2
<1> HIDE DEF cs
<1>8. CASE y >= 0
  <2>1. l1 <= x * y /\ x * y <= h2
    BY <1>3, <1>4, <1>5, <1>6, <1>7, <1>8
  <2> QED BY <2>1 DEF cs, CornersOf
<1>9. CASE y <= 0
  <2>1. l2 <= x * y /\ x * y <= h1
    BY <1>3, <1>4, <1>5, <1>6, <1>7, <1>9
  <2> QED BY <2>1 DEF cs, CornersOf
<1> QED BY <1>8, <1>9

\* The product of two values is in the product of their finite sets, whichever
\* of the four corners leave E.
THEOREM MulFiniteSound ==
  ASSUME NEW a \in Iv, NEW b \in Iv, Finite(a), Finite(b),
         NEW x \in Int, NEW y \in Int, In(x, a), In(y, b)
  PROVE  MulIV(a, b) \in Iv /\ In(x * y, MulIV(a, b))
<1> DEFINE cs == {u * v : u \in {a.lo, a.hi}, v \in {b.lo, b.hi}}
           fit == cs \cap E
           n == \E c \in cs : c < -EMax
           p == \E c \in cs : c > EMax
           l == IF fit # {} THEN CHOOSE c \in fit : \A d \in fit : c <= d
                ELSE IF n THEN -EMax ELSE EMax
           h == IF fit # {} THEN CHOOSE c \in fit : \A d \in fit : d <= c
                ELSE IF p THEN EMax ELSE -EMax
           r == [lo |-> l, hi |-> h, nlo |-> n, phi |-> p, bot |-> FALSE]
<1>1. x \in a.lo .. a.hi /\ y \in b.lo .. b.hi
  BY Fields DEF In, Finite
<1>2. (\E c \in cs : c <= x * y) /\ (\E c \in cs : x * y <= c)
  <2>1. a.lo \in Int /\ a.hi \in Int /\ b.lo \in Int /\ b.hi \in Int
    BY Fields
  <2>2. cs = CornersOf(a.lo, a.hi, b.lo, b.hi)
    BY DEF CornersOf
  <2> HIDE DEF cs
  <2> QED BY <1>1, <2>1, <2>2, Corners
<1>3. (\A c \in cs : c \in Int) /\ x * y \in Int
  BY Fields, TimesCommutes
<1>4. MulIV(a, b) = Norm(r)
  BY DEF MulIV, In
<1> HIDE DEF cs
<1>5. l \in E /\ (fit # {} => \A d \in fit : l <= d) /\ (fit = {} /\ ~n => l = EMax)
  <2>1. CASE fit # {}
    <3>1. \E c \in fit : \A d \in fit : c <= d
      BY <2>1, LeastEnd
    <3> QED BY <2>1, <3>1
  <2>2. CASE fit = {}
    BY <2>2, EndsAreIntegers
  <2> QED BY <2>1, <2>2
<1>6. h \in E /\ (fit # {} => \A d \in fit : d <= h) /\ (fit = {} /\ ~p => h = -EMax)
  <2>1. CASE fit # {}
    <3>1. \E c \in fit : \A d \in fit : d <= c
      BY <2>1, GreatestEnd
    <3> QED BY <2>1, <3>1
  <2>2. CASE fit = {}
    BY <2>2, EndsAreIntegers
  <2> QED BY <2>1, <2>2
<1> HIDE DEF l, h
<1>7. ASSUME ~n PROVE l <= x * y
  <2>1. PICK c \in cs : c <= x * y
    BY <1>2
  <2>2. c \in Int /\ -EMax <= c /\ l \in Int /\ l <= EMax
    BY <1>3, <1>5, <1>7, EndsAreIntegers
  <2>3. CASE c \in E
    BY <2>1, <2>2, <2>3, <1>3, <1>5
  <2>4. CASE c \notin E
    <3>1. c > EMax
      BY <2>2, <2>4, EndsAreIntegers
    <3> QED BY <2>1, <2>2, <3>1, <1>3, EndsAreIntegers
  <2> QED BY <2>3, <2>4
<1>8. ASSUME ~p PROVE x * y <= h
  <2>1. PICK c \in cs : x * y <= c
    BY <1>2
  <2>2. c \in Int /\ c <= EMax /\ h \in Int /\ -EMax <= h
    BY <1>3, <1>6, <1>8, EndsAreIntegers
  <2>3. CASE c \in E
    BY <2>1, <2>2, <2>3, <1>3, <1>6
  <2>4. CASE c \notin E
    <3>1. c < -EMax
      BY <2>2, <2>4, EndsAreIntegers
    <3> QED BY <2>1, <2>2, <3>1, <1>3, EndsAreIntegers
  <2> QED BY <2>3, <2>4
<1>9. n \in BOOLEAN /\ p \in BOOLEAN
  OBVIOUS
<1> HIDE DEF n, p
<1>10. r \in Iv
  BY <1>5, <1>6, <1>9 DEF Iv
<1>11. In(x * y, r)
  BY <1>7, <1>8 DEF In
<1> QED BY <1>3, <1>4, <1>10, <1>11, NormType, NormIn

-----------------------------------------------------------------------------
(* Guards. *)

\* The sets of the half lines.
LEMMA HalfLines ==
  ASSUME NEW e \in E, NEW z \in Int
  PROVE  (In(z, AtMost(e)) <=> z <= e) /\ (In(z, AtLeast(e)) <=> e <= z)
BY DEF In, AtMost, AtLeast

\* A guard that holds of x and y excludes no such x from the narrowed fact.
THEOREM NarrowSound ==
  ASSUME NEW a \in Iv, NEW b \in Iv, NEW rel \in Rels,
         NEW x \in Int, NEW y \in Int, In(x, a), In(y, b), Holds(x, rel, y)
  PROVE  In(x, NarrowIV(a, rel, b))
<1> DEFINE single == Finite(b) /\ b.lo = b.hi /\ Finite(a)
<1>1. ~a.bot /\ ~b.bot
  BY DEF In
<1>2. single => y = b.lo /\ a.lo <= x /\ x <= a.hi /\ a.lo \in Int /\ a.hi \in Int /\ b.lo \in Int
  BY Fields DEF In, Finite
<1>3. CASE rel = "lt"
  <2>1. ~b.phi /\ Ok(b.hi - 1) => In(x, AtMost(b.hi - 1))
    BY <1>3, Fields, HalfLines DEF In, Holds, Ok
  <2>2. ~b.phi /\ Ok(b.hi - 1) => AtMost(b.hi - 1) \in Iv
    BY ConstantTypes, EndsAreIntegers DEF Ok
  <2> QED BY <1>1, <1>3, <2>1, <2>2, MeetExact DEF NarrowIV
<1>4. CASE rel = "le"
  <2>1. ~b.phi => In(x, AtMost(b.hi)) /\ AtMost(b.hi) \in Iv
    BY <1>4, Fields, HalfLines, ConstantTypes, EndsAreIntegers DEF In, Holds
  <2> QED BY <1>1, <1>4, <2>1, MeetExact DEF NarrowIV
<1>5. CASE rel = "gt"
  <2>1. ~b.nlo /\ Ok(b.lo + 1) => In(x, AtLeast(b.lo + 1))
    BY <1>5, Fields, HalfLines DEF In, Holds, Ok
  <2>2. ~b.nlo /\ Ok(b.lo + 1) => AtLeast(b.lo + 1) \in Iv
    BY ConstantTypes, EndsAreIntegers DEF Ok
  <2> QED BY <1>1, <1>5, <2>1, <2>2, MeetExact DEF NarrowIV
<1>6. CASE rel = "ge"
  <2>1. ~b.nlo => In(x, AtLeast(b.lo)) /\ AtLeast(b.lo) \in Iv
    BY <1>6, Fields, HalfLines, ConstantTypes, EndsAreIntegers DEF In, Holds
  <2> QED BY <1>1, <1>6, <2>1, MeetExact DEF NarrowIV
<1>7. CASE rel = "eq"
  <2>1. In(x, b)
    BY <1>7 DEF Holds
  <2> QED BY <1>1, <1>7, <2>1, MeetExact DEF NarrowIV
<1>8. CASE rel = "ne"
  <2>1. x # y
    BY <1>8 DEF Holds
  <2>2. CASE ~single
    BY <1>1, <1>8, <2>2 DEF NarrowIV
  <2>3. CASE single
    <3>1. ~(a.lo = a.hi /\ a.lo = b.lo)
      BY <1>2, <2>1, <2>3
    <3>2. a.lo < a.hi /\ a.lo = b.lo => In(x, RangeE(a.lo + 1, a.hi))
      BY <1>2, <2>1, <2>3 DEF In, RangeE
    <3>3. a.lo < a.hi /\ a.hi = b.lo => In(x, RangeE(a.lo, a.hi - 1))
      BY <1>2, <2>1, <2>3 DEF In, RangeE
    <3> QED BY <1>1, <1>8, <2>3, <3>1, <3>2, <3>3 DEF NarrowIV
  <2> QED BY <2>2, <2>3
<1> QED BY <1>3, <1>4, <1>5, <1>6, <1>7, <1>8 DEF Rels

-----------------------------------------------------------------------------
(* Types. *)

\* The operations of the domain stay inside it, on empty operands too.
LEMMA JoinType ==
  ASSUME NEW a \in Iv, NEW b \in Iv
  PROVE  JoinIV(a, b) \in Iv
<1> DEFINE r == [lo  |-> MinE(a.lo, b.lo), hi  |-> MaxE(a.hi, b.hi),
                 nlo |-> a.nlo \/ b.nlo,   phi |-> a.phi \/ b.phi, bot |-> FALSE]
<1>1. r \in Iv
  BY Fields, MinMax DEF Iv
<1>2. ~a.bot /\ ~b.bot => JoinIV(a, b) = Norm(r)
  BY DEF JoinIV
<1>3. a.bot => JoinIV(a, b) = b
  BY DEF JoinIV
<1>4. ~a.bot /\ b.bot => JoinIV(a, b) = a
  BY DEF JoinIV
<1> HIDE DEF r
<1> QED BY <1>1, <1>2, <1>3, <1>4, NormType

\* The meet of two intervals is an interval, whatever their sets.
LEMMA MeetType ==
  ASSUME NEW a \in Iv, NEW b \in Iv
  PROVE  MeetIV(a, b) \in Iv
BY MeetExact, EndsAreIntegers

\* The negation of an interval is an interval.
LEMMA NegType ==
  ASSUME NEW a \in Iv
  PROVE  NegIV(a) \in Iv
<1> DEFINE r == [lo |-> -a.hi, hi |-> -a.lo, nlo |-> a.phi, phi |-> a.nlo, bot |-> FALSE]
<1>1. r \in Iv
  BY Fields, EndsAreIntegers DEF Iv
<1>2. NegIV(a) = IF a.bot THEN Bot ELSE Norm(r)
  BY DEF NegIV
<1> HIDE DEF r
<1> QED BY <1>1, <1>2, NormType, ConstantTypes, EndsAreIntegers

\* The sum of two intervals is an interval.
LEMMA AddType ==
  ASSUME NEW a \in Iv, NEW b \in Iv
  PROVE  AddIV(a, b) \in Iv
<1> DEFINE n == a.nlo \/ b.nlo
           p == a.phi \/ b.phi
           l == a.lo + b.lo
           h == a.hi + b.hi
           over == ~n /\ l > EMax
           top == p \/ over
           under == ~top /\ h < -EMax
           r == [lo  |-> IF over THEN EMax ELSE IF Ok(l) THEN l ELSE 0,
                 hi  |-> IF under THEN -EMax ELSE IF Ok(h) THEN h ELSE 0,
                 nlo |-> n \/ l < -EMax \/ under,
                 phi |-> top \/ h > EMax, bot |-> FALSE]
<1>1. r \in Iv
  BY EndsAreIntegers, Fields DEF Iv, Ok
<1>2. AddIV(a, b) = IF a.bot \/ b.bot THEN Bot ELSE Norm(r)
  BY DEF AddIV
<1> HIDE DEF r
<1> QED BY <1>1, <1>2, NormType, ConstantTypes, EndsAreIntegers

\* The difference of two intervals is an interval.
LEMMA SubType ==
  ASSUME NEW a \in Iv, NEW b \in Iv
  PROVE  SubIV(a, b) \in Iv
BY NegType, AddType DEF SubIV

\* The widening of two intervals is an interval.
LEMMA WidenType ==
  ASSUME NEW a \in Iv, NEW b \in Iv
  PROVE  WidenIV(a, b) \in Iv
<1> DEFINE n == a.nlo \/ b.nlo \/ b.lo < a.lo
           p == a.phi \/ b.phi \/ a.hi < b.hi
           r == [a EXCEPT !.nlo = n, !.phi = p]
<1>1. r \in Iv
  BY Fields DEF Iv
<1>2. ~a.bot /\ ~b.bot => WidenIV(a, b) = Norm(r)
  BY Fields DEF WidenIV, Iv
<1>3. a.bot => WidenIV(a, b) = b
  BY DEF WidenIV
<1>4. ~a.bot /\ b.bot => WidenIV(a, b) = a
  BY DEF WidenIV
<1> HIDE DEF r
<1> QED BY <1>1, <1>2, <1>3, <1>4, NormType

\* The narrowings of an unequal operand stay inside the ends they came from.
LEMMA NarrowType ==
  ASSUME NEW a \in Iv, NEW b \in Iv, NEW rel \in Rels
  PROVE  NarrowIV(a, rel, b) \in Iv
<1> DEFINE single == Finite(b) /\ b.lo = b.hi /\ Finite(a)
<1>1. a.bot \/ b.bot => NarrowIV(a, rel, b) = Bot
  BY DEF NarrowIV
<1>2. Bot \in Iv
  BY ConstantTypes, EndsAreIntegers
<1>3. ASSUME ~a.bot, ~b.bot PROVE NarrowIV(a, rel, b) \in Iv
  <2>1. Ok(b.hi - 1) => MeetIV(a, AtMost(b.hi - 1)) \in Iv
    BY MeetType, ConstantTypes, EndsAreIntegers DEF Ok
  <2>2. Ok(b.lo + 1) => MeetIV(a, AtLeast(b.lo + 1)) \in Iv
    BY MeetType, ConstantTypes, EndsAreIntegers DEF Ok
  <2>3. MeetIV(a, AtMost(b.hi)) \in Iv /\ MeetIV(a, AtLeast(b.lo)) \in Iv
    BY MeetType, ConstantTypes, Fields
  <2>4. MeetIV(a, b) \in Iv
    BY MeetType
  <2>5. a.lo < a.hi => RangeE(a.lo + 1, a.hi) \in Iv /\ RangeE(a.lo, a.hi - 1) \in Iv
    <3>1. a.lo < a.hi => a.lo + 1 \in E /\ a.hi - 1 \in E
      BY Fields, EndsAreIntegers
    <3> QED BY <3>1, ConstantTypes, Fields
  <2>6. CASE rel = "lt"
    BY <1>3, <2>6, <2>1 DEF NarrowIV
  <2>7. CASE rel = "le"
    BY <1>3, <2>7, <2>3 DEF NarrowIV
  <2>8. CASE rel = "gt"
    BY <1>3, <2>8, <2>2 DEF NarrowIV
  <2>9. CASE rel = "ge"
    BY <1>3, <2>9, <2>3 DEF NarrowIV
  <2>10. CASE rel = "eq"
    BY <1>3, <2>10, <2>4 DEF NarrowIV
  <2>11. CASE rel = "ne"
    BY <1>3, <2>11, <1>2, <2>5 DEF NarrowIV
  <2> QED BY <2>6, <2>7, <2>8, <2>9, <2>10, <2>11 DEF Rels
<1> QED BY <1>1, <1>2, <1>3

-----------------------------------------------------------------------------
(* The product of half lines.  An end of the extended integers bounds z from *)
(* below when it is minus infinity, or a number not above z, or plus infinity *)
(* and z is past E; and the mirror.                                          *)

Ends == [inf : {-1, 0, 1}, v : E]
EndBelow(c, z) == c.inf = -1 \/ (c.inf = 0 /\ c.v <= z) \/ (c.inf = 1 /\ EMax <= z)
EndAbove(c, z) == c.inf = 1 \/ (c.inf = 0 /\ z <= c.v) \/ (c.inf = -1 /\ z <= -EMax)

\* An end of the extended integers by its fields.
LEMMA EndFields ==
  ASSUME NEW c \in Ends
  PROVE  /\ c.inf \in {-1, 0, 1} /\ c.inf \in Int
         /\ c.v \in E /\ c.v \in Int /\ -EMax <= c.v /\ c.v <= EMax
<1>1. c.inf \in {-1, 0, 1} /\ c.v \in E
  BY DEF Ends
<1>2. \A i \in {-1, 0, 1} : i \in Int
  OBVIOUS
<1> QED BY <1>1, <1>2, EndsAreIntegers

\* The two ends of an interval are ends of the extended integers.
LEMMA EndTypes ==
  ASSUME NEW a \in Iv
  PROVE  LowEnd(a) \in Ends /\ HighEnd(a) \in Ends
BY Fields, EndsAreIntegers DEF LowEnd, HighEnd, Ends

\* The order of the ends is total.
LEMMA EndOrder ==
  /\ \A p \in Ends : EndLE(p, p)
  /\ \A p, q \in Ends : EndLE(p, q) \/ EndLE(q, p)
  /\ \A p, q, r \in Ends : EndLE(p, q) /\ EndLE(q, r) => EndLE(p, r)
BY EndFields DEF EndLE

\* Four ends have a least one and a greatest one.
LEMMA FourEnds ==
  ASSUME NEW p \in Ends, NEW q \in Ends, NEW r \in Ends, NEW s \in Ends
  PROVE  /\ \E c \in {p, q, r, s} : \A d \in {p, q, r, s} : EndLE(c, d)
         /\ \E c \in {p, q, r, s} : \A d \in {p, q, r, s} : EndLE(d, c)
<1>1. PICK c1 \in {p, q} : EndLE(c1, p) /\ EndLE(c1, q)
  BY EndOrder
<1>2. PICK c2 \in {r, s} : EndLE(c2, r) /\ EndLE(c2, s)
  BY EndOrder
<1>3. PICK c \in {c1, c2} : EndLE(c, c1) /\ EndLE(c, c2)
  BY EndOrder
<1>4. \A d \in {p, q, r, s} : EndLE(c, d)
  BY <1>1, <1>2, <1>3, EndOrder
<1>5. PICK h1 \in {p, q} : EndLE(p, h1) /\ EndLE(q, h1)
  BY EndOrder
<1>6. PICK h2 \in {r, s} : EndLE(r, h2) /\ EndLE(s, h2)
  BY EndOrder
<1>7. PICK h \in {h1, h2} : EndLE(h1, h) /\ EndLE(h2, h)
  BY EndOrder
<1>8. \A d \in {p, q, r, s} : EndLE(d, h)
  BY <1>5, <1>6, <1>7, EndOrder
<1> QED BY <1>1, <1>2, <1>3, <1>4, <1>5, <1>6, <1>7, <1>8

\* The sign of a product.
LEMMA ProductSign ==
  ASSUME NEW u \in Int, NEW w \in Int
  PROVE  /\ u * w > 0 <=> (u > 0 /\ w > 0) \/ (u < 0 /\ w < 0)
         /\ u * w < 0 <=> (u > 0 /\ w < 0) \/ (u < 0 /\ w > 0)
         /\ u * w = 0 <=> u = 0 \/ w = 0
OBVIOUS

\* The product of two finite ends bounds whatever the integers' product does.
LEMMA FiniteCorner ==
  ASSUME NEW p \in Ends, NEW q \in Ends, p.inf = 0, q.inf = 0
  PROVE  /\ Corner(p, q) \in Ends
         /\ \A z \in Int : p.v * q.v <= z => EndBelow(Corner(p, q), z)
         /\ \A z \in Int : z <= p.v * q.v => EndAbove(Corner(p, q), z)
<1> DEFINE u == p.v
           w == q.v
<1>1. u \in Int /\ w \in Int /\ u * w \in Int
  BY EndFields, TimesCommutes
<1>2. CASE Ok(u * w)
  <2>1. Corner(p, q) = [inf |-> 0, v |-> u * w]
    BY <1>2 DEF Corner
  <2> HIDE DEF u, w
  <2> QED BY <2>1, <1>2 DEF Ends, EndBelow, EndAbove, Ok, u, w
<1>3. CASE ~Ok(u * w)
  <2>1. u * w > EMax \/ u * w < -EMax
    BY <1>1, <1>3, EndsAreIntegers DEF Ok
  <2>2. EMax \in Int /\ EMax > 0 /\ 0 \in E
    BY EMaxAssumption, EndsAreIntegers
  <2>3. Corner(p, q) = [inf |-> SignOf(u) * SignOf(w), v |-> 0]
    BY <1>3 DEF Corner, EndSign
  <2>4. CASE u * w > EMax
    <3>1. u * w > 0
      BY <2>2, <2>4, <1>1
    <3>2. (u > 0 /\ w > 0) \/ (u < 0 /\ w < 0)
      BY <3>1, <1>1, ProductSign
    <3>3. SignOf(u) * SignOf(w) = 1
      BY <3>2, <1>1 DEF SignOf
    <3>4. Corner(p, q).inf = 1 /\ Corner(p, q) \in Ends
      BY <2>3, <3>3, <2>2 DEF Ends
    <3>5. \A z \in Int : u * w <= z => EMax <= z
      BY <2>4, <2>2, <1>1
    <3> QED BY <3>4, <3>5 DEF EndBelow, EndAbove
  <2>5. CASE u * w < -EMax
    <3>1. u * w < 0
      BY <2>2, <2>5, <1>1
    <3>2. (u > 0 /\ w < 0) \/ (u < 0 /\ w > 0)
      BY <3>1, <1>1, ProductSign
    <3>3. SignOf(u) * SignOf(w) = -1
      BY <3>2, <1>1 DEF SignOf
    <3>4. Corner(p, q).inf = -1 /\ Corner(p, q) \in Ends
      BY <2>3, <3>3, <2>2 DEF Ends
    <3>5. \A z \in Int : z <= u * w => z <= -EMax
      BY <2>5, <2>2, <1>1
    <3> QED BY <3>4, <3>5 DEF EndBelow, EndAbove
  <2> QED BY <2>1, <2>4, <2>5
<1> QED BY <1>2, <1>3

\* With an infinite end the product is the infinity of the sign, or 0.
LEMMA InfiniteCorner ==
  ASSUME NEW p \in Ends, NEW q \in Ends, p.inf # 0 \/ q.inf # 0
  PROVE  /\ Corner(p, q) \in Ends /\ Corner(p, q).v = 0
         /\ EndSign(p) = 1 => Corner(p, q).inf = EndSign(q)
         /\ EndSign(q) = 1 => Corner(p, q).inf = EndSign(p)
         /\ Corner(p, q).inf \in {-1, 0, 1}
         /\ EndSign(p) = -1 => Corner(p, q).inf + EndSign(q) = 0
         /\ EndSign(q) = -1 => Corner(p, q).inf + EndSign(p) = 0
<1>1. EndSign(p) \in {-1, 0, 1} /\ EndSign(q) \in {-1, 0, 1}
  BY EndFields DEF EndSign, SignOf
<1>2. EndSign(p) * EndSign(q) \in {-1, 0, 1}
  BY <1>1
<1>3. Corner(p, q) = [inf |-> EndSign(p) * EndSign(q), v |-> 0]
  BY DEF Corner
<1> QED BY <1>1, <1>2, <1>3, EndsAreIntegers DEF Ends

\* A finite end u times a value of b lies between corners of u with b's ends.
LEMMA EndTimesValue ==
  ASSUME NEW p \in Ends, p.inf = 0, NEW b \in Iv, NEW y \in Int, In(y, b)
  PROVE  /\ \E q \in {LowEnd(b), HighEnd(b)} : \A z \in Int : p.v * y <= z => EndBelow(Corner(p, q), z)
         /\ \E q \in {LowEnd(b), HighEnd(b)} : \A z \in Int : z <= p.v * y => EndAbove(Corner(p, q), z)
<1> DEFINE u == p.v
           lb == LowEnd(b)
           hb == HighEnd(b)
<1>1. u \in Int /\ b.lo \in Int /\ b.hi \in Int /\ lb \in Ends /\ hb \in Ends /\ 0 \in E
  BY EndFields, Fields, EndTypes, EndsAreIntegers
<1>2. /\ b.nlo => lb.inf = -1 /\ EndSign(lb) = -1
      /\ ~b.nlo => lb.inf = 0 /\ lb.v = b.lo /\ b.lo <= y
      /\ b.phi => hb.inf = 1 /\ EndSign(hb) = 1
      /\ ~b.phi => hb.inf = 0 /\ hb.v = b.hi /\ y <= b.hi
  BY DEF LowEnd, HighEnd, In, EndSign
<1>3. EndSign(p) = SignOf(u)
  BY DEF EndSign
<1>4. u * y \in Int /\ u * b.lo \in Int /\ u * b.hi \in Int
  BY <1>1, TimesCommutes
<1>5. /\ ~b.nlo /\ u >= 0 => u * b.lo <= u * y
      /\ ~b.nlo /\ u <= 0 => u * y <= u * b.lo
      /\ ~b.phi /\ u >= 0 => u * y <= u * b.hi
      /\ ~b.phi /\ u <= 0 => u * b.hi <= u * y
  <2>1. ~b.nlo => (u >= 0 => b.lo * u <= y * u) /\ (u <= 0 => y * u <= b.lo * u)
    BY <1>1, <1>2, TimesMonotone
  <2>2. ~b.phi => (u >= 0 => y * u <= b.hi * u) /\ (u <= 0 => b.hi * u <= y * u)
    BY <1>1, <1>2, TimesMonotone
  <2>3. u * y = y * u /\ u * b.lo = b.lo * u /\ u * b.hi = b.hi * u
    BY <1>1, TimesCommutes
  <2> QED BY <2>1, <2>2, <2>3
\* The corners with the low end.
<1>6. CASE u = 0
  <2>1. u * y = 0 /\ u * b.lo = 0
    BY <1>6, <1>1
  <2>2. CASE b.nlo
    <3>1. SignOf(u) = 0
      BY <1>6 DEF SignOf
    <3>2. EndSign(p) = 0 /\ lb.inf # 0 /\ EndSign(lb) = -1
      BY <1>2, <1>3, <2>2, <3>1
    <3>3. Corner(p, lb).inf + EndSign(p) = 0 /\ Corner(p, lb).v = 0 /\ Corner(p, lb).inf \in Int
      BY <1>1, <3>2, InfiniteCorner
    <3>4. Corner(p, lb).inf = 0
      BY <3>2, <3>3
    <3> QED BY <2>1, <3>3, <3>4 DEF EndBelow, EndAbove
  <2>3. CASE ~b.nlo
    BY <1>1, <1>2, <2>1, <2>3, FiniteCorner
  <2> QED BY <2>2, <2>3, <1>1
<1>7. CASE u > 0
  <2>1. \A z \in Int : u * y <= z => EndBelow(Corner(p, lb), z)
    <3>1. CASE b.nlo
      <4>1. SignOf(u) = 1
        BY <1>1, <1>7 DEF SignOf
      <4>2. EndSign(p) \in Int /\ EndSign(p) = SignOf(u) /\ lb.inf # 0 /\ EndSign(lb) = -1
        BY <1>2, <1>3, <3>1, <4>1
      <4>3. Corner(p, lb).inf + EndSign(p) = 0 /\ Corner(p, lb).inf \in Int
        BY <1>1, <4>2, InfiniteCorner
      <4> QED BY <4>1, <4>2, <4>3 DEF EndBelow
    <3>2. CASE ~b.nlo
      <4>1. u * b.lo <= u * y
        BY <1>5, <1>7, <1>1, <3>2
      <4> QED BY <1>1, <1>2, <1>4, <4>1, <3>2, FiniteCorner
    <3> QED BY <3>1, <3>2
  <2>2. \A z \in Int : z <= u * y => EndAbove(Corner(p, hb), z)
    <3>1. CASE b.phi
      <4>1. SignOf(u) = 1
        BY <1>1, <1>7 DEF SignOf
      <4>2. EndSign(p) \in Int /\ EndSign(p) = SignOf(u) /\ hb.inf # 0 /\ EndSign(hb) = 1
        BY <1>2, <1>3, <3>1, <4>1
      <4>3. Corner(p, hb).inf = EndSign(p)
        BY <1>1, <4>2, InfiniteCorner
      <4> QED BY <4>1, <4>2, <4>3 DEF EndAbove
    <3>2. CASE ~b.phi
      <4>1. u * y <= u * b.hi
        BY <1>5, <1>7, <1>1, <3>2
      <4> QED BY <1>1, <1>2, <1>4, <4>1, <3>2, FiniteCorner
    <3> QED BY <3>1, <3>2
  <2> QED BY <2>1, <2>2
<1>8. CASE u < 0
  <2>1. \A z \in Int : u * y <= z => EndBelow(Corner(p, hb), z)
    <3>1. CASE b.phi
      <4>1. SignOf(u) = -1
        BY <1>1, <1>8 DEF SignOf
      <4>2. EndSign(p) \in Int /\ EndSign(p) = SignOf(u) /\ hb.inf # 0 /\ EndSign(hb) = 1
        BY <1>2, <1>3, <3>1, <4>1
      <4>3. Corner(p, hb).inf = EndSign(p)
        BY <1>1, <4>2, InfiniteCorner
      <4> QED BY <4>1, <4>2, <4>3 DEF EndBelow
    <3>2. CASE ~b.phi
      <4>1. u * b.hi <= u * y
        BY <1>5, <1>8, <1>1, <3>2
      <4> QED BY <1>1, <1>2, <1>4, <4>1, <3>2, FiniteCorner
    <3> QED BY <3>1, <3>2
  <2>2. \A z \in Int : z <= u * y => EndAbove(Corner(p, lb), z)
    <3>1. CASE b.nlo
      <4>1. SignOf(u) = -1
        BY <1>1, <1>8 DEF SignOf
      <4>2. EndSign(p) \in Int /\ EndSign(p) = SignOf(u) /\ lb.inf # 0 /\ EndSign(lb) = -1
        BY <1>2, <1>3, <3>1, <4>1
      <4>3. Corner(p, lb).inf + EndSign(p) = 0 /\ Corner(p, lb).inf \in Int
        BY <1>1, <4>2, InfiniteCorner
      <4>4. Corner(p, lb).inf = 1
        BY <4>1, <4>2, <4>3
      <4> QED BY <4>4 DEF EndAbove
    <3>2. CASE ~b.nlo
      <4>1. u * y <= u * b.lo
        BY <1>5, <1>8, <1>1, <3>2
      <4> QED BY <1>1, <1>2, <1>4, <4>1, <3>2, FiniteCorner
    <3> QED BY <3>1, <3>2
  <2> QED BY <2>1, <2>2
<1> QED BY <1>1, <1>6, <1>7, <1>8

\* An infinite end of a and a value of b: a product on the far side of x * y.
LEMMA InfiniteTimesValue ==
  ASSUME NEW a \in Iv, NEW b \in Iv, NEW x \in Int, NEW y \in Int, In(x, a), In(y, b)
  PROVE  /\ a.nlo /\ y >= 0 =>
              \E q \in {LowEnd(b), HighEnd(b)} : EndBelow(Corner(LowEnd(a), q), x * y)
         /\ a.nlo /\ y <= 0 =>
              \E q \in {LowEnd(b), HighEnd(b)} : EndAbove(Corner(LowEnd(a), q), x * y)
         /\ a.phi /\ y >= 0 =>
              \E q \in {LowEnd(b), HighEnd(b)} : EndAbove(Corner(HighEnd(a), q), x * y)
         /\ a.phi /\ y <= 0 =>
              \E q \in {LowEnd(b), HighEnd(b)} : EndBelow(Corner(HighEnd(a), q), x * y)
<1> DEFINE la == LowEnd(a)
           ha == HighEnd(a)
           lb == LowEnd(b)
           hb == HighEnd(b)
<1>1. b.lo \in Int /\ b.hi \in Int /\ la \in Ends /\ ha \in Ends /\ lb \in Ends /\ hb \in Ends
  BY Fields, EndTypes
<1>2. (a.nlo => la.inf = -1 /\ EndSign(la) = -1) /\ (a.phi => ha.inf = 1 /\ EndSign(ha) = 1)
  BY DEF LowEnd, HighEnd, EndSign
<1>3. /\ y >= 0 => EndSign(hb) = 1 \/ (EndSign(hb) = 0 /\ y = 0)
      /\ y <= 0 => EndSign(lb) = -1 \/ (EndSign(lb) = 0 /\ y = 0)
  BY <1>1 DEF LowEnd, HighEnd, EndSign, SignOf, In
<1>4. y = 0 => x * y = 0
  OBVIOUS
<1>5. a.nlo => /\ Corner(la, lb).inf + EndSign(lb) = 0 /\ Corner(la, lb).inf \in Int /\ Corner(la, lb).v = 0
               /\ Corner(la, hb).inf + EndSign(hb) = 0 /\ Corner(la, hb).inf \in Int /\ Corner(la, hb).v = 0
  BY <1>1, <1>2, InfiniteCorner
<1>6. a.phi => /\ Corner(ha, lb).inf = EndSign(lb) /\ Corner(ha, lb).v = 0
               /\ Corner(ha, hb).inf = EndSign(hb) /\ Corner(ha, hb).v = 0
  BY <1>1, <1>2, InfiniteCorner
<1>7. a.nlo /\ y >= 0 => EndBelow(Corner(la, hb), x * y)
  BY <1>3, <1>4, <1>5 DEF EndBelow
<1>8. a.nlo /\ y <= 0 => EndAbove(Corner(la, lb), x * y)
  BY <1>3, <1>4, <1>5 DEF EndAbove
<1>9. a.phi /\ y >= 0 => EndAbove(Corner(ha, hb), x * y)
  BY <1>3, <1>4, <1>6 DEF EndAbove
<1>10. a.phi /\ y <= 0 => EndBelow(Corner(ha, lb), x * y)
  BY <1>3, <1>4, <1>6 DEF EndBelow
<1> QED BY <1>7, <1>8, <1>9, <1>10

\* The corners of two intervals, infinite ends included, bracket every product.
LEMMA ExtendedCorners ==
  ASSUME NEW a \in Iv, NEW b \in Iv, NEW x \in Int, NEW y \in Int, In(x, a), In(y, b)
  PROVE  /\ \E p \in {LowEnd(a), HighEnd(a)}, q \in {LowEnd(b), HighEnd(b)} :
              EndBelow(Corner(p, q), x * y)
         /\ \E p \in {LowEnd(a), HighEnd(a)}, q \in {LowEnd(b), HighEnd(b)} :
              EndAbove(Corner(p, q), x * y)
<1> DEFINE la == LowEnd(a)
           ha == HighEnd(a)
<1>1. la \in Ends /\ ha \in Ends /\ a.lo \in Int /\ a.hi \in Int
  BY Fields, EndTypes
<1>2. /\ ~a.nlo => la.inf = 0 /\ la.v = a.lo /\ a.lo <= x
      /\ ~a.phi => ha.inf = 0 /\ ha.v = a.hi /\ x <= a.hi
  BY DEF LowEnd, HighEnd, In
<1>3. x * y \in Int
  BY TimesCommutes
<1>4. /\ ~a.nlo /\ y >= 0 => a.lo * y <= x * y
      /\ ~a.nlo /\ y <= 0 => x * y <= a.lo * y
      /\ ~a.phi /\ y >= 0 => x * y <= a.hi * y
      /\ ~a.phi /\ y <= 0 => a.hi * y <= x * y
  BY <1>1, <1>2, TimesMonotone
<1>5. CASE y >= 0
  <2>1. \E q \in {LowEnd(b), HighEnd(b)} : EndBelow(Corner(la, q), x * y)
    <3>1. CASE ~a.nlo
      BY <1>1, <1>2, <1>3, <1>4, <1>5, <3>1, EndTimesValue
    <3> QED BY <3>1, <1>5, InfiniteTimesValue
  <2>2. \E q \in {LowEnd(b), HighEnd(b)} : EndAbove(Corner(ha, q), x * y)
    <3>1. CASE ~a.phi
      BY <1>1, <1>2, <1>3, <1>4, <1>5, <3>1, EndTimesValue
    <3> QED BY <3>1, <1>5, InfiniteTimesValue
  <2> QED BY <2>1, <2>2
<1>6. CASE y <= 0
  <2>1. \E q \in {LowEnd(b), HighEnd(b)} : EndBelow(Corner(ha, q), x * y)
    <3>1. CASE ~a.phi
      BY <1>1, <1>2, <1>3, <1>4, <1>6, <3>1, EndTimesValue
    <3> QED BY <3>1, <1>6, InfiniteTimesValue
  <2>2. \E q \in {LowEnd(b), HighEnd(b)} : EndAbove(Corner(la, q), x * y)
    <3>1. CASE ~a.nlo
      BY <1>1, <1>2, <1>3, <1>4, <1>6, <3>1, EndTimesValue
    <3> QED BY <3>1, <1>6, InfiniteTimesValue
  <2> QED BY <2>1, <2>2
<1> QED BY <1>5, <1>6

\* The product over the extended corners holds every product of two values.
LEMMA MulInfSound ==
  ASSUME NEW a \in Iv, NEW b \in Iv
  PROVE  /\ MulInf(a, b) \in Iv
         /\ \A x, y \in Int : In(x, a) /\ In(y, b) => In(x * y, MulInf(a, b))
<1> DEFINE la == LowEnd(a)
           ha == HighEnd(a)
           lb == LowEnd(b)
           hb == HighEnd(b)
           cs == {Corner(p, q) : p \in {la, ha}, q \in {lb, hb}}
           l == CHOOSE c \in cs : \A d \in cs : EndLE(c, d)
           h == CHOOSE c \in cs : \A d \in cs : EndLE(d, c)
           r == [lo |-> IF l.inf > 0 THEN EMax ELSE l.v,
                 hi |-> IF h.inf < 0 THEN -EMax ELSE h.v,
                 nlo |-> l.inf < 0, phi |-> h.inf > 0, bot |-> FALSE]
<1>1. la \in Ends /\ ha \in Ends /\ lb \in Ends /\ hb \in Ends
  BY EndTypes
<1>2. \A p \in {la, ha}, q \in {lb, hb} : Corner(p, q) \in Ends
  BY <1>1, FiniteCorner, InfiniteCorner
<1>3. cs = {Corner(la, lb), Corner(la, hb), Corner(ha, lb), Corner(ha, hb)}
  OBVIOUS
<1> HIDE DEF la, ha, lb, hb
<1>4. (\E c \in cs : \A d \in cs : EndLE(c, d)) /\ (\E c \in cs : \A d \in cs : EndLE(d, c))
  <2> HIDE DEF cs
  <2> QED BY <1>2, <1>3, FourEnds
<1>5. \A c \in cs : c \in Ends
  BY <1>2
<1>6. MulInf(a, b) = Norm(r)
  BY DEF MulInf, la, ha, lb, hb
<1> HIDE DEF cs
<1>7. l \in cs /\ \A d \in cs : EndLE(l, d)
  BY <1>4
<1>8. h \in cs /\ \A d \in cs : EndLE(d, h)
  BY <1>4
<1> HIDE DEF l, h
<1>9. /\ l.inf \in {-1, 0, 1} /\ l.v \in E /\ l.inf \in Int /\ l.v \in Int /\ l.v <= EMax
      /\ h.inf \in {-1, 0, 1} /\ h.v \in E /\ h.inf \in Int /\ h.v \in Int /\ -EMax <= h.v
  BY <1>5, <1>7, <1>8, EndFields
<1>10. r \in Iv
  BY <1>9, EndsAreIntegers DEF Iv
<1>11. ASSUME NEW x \in Int, NEW y \in Int, In(x, a), In(y, b) PROVE In(x * y, r)
  <2>1. x * y \in Int /\ EMax \in Int
    BY TimesCommutes, EndsAreIntegers
  <2>2. PICK c \in cs : EndBelow(c, x * y)
    BY <1>11, ExtendedCorners DEF cs, la, ha, lb, hb
  <2>3. PICK d \in cs : EndAbove(d, x * y)
    BY <1>11, ExtendedCorners DEF cs, la, ha, lb, hb
  <2>4. EndLE(l, c) /\ EndLE(d, h) /\ c \in Ends /\ d \in Ends
    BY <1>5, <1>7, <1>8
  <2>5. l.inf >= 0 => r.lo <= x * y
    <3>2. c.inf \in {-1, 0, 1} /\ c.v \in Int
      BY <2>4, EndFields
    <3>3. l.inf = 0 => l.v <= x * y
      BY <2>1, <2>2, <2>4, <1>9, <3>2 DEF EndLE, EndBelow
    <3>4. l.inf = 1 => EMax <= x * y
      BY <2>1, <2>2, <2>4, <1>9, <3>2 DEF EndLE, EndBelow
    <3> QED BY <1>9, <3>3, <3>4
  <2>6. h.inf <= 0 => x * y <= r.hi
    <3>2. d.inf \in {-1, 0, 1} /\ d.v \in Int
      BY <2>4, EndFields
    <3>3. h.inf = 0 => x * y <= h.v
      BY <2>1, <2>3, <2>4, <1>9, <3>2 DEF EndLE, EndAbove
    <3>4. h.inf = -1 => x * y <= -EMax
      BY <2>1, <2>3, <2>4, <1>9, <3>2 DEF EndLE, EndAbove
    <3> QED BY <1>9, <3>3, <3>4
  <2>7. (~(l.inf < 0) => l.inf >= 0) /\ (~(h.inf > 0) => h.inf <= 0)
    BY <1>9
  <2> QED BY <2>5, <2>6, <2>7 DEF In
<1> HIDE DEF r
<1>12. ASSUME NEW x \in Int, NEW y \in Int, In(x, a), In(y, b) PROVE In(x * y, MulInf(a, b))
  BY <1>6, <1>10, <1>11, <1>12, NormIn, TimesCommutes
<1> QED BY <1>6, <1>10, <1>12, NormType

\* The product of any two intervals stays in the domain.
LEMMA MulType ==
  ASSUME NEW a \in Iv, NEW b \in Iv
  PROVE  MulIV(a, b) \in Iv
<1> DEFINE cs == {u * v : u \in {a.lo, a.hi}, v \in {b.lo, b.hi}}
           fit == cs \cap E
           n == \E c \in cs : c < -EMax
           p == \E c \in cs : c > EMax
           l == IF fit # {} THEN CHOOSE c \in fit : \A d \in fit : c <= d
                ELSE IF n THEN -EMax ELSE EMax
           h == IF fit # {} THEN CHOOSE c \in fit : \A d \in fit : d <= c
                ELSE IF p THEN EMax ELSE -EMax
           r == [lo |-> l, hi |-> h, nlo |-> n, phi |-> p, bot |-> FALSE]
<1>1. MulIV(a, b) = IF a.bot \/ b.bot THEN Bot
                    ELSE IF ~Finite(a) \/ ~Finite(b) THEN MulInf(a, b) ELSE Norm(r)
  BY DEF MulIV
<1> HIDE DEF cs
<1>2. l \in E
  <2>1. CASE fit # {}
    <3>1. \E c \in fit : \A d \in fit : c <= d
      BY <2>1, LeastEnd
    <3> QED BY <2>1, <3>1
  <2> QED BY <2>1, EndsAreIntegers
<1>3. h \in E
  <2>1. CASE fit # {}
    <3>1. \E c \in fit : \A d \in fit : d <= c
      BY <2>1, GreatestEnd
    <3> QED BY <2>1, <3>1
  <2> QED BY <2>1, EndsAreIntegers
<1> HIDE DEF l, h
<1>4. r \in Iv
  BY <1>2, <1>3 DEF Iv
<1> HIDE DEF r
<1> QED BY <1>1, <1>4, NormType, MulInfSound, ConstantTypes, EndsAreIntegers

\* The product of two values is in the product of their facts, infinite ends
\* included (mulIV and mulInf).
THEOREM MulSound ==
  ASSUME NEW a \in Iv, NEW b \in Iv, NEW x \in Int, NEW y \in Int, In(x, a), In(y, b)
  PROVE  MulIV(a, b) \in Iv /\ In(x * y, MulIV(a, b))
<1>1. CASE Finite(a) /\ Finite(b)
  BY <1>1, MulFiniteSound
<1>2. CASE ~Finite(a) \/ ~Finite(b)
  <2>1. MulIV(a, b) = MulInf(a, b)
    BY <1>2 DEF MulIV, In
  <2> QED BY <2>1, MulInfSound
<1> QED BY <1>1, <1>2

-----------------------------------------------------------------------------
(* Division and remainder. *)

\* The quotient of a natural number by a positive one.
LEMMA FloorFacts ==
  ASSUME NEW n \in Int, NEW d \in Int, d > 0
  PROVE  /\ n \div d \in Int
         /\ (n \div d) * d <= n /\ n < (n \div d) * d + d
BY DEF FloorDivE

\* Division by a positive number is monotone.
LEMMA FloorMonotone ==
  ASSUME NEW m \in Int, NEW n \in Int, NEW d \in Int, d > 0, m <= n
  PROVE  m \div d <= n \div d
<1>1. (m \div d) * d <= n
  BY FloorFacts
<1> QED BY <1>1, FloorFacts

\* The quotient of a natural number is between 0 and it.
LEMMA FloorBounds ==
  ASSUME NEW n \in Int, NEW d \in Int, d > 0, n >= 0
  PROVE  0 <= n \div d /\ n \div d <= n
<1>1. n \div d \in Int /\ (n \div d) * d <= n /\ n < (n \div d) * d + d
  BY FloorFacts
<1> DEFINE q == n \div d
<1> HIDE DEF q
<1>2. q \in Int /\ q * d <= n /\ n < q * d + d
  BY <1>1 DEF q
<1>3. 0 <= q
  <2>1. ASSUME q <= -1 PROVE FALSE
    <3>1. q * d <= (-1) * d
      BY <2>1, <1>2, TimesMonotone
    <3> QED BY <3>1, <1>2
  <2> QED BY <2>1, <1>2
<1>4. q <= n
  <2>1. q * 1 <= q * d
    <3>1. 1 * q <= d * q
      BY <1>2, <1>3, TimesMonotone
    <3> QED BY <3>1, <1>2, TimesCommutes
  <2> QED BY <2>1, <1>2, TimesCommutes
<1> QED BY <1>3, <1>4 DEF q

\* A greater divisor has a lesser quotient.
LEMMA FloorAntitone ==
  ASSUME NEW n \in Int, NEW d \in Int, NEW e \in Int, 0 < d, d <= e, n >= 0
  PROVE  n \div e <= n \div d
<1>1. n \div e \in Int /\ 0 <= n \div e /\ (n \div e) * e <= n
  BY FloorFacts, FloorBounds
<1>2. d * (n \div e) <= e * (n \div e)
  BY <1>1, TimesMonotone
<1>3. (n \div e) * d <= n
  BY <1>1, <1>2, TimesCommutes
<1>4. n < (n \div d) * d + d /\ n \div d \in Int
  BY FloorFacts
<1> DEFINE p == n \div e
           q == n \div d
<1> HIDE DEF p, q
<1>5. p \in Int /\ q \in Int /\ p * d <= n /\ n < q * d + d
  BY <1>1, <1>3, <1>4 DEF p, q
<1>6. ASSUME q + 1 <= p PROVE FALSE
  <2>1. (q + 1) * d <= p * d
    BY <1>5, <1>6, TimesMonotone
  <2>2. (q + 1) * d = q * d + d
    BY <1>5
  <2> QED BY <1>5, <2>1, <2>2, TimesCommutes
<1>7. p <= q
  BY <1>5, <1>6
<1> QED BY <1>7 DEF p, q

\* Truncating division by cases of the signs.
LEMMA QuoCases ==
  ASSUME NEW x \in Int, NEW y \in Int, y # 0
  PROVE  /\ Quo(x, y) \in Int
         /\ x >= 0 /\ y > 0 => Quo(x, y) = x \div y
         /\ x <= 0 /\ y > 0 => Quo(x, y) = -((-x) \div y)
         /\ Quo(x, -y) = -Quo(x, y)
         /\ Quo(-x, y) = -Quo(x, y)
<1>1. AbsE(x) \in Int /\ AbsE(x) >= 0 /\ AbsE(y) \in Int /\ AbsE(y) > 0
  BY DEF AbsE
<1>2. AbsE(-x) = AbsE(x) /\ AbsE(-y) = AbsE(y)
  BY DEF AbsE
<1>3. AbsE(x) \div AbsE(y) \in Int /\ AbsE(x) \div AbsE(y) >= 0
  BY <1>1, FloorFacts, FloorBounds
<1>4. x = 0 => AbsE(x) \div AbsE(y) = 0
  <2>1. x = 0 => AbsE(x) = 0
    BY DEF AbsE
  <2> QED BY <2>1, <1>1, <1>3, FloorBounds
<1>5. Quo(x, y) = IF (x < 0) # (y < 0) THEN -(AbsE(x) \div AbsE(y)) ELSE AbsE(x) \div AbsE(y)
  BY DEF Quo
<1>6. Quo(x, -y) = IF (x < 0) # (-y < 0) THEN -(AbsE(x) \div AbsE(y)) ELSE AbsE(x) \div AbsE(y)
  BY <1>2 DEF Quo
<1>7. Quo(-x, y) = IF (-x < 0) # (y < 0) THEN -(AbsE(x) \div AbsE(y)) ELSE AbsE(x) \div AbsE(y)
  BY <1>2 DEF Quo
<1>8. (x >= 0 => AbsE(x) = x) /\ (x <= 0 => AbsE(x) = -x) /\ (y > 0 => AbsE(y) = y)
  BY DEF AbsE
<1> DEFINE q == AbsE(x) \div AbsE(y)
<1> HIDE DEF q
<1>9. q \in Int /\ (x = 0 => q = 0)
  BY <1>3, <1>4 DEF q
<1>10. Quo(x, y) = IF (x < 0) # (y < 0) THEN -q ELSE q
  BY <1>5 DEF q
<1>11. Quo(x, -y) = IF (x < 0) # (-y < 0) THEN -q ELSE q
  BY <1>6 DEF q
<1>12. Quo(-x, y) = IF (-x < 0) # (y < 0) THEN -q ELSE q
  BY <1>7 DEF q
<1>13. (x >= 0 /\ y > 0 => q = x \div y) /\ (x <= 0 /\ y > 0 => q = (-x) \div y)
  BY <1>8 DEF q
<1>14. Quo(x, y) \in Int
  BY <1>9, <1>10
<1>15. Quo(x, -y) = -Quo(x, y)
  BY <1>9, <1>10, <1>11
<1>16. Quo(-x, y) = -Quo(x, y)
  BY <1>9, <1>10, <1>12
<1>17. x >= 0 /\ y > 0 => Quo(x, y) = x \div y
  BY <1>10, <1>13
<1>18. x <= 0 /\ y > 0 => Quo(x, y) = -((-x) \div y)
  BY <1>9, <1>10, <1>13
<1> QED BY <1>14, <1>15, <1>16, <1>17, <1>18

\* Truncating division by a positive number is division of the magnitude.
LEMMA QuoPositive ==
  ASSUME NEW x \in Int, NEW y \in Int, y > 0
  PROVE  /\ Quo(x, y) \in Int
         /\ x >= 0 => Quo(x, y) = x \div y
         /\ x <= 0 => Quo(x, y) = -((-x) \div y)
<1>1. y # 0
  OBVIOUS
<1> QED BY <1>1, QuoCases

\* A divisor's sign is the quotient's.
LEMMA QuoMirror ==
  ASSUME NEW x \in Int, NEW y \in Int, y # 0
  PROVE  Quo(x, y) \in Int /\ Quo(x, -y) = -Quo(x, y)
BY QuoCases

\* Truncating division is monotone in its dividend.
LEMMA QuoMonotone ==
  ASSUME NEW x \in Int, NEW w \in Int, NEW y \in Int, y > 0, x <= w
  PROVE  Quo(x, y) <= Quo(w, y)
<1>1. (x >= 0 => Quo(x, y) = x \div y) /\ (x <= 0 => Quo(x, y) = -((-x) \div y))
  BY QuoPositive
<1>2. (w >= 0 => Quo(w, y) = w \div y) /\ (w <= 0 => Quo(w, y) = -((-w) \div y))
  BY QuoPositive
<1>3. CASE x >= 0
  BY <1>1, <1>2, <1>3, FloorMonotone
<1>4. CASE w <= 0
  <2>1. (-w) \div y <= (-x) \div y /\ (-w) \div y \in Int /\ (-x) \div y \in Int
    BY <1>4, FloorMonotone, FloorFacts
  <2> QED BY <1>1, <1>2, <1>4, <2>1
<1>5. CASE x <= 0 /\ w >= 0
  <2>1. 0 <= w \div y /\ 0 <= (-x) \div y /\ w \div y \in Int /\ (-x) \div y \in Int
    BY <1>5, FloorBounds, FloorFacts
  <2> QED BY <1>1, <1>2, <1>5, <2>1
<1> QED BY <1>3, <1>4, <1>5

\* A quotient is no longer than its dividend, and has its sign for a positive
\* divisor.
LEMMA QuoBound ==
  ASSUME NEW x \in Int, NEW y \in Int, y # 0
  PROVE  /\ -AbsE(x) <= Quo(x, y) /\ Quo(x, y) <= AbsE(x)
         /\ x >= 0 /\ y > 0 => 0 <= Quo(x, y) /\ Quo(x, y) <= x
<1>1. AbsE(x) \in Int /\ AbsE(x) >= 0 /\ AbsE(y) \in Int /\ AbsE(y) > 0
  BY DEF AbsE
<1> DEFINE q == AbsE(x) \div AbsE(y)
<1>2. q \in Int /\ 0 <= q /\ q <= AbsE(x)
  BY <1>1, FloorBounds, FloorFacts
<1>3. Quo(x, y) = IF (x < 0) # (y < 0) THEN -q ELSE q
  BY DEF Quo
<1>4. x >= 0 => AbsE(x) = x
  BY DEF AbsE
<1> HIDE DEF q
<1> QED BY <1>1, <1>2, <1>3, <1>4

\* Between two divisors of one sign, a quotient lies between their quotients.
LEMMA QuoBetween ==
  ASSUME NEW u \in Int, NEW c \in Int, NEW d \in Int, NEW y \in c .. d, c > 0
  PROVE  /\ u >= 0 => Quo(u, d) <= Quo(u, y) /\ Quo(u, y) <= Quo(u, c)
         /\ u <= 0 => Quo(u, c) <= Quo(u, y) /\ Quo(u, y) <= Quo(u, d)
<1> y \in Int /\ y > 0 /\ d > 0
  OBVIOUS
<1>1. CASE u >= 0
  <2>1. Quo(u, c) = u \div c /\ Quo(u, y) = u \div y /\ Quo(u, d) = u \div d
    BY <1>1, QuoPositive
  <2>2. u \div d <= u \div y /\ u \div y <= u \div c
    BY <1>1, FloorAntitone
  <2>3. u \div d \in Int /\ u \div y \in Int /\ u \div c \in Int
    BY FloorFacts
  <2>4. u <= 0 => u \div c = 0 /\ u \div d = 0 /\ u \div y = 0
    BY <1>1, <2>3, FloorBounds
  <2> QED BY <2>1, <2>2, <2>4, <1>1
<1>2. CASE u < 0
  <2>1. Quo(u, c) = -((-u) \div c) /\ Quo(u, y) = -((-u) \div y) /\ Quo(u, d) = -((-u) \div d)
    <3>1. u <= 0
      BY <1>2
    <3> QED BY <3>1, QuoPositive
  <2>2. (-u) \div d <= (-u) \div y /\ (-u) \div y <= (-u) \div c
    BY <1>2, FloorAntitone
  <2>3. (-u) \div d \in Int /\ (-u) \div y \in Int /\ (-u) \div c \in Int
    BY FloorFacts
  <2> QED BY <2>1, <2>2, <2>3, <1>2
<1> QED BY <1>1, <1>2

QuotientsOf(al, ah, c, d) == {Quo(u, v) : u \in {al, ah}, v \in {c, d}}

\* Over positive divisors the extreme quotients are at the corners.
LEMMA PositiveQuotients ==
  ASSUME NEW al \in Int, NEW ah \in Int, NEW c \in Int, NEW d \in Int, c > 0,
         NEW x \in al .. ah, NEW y \in c .. d
  PROVE  /\ \E q \in QuotientsOf(al, ah, c, d) : q <= Quo(x, y)
         /\ \E q \in QuotientsOf(al, ah, c, d) : Quo(x, y) <= q
<1> DEFINE qs == QuotientsOf(al, ah, c, d)
<1> y \in Int /\ y > 0 /\ d > 0 /\ x \in Int
  OBVIOUS
<1>1. Quo(al, c) \in qs /\ Quo(al, d) \in qs /\ Quo(ah, c) \in qs /\ Quo(ah, d) \in qs
  BY DEF QuotientsOf
<1>2. /\ Quo(al, c) \in Int /\ Quo(al, d) \in Int /\ Quo(ah, c) \in Int /\ Quo(ah, d) \in Int
      /\ Quo(x, y) \in Int /\ Quo(al, y) \in Int /\ Quo(ah, y) \in Int
  BY QuoPositive
<1>3. Quo(al, y) <= Quo(x, y) /\ Quo(x, y) <= Quo(ah, y)
  BY QuoMonotone
<1>4. (Quo(al, d) <= Quo(al, y) \/ Quo(al, c) <= Quo(al, y))
  BY QuoBetween
<1>5. (Quo(ah, y) <= Quo(ah, c) \/ Quo(ah, y) <= Quo(ah, d))
  BY QuoBetween
<1> HIDE DEF qs
<1>6. \E q \in qs : q <= Quo(x, y)
  BY <1>1, <1>2, <1>3, <1>4
<1>7. \E q \in qs : Quo(x, y) <= q
  BY <1>1, <1>2, <1>3, <1>5
<1> QED BY <1>6, <1>7 DEF qs

\* Over negative divisors the extreme quotients are at the corners.
LEMMA NegativeQuotients ==
  ASSUME NEW al \in Int, NEW ah \in Int, NEW c \in Int, NEW d \in Int, d < 0,
         NEW x \in al .. ah, NEW y \in c .. d
  PROVE  /\ \E q \in QuotientsOf(al, ah, c, d) : q <= Quo(x, y)
         /\ \E q \in QuotientsOf(al, ah, c, d) : Quo(x, y) <= q
<1>1. -d > 0 /\ -d \in Int /\ -c \in Int /\ -y \in (-d) .. (-c) /\ c < 0
  OBVIOUS
<1>2. PICK q1 \in QuotientsOf(al, ah, -d, -c) : q1 <= Quo(x, -y)
  BY <1>1, PositiveQuotients
<1>3. PICK q2 \in QuotientsOf(al, ah, -d, -c) : Quo(x, -y) <= q2
  BY <1>1, PositiveQuotients
<1>4. \A q \in QuotientsOf(al, ah, -d, -c) : q \in Int /\ -q \in QuotientsOf(al, ah, c, d)
  <2> SUFFICES ASSUME NEW u \in {al, ah}, NEW w \in {c, d}
               PROVE  Quo(u, -w) \in Int /\ -Quo(u, -w) \in QuotientsOf(al, ah, c, d)
    BY DEF QuotientsOf
  <2>1. u \in Int /\ w \in Int /\ w # 0 /\ -w # 0
    BY <1>1
  <2>2. Quo(u, w) \in Int /\ Quo(u, -w) = -Quo(u, w)
    BY <2>1, QuoMirror
  <2>3. -Quo(u, -w) = Quo(u, w)
    BY <2>2
  <2> QED BY <2>2, <2>3 DEF QuotientsOf
<1>5. Quo(x, y) \in Int /\ Quo(x, -y) = -Quo(x, y)
  BY QuoMirror
<1>6. -q1 \in QuotientsOf(al, ah, c, d) /\ Quo(x, y) <= -q1
  BY <1>2, <1>4, <1>5
<1>7. -q2 \in QuotientsOf(al, ah, c, d) /\ -q2 <= Quo(x, y)
  BY <1>3, <1>4, <1>5
<1> QED BY <1>6, <1>7

\* What divides: the ends of the divisor's negative and positive parts.
DivisorsOf(b) == (IF b.lo < 0 THEN {b.lo, MinE(b.hi, -1)} ELSE {})
                 \cup (IF b.hi > 0 THEN {MaxE(b.lo, 1), b.hi} ELSE {})
QuotientSet(a, b) == {Quo(x, y) : x \in {a.lo, a.hi}, y \in DivisorsOf(b)}

\* Every quotient of two values is between two quotients of the corners.
LEMMA Quotients ==
  ASSUME NEW a \in Iv, NEW b \in Iv, Finite(a), Finite(b), NEW x \in Int, NEW y \in Int,
         In(x, a), In(y, b), y # 0
  PROVE  /\ \E q \in QuotientSet(a, b) : q <= Quo(x, y)
         /\ \E q \in QuotientSet(a, b) : Quo(x, y) <= q
<1>1. /\ a.lo \in Int /\ a.hi \in Int /\ b.lo \in Int /\ b.hi \in Int
      /\ x \in a.lo .. a.hi /\ b.lo <= y /\ y <= b.hi
  BY Fields DEF In, Finite
<1>2. CASE y > 0
  <2> DEFINE c == MaxE(b.lo, 1)
  <2>1. c \in Int /\ c > 0 /\ y \in c .. b.hi
    BY <1>1, <1>2 DEF MaxE
  <2>2. {c, b.hi} \subseteq DivisorsOf(b)
    BY <1>1, <1>2 DEF DivisorsOf
  <2> HIDE DEF c
  <2>3. QuotientsOf(a.lo, a.hi, c, b.hi) \subseteq QuotientSet(a, b)
    BY <2>2 DEF QuotientsOf, QuotientSet
  <2> QED BY <1>1, <2>1, <2>3, PositiveQuotients
<1>3. CASE y < 0
  <2> DEFINE d == MinE(b.hi, -1)
  <2>1. d \in Int /\ d < 0 /\ y \in b.lo .. d
    BY <1>1, <1>3 DEF MinE
  <2>2. {b.lo, d} \subseteq DivisorsOf(b)
    BY <1>1, <1>3 DEF DivisorsOf
  <2> HIDE DEF d
  <2>3. QuotientsOf(a.lo, a.hi, b.lo, d) \subseteq QuotientSet(a, b)
    BY <2>2 DEF QuotientsOf, QuotientSet
  <2> QED BY <1>1, <2>1, <2>3, NegativeQuotients
<1> QED BY <1>2, <1>3

\* Quotients of ends are ends: none is longer than its dividend.
LEMMA QuotientsAreEnds ==
  ASSUME NEW a \in Iv, NEW b \in Iv
  PROVE  QuotientSet(a, b) \subseteq E
<1> SUFFICES ASSUME NEW x \in {a.lo, a.hi}, NEW y \in DivisorsOf(b) PROVE Quo(x, y) \in E
  BY DEF QuotientSet
<1>1. x \in E /\ x \in Int /\ b.lo \in Int /\ b.hi \in Int
  BY Fields
<1>2. y \in Int /\ y # 0
  BY <1>1 DEF DivisorsOf, MinE, MaxE
<1>3. Quo(x, y) \in Int /\ -AbsE(x) <= Quo(x, y) /\ Quo(x, y) <= AbsE(x)
  BY <1>1, <1>2, QuoCases, QuoBound
<1>4. AbsE(x) \in Int /\ AbsE(x) <= EMax
  BY <1>1, EndsAreIntegers DEF AbsE
<1> QED BY <1>3, <1>4, EndsAreIntegers

\* The bound by the dividend's magnitude is an interval.
LEMMA DividendBoundType ==
  ASSUME NEW a \in Iv
  PROVE  DividendBound(a) \in Iv
<1> DEFINE m == MaxE(AbsE(a.lo), AbsE(a.hi))
<1>1. m \in E
  BY Fields, EndsAreIntegers DEF MaxE, AbsE
<1>2. RangeE(-m, m) \in Iv /\ Top \in Iv
  BY <1>1, ConstantTypes, EndsAreIntegers
<1> HIDE DEF m
<1>3. DividendBound(a) = IF a.nlo \/ a.phi THEN Top ELSE RangeE(-m, m)
  BY DEF DividendBound, m
<1> QED BY <1>2, <1>3

\* The quotient of two intervals is an interval.
LEMMA DivType ==
  ASSUME NEW a \in Iv, NEW b \in Iv
  PROVE  DivIV(a, b) \in Iv
<1> DEFINE r == [lo |-> 0, hi |-> a.hi, nlo |-> FALSE, phi |-> a.phi, bot |-> FALSE]
           qs == QuotientSet(a, b)
           l == CHOOSE q \in qs : \A p \in qs : q <= p
           h == CHOOSE q \in qs : \A p \in qs : p <= q
<1>1. Bot \in Iv /\ r \in Iv
  BY ConstantTypes, EndsAreIntegers, Fields DEF Iv
<1>2. qs \in SUBSET E
  BY QuotientsAreEnds
<1>3. DivIV(a, b) =
        IF a.bot \/ b.bot THEN Bot
        ELSE IF ~Finite(a) \/ ~Finite(b)
        THEN IF ~b.nlo /\ b.lo > 0 /\ NonNeg(a) THEN Norm(r) ELSE DividendBound(a)
        ELSE IF qs = {} THEN Bot ELSE RangeE(l, h)
  BY DEF DivIV, QuotientSet, DivisorsOf
<1>4. qs # {} => RangeE(l, h) \in Iv
  <2> HIDE DEF qs
  <2> SUFFICES ASSUME qs # {} PROVE RangeE(l, h) \in Iv
    OBVIOUS
  <2>1. \E q \in qs : \A p \in qs : q <= p
    BY <1>2, LeastEnd
  <2>2. \E q \in qs : \A p \in qs : p <= q
    BY <1>2, GreatestEnd
  <2>3. l \in E /\ h \in E
    BY <1>2, <2>1, <2>2
  <2> QED BY <2>3, ConstantTypes
<1> HIDE DEF r, qs, l, h
<1> QED BY <1>1, <1>3, <1>4, NormType, DividendBoundType

\* The quotient of two values, where the division runs, is in the quotient of
\* their facts, a divisor that straddles zero included (divIV).
THEOREM DivSound ==
  ASSUME NEW a \in Iv, NEW b \in Iv, NEW x \in Int, NEW y \in Int, In(x, a), In(y, b), y # 0
  PROVE  DivIV(a, b) \in Iv /\ In(Quo(x, y), DivIV(a, b))
<1> DEFINE r == [lo |-> 0, hi |-> a.hi, nlo |-> FALSE, phi |-> a.phi, bot |-> FALSE]
           qs == QuotientSet(a, b)
           l == CHOOSE q \in qs : \A p \in qs : q <= p
           h == CHOOSE q \in qs : \A p \in qs : p <= q
<1>1. Quo(x, y) \in Int /\ a.lo \in Int /\ a.hi \in Int /\ b.lo \in Int /\ b.hi \in Int
  BY QuoCases, Fields
<1>2. DivIV(a, b) =
        IF ~Finite(a) \/ ~Finite(b)
        THEN IF ~b.nlo /\ b.lo > 0 /\ NonNeg(a) THEN Norm(r) ELSE DividendBound(a)
        ELSE IF qs = {} THEN Bot ELSE RangeE(l, h)
  BY DEF DivIV, QuotientSet, DivisorsOf, In
<1>3. CASE Finite(a) /\ Finite(b)
  <2>1. PICK q1 \in qs : q1 <= Quo(x, y)
    BY <1>3, Quotients
  <2>2. PICK q2 \in qs : Quo(x, y) <= q2
    BY <1>3, Quotients
  <2>3. qs \in SUBSET E
    BY QuotientsAreEnds
  <2> HIDE DEF qs
  <2>4. l \in qs /\ \A p \in qs : l <= p
    BY <2>1, <2>3, LeastEnd
  <2>5. h \in qs /\ \A p \in qs : p <= h
    BY <2>1, <2>3, GreatestEnd
  <2>6. l \in Int /\ h \in Int /\ q1 \in Int /\ q2 \in Int
    BY <2>3, <2>4, <2>5, EndsAreIntegers
  <2>7. l <= Quo(x, y) /\ Quo(x, y) <= h
    BY <1>1, <2>1, <2>2, <2>4, <2>5, <2>6
  <2> HIDE DEF l, h
  <2>8. In(Quo(x, y), RangeE(l, h))
    BY <2>7 DEF In, RangeE
  <2> QED BY <1>2, <1>3, <2>1, <2>8, DivType
<1>4. CASE (~Finite(a) \/ ~Finite(b)) /\ ~b.nlo /\ b.lo > 0 /\ NonNeg(a)
  <2>1. x >= 0 /\ y > 0
    BY <1>1, <1>4 DEF In, NonNeg
  <2>2. 0 <= Quo(x, y) /\ Quo(x, y) <= x
    BY <2>1, QuoBound
  <2>3. In(Quo(x, y), r)
    BY <1>1, <2>2 DEF In
  <2>4. r \in Iv
    BY Fields, EndsAreIntegers DEF Iv
  <2> HIDE DEF r
  <2> QED BY <1>1, <1>2, <1>4, <2>3, <2>4, NormIn, DivType
<1>5. CASE (~Finite(a) \/ ~Finite(b)) /\ ~(~b.nlo /\ b.lo > 0 /\ NonNeg(a))
  <2> DEFINE m == MaxE(AbsE(a.lo), AbsE(a.hi))
  <2>1. -AbsE(x) <= Quo(x, y) /\ Quo(x, y) <= AbsE(x)
    BY QuoBound
  <2>2. ~a.nlo /\ ~a.phi => AbsE(x) <= m /\ m \in Int /\ AbsE(x) \in Int
    BY <1>1 DEF In, AbsE, MaxE
  <2> HIDE DEF m
  <2>3. ~a.nlo /\ ~a.phi => -m <= Quo(x, y) /\ Quo(x, y) <= m
    BY <1>1, <2>1, <2>2
  <2>4. In(Quo(x, y), DividendBound(a))
    BY <2>3 DEF DividendBound, In, Top, RangeE, m
  <2> QED BY <1>2, <1>5, <2>4, DivType
<1> QED BY <1>3, <1>4, <1>5

\* A remainder is shorter than the divisor, no longer than the dividend, and has
\* the dividend's sign.
LEMMA RemOfNatural ==
  ASSUME NEW x \in Int, NEW y \in Int, x >= 0, y > 0
  PROVE  Rem(x, y) \in Int /\ 0 <= Rem(x, y) /\ Rem(x, y) <= y - 1 /\ Rem(x, y) <= x
<1> DEFINE q == x \div y
<1>1. q \in Int /\ 0 <= q /\ q * y <= x /\ x < q * y + y
  BY FloorFacts, FloorBounds
<1>2. Rem(x, y) = x - y * q
  BY QuoPositive DEF Rem
<1> HIDE DEF q
<1>3. y * q = q * y /\ y * q \in Int
  BY <1>1, TimesCommutes
<1>4. 0 * q <= y * q
  BY <1>1, TimesMonotone
<1> QED BY <1>1, <1>2, <1>3, <1>4

\* A remainder has the dividend's sign, and does not read the divisor's.
LEMMA RemMirror ==
  ASSUME NEW x \in Int, NEW y \in Int, y > 0
  PROVE  /\ Rem(x, -y) = Rem(x, y)
         /\ x <= 0 => Rem(x, y) = -Rem(-x, y)
<1>1. Quo(x, y) \in Int /\ Quo(x, -y) = -Quo(x, y)
  BY QuoMirror
<1>2. (-y) * (-Quo(x, y)) = y * Quo(x, y)
  BY <1>1
<1>3. Rem(x, -y) = Rem(x, y)
  BY <1>1, <1>2 DEF Rem
<1>4. ASSUME x <= 0 PROVE Rem(x, y) = -Rem(-x, y)
  <2> DEFINE q == (-x) \div y
  <2>1. q \in Int
    BY FloorFacts
  <2>a. -x \in Int /\ -x >= 0
    BY <1>4
  <2>b. Quo(-x, y) = q
    BY <2>a, QuoPositive
  <2>2. Quo(x, y) = -q /\ Quo(-x, y) = q
    BY <1>4, <2>b, QuoPositive
  <2>3. Rem(x, y) = x - y * (-q) /\ Rem(-x, y) = (-x) - y * q
    BY <2>2 DEF Rem
  <2> HIDE DEF q
  <2>4. y * (-q) = -(y * q) /\ y * q \in Int
    BY <2>1
  <2> QED BY <2>1, <2>3, <2>4
<1> QED BY <1>3, <1>4

\* A remainder is smaller than its divisor, and between 0 and its dividend.
LEMMA RemFacts ==
  ASSUME NEW x \in Int, NEW y \in Int, y # 0
  PROVE  /\ Rem(x, y) \in Int
         /\ -(AbsE(y) - 1) <= Rem(x, y) /\ Rem(x, y) <= AbsE(y) - 1
         /\ x >= 0 => 0 <= Rem(x, y) /\ Rem(x, y) <= x
         /\ x <= 0 => x <= Rem(x, y) /\ Rem(x, y) <= 0
<1> DEFINE d == AbsE(y)
<1>1. d \in Int /\ d > 0 /\ (y = d \/ y = -d)
  BY DEF AbsE
<1> HIDE DEF d
<1>2. Rem(x, y) = Rem(x, d)
  BY <1>1, RemMirror
<1>3. CASE x >= 0
  <2>1. Rem(x, d) \in Int /\ 0 <= Rem(x, d) /\ Rem(x, d) <= d - 1 /\ Rem(x, d) <= x
    BY <1>1, <1>3, RemOfNatural
  <2>2. x <= 0 => x <= Rem(x, d) /\ Rem(x, d) <= 0
    BY <2>1, <1>3
  <2> QED BY <1>1, <1>2, <1>3, <2>1, <2>2 DEF d
<1>4. CASE x < 0
  <2>1. Rem(x, d) = -Rem(-x, d)
    BY <1>1, <1>4, RemMirror
  <2>2. -x \in Int /\ -x >= 0
    BY <1>4
  <2>3. Rem(-x, d) \in Int /\ 0 <= Rem(-x, d) /\ Rem(-x, d) <= d - 1 /\ Rem(-x, d) <= -x
    BY <1>1, <2>2, RemOfNatural
  <2> QED BY <1>1, <1>2, <1>4, <2>1, <2>3 DEF d
<1> QED BY <1>3, <1>4

RemBetween(a) == Norm([lo |-> MinE(a.lo, 0), hi |-> MaxE(a.hi, 0),
                       nlo |-> a.nlo, phi |-> a.phi, bot |-> FALSE])
RemBound(b) == MaxE(AbsE(b.lo), AbsE(b.hi)) - 1

\* The remainder of two intervals, case by case.
LEMMA RemShape ==
  ASSUME NEW a \in Iv, NEW b \in Iv
  PROVE  RemIV(a, b) =
           IF a.bot \/ b.bot THEN Bot
           ELSE IF ~Finite(b) \/ RemBound(b) = -1 THEN RemBetween(a)
           ELSE IF NonNeg(a)
           THEN RangeE(0, IF ~a.phi /\ a.hi < RemBound(b) THEN a.hi ELSE RemBound(b))
           ELSE IF ~a.phi /\ a.hi <= 0
           THEN RangeE(IF ~a.nlo /\ -RemBound(b) < a.lo THEN a.lo ELSE -RemBound(b), 0)
           ELSE MeetIV(RangeE(-RemBound(b), RemBound(b)), RemBetween(a))
BY DEF RemIV, RemBetween, RemBound

\* The two bounds of a remainder's interval are representable.
LEMMA RemParts ==
  ASSUME NEW a \in Iv, NEW b \in Iv
  PROVE  /\ RemBetween(a) \in Iv
         /\ RemBound(b) \in Int /\ -1 <= RemBound(b)
         /\ RemBound(b) # -1 => RemBound(b) \in E /\ -RemBound(b) \in E
<1>1. MinE(a.lo, 0) \in E /\ MaxE(a.hi, 0) \in E
  BY Fields, EndsAreIntegers DEF MinE, MaxE
<1>2. RemBetween(a) \in Iv
  BY <1>1, Fields, Built, NormType DEF RemBetween
<1> DEFINE m == MaxE(AbsE(b.lo), AbsE(b.hi))
<1>3. m \in Int /\ 0 <= m /\ m <= EMax
  BY Fields, EndsAreIntegers DEF MaxE, AbsE
<1>4. RemBound(b) = m - 1
  BY DEF RemBound
<1> HIDE DEF m
<1>5. RemBound(b) \in Int /\ -1 <= RemBound(b)
  BY <1>3, <1>4
<1>6. RemBound(b) # -1 => RemBound(b) \in E /\ -RemBound(b) \in E
  BY <1>3, <1>4, EndsAreIntegers
<1> QED BY <1>2, <1>5, <1>6

\* The remainder of two intervals is an interval.
LEMMA RemType ==
  ASSUME NEW a \in Iv, NEW b \in Iv
  PROVE  RemIV(a, b) \in Iv
<1> DEFINE k == RemBound(b)
<1>1. RemBetween(a) \in Iv /\ Bot \in Iv
  BY RemParts, ConstantTypes, EndsAreIntegers
<1>2. CASE k = -1
  BY <1>1, <1>2, RemShape
<1>3. CASE k # -1
  <2>1. k \in E /\ -k \in E /\ a.lo \in E /\ a.hi \in E /\ 0 \in E
    BY <1>3, RemParts, Fields, EndsAreIntegers
  <2> HIDE DEF k
  <2>2. /\ RangeE(0, IF ~a.phi /\ a.hi < k THEN a.hi ELSE k) \in Iv
        /\ RangeE(IF ~a.nlo /\ -k < a.lo THEN a.lo ELSE -k, 0) \in Iv
        /\ RangeE(-k, k) \in Iv
    BY <2>1, ConstantTypes
  <2> QED BY <1>1, <2>2, RemShape, MeetType DEF k
<1> QED BY <1>2, <1>3

\* The remainder of two values is in the remainder of their facts (remIV).
THEOREM RemSound ==
  ASSUME NEW a \in Iv, NEW b \in Iv, NEW x \in Int, NEW y \in Int, In(x, a), In(y, b), y # 0
  PROVE  RemIV(a, b) \in Iv /\ In(Rem(x, y), RemIV(a, b))
<1> DEFINE k == RemBound(b)
           z == Rem(x, y)
           m == [lo |-> MinE(a.lo, 0), hi |-> MaxE(a.hi, 0),
                 nlo |-> a.nlo, phi |-> a.phi, bot |-> FALSE]
<1>1. a.lo \in Int /\ a.hi \in Int /\ b.lo \in Int /\ b.hi \in Int
  BY Fields
<1>2. /\ z \in Int
      /\ -(AbsE(y) - 1) <= z /\ z <= AbsE(y) - 1
      /\ x >= 0 => 0 <= z /\ z <= x
      /\ x <= 0 => x <= z /\ z <= 0
  BY RemFacts
<1>3. ~a.bot /\ ~b.bot
  BY DEF In
<1>4. Finite(b) => k \in Int /\ 0 <= k /\ -k <= z /\ z <= k
  <2> SUFFICES ASSUME Finite(b) PROVE k \in Int /\ 0 <= k /\ -k <= z /\ z <= k
    OBVIOUS
  <2>1. AbsE(y) \in Int /\ 1 <= AbsE(y) /\ AbsE(y) - 1 <= k /\ k \in Int
    BY <1>1 DEF In, Finite, AbsE, MaxE, RemBound
  <2> HIDE DEF k
  <2> QED BY <1>2, <2>1
<1> HIDE DEF z
<1>5. In(z, m)
  BY <1>1, <1>2 DEF In, MinE, MaxE
<1>6. m \in Iv
  <2>1. MinE(a.lo, 0) \in E /\ MaxE(a.hi, 0) \in E
    BY Fields, EndsAreIntegers DEF MinE, MaxE
  <2> QED BY <2>1, Fields, Built
<1>7. In(z, RemBetween(a)) /\ RemBetween(a) \in Iv
  <2>1. RemBetween(a) = Norm(m)
    BY DEF RemBetween
  <2> HIDE DEF m
  <2> QED BY <2>1, <1>2, <1>5, <1>6, NormIn, NormType
<1> HIDE DEF k, m
<1>8. CASE ~Finite(b) \/ k = -1
  BY <1>3, <1>7, <1>8, RemShape, RemType DEF k, z
<1>9. CASE Finite(b) /\ k # -1
  <2>1. k \in Int /\ 0 <= k /\ -k <= z /\ z <= k /\ RangeE(-k, k) \in Iv
    BY <1>4, <1>9, RemParts, ConstantTypes DEF k
  <2>2. CASE NonNeg(a)
    <3>1. x >= 0 /\ (~a.phi => x <= a.hi)
      BY <1>1, <2>2 DEF NonNeg, In
    <3>2. In(z, RangeE(0, IF ~a.phi /\ a.hi < k THEN a.hi ELSE k))
      BY <1>1, <1>2, <2>1, <3>1 DEF In, RangeE
    <3> QED BY <1>3, <1>9, <2>2, <3>2, RemShape, RemType DEF k, z
  <2>3. CASE ~NonNeg(a) /\ ~a.phi /\ a.hi <= 0
    <3>1. x <= 0 /\ (~a.nlo => a.lo <= x)
      BY <1>1, <2>3 DEF In
    <3>2. In(z, RangeE(IF ~a.nlo /\ -k < a.lo THEN a.lo ELSE -k, 0))
      BY <1>1, <1>2, <2>1, <3>1 DEF In, RangeE
    <3> QED BY <1>3, <1>9, <2>3, <3>2, RemShape, RemType DEF k, z
  <2>4. CASE ~NonNeg(a) /\ ~(~a.phi /\ a.hi <= 0)
    <3>1. In(z, RangeE(-k, k))
      BY <2>1 DEF In, RangeE
    <3>2. In(z, MeetIV(RangeE(-k, k), RemBetween(a)))
      BY <1>2, <1>7, <2>1, <3>1, MeetExact
    <3> QED BY <1>3, <1>9, <2>4, <3>2, RemShape, RemType DEF k, z
  <2> QED BY <2>2, <2>3, <2>4
<1> QED BY <1>8, <1>9

-----------------------------------------------------------------------------
(* The Euclidean modulus, the widening's type, and the backward transfers. *)

\* The residue of a number: within the modulus, and the number where it fits.
LEMMA ResidueFacts ==
  ASSUME NEW x \in Int, NEW y \in Int, y > 0
  PROVE  /\ x % y \in Int /\ 0 <= x % y /\ x % y <= y - 1
         /\ x >= 0 => x % y <= x
         /\ 0 <= x /\ x < y => x % y = x
<1>1. x % y \in 0 .. (y - 1)
  OBVIOUS
<1>2. x = y * (x \div y) + (x % y) /\ x \div y \in Int
  OBVIOUS
<1> DEFINE q == x \div y
           r == x % y
<1>3. ASSUME x >= 0 PROVE r <= x /\ (x < y => r = x)
  <2>1. q \in Int /\ q >= 0
    BY <1>3, FloorBounds
  <2>2. r \in Int /\ 0 <= r /\ x = y * q + r
    BY <1>1, <1>2
  <2> HIDE DEF q, r
  <2>3. y * q >= 0 /\ y * q \in Int /\ (q = 0 \/ y * q >= y) /\ (q = 0 => y * q = 0)
    BY <2>1, TimesMonotone
  <2> QED BY <2>2, <2>3
<1> QED BY <1>1, <1>3

\* The modulus of an interval holds every residue by a positive modulus
\* (the bit operations' and the word wrap's mod of ir/interval.go).
THEOREM ModSound ==
  ASSUME NEW a \in Iv, NEW m \in Iv, NEW x \in Int, NEW y \in Int,
         In(x, a), In(y, m), y > 0
  PROVE  ModZ(a, m) \in Iv /\ In(x % y, ModZ(a, m))
<1> DEFINE ml == IF m.nlo \/ m.lo <= 0 THEN 1 ELSE m.lo
           r == x % y
           half == [lo |-> 0, hi |-> a.hi, nlo |-> FALSE, phi |-> a.phi, bot |-> FALSE]
<1>1. /\ r \in Int /\ 0 <= r /\ r <= y - 1
      /\ x >= 0 => r <= x
      /\ 0 <= x /\ x < y => r = x
  BY ResidueFacts
<1>2. ~a.bot /\ ~m.bot /\ ml <= y /\ (NonNeg(a) => 0 <= x) /\ (~a.phi => x <= a.hi)
      /\ (~m.phi => y <= m.hi)
  BY Fields DEF In, NonNeg
<1>3. /\ a.lo \in Int /\ a.hi \in E /\ a.hi \in Int /\ m.lo \in Int /\ m.hi \in Int /\ m.hi \in E
      /\ a.phi \in BOOLEAN
  BY Fields
<1> HIDE DEF r
<1>4. CASE NonNeg(a) /\ ~a.phi /\ a.hi < ml
  <2>1. ModZ(a, m) = a
    BY <1>2, <1>4 DEF ModZ
  <2>2. r = x
    BY <1>1, <1>2, <1>3, <1>4
  <2> QED BY <2>1, <2>2 DEF r
<1>5. CASE ~(NonNeg(a) /\ ~a.phi /\ a.hi < ml) /\ m.phi /\ NonNeg(a)
  <2>1. ModZ(a, m) = Norm(half)
    BY <1>2, <1>5 DEF ModZ
  <2>2. half \in Iv
    BY <1>3, EndsAreIntegers, Built
  <2>3. In(r, half)
    BY <1>1, <1>2, <1>3, <1>5 DEF In
  <2> QED BY <1>1, <2>1, <2>2, <2>3, NormType, NormIn DEF r
<1>6. CASE ~(NonNeg(a) /\ ~a.phi /\ a.hi < ml) /\ m.phi /\ ~NonNeg(a)
  <2>1. ModZ(a, m) = AtLeast(0)
    BY <1>2, <1>6 DEF ModZ
  <2> QED BY <1>1, <2>1, EndsAreIntegers, ConstantTypes, HalfLines DEF r
<1>7. CASE ~(NonNeg(a) /\ ~a.phi /\ a.hi < ml) /\ ~m.phi
  <2> DEFINE h == IF NonNeg(a) /\ ~a.phi THEN MinE(m.hi - 1, a.hi) ELSE m.hi - 1
  <2>1. ModZ(a, m) = RangeE(0, h)
    BY <1>2, <1>7 DEF ModZ
  <2>2. m.hi - 1 \in E
    BY <1>2, <1>3, <1>7, EndsAreIntegers
  <2>3. h \in E /\ r <= h
    BY <1>1, <1>2, <1>3, <1>7, <2>2 DEF MinE
  <2>4. RangeE(0, h) \in Iv
    BY <2>3, EndsAreIntegers, ConstantTypes
  <2>5. In(r, RangeE(0, h))
    BY <1>1, <2>3 DEF In, RangeE
  <2> QED BY <2>1, <2>4, <2>5 DEF r
<1> QED BY <1>4, <1>5, <1>6, <1>7

\* Widening with thresholds gives an interval, whatever the sets.
LEMMA WidenThresholdType ==
  ASSUME NEW a \in Iv, NEW b \in Iv, NEW T \in SUBSET E
  PROVE  WidenIVT(a, b, T) \in Iv
<1>1. CASE a.bot \/ b.bot
  BY <1>1 DEF WidenIVT
<1>2. CASE ~a.bot /\ ~b.bot
  <2> DEFINE below == {t \in T : t <= b.lo}
             above == {t \in T : b.hi <= t}
             down == ~b.nlo /\ b.lo < a.lo
             up == ~b.phi /\ a.hi < b.hi
             l == IF down /\ below # {} THEN CHOOSE t \in below : \A u \in below : u <= t ELSE a.lo
             h == IF up /\ above # {} THEN CHOOSE t \in above : \A u \in above : t <= u ELSE a.hi
             n == a.nlo \/ b.nlo \/ (down /\ below = {})
             p == a.phi \/ b.phi \/ (up /\ above = {})
  <2>1. below \in SUBSET E /\ above \in SUBSET E
    OBVIOUS
  <2>2. l \in E
    BY <2>1, GreatestEnd, Fields
  <2>3. h \in E
    BY <2>1, LeastEnd, Fields
  <2>4. n \in BOOLEAN /\ p \in BOOLEAN
    BY Fields
  <2>5. WidenIVT(a, b, T) = Norm([lo |-> l, hi |-> h, nlo |-> n, phi |-> p, bot |-> FALSE])
    BY <1>2 DEF WidenIVT
  <2> QED BY <2>2, <2>3, <2>4, <2>5, Built, NormType
<1> QED BY <1>1, <1>2, Fields

\* The integer square root exists and is an end.
LEMMA SquareRoot ==
  ASSUME NEW n \in E, n >= 0
  PROVE  LET r == ISqrtE(n) IN r \in 0 .. n /\ r \in E /\ r * r <= n /\ n < (r + 1) * (r + 1)
<1> DEFINE T == {k \in 0 .. n : n < (k + 1) * (k + 1)}
<1>1. n \in Int /\ n <= EMax
  BY EndsAreIntegers
<1>2. T \in SUBSET E
  BY <1>1, EndsAreIntegers
<1>3. n < (n + 1) * (n + 1)
  <2>1. (n + 1) * (n + 1) >= 1 * (n + 1)
    BY <1>1, TimesMonotone
  <2> QED BY <1>1, <2>1
<1>4. n \in T
  BY <1>1, <1>3
<1>5. PICK r \in T : \A u \in T : r <= u
  BY <1>2, <1>4, LeastEnd
<1>6. r \in 0 .. n /\ r \in E /\ n < (r + 1) * (r + 1) /\ r \in Int
  BY <1>1, <1>2, <1>5
<1>7. r * r <= n
  <2>1. CASE r = 0
    BY <1>1, <2>1
  <2>2. CASE r > 0
    <3>1. r - 1 \in 0 .. n /\ r - 1 \notin T
      BY <1>1, <1>5, <1>6, <2>2
    <3>2. ~(n < ((r - 1) + 1) * ((r - 1) + 1))
      BY <3>1
    <3>3. (r - 1) + 1 = r
      BY <1>6
    <3> QED BY <1>1, <1>6, <3>2, <3>3
  <2> QED BY <1>6, <2>1, <2>2
<1>8. ISqrtE(n) \in 0 .. n /\ ISqrtE(n) * ISqrtE(n) <= n /\ n < (ISqrtE(n) + 1) * (ISqrtE(n) + 1)
  BY <1>6, <1>7 DEF ISqrtE
<1> QED BY <1>1, <1>8, EndsAreIntegers

\* The inverse of a square is an interval.
LEMMA InvSquareType ==
  ASSUME NEW z \in Iv
  PROVE  InvSquare(z) \in Iv
<1>1. CASE z.bot \/ z.phi \/ z.hi < 0
  BY <1>1, ConstantTypes, EndsAreIntegers DEF InvSquare
<1>2. CASE ~(z.bot \/ z.phi \/ z.hi < 0)
  <2> DEFINE r == ISqrtE(z.hi)
  <2>1. z.hi \in E /\ z.hi >= 0
    BY <1>2, Fields
  <2>2. r \in E
    BY <2>1, SquareRoot
  <2>3. InvSquare(z) = RangeE(-r, r)
    BY <1>2 DEF InvSquare
  <2> HIDE DEF r
  <2>4. -r \in E
    BY <2>2, EndsAreIntegers
  <2> QED BY <2>2, <2>3, <2>4, ConstantTypes
<1> QED BY <1>1, <1>2

\* What is known of a square bounds its root on both sides: the inverse of
\* x * x loses no value of x.
THEOREM InvSquareSound ==
  ASSUME NEW z \in Iv, NEW x \in Int, In(x * x, z)
  PROVE  InvSquare(z) \in Iv /\ In(x, InvSquare(z))
<1>1. CASE z.bot \/ z.phi \/ z.hi < 0
  <2>1. InvSquare(z) = Top
    BY <1>1 DEF InvSquare
  <2> QED BY <2>1, ConstantTypes, EndsAreIntegers DEF In, Top
<1>2. CASE ~(z.bot \/ z.phi \/ z.hi < 0)
  <2> DEFINE r == ISqrtE(z.hi)
  <2>1. z.hi \in E /\ z.hi \in Int /\ z.hi >= 0 /\ x * x <= z.hi
    BY <1>2, Fields DEF In
  <2>2. r \in 0 .. z.hi /\ r \in E /\ z.hi < (r + 1) * (r + 1)
    BY <2>1, SquareRoot
  <2>3. InvSquare(z) = RangeE(-r, r)
    BY <1>2 DEF InvSquare
  <2> HIDE DEF r
  <2>4. r \in Int /\ -r \in E /\ r >= 0
    BY <2>1, <2>2, EndsAreIntegers
  <2>5. x <= r
    <3> SUFFICES ASSUME x >= r + 1 PROVE FALSE
      BY <2>4
    <3>1. (r + 1) * (r + 1) <= x * (r + 1)
      BY <2>4, TimesMonotone
    <3>2. (r + 1) * x <= x * x
      BY <2>4, TimesMonotone
    <3> QED BY <2>1, <2>2, <2>4, <3>1, <3>2, TimesCommutes
  <2>6. -r <= x
    <3> SUFFICES ASSUME -x >= r + 1 PROVE FALSE
      BY <2>4
    <3> DEFINE y == -x
    <3>0. y \in Int /\ y * y = x * x /\ y >= r + 1
      OBVIOUS
    <3> HIDE DEF y
    <3>1. (r + 1) * (r + 1) <= y * (r + 1)
      BY <2>4, <3>0, TimesMonotone
    <3>2. (r + 1) * y <= y * y
      BY <2>4, <3>0, TimesMonotone
    <3> QED BY <2>1, <2>2, <2>4, <3>0, <3>1, <3>2, TimesCommutes
  <2>7. RangeE(-r, r) \in Iv
    BY <2>2, <2>4, ConstantTypes
  <2> QED BY <2>3, <2>4, <2>5, <2>6, <2>7 DEF In, RangeE
<1> QED BY <1>1, <1>2

\* Division by a positive number, and what a multiple's bound says of the factor.
LEMMA FloorInverse ==
  ASSUME NEW n \in E, NEW d \in Int, d > 0
  PROVE  /\ n \div d \in E /\ -((-n) \div d) \in E
         /\ \A x \in Int : x * d <= n => x <= n \div d
         /\ \A x \in Int : n <= x * d => -((-n) \div d) <= x
<1>1. n \in Int /\ -n \in E /\ -n \in Int
  BY EndsAreIntegers
<1>2. ASSUME NEW m \in E PROVE m \div d \in E
  <2>1. m \in Int /\ -m \in Int /\ -EMax <= m /\ m <= EMax /\ EMax \in Int
    BY EndsAreIntegers
  <2> DEFINE q == m \div d
  <2>2. q \in Int /\ q * d <= m /\ m < q * d + d
    BY <2>1, FloorFacts
  <2> HIDE DEF q
  <2>3. q <= EMax
    <3> SUFFICES ASSUME q >= EMax + 1 PROVE FALSE
      BY <2>1, <2>2
    <3>1. q * d >= q * 1
      BY <2>1, <2>2, EMaxAssumption, TimesMonotone, TimesCommutes
    <3> QED BY <2>1, <2>2, <3>1
  <2>4. -EMax <= q
    <3> SUFFICES ASSUME q <= -EMax - 1 PROVE FALSE
      BY <2>1, <2>2
    <3>1. q + 1 \in Int /\ q + 1 <= 0 /\ (q + 1) * d = q * d + d
      BY <2>1, <2>2, EMaxAssumption
    <3>2. d * (q + 1) <= 1 * (q + 1)
      BY <3>1, TimesMonotone
    <3> QED BY <2>1, <2>2, <3>1, <3>2
  <2> QED BY <2>1, <2>2, <2>3, <2>4, EndsAreIntegers DEF q
<1>3. ASSUME NEW m \in Int, NEW x \in Int, x * d <= m PROVE x <= m \div d
  <2> DEFINE q == m \div d
  <2>1. q \in Int /\ m < q * d + d
    BY FloorFacts
  <2> HIDE DEF q
  <2>2. q * d + d = (q + 1) * d
    BY <2>1
  <2>3. ASSUME x >= q + 1 PROVE (q + 1) * d <= x * d
    BY <2>1, <2>3, TimesMonotone
  <2> QED BY <1>3, <2>1, <2>2, <2>3 DEF q
<1>4. ASSUME NEW x \in Int, n <= x * d PROVE -((-n) \div d) <= x
  <2>1. (-x) * d = -(x * d) /\ x * d \in Int
    OBVIOUS
  <2>2. -x <= (-n) \div d
    BY <1>1, <1>3, <1>4, <2>1
  <2>3. (-n) \div d \in Int
    BY <1>1, FloorFacts
  <2> QED BY <2>2, <2>3
<1> QED BY <1>1, <1>2, <1>3, <1>4, EndsAreIntegers

\* What is known of a multiple by a constant bounds the factor: the inverse of
\* x * c loses no value of x.
THEOREM InvMulConstSound ==
  ASSUME NEW z \in Iv, NEW c \in Int
  PROVE  /\ InvMulConst(z, c) \in Iv
         /\ \A x \in Int : In(x * c, z) => In(x, InvMulConst(z, c))
<1> DEFINE n == IF c > 0 THEN z.nlo ELSE z.phi
           p == IF c > 0 THEN z.phi ELSE z.nlo
           l == IF n THEN 0 ELSE CeilDivE(IF c > 0 THEN z.lo ELSE z.hi, c)
           h == IF p THEN 0 ELSE FloorDivE(IF c > 0 THEN z.hi ELSE z.lo, c)
           r == [lo |-> l, hi |-> h, nlo |-> n, phi |-> p, bot |-> FALSE]
<1>1. CASE z.bot \/ c = 0 \/ (z.nlo /\ z.phi)
  <2>1. InvMulConst(z, c) = Top
    BY <1>1 DEF InvMulConst
  <2> QED BY <2>1, ConstantTypes, EndsAreIntegers DEF In, Top
<1>2. CASE ~(z.bot \/ c = 0 \/ (z.nlo /\ z.phi))
  <2>1. InvMulConst(z, c) = IF ~n /\ ~p /\ h < l THEN Bot ELSE Norm(r)
    BY <1>2 DEF InvMulConst
  <2>2. /\ z.lo \in E /\ z.hi \in E /\ z.lo \in Int /\ z.hi \in Int
        /\ n \in BOOLEAN /\ p \in BOOLEAN
    BY Fields
  <2>3. /\ l \in E /\ h \in E
        /\ \A x \in Int : In(x * c, z) => (n \/ l <= x) /\ (p \/ x <= h)
    <3>1. CASE c > 0
      <4>1. /\ CeilDivE(z.lo, c) = -((-z.lo) \div c)
            /\ FloorDivE(z.hi, c) = z.hi \div c
        BY <3>1 DEF CeilDivE, FloorDivE
      <4>2. \A x \in Int : x * c \in Int
        OBVIOUS
      <4> QED BY <2>2, <3>1, <4>1, <4>2, FloorInverse, EndsAreIntegers DEF In
    <3>2. CASE c < 0
      <4> DEFINE d == -c
      <4>1. d \in Int /\ d > 0
        BY <3>2
      <4>2. /\ CeilDivE(z.hi, c) = -((-(-z.hi)) \div d)
            /\ FloorDivE(z.lo, c) = (-z.lo) \div d
        BY <2>2, <3>2 DEF CeilDivE, FloorDivE
      <4>3. \A x \in Int : x * c \in Int /\ x * d = -(x * c)
        OBVIOUS
      <4>4. -z.hi \in E /\ -z.lo \in E /\ -z.hi \in Int /\ -z.lo \in Int
        BY <2>2, EndsAreIntegers
      <4> HIDE DEF d
      <4>5. /\ -((-(-z.hi)) \div d) \in E /\ (-z.lo) \div d \in E
            /\ \A x \in Int : -z.hi <= x * d => -((-(-z.hi)) \div d) <= x
            /\ \A x \in Int : x * d <= -z.lo => x <= (-z.lo) \div d
        BY <4>1, <4>4, FloorInverse
      <4>6. l = (IF n THEN 0 ELSE -((-(-z.hi)) \div d)) /\ h = (IF p THEN 0 ELSE (-z.lo) \div d)
        BY <3>2, <4>2
      <4>7. l \in E /\ h \in E
        BY <4>5, <4>6, EndsAreIntegers
      <4>8. n = z.phi /\ p = z.nlo
        BY <3>2
      <4> HIDE DEF l, h, n, p
      <4>9. ASSUME NEW x \in Int, In(x * c, z) PROVE (n \/ l <= x) /\ (p \/ x <= h)
        <5>1. (n \/ -z.hi <= x * d) /\ (p \/ x * d <= -z.lo)
          BY <2>2, <4>3, <4>8, <4>9 DEF In
        <5> QED BY <4>5, <4>6, <5>1
      <4> QED BY <4>7, <4>9
    <3> QED BY <1>2, <3>1, <3>2
  <2> HIDE DEF n, p, l, h
  <2>4. r \in Iv
    BY <2>2, <2>3, Built
  <2>5. l \in Int /\ h \in Int
    BY <2>3, EndsAreIntegers
  <2>6. ASSUME NEW x \in Int, In(x * c, z) PROVE In(x, InvMulConst(z, c))
    <3>1. (n \/ l <= x) /\ (p \/ x <= h)
      BY <2>3, <2>6
    <3>2. ~(~n /\ ~p /\ h < l)
      BY <2>5, <3>1
    <3>3. In(x, r)
      BY <3>1 DEF In
    <3> QED BY <2>1, <2>4, <3>2, <3>3, NormIn
  <2> QED BY <2>1, <2>4, <2>6, NormType, ConstantTypes, EndsAreIntegers
<1> QED BY <1>1, <1>2

-----------------------------------------------------------------------------
(* Induction and recursion over the numbers up to n, with sets and functions  *)
(* for what is shown and for the step.                                        *)

\* A nonempty set of natural numbers has a least one.
LEMMA LeastNatural ==
  ASSUME NEW S, S \subseteq Nat, S # {}
  PROVE  \E n \in S : \A m \in S : n <= m
<1>1. PICK n \in S : \A m \in S : ~(<<m, n>> \in OpToRel(<, Nat))
  BY NatLessThanWellFounded, WFMin
<1>2. ASSUME NEW m \in S PROVE n <= m
  <2>1. n \in Nat /\ m \in Nat
    OBVIOUS
  <2>2. ~(m < n)
    BY <1>1, <2>1 DEF OpToRel
  <2> QED BY <2>1, <2>2
<1> QED BY <1>2

\* What holds of 0, and of the next number when it holds of one, holds up to n.
LEMMA UpTo ==
  ASSUME NEW n \in Nat, NEW A, 0 \in A, \A m \in 0 .. n - 1 : m \in A => m + 1 \in A
  PROVE  \A m \in 0 .. n : m \in A
<1> DEFINE S == {m \in 0 .. n : m \notin A}
<1> SUFFICES ASSUME S # {} PROVE FALSE
  OBVIOUS
<1>1. PICK m \in S : \A k \in S : m <= k
  <2>1. S \subseteq Nat
    OBVIOUS
  <2> HIDE DEF S
  <2> QED BY <2>1, LeastNatural
<1>2. m \in 0 .. n /\ m \notin A /\ m # 0
  BY <1>1
<1>3. m - 1 \in 0 .. n - 1 /\ m - 1 \notin S
  BY <1>1, <1>2
<1>4. m - 1 \in A /\ (m - 1) + 1 = m
  BY <1>2, <1>3
<1> QED BY <1>2, <1>3, <1>4

Steps(n, S) == [1 .. n -> [S -> S]]

\* A function by recursion: its first value, and a step from each to the next.
Recursive(n, S, a, F) ==
  \E h \in [0 .. n -> S] : h[0] = a /\ \A m \in 1 .. n : h[m] = F[m][h[m - 1]]

\* Every first value in a set and steps within it define such a function.
LEMMA Recursion ==
  ASSUME NEW n, NEW S, NEW a, NEW F, n \in Nat, a \in S, F \in Steps(n, S)
  PROVE  Recursive(n, S, a, F)
<1> USE DEF Steps, Recursive
<1> DEFINE Good(m, h) == h[0] = a /\ \A i \in 1 .. m : h[i] = F[i][h[i - 1]]
           A == {m \in 0 .. n : \E h \in [0 .. n -> S] : Good(m, h)}
<1>1. 0 \in A
  <2> DEFINE h == [i \in 0 .. n |-> a]
  <2>1. h \in [0 .. n -> S] /\ Good(0, h)
    OBVIOUS
  <2>2. 0 \in 0 .. n
    OBVIOUS
  <2> HIDE DEF h, Good
  <2> QED BY <2>1, <2>2
<1>2. ASSUME NEW m \in 0 .. n - 1, m \in A PROVE m + 1 \in A
  <2>1. PICK h \in [0 .. n -> S] : Good(m, h)
    BY <1>2
  <2> DEFINE g == [h EXCEPT ![m + 1] = F[m + 1][h[m]]]
  <2>2. m \in 0 .. n /\ m + 1 \in 1 .. n /\ m + 1 \in 0 .. n /\ h[m] \in S
    OBVIOUS
  <2>3. F[m + 1][h[m]] \in S
    BY <2>2
  <2>4. g \in [0 .. n -> S]
    BY <2>2, <2>3
  <2>5. g[m + 1] = F[m + 1][h[m]] /\ \A i \in 0 .. m : g[i] = h[i]
    BY <2>2
  <2> HIDE DEF g
  <2>6. g[0] = a
    BY <2>1, <2>5, <2>2
  <2>7. ASSUME NEW i \in 1 .. m + 1 PROVE g[i] = F[i][g[i - 1]]
    <3>1. CASE i = m + 1
      <4>1. i - 1 = m /\ g[m] = h[m]
        BY <3>1, <2>2, <2>5
      <4> QED BY <3>1, <4>1, <2>5
    <3>2. CASE i # m + 1
      <4>1. i \in 1 .. m /\ i \in 0 .. m /\ i - 1 \in 0 .. m
        BY <3>2
      <4> QED BY <4>1, <2>1, <2>5
    <3> QED BY <3>1, <3>2
  <2> QED BY <2>2, <2>4, <2>6, <2>7
<1>3. \A m \in 0 .. n : m \in A
  <2> HIDE DEF A
  <2> QED BY <1>1, <1>2, UpTo
<1>4. n \in 0 .. n
  OBVIOUS
<1> QED BY <1>3, <1>4

=============================================================================
