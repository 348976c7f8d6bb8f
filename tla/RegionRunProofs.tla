-------------------------- MODULE RegionRunProofs --------------------------
(***************************************************************************)
(* The analysis of straight-line code and arms, for any bound of the ends, *)
(* any parameters, literals and bounds of the program: every fact holds of *)
(* its value in the arm the execution is in, is the one spelling of its    *)
(* set, and is what it was before once the arm is left.                    *)
(***************************************************************************)
EXTENDS RegionRun, IntervalDomainProofs

-----------------------------------------------------------------------------
(* Facts of a value.                                                       *)

\* a is a fact of z: an interval, the one spelling of its set, and z is in it.
Fact(a, z) == a \in Iv /\ Canonical(a) /\ In(z, a)

\* A fact's fields.
LEMMA FactFields ==
  ASSUME NEW a, NEW z \in Int, Fact(a, z)
  PROVE  /\ a \in Iv /\ ~a.bot /\ a = Norm(a)
         /\ a.lo \in Int /\ a.hi \in Int /\ a.nlo \in BOOLEAN /\ a.phi \in BOOLEAN
         /\ a.nlo => a.lo = 0
         /\ a.phi => a.hi = 0
         /\ ~a.nlo => a.lo <= z
         /\ ~a.phi => z <= a.hi
<1>1. a \in Iv /\ ~a.bot /\ a = Norm(a) /\ In(z, a)
  BY DEF Fact, Canonical, In
<1>2. a.nlo => Norm(a).lo = 0
  BY <1>1 DEF Norm, Iv
<1>3. a.phi => Norm(a).hi = 0
  BY <1>1 DEF Norm, Iv
<1> QED BY <1>1, <1>2, <1>3, Fields DEF In

\* An interval that holds a value, with nothing under its infinite ends, is a
\* fact of it.
LEMMA NormalFact ==
  ASSUME NEW a \in Iv, NEW z \in Int, In(z, a), a.nlo => a.lo = 0, a.phi => a.hi = 0
  PROVE  Fact(a, z)
<1>1. a = Norm(a)
  BY Fields DEF Norm, Iv, In
<1>2. Finite(a) => a.lo <= a.hi
  BY Fields DEF Finite, In
<1> QED BY <1>1, <1>2 DEF Fact, Canonical

\* A normalised record is one if it is an interval that holds the value.
LEMMA NormFact ==
  ASSUME NEW l, NEW h, NEW n \in BOOLEAN, NEW p \in BOOLEAN, NEW z \in Int,
         Norm([lo |-> l, hi |-> h, nlo |-> n, phi |-> p, bot |-> FALSE]) \in Iv,
         In(z, Norm([lo |-> l, hi |-> h, nlo |-> n, phi |-> p, bot |-> FALSE]))
  PROVE  Fact(Norm([lo |-> l, hi |-> h, nlo |-> n, phi |-> p, bot |-> FALSE]), z)
<1> DEFINE a == Norm([lo |-> l, hi |-> h, nlo |-> n, phi |-> p, bot |-> FALSE])
<1>1. (a.nlo => a.lo = 0) /\ (a.phi => a.hi = 0)
  BY DEF Norm
<1> HIDE DEF a
<1>2. Fact(a, z)
  <2>1. a \in Iv /\ In(z, a)
    BY DEF a
  <2> QED BY <1>1, <2>1, NormalFact
<1> QED BY <1>2 DEF a

\* A finite interval is one, and so is the whole line.
LEMMA RangeFact ==
  ASSUME NEW l, NEW h, NEW z \in Int, RangeE(l, h) \in Iv, In(z, RangeE(l, h))
  PROVE  Fact(RangeE(l, h), z)
<1>1. ~RangeE(l, h).nlo /\ ~RangeE(l, h).phi
  BY DEF RangeE
<1> QED BY <1>1, NormalFact

\* The whole line and a half line are facts of what they hold.
LEMMA LineFact ==
  ASSUME NEW z \in Int
  PROVE  /\ Fact(Top, z)
         /\ \A l \in E : l <= z => Fact(AtLeast(l), z)
<1>1. Fact(Top, z)
  <2>1. Top \in Iv /\ In(z, Top) /\ Top.lo = 0 /\ Top.hi = 0
    BY ConstantTypes, EndsAreIntegers DEF Top, In
  <2> QED BY <2>1, NormalFact
<1>2. ASSUME NEW l \in E, l <= z PROVE Fact(AtLeast(l), z)
  <2>1. AtLeast(l) \in Iv /\ In(z, AtLeast(l)) /\ ~AtLeast(l).nlo /\ AtLeast(l).hi = 0
    BY <1>2, ConstantTypes, HalfLines DEF AtLeast
  <2> QED BY <2>1, NormalFact
<1> QED BY <1>1, <1>2

\* The fact of a literal.
LEMMA ExactFact ==
  ASSUME NEW k \in E
  PROVE  Fact(Exact(k), k)
<1>1. Exact(k) \in Iv /\ In(k, Exact(k)) /\ k \in Int
  BY ConstantTypes, EndsAreIntegers DEF Exact, RangeE, In
<1> QED BY <1>1, RangeFact DEF Exact

\* The meet of two intervals that hold a value is a fact of it, however the two
\* are spelled.
LEMMA MeetFact ==
  ASSUME NEW a \in Iv, NEW b \in Iv, NEW z \in Int, In(z, a), In(z, b)
  PROVE  Fact(MeetIV(a, b), z)
<1> DEFINE raise == ~b.nlo /\ (a.nlo \/ a.lo < b.lo)
           lower == ~b.phi /\ (a.phi \/ b.hi < a.hi)
           l == IF raise THEN b.lo ELSE a.lo
           h == IF lower THEN b.hi ELSE a.hi
           n == a.nlo /\ ~raise
           p == a.phi /\ ~lower
           r == [lo |-> l, hi |-> h, nlo |-> n, phi |-> p, bot |-> FALSE]
<1>1. ~a.bot /\ ~b.bot
  BY DEF In
<1>2. MeetIV(a, b) \in Iv /\ In(z, MeetIV(a, b))
  BY MeetExact
<1>3. MeetIV(a, b) # Bot
  BY <1>2 DEF In, Bot
<1>4. MeetIV(a, b) = Norm(r)
  BY <1>1, <1>3 DEF MeetIV
<1>5. n \in BOOLEAN /\ p \in BOOLEAN
  BY Fields
<1> HIDE DEF l, h, n, p
<1> QED BY <1>2, <1>4, <1>5, NormFact

\* The join of a fact with what another arm yields is a fact of the value.
LEMMA JoinFact ==
  ASSUME NEW a, NEW b \in Iv, Canonical(b), NEW z \in Int, Fact(a, z)
  PROVE  Fact(JoinIV(a, b), z)
<1> DEFINE l == MinE(a.lo, b.lo)
           h == MaxE(a.hi, b.hi)
           n == a.nlo \/ b.nlo
           p == a.phi \/ b.phi
           r == [lo |-> l, hi |-> h, nlo |-> n, phi |-> p, bot |-> FALSE]
<1>1. a \in Iv /\ In(z, a) /\ ~a.bot
  BY DEF Fact, In
<1>2. JoinIV(a, b) \in Iv /\ In(z, JoinIV(a, b))
  BY <1>1, JoinSound
<1>3. CASE b.bot
  BY <1>1, <1>3 DEF JoinIV
<1>4. CASE ~b.bot
  <2>1. JoinIV(a, b) = Norm(r)
    BY <1>1, <1>4 DEF JoinIV
  <2>2. n \in BOOLEAN /\ p \in BOOLEAN
    BY <1>1, Fields
  <2> HIDE DEF l, h, n, p
  <2> QED BY <1>2, <2>1, <2>2, NormFact
<1> QED BY <1>3, <1>4

-----------------------------------------------------------------------------
(* The operations of the ring: a fact of each operand gives a fact of the   *)
(* result.                                                                  *)

\* Negation.
LEMMA NegFact ==
  ASSUME NEW a, NEW x \in Int, Fact(a, x)
  PROVE  Fact(NegIV(a), -x)
<1>1. a \in Iv /\ In(x, a) /\ ~a.bot /\ a.nlo \in BOOLEAN /\ a.phi \in BOOLEAN
  BY Fields DEF Fact, In
<1>2. NegIV(a) \in Iv /\ In(-x, NegIV(a)) /\ -x \in Int
  BY <1>1, NegSound
<1>3. NegIV(a) = Norm([lo |-> -a.hi, hi |-> -a.lo, nlo |-> a.phi, phi |-> a.nlo, bot |-> FALSE])
  BY <1>1 DEF NegIV
<1> QED BY <1>1, <1>2, <1>3, NormFact

\* A sum, whatever saturates.
LEMMA AddFact ==
  ASSUME NEW a, NEW b, NEW x \in Int, NEW y \in Int, Fact(a, x), Fact(b, y)
  PROVE  Fact(AddIV(a, b), x + y)
<1> DEFINE nlo == a.nlo \/ b.nlo
           phi == a.phi \/ b.phi
           l == a.lo + b.lo
           h == a.hi + b.hi
           over == ~nlo /\ l > EMax
           top == phi \/ over
           under == ~top /\ h < -EMax
           lo == IF over THEN EMax ELSE IF Ok(l) THEN l ELSE 0
           hi == IF under THEN -EMax ELSE IF Ok(h) THEN h ELSE 0
           n == nlo \/ l < -EMax \/ under
           p == top \/ h > EMax
<1>1. a \in Iv /\ b \in Iv /\ In(x, a) /\ In(y, b) /\ ~a.bot /\ ~b.bot
  BY DEF Fact, In
<1>2. AddIV(a, b) \in Iv /\ In(x + y, AddIV(a, b)) /\ x + y \in Int
  BY <1>1, AddSound
<1>3. AddIV(a, b) = Norm([lo |-> lo, hi |-> hi, nlo |-> n, phi |-> p, bot |-> FALSE])
  BY <1>1 DEF AddIV
<1>4. n \in BOOLEAN /\ p \in BOOLEAN
  BY <1>1, Fields
<1> HIDE DEF lo, hi, n, p
<1> QED BY <1>2, <1>3, <1>4, NormFact

\* A difference.
LEMMA SubFact ==
  ASSUME NEW a, NEW b, NEW x \in Int, NEW y \in Int, Fact(a, x), Fact(b, y)
  PROVE  Fact(SubIV(a, b), x - y)
<1>1. Fact(NegIV(b), -y) /\ -y \in Int
  BY NegFact
<1>2. Fact(AddIV(a, NegIV(b)), x + (-y))
  BY <1>1, AddFact
<1>3. x + (-y) = x - y
  OBVIOUS
<1> QED BY <1>2, <1>3 DEF SubIV

\* A product, of rays too.
LEMMA MulFact ==
  ASSUME NEW a, NEW b, NEW x \in Int, NEW y \in Int, Fact(a, x), Fact(b, y)
  PROVE  Fact(MulIV(a, b), x * y)
<1>1. a \in Iv /\ b \in Iv /\ In(x, a) /\ In(y, b) /\ ~a.bot /\ ~b.bot
  BY DEF Fact, In
<1>2. MulIV(a, b) \in Iv /\ In(x * y, MulIV(a, b))
  BY <1>1, MulSound
<1>3. \E l, h : \E n, p \in BOOLEAN :
        MulIV(a, b) = Norm([lo |-> l, hi |-> h, nlo |-> n, phi |-> p, bot |-> FALSE])
  <2>1. CASE Finite(a) /\ Finite(b)
    <3> DEFINE cs == {u * v : u \in {a.lo, a.hi}, v \in {b.lo, b.hi}}
               fit == cs \cap E
               n == \E c \in cs : c < -EMax
               p == \E c \in cs : c > EMax
               l == IF fit # {} THEN CHOOSE c \in fit : \A d \in fit : c <= d
                    ELSE IF n THEN -EMax ELSE EMax
               h == IF fit # {} THEN CHOOSE c \in fit : \A d \in fit : d <= c
                    ELSE IF p THEN EMax ELSE -EMax
    <3>1. MulIV(a, b) = Norm([lo |-> l, hi |-> h, nlo |-> n, phi |-> p, bot |-> FALSE])
      BY <1>1, <2>1 DEF MulIV
    <3>2. n \in BOOLEAN /\ p \in BOOLEAN
      OBVIOUS
    <3> HIDE DEF l, h, n, p
    <3> QED BY <3>1, <3>2
  <2>2. CASE ~Finite(a) \/ ~Finite(b)
    <3> DEFINE cs == {Corner(u, v) : u \in {LowEnd(a), HighEnd(a)}, v \in {LowEnd(b), HighEnd(b)}}
               least == CHOOSE c \in cs : \A d \in cs : EndLE(c, d)
               greatest == CHOOSE c \in cs : \A d \in cs : EndLE(d, c)
               l == IF least.inf > 0 THEN EMax ELSE least.v
               h == IF greatest.inf < 0 THEN -EMax ELSE greatest.v
               n == least.inf < 0
               p == greatest.inf > 0
    <3>1. MulIV(a, b) = Norm([lo |-> l, hi |-> h, nlo |-> n, phi |-> p, bot |-> FALSE])
      BY <1>1, <2>2 DEF MulIV, MulInf
    <3>2. n \in BOOLEAN /\ p \in BOOLEAN
      OBVIOUS
    <3> HIDE DEF l, h, n, p
    <3> QED BY <3>1, <3>2
  <2> QED BY <2>1, <2>2
<1>4. x * y \in Int
  OBVIOUS
<1> QED BY <1>2, <1>3, <1>4, NormFact

\* A quotient, where the divisor is not 0.
LEMMA DivFact ==
  ASSUME NEW a, NEW b, NEW x \in Int, NEW y \in Int, Fact(a, x), Fact(b, y), y # 0
  PROVE  Fact(DivIV(a, b), Quo(x, y))
<1>1. a \in Iv /\ b \in Iv /\ In(x, a) /\ In(y, b) /\ ~a.bot /\ ~b.bot
  BY DEF Fact, In
<1>2. DivIV(a, b) \in Iv /\ In(Quo(x, y), DivIV(a, b)) /\ Quo(x, y) \in Int
  BY <1>1, DivSound, QuoCases
<1>3. DivIV(a, b) # Bot
  BY <1>2 DEF In, Bot
<1>4. CASE (~Finite(a) \/ ~Finite(b)) /\ ~b.nlo /\ b.lo > 0 /\ NonNeg(a)
  <2>1. DivIV(a, b) = Norm([lo |-> 0, hi |-> a.hi, nlo |-> FALSE, phi |-> a.phi, bot |-> FALSE])
    BY <1>1, <1>4 DEF DivIV
  <2>2. a.phi \in BOOLEAN /\ FALSE \in BOOLEAN
    BY <1>1, Fields
  <2> QED BY <1>2, <2>1, <2>2, NormFact
<1>5. CASE (~Finite(a) \/ ~Finite(b)) /\ ~(~b.nlo /\ b.lo > 0 /\ NonNeg(a))
  <2>1. DivIV(a, b) = DividendBound(a)
    BY <1>1, <1>5 DEF DivIV
  <2>2. DivIV(a, b) = Top \/ \E l, h : DivIV(a, b) = RangeE(l, h)
    BY <2>1 DEF DividendBound
  <2> QED BY <1>2, <2>2, RangeFact, LineFact
<1>6. CASE Finite(a) /\ Finite(b)
  <2> DEFINE divisors == (IF b.lo < 0 THEN {b.lo, MinE(b.hi, -1)} ELSE {})
                         \cup (IF b.hi > 0 THEN {MaxE(b.lo, 1), b.hi} ELSE {})
             qs == {Quo(u, v) : u \in {a.lo, a.hi}, v \in divisors}
             l == CHOOSE q \in qs : \A p \in qs : q <= p
             h == CHOOSE q \in qs : \A p \in qs : p <= q
  <2>1. DivIV(a, b) = IF qs = {} THEN Bot ELSE RangeE(l, h)
    BY <1>1, <1>6 DEF DivIV
  <2> HIDE DEF l, h, qs
  <2>2. DivIV(a, b) = RangeE(l, h)
    BY <1>3, <2>1
  <2> QED BY <1>2, <2>2, RangeFact
<1> QED BY <1>4, <1>5, <1>6

\* A remainder, where the divisor is not 0.
LEMMA RemFact ==
  ASSUME NEW a, NEW b, NEW x \in Int, NEW y \in Int, Fact(a, x), Fact(b, y), y # 0
  PROVE  Fact(RemIV(a, b), Rem(x, y))
<1> DEFINE l == MinE(a.lo, 0)
           h == MaxE(a.hi, 0)
           between == Norm([lo |-> l, hi |-> h, nlo |-> a.nlo, phi |-> a.phi, bot |-> FALSE])
           bound == MaxE(AbsE(b.lo), AbsE(b.hi)) - 1
<1>1. a \in Iv /\ b \in Iv /\ In(x, a) /\ In(y, b) /\ ~a.bot /\ ~b.bot
  BY DEF Fact, In
<1>2. RemIV(a, b) \in Iv /\ In(Rem(x, y), RemIV(a, b)) /\ Rem(x, y) \in Int
  <2>1. Quo(x, y) \in Int
    BY QuoCases
  <2>2. y * Quo(x, y) \in Int
    BY <2>1, TimesCommutes
  <2> QED BY <1>1, <2>2, RemSound DEF Rem
<1>3. RemIV(a, b) = between \/ (\E u, v : RemIV(a, b) = RangeE(u, v))
      \/ RemIV(a, b) = MeetIV(RangeE(-bound, bound), between)
  <2> DEFINE u == IF ~a.nlo /\ -bound < a.lo THEN a.lo ELSE -bound
             v == IF ~a.phi /\ a.hi < bound THEN a.hi ELSE bound
  <2>1. RemIV(a, b) = IF ~Finite(b) \/ bound = -1 THEN between
                      ELSE IF NonNeg(a) THEN RangeE(0, v)
                      ELSE IF ~a.phi /\ a.hi <= 0 THEN RangeE(u, 0)
                      ELSE MeetIV(RangeE(-bound, bound), between)
    BY <1>1 DEF RemIV
  <2> HIDE DEF u, v, bound, between
  <2> QED BY <2>1
<1>4. a.nlo \in BOOLEAN /\ a.phi \in BOOLEAN
  BY <1>1, Fields
<1>5. CASE RemIV(a, b) = between
  <2> HIDE DEF l, h
  <2> QED BY <1>2, <1>4, <1>5, NormFact
<1>6. CASE \E u, v : RemIV(a, b) = RangeE(u, v)
  BY <1>2, <1>6, RangeFact
<1>7. CASE RemIV(a, b) = MeetIV(RangeE(-bound, bound), between) /\ Finite(b) /\ bound # -1
  <2>1. b.lo \in E /\ b.hi \in E /\ a.lo \in E /\ a.hi \in E
    BY <1>1, Fields
  <2>2. bound \in E /\ -bound \in E
    <3>1. ASSUME NEW e \in E PROVE AbsE(e) \in 0 .. EMax
      <4>1. e \in Int /\ -EMax <= e /\ e <= EMax /\ EMax \in Int
        BY EndsAreIntegers
      <4> QED BY <4>1 DEF AbsE
    <3>2. MaxE(AbsE(b.lo), AbsE(b.hi)) \in 0 .. EMax
      BY <2>1, <3>1 DEF MaxE
    <3>3. bound \in Int /\ 0 <= bound /\ bound <= EMax
      BY <1>7, <3>2, EndsAreIntegers
    <3> HIDE DEF bound
    <3> QED BY <3>3, EndsAreIntegers
  <2>3. l \in E /\ h \in E
    BY <2>1, EndsAreIntegers DEF MaxE, MinE
  <2> HIDE DEF l, h, bound
  <2>4. RangeE(-bound, bound) \in Iv
    BY <2>2, ConstantTypes
  <2>5. [lo |-> l, hi |-> h, nlo |-> a.nlo, phi |-> a.phi, bot |-> FALSE] \in Iv
    BY <2>3, <1>4 DEF Iv
  <2>6. between \in Iv
    BY <2>5, NormType
  <2> HIDE DEF between
  <2>7. In(Rem(x, y), RangeE(-bound, bound)) /\ In(Rem(x, y), between)
    BY <1>2, <1>7, <2>4, <2>6, MeetExact
  <2> QED BY <1>2, <1>7, <2>4, <2>6, <2>7, MeetFact
<1>8. CASE ~Finite(b) \/ bound = -1
  <2>1. RemIV(a, b) = between
    BY <1>1, <1>8 DEF RemIV
  <2> QED BY <1>5, <2>1
<1> QED BY <1>3, <1>5, <1>6, <1>7, <1>8

\* The Euclidean remainder, of a positive modulus.
LEMMA ModFact ==
  ASSUME NEW a, NEW m, NEW x \in Int, NEW y \in Int, Fact(a, x), Fact(m, y), y > 0
  PROVE  Fact(ModZ(a, m), x % y)
<1>1. a \in Iv /\ m \in Iv /\ In(x, a) /\ In(y, m) /\ ~a.bot /\ ~m.bot
  BY DEF Fact, In
<1>2. ModZ(a, m) \in Iv /\ In(x % y, ModZ(a, m)) /\ x % y \in Int
  BY <1>1, ModSound
<1> DEFINE h == IF NonNeg(a) /\ ~a.phi THEN MinE(m.hi - 1, a.hi) ELSE m.hi - 1
           half == Norm([lo |-> 0, hi |-> a.hi, nlo |-> FALSE, phi |-> a.phi, bot |-> FALSE])
<1>3. ModZ(a, m) = a \/ ModZ(a, m) = half \/ ModZ(a, m) = AtLeast(0) \/ ModZ(a, m) = RangeE(0, h)
  BY <1>1 DEF ModZ
<1>4. CASE ModZ(a, m) = a
  BY <1>2, <1>4 DEF Fact
<1>5. CASE ModZ(a, m) = half
  <2>1. a.phi \in BOOLEAN /\ FALSE \in BOOLEAN
    BY <1>1, Fields
  <2> QED BY <1>2, <1>5, <2>1, NormFact
<1>6. CASE ModZ(a, m) = AtLeast(0)
  <2>1. 0 <= x % y /\ 0 \in E
    BY <1>2, <1>6, EndsAreIntegers, HalfLines
  <2> QED BY <1>2, <1>6, <2>1, LineFact
<1>7. CASE ModZ(a, m) = RangeE(0, h)
  <2> HIDE DEF h
  <2> QED BY <1>2, <1>7, RangeFact
<1> QED BY <1>3, <1>4, <1>5, <1>6, <1>7

-----------------------------------------------------------------------------
(* Programs: what a value is computed from, and what a difference of two    *)
(* values is.                                                               *)

Definitions == [op : Ops \cup {"param", "const", "if"}, x : Int, y : Int]

\* An operand is defined before its value, and the values w are what the
\* definitions d compute, for the operations the analysis reads backwards.
Explained(d, w) ==
  \A v \in 1 .. Len(d) :
    /\ d[v].op \in {"add", "sub", "mul"} => d[v].x \in 1 .. v - 1 /\ d[v].y \in 1 .. v - 1
    /\ d[v].op = "neg" => d[v].x \in 1 .. v - 1
    /\ d[v].op = "add" => w[v] = w[d[v].x] + w[d[v].y]
    /\ d[v].op = "sub" => w[v] = w[d[v].x] - w[d[v].y]
    /\ d[v].op = "mul" => w[v] = w[d[v].x] * w[d[v].y]
    /\ d[v].op = "neg" => w[v] = -w[d[v].x]
    /\ d[v].op = "const" => d[v].x = w[v]

\* The facts f are facts of the values w.
FactsOf(f, w) == f \in Seq(Iv) /\ Len(f) <= Len(w) /\ \A v \in 1 .. Len(f) : Fact(f[v], w[v])

\* A program with a fact and a value of every definition.
Program(d, f, w) ==
  /\ d \in Seq(Definitions) /\ w \in Seq(Int) /\ f \in Seq(Iv)
  /\ Len(w) = Len(d) /\ Len(f) = Len(d)
  /\ Explained(d, w) /\ FactsOf(f, w)

\* What deltaFrom gives a value where g is what it gives the earlier ones.
DeltaAt(base, d, f, g, v) ==
  LET s == d[v]
  IN  IF f[v].bot THEN Bot
      ELSE IF v = base THEN Exact(0)
      ELSE IF s.op = "add" /\ g[s.x] # Top THEN AddIV(g[s.x], f[s.y])
      ELSE IF s.op = "add" /\ g[s.y] # Top THEN AddIV(g[s.y], f[s.x])
      ELSE IF s.op = "sub" /\ g[s.x] # Top THEN SubIV(g[s.x], f[s.y])
      ELSE Top

\* The cases of DeltaAt, where facts are not empty.
LEMMA DeltaCases ==
  ASSUME NEW base, NEW d, NEW f, NEW g, NEW v, ~f[v].bot
  PROVE  \/ v = base /\ DeltaAt(base, d, f, g, v) = Exact(0)
         \/ d[v].op = "add" /\ DeltaAt(base, d, f, g, v) = AddIV(g[d[v].x], f[d[v].y])
         \/ d[v].op = "add" /\ DeltaAt(base, d, f, g, v) = AddIV(g[d[v].y], f[d[v].x])
         \/ d[v].op = "sub" /\ DeltaAt(base, d, f, g, v) = SubIV(g[d[v].x], f[d[v].y])
         \/ DeltaAt(base, d, f, g, v) = Top
<1>1. CASE v = base
  BY <1>1 DEF DeltaAt
<1>2. CASE v # base /\ d[v].op = "add"
  BY <1>2 DEF DeltaAt
<1>3. CASE v # base /\ d[v].op = "sub"
  BY <1>3 DEF DeltaAt
<1>4. CASE v # base /\ d[v].op # "add" /\ d[v].op # "sub"
  BY <1>4 DEF DeltaAt
<1> QED BY <1>1, <1>2, <1>3, <1>4

\* It reads the earlier ones only.
LEMMA DeltaAtLocal ==
  ASSUME NEW d, NEW f, NEW w, Program(d, f, w), NEW base, NEW v \in 1 .. Len(d),
         NEW g, NEW h, \A u \in 1 .. v - 1 : g[u] = h[u]
  PROVE  DeltaAt(base, d, f, g, v) = DeltaAt(base, d, f, h, v)
<1>1. Fact(f[v], w[v])
  BY DEF Program, FactsOf
<1>2. ~f[v].bot
  BY <1>1 DEF Fact, In
<1>3. d[v].op \in {"add", "sub"} => g[d[v].x] = h[d[v].x] /\ g[d[v].y] = h[d[v].y]
  BY DEF Program, Explained
<1>4. CASE v = base
  BY <1>2, <1>4 DEF DeltaAt
<1>5. CASE v # base /\ d[v].op \in {"add", "sub"}
  BY <1>2, <1>3, <1>5 DEF DeltaAt
<1>6. CASE v # base /\ d[v].op \notin {"add", "sub"}
  BY <1>2, <1>6 DEF DeltaAt
<1> QED BY <1>4, <1>5, <1>6

\* It is an interval if they are.
LEMMA DeltaAtType ==
  ASSUME NEW d, NEW f, NEW w, Program(d, f, w), NEW base, NEW v \in 1 .. Len(d),
         NEW g \in [1 .. Len(d) -> Iv]
  PROVE  DeltaAt(base, d, f, g, v) \in Iv
<1>1. Len(d) \in Nat /\ f[v] \in Iv /\ Fact(f[v], w[v])
  BY DEF Program, FactsOf
<1>2. ~f[v].bot
  BY <1>1 DEF Fact, In
<1>3. d[v].op \in {"add", "sub"} => d[v].x \in 1 .. Len(d) /\ d[v].y \in 1 .. Len(d)
  BY <1>1 DEF Program, Explained
<1>4. d[v].op \in {"add", "sub"} =>
        f[d[v].x] \in Iv /\ f[d[v].y] \in Iv /\ g[d[v].x] \in Iv /\ g[d[v].y] \in Iv
  BY <1>3 DEF Program
<1>5. Top \in Iv /\ Exact(0) \in Iv
  BY ConstantTypes, EndsAreIntegers DEF Exact
<1> QED BY <1>2, <1>4, <1>5, DeltaCases, AddType, SubType

\* deltaFrom as a function: each value's difference from the earlier ones'.
LEMMA DeltaFunction ==
  ASSUME NEW d, NEW f, NEW w, Program(d, f, w), NEW base
  PROVE  \E g \in [1 .. Len(d) -> Iv] :
           /\ Delta(base, d, f) = g
           /\ \A v \in 1 .. Len(d) : g[v] = DeltaAt(base, d, f, g, v)
<1> DEFINE n == Len(d)
           S == [1 .. n -> Iv]
           R(g, v) == DeltaAt(base, d, f, g, v)
           Law(g) == [v \in DOMAIN d |-> R(g, v)]
           F == [m \in 1 .. n |-> [g \in S |-> [g EXCEPT ![m] = R(g, m)]]]
           a == [v \in 1 .. n |-> Top]
<1>1. n \in Nat /\ DOMAIN d = 1 .. n
  BY DEF Program
<1>2. Delta(base, d, f) = CHOOSE g : g = Law(g)
  BY DEF Delta, DeltaAt
<1>3. a \in S
  BY ConstantTypes, EndsAreIntegers
<1>4. \A m \in 1 .. n : \A g \in S : R(g, m) \in Iv
  BY DeltaAtType
<1>5. \A v \in 1 .. n : \A g, h : (\A u \in 1 .. v - 1 : g[u] = h[u]) => R(g, v) = R(h, v)
  BY DeltaAtLocal
<1> HIDE DEF R
<1>6. F \in Steps(n, S)
  BY <1>4 DEF Steps
<1>7. \A m \in 1 .. n : \A g \in S : F[m][g] = [g EXCEPT ![m] = R(g, m)]
  OBVIOUS
<1> HIDE DEF F, a
<1>8. PICK h \in [0 .. n -> S] : h[0] = a /\ \A m \in 1 .. n : h[m] = F[m][h[m - 1]]
  <2> DEFINE k == n
             T == S
  <2>1. k \in Nat /\ F \in Steps(k, T) /\ a \in T
    BY <1>1, <1>3, <1>6
  <2> HIDE DEF k, T
  <2>2. Recursive(k, T, a, F)
    BY <2>1, Recursion
  <2> QED BY <2>2 DEF Recursive, k, T
<1> DEFINE A == {m \in 0 .. n : \A v \in 1 .. m : h[m][v] = R(h[m], v)}
<1>9. 0 \in A
  BY <1>1
<1>10. ASSUME NEW m \in 0 .. n - 1, m \in A PROVE m + 1 \in A
  <2>1. m \in Nat /\ m + 1 \in 1 .. n /\ m \in 0 .. n /\ m + 1 \in 0 .. n /\ (m + 1) - 1 = m
    BY <1>1
  <2>2. h[m] \in S /\ h[m + 1] \in S
    BY <2>1
  <2>3. h[m + 1] = [h[m] EXCEPT ![m + 1] = R(h[m], m + 1)]
    BY <1>7, <1>8, <2>1, <2>2
  <2>4. R(h[m], m + 1) \in Iv
    BY <1>4, <2>1, <2>2
  <2>5. h[m + 1][m + 1] = R(h[m], m + 1) /\ \A u \in 1 .. m : h[m + 1][u] = h[m][u]
    BY <2>1, <2>2, <2>3
  <2>6. ASSUME NEW v \in 1 .. m + 1 PROVE h[m + 1][v] = R(h[m + 1], v)
    <3>1. v \in 1 .. n /\ \A u \in 1 .. v - 1 : u \in 1 .. m
      BY <1>1, <2>1
    <3>2. \A u \in 1 .. v - 1 : h[m + 1][u] = h[m][u]
      BY <2>5, <3>1
    <3>3. R(h[m + 1], v) = R(h[m], v)
      BY <1>5, <2>2, <3>1, <3>2
    <3>4. CASE v = m + 1
      BY <2>5, <3>3, <3>4
    <3>5. CASE v # m + 1
      <4>1. v \in 1 .. m
        BY <2>1, <3>5
      <4> QED BY <1>10, <2>5, <3>3, <4>1
    <3> QED BY <3>4, <3>5
  <2> QED BY <2>1, <2>6
<1>11. n \in A
  <2>1. \A m \in 0 .. n : m \in A
    <3> HIDE DEF A, n
    <3> QED BY <1>1, <1>9, <1>10, UpTo
  <2> QED BY <1>1, <2>1
<1> DEFINE g == h[n]
<1>12. g \in S /\ \A v \in 1 .. n : g[v] = R(g, v)
  BY <1>1, <1>11
<1> HIDE DEF g, A
<1>13. g = Law(g)
  BY <1>1, <1>12
<1> DEFINE e == CHOOSE x : x = Law(x)
<1>14. e = Law(e)
  BY <1>13
<1>15. DOMAIN e = 1 .. n /\ \A v \in 1 .. n : e[v] = R(e, v)
  BY <1>1, <1>14
<1>16. Delta(base, d, f) = e
  BY <1>2
<1> HIDE DEF e
<1> DEFINE B == {m \in 0 .. n : \A v \in 1 .. m : e[v] = g[v]}
<1>17. 0 \in B
  BY <1>1
<1>18. ASSUME NEW m \in 0 .. n - 1, m \in B PROVE m + 1 \in B
  <2>1. m \in Nat /\ m + 1 \in 1 .. n /\ m + 1 \in 0 .. n /\ (m + 1) - 1 = m
    BY <1>1
  <2>2. \A u \in 1 .. (m + 1) - 1 : e[u] = g[u]
    BY <1>18, <2>1
  <2>3. R(e, m + 1) = R(g, m + 1)
    BY <1>5, <2>1, <2>2
  <2>4. e[m + 1] = g[m + 1]
    BY <1>12, <1>15, <2>1, <2>3
  <2>5. \A v \in 1 .. m + 1 : v = m + 1 \/ v \in 1 .. m
    BY <2>1
  <2> QED BY <1>18, <2>1, <2>4, <2>5
<1>19. n \in B
  <2>1. \A m \in 0 .. n : m \in B
    <3> HIDE DEF B, n
    <3> QED BY <1>1, <1>17, <1>18, UpTo
  <2> QED BY <1>1, <2>1
<1>20. e = g
  BY <1>12, <1>15, <1>19
<1> QED BY <1>12, <1>16, <1>20 DEF R

\* The difference of a value and the base is in the interval found for it.
LEMMA DeltaSound ==
  ASSUME NEW d, NEW f, NEW w, Program(d, f, w), NEW base \in 1 .. Len(d)
  PROVE  \A v \in 1 .. Len(d) :
           Delta(base, d, f)[v] \in Iv /\ In(w[v] - w[base], Delta(base, d, f)[v])
<1> DEFINE n == Len(d)
<1>1. n \in Nat
  BY DEF Program
<1>2. PICK g \in [1 .. n -> Iv] :
        Delta(base, d, f) = g /\ \A v \in 1 .. n : g[v] = DeltaAt(base, d, f, g, v)
  BY DeltaFunction
<1> DEFINE A == {m \in 0 .. n : \A v \in 1 .. m : In(w[v] - w[base], g[v])}
<1>3. 0 \in A
  BY <1>1
<1>4. ASSUME NEW m \in 0 .. n - 1, m \in A PROVE m + 1 \in A
  <2> DEFINE v == m + 1
             s == d[v]
  <2>1. v \in 1 .. n /\ v \in 0 .. n /\ v - 1 = m /\ m \in Nat
    BY <1>1
  <2> HIDE DEF v
  <2>2. Fact(f[v], w[v]) /\ w[v] \in Int /\ w[base] \in Int
    BY <1>1, <2>1 DEF Program, FactsOf
  <2>3. ~f[v].bot
    BY <2>2 DEF Fact, In
  <2>4. g[v] = DeltaAt(base, d, f, g, v)
    BY <1>2, <2>1
  <2>5. s.op \in {"add", "sub"} => s.x \in 1 .. m /\ s.y \in 1 .. m /\ s.x \in 1 .. n /\ s.y \in 1 .. n
    BY <1>1, <2>1 DEF Program, Explained
  <2>6. s.op \in {"add", "sub"} =>
          /\ w[s.x] \in Int /\ w[s.y] \in Int /\ g[s.x] \in Iv /\ g[s.y] \in Iv
          /\ f[s.x] \in Iv /\ f[s.y] \in Iv /\ In(w[s.x], f[s.x]) /\ In(w[s.y], f[s.y])
          /\ In(w[s.x] - w[base], g[s.x]) /\ In(w[s.y] - w[base], g[s.y])
    <3>1. ASSUME NEW u \in 1 .. n
          PROVE  w[u] \in Int /\ g[u] \in Iv /\ f[u] \in Iv /\ In(w[u], f[u])
      BY DEF Program, FactsOf, Fact
    <3>2. \A u \in 1 .. m : In(w[u] - w[base], g[u])
      BY <1>4
    <3> QED BY <2>5, <3>1, <3>2
  <2>7. In(w[v] - w[base], g[v])
    <3>1. CASE v = base /\ g[v] = Exact(0)
      <4>1. w[v] - w[base] = 0
        BY <2>2, <3>1
      <4> QED BY <3>1, <4>1, ExactFact, EndsAreIntegers DEF Fact
    <3>2. CASE s.op = "add" /\ g[v] = AddIV(g[s.x], f[s.y])
      <4>1. w[v] - w[base] = (w[s.x] - w[base]) + w[s.y]
        BY <2>1, <2>2, <2>6, <3>2 DEF Program, Explained
      <4>2. w[s.x] - w[base] \in Int
        BY <2>2, <2>6, <3>2
      <4> QED BY <2>6, <3>2, <4>1, <4>2, AddSound
    <3>3. CASE s.op = "add" /\ g[v] = AddIV(g[s.y], f[s.x])
      <4>1. w[v] - w[base] = (w[s.y] - w[base]) + w[s.x]
        BY <2>1, <2>2, <2>6, <3>3 DEF Program, Explained
      <4>2. w[s.y] - w[base] \in Int
        BY <2>2, <2>6, <3>3
      <4> QED BY <2>6, <3>3, <4>1, <4>2, AddSound
    <3>4. CASE s.op = "sub" /\ g[v] = SubIV(g[s.x], f[s.y])
      <4>1. w[v] - w[base] = (w[s.x] - w[base]) - w[s.y]
        BY <2>1, <2>2, <2>6, <3>4 DEF Program, Explained
      <4>2. w[s.x] - w[base] \in Int
        BY <2>2, <2>6, <3>4
      <4> QED BY <2>6, <3>4, <4>1, <4>2, SubSound
    <3>5. CASE g[v] = Top
      BY <3>5 DEF In, Top
    <3> QED BY <2>3, <2>4, <3>1, <3>2, <3>3, <3>4, <3>5, DeltaCases
  <2>8. \A u \in 1 .. v : u = v \/ u \in 1 .. m
    BY <2>1
  <2>9. v \in A
    BY <1>4, <2>1, <2>7, <2>8
  <2> QED BY <2>9 DEF v
<1>5. n \in A
  <2>1. \A m \in 0 .. n : m \in A
    <3> HIDE DEF A, n
    <3> QED BY <1>1, <1>3, <1>4, UpTo
  <2> QED BY <1>1, <2>1
<1> QED BY <1>2, <1>5

-----------------------------------------------------------------------------
(* Restore.                                                                *)

Saves == [v : Nat, f : Iv]

\* The saved facts put `before` back: the oldest one saved of a value is what it
\* was before, and a value of which none is saved has not changed.
Undoes(saved, now, before) ==
  \A v \in 1 .. Len(before) :
    \/ \E i \in 1 .. Len(saved) : /\ saved[i].v = v /\ saved[i].f = before[v]
                                  /\ \A j \in 1 .. i - 1 : saved[j].v # v
    \/ (\A i \in 1 .. Len(saved) : saved[i].v # v) /\ now[v] = before[v]

\* The n newest are put back: the oldest of those for each value.
Newest(saved, now, n, s) ==
  \A v \in 1 .. Len(now) :
    \/ \E i \in Len(saved) - n + 1 .. Len(saved) :
         /\ saved[i].v = v /\ s[v] = saved[i].f
         /\ \A j \in Len(saved) - n + 1 .. i - 1 : saved[j].v # v
    \/ (\A i \in Len(saved) - n + 1 .. Len(saved) : saved[i].v # v) /\ s[v] = now[v]

\* Putting one more back.
LEMMA NewestStep ==
  ASSUME NEW saved \in Seq(Saves), NEW now \in Seq(Iv), NEW n \in 0 .. Len(saved) - 1,
         NEW s \in [1 .. Len(now) -> Iv], Newest(saved, now, n, s)
  PROVE  Newest(saved, now, n + 1,
                [s EXCEPT ![saved[Len(saved) - (n + 1) + 1].v] = saved[Len(saved) - (n + 1) + 1].f])
<1> DEFINE L == Len(saved)
           k == L - (n + 1) + 1
           t == [s EXCEPT ![saved[k].v] = saved[k].f]
<1>1. L \in Nat /\ n \in Nat /\ k \in 1 .. L /\ k = L - n /\ L - n + 1 = k + 1 /\ L - (n + 1) + 1 = k
  OBVIOUS
<1>2. saved[k].v \in Nat /\ saved[k].f \in Iv
  <2>1. saved[k] \in Saves
    BY <1>1
  <2> QED BY <2>1 DEF Saves
<1>3. \A v \in 1 .. Len(now) :
        \/ \E i \in k + 1 .. L : /\ saved[i].v = v /\ s[v] = saved[i].f
                                 /\ \A j \in k + 1 .. i - 1 : saved[j].v # v
        \/ (\A i \in k + 1 .. L : saved[i].v # v) /\ s[v] = now[v]
  <2>1. L - n + 1 = k + 1
    BY <1>1
  <2> QED BY <2>1 DEF Newest
<1> HIDE DEF k, L
<1> SUFFICES ASSUME NEW v \in 1 .. Len(now)
             PROVE  \/ \E i \in k .. L : /\ saved[i].v = v /\ t[v] = saved[i].f
                                         /\ \A j \in k .. i - 1 : saved[j].v # v
                    \/ (\A i \in k .. L : saved[i].v # v) /\ t[v] = now[v]
  BY <1>1 DEF Newest, L, k
<1>4. CASE saved[k].v = v
  <2>1. t[v] = saved[k].f
    BY <1>4
  <2>2. \A j \in k .. k - 1 : saved[j].v # v
    BY <1>1
  <2>3. k \in k .. L
    BY <1>1
  <2> HIDE DEF t
  <2> QED BY <1>4, <2>1, <2>2, <2>3
<1>5. CASE saved[k].v # v
  <2>1. t[v] = s[v]
    BY <1>5
  <2>2. \A j \in k .. L : j = k \/ j \in k + 1 .. L
    BY <1>1
  <2>3. \A i \in k + 1 .. L : i \in k .. L /\ \A j \in k .. i - 1 : j = k \/ j \in k + 1 .. i - 1
    BY <1>1
  <2> HIDE DEF t
  <2>4. CASE (\A i \in k + 1 .. L : saved[i].v # v) /\ s[v] = now[v]
    BY <1>5, <2>1, <2>2, <2>4
  <2>5. CASE \E i \in k + 1 .. L : /\ saved[i].v = v /\ s[v] = saved[i].f
                                   /\ \A j \in k + 1 .. i - 1 : saved[j].v # v
    BY <1>5, <2>1, <2>3, <2>5
  <2> QED BY <1>3, <2>4, <2>5
<1> QED BY <1>4, <1>5

\* restore puts back what the saved facts say.
LEMMA RestoreFacts ==
  ASSUME NEW saved \in Seq(Saves), NEW now \in Seq(Iv), NEW before \in Seq(Iv),
         Len(before) <= Len(now), Undoes(saved, now, before)
  PROVE  /\ Restore(saved, now) \in [1 .. Len(now) -> Iv]
         /\ \A v \in 1 .. Len(before) : Restore(saved, now)[v] = before[v]
<1> DEFINE n == Len(saved)
           S == [1 .. Len(now) -> Iv]
           At(m) == saved[n - m + 1]
           Law(h) == [m \in 0 .. n |-> IF m = 0 THEN now ELSE [h[m - 1] EXCEPT ![At(m).v] = At(m).f]]
           F == [m \in 1 .. n |-> [s \in S |-> [s EXCEPT ![At(m).v] = At(m).f]]]
           undo == CHOOSE h : h = Law(h)
<1>1. n \in Nat /\ n \in 0 .. n /\ now \in S
  OBVIOUS
<1>2. Restore(saved, now) = undo[n]
  BY DEF Restore
<1>3. \A m \in 1 .. n : At(m).f \in Iv /\ At(m).v \in Nat
  <2> SUFFICES ASSUME NEW m \in 1 .. n PROVE At(m).f \in Iv /\ At(m).v \in Nat
    OBVIOUS
  <2>1. n - m + 1 \in 1 .. n
    OBVIOUS
  <2>2. At(m) \in Saves
    BY <2>1
  <2> HIDE DEF At
  <2> QED BY <2>2 DEF Saves
<1>4. F \in Steps(n, S)
  BY <1>3 DEF Steps
<1>5. \A m \in 1 .. n : \A s \in S : F[m][s] = [s EXCEPT ![At(m).v] = At(m).f]
  OBVIOUS
<1> HIDE DEF F, At
<1>6. PICK h \in [0 .. n -> S] : h[0] = now /\ \A m \in 1 .. n : h[m] = F[m][h[m - 1]]
  <2> DEFINE k == n
             T == S
  <2>1. k \in Nat /\ F \in Steps(k, T) /\ now \in T
    BY <1>1, <1>4
  <2> HIDE DEF k, T
  <2>2. Recursive(k, T, now, F)
    BY <2>1, Recursion
  <2> QED BY <2>2 DEF Recursive, k, T
<1>7. \A m \in 1 .. n : h[m] = [h[m - 1] EXCEPT ![At(m).v] = At(m).f]
  <2> SUFFICES ASSUME NEW m \in 1 .. n PROVE h[m] = [h[m - 1] EXCEPT ![At(m).v] = At(m).f]
    OBVIOUS
  <2>1. m - 1 \in 0 .. n
    BY <1>1
  <2> HIDE DEF S
  <2>2. h[m - 1] \in S
    BY <1>6, <2>1
  <2>3. F[m][h[m - 1]] = [h[m - 1] EXCEPT ![At(m).v] = At(m).f]
    BY <1>5, <2>2
  <2> QED BY <1>6, <2>3
<1> HIDE DEF S
<1>8. h = Law(h)
  <2>1. DOMAIN h = 0 .. n /\ h = [m \in 0 .. n |-> h[m]]
    BY <1>6
  <2>2. \A m \in 0 .. n : m # 0 => m \in 1 .. n
    BY <1>1
  <2>3. \A m \in 0 .. n : h[m] = IF m = 0 THEN now ELSE [h[m - 1] EXCEPT ![At(m).v] = At(m).f]
    BY <1>6, <1>7, <2>2
  <2> QED BY <2>1, <2>3
<1>9. undo = Law(undo)
  BY <1>8
<1> HIDE DEF undo
<1> DEFINE A == {m \in 0 .. n : undo[m] \in S /\ Newest(saved, now, m, undo[m])}
<1>10. undo[0] = now /\ \A m \in 1 .. n : undo[m] = [undo[m - 1] EXCEPT ![At(m).v] = At(m).f]
  <2>1. 0 \in 0 .. n /\ \A m \in 1 .. n : m \in 0 .. n /\ m # 0
    BY <1>1
  <2> QED BY <1>9, <2>1
<1>11. 0 \in A
  <2>1. 0 \in 0 .. n /\ n - 0 + 1 = n + 1 /\ \A i : i \notin n + 1 .. n
    BY <1>1
  <2>2. Newest(saved, now, 0, now)
    BY <2>1 DEF Newest
  <2> QED BY <1>1, <1>10, <2>1, <2>2
<1>12. ASSUME NEW m \in 0 .. n - 1, m \in A PROVE m + 1 \in A
  <2>1. m \in Nat /\ m + 1 \in 1 .. n /\ m + 1 \in 0 .. n /\ (m + 1) - 1 = m
    BY <1>1
  <2>2. undo[m + 1] = [undo[m] EXCEPT ![At(m + 1).v] = At(m + 1).f]
    BY <1>10, <2>1
  <2>3. undo[m] \in S /\ Newest(saved, now, m, undo[m])
    BY <1>12
  <2>4. undo[m + 1] \in S
    BY <1>3, <2>1, <2>2, <2>3 DEF S
  <2>5. Newest(saved, now, m + 1, undo[m + 1])
    <3> DEFINE s == undo[m]
    <3>1. s \in [1 .. Len(now) -> Iv] /\ Newest(saved, now, m, s) /\ m \in 0 .. Len(saved) - 1
      BY <2>3 DEF S
    <3>2. undo[m + 1] = [s EXCEPT ![saved[Len(saved) - (m + 1) + 1].v] = saved[Len(saved) - (m + 1) + 1].f]
      BY <2>2 DEF At
    <3> HIDE DEF s
    <3>3. Newest(saved, now, m + 1,
                 [s EXCEPT ![saved[Len(saved) - (m + 1) + 1].v] = saved[Len(saved) - (m + 1) + 1].f])
      BY ONLY <3>1, NewestStep, saved \in Seq(Saves), now \in Seq(Iv)
    <3> QED BY <3>2, <3>3
  <2> QED BY <2>1, <2>4, <2>5
<1>13. n \in A
  <2>1. \A m \in 0 .. n : m \in A
    <3> HIDE DEF A, n
    <3> QED BY <1>1, <1>11, <1>12, UpTo
  <2> QED BY <1>1, <2>1
<1>14. ASSUME NEW v \in 1 .. Len(before) PROVE undo[n][v] = before[v]
  <2>1. v \in 1 .. Len(now) /\ n - n + 1 = 1
    BY <1>1
  <2>2. \/ \E i \in 1 .. n : /\ saved[i].v = v /\ undo[n][v] = saved[i].f
                             /\ \A j \in 1 .. i - 1 : saved[j].v # v
        \/ (\A i \in 1 .. n : saved[i].v # v) /\ undo[n][v] = now[v]
    BY <1>13, <2>1 DEF Newest
  <2>3. \A i, j \in 1 .. n : i = j \/ i \in 1 .. j - 1 \/ j \in 1 .. i - 1
    BY <1>1
  <2> QED BY <2>2, <2>3 DEF Undoes
<1> QED BY <1>2, <1>13, <1>14 DEF S

-----------------------------------------------------------------------------
(* What a guard teaches.                                                   *)

\* The facts under a guard that holds of the values, and what puts fs back.
Kept(st) ==
  /\ st \in States
  /\ Len(st.facts) = Len(def)
  /\ \A v \in Values : Fact(st.facts[v], val[v])
  /\ \A i \in 1 .. Len(st.saved) : st.saved[i].v \in Values
  /\ Undoes(st.saved, st.facts, fs)

\* A level of back keeps that, asked of an interval that holds the value.
Keeps(B) ==
  \A v \in Values, z \in Iv, st \in States : Kept(st) /\ In(val[v], z) => Kept(B[v][z][st])

\* A value's fact met with z, what it was being saved.
Met(v, z, st) ==
  [facts |-> [st.facts EXCEPT ![v] = MeetIV(st.facts[v], z)],
   saved |-> Append(st.saved, [v |-> v, f |-> st.facts[v]])]

\* The parts of Kept.
LEMMA KeptFields ==
  ASSUME NEW st, Kept(st)
  PROVE  /\ st \in States /\ st.facts \in Seq(Iv) /\ st.saved \in Seq(Saves)
         /\ st = [facts |-> st.facts, saved |-> st.saved]
         /\ Len(st.facts) = Len(def)
         /\ \A v \in Values : Fact(st.facts[v], val[v]) /\ st.facts[v] \in Iv /\ In(val[v], st.facts[v])
BY DEF Kept, States, Saves, Fact

\* One more fact met and saved.
LEMMA MetKept ==
  ASSUME Program(def, fs, val), NEW v \in Values, NEW z \in Iv, NEW st, Kept(st), In(val[v], z)
  PROVE  /\ Kept(Met(v, z, st))
         /\ Fact(MeetIV(st.facts[v], z), val[v])
<1> DEFINE n == Len(st.saved)
           m == MeetIV(st.facts[v], z)
           e == [v |-> v, f |-> st.facts[v]]
           facts == [st.facts EXCEPT ![v] = m]
           saved == Append(st.saved, e)
<1>1. /\ Values = 1 .. Len(def) /\ Len(def) \in Nat /\ Len(fs) = Len(def) /\ v \in Nat /\ val[v] \in Int
      /\ fs \in Seq(Iv)
  BY DEF Program, Values
<1>2. /\ st \in States /\ st.facts \in Seq(Iv) /\ st.saved \in Seq(Saves) /\ Len(st.facts) = Len(def)
      /\ \A u \in Values : Fact(st.facts[u], val[u]) /\ st.facts[u] \in Iv /\ In(val[u], st.facts[u])
  BY KeptFields
<1>3. Fact(m, val[v]) /\ m \in Iv
  BY <1>1, <1>2, MeetFact, MeetType
<1> HIDE DEF m
<1>4. facts \in Seq(Iv) /\ Len(facts) = Len(def) /\ facts[v] = m
      /\ \A u \in Values : u # v => facts[u] = st.facts[u]
  BY <1>1, <1>2, <1>3
<1>5. e \in Saves
  BY <1>1, <1>2 DEF Saves
<1>6. /\ saved \in Seq(Saves) /\ n \in Nat /\ Len(saved) = n + 1 /\ saved[n + 1] = e
      /\ \A i \in 1 .. n : saved[i] = st.saved[i]
  BY <1>2, <1>5
<1>7. e.v = v /\ e.f = st.facts[v]
  OBVIOUS
<1> HIDE DEF facts, saved, e
<1>8. \A i \in 1 .. n + 1 : i = n + 1 \/ i \in 1 .. n
  BY <1>6
<1>9. \A i \in 1 .. Len(saved) : saved[i].v \in Values
  BY <1>6, <1>7, <1>8 DEF Kept
<1>10. Undoes(saved, facts, fs)
  <2> SUFFICES ASSUME NEW u \in 1 .. Len(fs)
               PROVE  \/ \E i \in 1 .. n + 1 : /\ saved[i].v = u /\ saved[i].f = fs[u]
                                               /\ \A j \in 1 .. i - 1 : saved[j].v # u
                      \/ (\A i \in 1 .. n + 1 : saved[i].v # u) /\ facts[u] = fs[u]
    BY <1>6 DEF Undoes
  <2>1. \/ \E i \in 1 .. n : /\ st.saved[i].v = u /\ st.saved[i].f = fs[u]
                             /\ \A j \in 1 .. i - 1 : st.saved[j].v # u
        \/ (\A i \in 1 .. n : st.saved[i].v # u) /\ st.facts[u] = fs[u]
    BY DEF Kept, Undoes
  <2>2. CASE \E i \in 1 .. n : /\ st.saved[i].v = u /\ st.saved[i].f = fs[u]
                               /\ \A j \in 1 .. i - 1 : st.saved[j].v # u
    <3>1. \A i \in 1 .. n : i \in 1 .. n + 1 /\ \A j \in 1 .. i - 1 : j \in 1 .. n
      BY <1>6
    <3>2. PICK i \in 1 .. n : /\ st.saved[i].v = u /\ st.saved[i].f = fs[u]
                              /\ \A j \in 1 .. i - 1 : st.saved[j].v # u
      BY <2>2
    <3>3. /\ i \in 1 .. n + 1 /\ saved[i].v = u /\ saved[i].f = fs[u]
          /\ \A j \in 1 .. i - 1 : saved[j].v # u
      BY <1>6, <3>1, <3>2
    <3> QED BY <3>3
  <2>3. CASE (\A i \in 1 .. n : st.saved[i].v # u) /\ st.facts[u] = fs[u]
    <3>1. CASE u = v
      <4>1. n + 1 \in 1 .. n + 1 /\ \A j \in 1 .. (n + 1) - 1 : j \in 1 .. n
        BY <1>6
      <4>2. saved[n + 1].v = u /\ saved[n + 1].f = fs[u]
        BY <1>6, <1>7, <2>3, <3>1
      <4>3. \A j \in 1 .. (n + 1) - 1 : saved[j].v # u
        BY <1>6, <2>3, <4>1
      <4> QED BY <4>1, <4>2, <4>3
    <3>2. CASE u # v
      <4>1. facts[u] = fs[u]
        BY <1>1, <1>4, <2>3, <3>2
      <4>2. \A i \in 1 .. n + 1 : saved[i].v # u
        BY <1>6, <1>7, <1>8, <2>3, <3>2
      <4> QED BY <4>1, <4>2
    <3> QED BY <3>1, <3>2
  <2> QED BY <2>1, <2>2, <2>3
<1>11. Met(v, z, st) = [facts |-> facts, saved |-> saved]
  BY DEF Met, facts, saved, m, e
<1>12. [facts |-> facts, saved |-> saved] \in States
  BY <1>4, <1>6 DEF States, Saves
<1>13. \A u \in Values : Fact(facts[u], val[u])
  BY <1>2, <1>3, <1>4
<1>14. Kept([facts |-> facts, saved |-> saved])
  BY <1>4, <1>9, <1>10, <1>12, <1>13 DEF Kept
<1> QED BY <1>3, <1>11, <1>14 DEF m

\* The level that stops.
LEMMA BelowKeeps == Keeps(BelowDepth)
BY DEF Keeps, BelowDepth

\* The inverse of a value's definition, met with an interval that holds the
\* value, holds the operand it narrows.
LEMMA InverseHolds ==
  ASSUME Program(def, fs, val), NEW v \in Values, NEW m \in Iv, In(val[v], m), NEW s, Kept(s),
         NEW i \in {1, 2}, i \in Narrowed(def[v])
  PROVE  LET w == IF i = 1 THEN def[v].x ELSE def[v].y
         IN  w \in Values /\ Inverse(def[v], m, i, s.facts) \in Iv
             /\ In(val[w], Inverse(def[v], m, i, s.facts))
<1> DEFINE d == def[v]
           w == IF i = 1 THEN d.x ELSE d.y
           o == IF i = 1 THEN d.y ELSE d.x
           f == Inverse(d, m, i, s.facts)
<1>1. /\ Values = 1 .. Len(def) /\ Len(def) \in Nat /\ v \in Nat
      /\ \A u \in Values : val[u] \in Int
  BY DEF Program, Values
<1>2. /\ d.op \in {"add", "sub", "mul"} => d.x \in Values /\ d.y \in Values
      /\ d.op = "neg" => d.x \in Values
      /\ d.op = "add" => val[v] = val[d.x] + val[d.y]
      /\ d.op = "sub" => val[v] = val[d.x] - val[d.y]
      /\ d.op = "mul" => val[v] = val[d.x] * val[d.y]
      /\ d.op = "neg" => val[v] = -val[d.x]
  BY <1>1 DEF Program, Explained
<1>3. \A u \in Values : s.facts[u] \in Iv /\ In(val[u], s.facts[u]) /\ val[u] \in Int
  BY <1>1, KeptFields
<1>4. i \in Narrowed(d)
  OBVIOUS
<1> HIDE DEF d
<1>5. CASE d.op = "add"
  <2>1. w \in Values /\ o \in Values /\ f = SubIV(m, s.facts[o]) /\ val[v] - val[o] = val[w]
    BY <1>1, <1>2, <1>5 DEF Inverse
  <2> HIDE DEF w, o, f
  <2>2. f \in Iv /\ In(val[v] - val[o], f)
    BY <1>1, <1>3, <2>1, SubSound
  <2> QED BY <2>1, <2>2 DEF w, f, d
<1>6. CASE d.op = "sub" /\ i = 1
  <2>1. w \in Values /\ d.y \in Values /\ f = AddIV(m, s.facts[d.y]) /\ val[v] + val[d.y] = val[w]
    BY <1>1, <1>2, <1>6 DEF Inverse
  <2> HIDE DEF w, o, f
  <2>2. f \in Iv /\ In(val[v] + val[d.y], f)
    BY <1>1, <1>3, <2>1, AddSound
  <2> QED BY <2>1, <2>2 DEF w, f, d
<1>7. CASE d.op = "sub" /\ i # 1
  <2>1. w \in Values /\ d.x \in Values /\ f = SubIV(s.facts[d.x], m) /\ val[d.x] - val[v] = val[w]
    BY <1>1, <1>2, <1>7 DEF Inverse
  <2> HIDE DEF w, o, f
  <2>2. f \in Iv /\ In(val[d.x] - val[v], f)
    BY <1>1, <1>3, <2>1, SubSound
  <2> QED BY <2>1, <2>2 DEF w, f, d
<1>8. CASE d.op = "neg"
  <2>1. i = 1
    BY <1>4, <1>8 DEF Narrowed
  <2>2. w \in Values /\ f = NegIV(m) /\ -val[v] = val[w]
    BY <1>1, <1>2, <1>8, <2>1 DEF Inverse
  <2> HIDE DEF w, o, f
  <2>3. f \in Iv /\ In(-val[v], f)
    BY <1>1, <2>2, NegSound
  <2> QED BY <2>2, <2>3 DEF w, f, d
<1>9. CASE d.op = "mul" /\ d.x = d.y
  <2>1. w \in Values /\ f = InvSquare(m) /\ val[w] * val[w] = val[v]
    BY <1>2, <1>9 DEF Inverse
  <2> HIDE DEF w, o, f
  <2>2. val[w] \in Int /\ In(val[w] * val[w], m)
    BY <1>1, <2>1
  <2>3. f \in Iv /\ In(val[w], f)
    BY <2>1, <2>2, InvSquareSound
  <2> QED BY <2>1, <2>3 DEF w, f, d
<1>10. CASE d.op = "mul" /\ d.x # d.y
  <2>1. w \in Values /\ o \in Values /\ f = InvMulConst(m, def[o].x) /\ def[o].op = "const"
    BY <1>2, <1>4, <1>10 DEF Inverse, Narrowed
  <2>2. val[w] * val[o] = val[v]
    BY <1>1, <1>2, <1>10, TimesCommutes
  <2> HIDE DEF w, o, f
  <2>3. def[o].x = val[o] /\ val[o] \in Int /\ val[w] \in Int
    BY <1>1, <2>1 DEF Program, Explained
  <2>4. In(val[w] * val[o], m)
    BY <2>2
  <2>5. f \in Iv /\ In(val[w], f)
    BY <2>1, <2>3, <2>4, InvMulConstSound
  <2> QED BY <2>1, <2>5 DEF w, f, d
<1>11. d.op \in {"add", "sub", "neg", "mul"}
  BY <1>4 DEF Narrowed
<1> QED BY <1>5, <1>6, <1>7, <1>8, <1>9, <1>10, <1>11

\* A level: the value's fact is met, and its operands' by the inverse.
LEMMA LevelKeeps ==
  ASSUME Program(def, fs, val), NEW B, Keeps(B)
  PROVE  Keeps(Level(B))
<1> SUFFICES ASSUME NEW v \in Values, NEW z \in Iv, NEW st \in States, Kept(st), In(val[v], z)
             PROVE  Kept(Level(B)[v][z][st])
  BY DEF Keeps
<1> DEFINE m == MeetIV(st.facts[v], z)
           d == def[v]
           s0 == Met(v, z, st)
           operand == [i \in {1, 2} |-> [s \in States |->
             IF i \in Narrowed(d)
             THEN B[IF i = 1 THEN d.x ELSE d.y][Inverse(d, m, i, s.facts)][s] ELSE s]]
           out == Level(B)[v][z][st]
<1>1. CASE m = st.facts[v]
  <2>1. out = st
    BY <1>1 DEF Level
  <2> QED BY <2>1
<1>2. CASE m # st.facts[v]
  <2>1. Kept(s0) /\ m \in Iv /\ In(val[v], m)
    BY MetKept DEF Fact
  <2>2. ASSUME NEW i \in {1, 2}, NEW s, Kept(s)
        PROVE  operand[i][s] \in States /\ Kept(operand[i][s])
    <3> DEFINE w == IF i = 1 THEN d.x ELSE d.y
    <3>1. s \in States
      BY <2>2, KeptFields
    <3>2. CASE i \in Narrowed(d)
      <4>1. operand[i][s] = B[w][Inverse(d, m, i, s.facts)][s]
        BY <3>1, <3>2
      <4> HIDE DEF operand, m
      <4>2. w \in Values /\ Inverse(d, m, i, s.facts) \in Iv /\ In(val[w], Inverse(d, m, i, s.facts))
        BY <2>1, <2>2, <3>2, InverseHolds
      <4> HIDE DEF w, d
      <4>3. Kept(B[w][Inverse(d, m, i, s.facts)][s])
        BY <2>2, <3>1, <4>2 DEF Keeps
      <4> QED BY <4>1, <4>3, KeptFields
    <3>3. CASE i \notin Narrowed(d)
      <4>1. operand[i][s] = s
        BY <3>1, <3>3
      <4> QED BY <2>2, <3>1, <4>1
    <3> QED BY <3>2, <3>3
  <2>3. out = operand[2][operand[1][s0]]
    BY <1>2 DEF Level, Met
  <2> HIDE DEF out, operand, s0
  <2>4. Kept(operand[1][s0])
    BY <2>1, <2>2
  <2>5. Kept(operand[2][operand[1][s0]])
    BY <2>2, <2>4
  <2> QED BY <2>3, <2>5 DEF out
<1> QED BY <1>1, <1>2

\* So does back, to its depth.
LEMMA BackKeeps ==
  ASSUME Program(def, fs, val)
  PROVE  Keeps(Back)
<1> DEFINE L1 == Level(BelowDepth)
           L2 == Level(L1)
           L3 == Level(L2)
           L4 == Level(L3)
           Law(h) == [n \in 0 .. 4 |-> IF n = 0 THEN BelowDepth ELSE Level(h[n - 1])]
           level == CHOOSE h : h = Law(h)
           h0 == [n \in 0 .. 4 |-> IF n = 0 THEN BelowDepth ELSE IF n = 1 THEN L1
                                   ELSE IF n = 2 THEN L2 ELSE IF n = 3 THEN L3 ELSE L4]
<1>1. Back = level[4]
  BY DEF Back
<1>2. h0 = Law(h0)
  <2>1. h0[0] = BelowDepth /\ h0[1] = L1 /\ h0[2] = L2 /\ h0[3] = L3 /\ h0[4] = L4
    OBVIOUS
  <2>2. \A n \in 0 .. 4 : n = 0 \/ n = 1 \/ n = 2 \/ n = 3 \/ n = 4
    OBVIOUS
  <2>3. \A n \in 0 .. 4 : h0[n] = Law(h0)[n]
    <3> SUFFICES ASSUME NEW n \in 0 .. 4 PROVE h0[n] = Law(h0)[n]
      OBVIOUS
    <3>1. Law(h0)[n] = IF n = 0 THEN BelowDepth ELSE Level(h0[n - 1])
      OBVIOUS
    <3> HIDE DEF h0, Law
    <3> QED BY <2>1, <2>2, <3>1
  <2> QED BY <2>3
<1> HIDE DEF h0
<1>3. level = Law(level)
  BY <1>2
<1> HIDE DEF level
<1>4. /\ level[0] = BelowDepth /\ level[1] = Level(level[0]) /\ level[2] = Level(level[1])
      /\ level[3] = Level(level[2]) /\ level[4] = Level(level[3])
  BY <1>3
<1>5. Keeps(level[0]) /\ Keeps(level[1])
  BY <1>4, BelowKeeps, LevelKeeps
<1>6. Keeps(level[2]) /\ Keeps(level[3])
  BY <1>4, <1>5, LevelKeeps
<1> QED BY <1>1, <1>4, <1>6, LevelKeeps

\* A relation and its mirror hold together.
LEMMA FlipHolds ==
  ASSUME NEW rel \in Rels, NEW x \in Int, NEW y \in Int, Holds(x, rel, y)
  PROVE  Flip(rel) \in Rels /\ Holds(y, Flip(rel), x)
BY DEF Rels, Flip, Holds

\* A comparison that holds narrows both of its operands.
LEMMA CondKeeps ==
  ASSUME Program(def, fs, val), NEW g \in Comparisons, NEW st, Kept(st),
         Holds(val[g.x], g.rel, val[g.y])
  PROVE  Kept(Cond(g, st))
<1> DEFINE y1 == NarrowIV(st.facts[g.x], g.rel, st.facts[g.y])
           s1 == Back[g.x][y1][st]
           y2 == NarrowIV(s1.facts[g.y], Flip(g.rel), s1.facts[g.x])
<1>1. /\ g.x \in Values /\ g.y \in Values /\ g.rel \in Rels
      /\ val[g.x] \in Int /\ val[g.y] \in Int
  BY DEF Comparisons, Program, Values
<1>2. y1 \in Iv /\ In(val[g.x], y1)
  BY <1>1, KeptFields, NarrowSound, NarrowType
<1>3. Kept(s1)
  <2> HIDE DEF y1
  <2> QED BY <1>1, <1>2, BackKeeps, KeptFields DEF Keeps
<1>4. Cond(g, st) = Back[g.y][y2][s1]
  BY DEF Cond
<1> HIDE DEF s1
<1>5. y2 \in Iv /\ In(val[g.y], y2)
  <2>1. Flip(g.rel) \in Rels /\ Holds(val[g.y], Flip(g.rel), val[g.x])
    BY <1>1, FlipHolds
  <2> QED BY <1>1, <1>3, <2>1, KeptFields, NarrowSound, NarrowType
<1> HIDE DEF y2
<1> QED BY <1>1, <1>3, <1>4, <1>5, BackKeeps, KeptFields DEF Keeps

-----------------------------------------------------------------------------
(* Statements.                                                             *)

\* What is asked of the operations beyond the ring's: where one runs, facts of
\* its operands give a fact of its result.
OthersSound ==
  \A op \in OtherOps, x \in Int, y \in Int : \A a, b :
    Fact(a, x) /\ Fact(b, y) /\ OtherDefined(op, x, y) =>
      /\ OtherSemantics(op, x, y) \in Int
      /\ Fact(OtherTransfer(op, a, b), OtherSemantics(op, x, y))

\* The operations are one of the ring's or another, never both.
LEMMA OpKinds ==
  ASSUME NEW op \in Ops
  PROVE  /\ op \in RingOps \/ (op \in OtherOps /\ op \notin RingOps)
         /\ op \notin {"param", "const", "if"}
BY RegionAssumption DEF RingOps

\* The statements a program is built of.
LEMMA Basics ==
  ASSUME Program(def, fs, val), NEW x \in Values
  PROVE  /\ x \in 1 .. Len(def) /\ Len(def) \in Nat /\ val[x] \in Int
         /\ Fact(fs[x], val[x]) /\ fs[x] \in Iv /\ In(val[x], fs[x])
BY DEF Program, FactsOf, Values, Fact

\* The fact of a difference, met with what each operand says of the other.
LEMMA RelSubFact ==
  ASSUME Program(def, fs, val), NEW x \in Values, NEW y \in Values, NEW r, Fact(r, val[x] - val[y])
  PROVE  Fact(RelSub(x, y, r), val[x] - val[y])
<1> DEFINE dx == Delta(y, def, fs)[x]
           dy == Delta(x, def, fs)[y]
           z == val[x] - val[y]
           viaX == IF dx.bot \/ dx = Top THEN r ELSE MeetIV(r, dx)
<1>1. val[x] \in Int /\ val[y] \in Int /\ z \in Int
  BY Basics
<1>2. dx \in Iv /\ In(z, dx)
  BY DeltaSound, Basics
<1>3. dy \in Iv /\ In(val[y] - val[x], dy)
  BY DeltaSound, Basics
<1>4. NegIV(dy) \in Iv /\ In(z, NegIV(dy))
  <2>1. val[y] - val[x] \in Int /\ -(val[y] - val[x]) = z
    BY <1>1
  <2> QED BY <1>3, <2>1, NegSound
<1>5. RelSub(x, y, r) = IF r.bot \/ (Finite(r) /\ r.lo = r.hi) THEN r
                        ELSE IF dy.bot \/ dy = Top THEN viaX ELSE MeetIV(viaX, NegIV(dy))
  BY DEF RelSub
<1> HIDE DEF dx, dy, z
<1>6. Fact(r, z)
  BY DEF z
<1>7. Fact(viaX, z)
  BY <1>1, <1>2, <1>6, MeetFact DEF Fact
<1>8. Fact(MeetIV(viaX, NegIV(dy)), z)
  <2> HIDE DEF viaX
  <2> QED BY <1>1, <1>4, <1>7, MeetFact DEF Fact
<1> HIDE DEF viaX
<1>9. Fact(RelSub(x, y, r), z)
  BY <1>5, <1>6, <1>7, <1>8
<1> QED BY <1>9 DEF z

\* A statement's fact is one of what it computes.
LEMMA TransferFact ==
  ASSUME OthersSound, Program(def, fs, val), NEW op \in Ops, NEW x \in Values, NEW y \in Values,
         Defined(op, val[x], val[y])
  PROVE  /\ Semantics(op, val[x], val[y]) \in Int
         /\ Fact(Transfer(op, x, y), Semantics(op, val[x], val[y]))
<1> DEFINE a == fs[x]
           b == fs[y]
           u == val[x]
           v == val[y]
<1>1. u \in Int /\ v \in Int /\ Fact(a, u) /\ Fact(b, v)
  BY Basics
<1>2. CASE op = "add"
  <2>1. Transfer(op, x, y) = AddIV(a, b) /\ Semantics(op, u, v) = u + v
    BY <1>2 DEF Transfer, Semantics
  <2> HIDE DEF a, b, u, v
  <2> QED BY <1>1, <2>1, AddFact DEF u, v
<1>3. CASE op = "sub"
  <2>1. Transfer(op, x, y) = RelSub(x, y, SubIV(a, b)) /\ Semantics(op, u, v) = u - v
    BY <1>3 DEF Transfer, Semantics
  <2>2. Fact(SubIV(a, b), u - v)
    <3> HIDE DEF a, b, u, v
    <3> QED BY <1>1, SubFact
  <2>3. Fact(RelSub(x, y, SubIV(a, b)), u - v)
    BY <2>2, RelSubFact
  <2> QED BY <1>1, <2>1, <2>3
<1>4. CASE op = "mul"
  <2>1. Transfer(op, x, y) = MulIV(a, b) /\ Semantics(op, u, v) = u * v
    BY <1>4 DEF Transfer, Semantics
  <2> HIDE DEF a, b, u, v
  <2>2. Fact(MulIV(a, b), u * v) /\ u * v \in Int
    BY <1>1, MulFact, TimesCommutes
  <2> QED BY <2>1, <2>2 DEF u, v
<1>5. CASE op = "neg"
  <2>1. Transfer(op, x, y) = NegIV(a) /\ Semantics(op, u, v) = -u
    BY <1>5 DEF Transfer, Semantics
  <2> HIDE DEF a, b, u, v
  <2>2. Fact(NegIV(a), -u) /\ -u \in Int
    BY <1>1, NegFact
  <2> QED BY <2>1, <2>2 DEF u, v
<1>6. CASE op = "div"
  <2>1. Transfer(op, x, y) = DivIV(a, b) /\ Semantics(op, u, v) = Quo(u, v) /\ v # 0
    BY <1>6 DEF Transfer, Semantics, Defined
  <2> HIDE DEF a, b, u, v
  <2>2. Fact(DivIV(a, b), Quo(u, v)) /\ Quo(u, v) \in Int
    BY <1>1, <2>1, DivFact, QuoCases
  <2> QED BY <2>1, <2>2 DEF u, v
<1>7. CASE op = "rem"
  <2>1. Transfer(op, x, y) = RemIV(a, b) /\ Semantics(op, u, v) = Rem(u, v) /\ v # 0
    BY <1>7 DEF Transfer, Semantics, Defined
  <2> HIDE DEF a, b, u, v
  <2>2. Fact(RemIV(a, b), Rem(u, v))
    BY <1>1, <2>1, RemFact
  <2>3. Rem(u, v) \in Int
    <3>1. Quo(u, v) \in Int
      BY <1>1, <2>1, QuoCases
    <3>2. v * Quo(u, v) \in Int
      BY <1>1, <3>1, TimesCommutes
    <3> QED BY <1>1, <3>2 DEF Rem
  <2> QED BY <2>1, <2>2, <2>3 DEF u, v
<1>8. CASE op = "mod"
  <2>1. Transfer(op, x, y) = ModZ(a, b) /\ Semantics(op, u, v) = u % v /\ v > 0
    BY <1>8 DEF Transfer, Semantics, Defined
  <2> HIDE DEF a, b, u, v
  <2>2. Fact(ModZ(a, b), u % v) /\ u % v \in Int
    BY <1>1, <2>1, ModFact
  <2> QED BY <2>1, <2>2 DEF u, v
<1>9. CASE op \in OtherOps /\ op \notin RingOps
  <2>1. /\ Transfer(op, x, y) = OtherTransfer(op, a, b)
        /\ Semantics(op, u, v) = OtherSemantics(op, u, v)
        /\ OtherDefined(op, u, v)
    BY <1>9 DEF Transfer, Semantics, Defined, RingOps
  <2> HIDE DEF a, b, u, v
  <2>2. /\ OtherSemantics(op, u, v) \in Int
        /\ Fact(OtherTransfer(op, a, b), OtherSemantics(op, u, v))
    BY <1>1, <1>9, <2>1 DEF OthersSound
  <2> QED BY <2>1, <2>2 DEF u, v
<1> QED BY <1>2, <1>3, <1>4, <1>5, <1>6, <1>7, <1>8, <1>9, OpKinds DEF RingOps

\* The definition e computes z from the values w.
Computes(e, w, z) ==
  /\ e.op \in {"add", "sub", "mul"} => e.x \in 1 .. Len(w) /\ e.y \in 1 .. Len(w)
  /\ e.op = "neg" => e.x \in 1 .. Len(w)
  /\ e.op = "add" => z = w[e.x] + w[e.y]
  /\ e.op = "sub" => z = w[e.x] - w[e.y]
  /\ e.op = "mul" => z = w[e.x] * w[e.y]
  /\ e.op = "neg" => z = -w[e.x]
  /\ e.op = "const" => e.x = z

\* A program with one more definition.
LEMMA ProgramAppend ==
  ASSUME NEW d, NEW f, NEW w, Program(d, f, w), NEW e \in Definitions, NEW a, NEW z \in Int,
         Fact(a, z), Computes(e, w, z)
  PROVE  Program(Append(d, e), Append(f, a), Append(w, z))
<1> DEFINE n == Len(d)
           d1 == Append(d, e)
           f1 == Append(f, a)
           w1 == Append(w, z)
<1>1. n \in Nat /\ Len(w) = n /\ Len(f) = n /\ d \in Seq(Definitions) /\ f \in Seq(Iv) /\ w \in Seq(Int)
  BY DEF Program
<1>2. a \in Iv
  BY DEF Fact
<1>3. /\ d1 \in Seq(Definitions) /\ Len(d1) = n + 1 /\ d1[n + 1] = e /\ \A i \in 1 .. n : d1[i] = d[i]
      /\ f1 \in Seq(Iv) /\ Len(f1) = n + 1 /\ f1[n + 1] = a /\ \A i \in 1 .. n : f1[i] = f[i]
      /\ w1 \in Seq(Int) /\ Len(w1) = n + 1 /\ w1[n + 1] = z /\ \A i \in 1 .. n : w1[i] = w[i]
  BY <1>1, <1>2
<1> HIDE DEF d1, f1, w1
<1>4. FactsOf(f1, w1)
  <2>1. ASSUME NEW v \in 1 .. n + 1 PROVE Fact(f1[v], w1[v])
    <3>1. v = n + 1 \/ v \in 1 .. n
      BY <1>1
    <3> QED BY <1>1, <1>3, <3>1 DEF Program, FactsOf
  <2> QED BY <1>1, <1>3, <2>1 DEF FactsOf
<1>5. ASSUME NEW v \in 1 .. n + 1
      PROVE  /\ d1[v].op \in {"add", "sub", "mul"} => d1[v].x \in 1 .. v - 1 /\ d1[v].y \in 1 .. v - 1
             /\ d1[v].op = "neg" => d1[v].x \in 1 .. v - 1
             /\ d1[v].op = "add" => w1[v] = w1[d1[v].x] + w1[d1[v].y]
             /\ d1[v].op = "sub" => w1[v] = w1[d1[v].x] - w1[d1[v].y]
             /\ d1[v].op = "mul" => w1[v] = w1[d1[v].x] * w1[d1[v].y]
             /\ d1[v].op = "neg" => w1[v] = -w1[d1[v].x]
             /\ d1[v].op = "const" => d1[v].x = w1[v]
  <2>1. CASE v = n + 1
    <3>1. (n + 1) - 1 = n
      BY <1>1
    <3> QED BY <1>1, <1>3, <2>1, <3>1 DEF Computes
  <2>2. CASE v # n + 1
    <3>1. v \in 1 .. n /\ \A u \in 1 .. v - 1 : u \in 1 .. n
      BY <1>1, <2>2
    <3>2. d1[v] = d[v] /\ w1[v] = w[v] /\ \A u \in 1 .. v - 1 : w1[u] = w[u]
      BY <1>3, <3>1
    <3> QED BY <3>1, <3>2 DEF Program, Explained
  <2> QED BY <2>1, <2>2
<1>6. Explained(d1, w1)
  BY <1>3, <1>5 DEF Explained
<1> QED BY <1>3, <1>4, <1>6 DEF Program, d1, f1, w1

\* The first n definitions of a program.
LEMMA ProgramPrefix ==
  ASSUME NEW d, NEW f, NEW w, Program(d, f, w), NEW g, FactsOf(g, w)
  PROVE  Program(SubSeq(d, 1, Len(g)), g, SubSeq(w, 1, Len(g)))
<1> DEFINE n == Len(g)
           d1 == SubSeq(d, 1, n)
           w1 == SubSeq(w, 1, n)
<1>1. /\ n \in Nat /\ Len(w) = Len(d) /\ n <= Len(d) /\ Len(d) \in Nat
      /\ d \in Seq(Definitions) /\ w \in Seq(Int) /\ g \in Seq(Iv)
  BY DEF Program, FactsOf
<1>2. /\ d1 \in Seq(Definitions) /\ Len(d1) = n /\ \A i \in 1 .. n : d1[i] = d[i]
      /\ w1 \in Seq(Int) /\ Len(w1) = n /\ \A i \in 1 .. n : w1[i] = w[i]
  BY <1>1
<1> HIDE DEF d1, w1
<1>3. FactsOf(g, w1)
  BY <1>1, <1>2 DEF FactsOf
<1>4. Explained(d1, w1)
  <2> SUFFICES ASSUME NEW v \in 1 .. n
               PROVE  /\ d1[v].op \in {"add", "sub", "mul"} => d1[v].x \in 1 .. v - 1 /\ d1[v].y \in 1 .. v - 1
                      /\ d1[v].op = "neg" => d1[v].x \in 1 .. v - 1
                      /\ d1[v].op = "add" => w1[v] = w1[d1[v].x] + w1[d1[v].y]
                      /\ d1[v].op = "sub" => w1[v] = w1[d1[v].x] - w1[d1[v].y]
                      /\ d1[v].op = "mul" => w1[v] = w1[d1[v].x] * w1[d1[v].y]
                      /\ d1[v].op = "neg" => w1[v] = -w1[d1[v].x]
                      /\ d1[v].op = "const" => d1[v].x = w1[v]
    BY <1>2 DEF Explained
  <2>1. v \in 1 .. Len(d) /\ \A u \in 1 .. v - 1 : u \in 1 .. n
    BY <1>1
  <2>2. d1[v] = d[v] /\ w1[v] = w[v] /\ \A u \in 1 .. v - 1 : w1[u] = w[u]
    BY <1>2, <2>1
  <2> QED BY <2>1, <2>2 DEF Program, Explained
<1> QED BY <1>1, <1>2, <1>3, <1>4 DEF Program, d1, w1

-----------------------------------------------------------------------------
(* The invariant.                                                          *)

Arms == [saved : Seq(Saves), before : Seq(Iv), atoms : 0 .. MaxAtoms]

\* The facts in force inside the k-th arm, outside the arm it holds if any.
Inside(k) == IF k = Len(arms) THEN fs ELSE arms[k + 1].before

\* The facts outside an arm are still facts of their values, and its saved facts
\* put them back.
ArmOK(arm, now) == FactsOf(arm.before, val) /\ Undoes(arm.saved, now, arm.before)

RegionInv ==
  /\ Program(def, fs, val)
  /\ arms \in Seq(Arms)
  /\ \A k \in 1 .. Len(arms) : ArmOK(arms[k], Inside(k))
  /\ \A j, k \in 1 .. Len(arms) : j <= k => Len(arms[j].before) <= Len(arms[k].before)

\* An arm by its fields.
LEMMA ArmFields ==
  ASSUME RegionInv, NEW k \in 1 .. Len(arms)
  PROVE  /\ arms[k] \in Arms
         /\ arms[k].saved \in Seq(Saves) /\ arms[k].before \in Seq(Iv)
         /\ arms[k].atoms \in 0 .. MaxAtoms
         /\ Len(arms[k].before) \in Nat /\ Len(arms[k].before) <= Len(fs)
         /\ \A v \in 1 .. Len(arms[k].before) : Fact(arms[k].before[v], val[v])
<1>1. arms[k] \in Arms
  BY DEF RegionInv
<1>2. ArmOK(arms[k], Inside(k)) /\ Len(fs) = Len(val)
  BY DEF RegionInv, Program
<1>3. arms[k].saved \in Seq(Saves) /\ arms[k].before \in Seq(Iv) /\ arms[k].atoms \in 0 .. MaxAtoms
  BY <1>1 DEF Arms
<1> QED BY <1>1, <1>2, <1>3 DEF ArmOK, FactsOf

\* What is put back does not read the facts of later values.
LEMMA UndoesSame ==
  ASSUME NEW saved, NEW now, NEW later, NEW before, Undoes(saved, now, before),
         \A v \in 1 .. Len(before) : later[v] = now[v]
  PROVE  Undoes(saved, later, before)
BY DEF Undoes

\* Facts of values are facts of any values that begin with them.
LEMMA FactsOfSame ==
  ASSUME NEW f, NEW w, NEW u, FactsOf(f, w), Len(f) <= Len(u), \A v \in 1 .. Len(f) : u[v] = w[v]
  PROVE  FactsOf(f, u)
BY DEF FactsOf

\* The invariant says what the properties say.
LEMMA InvProperties ==
  ASSUME RegionInv
  PROVE  TypeOK /\ Sound /\ CanonicalFacts
<1>1. Len(fs) = Len(def) /\ Len(val) = Len(def) /\ Len(def) \in Nat
  BY DEF RegionInv, Program
<1>2. \A v \in Values : Fact(fs[v], val[v]) /\ val[v] \in Int
  BY <1>1 DEF RegionInv, Program, FactsOf, Values
<1>3. Atoms <= MaxAtoms
  <2>1. CASE arms = <<>>
    BY <2>1, RegionAssumption DEF Atoms
  <2>2. CASE arms # <<>>
    <3>1. Len(arms) \in 1 .. Len(arms)
      BY <2>2 DEF RegionInv
    <3>2. arms[Len(arms)].atoms \in 0 .. MaxAtoms
      BY <3>1, ArmFields
    <3> QED BY <2>2, <3>2, RegionAssumption DEF Atoms
  <2> QED BY <2>1, <2>2
<1>4. TypeOK
  BY <1>1, <1>2, <1>3 DEF TypeOK, Fact
<1>5. Sound /\ \A v \in Values : Canonical(fs[v])
  BY <1>2 DEF Sound, Fact
<1> QED BY <1>4, <1>5 DEF CanonicalFacts

\* At the start.
LEMMA InitRegionInv == Init => RegionInv
<1> SUFFICES ASSUME Init PROVE RegionInv
  OBVIOUS
<1> DEFINE p == [op |-> "param", x |-> 0, y |-> 0]
<1>1. NParams \in Nat /\ Inputs \subseteq Iv /\ Args \subseteq Int /\ \A a \in Inputs : Canonical(a)
  BY RegionAssumption
<1>2. p \in Definitions
  BY DEF Definitions
<1>3. /\ def = [i \in 1 .. NParams |-> p] /\ fs \in [1 .. NParams -> Inputs]
      /\ val \in [1 .. NParams -> Args] /\ arms = <<>>
      /\ \A i \in 1 .. NParams : In(val[i], fs[i])
  BY DEF Init
<1>4. def \in Seq(Definitions) /\ Len(def) = NParams
  BY <1>1, <1>2, <1>3
<1>5. fs \in Seq(Iv) /\ Len(fs) = NParams
  BY <1>1, <1>3
<1>6. val \in Seq(Int) /\ Len(val) = NParams
  <2>1. val \in [1 .. NParams -> Int]
    BY <1>1, <1>3
  <2> QED BY <1>1, <2>1
<1>7. FactsOf(fs, val)
  <2>1. \A i \in 1 .. NParams : Fact(fs[i], val[i])
    BY <1>1, <1>3 DEF Fact
  <2> QED BY <1>1, <1>5, <1>6, <2>1 DEF FactsOf
<1>8. Explained(def, val)
  <2>1. \A v \in 1 .. Len(def) : def[v].op = "param"
    BY <1>3, <1>4
  <2> QED BY <2>1 DEF Explained
<1>9. arms \in Seq(Arms) /\ Len(arms) = 0
  BY <1>3
<1> QED BY <1>4, <1>5, <1>6, <1>7, <1>8, <1>9 DEF RegionInv, Program

\* One more definition, with its fact and its value.
LEMMA DefineInv ==
  ASSUME RegionInv, NEW e \in Definitions, NEW a, NEW z \in Int, Fact(a, z), Computes(e, val, z),
         Define(e, a, z), UNCHANGED arms
  PROVE  RegionInv'
<1>1. def' = Append(def, e) /\ fs' = Append(fs, a) /\ val' = Append(val, z) /\ arms' = arms
  BY DEF Define
<1>2. Program(def, fs, val)
  BY DEF RegionInv
<1>3. Program(def', fs', val')
  BY <1>1, <1>2, ProgramAppend
<1>4. /\ fs \in Seq(Iv) /\ val \in Seq(Int) /\ Len(val) = Len(fs) /\ Len(fs) \in Nat
      /\ a \in Iv
  BY <1>2 DEF Program, Fact
<1>5. /\ Len(val') = Len(val) + 1
      /\ \A v \in 1 .. Len(fs) : fs'[v] = fs[v] /\ val'[v] = val[v]
  BY <1>1, <1>4
<1>6. ASSUME NEW k \in 1 .. Len(arms) PROVE ArmOK(arms[k], Inside(k))'
  <2>1. /\ Len(arms[k].before) \in Nat /\ Len(arms[k].before) <= Len(fs)
        /\ FactsOf(arms[k].before, val) /\ Undoes(arms[k].saved, Inside(k), arms[k].before)
    BY ArmFields DEF RegionInv, ArmOK
  <2>2. \A v \in 1 .. Len(arms[k].before) : v \in 1 .. Len(fs)
    BY <1>4, <2>1
  <2>3. FactsOf(arms[k].before, val')
    <3>1. Len(arms[k].before) <= Len(val') /\ \A v \in 1 .. Len(arms[k].before) : val'[v] = val[v]
      BY <1>4, <1>5, <2>1, <2>2
    <3> QED BY <2>1, <3>1, FactsOfSame
  <2>4. \A v \in 1 .. Len(arms[k].before) : Inside(k)'[v] = Inside(k)[v]
    BY <1>1, <1>5, <2>2 DEF Inside
  <2>5. Undoes(arms[k].saved, Inside(k)', arms[k].before)
    BY <2>1, <2>4, UndoesSame
  <2> QED BY <1>1, <2>3, <2>5 DEF ArmOK
<1> QED BY <1>1, <1>3, <1>6 DEF RegionInv

\* A literal.
LEMMA ConstInv ==
  ASSUME RegionInv, NEW k \in Literals, Const(k)
  PROVE  RegionInv'
<1> DEFINE e == [op |-> "const", x |-> k, y |-> 0]
<1>1. k \in E /\ k \in Int
  BY RegionAssumption, EndsAreIntegers
<1>2. e \in Definitions /\ Computes(e, val, k)
  BY <1>1 DEF Definitions, Computes
<1>3. Fact(Exact(k), k)
  BY <1>1, ExactFact
<1>4. Define(e, Exact(k), k) /\ UNCHANGED arms
  BY DEF Const
<1> HIDE DEF e
<1> QED BY <1>1, <1>2, <1>3, <1>4, DefineInv

\* A statement.
LEMMA StmtInv ==
  ASSUME OthersSound, RegionInv, NEW op \in Ops, NEW x \in Values, NEW y \in Values, Stmt(op, x, y)
  PROVE  RegionInv'
<1> DEFINE e == [op |-> op, x |-> x, y |-> y]
           z == Semantics(op, val[x], val[y])
           a == Transfer(op, x, y)
<1>1. Program(def, fs, val)
  BY DEF RegionInv
<1>2. /\ x \in 1 .. Len(def) /\ y \in 1 .. Len(def) /\ x \in Int /\ y \in Int
      /\ Len(val) = Len(def)
  BY <1>1 DEF Values, Program
<1>3. z \in Int /\ Fact(a, z)
  <2>1. Defined(op, val[x], val[y])
    BY DEF Stmt
  <2> QED BY <1>1, <2>1, TransferFact
<1>4. e \in Definitions
  BY <1>2 DEF Definitions
<1>5. Computes(e, val, z)
  BY <1>2, OpKinds DEF Computes, Semantics
<1>6. Define(e, a, z) /\ UNCHANGED arms
  BY DEF Stmt
<1> HIDE DEF e, z, a
<1> QED BY <1>3, <1>4, <1>5, <1>6, DefineInv

\* An arm that is entered.
LEMMA EnterInv ==
  ASSUME RegionInv, NEW gs \in Seq(Comparisons), Len(gs) \in {1, 2}, Enter(gs)
  PROVE  RegionInv'
<1> DEFINE s0 == [facts |-> fs, saved |-> <<>>]
           s1 == Cond(gs[1], s0)
           s2 == IF Len(gs) = 2 THEN Cond(gs[2], s1) ELSE s1
           arm == [saved |-> s2.saved, before |-> fs, atoms |-> Atoms + Len(gs)]
           n == Len(arms)
<1>1. /\ fs' = s2.facts /\ arms' = Append(arms, arm) /\ def' = def /\ val' = val
      /\ \A i \in 1 .. Len(gs) : Holds(val[gs[i].x], gs[i].rel, val[gs[i].y])
      /\ Atoms + Len(gs) <= MaxAtoms
  BY DEF Enter
<1>2. Program(def, fs, val) /\ fs \in Seq(Iv) /\ Len(fs) = Len(def) /\ Len(def) \in Nat
      /\ arms \in Seq(Arms) /\ n \in Nat
  BY DEF RegionInv, Program
<1>3. Kept(s0)
  <2>1. s0 \in States
    BY <1>2 DEF States
  <2>2. \A v \in Values : Fact(s0.facts[v], val[v])
    BY <1>2, Basics
  <2>3. s0.facts = fs /\ s0.saved = <<>> /\ Len(s0.saved) = 0
    OBVIOUS
  <2> HIDE DEF s0
  <2>4. Undoes(s0.saved, s0.facts, fs)
    BY <2>3 DEF Undoes
  <2> QED BY <1>2, <2>1, <2>2, <2>3, <2>4 DEF Kept
<1> HIDE DEF s0
<1>4. Kept(s1)
  <2>1. gs[1] \in Comparisons /\ 1 \in 1 .. Len(gs)
    OBVIOUS
  <2> QED BY <1>1, <1>2, <1>3, <2>1, CondKeeps
<1> HIDE DEF s1
<1>5. Kept(s2)
  <2>1. CASE Len(gs) = 2
    <3>1. gs[2] \in Comparisons /\ 2 \in 1 .. Len(gs)
      BY <2>1
    <3> QED BY <1>1, <1>2, <1>4, <2>1, <3>1, CondKeeps
  <2>2. CASE Len(gs) # 2
    BY <1>4, <2>2
  <2> QED BY <2>1, <2>2
<1> HIDE DEF s2
<1>6. /\ s2.facts \in Seq(Iv) /\ s2.saved \in Seq(Saves) /\ Len(s2.facts) = Len(def)
      /\ \A v \in Values : Fact(s2.facts[v], val[v])
      /\ Undoes(s2.saved, s2.facts, fs)
  BY <1>5, KeptFields DEF Kept
<1>7. Program(def', fs', val')
  <2>1. FactsOf(s2.facts, val)
    BY <1>2, <1>6 DEF FactsOf, Program, Values
  <2> QED BY <1>1, <1>2, <1>6, <2>1 DEF Program
<1>8. Atoms \in 0 .. MaxAtoms
  <2>1. CASE arms = <<>>
    BY <2>1, RegionAssumption DEF Atoms
  <2>2. CASE arms # <<>>
    <3>1. Len(arms) \in 1 .. Len(arms)
      BY <1>2, <2>2
    <3> QED BY <2>2, <3>1, ArmFields DEF Atoms
  <2> QED BY <2>1, <2>2
<1>9. arm \in Arms
  <2>1. Atoms + Len(gs) \in 0 .. MaxAtoms
    BY <1>1, <1>8, RegionAssumption
  <2> HIDE DEF Atoms
  <2> QED BY <1>2, <1>6, <2>1 DEF Arms
<1>10. arm.before = fs /\ arm.saved = s2.saved
  OBVIOUS
<1> HIDE DEF arm
<1>11. /\ arms' \in Seq(Arms) /\ Len(arms') = n + 1 /\ arms'[n + 1] = arm
       /\ \A k \in 1 .. n : arms'[k] = arms[k]
  BY <1>1, <1>2, <1>9
<1>12. ASSUME NEW k \in 1 .. n + 1 PROVE ArmOK(arms[k], Inside(k))'
  <2>1. CASE k = n + 1
    <3>1. arms'[k] = arm /\ Inside(k)' = s2.facts
      BY <1>1, <1>11, <2>1 DEF Inside
    <3>2. FactsOf(fs, val)
      BY <1>2 DEF Program
    <3> QED BY <1>1, <1>6, <1>10, <3>1, <3>2 DEF ArmOK
  <2>2. CASE k # n + 1
    <3>1. k \in 1 .. n /\ k + 1 \in 1 .. n + 1
      BY <1>2, <2>2
    <3>2. Inside(k)' = arms'[k + 1].before
      BY <1>2, <1>11, <2>2 DEF Inside
    <3>3. Inside(k)' = Inside(k)
      <4>1. CASE k = n
        BY <1>10, <1>11, <3>2, <4>1 DEF Inside
      <4>2. CASE k # n
        <5>1. k + 1 \in 1 .. n
          BY <1>2, <3>1, <4>2
        <5> QED BY <1>11, <3>2, <4>2, <5>1 DEF Inside
      <4> QED BY <4>1, <4>2
    <3>4. arms'[k] = arms[k] /\ ArmOK(arms[k], Inside(k))
      BY <1>11, <3>1 DEF RegionInv
    <3> QED BY <1>1, <3>3, <3>4 DEF ArmOK
  <2> QED BY <2>1, <2>2
<1>13. ASSUME NEW j \in 1 .. n + 1, NEW k \in 1 .. n + 1, j <= k
       PROVE  Len(arms'[j].before) <= Len(arms'[k].before)
  <2>1. CASE k = n + 1 /\ j = n + 1
    BY <1>2, <1>10, <1>11, <2>1
  <2>2. CASE k = n + 1 /\ j # n + 1
    <3>1. j \in 1 .. n
      BY <1>2, <2>2
    <3> QED BY <1>10, <1>11, <2>2, <3>1, ArmFields
  <2>3. CASE k # n + 1
    <3>1. j \in 1 .. n /\ k \in 1 .. n
      BY <1>2, <1>13, <2>3
    <3> QED BY <1>11, <1>13, <3>1 DEF RegionInv
  <2> QED BY <2>1, <2>2, <2>3
<1> QED BY <1>7, <1>11, <1>12, <1>13 DEF RegionInv

\* An arm that is left: the facts outside it are as they were.
LEMMA LeaveInv ==
  ASSUME RegionInv, NEW y \in Values, NEW other \in Inputs \cup {Bot}, Leave(y, other)
  PROVE  /\ RegionInv'
         /\ \A v \in DOMAIN arms[Len(arms)].before : fs'[v] = arms[Len(arms)].before[v]
<1> DEFINE m == Len(arms)
           arm == arms[m]
           n == Len(arm.before)
           r == Restore(arm.saved, fs)
           e == [op |-> "if", x |-> 0, y |-> 0]
           a == JoinIV(fs[y], other)
           d1 == SubSeq(def, 1, n)
           w1 == SubSeq(val, 1, n)
<1>1. /\ def' = Append(d1, e) /\ fs' = Append(SubSeq(r, 1, n), a)
      /\ val' = Append(w1, val[y]) /\ arms' = SubSeq(arms, 1, m - 1)
      /\ arms # <<>>
  BY DEF Leave
<1>2. /\ Program(def, fs, val) /\ arms \in Seq(Arms) /\ fs \in Seq(Iv) /\ Len(fs) \in Nat
      /\ Len(val) = Len(fs) /\ Len(def) = Len(fs)
  BY DEF RegionInv, Program
<1>3. m \in Nat /\ m \in 1 .. m
  BY <1>1, <1>2
<1>4. /\ arm.saved \in Seq(Saves) /\ arm.before \in Seq(Iv) /\ n \in Nat /\ n <= Len(fs)
      /\ FactsOf(arm.before, val) /\ Undoes(arm.saved, fs, arm.before)
  BY <1>3, ArmFields DEF RegionInv, ArmOK, Inside
<1>5. r \in [1 .. Len(fs) -> Iv] /\ \A v \in 1 .. n : r[v] = arm.before[v]
  BY <1>2, <1>4, RestoreFacts
<1> HIDE DEF r
<1>6. SubSeq(r, 1, n) = arm.before
  <2>1. r \in Seq(Iv) /\ Len(r) = Len(fs)
    BY <1>2, <1>5
  <2>2. /\ SubSeq(r, 1, n) \in Seq(Iv) /\ Len(SubSeq(r, 1, n)) = n
        /\ \A v \in 1 .. n : SubSeq(r, 1, n)[v] = r[v]
    BY <1>2, <1>4, <2>1
  <2> QED BY <1>4, <1>5, <2>2
<1>7. Program(d1, arm.before, w1)
  BY <1>2, <1>4, ProgramPrefix
<1>8. Fact(a, val[y]) /\ val[y] \in Int
  <2>1. other \in Iv /\ Canonical(other)
    <3>1. Bot \in Iv /\ Canonical(Bot)
      BY ConstantTypes, EndsAreIntegers DEF Canonical, Norm, Bot, Finite
    <3> QED BY <3>1, RegionAssumption
  <2>2. Fact(fs[y], val[y]) /\ val[y] \in Int
    BY <1>2, Basics
  <2> QED BY <2>1, <2>2, JoinFact
<1>9. e \in Definitions /\ Computes(e, w1, val[y])
  BY DEF Definitions, Computes
<1> HIDE DEF e, a, d1
<1>10. Program(def', fs', val')
  BY <1>1, <1>6, <1>7, <1>8, <1>9, ProgramAppend
<1>11. /\ Len(fs') = n + 1 /\ Len(val') = n + 1
       /\ \A v \in 1 .. n : fs'[v] = arm.before[v] /\ val'[v] = val[v]
  <2>1. w1 \in Seq(Int) /\ Len(w1) = n /\ a \in Iv
    BY <1>7, <1>8 DEF Program, Fact
  <2>2. \A v \in 1 .. n : w1[v] = val[v]
    BY <1>2, <1>4 DEF Program
  <2> HIDE DEF w1
  <2> QED BY <1>1, <1>4, <1>6, <1>8, <2>1, <2>2
<1>12. /\ arms' \in Seq(Arms) /\ Len(arms') = m - 1 /\ m - 1 \in Nat
       /\ \A k \in 1 .. m - 1 : arms'[k] = arms[k] /\ k \in 1 .. m
  <2>1. m - 1 \in Nat /\ m - 1 <= m /\ m = Len(arms)
    BY <1>3
  <2>2. \A k \in 1 .. m - 1 : k \in 1 .. m
    BY <1>3, <2>1
  <2> HIDE DEF m
  <2>3. arms' = SubSeq(arms, 1, m - 1)
    BY <1>1
  <2>4. \A k \in 1 .. m : arms[k] \in Arms
    BY <1>2, <2>1
  <2>5. SubSeq(arms, 1, m - 1) = [k \in 1 .. m - 1 |-> arms[k]]
    BY <1>2, <2>1
  <2>6. SubSeq(arms, 1, m - 1) \in [1 .. m - 1 -> Arms]
    BY <2>2, <2>4, <2>5
  <2>7. arms' = [k \in 1 .. m - 1 |-> arms[k]] /\ arms' \in [1 .. m - 1 -> Arms]
    BY <2>3, <2>5, <2>6
  <2>8. arms' \in Seq(Arms) /\ Len(arms') = m - 1
    BY ONLY <2>1, <2>7
  <2>9. \A k \in 1 .. m - 1 : arms'[k] = arms[k]
    BY <2>7
  <2> QED BY <2>1, <2>2, <2>8, <2>9
<1>13. ASSUME NEW k \in 1 .. m - 1 PROVE ArmOK(arms[k], Inside(k))'
  <2>1. k \in 1 .. m /\ k <= m /\ k # m /\ arms'[k] = arms[k]
    BY <1>3, <1>12
  <2>2. /\ Len(arms[k].before) \in Nat /\ Len(arms[k].before) <= n
        /\ FactsOf(arms[k].before, val) /\ Undoes(arms[k].saved, Inside(k), arms[k].before)
    BY <1>3, <2>1, ArmFields DEF RegionInv, ArmOK
  <2>3. \A v \in 1 .. Len(arms[k].before) : v \in 1 .. n
    BY <1>4, <2>2
  <2>4. FactsOf(arms[k].before, val')
    <3>1. Len(arms[k].before) <= Len(val') /\ \A v \in 1 .. Len(arms[k].before) : val'[v] = val[v]
      BY <1>4, <1>11, <2>2, <2>3
    <3> QED BY <2>2, <3>1, FactsOfSame
  <2>5. \A v \in 1 .. Len(arms[k].before) : Inside(k)'[v] = Inside(k)[v]
    <3>1. CASE k = m - 1
      <4>1. Inside(k)' = fs'
        BY <1>12, <3>1 DEF Inside
      <4>2. Inside(k) = arm.before
        <5>1. k # m /\ k + 1 = m
          BY <1>3, <3>1
        <5> QED BY <5>1 DEF Inside
      <4> QED BY <1>11, <2>3, <4>1, <4>2
    <3>2. CASE k # m - 1
      <4>1. k + 1 \in 1 .. m - 1
        BY <1>3, <3>2
      <4>2. Inside(k)' = arms[k + 1].before
        BY <1>12, <3>2, <4>1 DEF Inside
      <4>3. Inside(k) = arms[k + 1].before
        BY <2>1 DEF Inside
      <4> QED BY <4>2, <4>3
    <3> QED BY <3>1, <3>2
  <2>6. Undoes(arms[k].saved, Inside(k)', arms[k].before)
    BY <2>2, <2>5, UndoesSame
  <2> QED BY <2>1, <2>4, <2>6 DEF ArmOK
<1>14. \A j, k \in 1 .. m - 1 : j <= k => Len(arms'[j].before) <= Len(arms'[k].before)
  BY <1>12 DEF RegionInv
<1>15. RegionInv'
  BY <1>10, <1>12, <1>13, <1>14 DEF RegionInv
<1>16. DOMAIN arm.before = 1 .. n
  BY <1>4
<1> QED BY <1>11, <1>15, <1>16

\* Every step keeps the invariant.
LEMMA NextRegionInv == OthersSound /\ RegionInv /\ [Next]_vars => RegionInv'
<1> SUFFICES ASSUME OthersSound, RegionInv, [Next]_vars PROVE RegionInv'
  OBVIOUS
<1>1. CASE \E k \in Literals : Const(k)
  BY <1>1, ConstInv
<1>2. CASE \E op \in Ops, x, y \in Values : Stmt(op, x, y)
  BY <1>2, StmtInv
<1>3. ASSUME NEW g \in Comparisons, Enter(<<g>>) PROVE RegionInv'
  <2>1. <<g>> \in Seq(Comparisons) /\ Len(<<g>>) \in {1, 2}
    OBVIOUS
  <2> QED BY <1>3, <2>1, EnterInv
<1>4. ASSUME NEW g \in Comparisons, NEW h \in Comparisons, Enter(<<g, h>>) PROVE RegionInv'
  <2>1. <<g, h>> \in Seq(Comparisons) /\ Len(<<g, h>>) \in {1, 2}
    OBVIOUS
  <2> QED BY <1>4, <2>1, EnterInv
<1>5. CASE \E y \in Values, other \in Inputs \cup {Bot} : Leave(y, other)
  BY <1>5, LeaveInv
<1>6. CASE UNCHANGED vars
  <2>1. def' = def /\ fs' = fs /\ val' = val /\ arms' = arms
    BY <1>6 DEF vars
  <2>2. \A k \in 1 .. Len(arms) : Inside(k)' = Inside(k)
    BY <2>1 DEF Inside
  <2>3. \A k \in 1 .. Len(arms) : ArmOK(arms[k], Inside(k))'
    BY <2>1, <2>2 DEF RegionInv, ArmOK
  <2> QED BY <2>1, <2>3 DEF RegionInv
<1> QED BY <1>1, <1>2, <1>3, <1>4, <1>5, <1>6 DEF Next

\* No step that closes an arm leaves a fact of it behind.
LEMMA NextRestores ==
  OthersSound /\ RegionInv /\ [Next]_vars =>
    [Len(arms') < Len(arms) =>
       \A v \in DOMAIN arms[Len(arms)].before : fs'[v] = arms[Len(arms)].before[v]]_vars
<1> SUFFICES ASSUME RegionInv, Next, Len(arms') < Len(arms),
                    NEW v \in DOMAIN arms[Len(arms)].before
             PROVE  fs'[v] = arms[Len(arms)].before[v]
  OBVIOUS
<1>1. arms \in Seq(Arms) /\ Len(arms) \in Nat
  BY DEF RegionInv
<1>2. CASE \E k \in Literals : Const(k)
  BY <1>1, <1>2 DEF Const
<1>3. CASE \E op \in Ops, x, y \in Values : Stmt(op, x, y)
  BY <1>1, <1>3 DEF Stmt
<1>4. ASSUME NEW gs, Enter(gs) PROVE FALSE
  <2>1. PICK arm : arms' = Append(arms, arm)
    BY <1>4 DEF Enter
  <2> QED BY <1>1, <2>1
<1>5. CASE \E y \in Values, other \in Inputs \cup {Bot} : Leave(y, other)
  BY <1>5, LeaveInv
<1> QED BY <1>2, <1>3, <1>4, <1>5 DEF Next

\* The invariant holds in every state of every program.
THEOREM RegionInvariant == ASSUME OthersSound PROVE Spec => []RegionInv
<1> DEFINE I == RegionInv
<1>1. Init => I
  BY InitRegionInv
<1>2. I /\ [Next]_vars => I'
  BY NextRegionInv
<1> HIDE DEF I
<1>3. Spec => []I
  BY <1>1, <1>2, PTL DEF Spec
<1> QED BY <1>3 DEF I

\* Every fact holds of its value in the arm the execution is in (stmt, cond and
\* back of ir/interval.go).
THEOREM FactsAlwaysSound == ASSUME OthersSound PROVE Spec => []Sound
<1> DEFINE I == RegionInv
           S == Sound
<1>1. Spec => []I
  BY RegionInvariant
<1>2. I => S
  BY InvProperties
<1> HIDE DEF I, S
<1>3. Spec => []S
  BY <1>1, <1>2, PTL
<1> QED BY <1>3 DEF S

\* No fact is a second spelling of its set (norm of ir/interval.go).
THEOREM FactsAlwaysCanonical == ASSUME OthersSound PROVE Spec => []CanonicalFacts
<1> DEFINE I == RegionInv
           S == CanonicalFacts
<1>1. Spec => []I
  BY RegionInvariant
<1>2. I => S
  BY InvProperties
<1> HIDE DEF I, S
<1>3. Spec => []S
  BY <1>1, <1>2, PTL
<1> QED BY <1>3 DEF S

\* Leaving an arm gives every value outside it the fact it had (restore of
\* ir/interval.go), however many times the guards narrowed it.
THEOREM ArmsAlwaysRestored == ASSUME OthersSound PROVE Spec => ArmRestored
<1> DEFINE I == RegionInv
           A == Len(arms') < Len(arms) =>
                  \A v \in DOMAIN arms[Len(arms)].before : fs'[v] = arms[Len(arms)].before[v]
<1>1. Spec => []I
  BY RegionInvariant
<1>2. I /\ [Next]_vars => [A]_vars
  BY NextRestores
<1> HIDE DEF I, A
<1>3. Spec => [][A]_vars
  BY <1>1, <1>2, PTL DEF Spec
<1> QED BY <1>3 DEF A, ArmRestored

\* Of a program of the ring's operations nothing is asked: its facts are sound,
\* have one spelling each, and are restored (add, sub, mul, neg, div, rem, mod
\* of stmt in ir/interval.go).
THEOREM RingProgramsSound ==
  ASSUME OtherOps = {}
  PROVE  Spec => []Sound /\ []CanonicalFacts /\ ArmRestored
<1>1. OthersSound
  BY DEF OthersSound
<1> QED BY <1>1, FactsAlwaysSound, FactsAlwaysCanonical, ArmsAlwaysRestored
=============================================================================
