--------------------------- MODULE IntervalDomain ---------------------------
(***************************************************************************)
(* The interval domain of the IR analysis (ir/endpoint.go, ir/interval.go): *)
(* intervals over the integers whose finite ends lie in E = -EMax .. EMax.  *)
(* In the code EMax is 2^126 - 1.  An end that leaves E becomes the         *)
(* infinity on its side.                                                    *)
(*                                                                          *)
(* An interval is the record the code has: lo and hi, nlo when lo is minus  *)
(* infinity, phi when hi is plus infinity, bot when it is empty.  The       *)
(* numbers under an infinite end are kept, because two spellings of one     *)
(* interval are two different facts to a loop's fixpoint test.              *)
(***************************************************************************)
EXTENDS Integers

CONSTANT EMax

ASSUME EMaxAssumption == EMax \in Nat \ {0}

-----------------------------------------------------------------------------
(* Ends (ir/endpoint.go). *)

E == -EMax .. EMax

Ok(v) == v \in E

MinE(a, b) == IF a < b THEN a ELSE b
MaxE(a, b) == IF b < a THEN a ELSE b
AbsE(a) == IF a < 0 THEN -a ELSE a

\* Division truncates toward zero; the remainder has the dividend's sign.
Quo(a, b) == IF (a < 0) # (b < 0) THEN -(AbsE(a) \div AbsE(b))
                                  ELSE AbsE(a) \div AbsE(b)
Rem(a, b) == a - b * Quo(a, b)

FloorDivE(a, b) == IF b > 0 THEN a \div b ELSE (-a) \div (-b)
CeilDivE(a, b) == -FloorDivE(-a, b)

ISqrtE(n) == CHOOSE r \in 0 .. n : r * r <= n /\ n < (r + 1) * (r + 1)

-----------------------------------------------------------------------------
(* Intervals: the representation, its meaning, and its canonical form. *)

Iv == [lo : E, hi : E, nlo : BOOLEAN, phi : BOOLEAN, bot : BOOLEAN]

Bot == [lo |-> 0, hi |-> 0, nlo |-> FALSE, phi |-> FALSE, bot |-> TRUE]
Top == [lo |-> 0, hi |-> 0, nlo |-> TRUE, phi |-> TRUE, bot |-> FALSE]

RangeE(l, h) == [lo |-> l, hi |-> h, nlo |-> FALSE, phi |-> FALSE, bot |-> FALSE]
Exact(n) == RangeE(n, n)

\* A half line, canonically spelled: 0 under the infinite end.
AtMost(h) == [lo |-> 0, hi |-> h, nlo |-> TRUE, phi |-> FALSE, bot |-> FALSE]
AtLeast(l) == [lo |-> l, hi |-> 0, nlo |-> FALSE, phi |-> TRUE, bot |-> FALSE]

\* z is in the set the interval denotes (the concretisation gamma).
In(z, a) == /\ ~a.bot
            /\ a.nlo \/ a.lo <= z
            /\ a.phi \/ z <= a.hi

Finite(a) == ~a.bot /\ ~a.nlo /\ ~a.phi
Within(a, l, h) == a.bot \/ (Finite(a) /\ l <= a.lo /\ a.hi <= h)
NonNeg(a) == ~a.nlo /\ a.lo >= 0
AllNeg(a) == ~a.phi /\ a.hi < 0

\* An infinite end carries no number, and the empty interval is Bot.
Norm(a) ==
  IF a.bot THEN Bot
  ELSE [a EXCEPT !.lo = IF a.nlo THEN 0 ELSE @, !.hi = IF a.phi THEN 0 ELSE @]

\* The spellings that are the only one of the set they denote.
Canonical(a) == /\ a = Norm(a)
                /\ Finite(a) => a.lo <= a.hi

-----------------------------------------------------------------------------
(* The lattice and the widenings. *)

\* Mutant: the join keeps the numbers under an infinite end.
JoinIV_NoNorm(a, b) ==
  IF a.bot THEN b
  ELSE IF b.bot THEN a
  ELSE [lo  |-> MinE(a.lo, b.lo), hi  |-> MaxE(a.hi, b.hi),
        nlo |-> a.nlo \/ b.nlo,   phi |-> a.phi \/ b.phi, bot |-> FALSE]

JoinIV(a, b) ==
  IF a.bot THEN b
  ELSE IF b.bot THEN a
  ELSE Norm([lo  |-> MinE(a.lo, b.lo), hi  |-> MaxE(a.hi, b.hi),
             nlo |-> a.nlo \/ b.nlo,   phi |-> a.phi \/ b.phi, bot |-> FALSE])

MeetIV(a, b) ==
  IF a.bot \/ b.bot THEN Bot
  ELSE LET raise == ~b.nlo /\ (a.nlo \/ a.lo < b.lo)
           lower == ~b.phi /\ (a.phi \/ b.hi < a.hi)
           out == [lo  |-> IF raise THEN b.lo ELSE a.lo,
                   hi  |-> IF lower THEN b.hi ELSE a.hi,
                   nlo |-> a.nlo /\ ~raise,
                   phi |-> a.phi /\ ~lower, bot |-> FALSE]
       IN  IF Finite(out) /\ out.hi < out.lo THEN Bot ELSE Norm(out)

WidenIV(old, nw) ==
  IF old.bot THEN nw
  ELSE IF nw.bot THEN old
  ELSE Norm([old EXCEPT !.nlo = @ \/ nw.nlo \/ nw.lo < old.lo,
                        !.phi = @ \/ nw.phi \/ old.hi < nw.hi])

\* Widening with a set T of thresholds: a moving end stops at the nearest
\* threshold beyond it, and past the last one at infinity.
WidenIVT(old, nw, T) ==
  IF old.bot THEN nw
  ELSE IF nw.bot THEN old
  ELSE LET below == {t \in T : t <= nw.lo}
           above == {t \in T : nw.hi <= t}
           down == ~nw.nlo /\ nw.lo < old.lo
           up == ~nw.phi /\ old.hi < nw.hi
       IN  Norm([lo  |-> IF down /\ below # {}
                         THEN CHOOSE t \in below : \A u \in below : u <= t
                         ELSE old.lo,
                 hi  |-> IF up /\ above # {}
                         THEN CHOOSE t \in above : \A u \in above : t <= u
                         ELSE old.hi,
                 nlo |-> old.nlo \/ nw.nlo \/ (down /\ below = {}),
                 phi |-> old.phi \/ nw.phi \/ (up /\ above = {}),
                 bot |-> FALSE])

-----------------------------------------------------------------------------
(* The transfer functions of the ring operations. *)

\* Mutant: the ends are added without the overflow test.
AddIV_Unchecked(a, b) ==
  IF a.bot \/ b.bot THEN Bot
  ELSE Norm([lo |-> a.lo + b.lo, hi |-> a.hi + b.hi,
             nlo |-> a.nlo \/ b.nlo, phi |-> a.phi \/ b.phi, bot |-> FALSE])

\* A sum outside E is the infinity on its side; a low end past +EMax keeps
\* EMax and makes the high end infinite, and the mirror below.
AddIV(a, b) ==
  IF a.bot \/ b.bot THEN Bot
  ELSE LET nlo == a.nlo \/ b.nlo
           phi == a.phi \/ b.phi
           l == a.lo + b.lo
           h == a.hi + b.hi
           over == ~nlo /\ l > EMax
           top == phi \/ over
           under == ~top /\ h < -EMax
       IN  Norm([lo  |-> IF over THEN EMax ELSE IF Ok(l) THEN l ELSE 0,
                 hi  |-> IF under THEN -EMax ELSE IF Ok(h) THEN h ELSE 0,
                 nlo |-> nlo \/ l < -EMax \/ under,
                 phi |-> top \/ h > EMax, bot |-> FALSE])

NegIV(a) ==
  IF a.bot THEN Bot
  ELSE Norm([lo |-> -a.hi, hi |-> -a.lo, nlo |-> a.phi, phi |-> a.nlo, bot |-> FALSE])

SubIV(a, b) == AddIV(a, NegIV(b))

\* An end of the extended integers: inf is -1 or 1 for an infinity, else 0.
LowEnd(a) == [inf |-> IF a.nlo THEN -1 ELSE 0, v |-> IF a.nlo THEN 0 ELSE a.lo]
HighEnd(a) == [inf |-> IF a.phi THEN 1 ELSE 0, v |-> IF a.phi THEN 0 ELSE a.hi]
SignOf(v) == IF v < 0 THEN -1 ELSE IF v = 0 THEN 0 ELSE 1
EndSign(e) == IF e.inf # 0 THEN e.inf ELSE SignOf(e.v)
EndLE(p, q) == p.inf < q.inf \/ (p.inf = q.inf /\ (p.inf # 0 \/ p.v <= q.v))

\* A corner product: zero times an infinity is zero, because no element of the
\* interval is infinite; a product past E is the infinity of its sign.
Corner(p, q) ==
  LET s == EndSign(p) * EndSign(q)
  IN  IF p.inf = 0 /\ q.inf = 0 /\ Ok(p.v * q.v) THEN [inf |-> 0, v |-> p.v * q.v]
      ELSE [inf |-> s, v |-> 0]

MulInf(a, b) ==
  LET cs == {Corner(p, q) : p \in {LowEnd(a), HighEnd(a)}, q \in {LowEnd(b), HighEnd(b)}}
      l == CHOOSE c \in cs : \A d \in cs : EndLE(c, d)
      h == CHOOSE c \in cs : \A d \in cs : EndLE(d, c)
  IN  Norm([lo  |-> IF l.inf > 0 THEN EMax ELSE l.v,
            hi  |-> IF h.inf < 0 THEN -EMax ELSE h.v,
            nlo |-> l.inf < 0, phi |-> h.inf > 0, bot |-> FALSE])

MulIV(a, b) ==
  IF a.bot \/ b.bot THEN Bot
  ELSE IF ~Finite(a) \/ ~Finite(b) THEN MulInf(a, b)
  ELSE LET cs == {x * y : x \in {a.lo, a.hi}, y \in {b.lo, b.hi}}
           fit == cs \cap E
           nlo == \E c \in cs : c < -EMax
           phi == \E c \in cs : c > EMax
       IN  Norm([lo  |-> IF fit # {} THEN CHOOSE c \in fit : \A d \in fit : c <= d
                         ELSE IF nlo THEN -EMax ELSE EMax,
                 hi  |-> IF fit # {} THEN CHOOSE c \in fit : \A d \in fit : d <= c
                         ELSE IF phi THEN EMax ELSE -EMax,
                 nlo |-> nlo, phi |-> phi, bot |-> FALSE])

-----------------------------------------------------------------------------
(* Division, remainder and the Euclidean modulus.  The divisor is not 0 (and *)
(* the modulus positive) wherever the operation runs.                        *)

DividendBound(a) ==
  IF a.nlo \/ a.phi THEN Top
  ELSE LET m == MaxE(AbsE(a.lo), AbsE(a.hi)) IN RangeE(-m, m)

\* A divisor straddling 0 is two regions, on each of which truncating
\* division is monotone: its extremes are at the corners.
DivIV(a, b) ==
  IF a.bot \/ b.bot THEN Bot
  ELSE IF ~Finite(a) \/ ~Finite(b)
  THEN IF ~b.nlo /\ b.lo > 0 /\ NonNeg(a)
       THEN Norm([lo |-> 0, hi |-> a.hi, nlo |-> FALSE, phi |-> a.phi, bot |-> FALSE])
       ELSE DividendBound(a)
  ELSE LET divisors == (IF b.lo < 0 THEN {b.lo, MinE(b.hi, -1)} ELSE {})
                       \cup (IF b.hi > 0 THEN {MaxE(b.lo, 1), b.hi} ELSE {})
           qs == {Quo(x, y) : x \in {a.lo, a.hi}, y \in divisors}
       IN  IF qs = {} THEN Bot
           ELSE RangeE(CHOOSE q \in qs : \A p \in qs : q <= p,
                       CHOOSE q \in qs : \A p \in qs : p <= q)

RemIV(a, b) ==
  IF a.bot \/ b.bot THEN Bot
  ELSE LET between == Norm([lo |-> MinE(a.lo, 0), hi |-> MaxE(a.hi, 0),
                            nlo |-> a.nlo, phi |-> a.phi, bot |-> FALSE])
           bound == MaxE(AbsE(b.lo), AbsE(b.hi)) - 1
       IN  IF ~Finite(b) \/ bound = -1 THEN between
           ELSE IF NonNeg(a)
           THEN RangeE(0, IF ~a.phi /\ a.hi < bound THEN a.hi ELSE bound)
           ELSE IF ~a.phi /\ a.hi <= 0
           THEN RangeE(IF ~a.nlo /\ -bound < a.lo THEN a.lo ELSE -bound, 0)
           ELSE MeetIV(RangeE(-bound, bound), between)

ModZ(a, m) ==
  IF a.bot \/ m.bot THEN Bot
  ELSE LET ml == IF m.nlo \/ m.lo <= 0 THEN 1 ELSE m.lo
       IN  IF NonNeg(a) /\ ~a.phi /\ a.hi < ml THEN a
           ELSE IF m.phi
           THEN IF NonNeg(a)
                THEN Norm([lo |-> 0, hi |-> a.hi, nlo |-> FALSE, phi |-> a.phi, bot |-> FALSE])
                ELSE AtLeast(0)
           ELSE RangeE(0, IF NonNeg(a) /\ ~a.phi THEN MinE(m.hi - 1, a.hi) ELSE m.hi - 1)

-----------------------------------------------------------------------------
(* What a guard says: forward narrowing and the inverses of the operations. *)

Rels == {"lt", "le", "gt", "ge", "eq", "ne"}

Holds(x, rel, y) ==
  CASE rel = "lt" -> x < y
    [] rel = "le" -> x <= y
    [] rel = "gt" -> x > y
    [] rel = "ge" -> x >= y
    [] rel = "eq" -> x = y
    [] rel = "ne" -> x # y

Flip(rel) ==
  CASE rel = "lt" -> "gt" [] rel = "gt" -> "lt"
    [] rel = "le" -> "ge" [] rel = "ge" -> "le" [] OTHER -> rel

\* Mutant: the negation of a strict relation is strict.
Negate_Strict(rel) ==
  CASE rel = "lt" -> "gt" [] rel = "gt" -> "lt"
    [] rel = "le" -> "gt" [] rel = "ge" -> "lt"
    [] rel = "eq" -> "ne" [] rel = "ne" -> "eq"

Negate(rel) ==
  CASE rel = "lt" -> "ge" [] rel = "ge" -> "lt"
    [] rel = "le" -> "gt" [] rel = "gt" -> "le"
    [] rel = "eq" -> "ne" [] rel = "ne" -> "eq"

\* x where `x rel o` holds.
NarrowIV(x, rel, o) ==
  LET single == Finite(o) /\ o.lo = o.hi /\ Finite(x)
  IN  IF x.bot \/ o.bot THEN Bot
      ELSE CASE rel = "lt" /\ ~o.phi /\ Ok(o.hi - 1) -> MeetIV(x, AtMost(o.hi - 1))
             [] rel = "le" /\ ~o.phi -> MeetIV(x, AtMost(o.hi))
             [] rel = "gt" /\ ~o.nlo /\ Ok(o.lo + 1) -> MeetIV(x, AtLeast(o.lo + 1))
             [] rel = "ge" /\ ~o.nlo -> MeetIV(x, AtLeast(o.lo))
             [] rel = "eq" -> MeetIV(x, o)
             [] rel = "ne" /\ single /\ x.lo = x.hi /\ x.lo = o.lo -> Bot
             [] rel = "ne" /\ single /\ x.lo < x.hi /\ x.lo = o.lo -> RangeE(x.lo + 1, x.hi)
             [] rel = "ne" /\ single /\ x.lo < x.hi /\ x.hi = o.lo -> RangeE(x.lo, x.hi - 1)
             [] OTHER -> x

\* Mutant: the negative root is forgotten.
InvSquare_Positive(z) ==
  IF z.bot \/ z.phi \/ z.hi < 0 THEN Top ELSE RangeE(0, ISqrtE(z.hi))

\* What x * x \in z says of x, and what x * c \in z does; Top says nothing.
InvSquare(z) ==
  IF z.bot \/ z.phi \/ z.hi < 0 THEN Top
  ELSE RangeE(-ISqrtE(z.hi), ISqrtE(z.hi))

InvMulConst(z, c) ==
  LET nlo == IF c > 0 THEN z.nlo ELSE z.phi
      phi == IF c > 0 THEN z.phi ELSE z.nlo
      l == IF nlo THEN 0 ELSE CeilDivE(IF c > 0 THEN z.lo ELSE z.hi, c)
      h == IF phi THEN 0 ELSE FloorDivE(IF c > 0 THEN z.hi ELSE z.lo, c)
  IN  IF z.bot \/ c = 0 \/ (z.nlo /\ z.phi) THEN Top
      ELSE IF ~nlo /\ ~phi /\ h < l THEN Bot
      ELSE Norm([lo |-> l, hi |-> h, nlo |-> nlo, phi |-> phi, bot |-> FALSE])

=============================================================================
