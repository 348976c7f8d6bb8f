------------------------------ MODULE PairDigits ------------------------------
(***************************************************************************)
(* The unsigned word held as two digits (ir/pairs.go): on a target whose   *)
(* word is too narrow, a value of 0..UMax is [hi, lo], which denotes       *)
(* hi*B + lo.  Each operator below writes the operations SelectPairs does  *)
(* for one of the program's.                                               *)
(*                                                                         *)
(* A digit is what one written operation gives: n is its value, iv the     *)
(* fact the decision run after the pass derives, lit says that it is a     *)
(* constant, and ok that this operation, and every one it is computed      *)
(* from, is proven inside the target's word (or wraps, and needs no        *)
(* proof).                                                                 *)
(***************************************************************************)
EXTENDS BitIntervals

CONSTANTS H,         \* the base of half a digit (2^16)
          HalfBits,  \* its bits
          WordHi     \* the target's word is -WordHi..WordHi (2^53 - 1)

B == H * H
Size == B * B
DigitBits == 2 * HalfBits

\* A step of an expansion is below 4*B ("integers below 2^34").
ASSUME PairAssumption ==
  /\ H \in Nat /\ H >= 2
  /\ HalfBits \in Nat \ {0} /\ H = 2^HalfBits
  /\ B = 2^DigitBits /\ Size = UMax + 1
  /\ WordHi \in Nat /\ 4 * B - 1 <= WordHi /\ WordHi < UMax

Digit == 0 .. B - 1

\* A target's wrapping operations are DigitBits wide, and signed.
Wrapped(n) == ((n + B \div 2) % B) - B \div 2

-----------------------------------------------------------------------------
(* What the pass writes (emit, k) and the constants it folds on the way     *)
(* (add, subt, mul, and, shr, shl32).                                       *)

K(c) == [n |-> c, iv |-> Exact(c), lit |-> TRUE, ok |-> TRUE]
Is(a, c) == a.lit /\ a.n = c

InWord(iv) == Within(iv, -WordHi, WordHi)
Emitted(n, iv, ok) == [n |-> n, iv |-> iv, lit |-> FALSE, ok |-> ok /\ InWord(iv)]
Fused(n, ok) ==
  [n |-> Wrapped(n), iv |-> RangeE(-(B \div 2), B \div 2 - 1), lit |-> FALSE, ok |-> ok]

Plus(a, b) ==
  IF a.lit /\ b.lit THEN K(a.n + b.n)
  ELSE IF Is(a, 0) THEN b
  ELSE IF Is(b, 0) THEN a
  ELSE Emitted(a.n + b.n, AddIV(a.iv, b.iv), a.ok /\ b.ok)

Minus(a, b) ==
  IF Is(b, 0) THEN a ELSE Emitted(a.n - b.n, SubIV(a.iv, b.iv), a.ok /\ b.ok)

\* The constants a product folds: not negative, and at most B/2.
Small(a) == a.lit /\ a.n \in 0 .. B \div 2

Times(a, b) ==
  IF Small(a) /\ Small(b) THEN K(a.n * b.n)
  ELSE IF Is(a, 0) \/ Is(b, 0) THEN K(0)
  ELSE IF Is(a, 1) THEN b
  ELSE IF Is(b, 1) THEN a
  ELSE Emitted(a.n * b.n, MulIV(a.iv, b.iv), a.ok /\ b.ok)

\* `& (m - 1)`, m a power of two: the residue, of a negative integer too.
Mask(a, m) ==
  IF m = 1 \/ (a.lit /\ a.n >= 0) THEN K(a.n % m)
  ELSE Emitted(a.n % m, AndZ(a.iv, Exact(m - 1)), a.ok)

\* A right shift by a constant is the quotient by m = 2^k, rounded down.
Shifted(a, k, m) ==
  IF k = 0 \/ Is(a, 0) THEN a
  ELSE IF a.lit /\ a.n > 0 THEN K(a.n \div m)
  ELSE Emitted(a.n \div m, ShrZ(a.iv, Exact(k)), a.ok)
Shr(a, k) == Shifted(a, k, 2^k)
Carry(a) == Shifted(a, DigitBits, B)

\* shl32: a * 2^j modulo B.
ShlDigit(a, j) ==
  IF j = 0 \/ Is(a, 0) THEN a ELSE Mask(Fused(a.n * 2^j, a.ok), B)

-----------------------------------------------------------------------------
(* arith: the laws of arithmetic in base B. *)

AddPair(a, b) ==
  LET s == Plus(a.lo, b.lo)
  IN  [hi |-> Mask(Plus(Plus(a.hi, b.hi), Carry(s)), B), lo |-> Mask(s, B)]

\* Mutant: the borrow is not taken from the high digit.
SubPair_NoBorrow(a, b) ==
  [hi |-> Mask(Minus(a.hi, b.hi), B), lo |-> Mask(Minus(a.lo, b.lo), B)]

SubPair(a, b) ==
  LET t == Minus(a.lo, b.lo)
  IN  [hi |-> Mask(Plus(Minus(a.hi, b.hi), Carry(t)), B), lo |-> Mask(t, B)]

NegPair(a) == SubPair([hi |-> K(0), lo |-> K(0)], a)

NotPair(a) == [hi |-> Minus(K(B - 1), a.hi), lo |-> Minus(K(B - 1), a.lo)]

(* The product: the low digits exactly, by halves; the cross terms wrapped. *)

\* Mutant: the product is taken on a digit whole.
LowHalf_Whole(a) == a

LowHalf(a) == Mask(a, H)
HighHalf(a) == Shifted(a, HalfBits, H)

Mid(x, y) == Plus(Times(LowHalf(x), HighHalf(y)), Times(HighHalf(x), LowHalf(y)))
LowSum(x, y, mid) == Plus(Times(LowHalf(x), LowHalf(y)), Times(LowHalf(mid), K(H)))
HighSum(x, y, mid) ==
  Plus(Plus(Times(HighHalf(x), HighHalf(y)), HighHalf(mid)), Carry(LowSum(x, y, mid)))

Crossed(c, x, y) ==
  IF Is(x, 0) \/ Is(y, 0) THEN c ELSE Fused(c.n + Wrapped(x.n * y.n), c.ok /\ x.ok /\ y.ok)

Product(a, b, mid) ==
  [hi |-> Mask(Crossed(Crossed(HighSum(a.lo, b.lo, mid), a.hi, b.lo), a.lo, b.hi), B),
   lo |-> Mask(LowSum(a.lo, b.lo, mid), B)]

MulPair(a, b) == Product(a, b, Mid(a.lo, b.lo))

-----------------------------------------------------------------------------
(* A pair's value in the word (toS), and a constant's digits. *)

ToS(d) == IF Is(d.hi, 0) THEN d.lo ELSE Plus(Times(d.hi, K(B)), d.lo)
DigitsOf(c) == [hi |-> K(c \div B), lo |-> K(c % B)]
Denoted(d) == d.hi.n * B + d.lo.n

=============================================================================
