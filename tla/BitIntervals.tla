---------------------------- MODULE BitIntervals ----------------------------
(***************************************************************************)
(* The intervals of the bit operations and the shifts (ir/bitival.go), of  *)
(* the mask and the logical shift (ir/interval.go), and of the unsigned    *)
(* word's operations: the residue map between the two sets of              *)
(* representatives of the integers modulo 2^WordBits.                      *)
(*                                                                         *)
(* Every bound is a power of two, so E must be cut at one: EMax is         *)
(* 2^EBits - 1 (126 bits in the code), and the word has WordBits (64).     *)
(***************************************************************************)
EXTENDS IntervalDomain

CONSTANTS EBits,      \* E = (-2^EBits, 2^EBits)
          WordBits,   \* the machine word, one bit at least below E
          ShlMax,     \* the greatest count a left shift is evaluated at (124)
          ShrMax,     \* the greatest count of the logical shift's rule (62)
          ShrCap      \* a count at which every end has shifted out (200)

ASSUME BitsAssumption ==
  /\ EBits \in Nat /\ EMax = 2^EBits - 1
  /\ WordBits \in 1 .. (EBits - 1)
  /\ ShlMax \in 0 .. (EBits - 1) /\ ShrMax \in 0 .. (EBits - 1)
  /\ ShrCap \in Nat /\ ShrCap >= EBits

-----------------------------------------------------------------------------
Half == 2^(WordBits - 1)
UMax == 2^WordBits - 1
U == RangeE(0, UMax)
S == RangeE(-Half, Half - 1)

BitLen(n) == CHOOSE k \in 0 .. EBits : n < 2^k /\ (k = 0 \/ 2^(k - 1) <= n)

\* The least k with x inside [-2^k, 2^k), for a finite x.
BitWindow(x) == MaxE(BitLen(MaxE(x.hi, 0)), IF x.lo < 0 THEN BitLen(-x.lo - 1) ELSE 0)

WindowIV(k) == IF Ok(-(2^k)) THEN RangeE(-(2^k), 2^k - 1) ELSE Top

\* The window of two finite intervals.
CommonWindow(a, b) == WindowIV(MaxE(BitWindow(a), BitWindow(b)))

\* A mask m >= 0 bounds x & m by m whatever x is.
AndIV(a, b) ==
  LET upTo(x) == Norm([lo |-> 0, hi |-> x.hi, nlo |-> FALSE, phi |-> x.phi, bot |-> FALSE])
  IN  IF a.bot \/ b.bot THEN Bot
      ELSE CASE NonNeg(a) /\ NonNeg(b) /\ ~a.phi /\ ~b.phi -> RangeE(0, MinE(a.hi, b.hi))
             [] NonNeg(a) /\ NonNeg(b) /\ a.phi -> upTo(b)
             [] NonNeg(a) -> upTo(a)
             [] NonNeg(b) -> upTo(b)
             [] OTHER -> Top

AndZ(a, b) ==
  IF a.bot \/ b.bot THEN Bot
  ELSE IF NonNeg(a) \/ NonNeg(b) THEN AndIV(a, b)
  ELSE IF ~Finite(a) \/ ~Finite(b) THEN Top
  ELSE LET w == CommonWindow(a, b)
       IN  IF AllNeg(a) /\ AllNeg(b)
           THEN Norm([w EXCEPT !.hi = MinE(@, MinE(a.hi, b.hi))])
           ELSE w

\* The greatest value no longer than h >= 0.
Below2(h) == 2^BitLen(h) - 1

OrZ(a, b) ==
  IF a.bot \/ b.bot THEN Bot
  ELSE IF NonNeg(a) /\ NonNeg(b)
  THEN IF a.phi \/ b.phi THEN AtLeast(MaxE(a.lo, b.lo))
       ELSE RangeE(MaxE(a.lo, b.lo), MinE(Below2(MaxE(a.hi, b.hi)), a.hi + b.hi))
  ELSE IF ~Finite(a) \/ ~Finite(b) THEN Top
  ELSE LET w == CommonWindow(a, b)
           floor(x) == IF AllNeg(x) THEN MaxE(w.lo, x.lo) ELSE w.lo
       IN  IF AllNeg(a) \/ AllNeg(b)
           THEN Norm([w EXCEPT !.hi = -1, !.lo = MaxE(floor(a), floor(b))])
           ELSE w

XorZ(a, b) ==
  IF a.bot \/ b.bot THEN Bot
  ELSE IF NonNeg(a) /\ NonNeg(b)
  THEN IF a.phi \/ b.phi THEN AtLeast(0) ELSE RangeE(0, Below2(MaxE(a.hi, b.hi)))
  ELSE IF ~Finite(a) \/ ~Finite(b) THEN Top
  ELSE LET w == CommonWindow(a, b)
       IN  CASE AllNeg(a) /\ AllNeg(b) -> Norm([w EXCEPT !.lo = 0])
             [] NonNeg(a) /\ AllNeg(b) -> Norm([w EXCEPT !.hi = -1])
             [] AllNeg(a) /\ NonNeg(b) -> Norm([w EXCEPT !.hi = -1])
             [] OTHER -> w

NotZ(a) == IF a.bot THEN Bot ELSE SubIV(NegIV(a), Exact(1))

-----------------------------------------------------------------------------
(* The shifts.  A count is not negative wherever a shift runs. *)

ShlZ(a, k) ==
  IF a.bot \/ k.bot THEN Bot
  ELSE IF Finite(a) /\ a.lo = 0 /\ a.hi = 0 THEN Exact(0)
  ELSE IF ~Finite(k) \/ k.hi > ShlMax \/ k.hi < 0 THEN Top
  ELSE MulIV(a, RangeE(2^MaxE(k.lo, 0), 2^k.hi))

ShrZ(a, k) ==
  IF a.bot \/ k.bot THEN Bot
  ELSE LET k0 == IF k.nlo THEN 0 ELSE MinE(MaxE(k.lo, 0), ShrCap)
           k1 == IF k.phi THEN ShrCap ELSE MaxE(MinE(k.hi, ShrCap), 0)
       IN  Norm([lo  |-> MinE(a.lo \div 2^k0, a.lo \div 2^k1),
                 hi  |-> MaxE(a.hi \div 2^k0, a.hi \div 2^k1),
                 nlo |-> a.nlo, phi |-> a.phi, bot |-> FALSE])

ShrIV(a, k) ==
  IF a.bot \/ k.bot THEN Bot
  ELSE IF ~NonNeg(a) \/ ~Finite(k) \/ k.lo < 0 \/ k.hi > ShrMax THEN Top
  ELSE Norm([lo |-> FloorDivE(a.lo, 2^k.hi), hi |-> FloorDivE(a.hi, 2^k.lo),
             nlo |-> FALSE, phi |-> a.phi, bot |-> FALSE])

-----------------------------------------------------------------------------
(* The unsigned word: the residue maps r_U and r_S, and arithmetic modulo    *)
(* 2^WordBits.  Each is exact inside one period and U elsewhere.             *)

ShiftIV(x, k) == IF x.bot THEN x ELSE AddIV(x, Exact(k))

U64Of(x) ==
  IF x.bot THEN x
  ELSE IF ~Within(x, -(UMax + 1), UMax) THEN U
  ELSE LET neg == MeetIV(x, AtMost(-1))
       IN  JoinIV(MeetIV(x, U), ShiftIV(neg, UMax + 1))

IntOfU64(a) ==
  LET x == MeetIV(a, U)
      high == MeetIV(x, RangeE(Half, UMax))
  IN  JoinIV(MeetIV(x, RangeE(0, Half - 1)), ShiftIV(high, -(UMax + 1)))

U64Arith(op, a, b) ==
  LET x == MeetIV(a, U)
      y == MeetIV(b, U)
      r == CASE op = "u64+" -> AddIV(x, y)
             [] op = "u64-" -> SubIV(x, y)
             [] op = "u64*" -> MulIV(x, y)
  IN  CASE op = "u64/" -> DivIV(x, y)
        [] op = "u64%" -> RemIV(x, y)
        [] OTHER -> IF Within(r, 0, UMax) THEN r ELSE U

=============================================================================
