------------------------------ MODULE PairProofs ------------------------------
(***************************************************************************)
(* The laws of arithmetic in base B that ir/pairs.go expands operations by, *)
(* for every base: each pair operator denotes its operation modulo B*B,    *)
(* whatever constants were folded on the way.                              *)
(***************************************************************************)
EXTENDS PairDigits, TLAPS

\* What a written operation gives, as far as its value goes, and a digit of a pair.
Written(a) == a.n \in Int /\ a.lit \in BOOLEAN
IsDigit(a) == a.n \in Digit /\ a.lit \in BOOLEAN
IsPair(d) == IsDigit(d.hi) /\ IsDigit(d.lo)

\* The base is at least 4 and half a digit is smaller than a digit.
LEMMA Base == H \in Nat /\ H >= 2 /\ B \in Nat /\ B > H /\ B >= 4 /\ Size \in Nat /\ Size > B
<1>1. H \in Nat /\ H >= 2
  BY PairAssumption
<1>2. H * H >= 2 * H
  BY <1>1, SMT
<1>3. B \in Nat /\ B > H /\ B >= 4
  BY <1>1, <1>2, SMT DEF B
<1>4. B * B >= 4 * B
  BY <1>3, SMT
<1> QED
  BY <1>1, <1>3, <1>4, SMT DEF Size

\* Division by m rounds down, of a negative integer too.
LEMMA DivMod ==
  ASSUME NEW m \in Nat, m > 0, NEW n \in Int
  PROVE  n \div m \in Int /\ n % m \in 0 .. m - 1 /\ n = m * (n \div m) + (n % m)
<1>1. n % m \in 0 .. m - 1
  BY SMT
<1>2. n \div m \in Int
  BY SMT
<1>3. n = m * (n \div m) + (n % m)
  BY SMT
<1> QED
  BY <1>1, <1>2, <1>3

\* A quotient and a remainder are the only ones.
LEMMA DivModUnique ==
  ASSUME NEW m \in Nat, m > 0, NEW q \in Int, NEW r \in 0 .. m - 1
  PROVE  (m * q + r) % m = r /\ (m * q + r) \div m = q
<1> DEFINE n == m * q + r
           d == n \div m
           e == n % m
<1>1. n \in Int
  BY SMT
<1>2. d \in Int /\ e \in 0 .. m - 1 /\ n = m * d + e
  BY <1>1, DivMod
<1> HIDE DEF d, e
<1>3. m * (q - d) = e - r
  BY <1>2, SMT
<1>4. q - d < 1
  <2> SUFFICES ASSUME q - d >= 1 PROVE FALSE
    BY <1>2, SMT
  <2>1. m * (q - d) >= m
    BY <1>2, SMT
  <2> QED
    BY <2>1, <1>2, <1>3, SMT
<1>5. q - d > -1
  <2> SUFFICES ASSUME d - q >= 1 PROVE FALSE
    BY <1>2, SMT
  <2>1. m * (d - q) >= m
    BY <1>2, SMT
  <2>2. m * (d - q) = r - e
    BY <1>2, <1>3, SMT
  <2> QED
    BY <2>1, <2>2, <1>2, SMT
<1>6. q = d
  BY <1>2, <1>4, <1>5, SMT
<1>7. r = e
  BY <1>2, <1>6, SMT
<1> QED
  BY <1>6, <1>7 DEF d, e

-----------------------------------------------------------------------------
(* The written operations' values: folding a constant changes none. *)

LEMMA ConstantValue ==
  ASSUME NEW c \in Int
  PROVE  Written(K(c)) /\ K(c).n = c
BY DEF K, Written

\* An operation written as it is has its exact value, or a fused one's wrapped value.
LEMMA EmittedValue ==
  ASSUME NEW n \in Int, NEW iv, NEW ok
  PROVE  /\ Written(Emitted(n, iv, ok)) /\ Emitted(n, iv, ok).n = n
         /\ Wrapped(n) \in Int => Written(Fused(n, ok)) /\ Fused(n, ok).n = Wrapped(n)
BY DEF Emitted, Fused, Written

\* A sum folded, dropped for a zero or written (add) is the sum.
LEMMA PlusValue ==
  ASSUME NEW a, NEW b, Written(a), Written(b)
  PROVE  Written(Plus(a, b)) /\ Plus(a, b).n = a.n + b.n
<1>1. a.n \in Int /\ b.n \in Int /\ a.n + b.n \in Int
  BY DEF Written
<1>2. \/ Plus(a, b) \in {K(a.n + b.n), Emitted(a.n + b.n, AddIV(a.iv, b.iv), a.ok /\ b.ok)}
      \/ Plus(a, b) = b /\ a.n = 0
      \/ Plus(a, b) = a /\ b.n = 0
  BY Zenon DEF Plus, Is
<1> QED
  BY <1>1, <1>2, ConstantValue, EmittedValue

\* A difference dropped for a zero or written (subt) is the difference.
LEMMA MinusValue ==
  ASSUME NEW a, NEW b, Written(a), Written(b)
  PROVE  Written(Minus(a, b)) /\ Minus(a, b).n = a.n - b.n
<1>1. a.n \in Int /\ b.n \in Int /\ a.n - b.n \in Int
  BY DEF Written
<1>2. \/ Minus(a, b) = Emitted(a.n - b.n, SubIV(a.iv, b.iv), a.ok /\ b.ok)
      \/ Minus(a, b) = a /\ b.n = 0
  BY Zenon DEF Minus, Is
<1> QED
  BY <1>1, <1>2, EmittedValue

\* A product folded, dropped for a zero or a one, or written (mul) is the product.
LEMMA TimesValue ==
  ASSUME NEW a, NEW b, Written(a), Written(b)
  PROVE  Written(Times(a, b)) /\ Times(a, b).n = a.n * b.n
<1>1. a.n \in Int /\ b.n \in Int /\ a.n * b.n \in Int
  BY DEF Written
<1>2. \/ Times(a, b) \in {K(a.n * b.n), Emitted(a.n * b.n, MulIV(a.iv, b.iv), a.ok /\ b.ok)}
      \/ Times(a, b) = K(0) /\ (a.n = 0 \/ b.n = 0)
      \/ Times(a, b) = b /\ a.n = 1
      \/ Times(a, b) = a /\ b.n = 1
  BY Zenon DEF Times, Is
<1> QED
  BY <1>1, <1>2, ConstantValue, EmittedValue

\* A mask folded or written (and) is the residue, of a negative value too.
LEMMA MaskValue ==
  ASSUME NEW a, Written(a), NEW m \in Nat, m > 0
  PROVE  Written(Mask(a, m)) /\ Mask(a, m).n = a.n % m
<1>1. a.n \in Int /\ a.n % m \in Int
  BY DEF Written
<1>2. Mask(a, m) \in {K(a.n % m), Emitted(a.n % m, AndZ(a.iv, Exact(m - 1)), a.ok)}
  BY Zenon DEF Mask
<1> QED
  BY <1>1, <1>2, ConstantValue, EmittedValue

\* A shift folded, dropped for a zero or written (shr) is the quotient rounded down.
LEMMA ShiftedValue ==
  ASSUME NEW a, Written(a), NEW k, k # 0, NEW m \in Nat, m > 0
  PROVE  Written(Shifted(a, k, m)) /\ Shifted(a, k, m).n = a.n \div m
<1>1. a.n \in Int /\ a.n \div m \in Int
  BY DEF Written
<1>2. \/ Shifted(a, k, m) \in {K(a.n \div m), Emitted(a.n \div m, ShrZ(a.iv, Exact(k)), a.ok)}
      \/ Shifted(a, k, m) = a /\ a.n = 0
  BY Zenon DEF Shifted, Is
<1>3. 0 \div m = 0
  BY SMT
<1> QED
  BY <1>1, <1>2, <1>3, ConstantValue, EmittedValue

-----------------------------------------------------------------------------
\* The digits that denote x: a high digit masked, a low digit exact, and any
\* multiple of B*B dropped.
LEMMA DigitsOfResidue ==
  ASSUME NEW x \in Int, NEW h \in Int, NEW lo \in Digit, NEW k \in Int,
         x = Size * k + (h * B + lo)
  PROVE  h % B \in Digit /\ (h % B) * B + lo = x % Size
<1> DEFINE q == h \div B
           r == h % B
<1>1. B \in Nat /\ B > 0 /\ Size \in Nat /\ Size > 0 /\ Size = B * B /\ lo \in Int /\ 0 <= lo /\ lo <= B - 1
  BY Base DEF Size, Digit
<1>2. q \in Int /\ r \in 0 .. B - 1 /\ h = B * q + r
  BY <1>1, DivMod
<1> HIDE DEF q, r
<1>3. h * B + lo = Size * q + (r * B + lo)
  <2>1. h * B = (B * q) * B + r * B
    BY <1>1, <1>2, SMT
  <2>2. (B * q) * B = Size * q
    BY <1>1, <1>2, SMT
  <2> QED
    BY <2>1, <2>2, <1>1, <1>2, SMT
<1>4. x = Size * (k + q) + (r * B + lo)
  BY <1>1, <1>2, <1>3, SMT
<1>5. r * B + lo \in 0 .. Size - 1
  <2>1. 0 <= r * B /\ r * B <= (B - 1) * B
    BY <1>1, <1>2, SMT
  <2>2. (B - 1) * B = Size - B
    BY <1>1, SMT
  <2> QED
    BY <2>1, <2>2, <1>1, <1>2, SMT
<1>6. x % Size = r * B + lo
  <2> DEFINE j == k + q
             e == r * B + lo
  <2>1. j \in Int /\ e \in 0 .. Size - 1 /\ x = Size * j + e
    BY <1>2, <1>4, <1>5
  <2> HIDE DEF j, e
  <2>2. (Size * j + e) % Size = e
    BY <1>1, <2>1, DivModUnique, Zenon
  <2> QED
    BY <2>1, <2>2 DEF e
<1> QED
  BY <1>2, <1>6 DEF q, r, Digit

\* A digit is a written operation with a value in 0..B-1.
LEMMA DigitValue ==
  ASSUME NEW d, IsDigit(d)
  PROVE  Written(d) /\ d.n \in Int /\ 0 <= d.n /\ d.n <= B - 1
BY Base DEF IsDigit, Written, Digit

\* What is masked by B-1 is a digit, the residue modulo B.
LEMMA MaskedDigit ==
  ASSUME NEW a, Written(a)
  PROVE  IsDigit(Mask(a, B)) /\ Mask(a, B).n = a.n % B
BY Base, MaskValue, DivMod DEF Written, IsDigit, Digit

\* The carry of a low digit's sum, or its borrow, is its quotient by B.
LEMMA CarryValue ==
  ASSUME NEW a, Written(a)
  PROVE  Written(Carry(a)) /\ Carry(a).n = a.n \div B
BY Base, PairAssumption, ShiftedValue DEF Carry, DigitBits

-----------------------------------------------------------------------------
(* The expansions. *)

\* The sum of two pairs, the carry into the high digit, denotes the sum modulo
\* B*B, whatever constants were folded (OAdd in arith).
THEOREM AddPairSound ==
  ASSUME NEW a, NEW b, IsPair(a), IsPair(b)
  PROVE  /\ IsPair(AddPair(a, b))
         /\ Denoted(AddPair(a, b)) = (Denoted(a) + Denoted(b)) % Size
<1> DEFINE s == Plus(a.lo, b.lo)
           h == Plus(Plus(a.hi, b.hi), Carry(s))
<1>1. B \in Nat /\ B > 0 /\ Size \in Nat
  BY Base
<1>2. /\ Written(a.hi) /\ a.hi.n \in Int /\ Written(a.lo) /\ a.lo.n \in Int
      /\ Written(b.hi) /\ b.hi.n \in Int /\ Written(b.lo) /\ b.lo.n \in Int
  BY DigitValue DEF IsPair
<1>3. Written(s) /\ s.n = a.lo.n + b.lo.n
  BY <1>2, PlusValue
<1>4. Written(Carry(s)) /\ Carry(s).n = s.n \div B
  BY <1>3, CarryValue
<1>5. Written(Plus(a.hi, b.hi)) /\ Plus(a.hi, b.hi).n = a.hi.n + b.hi.n
  BY <1>2, PlusValue
<1>6. Written(h) /\ h.n = a.hi.n + b.hi.n + s.n \div B
  BY <1>4, <1>5, PlusValue
<1>7. AddPair(a, b) = [hi |-> Mask(h, B), lo |-> Mask(s, B)]
  BY DEF AddPair
<1> HIDE DEF s, h
<1>8. /\ IsDigit(Mask(h, B)) /\ Mask(h, B).n = h.n % B
      /\ IsDigit(Mask(s, B)) /\ Mask(s, B).n = s.n % B
  BY <1>3, <1>6, MaskedDigit
<1>9. s.n \div B \in Int /\ s.n % B \in Digit /\ s.n = B * (s.n \div B) + (s.n % B)
  <2>1. s.n \in Int
    BY <1>3 DEF Written
  <2> QED
    BY <1>1, <2>1, DivMod DEF Digit
<1> DEFINE x == Denoted(a) + Denoted(b)
           lo == s.n % B
<1>10. x \in Int /\ h.n \in Int /\ x = Size * 0 + (h.n * B + lo)
  <2> DEFINE c == s.n \div B
  <2>1. c \in Int /\ lo \in Int /\ a.lo.n + b.lo.n = B * c + lo /\ h.n = a.hi.n + b.hi.n + c
    BY <1>3, <1>6, <1>9 DEF Digit
  <2> HIDE DEF c, lo
  <2>2. h.n * B = a.hi.n * B + b.hi.n * B + B * c
    BY <1>1, <1>2, <2>1, SMT
  <2> QED
    BY <1>1, <1>2, <2>1, <2>2, SMT DEF Denoted
<1> HIDE DEF x, lo
<1>11. (h.n % B) * B + lo = x % Size
  BY <1>9, <1>10, DigitsOfResidue DEF lo
<1> QED
  BY <1>7, <1>8, <1>11 DEF x, lo, IsPair, Denoted

\* The difference, its borrow taken from the high digit, denotes the difference
\* modulo B*B, a negative one included (OSub in arith).
THEOREM SubPairSound ==
  ASSUME NEW a, NEW b, IsPair(a), IsPair(b)
  PROVE  /\ IsPair(SubPair(a, b))
         /\ Denoted(SubPair(a, b)) = (Denoted(a) - Denoted(b)) % Size
<1> DEFINE s == Minus(a.lo, b.lo)
           h == Plus(Minus(a.hi, b.hi), Carry(s))
<1>1. B \in Nat /\ B > 0 /\ Size \in Nat
  BY Base
<1>2. /\ Written(a.hi) /\ a.hi.n \in Int /\ Written(a.lo) /\ a.lo.n \in Int
      /\ Written(b.hi) /\ b.hi.n \in Int /\ Written(b.lo) /\ b.lo.n \in Int
  BY DigitValue DEF IsPair
<1>3. Written(s) /\ s.n = a.lo.n - b.lo.n
  BY <1>2, MinusValue
<1>4. Written(Carry(s)) /\ Carry(s).n = s.n \div B
  BY <1>3, CarryValue
<1>5. Written(Minus(a.hi, b.hi)) /\ Minus(a.hi, b.hi).n = a.hi.n - b.hi.n
  BY <1>2, MinusValue
<1>6. Written(h) /\ h.n = a.hi.n - b.hi.n + s.n \div B
  BY <1>4, <1>5, PlusValue
<1>7. SubPair(a, b) = [hi |-> Mask(h, B), lo |-> Mask(s, B)]
  BY DEF SubPair
<1> HIDE DEF s, h
<1>8. /\ IsDigit(Mask(h, B)) /\ Mask(h, B).n = h.n % B
      /\ IsDigit(Mask(s, B)) /\ Mask(s, B).n = s.n % B
  BY <1>3, <1>6, MaskedDigit
<1>9. s.n \div B \in Int /\ s.n % B \in Digit /\ s.n = B * (s.n \div B) + (s.n % B)
  <2>1. s.n \in Int
    BY <1>3 DEF Written
  <2> QED
    BY <1>1, <2>1, DivMod DEF Digit
<1> DEFINE x == Denoted(a) - Denoted(b)
           lo == s.n % B
<1>10. x \in Int /\ h.n \in Int /\ x = Size * 0 + (h.n * B + lo)
  <2> DEFINE c == s.n \div B
  <2>1. c \in Int /\ lo \in Int /\ a.lo.n - b.lo.n = B * c + lo /\ h.n = a.hi.n - b.hi.n + c
    BY <1>3, <1>6, <1>9 DEF Digit
  <2> HIDE DEF c, lo
  <2> DEFINE p == a.hi.n * B
             q == b.hi.n * B
             t == B * c
  <2>2. h.n * B = p - q + t
    BY <1>1, <1>2, <2>1, SMT
  <2>3. p \in Int /\ q \in Int /\ t \in Int /\ h.n \in Int /\ h.n * B \in Int
    BY <1>1, <1>2, <2>1
  <2>4. x = (p + a.lo.n) - (q + b.lo.n) /\ a.lo.n - b.lo.n = t + lo
    BY <2>1 DEF Denoted
  <2> HIDE DEF p, q, t, x
  <2>5. x = h.n * B + lo
    BY <1>2, <2>1, <2>2, <2>3, <2>4, SMT
  <2>6. Size * 0 = 0
    BY <1>1
  <2> QED
    BY <1>2, <2>1, <2>3, <2>4, <2>5, <2>6, SMT
<1> HIDE DEF x, lo
<1>11. (h.n % B) * B + lo = x % Size
  BY <1>9, <1>10, DigitsOfResidue DEF lo
<1> QED
  BY <1>7, <1>8, <1>11 DEF x, lo, IsPair, Denoted

\* The negation denotes the negation modulo B*B (ONeg, only fused).
THEOREM NegPairSound ==
  ASSUME NEW a, IsPair(a)
  PROVE  IsPair(NegPair(a)) /\ Denoted(NegPair(a)) = (-Denoted(a)) % Size
<1> DEFINE z == [hi |-> K(0), lo |-> K(0)]
<1>1. IsPair(z) /\ Denoted(z) = 0
  <2>1. z.hi = K(0) /\ z.lo = K(0) /\ K(0).n = 0 /\ K(0).lit = TRUE
    BY DEF K
  <2>2. 0 \in Digit /\ 0 * B + 0 = 0
    BY Base DEF Digit
  <2> QED
    BY <2>1, <2>2 DEF IsPair, IsDigit, Denoted
<1>2. Denoted(a) \in Int
  BY Base, DigitValue DEF IsPair, Denoted
<1>3. NegPair(a) = SubPair(z, a)
  BY DEF NegPair
<1> HIDE DEF z
<1>4. IsPair(SubPair(z, a)) /\ Denoted(SubPair(z, a)) = (Denoted(z) - Denoted(a)) % Size
  BY <1>1, SubPairSound
<1>5. Denoted(z) - Denoted(a) = -Denoted(a)
  BY <1>1, <1>2
<1> QED
  BY <1>3, <1>4, <1>5

\* The complement, digit by digit and unmasked, is -x - 1 modulo B*B (ONot, only
\* fused).
THEOREM NotPairSound ==
  ASSUME NEW a, IsPair(a)
  PROVE  IsPair(NotPair(a)) /\ Denoted(NotPair(a)) = (-Denoted(a) - 1) % Size
<1>1. B \in Nat /\ B >= 4 /\ Size \in Nat /\ Size = B * B /\ Size > B
  BY Base DEF Size
<1>2. /\ Written(a.hi) /\ a.hi.n \in Int /\ 0 <= a.hi.n /\ a.hi.n <= B - 1
      /\ Written(a.lo) /\ a.lo.n \in Int /\ 0 <= a.lo.n /\ a.lo.n <= B - 1
  BY DigitValue DEF IsPair
<1>3. Written(K(B - 1)) /\ K(B - 1).n = B - 1
  BY <1>1, ConstantValue
<1> DEFINE h == Minus(K(B - 1), a.hi)
           l == Minus(K(B - 1), a.lo)
<1>4. Written(h) /\ h.n = B - 1 - a.hi.n /\ Written(l) /\ l.n = B - 1 - a.lo.n
  BY <1>2, <1>3, MinusValue
<1>5. NotPair(a) = [hi |-> h, lo |-> l]
  BY DEF NotPair
<1> HIDE DEF h, l
<1>6. IsDigit(h) /\ IsDigit(l)
  BY <1>1, <1>2, <1>4 DEF IsDigit, Digit, Written
<1> DEFINE x == -Denoted(a) - 1
<1>7. x \in Int /\ x = Size * (-1) + (h.n * B + l.n)
  <2>1. h.n * B = B * B - B - a.hi.n * B
    BY <1>1, <1>2, <1>4, SMT
  <2> QED
    BY <1>1, <1>2, <1>4, <2>1, SMT DEF Denoted
<1> HIDE DEF x
<1>8. (h.n % B) * B + l.n = x % Size
  <2>1. l.n \in Digit /\ h.n \in Int /\ -1 \in Int
    BY <1>4, <1>6 DEF IsDigit, Written
  <2> QED
    BY <1>7, <2>1, DigitsOfResidue
<1>9. h.n % B = h.n
  BY <1>1, <1>6, SMT DEF IsDigit, Digit
<1> QED
  BY <1>5, <1>6, <1>8, <1>9 DEF x, IsPair, Denoted

-----------------------------------------------------------------------------
(* The product. *)

LEMMA HalfValue ==
  ASSUME NEW a, Written(a)
  PROVE  /\ Written(LowHalf(a)) /\ LowHalf(a).n = a.n % H
         /\ Written(HighHalf(a)) /\ HighHalf(a).n = a.n \div H
<1>1. HalfBits # 0
  BY PairAssumption, SMT
<1>2. H \in Nat /\ H > 0
  BY Base
<1>3. Written(Mask(a, H)) /\ Mask(a, H).n = a.n % H
  BY <1>2, MaskValue, Zenon
<1>4. Written(Shifted(a, HalfBits, H)) /\ Shifted(a, HalfBits, H).n = a.n \div H
  BY <1>1, <1>2, ShiftedValue, Zenon
<1> QED
  BY <1>3, <1>4 DEF LowHalf, HighHalf

\* The low digits' product, computed by halves, is exact: its low digit and the
\* carry into the high one.
LEMMA HalvesProduct ==
  ASSUME NEW x, NEW y, Written(x), Written(y)
  PROVE  LET mid == Mid(x, y)
             low == LowSum(x, y, mid)
             high == HighSum(x, y, mid)
         IN  /\ Written(low) /\ Written(high)
             /\ x.n * y.n = high.n * B + (low.n % B)
<1> DEFINE mid == Mid(x, y)
           low == LowSum(x, y, mid)
           high == HighSum(x, y, mid)
           x0 == x.n % H
           x1 == x.n \div H
           y0 == y.n % H
           y1 == y.n \div H
           m == x0 * y1 + x1 * y0
           m0 == m % H
           m1 == m \div H
           l == x0 * y0 + m0 * H
           c == l \div B
<1>1. H \in Nat /\ H > 0 /\ B \in Nat /\ B > 0 /\ B = H * H /\ x.n \in Int /\ y.n \in Int
  BY Base DEF B, Written
<1>2. /\ x0 \in Int /\ x1 \in Int /\ x.n = H * x1 + x0
      /\ y0 \in Int /\ y1 \in Int /\ y.n = H * y1 + y0
  BY <1>1, DivMod
<1>3. m \in Int
  BY <1>2
<1>4. m0 \in Int /\ m1 \in Int /\ m = H * m1 + m0
  <2> HIDE DEF m
  <2> QED
    BY <1>1, <1>3, DivMod
<1>5. l \in Int
  BY <1>1, <1>2, <1>4
<1>6. c \in Int /\ l % B \in Int /\ l = B * c + (l % B)
  <2> HIDE DEF l
  <2> QED
    BY <1>1, <1>5, DivMod
<1>7. Written(mid) /\ mid.n = m
  <2>1. /\ Written(Times(LowHalf(x), HighHalf(y))) /\ Times(LowHalf(x), HighHalf(y)).n = x0 * y1
        /\ Written(Times(HighHalf(x), LowHalf(y))) /\ Times(HighHalf(x), LowHalf(y)).n = x1 * y0
    BY HalfValue, TimesValue
  <2> QED
    BY <2>1, PlusValue DEF Mid
<1> HIDE DEF mid, m, x0, x1, y0, y1
<1>8. Written(low) /\ low.n = l
  <2>1. Written(K(H)) /\ K(H).n = H
    BY <1>1, ConstantValue
  <2>2. Written(LowHalf(mid)) /\ LowHalf(mid).n = m0
    BY <1>7, HalfValue
  <2>3. Written(Times(LowHalf(mid), K(H))) /\ Times(LowHalf(mid), K(H)).n = m0 * H
    BY <2>1, <2>2, TimesValue
  <2>4. Written(Times(LowHalf(x), LowHalf(y))) /\ Times(LowHalf(x), LowHalf(y)).n = x0 * y0
    BY HalfValue, TimesValue DEF x0, y0
  <2> QED
    BY <2>3, <2>4, PlusValue DEF LowSum
<1> HIDE DEF low, l, m0, m1
<1>9. Written(high) /\ high.n = x1 * y1 + m1 + c
  <2>1. Written(Times(HighHalf(x), HighHalf(y))) /\ Times(HighHalf(x), HighHalf(y)).n = x1 * y1
    BY HalfValue, TimesValue DEF x1, y1
  <2>2. Written(HighHalf(mid)) /\ HighHalf(mid).n = m1
    BY <1>7, HalfValue DEF m1
  <2>3. /\ Written(Plus(Times(HighHalf(x), HighHalf(y)), HighHalf(mid)))
        /\ Plus(Times(HighHalf(x), HighHalf(y)), HighHalf(mid)).n = x1 * y1 + m1
    BY <2>1, <2>2, PlusValue
  <2>4. Written(Carry(low)) /\ Carry(low).n = c
    BY <1>8, CarryValue
  <2> QED
    BY <2>3, <2>4, PlusValue DEF low, HighSum
<1> HIDE DEF high, c
<1>10. x.n * y.n = high.n * B + (l % B)
  <2> DEFINE e == l % B
  <2>1. x.n * y.n = (H * x1 + x0) * (H * y1 + y0)
    BY <1>2
  <2>2. (H * x1 + x0) * (H * y1 + y0) = (H * H) * (x1 * y1) + H * (x0 * y1 + x1 * y0) + x0 * y0
    BY <1>1, <1>2, SMT
  <2>3. H * (x0 * y1 + x1 * y0) = (H * H) * m1 + m0 * H
    <3>1. x0 * y1 + x1 * y0 = H * m1 + m0
      BY <1>4 DEF m
    <3> QED
      BY <3>1, <1>1, <1>4, SMT
  <2>4. x0 * y0 + m0 * H = B * c + e
    BY <1>6 DEF l
  <2> HIDE DEF e
  <2>5. e \in Int
    BY <1>6 DEF e
  <2>6. high.n * B = B * (x1 * y1) + B * m1 + B * c
    BY <1>1, <1>2, <1>4, <1>6, <1>9, SMT
  <2> DEFINE p == B * (x1 * y1)
             q == B * m1
             r == B * c
             u == x0 * y0
             v == m0 * H
  <2>7. p \in Int /\ q \in Int /\ r \in Int /\ u \in Int /\ v \in Int
    BY <1>1, <1>2, <1>4, <1>6
  <2>8. x.n * y.n = p + (q + v) + u /\ u + v = r + e /\ high.n * B = p + q + r
    BY <2>1, <2>2, <2>3, <2>4, <2>6, <1>1
  <2> HIDE DEF p, q, r, u, v
  <2> QED
    BY <2>5, <2>7, <2>8, SMT DEF e
<1> QED
  BY <1>8, <1>9, <1>10 DEF mid, low, high

\* A wrapping operation leaves its operand modulo B.
LEMMA WrappedValue ==
  ASSUME NEW n \in Int
  PROVE  Wrapped(n) \in Int /\ \E k \in Int : Wrapped(n) = n + B * k
<1> DEFINE f == B \div 2
           q == (n + f) \div B
           r == (n + f) % B
<1>1. B \in Nat /\ B > 0 /\ f \in Int /\ n + f \in Int
  BY Base
<1>2. q \in Int /\ r \in Int /\ n + f = B * q + r
  <2> HIDE DEF f
  <2> QED
    BY <1>1, DivMod
<1>3. Wrapped(n) = r - f
  BY DEF Wrapped
<1> HIDE DEF f, q, r
<1>4. r - f = n + B * (-q)
  BY <1>1, <1>2, SMT
<1> QED
  BY <1>1, <1>2, <1>3, <1>4

\* A cross term, wrapped into the carry, is added modulo B.
LEMMA CrossedValue ==
  ASSUME NEW c, NEW x, NEW y, Written(c), Written(x), Written(y)
  PROVE  LET z == Crossed(c, x, y)
         IN  Written(z) /\ \E k \in Int : z.n = c.n + x.n * y.n + B * k
<1> DEFINE w == Wrapped(x.n * y.n)
           z == Crossed(c, x, y)
<1>1. c.n \in Int /\ x.n \in Int /\ y.n \in Int /\ x.n * y.n \in Int /\ B \in Int
  BY Base DEF Written
<1>2. CASE Is(x, 0) \/ Is(y, 0)
  <2>1. z = c
    BY <1>2 DEF Crossed
  <2>2. x.n * y.n = 0
    BY <1>1, <1>2 DEF Is
  <2>3. c.n = c.n + x.n * y.n + B * 0
    BY <1>1, <2>2
  <2> QED
    BY <2>1, <2>3
<1>3. CASE ~(Is(x, 0) \/ Is(y, 0))
  <2>1. z = Fused(c.n + w, c.ok /\ x.ok /\ y.ok)
    BY <1>3 DEF Crossed
  <2>2. PICK j \in Int : w = x.n * y.n + B * j
    BY <1>1, WrappedValue
  <2>3. w \in Int
    BY <1>1, WrappedValue
  <2> HIDE DEF w
  <2>4. c.n + w \in Int
    BY <1>1, <2>3
  <2>5. Wrapped(c.n + w) \in Int
    BY <2>4, WrappedValue
  <2>6. PICK i \in Int : Wrapped(c.n + w) = c.n + w + B * i
    BY <2>4, WrappedValue
  <2>7. Written(z) /\ z.n = Wrapped(c.n + w)
    BY <2>1, <2>4, <2>5, EmittedValue
  <2>8. c.n + w + B * i = c.n + x.n * y.n + B * (i + j)
    BY <1>1, <2>2, <2>3, <2>6, SMT
  <2> QED
    BY <2>6, <2>7, <2>8
<1> QED
  BY <1>2, <1>3

\* The product, its low digits' by halves and its cross terms wrapped, denotes
\* the product modulo B*B (OMul in arith).
THEOREM MulPairSound ==
  ASSUME NEW a, NEW b, IsPair(a), IsPair(b)
  PROVE  /\ IsPair(MulPair(a, b))
         /\ Denoted(MulPair(a, b)) = (Denoted(a) * Denoted(b)) % Size
<1> DEFINE mid == Mid(a.lo, b.lo)
           low == LowSum(a.lo, b.lo, mid)
           high == HighSum(a.lo, b.lo, mid)
           one == Crossed(high, a.hi, b.lo)
           two == Crossed(one, a.lo, b.hi)
           ah == a.hi.n
           al == a.lo.n
           bh == b.hi.n
           bl == b.lo.n
<1>1. B \in Nat /\ B > 0 /\ Size \in Nat /\ Size = B * B
  BY Base DEF Size
<1>2. /\ Written(a.hi) /\ ah \in Int /\ Written(a.lo) /\ al \in Int
      /\ Written(b.hi) /\ bh \in Int /\ Written(b.lo) /\ bl \in Int
  BY DigitValue DEF IsPair
<1>3. Written(low) /\ Written(high) /\ al * bl = high.n * B + (low.n % B)
  BY <1>2, HalvesProduct
<1>4. MulPair(a, b) = [hi |-> Mask(two, B), lo |-> Mask(low, B)]
  BY DEF MulPair, Product
<1> HIDE DEF mid, low, high
<1>5. Written(one) /\ \E k \in Int : one.n = high.n + ah * bl + B * k
  BY <1>2, <1>3, CrossedValue
<1>6. Written(two) /\ \E k \in Int : two.n = one.n + al * bh + B * k
  BY <1>2, <1>5, CrossedValue
<1> HIDE DEF one, two
<1>7. PICK i \in Int : one.n = high.n + ah * bl + B * i
  BY <1>5
<1>8. PICK j \in Int : two.n = one.n + al * bh + B * j
  BY <1>6
<1>9. /\ IsDigit(Mask(two, B)) /\ Mask(two, B).n = two.n % B
      /\ IsDigit(Mask(low, B)) /\ Mask(low, B).n = low.n % B
  BY <1>3, <1>6, MaskedDigit
<1> DEFINE x == Denoted(a) * Denoted(b)
           lo == low.n % B
           k == ah * bh - (i + j)
<1>10. /\ high.n \in Int /\ two.n \in Int /\ low.n \in Int /\ lo \in Digit /\ lo \in Int
  BY <1>1, <1>3, <1>6, DivMod DEF Written, Digit
<1>11. x \in Int /\ k \in Int /\ x = Size * k + (two.n * B + lo)
  <2> HIDE DEF lo
  <2>1. x = (ah * B + al) * (bh * B + bl)
    BY DEF Denoted
  <2> HIDE DEF x, ah, al, bh, bl
  <2>2. (ah * B + al) * (bh * B + bl) = Size * (ah * bh) + (ah * bl + al * bh) * B + al * bl
    BY <1>1, <1>2, SMT
  <2>3. two.n = high.n + ah * bl + al * bh + B * (i + j)
    BY <1>1, <1>2, <1>7, <1>8, <1>10, SMT
  <2>4. two.n * B = high.n * B + (ah * bl + al * bh) * B + Size * (i + j)
    BY <1>1, <1>2, <1>10, <2>3, SMT
  <2>5. Size * k = Size * (ah * bh) - Size * (i + j)
    BY <1>1, <1>2, SMT
  <2> DEFINE p == Size * (ah * bh)
             q == (ah * bl + al * bh) * B
             r == Size * (i + j)
             t == high.n * B
  <2>6. p \in Int /\ q \in Int /\ r \in Int /\ t \in Int /\ k \in Int
    BY <1>1, <1>2, <1>10
  <2>7. x = p + q + (t + lo) /\ two.n * B = t + q + r /\ Size * k = p - r
    BY <1>3, <2>1, <2>2, <2>4, <2>5 DEF al, bl, lo
  <2> HIDE DEF p, q, r, t, k
  <2> QED
    BY <1>10, <2>6, <2>7, SMT
<1> HIDE DEF x, k, lo
<1>12. (two.n % B) * B + lo = x % Size
  BY <1>10, <1>11, DigitsOfResidue
<1> QED
  BY <1>4, <1>9, <1>12 DEF x, lo, IsPair, Denoted

-----------------------------------------------------------------------------
(* The moves between the representations are the identity. *)

\* The digits of a constant denote it (toPair), and a pair written into the word
\* is what it denotes (toS).
THEOREM MovesSound ==
  /\ \A c \in 0 .. Size - 1 : IsPair(DigitsOf(c)) /\ Denoted(DigitsOf(c)) = c
  /\ \A d : IsPair(d) => ToS(d).n = Denoted(d)
<1>1. B \in Nat /\ B > 0 /\ Size \in Nat /\ Size = B * B
  BY Base DEF Size
<1>2. ASSUME NEW c \in 0 .. Size - 1
      PROVE  IsPair(DigitsOf(c)) /\ Denoted(DigitsOf(c)) = c
  <2> DEFINE q == c \div B
             r == c % B
  <2>1. q \in Int /\ r \in 0 .. B - 1 /\ c = B * q + r /\ c \in Int /\ 0 <= c /\ c < B * B
    BY <1>1, DivMod
  <2>2. DigitsOf(c) = [hi |-> K(q), lo |-> K(r)]
    BY DEF DigitsOf
  <2> HIDE DEF q, r
  <2>3. 0 <= q
    <3> SUFFICES ASSUME q <= -1 PROVE FALSE
      BY <2>1, SMT
    <3>1. B * q <= -B
      BY <1>1, <2>1, SMT
    <3> QED
      BY <3>1, <1>1, <2>1, SMT
  <2>4. q <= B - 1
    <3> SUFFICES ASSUME q >= B PROVE FALSE
      BY <1>1, <2>1, SMT
    <3>1. B * q >= B * B
      BY <1>1, <2>1, SMT
    <3> QED
      BY <3>1, <1>1, <2>1, SMT
  <2>5. K(q).n = q /\ K(q).lit = TRUE /\ K(r).n = r /\ K(r).lit = TRUE
    BY DEF K
  <2>6. q \in Digit /\ r \in Digit
    BY <1>1, <2>1, <2>3, <2>4 DEF Digit
  <2>7. IsPair(DigitsOf(c))
    <3>1. DigitsOf(c).hi = K(q) /\ DigitsOf(c).lo = K(r)
      BY <2>2
    <3>2. IsDigit(K(q)) /\ IsDigit(K(r))
      BY <2>5, <2>6, Zenon DEF IsDigit
    <3> QED
      BY <3>1, <3>2, Zenon DEF IsPair
  <2>8. Denoted(DigitsOf(c)) = q * B + r
    BY <2>2, <2>5 DEF Denoted
  <2> QED
    BY <1>1, <2>1, <2>7, <2>8
<1>3. ASSUME NEW d, IsPair(d)
      PROVE  ToS(d).n = Denoted(d)
  <2>1. /\ Written(d.hi) /\ d.hi.n \in Int
        /\ Written(d.lo) /\ d.lo.n \in Int
    BY <1>3, DigitValue DEF IsPair
  <2>2. CASE Is(d.hi, 0)
    BY <1>1, <2>1, <2>2 DEF ToS, Denoted, Is
  <2>3. CASE ~Is(d.hi, 0)
    <3>1. Written(K(B)) /\ K(B).n = B
      BY <1>1, ConstantValue
    <3>2. Written(Times(d.hi, K(B))) /\ Times(d.hi, K(B)).n = d.hi.n * B
      BY <2>1, <3>1, TimesValue
    <3> QED
      BY <2>1, <2>3, <3>2, PlusValue DEF ToS, Denoted
  <2> QED
    BY <2>2, <2>3
<1> QED
  BY <1>2, <1>3
=============================================================================
