-------------------------------- MODULE Pairs --------------------------------
(***************************************************************************)
(* SelectPairs (ir/pairs.go) rewriting a function, beside an execution of  *)
(* it.  Each step is one statement of the function: the program computes   *)
(* an integer, the decision before the pass bounds it, and the pass holds  *)
(* it as a word or as two digits and writes the operations that compute    *)
(* them.                                                                   *)
(*                                                                         *)
(* A value is [t, fact, lit, wrap, pair, d, inImage]:                      *)
(*   t      the integer the program computes;                              *)
(*   fact   the first decision's interval (f.facts);                       *)
(*   lit    it is a closed constant;                                       *)
(*   wrap   its operation was fused under `mod 2^n` (mode wrap64), so      *)
(*          that only t modulo 2^WordBits is read;                         *)
(*   pair   it is held as a pair;                                          *)
(*   d      its digits; a word w is [hi |-> K(0), lo |-> w];               *)
(*   inImage  its fact, and that of every value it is computed from, lies  *)
(*          in 0..UMax or in the word.                                     *)
(*                                                                         *)
(* A statement the pass refuses to expand is no step: the program is       *)
(* refused.  So is a program with a digit the second decision cannot prove *)
(* in the word, and no step follows one.                                   *)
(***************************************************************************)
EXTENDS PairDigits, Sequences, FiniteSets, Bitwise

CONSTANTS Params,    \* [t, fact]: what a parameter, proven in the word, may hold
          Loops,     \* [t, fact]: what a loop's parameter held as a pair may hold
          Literals,  \* the integer literals
          Counts,    \* the constant shift counts
          Divisors,  \* the constant divisors, and the moduli
          MaxOps     \* bound: the statements

VARIABLE vals
pairsVars == <<vals>>

ASSUME InputsAssumption ==
  /\ \A p \in Params : In(p.t, p.fact) /\ InWord(p.fact)
  /\ \A p \in Loops : In(p.t, p.fact) /\ Within(p.fact, 0, UMax) /\ ~InWord(p.fact)
  /\ Literals \subseteq 0 .. UMax /\ Counts \subseteq Nat
  /\ Divisors \subseteq 1 .. (Half - 1)
  /\ MaxOps \in Nat

-----------------------------------------------------------------------------
(* What the program computes. *)

Width == 2^28 \* above every integer a bounded run computes
Signed(n) == IF n >= Width \div 2 THEN n - Width ELSE n

Semantics(op, x, y) ==
  CASE op = "add" -> x + y
    [] op = "sub" -> x - y
    [] op = "mul" -> x * y
    [] op = "neg" -> -x
    [] op = "not" -> -x - 1
    [] op = "and" -> Signed((x % Width) & (y % Width))
    [] op = "or"  -> Signed((x % Width) | (y % Width))
    [] op = "xor" -> Signed((x % Width) ^^ (y % Width))
    [] op = "shl" -> x * 2^y
    [] op = "shr" -> x \div 2^y
    [] op = "div" -> Quo(x, y)
    [] op = "rem" -> Rem(x, y)
    [] op = "mod" -> x % y
    [] op = "u64-of" -> x % Size

Transfer(op, a, b) ==
  CASE op = "add" -> AddIV(a, b)
    [] op = "sub" -> SubIV(a, b)
    [] op = "mul" -> MulIV(a, b)
    [] op = "neg" -> NegIV(a)
    [] op = "not" -> NotZ(a)
    [] op = "and" -> AndZ(a, b)
    [] op = "or"  -> OrZ(a, b)
    [] op = "xor" -> XorZ(a, b)
    [] op = "shl" -> ShlZ(a, b)
    [] op = "shr" -> ShrZ(a, b)
    [] op = "div" -> DivIV(a, b)
    [] op = "rem" -> RemIV(a, b)
    [] op = "mod" -> ModZ(a, b)
    [] op = "u64-of" -> U64Of(a)

InU(iv) == Within(iv, 0, UMax)
Word(w) == [hi |-> K(0), lo |-> w]

\* classify: a value whose fact lies in 0..UMax and outside the word.
AboveWord(iv) == InU(iv) /\ ~InWord(iv)

Value(t, fact, lit, wrap, pair, d, from) ==
  [t |-> t, fact |-> fact, lit |-> lit, wrap |-> wrap, pair |-> pair, d |-> d,
   inImage |-> /\ wrap \/ InU(fact) \/ InWord(fact)
               /\ \A v \in from : v.inImage]

Literal(c) ==
  Value(c, Exact(c), TRUE, FALSE, AboveWord(Exact(c)),
        IF AboveWord(Exact(c)) THEN DigitsOf(c) ELSE Word(K(c)), {})

Param(p) ==
  Value(p.t, p.fact, FALSE, FALSE, FALSE, Word(Emitted(p.t, p.fact, TRUE)), {})

\* A loop's parameter: each digit is bounded by the mask its continues write.
MaskedDigit(n) == Emitted(n, RangeE(0, B - 1), TRUE)
LoopPair(p) ==
  Value(p.t, p.fact, FALSE, FALSE, TRUE,
        [hi |-> MaskedDigit(p.t \div B), lo |-> MaskedDigit(p.t % B)], {})

-----------------------------------------------------------------------------
(* toPair: the digits of an operand, and when there are none. *)

HasPair(v, residue) ==
  \/ v.pair
  \/ residue
  \/ IF v.d.lo.lit THEN v.d.lo.n \in 0 .. UMax ELSE Within(v.fact, 0, WordHi)

ToPair(v, residue) ==
  LET w == v.d.lo
  IN  CASE v.pair -> v.d
        [] ~v.pair /\ w.lit -> DigitsOf(IF residue THEN w.n % Size ELSE w.n)
        [] ~v.pair /\ ~w.lit /\ Within(v.fact, 0, B - 1) -> [hi |-> K(0), lo |-> w]
        [] ~v.pair /\ ~w.lit /\ ~Within(v.fact, 0, B - 1) /\ Within(v.fact, 0, WordHi) ->
             [hi |-> Carry(w), lo |-> Mask(w, B)]
        [] OTHER -> [hi |-> Mask(Carry(w), B), lo |-> Mask(w, B)]

Proven(v) == v.d.hi.ok /\ v.d.lo.ok

-----------------------------------------------------------------------------
(* arith: the operations on pairs that are digit by digit, and the shifts. *)

Dig(op, x, y) ==
  CASE op = "and" /\ (Is(x, 0) \/ Is(y, 0)) -> K(0)
    [] op # "and" /\ Is(x, 0) -> y
    [] op # "and" /\ ~Is(x, 0) /\ Is(y, 0) -> x
    [] OTHER -> Emitted(Semantics(op, x.n, y.n), Transfer(op, x.iv, y.iv), x.ok /\ y.ok)

\* Bits that cross from one digit to the other.
OrDigits(x, y) == Mask(Emitted(x.n | y.n, OrZ(x.iv, y.iv), x.ok /\ y.ok), B)

ShlPair(a, k) ==
  CASE k >= 2 * DigitBits -> [hi |-> K(0), lo |-> K(0)]
    [] k >= DigitBits /\ k < 2 * DigitBits ->
         [hi |-> ShlDigit(a.lo, k - DigitBits), lo |-> K(0)]
    [] k \in 1 .. DigitBits - 1 ->
         [hi |-> OrDigits(ShlDigit(a.hi, k), Shr(a.lo, DigitBits - k)), lo |-> ShlDigit(a.lo, k)]
    [] k = 0 -> a

ShrPair(a, k) ==
  CASE k >= 2 * DigitBits -> [hi |-> K(0), lo |-> K(0)]
    [] k >= DigitBits /\ k < 2 * DigitBits -> [hi |-> K(0), lo |-> Shr(a.hi, k - DigitBits)]
    [] k \in 1 .. DigitBits - 1 ->
         [hi |-> Shr(a.hi, k), lo |-> OrDigits(Shr(a.lo, k), ShlDigit(a.hi, DigitBits - k))]
    [] k = 0 -> a

RemPair(a, k) ==
  CASE k >= 2 * DigitBits -> a
    [] k >= DigitBits /\ k < 2 * DigitBits -> [hi |-> Mask(a.hi, 2^(k - DigitBits)), lo |-> a.lo]
    [] OTHER -> [hi |-> K(0), lo |-> Mask(a.lo, 2^k)]

Log2(c) == CHOOSE k \in 0 .. WordBits : 2^k = c
IsPower(c) == \E k \in 0 .. WordBits : 2^k = c

Expanded(op, a, b, c) ==
  CASE op = "add" -> AddPair(a, b)
    [] op = "sub" -> SubPair(a, b)
    [] op = "mul" -> MulPair(a, b)
    [] op = "neg" -> NegPair(a)
    [] op = "not" -> NotPair(a)
    [] op \in {"and", "or", "xor"} -> [hi |-> Dig(op, a.hi, b.hi), lo |-> Dig(op, a.lo, b.lo)]
    [] op = "shl" -> ShlPair(a, c)
    [] op = "shr" -> ShrPair(a, c)
    [] op = "div" -> ShrPair(a, Log2(c))
    [] op \in {"rem", "mod"} -> RemPair(a, Log2(c))
    [] op = "u64-of" -> a

\* setResult: a pair keeps its digits, a value of the word is written hi*B + lo.
SetResult(pair, d) == IF pair THEN d ELSE Word(ToS(d))

WordOp(op, x, y, iv, lit) ==
  Word([n |-> Semantics(op, x.n, y.n), iv |-> iv, lit |-> lit, ok |-> x.ok /\ y.ok /\ InWord(iv)])
Plain(op, x, y, lit) == WordOp(op, x, y, Transfer(op, x.iv, y.iv), lit)

-----------------------------------------------------------------------------
(* One statement.  Rewritten is what stmt writes for r = op(a, b); Built is *)
(* that it writes something.                                                *)

Shifts == {"shl", "shr"}
Quotients == {"div", "rem", "mod"}

\* Operations that have an expansion only in mode wrap64.
OnlyWrapped(op, wrap) == op \in {"neg", "not"} /\ ~wrap

OperandResidue(op, pair) == pair /\ op \notin {"shr"} \union Quotients

Built(op, wrap, a, b, pair) ==
  \/ ~(a.pair \/ b.pair \/ pair)
  \/ OnlyWrapped(op, wrap) /\ ~pair
  \/ /\ ~OnlyWrapped(op, wrap)
     /\ op \in Quotients => IsPower(b.t)
     /\ HasPair(a, OperandResidue(op, pair))
     /\ op \notin Shifts \union Quotients => HasPair(b, OperandResidue(op, pair))

Rewritten(op, wrap, a, b, t, lit, pair, residue) ==
  CASE ~(a.pair \/ b.pair \/ pair) -> Plain(op, a.d.lo, b.d.lo, lit)
    [] lit /\ pair -> DigitsOf(t)
    [] OnlyWrapped(op, wrap) /\ ~pair /\ (a.pair \/ b.pair) -> Plain(op, ToS(a.d), ToS(b.d), FALSE)
    [] OTHER -> SetResult(pair, Expanded(op, ToPair(a, residue), ToPair(b, residue), b.t))

Stmt(op, wrap, a, b, t, fact, lit, pair) ==
  /\ lit \/ Built(op, wrap, a, b, pair)
  /\ vals' = Append(vals, Value(t, fact, lit, wrap, pair,
                               Rewritten(op, wrap, a, b, t, lit, pair, OperandResidue(op, pair)),
                               {a, b}))

Fact(op, wrap, a, b) == IF wrap THEN U ELSE Transfer(op, a.fact, b.fact)

Run(op, wrap, a, b, fact) ==
  Stmt(op, wrap, a, b, Semantics(op, a.t, b.t), fact,
       a.lit /\ b.lit /\ op \in {"add", "sub", "mul"}, wrap \/ AboveWord(fact))

Values == {vals[i] : i \in DOMAIN vals}
Newest == vals[Len(vals)]

\* Bound: a statement after the first reads the one before it, once.
Operands ==
  {ab \in Values \X Values : Len(vals) > 2 => ab[1] # ab[2] /\ Newest \in {ab[1], ab[2]}}
Operand == {v \in Values : Len(vals) > 2 => v = Newest}

Proceeds == Len(vals) < MaxOps + 2 /\ \A v \in Values : Proven(v)

\* A binary operation, exact or under a `mod 2^n` wider than a digit.  A fused
\* operation's value is read only by fused ones and by its `mod`.
Binary ==
  \E ab \in Operands, op \in {"add", "sub", "mul", "and", "or", "xor"}, wrap \in BOOLEAN :
    LET a == ab[1]
        b == ab[2]
    IN  /\ Proceeds
        /\ IF wrap THEN ~(a.lit /\ b.lit) ELSE ~a.wrap /\ ~b.wrap
        /\ Run(op, wrap, a, b, Fact(op, wrap, a, b))

Unary ==
  \E a \in Operand, op \in {"neg", "not"}, wrap \in BOOLEAN :
    /\ Proceeds
    /\ IF wrap THEN ~a.lit ELSE ~a.wrap
    /\ Run(op, wrap, a, a, Fact(op, wrap, a, a))

\* A shift by a constant; fused, by one below 2*DigitBits (Fuse).
Shift ==
  \E a \in Operand, op \in Shifts, k \in Counts, wrap \in BOOLEAN :
    /\ Proceeds
    /\ IF wrap THEN op = "shl" /\ ~a.lit /\ k < 2 * DigitBits ELSE ~a.wrap
    /\ Run(op, wrap, a, Literal(k), Fact(op, wrap, a, Literal(k)))

Quotient ==
  \E a \in Operand, op \in Quotients, c \in Divisors :
    /\ Proceeds /\ ~a.wrap
    /\ Run(op, FALSE, a, Literal(c), Transfer(op, a.fact, Exact(c)))

\* `mod 2^n` over a fused operation: a mask for n below 2*DigitBits, u64-of at it.
ModOfFused ==
  \E a \in Operand :
    /\ Proceeds /\ a.wrap
    /\ \/ \E n \in DigitBits + 1 .. 2 * DigitBits - 1 :
             Run("and", FALSE, a, Literal(2^n - 1), AndZ(a.fact, Exact(2^n - 1)))
       \/ Run("u64-of", FALSE, a, a, U64Of(a.fact))

-----------------------------------------------------------------------------
(* A join: an `if`'s result, or a loop's parameter, which has no defining      *)
(* statement and so is not tried against 0..UMax.  The execution took a's arm. *)

\* Mutant: a join keeps the fact of the arm it met last.
JoinDigit_LastArm(x, y) == [n |-> x.n, iv |-> y.iv, lit |-> FALSE, ok |-> x.ok /\ y.ok]

JoinDigit(x, y) ==
  [n |-> x.n, iv |-> JoinIV(x.iv, y.iv), lit |-> FALSE, ok |-> x.ok /\ y.ok]
JoinDigits(x, y) == [hi |-> JoinDigit(x.hi, y.hi), lo |-> JoinDigit(x.lo, y.lo)]

Joined(a, b, fact, pair, param) ==
  /\ pair => HasPair(a, FALSE) /\ HasPair(b, FALSE) /\ (param \/ InU(fact))
  /\ vals' = Append(vals, Value(a.t, fact, FALSE, FALSE, pair,
                     IF pair THEN JoinDigits(ToPair(a, FALSE), ToPair(b, FALSE))
                             ELSE Word(JoinDigit(a.d.lo, b.d.lo)), {a, b}))

Join ==
  \E ab \in Operands, param \in BOOLEAN :
    LET a == ab[1]
        b == ab[2]
    IN  /\ Proceeds /\ a # b /\ ~a.wrap /\ ~b.wrap
        /\ Joined(a, b, JoinIV(a.fact, b.fact),
                  a.pair \/ b.pair \/ AboveWord(JoinIV(a.fact, b.fact)), param)

-----------------------------------------------------------------------------
Start == {Literal(c) : c \in Literals} \union {Param(p) : p \in Params}
         \union {LoopPair(p) : p \in Loops}

PairsInit == \E a \in Start, b \in Start : vals = <<a, b>>

PairsNext == Binary \/ Unary \/ Shift \/ Quotient \/ ModOfFused \/ Join

PairsSpec == PairsInit /\ [][PairsNext]_pairsVars

-----------------------------------------------------------------------------
Accepted == \A v \in Values : Proven(v)

\* What a pair denotes is its integer, or its residue where only that is read;
\* a word is its integer.
Denotes(v) ==
  IF v.pair
  THEN /\ v.d.hi.n \in Digit /\ v.d.lo.n \in Digit
       /\ Denoted(v.d) = IF v.wrap THEN v.t % Size ELSE v.t
  ELSE v.d.lo.n = v.t /\ v.t \in -WordHi .. WordHi

\* Every operation's fact holds of what it computes, in both decisions.
PairsTypeOK ==
  /\ Len(vals) \in 2 .. MaxOps + 2
  /\ \A v \in Values :
       /\ v.inImage /\ ~v.wrap => In(v.t, v.fact)
       /\ In(v.d.hi.n, v.d.hi.iv) /\ In(v.d.lo.n, v.d.lo.iv)

\* Where every value's fact lies in what a representation holds, an accepted
\* program computes the integers it computes without the pass (ADR 0083's
\* representation independence).
RepresentationIndependent == Accepted => \A v \in Values : v.inImage => Denotes(v)

\* Every operation the pass writes for a pair's digits is on integers below 4*B
\* or fused, so the second decision proves it (the header of ir/pairs.go): only
\* a result in the word can be refused there.
DigitsProven == \A v \in Values : v.pair => Proven(v)

\* An accepted program's values are the integers it computes, whatever the facts
\* of the first decision: the second one refuses the others (ir/pairs.go).
AcceptedDenotes == Accepted => \A v \in Values : Denotes(v)
=============================================================================
