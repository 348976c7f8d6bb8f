-------------------------------- MODULE Farkas --------------------------------
(***************************************************************************)
(* The linear entailment of emit/linear.go: whether rows e <= 0, already   *)
(* rewritten by the equations in scope, prove a goal g <= 0.  One fact,    *)
(* one fact scaled, two facts added, two facts with a variable cancelled,  *)
(* and then Fourier-Motzkin elimination of the facts connected to the      *)
(* goal together with its negation.                                        *)
(*                                                                         *)
(* A name is a number, ordered as strings are.  A row is [co, k]: the sum  *)
(* of co[n]*n, plus k; a name the code's map lacks has coefficient 0.      *)
(* int64 is the word -WordHalf..WordHalf-1; its arithmetic wraps except    *)
(* where the code checks.                                                  *)
(***************************************************************************)
EXTENDS Integers, Sequences, FiniteSetsExt

CONSTANTS NumNames,  \* how many names the facts speak of
          WordHalf,  \* 2^63 of the code
          MaxScale,  \* the largest multiplier scaleTo takes, 2^20
          MaxFacts,  \* farkasMaxFacts
          MaxRows    \* farkasMaxRows

ASSUME FarkasAssumption ==
  NumNames \in Nat \ {0} /\ {WordHalf, MaxScale, MaxFacts, MaxRows} \subseteq Nat \ {0} /\ WordHalf > 1

Names == 1..NumNames

Int64s == -WordHalf..(WordHalf - 1)
FitsWord(i) == i \in Int64s
Int64(i) == ((i + WordHalf) % (2 * WordHalf)) - WordHalf

Linears == [co : [Names -> Int64s], k : Int64s]

NamesOf(r) == {n \in Names : r.co[n] # 0}
Constant(k) == [co |-> [n \in Names |-> 0], k |-> k]
Variable(x) == [co |-> [n \in Names |-> IF n = x THEN 1 ELSE 0], k |-> 0]
Size(a) == IF a < 0 THEN -a ELSE a

\* ma*a + mb*b, in unchecked arithmetic.
Weighted(a, ma, b, mb) ==
  [co |-> [n \in Names |-> Int64(ma * a.co[n] + mb * b.co[n])], k |-> Int64(ma * a.k + mb * b.k)]
AddScaled(a, b, s) == Weighted(a, 1, b, s)

\* Mutant: the constants are compared the wrong way round.
Matches_Reversed(row, g, m) ==
  NamesOf(row) # {} /\ (\A n \in Names : g.co[n] = m * row.co[n]) /\ Int64(row.k * m) <= g.k

\* m times the row has the goal's variable part, and a constant as tight.
Matches(row, g, m) ==
  NamesOf(row) # {} /\ (\A n \in Names : g.co[n] = m * row.co[n]) /\ Int64(row.k * m) >= g.k

OneFact(le, g) == \E a \in le, m \in 1..MaxScale : Matches(a, g, m)
TwoFacts(le, g) == \E a, b \in le : a # b /\ Matches(Weighted(a, 1, b, 1), g, 1)

\* |b_v|*a + |a_v|*b, which no longer mentions v.
Cancelled(le, g) ==
  \E a, b \in le, v \in Names :
    /\ a.co[v] * b.co[v] < 0
    /\ \E m \in 1..MaxScale : Matches(Weighted(a, Size(b.co[v]), b, Size(a.co[v])), g, m)

---------------------------------------------------------------------------
(* Elimination. *)

Divisor(r) == Max({d \in 1..Max({Size(r.co[n]) : n \in NamesOf(r)}) :
                     \A n \in Names : r.co[n] % d = 0})

\* Divided by the gcd of the coefficients, the constant rounded up.
NormalRow(r) ==
  IF NamesOf(r) = {} THEN r
  ELSE [co |-> [n \in Names |-> r.co[n] \div Divisor(r)], k |-> -((-r.k) \div Divisor(r))]

\* The names given, and those of the facts that share one.
Shared(le, names) == names \cup UNION {NamesOf(a) : a \in {b \in le : NamesOf(b) \cap names # {}}}

\* The facts that share a name with the goal, or with one that does: every round
\* but the last finds a name.
Spread(le, names) ==
  LET found[i \in 0..NumNames] == IF i = 0 THEN names ELSE Shared(le, found[i - 1]) IN found[NumNames]
Connected(le, g) == {a \in le : NamesOf(a) \cap Spread(le, NamesOf(g)) # {}}

Above(sys, v) == {r \in sys : r.co[v] > 0}
Below(sys, v) == {r \in sys : r.co[v] < 0}

\* The variable whose elimination makes the fewest rows, the first of those.
Cheapest(sys) ==
  LET pairs(v) == Cardinality(Above(sys, v)) * Cardinality(Below(sys, v))
      appear   == UNION {NamesOf(r) : r \in sys}
  IN  CHOOSE v \in appear : \A w \in appear : pairs(v) < pairs(w) \/ (pairs(v) = pairs(w) /\ v <= w)

\* combine reports a product or a sum that leaves the word.
Combines(p, mp, n, mn) ==
  \A i \in Names \cup {0} :
    LET a == IF i = 0 THEN p.k ELSE p.co[i]
        b == IF i = 0 THEN n.k ELSE n.co[i]
    IN  FitsWord(mp * a) /\ FitsWord(mn * b) /\ FitsWord(mp * a + mn * b)

\* v eliminated: every upper bound with every lower bound, and the other rows.
\* A combination that overflows is dropped, which only weakens the system.
Projected(sys, v) ==
  (sys \ (Above(sys, v) \cup Below(sys, v)))
  \cup {NormalRow(Weighted(pn[1], -pn[2].co[v], pn[2], pn[1].co[v])) :
          pn \in {q \in Above(sys, v) \X Below(sys, v) : Combines(q[1], -q[2].co[v], q[2], q[1].co[v])}}

IsFalse(r) == NamesOf(r) = {} /\ r.k > 0

\* A round: nothing is left to do where a row is false or no row has a name, and
\* too many rows are given up, which leaves none.
Round(sys) ==
  IF (\E r \in sys : IsFalse(r)) \/ (\A r \in sys : NamesOf(r) = {}) THEN sys
  ELSE LET next == Projected(sys, Cheapest(sys)) IN IF Cardinality(next) <= MaxRows THEN next ELSE {}

\* Every round eliminates a name.
Refuted(sys) ==
  LET after[i \in 0..NumNames] == IF i = 0 THEN sys ELSE Round(after[i - 1])
  IN  \E r \in after[NumNames] : IsFalse(r)

Eliminated(le, g) ==
  LET rows == Connected(le, g)
  IN  /\ rows # {} /\ Cardinality(rows) <= MaxFacts
      /\ Refuted({NormalRow(r) : r \in rows} \cup {NormalRow(AddScaled(Constant(1), g, -1))})

\* entailsFM: a false fact proves everything, and a goal without a name is
\* decided by its constant.
Proves(le, g) ==
  \/ \E a \in le : IsFalse(a)
  \/ NamesOf(g) = {} /\ g.k <= 0
  \/ NamesOf(g) # {} /\ (OneFact(le, g) \/ TwoFacts(le, g) \/ Cancelled(le, g) \/ Eliminated(le, g))
=============================================================================
