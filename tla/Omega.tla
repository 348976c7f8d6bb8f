-------------------------------- MODULE Omega --------------------------------
(***************************************************************************)
(* Pugh's Omega test as presburger/omega.go runs it: whether a conjunction *)
(* of linear equalities and inequalities has an integer solution.  The     *)
(* recursion of solve is a machine with a stack: `prob` is the conjunction *)
(* being decided, and a frame is a conjunction set aside while one of its  *)
(* shadows or splinters is.  Arithmetic is the code's: in a signed word,   *)
(* each checked operation outside it ending the question as "unknown".     *)
(*                                                                         *)
(* A variable is a number, ordered as its name is; those the procedure     *)
(* makes come after the question's, so 1..NVars is a bound on both.  A row *)
(* is [coef, k, eq]: the sum of coef[x]*x, plus k, is = 0 or >= 0.  A      *)
(* coefficient the code's map lacks is 0.                                  *)
(***************************************************************************)
EXTENDS Integers, Sequences, FiniteSets

CONSTANTS Questions, \* the conjunctions asked about, sequences of rows
          NVars,     \* bound on variables, those made on the way included
          Asked,     \* how many of them the questions use
          WordBound, \* the words of the machine are -WordBound..WordBound - 1
          Budget,    \* steps allowed
          Box,       \* the properties look for solutions among -Box..Box
          Easy       \* questions with numbers in -Easy..Easy have to be decided

ASSUME SizesAssumption ==
  /\ NVars \in Nat /\ Asked \in 0..NVars /\ WordBound \in Nat \ {0} /\ Budget \in Nat
  /\ Box \in Nat /\ Easy \in Nat

Vars == 1..NVars

VARIABLES question, \* the conjunction asked about
          prob,     \* the conjunction being decided
          ctl,      \* what comes next: "solve", "decide", "return", "splinter" or "done"
          val,      \* the answer being returned
          stack,    \* the conjunctions set aside, innermost last
          budget,   \* steps left
          result    \* "none" until the question is answered

vars == <<question, prob, ctl, val, stack, budget, result>>

---------------------------------------------------------------------------
(* Arithmetic. *)

MinWord == -WordBound
MaxWord == WordBound - 1
Word == MinWord..MaxWord

\* What the machine is left with when an operation's result is n.
Wrapped(n) == ((n + WordBound) % (2 * WordBound)) - WordBound

\* Mutant: overflow goes unnoticed.
Panics_Never(steps) == FALSE

\* add and mul panic on a result that is not a word.
Panics(steps) == ~(steps \subseteq Word)

Abs(a) == IF a < 0 THEN -a ELSE a

\* A negation is not checked: the least word is its own.
Neg(a) == Wrapped(-a)

FloorDiv(a, b) == a \div b  \* b > 0; \div rounds down

\* The symmetric residue, a - m * floor(a/m + 1/2).
ModHat(a, m) == a - m * FloorDiv(2 * a + m, 2 * m)
ModHatSteps(a, m) == {2 * a, 2 * a + m, 2 * m}

---------------------------------------------------------------------------
(* Rows. *)

Rows == [coef : [Vars -> Word], k : Word, eq : BOOLEAN]

Used(r) == {x \in Vars : r.coef[x] # 0}
Numbers(r) == {r.k} \cup {r.coef[x] : x \in Vars}
Appear(p) == UNION {Used(p[i]) : i \in DOMAIN p}

\* The questions are of the variables 1..Asked.
ASSUME QuestionsAssumption ==
  \A q \in Questions : q \in Seq(Rows) /\ Appear(q) \subseteq 1..Asked

\* The rows of p at I, in order.
Kept(p, I) ==
  LET kept[n \in 0..Len(p)] ==
        IF n = 0 THEN <<>>
        ELSE IF n \in I THEN Append(kept[n - 1], p[n]) ELSE kept[n - 1]
  IN  kept[Len(p)]

InWord(r) == [coef |-> [x \in Vars |-> Wrapped(r.coef[x])], k |-> Wrapped(r.k), eq |-> r.eq]

\* The greatest divisor of every coefficient of a row that has some.
Gcd(r) ==
  LET divides(d) == \A x \in Used(r) : r.coef[x] % d = 0
      least == CHOOSE x \in Used(r) : \A y \in Used(r) : Abs(r.coef[x]) <= Abs(r.coef[y])
  IN  CHOOSE d \in 1..Abs(r.coef[least]) :
        divides(d) /\ \A e \in (d + 1)..Abs(r.coef[least]) : ~divides(e)

\* A row no integer satisfies.
Contradicts(r) ==
  IF Used(r) = {} THEN (r.eq /\ r.k # 0) \/ (~r.eq /\ r.k < 0)
  ELSE r.eq /\ r.k % Gcd(r) # 0

Divided(r) ==
  [coef |-> [x \in Vars |-> r.coef[x] \div Gcd(r)], k |-> FloorDiv(r.k, Gcd(r)), eq |-> r.eq]

\* normalize reads rows in order: what it meets first, a row with no solution
\* or one whose coefficient has no absolute value, decides.
Stops(r) == Contradicts(r) \/ \E x \in Vars : r.coef[x] = MinWord
Normal(p) ==
  LET kept == Kept(p, {i \in DOMAIN p : Used(p[i]) # {}}) IN [i \in DOMAIN kept |-> Divided(kept[i])]

\* x in r replaced by the expression def, and the products it takes.
Substitute(r, x, def) ==
  [coef |-> [y \in Vars |-> IF y = x THEN 0 ELSE r.coef[y] + r.coef[x] * def.coef[y]],
   k |-> r.k + r.coef[x] * def.k, eq |-> r.eq]
SubstituteSteps(r, x, def) == {r.coef[x] * n : n \in Numbers(def)}

---------------------------------------------------------------------------
(* Equalities. *)

FirstEq(p, i) == p[i].eq /\ \A j \in 1..(i - 1) : ~p[j].eq

\* x has the least coefficient, and is the first by name that has.
Pivot(e, x) ==
  \A y \in Used(e) : \/ Abs(e.coef[x]) < Abs(e.coef[y])
                     \/ Abs(e.coef[x]) = Abs(e.coef[y]) /\ x <= y

\* What a variable with coefficient 1 or -1 is equal to.
UnitDef(e, x) ==
  [coef |-> [y \in Vars |-> IF y = x THEN 0 ELSE -e.coef[y] * e.coef[x]],
   k |-> Neg(e.k) * e.coef[x], eq |-> FALSE]

\* What it is equal to in terms of the new variable sigma.
ModHatDef(e, x, sigma) ==
  LET m    == Abs(e.coef[x]) + 1
      sign == IF e.coef[x] < 0 THEN -1 ELSE 1
  IN  [coef |-> [y \in Vars |-> CASE y = sigma -> -m * sign
                                  [] y = x     -> 0
                                  [] OTHER     -> ModHat(e.coef[y], m) * sign],
       k |-> ModHat(e.k, m) * sign, eq |-> FALSE]
ModHatDefSteps(e, x) ==
  UNION {ModHatSteps(n, Abs(e.coef[x]) + 1) : n \in {e.k} \cup {e.coef[y] : y \in Used(e) \ {x}}}

\* The procedure numbers the variables it makes; here a number is used again
\* once its variable is gone, and a new variable still comes after the others.
New(p, x) == LET old == {Asked} \cup Appear(p) IN x - 1 \in old /\ \A y \in old : y < x

---------------------------------------------------------------------------
(* Inequalities. *)

LowerAt(p, x) == {i \in DOMAIN p : p[i].coef[x] > 0}
UpperAt(p, x) == {i \in DOMAIN p : p[i].coef[x] < 0}
Lowers(p, x) == Kept(p, LowerAt(p, x))
Uppers(p, x) == Kept(p, UpperAt(p, x))
Without(p, x) == Kept(p, {i \in DOMAIN p : p[i].coef[x] = 0})

OneSided(p, x) == \/ \A i \in DOMAIN p : p[i].coef[x] >= 0
                  \/ \A i \in DOMAIN p : p[i].coef[x] <= 0

\* Two rows that are each other's negation, but for the constant.
Opposed(p, i, j) == i < j /\ \A x \in Vars : p[j].coef[x] = -p[i].coef[x]

\* The pairs contradictoryPair stops at: the sum is negative or not a word.
Clashes(p) == {c \in (DOMAIN p) \X (DOMAIN p) :
                 Opposed(p, c[1], c[2]) /\ p[c[1]].k + p[c[2]].k \notin 0..MaxWord}
FirstClash(p, c) == \A d \in Clashes(p) : c[1] < d[1] \/ (c[1] = d[1] /\ c[2] <= d[2])

\* Eliminating x loses nothing when each pair has a unit coefficient.
Exact(p, x) == (\A i \in DOMAIN p : p[i].coef[x] <= 1) \/ (\A i \in DOMAIN p : p[i].coef[x] >= -1)
Cost(p, x) == Cardinality(LowerAt(p, x)) * Cardinality(UpperAt(p, x))

\* pickVariable's choice: exact if any is, then cheapest, then first by name.
Picked(p, x) ==
  \A y \in Appear(p) :
    \/ Exact(p, x) /\ ~Exact(p, y)
    \/ /\ Exact(p, x) = Exact(p, y)
       /\ Cost(p, x) < Cost(p, y) \/ (Cost(p, x) = Cost(p, y) /\ x <= y)

\* Mutant: room for one integer fewer is asked for.
Room_OneLess(a, b) == (a - 1) * (b - 1) - 1

\* A lower and an upper bound of z with z eliminated; the dark shadow asks for
\* room for an integer between them.
Room(a, b) == (a - 1) * (b - 1)
Combined(lo, up, z, dark) ==
  LET a == lo.coef[z]
      b == -up.coef[z]
  IN  [coef |-> [x \in Vars |-> IF x = z THEN 0 ELSE b * lo.coef[x] + a * up.coef[x]],
       k |-> b * lo.k + a * up.k - (IF dark THEN Room(a, b) ELSE 0), eq |-> FALSE]
CombinedSteps(lo, up, z, dark) ==
  LET a == lo.coef[z]
      b == -up.coef[z]
  IN  {b * n : n \in Numbers(lo)} \cup {a * n : n \in Numbers(up)}
      \cup (IF dark THEN {b * lo.k + a * up.k, Room(a, b)} ELSE {})

Shadow(p, z, dark) ==
  LET los == Lowers(p, z)
      ups == Uppers(p, z)
  IN  Without(p, z) \o
      [c \in 1..(Len(los) * Len(ups)) |->
         Combined(los[((c - 1) \div Len(ups)) + 1], ups[((c - 1) % Len(ups)) + 1], z, dark)]
ShadowSteps(p, z, dark) ==
  UNION {CombinedSteps(p[c[1]], p[c[2]], z, dark) : c \in LowerAt(p, z) \X UpperAt(p, z)}

\* m, the largest upper coefficient of z, and how far above the lower bound
\* a*z >= -L a solution the dark shadow misses can be.
Largest(p, z, m) ==
  /\ \E i \in DOMAIN p : m = -p[i].coef[z]
  /\ \A i \in DOMAIN p : -p[i].coef[z] <= m
SplinterRow(lo, i) == [coef |-> lo.coef, k |-> lo.k - i, eq |-> TRUE]
Top(a, m) == FloorDiv(a * m - a - m, m)
TopSteps(a, m) == {a * m, a + m, a * m - a - m}

---------------------------------------------------------------------------
(* The procedure. *)

Init ==
  /\ question \in Questions
  /\ prob = question
  /\ ctl = "solve" /\ val = FALSE /\ stack = <<>>
  /\ budget = Budget /\ result = "none"

Give(v) == ctl' = "return" /\ val' = v

\* The conjunction q is decided next, unless a step of computing it panicked.
Solve(q, steps) ==
  /\ IF Panics(steps \cup UNION {Numbers(q[i]) : i \in DOMAIN q})
     THEN ctl' = "done" /\ result' = "unknown" /\ UNCHANGED prob
     ELSE ctl' = "solve" /\ prob' = [i \in DOMAIN q |-> InWord(q[i])] /\ UNCHANGED result
  /\ UNCHANGED val

\* solve with the budget spent.
Exhausted ==
  /\ ctl = "solve" /\ budget = 0
  /\ ctl' = "done" /\ result' = "unknown"
  /\ UNCHANGED <<question, prob, val, stack, budget>>

Ticking ==
  /\ ctl = "solve" /\ budget > 0 /\ budget' = budget - 1
  /\ UNCHANGED <<question, stack>>

Normalize ==
  /\ Ticking
  /\ IF \A i \in DOMAIN prob : ~Stops(prob[i])
     THEN ctl' = "decide" /\ prob' = Normal(prob) /\ UNCHANGED <<val, result>>
     ELSE \E i \in DOMAIN prob :
            /\ Stops(prob[i]) /\ \A j \in 1..(i - 1) : ~Stops(prob[j])
            /\ IF MinWord \in {prob[i].coef[x] : x \in Vars}
               THEN ctl' = "done" /\ result' = "unknown" /\ UNCHANGED <<prob, val>>
               ELSE Give(FALSE) /\ UNCHANGED <<prob, result>>

Deciding == ctl = "decide" /\ UNCHANGED <<question, budget>>

\* eliminateEquality with a unit coefficient: solved for and substituted.
EliminateUnit ==
  /\ Deciding
  /\ \E i \in DOMAIN prob : FirstEq(prob, i) /\ \E x \in Used(prob[i]) :
       LET e    == prob[i]
           def  == UnitDef(e, x)
           rest == Kept(prob, DOMAIN prob \ {i})
       IN  /\ Pivot(e, x) /\ Abs(e.coef[x]) = 1
           /\ Solve([j \in DOMAIN rest |-> Substitute(rest[j], x, def)],
                    Numbers(def) \cup UNION {SubstituteSteps(rest[j], x, def) : j \in DOMAIN rest})
  /\ UNCHANGED stack

\* eliminateEquality without one: a new variable, in which there will be one.
EliminateModHat ==
  /\ Deciding
  /\ \E i \in DOMAIN prob : FirstEq(prob, i) /\ \E x \in Used(prob[i]) :
       \E sigma \in Vars :
       LET e   == prob[i]
           def == ModHatDef(e, x, sigma)
       IN  /\ Pivot(e, x) /\ Abs(e.coef[x]) # 1 /\ New(prob, sigma)
           /\ Solve([j \in DOMAIN prob |-> Substitute(prob[j], x, def)],
                    ModHatDefSteps(e, x) \cup Numbers(def)
                    \cup UNION {SubstituteSteps(prob[j], x, def) : j \in DOMAIN prob})
  /\ UNCHANGED stack

\* solveInequalities with nothing left.
Trivial ==
  /\ Deciding /\ prob = <<>>
  /\ Give(TRUE)
  /\ UNCHANGED <<prob, stack, result>>

OnlyInequalities == Deciding /\ prob # <<>> /\ \A i \in DOMAIN prob : ~prob[i].eq

\* A variable bounded on one side takes its constraints with it.
DropOneSided ==
  /\ OnlyInequalities
  /\ \E x \in Appear(prob) :
       /\ OneSided(prob, x) /\ \A y \in Appear(prob) : OneSided(prob, y) => x <= y
       /\ Solve(Without(prob, x), {})
  /\ UNCHANGED stack

Bounded == OnlyInequalities /\ \A x \in Appear(prob) : ~OneSided(prob, x)

\* contradictoryPair.
Contradictory ==
  /\ Bounded
  /\ \E c \in Clashes(prob) :
       /\ FirstClash(prob, c)
       /\ IF Panics({prob[c[1]].k + prob[c[2]].k})
          THEN ctl' = "done" /\ result' = "unknown" /\ UNCHANGED val
          ELSE Give(FALSE) /\ UNCHANGED result
  /\ UNCHANGED <<prob, stack>>

Open == Bounded /\ Clashes(prob) = {}

Eliminate ==
  /\ Open
  /\ \E z \in Appear(prob) :
       /\ Picked(prob, z) /\ Exact(prob, z)
       /\ Solve(Shadow(prob, z, FALSE), ShadowSteps(prob, z, FALSE))
  /\ UNCHANGED stack

\* A conjunction set aside, and how far its splinters are.
Aside(at, p, z, lo, i) == [at |-> at, p |-> p, z |-> z, lo |-> lo, i |-> i]

\* The dark shadow first: the conjunction is set aside.
TryDark ==
  /\ Open
  /\ \E z \in Appear(prob) :
       /\ Picked(prob, z) /\ ~Exact(prob, z)
       /\ Solve(Shadow(prob, z, TRUE), ShadowSteps(prob, z, TRUE))
       /\ stack' = Append(stack, Aside("dark", prob, z, 1, 0))

Pending(at) == ctl = "return" /\ stack # <<>> /\ stack[Len(stack)].at = at
Outer == SubSeq(stack, 1, Len(stack) - 1)
Frame == stack[Len(stack)]

\* A solution of the dark shadow, or of a splinter, is one of the conjunction;
\* a real shadow without one leaves none.
Settled ==
  /\ \/ Pending("dark") /\ val
     \/ Pending("real") /\ ~val
     \/ Pending("splinter") /\ val
  /\ stack' = Outer
  /\ UNCHANGED <<question, prob, ctl, val, budget, result>>

TryReal ==
  /\ Pending("dark") /\ ~val
  /\ Solve(Shadow(Frame.p, Frame.z, FALSE), ShadowSteps(Frame.p, Frame.z, FALSE))
  /\ stack' = Append(Outer, Aside("real", Frame.p, Frame.z, 1, 0))
  /\ UNCHANGED <<question, budget>>

\* Between the two: the splinters of each lower bound, in order.
Splinter ==
  /\ \/ Pending("real") /\ val
     \/ Pending("splinter") /\ ~val
  /\ ctl' = "splinter"
  /\ stack' = Append(Outer, Aside("splinter", Frame.p, Frame.z, Frame.lo,
                                  IF Frame.at = "real" THEN 0 ELSE Frame.i + 1))
  /\ UNCHANGED <<question, prob, val, budget, result>>

NextSplinter ==
  LET los == Lowers(Frame.p, Frame.z)
      lo  == los[Frame.lo]
      a   == lo.coef[Frame.z]
  IN  /\ ctl = "splinter"
      /\ IF Frame.lo > Len(los)
         THEN ctl' = "return" /\ val' = FALSE /\ stack' = Outer /\ UNCHANGED <<prob, result>>
         ELSE \E m \in {-Frame.p[i].coef[Frame.z] : i \in DOMAIN Frame.p} :
                /\ Largest(Frame.p, Frame.z, m)
                /\ IF Frame.i > Top(a, m) /\ ~Panics(TopSteps(a, m))
                   THEN /\ stack' = Append(Outer, Aside("splinter", Frame.p, Frame.z, Frame.lo + 1, 0))
                        /\ UNCHANGED <<prob, ctl, val, result>>
                   ELSE /\ Solve(Append(Frame.p, SplinterRow(lo, Frame.i)), TopSteps(a, m))
                        /\ UNCHANGED stack
      /\ UNCHANGED <<question, budget>>

Answered ==
  /\ ctl = "return" /\ stack = <<>>
  /\ ctl' = "done" /\ result' = IF val THEN "sat" ELSE "unsat"
  /\ UNCHANGED <<question, prob, val, stack, budget>>

Finished == ctl = "done" /\ UNCHANGED vars

Next == \/ Exhausted \/ Normalize \/ EliminateUnit \/ EliminateModHat \/ Trivial
        \/ DropOneSided \/ Contradictory \/ Eliminate \/ TryDark
        \/ Settled \/ TryReal \/ Splinter \/ NextSplinter \/ Answered \/ Finished

Spec == Init /\ [][Next]_vars

---------------------------------------------------------------------------
(* Properties. *)

\* The sum of c[x]*a[x] for x up to n.
Dot(n, c, a) ==
  LET sum[x \in 0..n] == IF x = 0 THEN 0 ELSE sum[x - 1] + c[x] * a[x] IN sum[n]
Holds(r, a) ==
  LET v == r.k + Dot(Asked, r.coef, a) IN IF r.eq THEN v = 0 ELSE v >= 0
SolutionIn(p, D) == \E a \in [1..Asked -> D] : \A i \in DOMAIN p : Holds(p[i], a)
HasSolution(p) == SolutionIn(p, -Box..Box)

\* The answer is the answer over the integers: "sat" exactly when some integers
\* satisfy the question, and "unknown" is no answer.
Correct == /\ result = "sat"   => HasSolution(question)
           /\ result = "unsat" => ~HasSolution(question)

\* The procedure is complete for the integers: on a question of small numbers it
\* says whether there is a solution, and gives up neither by overflow nor by
\* spending its budget.
IsEasy == \A i \in DOMAIN question : Numbers(question[i]) \subseteq -Easy..Easy
Decides == IsEasy /\ result # "none" =>
             result = IF HasSolution(question) THEN "sat" ELSE "unsat"
=============================================================================
