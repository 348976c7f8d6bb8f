---------------------------- MODULE IntervalLoop ----------------------------
(***************************************************************************)
(* The analysis of one loop (intervals.loop of ir/interval.go, with        *)
(* ir/trip.go and ir/sct.go), and the loop's execution after it.           *)
(*                                                                         *)
(* The analysis ascends with joins, then with threshold widening, then     *)
(* with plain widening, to a post-fixpoint, or gives up at its budget;     *)
(* descends twice; bounds the parameters by the number of back edges while *)
(* that tightens them; and decides termination.  Then the loop runs from   *)
(* any values its initial facts allow.                                     *)
(*                                                                         *)
(* The loop's body is a chain of branches: exit k is taken when the guards *)
(* before the k-th fail and the k-th, if there is one, holds.  A guard     *)
(* compares an expression with an operand; an exit passes one expression   *)
(* per parameter to the loop's head or to its results.                     *)
(***************************************************************************)
EXTENDS IntervalDomain, SizeChangeGraphs, Sequences, FiniteSets

CONSTANTS P,               \* parameters of the loop (1 or 2)
          Programs,        \* the loops: [guards, exits, init, budget] records
          WordLo, WordHi,  \* the target's signed word, for the thresholds
          JoinRounds,      \* rounds that only join (3)
          ThresholdRounds, \* rounds that widen to a threshold (16)
          LoopBudget,      \* rounds before the analysis gives up (64); a loop may be
                           \* given fewer, to see the analysis give up
          DescendRounds,   \* descending rounds (2)
          TripRounds,      \* refinements by trip bounds (4)
          ScaleMax,        \* a literal that scales a linear form is at most this (2^31 - 1)
          ValMax,          \* bound: magnitude of an executed value
          TripCap          \* bound: back edges counted, then saturated

VARIABLES prog,     \* the loop
          phase,    \* where the analysis, then the execution, is
          round,    \* rounds of this phase so far
          cur,      \* the parameters' facts at the head
          lc,       \* the exits' records, when the body was evaluated under cur
          trips,    \* the bound on back edges
          halts,    \* the termination verdict
          argFacts, \* what each live continue passes
          resFacts, \* what the loop returns
          val,      \* the execution's parameters, or results
          taken     \* the back edges it took

vars == <<prog, phase, round, cur, lc, trips, halts, argFacts, resFacts, val, taken>>
answers == <<trips, halts, argFacts, resFacts>>
execution == <<val, taken>>

Params == 1 .. P

-----------------------------------------------------------------------------
(* The loops.  Operands are parameters (p > 0) or literals (p = 0);           *)
(* expressions apply one operation to two operands.                           *)

ExprOperands == [p : 0 .. P, k : E]
Expressions == [op : {"id", "add", "sub", "mul", "div", "rem"}, x : ExprOperands, y : ExprOperands]

\* A guard computes no quotient: it has a value wherever it is reached.
Comparisons == {g \in [e : Expressions, rel : Rels, o : ExprOperands] : g.e.op \notin {"div", "rem"}}
Exchanges == [kind : {"continue", "break"}, args : [Params -> Expressions]]

IsLoop(l) ==
  /\ l.guards \in Seq(Comparisons) /\ l.exits \in Seq(Exchanges)
  /\ Len(l.exits) <= Len(l.guards) + 1
  /\ l.init \in [Params -> Iv]
  /\ l.budget \in 0 .. LoopBudget

ASSUME LoopAssumption ==
  /\ P \in Nat \ {0}
  /\ \A l \in Programs : IsLoop(l)
  /\ WordLo \in Int /\ WordHi \in Int
  /\ LoopBudget \in Nat
  /\ JoinRounds \in Nat /\ ThresholdRounds \in Nat
  /\ DescendRounds \in 1 .. LoopBudget /\ TripRounds \in 0 .. LoopBudget
  /\ ScaleMax \in Nat /\ 2 <= ScaleMax /\ 2 * ScaleMax + 1 <= EMax
  /\ ValMax \in Nat /\ TripCap \in Nat

Exits == DOMAIN prog.exits
IsCont(k) == prog.exits[k].kind = "continue"
Conts == {k \in Exits : IsCont(k)}
Args(k) == prog.exits[k].args

-----------------------------------------------------------------------------
(* Expressions: their values, and their facts. *)

Value(o, v) == IF o.p = 0 THEN o.k ELSE v[o.p]

ExprValue(e, v) ==
  LET x == Value(e.x, v)
      y == Value(e.y, v)
  IN  CASE e.op = "id" -> x
        [] e.op = "add" -> x + y
        [] e.op = "sub" -> x - y
        [] e.op = "mul" -> x * y
        [] e.op = "div" -> Quo(x, y)
        [] e.op = "rem" -> Rem(x, y)

ExprRuns(e, v) == e.op \in {"div", "rem"} => Value(e.y, v) # 0

Fact(o, env) == IF o.p = 0 THEN Exact(o.k) ELSE env[o.p]

ExprFact(e, env) ==
  LET a == Fact(e.x, env)
      b == Fact(e.y, env)
      diff == SubIV(a, b)
      same == e.x.p > 0 /\ e.x.p = e.y.p
  IN  CASE e.op = "id" -> a
        [] e.op = "add" -> AddIV(a, b)
        [] e.op = "sub" -> IF same THEN MeetIV(diff, Exact(0)) ELSE diff
        [] e.op = "mul" -> MulIV(a, b)
        [] e.op = "div" -> DivIV(a, b)
        [] e.op = "rem" -> RemIV(a, b)

-----------------------------------------------------------------------------
(* cond and back: a guard's relation narrows the expression's value, then the *)
(* operands it was computed from, then the other side.                        *)

NarrowOperand(o, z, env) == IF o.p = 0 THEN env ELSE [env EXCEPT ![o.p] = MeetIV(@, z)]

Backward(e, m, env) ==
  LET addend == NarrowOperand(e.x, SubIV(m, Fact(e.y, env)), env)
      minuend == NarrowOperand(e.x, AddIV(m, Fact(e.y, env)), env)
  IN  CASE e.op = "id" -> NarrowOperand(e.x, m, env)
        [] e.op = "add" -> NarrowOperand(e.y, SubIV(m, Fact(e.x, addend)), addend)
        [] e.op = "sub" -> NarrowOperand(e.y, SubIV(Fact(e.x, minuend), m), minuend)
        [] e.op = "mul" /\ e.x = e.y -> NarrowOperand(e.x, InvSquare(m), env)
        [] e.op = "mul" /\ e.x.p > 0 /\ e.y.p = 0 -> NarrowOperand(e.x, InvMulConst(m, e.y.k), env)
        [] e.op = "mul" /\ e.x.p = 0 /\ e.y.p > 0 -> NarrowOperand(e.y, InvMulConst(m, e.x.k), env)
        [] OTHER -> env

\* The left side's fact fx met with what rel and the right side say of it.
ArmLeft(g, rel, fx, env) ==
  LET n == MeetIV(fx, NarrowIV(fx, rel, Fact(g.o, env)))
  IN  [n |-> n, env |-> IF n = fx THEN env ELSE Backward(g.e, n, env)]

\* Then the right side's, with the left side's fact as it is now.
ArmRight(g, rel, left) ==
  LET fy == Fact(g.o, left.env)
      n == MeetIV(fy, NarrowIV(fy, Flip(rel), left.n))
  IN  [env |-> NarrowOperand(g.o, n, left.env), dead |-> left.n.bot \/ n.bot]

Narrowed(a) == [a EXCEPT !.dead = @ \/ \E p \in Params : a.env[p].bot]

\* The parameters' facts on the arm where g has the value `holds`, and whether
\* the guard empties one of the facts it narrows: then no execution takes it.
Arm(g, holds, env) ==
  LET rel == IF holds THEN g.rel ELSE Negate(g.rel)
  IN  Narrowed(ArmRight(g, rel, ArmLeft(g, rel, ExprFact(g.e, env), env)))

\* The facts where the j-th guard is evaluated: every guard before it failed.
Reached(env) ==
  LET path[j \in 1 .. Len(prog.exits)] ==
        IF j = 1 THEN [env |-> env, dead |-> FALSE]
        ELSE IF path[j - 1].dead THEN path[j - 1]
        ELSE Arm(prog.guards[j - 1], FALSE, path[j - 1].env)
  IN  path

\* The facts at exit k, under the guards of its path.
AtExit(k, env) ==
  LET r == Reached(env)[k]
  IN  IF r.dead \/ k > Len(prog.guards) THEN r ELSE Arm(prog.guards[k], TRUE, r.env)

LiveExits(there) ==
  [k \in {k \in Exits : ~there[k].dead} |->
     [pre |-> there[k].env, args |-> [j \in Params |-> ExprFact(Args(k)[j], there[k].env)]]]

\* One evaluation of the body under the facts env: at each live exit the facts
\* before the step (pre) and the facts of what it passes on (args).
Evaluate(env) == LiveExits([k \in Exits |-> AtExit(k, env)])

LiveConts(at) == DOMAIN at \cap Conts

\* The join of what some of the exits give, in their order.
JoinOver(f) ==
  LET j[n \in 0 .. Len(prog.exits)] ==
        IF n = 0 THEN Bot
        ELSE IF n \in DOMAIN f THEN JoinIV(j[n - 1], f[n]) ELSE j[n - 1]
  IN  j[Len(prog.exits)]

\* The loop's transformer: what enters the head, joined with what goes back.
Transform(at) ==
  [j \in Params |-> JoinIV(prog.init[j], JoinOver([k \in LiveConts(at) |-> at[k].args[j]]))]

-----------------------------------------------------------------------------
(* Widening thresholds: the literals and their neighbours, 0, the word's ends, *)
(* and the guards' literals times the body's literal factors.                  *)

Exprs == {Args(k)[j] : k \in Exits, j \in Params} \cup {prog.guards[i].e : i \in DOMAIN prog.guards}
LitsOf(ops) == {o.k : o \in {o \in ops : o.p = 0}}
OperandsOf(es) == {e.x : e \in es} \cup {e.y : e \in es}
GuardLits == LitsOf({prog.guards[i].o : i \in DOMAIN prog.guards})
Literals == LitsOf(OperandsOf(Exprs)) \cup GuardLits
Factors == {m \in LitsOf(OperandsOf({e \in Exprs : e.op = "mul"})) : AbsE(m) >= 2}

Thresholds ==
  E \cap (UNION {{k - 1, k, k + 1} : k \in Literals}
          \cup {0, WordLo, WordHi}
          \cup {c * m : c \in GuardLits, m \in Factors})

-----------------------------------------------------------------------------
(* Steps: an interval holding what a continue passes for a parameter minus a  *)
(* parameter it is compared with (trip.go's delta).                           *)

QuotientStep(x, b) ==
  IF x.bot \/ b.bot \/ x.nlo \/ x.lo <= 0 \/ b.nlo \/ b.lo < 2 THEN Top
  ELSE Norm([lo |-> -x.hi, hi |-> -1, nlo |-> x.phi, phi |-> FALSE, bot |-> FALSE])

RemainderStep(x, y) ==
  IF x.bot \/ y.bot \/ x.nlo \/ x.lo < 0 \/ y.nlo \/ y.lo <= 0 THEN Top
  ELSE Norm([lo |-> -y.hi, hi |-> -1, nlo |-> y.phi, phi |-> FALSE, bot |-> FALSE])

Delta(e, base, env) ==
  LET isBase(o) == o.p = base
      a == Fact(e.x, env)
      b == Fact(e.y, env)
  IN  IF ExprFact(e, env).bot THEN Bot
      ELSE CASE e.op = "id" /\ isBase(e.x) -> Exact(0)
             [] e.op = "add" /\ isBase(e.x) -> AddIV(Exact(0), b)
             [] e.op = "add" /\ ~isBase(e.x) /\ isBase(e.y) -> AddIV(Exact(0), a)
             [] e.op = "sub" /\ isBase(e.x) -> SubIV(Exact(0), b)
             [] e.op = "div" /\ isBase(e.x) -> QuotientStep(a, b)
             [] e.op = "rem" /\ isBase(e.y) -> RemainderStep(a, b)
             [] OTHER -> Top

\* The symbolic step met with the difference of the facts there.
Step(at, k, i, j) ==
  MeetIV(Delta(Args(k)[j], i, at[k].pre), SubIV(at[k].args[j], at[k].pre[i]))

\* A parameter's steps over the continues, and its facts before them.
StepFact(at, j) == JoinOver([k \in LiveConts(at) |-> Step(at, k, j, j)])
PreFact(at, j) == JoinOver([k \in LiveConts(at) |-> at[k].pre[j]])

-----------------------------------------------------------------------------
(* Trip bounds (Theorems 1 and 2 of trip.go).  NoBound is B = infinity.       *)

NoBound == -1

\* Mutant: the last back edge is not counted.
RankBounds_OffByOne(z, pre, step) ==
  IF z.bot \/ pre.bot \/ step.bot THEN {}
  ELSE IF ~step.nlo /\ step.lo > 0 /\ ~pre.phi /\ ~z.nlo THEN {MaxE(pre.hi - z.lo, 0)}
  ELSE IF ~step.phi /\ step.hi < 0 /\ ~pre.nlo /\ ~z.phi THEN {MaxE(z.hi - pre.lo, 0)}
  ELSE {}

\* Theorem 2: the back edges a parameter allows that starts in z, is in pre
\* where the loop continues, and moves by step.
RankBounds(z, pre, step) ==
  IF z.bot \/ pre.bot \/ step.bot THEN {}
  ELSE IF ~step.nlo /\ step.lo > 0 /\ ~pre.phi /\ ~z.nlo THEN {MaxE(pre.hi - z.lo + 1, 0)}
  ELSE IF ~step.phi /\ step.hi < 0 /\ ~pre.nlo /\ ~z.phi THEN {MaxE(z.hi - pre.lo + 1, 0)}
  ELSE {}

FloorLog(n, c) ==
  LET log[m \in 0 .. n] == IF m < c THEN 0 ELSE log[m \div c] + 1 IN log[n]

GeoBounds(z, pre, c) ==
  IF c < 2 \/ z.bot \/ pre.bot \/ pre.nlo \/ pre.lo <= 0 \/ z.phi \/ z.hi <= 0 THEN {}
  ELSE {FloorLog(z.hi, c) + 1}

\* The least literal divisor of parameter j, when every continue divides it.
Geometric(j) ==
  LET divides(e) == e.op = "div" /\ e.x.p = j /\ e.y.p = 0 /\ e.y.k >= 2
      cs == {Args(k)[j].y.k : k \in Conts}
  IN  IF \A k \in Conts : divides(Args(k)[j]) THEN CHOOSE c \in cs : \A d \in cs : c <= d ELSE 0

\* Theorem 1: a parameter starting in z and moving by step on at most b edges.
TripInterval(z, step, b) ==
  IF z.bot \/ step.bot THEN Top
  ELSE LET l == z.lo + b * MinE(step.lo, 0)
           h == z.hi + b * MaxE(step.hi, 0)
           low == ~step.nlo /\ ~z.nlo /\ (IF b = NoBound THEN step.lo >= 0 ELSE Ok(l))
           high == ~step.phi /\ ~z.phi /\ (IF b = NoBound THEN step.hi <= 0 ELSE Ok(h))
       IN  Norm([lo |-> IF low THEN (IF b = NoBound THEN z.lo ELSE l) ELSE 0,
                 hi |-> IF high THEN (IF b = NoBound THEN z.hi ELSE h) ELSE 0,
                 nlo |-> ~low, phi |-> ~high, bot |-> FALSE])

\* Theorem 1 on a difference: what a continue passes, as a linear form over the
\* parameters (1 .. P) and, where it is not linear, its own value (0).
LitForm(c) == [co |-> [p \in 0 .. P |-> 0], k |-> Exact(c)]
AtomForm(a) == [co |-> [p \in 0 .. P |-> IF p = a THEN 1 ELSE 0], k |-> Exact(0)]
SubForm(f, g) == [co |-> [p \in 0 .. P |-> f.co[p] - g.co[p]], k |-> SubIV(f.k, g.k)]
ScaleForm(f, c) == [co |-> [p \in 0 .. P |-> c * f.co[p]], k |-> MulIV(Exact(c), f.k)]
OperandForm(o) == IF o.p = 0 THEN LitForm(o.k) ELSE AtomForm(o.p)

Scales(o) == o.p = 0 /\ AbsE(o.k) <= ScaleMax

Linear(e) ==
  LET x == OperandForm(e.x)
      y == OperandForm(e.y)
  IN  CASE e.op = "id" -> x
        [] e.op = "add" -> SubForm(x, SubForm(LitForm(0), y))
        [] e.op = "sub" -> SubForm(x, y)
        [] e.op = "mul" /\ Scales(e.y) -> ScaleForm(x, e.y.k)
        [] e.op = "mul" /\ ~Scales(e.y) /\ Scales(e.x) -> ScaleForm(y, e.x.k)
        [] OTHER -> AtomForm(0)

\* The sum of a constant and the intervals of terms, in one order of the terms.
SumInOrder(base, terms, order) ==
  LET sum[n \in 0 .. Len(order)] ==
        IF n = 0 THEN base ELSE AddIV(sum[n - 1], terms[order[n]])
  IN  sum[Len(order)]

\* The code adds them in a map's order, and addition saturating at E depends on it.
Orders(D) ==
  {o \in [1 .. Cardinality(D) -> D] :
     /\ \A t \in D : \E n \in DOMAIN o : o[n] = t
     /\ \A m, n \in DOMAIN o : o[m] = o[n] => m = n}
SumsInAnyOrder(base, terms) == {SumInOrder(base, terms, o) : o \in Orders(DOMAIN terms)}

\* The step of parameter i minus parameter j across the continue k; the values
\* passed for them are the terms P + 1 and P + 2.
FormSteps(at, k, i, j) ==
  LET fi == Linear(Args(k)[i])
      fj == Linear(Args(k)[j])
      co == [t \in 1 .. P + 2 |->
               IF t = P + 1 THEN fi.co[0]
               ELSE IF t = P + 2 THEN -fj.co[0]
               ELSE fi.co[t] - fj.co[t] + (IF t = j THEN 1 ELSE 0) - (IF t = i THEN 1 ELSE 0)]
      fact == [t \in 1 .. P + 2 |->
                 IF t = P + 1 THEN at[k].args[i] ELSE IF t = P + 2 THEN at[k].args[j] ELSE at[k].pre[t]]
  IN  SumsInAnyOrder(SubIV(fi.k, fj.k),
        [t \in {t \in 1 .. P + 2 : co[t] # 0} |-> MulIV(Exact(co[t]), fact[t])])

\* The joins of one of each exit's facts.
JoinPairs(as, bs) == {JoinIV(a, b) : a \in as, b \in bs}
JoinsOver(fs) ==
  LET j[n \in 0 .. Len(prog.exits)] ==
        IF n = 0 THEN {Bot}
        ELSE IF n \in DOMAIN fs THEN JoinPairs(j[n - 1], fs[n]) ELSE j[n - 1]
  IN  j[Len(prog.exits)]

\* Parameter i met with what a difference s of parameters i and j leaves it.
MeetPair(c, i, j, s, b) ==
  IF s.bot THEN c
  ELSE [c EXCEPT ![i] = MeetIV(@, AddIV(TripInterval(SubIV(prog.init[i], prog.init[j]), s, b), c[j]))]

MeetPairs(cs, i, j, ss, b) == {MeetPair(c, i, j, s, b) : c \in cs, s \in ss}

PairSteps(at, i, j) == JoinsOver([k \in LiveConts(at) |-> FormSteps(at, k, i, j)])

\* The facts pairRefine may leave, over the ordered pairs of parameters.
PairRefine(at, cs, b) ==
  LET pair[n \in 0 .. P * P] ==
        LET i == ((n - 1) \div P) + 1
            j == ((n - 1) % P) + 1
        IN  IF n = 0 THEN cs
            ELSE IF i = j THEN pair[n - 1]
            ELSE MeetPairs(pair[n - 1], i, j, PairSteps(at, i, j), b)
  IN  pair[P * P]

\* tripRefine: the least bound, and the facts it may leave.
Bounds(at) ==
  UNION {RankBounds(prog.init[j], PreFact(at, j), StepFact(at, j))
         \cup GeoBounds(prog.init[j], PreFact(at, j), Geometric(j)) : j \in Params}

LeastBound(at) ==
  IF Bounds(at) = {} THEN NoBound ELSE CHOOSE b \in Bounds(at) : \A c \in Bounds(at) : b <= c

Refinements(at, c) ==
  LET b == LeastBound(at)
  IN  PairRefine(at, {[j \in Params |-> MeetIV(c[j], TripInterval(prog.init[j], StepFact(at, j), b))]}, b)

-----------------------------------------------------------------------------
(* terminates: the size-change graphs of the live continues and the verdict.  *)

Orientation(at, j) ==
  LET s == StepFact(at, j)
  IN  IF ~s.bot /\ ~s.nlo /\ s.lo >= 0 /\ (s.phi \/ s.hi > 0) THEN -1 ELSE 1

\* Mutant: a measure that may stay where it is counts as descending.
Edge_NonStrict(at, k) ==
  [ij \in Params \X Params |->
     LET d == Step(at, k, ij[1], ij[2])
         o == Orientation(at, ij[2])
         falls == IF o > 0 THEN ~d.phi /\ d.hi <= 0 ELSE ~d.nlo /\ d.lo >= 0
     IN  IF Orientation(at, ij[1]) # o \/ d.bot THEN None
         ELSE IF falls THEN Strict ELSE None]

Edge(at, k) ==
  [ij \in Params \X Params |->
     LET d == Step(at, k, ij[1], ij[2])
         o == Orientation(at, ij[2])
         falls(c) == IF o > 0 THEN ~d.phi /\ d.hi <= -c ELSE ~d.nlo /\ d.lo >= c
     IN  IF Orientation(at, ij[1]) # o \/ d.bot THEN None
         ELSE IF falls(1) THEN Strict ELSE IF falls(0) THEN Weak ELSE None]

Floored(at, c) ==
  {j \in Params : ~c[j].bot /\ (IF Orientation(at, j) > 0 THEN ~c[j].nlo ELSE ~c[j].phi)}

\* The closure of the edges under composition; 3^(P*P) graphs there are.
Closure(edges) ==
  LET grow(C) == C \cup {Compose(Params, g, e) : g \in C, e \in edges}
      C[n \in 0 .. 3^(P * P)] == IF n = 0 THEN edges ELSE grow(C[n - 1])
      n == CHOOSE n \in 0 .. 3^(P * P) : grow(C[n]) = C[n] /\ \A m \in 0 .. (n - 1) : grow(C[m]) # C[m]
  IN  C[n]

Halts(at, c) ==
  LET edges == {Edge(at, k) : k \in LiveConts(at)}
  IN  edges = {} \/ Witnessed(Params, Closure(edges), Floored(at, c))

-----------------------------------------------------------------------------
(* The analysis. *)

NotEvaluated == [done |-> FALSE, at |-> <<>>]

Init ==
  /\ prog \in Programs
  /\ phase = "ascend" /\ round = 0
  /\ cur = prog.init /\ lc = NotEvaluated
  /\ trips = NoBound /\ halts = FALSE
  /\ argFacts = <<>> /\ resFacts = <<>>
  /\ val = [j \in Params |-> 0] /\ taken = 0

\* region(body): evaluate the body under the parameters' facts.
Body ==
  /\ phase \in {"ascend", "descend", "trip", "verdict"} /\ ~lc.done
  /\ lc' = [done |-> TRUE, at |-> Evaluate(cur)]
  /\ UNCHANGED <<prog, phase, round, cur, answers, execution>>

\* The facts become c; the records of the body are of the facts before.
Install(c) ==
  /\ cur' = c
  /\ lc' = IF c = cur THEN lc ELSE NotEvaluated

NextPhase(ph) == phase' = ph /\ round' = 0
NextRound == phase' = phase /\ round' = round + 1

\* Mutant: no round widens.
Widened_Join(old, nw) == nw

Widened(old, nw) ==
  CASE round < JoinRounds -> nw
    [] round >= JoinRounds /\ round < JoinRounds + ThresholdRounds -> WidenIVT(old, nw, Thresholds)
    [] OTHER -> WidenIV(old, nw)

Ascend ==
  /\ phase = "ascend" /\ round < prog.budget /\ lc.done
  /\ LET next == Transform(lc.at)
     IN  Install([j \in Params |-> Widened(cur[j], JoinIV(cur[j], next[j]))])
  /\ IF cur' = cur THEN NextPhase("descend") ELSE NextRound
  /\ UNCHANGED <<prog, answers, execution>>

\* Mutant: out of budget, the facts of the last round are kept.
GiveUp_KeepsFacts ==
  /\ phase = "ascend" /\ round = prog.budget
  /\ NextPhase("verdict")
  /\ UNCHANGED <<prog, cur, lc, answers, execution>>

\* Not a post-fixpoint: nothing is known.
GiveUp ==
  /\ phase = "ascend" /\ round = prog.budget
  /\ Install([j \in Params |-> Top])
  /\ NextPhase("verdict")
  /\ UNCHANGED <<prog, answers, execution>>

Descend ==
  /\ phase = "descend" /\ lc.done
  /\ LET next == Transform(lc.at)
     IN  Install([j \in Params |-> MeetIV(cur[j], next[j])])
  /\ IF round + 1 < DescendRounds THEN NextRound ELSE NextPhase("trip")
  /\ UNCHANGED <<prog, answers, execution>>

Trip ==
  /\ phase = "trip" /\ round < TripRounds /\ lc.done
  /\ LiveConts(lc.at) # {}
  /\ trips' = LeastBound(lc.at)
  /\ \E c \in Refinements(lc.at, cur) : Install(c)
  /\ IF cur' = cur THEN NextPhase("verdict") ELSE NextRound
  /\ UNCHANGED <<prog, halts, argFacts, resFacts, execution>>

TripDone ==
  /\ phase = "trip" /\ lc.done
  /\ round = TripRounds \/ LiveConts(lc.at) = {}
  /\ NextPhase("verdict")
  /\ UNCHANGED <<prog, cur, lc, answers, execution>>

\* exitsNarrow: a value a continue passes, computed on its arm, is a value of
\* the head.
Passed(k, j) ==
  IF Args(k)[j].op = "id" /\ Args(k)[j].x.p > 0 THEN lc.at[k].args[j]
  ELSE MeetIV(lc.at[k].args[j], cur[j])

\* Then the verdict, and the facts of the loop's results.
Verdict ==
  /\ phase = "verdict" /\ lc.done
  /\ argFacts' = [k \in LiveConts(lc.at) |-> [j \in Params |-> Passed(k, j)]]
  /\ resFacts' = [j \in Params |-> JoinOver([k \in DOMAIN lc.at \ Conts |-> lc.at[k].args[j]])]
  /\ halts' = Halts(lc.at, cur)
  /\ NextPhase("entry")
  /\ UNCHANGED <<prog, cur, lc, trips, execution>>

-----------------------------------------------------------------------------
(* The execution. *)

Enter ==
  /\ phase = "entry"
  /\ val' \in [Params -> -ValMax .. ValMax]
  /\ \A j \in Params : In(val'[j], prog.init[j])
  /\ phase' = "run"
  /\ lc' = NotEvaluated
  /\ UNCHANGED <<prog, round, cur, answers, taken>>

GuardHolds(i, v) ==
  LET g == prog.guards[i] IN Holds(ExprValue(g.e, v), g.rel, Value(g.o, v))

Taken(k, v) ==
  /\ \A i \in 1 .. (k - 1) : ~GuardHolds(i, v)
  /\ k <= Len(prog.guards) => GuardHolds(k, v)

PassesRun(k, v) == \A j \in Params : ExprRuns(Args(k)[j], v)
Passes(k, v) == [j \in Params |-> ExprValue(Args(k)[j], v)]

\* One execution of the body: round again, or out with the results.  A division
\* by zero is a program the compiler refuses; a value past ValMax is not
\* followed.
Iterate(k) ==
  /\ phase = "run" /\ Taken(k, val)
  /\ IF PassesRun(k, val)
     THEN /\ val' = Passes(k, val)
          /\ taken' = IF IsCont(k) /\ taken < TripCap THEN taken + 1 ELSE taken
          /\ phase' = IF ~IsCont(k) THEN "done"
                      ELSE IF \E j \in Params : AbsE(Passes(k, val)[j]) > ValMax THEN "cut" ELSE phase
     ELSE phase' = "refused" /\ UNCHANGED <<val, taken>>
  /\ UNCHANGED <<prog, round, cur, lc, answers>>

Next ==
  \/ Body \/ Ascend \/ GiveUp \/ Descend \/ Trip \/ TripDone \/ Verdict
  \/ Enter
  \/ \E k \in Exits : Iterate(k)

\* The emitted loop runs: nothing of the source can stop it between two
\* evaluations of its body.
Fairness == WF_vars(\E k \in Exits : Iterate(k))

Spec == Init /\ [][Next]_vars /\ Fairness

-----------------------------------------------------------------------------
(* Properties. *)

TypeOK ==
  /\ phase \in {"ascend", "descend", "trip", "verdict", "entry", "run", "done", "cut", "refused"}
  /\ round \in 0 .. LoopBudget
  /\ cur \in [Params -> Iv]
  /\ trips \in Nat \cup {NoBound} /\ taken \in 0 .. TripCap
  /\ val \in [Params -> Int]

\* The facts at the head hold of every value a parameter takes there, on every
\* iteration: the loop's invariant as every later pass reads it.
HeadSound == phase = "run" => \A j \in Params : In(val[j], cur[j])

\* The body's facts hold where they are used: the exit an execution takes is
\* live, the values a continue passes have their narrowed facts, and the values
\* a break yields have the facts of the loop's results.
ExitSound ==
  phase = "run" =>
    \A k \in Exits : Taken(k, val) /\ PassesRun(k, val) =>
      IF IsCont(k) THEN k \in DOMAIN argFacts
                        /\ \A j \in Params : In(Passes(k, val)[j], argFacts[k][j])
      ELSE \A j \in Params : In(Passes(k, val)[j], resFacts[j])

\* No execution takes more back edges than the bound found (Theorem 2).
TripSound == phase # "entry" /\ trips # NoBound => taken <= trips

\* The analysis reaches a fixpoint before its budget: the chains of the three
\* kinds of rounds are short enough for it.
Converges == prog.budget = LoopBudget => ~(phase = "ascend" /\ round = LoopBudget)

\* A loop found to halt does: no execution of it goes round for ever.
HaltsTrue == (phase = "run" /\ halts) ~> phase \in {"done", "cut", "refused"}

=============================================================================
