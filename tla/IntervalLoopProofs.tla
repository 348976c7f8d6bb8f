------------------------- MODULE IntervalLoopProofs -------------------------
(***************************************************************************)
(* Proofs about the analysis of a loop, for every loop, every word and     *)
(* every number of rounds that LoopAssumption allows.                      *)
(*                                                                         *)
(* The facts the analysis ends with hold of the parameters on every        *)
(* iteration of every execution; so do those of what the exits pass on;    *)
(* and no execution takes more back edges than the trip bound.  The state  *)
(* of an execution says nothing of the values the loop started from, so    *)
(* the inductive invariant, LoopInv, is about its runs: the finite         *)
(* sequences of values at the head, from any the initial facts allow.      *)
(* Facts that hold at the end of every run cover them (Covers), and a      *)
(* bound no run is longer than bounds them (Bounding).                     *)
(***************************************************************************)
EXTENDS IntervalLoop, IntervalDomainProofs, FiniteSetTheorems

-----------------------------------------------------------------------------
(* Expressions: the fact of an expression holds of its value. *)

Values == [Params -> Int]
Envs == [Params -> Iv]

\* The parameters' facts hold of the values v.
Holding(v, env) == \A p \in Params : In(v[p], env[p])

\* The interval of one number.
LEMMA ExactFacts ==
  ASSUME NEW n \in E
  PROVE  Exact(n) \in Iv /\ \A z \in Int : In(z, Exact(n)) <=> z = n
<1>1. n \in Int
  BY EndsAreIntegers
<1>2. Exact(n) \in Iv
  BY ConstantTypes DEF Exact
<1>3. ASSUME NEW z \in Int PROVE In(z, Exact(n)) <=> z = n
  BY <1>1 DEF Exact, RangeE, In
<1> QED BY <1>2, <1>3

\* An operand by its fields.
LEMMA OperandFields ==
  ASSUME NEW o \in ExprOperands
  PROVE  /\ o.p \in 0 .. P /\ o.k \in E /\ o.k \in Int
         /\ o.p # 0 => o.p \in Params
         /\ o.p > 0 <=> o.p # 0
<1>1. P \in Nat
  BY LoopAssumption
<1>2. o.p \in 0 .. P /\ o.k \in E
  BY DEF ExprOperands
<1>3. o.k \in Int
  BY <1>2, EndsAreIntegers
<1>4. (o.p # 0 => o.p \in Params) /\ (o.p > 0 <=> o.p # 0)
  BY <1>1, <1>2 DEF Params
<1> QED BY <1>2, <1>3, <1>4

\* An operand has a value and a fact, and the fact holds of the value.
LEMMA OperandSound ==
  ASSUME NEW o \in ExprOperands, NEW v \in Values, NEW env \in Envs
  PROVE  /\ Value(o, v) \in Int /\ Fact(o, env) \in Iv
         /\ Holding(v, env) => In(Value(o, v), Fact(o, env))
<1>1. CASE o.p = 0
  BY <1>1, OperandFields, ExactFacts DEF Value, Fact
<1>2. CASE o.p # 0
  BY <1>2, OperandFields DEF Value, Fact, Values, Envs, Holding
<1> QED BY <1>1, <1>2

\* An expression by its fields.
LEMMA ExpressionFields ==
  ASSUME NEW e \in Expressions
  PROVE  /\ e.op \in {"id", "add", "sub", "mul", "div", "rem"}
         /\ e.x \in ExprOperands /\ e.y \in ExprOperands
BY DEF Expressions

\* An expression has a fact.
LEMMA ExprType ==
  ASSUME NEW e \in Expressions, NEW env \in Envs
  PROVE  ExprFact(e, env) \in Iv
<1> DEFINE a == Fact(e.x, env)
           b == Fact(e.y, env)
<1>1. a \in Iv /\ b \in Iv
  <2>1. \E v : v \in Values
    <3>1. [p \in Params |-> 0] \in Values
      BY DEF Values
    <3> QED BY <3>1
  <2> QED BY <2>1, ExpressionFields, OperandSound
<1>2. /\ AddIV(a, b) \in Iv /\ SubIV(a, b) \in Iv /\ MulIV(a, b) \in Iv
      /\ DivIV(a, b) \in Iv /\ RemIV(a, b) \in Iv
      /\ MeetIV(SubIV(a, b), Exact(0)) \in Iv
  BY <1>1, AddType, SubType, MulType, DivType, RemType, MeetType, ExactFacts, EndsAreIntegers
<1> HIDE DEF a, b
<1>3. ExprFact(e, env) \in {a, AddIV(a, b), SubIV(a, b), MulIV(a, b), DivIV(a, b), RemIV(a, b),
                            MeetIV(SubIV(a, b), Exact(0))}
  BY ExpressionFields DEF ExprFact, a, b
<1> QED BY <1>1, <1>2, <1>3

\* Where an expression runs it has a value, and its fact holds of it.
LEMMA ExprSound ==
  ASSUME NEW e \in Expressions, NEW v \in Values, NEW env \in Envs, ExprRuns(e, v)
  PROVE  /\ ExprValue(e, v) \in Int
         /\ Holding(v, env) => In(ExprValue(e, v), ExprFact(e, env))
<1> DEFINE a == Fact(e.x, env)
           b == Fact(e.y, env)
           x == Value(e.x, v)
           y == Value(e.y, v)
           held == In(x, a) /\ In(y, b)
<1>1. a \in Iv /\ b \in Iv /\ x \in Int /\ y \in Int /\ (Holding(v, env) => held)
  BY ExpressionFields, OperandSound
<1>2. e.op \in {"id", "add", "sub", "mul", "div", "rem"} /\ e.x \in ExprOperands /\ e.y \in ExprOperands
  BY ExpressionFields
<1>3. CASE e.op = "id"
  BY <1>1, <1>3 DEF ExprValue, ExprFact
<1>4. CASE e.op = "add"
  <2>1. ExprValue(e, v) = x + y /\ ExprFact(e, env) = AddIV(a, b)
    BY <1>4 DEF ExprValue, ExprFact
  <2> HIDE DEF a, b, x, y
  <2> QED BY <1>1, <2>1, AddSound
<1>5. CASE e.op = "sub"
  <2> DEFINE same == e.x.p > 0 /\ e.x.p = e.y.p
  <2>1. /\ ExprValue(e, v) = x - y
        /\ ExprFact(e, env) = IF same THEN MeetIV(SubIV(a, b), Exact(0)) ELSE SubIV(a, b)
    BY <1>5 DEF ExprValue, ExprFact
  <2>2. same => x = y
    BY DEF Value
  <2> HIDE DEF a, b, x, y, same
  <2>3. x - y \in Int /\ (x = y => x - y = 0)
    BY <1>1
  <2>4. held => SubIV(a, b) \in Iv /\ In(x - y, SubIV(a, b))
    BY <1>1, SubSound
  <2>5. held /\ same => In(x - y, MeetIV(SubIV(a, b), Exact(0)))
    BY <2>2, <2>3, <2>4, MeetExact, ExactFacts, EndsAreIntegers
  <2> QED BY <1>1, <2>1, <2>3, <2>4, <2>5
<1>6. CASE e.op = "mul"
  <2>1. ExprValue(e, v) = x * y /\ ExprFact(e, env) = MulIV(a, b)
    BY <1>6 DEF ExprValue, ExprFact
  <2> HIDE DEF a, b, x, y
  <2> QED BY <1>1, <2>1, MulSound
<1>7. CASE e.op = "div"
  <2>1. ExprValue(e, v) = Quo(x, y) /\ ExprFact(e, env) = DivIV(a, b) /\ y # 0
    BY <1>7 DEF ExprValue, ExprFact, ExprRuns
  <2> HIDE DEF a, b, x, y
  <2>2. Quo(x, y) \in Int
    BY <1>1, <2>1, QuoCases
  <2> QED BY <1>1, <2>1, <2>2, DivSound
<1>8. CASE e.op = "rem"
  <2>1. ExprValue(e, v) = Rem(x, y) /\ ExprFact(e, env) = RemIV(a, b) /\ y # 0
    BY <1>8 DEF ExprValue, ExprFact, ExprRuns
  <2> HIDE DEF a, b, x, y
  <2>2. Rem(x, y) \in Int
    BY <1>1, <2>1, RemFacts
  <2> QED BY <1>1, <2>1, <2>2, RemSound
<1> QED BY <1>2, <1>3, <1>4, <1>5, <1>6, <1>7, <1>8

-----------------------------------------------------------------------------
(* Guards: no value that takes an arm is outside the arm's facts. *)

\* Narrowing an operand by an interval that holds its value loses nothing.
LEMMA NarrowOperandSound ==
  ASSUME NEW o \in ExprOperands, NEW z \in Iv, NEW env \in Envs
  PROVE  /\ NarrowOperand(o, z, env) \in Envs
         /\ \A v \in Values : Holding(v, env) /\ In(Value(o, v), z) => Holding(v, NarrowOperand(o, z, env))
<1>1. CASE o.p = 0
  BY <1>1 DEF NarrowOperand
<1>2. CASE o.p # 0
  <2> DEFINE p == o.p
             f == [env EXCEPT ![p] = MeetIV(env[p], z)]
  <2>1. p \in Params /\ env[p] \in Iv
    BY <1>2, OperandFields DEF Envs
  <2>2. NarrowOperand(o, z, env) = f
    BY <1>2 DEF NarrowOperand
  <2>3. MeetIV(env[p], z) \in Iv
    BY <2>1, MeetType
  <2>4. f \in Envs
    BY <2>1, <2>3 DEF Envs
  <2>5. ASSUME NEW v \in Values, Holding(v, env), In(Value(o, v), z) PROVE Holding(v, f)
    <3>1. Value(o, v) = v[p] /\ v[p] \in Int
      BY <1>2, <2>1 DEF Value, Values
    <3>2. In(v[p], MeetIV(env[p], z))
      BY <2>1, <2>5, <3>1, MeetExact DEF Holding
    <3>3. ASSUME NEW q \in Params PROVE In(v[q], f[q])
      <4>1. f[q] = IF q = p THEN MeetIV(env[p], z) ELSE env[q]
        BY <2>1 DEF Envs
      <4> QED BY <2>5, <3>2, <4>1 DEF Holding
    <3> QED BY <3>3 DEF Holding
  <2> QED BY <2>2, <2>4, <2>5
<1> QED BY <1>1, <1>2

\* What an expression's value is known to be narrows the facts of its operands,
\* and no value of them is lost.
LEMMA BackwardSound ==
  ASSUME NEW e \in Expressions, e.op \notin {"div", "rem"}, NEW m \in Iv, NEW env \in Envs
  PROVE  /\ Backward(e, m, env) \in Envs
         /\ \A v \in Values : Holding(v, env) /\ In(ExprValue(e, v), m)
                              => Holding(v, Backward(e, m, env))
<1> DEFINE Keeps(f) == /\ f \in Envs
                       /\ \A v \in Values : Holding(v, env) /\ In(ExprValue(e, v), m) => Holding(v, f)
           X(v) == Value(e.x, v)
           Y(v) == Value(e.y, v)
<1>1. e.op \in {"id", "add", "sub", "mul"} /\ e.x \in ExprOperands /\ e.y \in ExprOperands
  BY ExpressionFields
<1>2. Keeps(env)
  OBVIOUS
<1>3. ASSUME NEW f, Keeps(f), NEW o \in ExprOperands, NEW z \in Iv,
             \A v \in Values : Holding(v, env) /\ In(ExprValue(e, v), m) => In(Value(o, v), z)
      PROVE  Keeps(NarrowOperand(o, z, f))
  BY <1>3, NarrowOperandSound
<1>4. \A v \in Values : X(v) \in Int /\ Y(v) \in Int
  BY <1>1, <1>2, OperandSound
<1>5. \E v : v \in Values
  <2>1. [p \in Params |-> 0] \in Values
    BY DEF Values
  <2> QED BY <2>1
<1>6. ASSUME NEW f, Keeps(f), NEW o \in ExprOperands
      PROVE  Fact(o, f) \in Iv
             /\ \A v \in Values : Holding(v, env) /\ In(ExprValue(e, v), m) => In(Value(o, v), Fact(o, f))
  BY <1>5, <1>6, OperandSound
<1>7. CASE e.op = "id"
  <2>1. Backward(e, m, env) = NarrowOperand(e.x, m, env)
    BY <1>7 DEF Backward
  <2>2. \A v \in Values : ExprValue(e, v) = X(v)
    BY <1>7 DEF ExprValue
  <2>3. Keeps(NarrowOperand(e.x, m, env))
    BY <1>1, <1>2, <1>3, <2>2
  <2> QED BY <2>1, <2>3
<1>8. CASE e.op = "add"
  <2> DEFINE z == SubIV(m, Fact(e.y, env))
             f == NarrowOperand(e.x, z, env)
             w == SubIV(m, Fact(e.x, f))
  <2>1. Backward(e, m, env) = NarrowOperand(e.y, w, f)
    BY <1>8 DEF Backward
  <2>2. \A v \in Values : ExprValue(e, v) = X(v) + Y(v)
    BY <1>8 DEF ExprValue
  <2> HIDE DEF Keeps, X, Y
  <2>3. /\ z \in Iv
        /\ \A v \in Values : Holding(v, env) /\ In(ExprValue(e, v), m) => In(X(v), z)
    <3>1. Fact(e.y, env) \in Iv
      BY <1>1, <1>2, <1>6
    <3>2. ASSUME NEW v \in Values, Holding(v, env), In(ExprValue(e, v), m) PROVE In(X(v), z)
      <4>1. In(Y(v), Fact(e.y, env))
        BY <1>1, <1>2, <1>6, <3>2 DEF Y
      <4>2. X(v) + Y(v) \in Int /\ (X(v) + Y(v)) - Y(v) = X(v) /\ Y(v) \in Int
        BY <1>4
      <4>3. In((X(v) + Y(v)) - Y(v), z)
        BY <2>2, <3>1, <3>2, <4>1, <4>2, SubSound
      <4> QED BY <4>2, <4>3
    <3> QED BY <3>1, <3>2, SubType
  <2>4. Keeps(f)
    BY <1>1, <1>2, <1>3, <2>3 DEF X
  <2> HIDE DEF f, z
  <2>5. /\ w \in Iv
        /\ \A v \in Values : Holding(v, env) /\ In(ExprValue(e, v), m) => In(Y(v), w)
    <3>1. Fact(e.x, f) \in Iv
      BY <1>1, <2>4, <1>6
    <3>2. ASSUME NEW v \in Values, Holding(v, env), In(ExprValue(e, v), m) PROVE In(Y(v), w)
      <4>1. In(X(v), Fact(e.x, f))
        BY <1>1, <1>6, <2>4, <3>2 DEF X
      <4>2. X(v) + Y(v) \in Int /\ (X(v) + Y(v)) - X(v) = Y(v) /\ X(v) \in Int
        BY <1>4
      <4>3. In((X(v) + Y(v)) - X(v), w)
        BY <2>2, <3>1, <3>2, <4>1, <4>2, SubSound
      <4> QED BY <4>2, <4>3
    <3> QED BY <3>1, <3>2, SubType
  <2>6. Keeps(NarrowOperand(e.y, w, f))
    BY <1>1, <1>3, <2>4, <2>5 DEF Y
  <2> QED BY <2>1, <2>6 DEF Keeps
<1>9. CASE e.op = "sub"
  <2> DEFINE z == AddIV(m, Fact(e.y, env))
             f == NarrowOperand(e.x, z, env)
             w == SubIV(Fact(e.x, f), m)
  <2>1. Backward(e, m, env) = NarrowOperand(e.y, w, f)
    BY <1>9 DEF Backward
  <2>2. \A v \in Values : ExprValue(e, v) = X(v) - Y(v)
    BY <1>9 DEF ExprValue
  <2> HIDE DEF Keeps, X, Y
  <2>3. /\ z \in Iv
        /\ \A v \in Values : Holding(v, env) /\ In(ExprValue(e, v), m) => In(X(v), z)
    <3>1. Fact(e.y, env) \in Iv
      BY <1>1, <1>2, <1>6
    <3>2. ASSUME NEW v \in Values, Holding(v, env), In(ExprValue(e, v), m) PROVE In(X(v), z)
      <4>1. In(Y(v), Fact(e.y, env))
        BY <1>1, <1>2, <1>6, <3>2 DEF Y
      <4>2. X(v) - Y(v) \in Int /\ (X(v) - Y(v)) + Y(v) = X(v) /\ Y(v) \in Int
        BY <1>4
      <4>3. In((X(v) - Y(v)) + Y(v), z)
        BY <2>2, <3>1, <3>2, <4>1, <4>2, AddSound
      <4> QED BY <4>2, <4>3
    <3> QED BY <3>1, <3>2, AddType
  <2>4. Keeps(f)
    BY <1>1, <1>2, <1>3, <2>3 DEF X
  <2> HIDE DEF f, z
  <2>5. /\ w \in Iv
        /\ \A v \in Values : Holding(v, env) /\ In(ExprValue(e, v), m) => In(Y(v), w)
    <3>1. Fact(e.x, f) \in Iv
      BY <1>1, <2>4, <1>6
    <3>2. ASSUME NEW v \in Values, Holding(v, env), In(ExprValue(e, v), m) PROVE In(Y(v), w)
      <4>1. In(X(v), Fact(e.x, f))
        BY <1>1, <1>6, <2>4, <3>2 DEF X
      <4>2. X(v) - Y(v) \in Int /\ X(v) - (X(v) - Y(v)) = Y(v) /\ X(v) \in Int
        BY <1>4
      <4>3. In(X(v) - (X(v) - Y(v)), w)
        BY <2>2, <3>1, <3>2, <4>1, <4>2, SubSound
      <4> QED BY <4>2, <4>3
    <3> QED BY <3>1, <3>2, SubType
  <2>6. Keeps(NarrowOperand(e.y, w, f))
    BY <1>1, <1>3, <2>4, <2>5 DEF Y
  <2> QED BY <2>1, <2>6 DEF Keeps
<1>10. CASE e.op = "mul"
  <2>1. \A v \in Values : ExprValue(e, v) = X(v) * Y(v)
    BY <1>10 DEF ExprValue
  <2>2. CASE e.x = e.y
    <3>1. Backward(e, m, env) = NarrowOperand(e.x, InvSquare(m), env)
      BY <1>10, <2>2 DEF Backward
    <3> HIDE DEF Keeps
    <3>2. \A v \in Values : In(ExprValue(e, v), m) => In(X(v), InvSquare(m))
      BY <1>4, <2>1, <2>2, InvSquareSound
    <3>3. InvSquare(m) \in Iv \/ \A v \in Values : ~In(ExprValue(e, v), m)
      BY <1>4, <2>1, <2>2, InvSquareSound
    <3>4. InvSquare(m) \in Iv
      BY InvSquareType
    <3>5. Keeps(NarrowOperand(e.x, InvSquare(m), env))
      BY <1>1, <1>2, <1>3, <3>2, <3>4
    <3> QED BY <3>1, <3>5 DEF Keeps
  <2>3. CASE e.x # e.y /\ e.x.p > 0 /\ e.y.p = 0
    <3>1. Backward(e, m, env) = NarrowOperand(e.x, InvMulConst(m, e.y.k), env)
      BY <1>10, <2>3 DEF Backward
    <3>2. e.y.k \in Int /\ \A v \in Values : Y(v) = e.y.k
      BY <1>1, <2>3, OperandFields DEF Value
    <3> HIDE DEF Keeps
    <3>3. InvMulConst(m, e.y.k) \in Iv
          /\ \A v \in Values : In(ExprValue(e, v), m) => In(X(v), InvMulConst(m, e.y.k))
      BY <1>4, <2>1, <3>2, InvMulConstSound
    <3>4. Keeps(NarrowOperand(e.x, InvMulConst(m, e.y.k), env))
      BY <1>1, <1>2, <1>3, <3>3
    <3> QED BY <3>1, <3>4 DEF Keeps
  <2>4. CASE e.x # e.y /\ e.x.p = 0 /\ e.y.p > 0
    <3>1. Backward(e, m, env) = NarrowOperand(e.y, InvMulConst(m, e.x.k), env)
      BY <1>10, <2>4 DEF Backward
    <3>2. e.x.k \in Int /\ \A v \in Values : X(v) = e.x.k
      BY <1>1, <2>4, OperandFields DEF Value
    <3> HIDE DEF Keeps
    <3>3. InvMulConst(m, e.x.k) \in Iv
          /\ \A v \in Values : In(ExprValue(e, v), m) => In(Y(v), InvMulConst(m, e.x.k))
      <4>1. \A v \in Values : X(v) * Y(v) = Y(v) * e.x.k
        BY <1>4, <3>2, TimesCommutes
      <4> QED BY <1>4, <2>1, <3>2, <4>1, InvMulConstSound
    <3>4. Keeps(NarrowOperand(e.y, InvMulConst(m, e.x.k), env))
      BY <1>1, <1>2, <1>3, <3>3
    <3> QED BY <3>1, <3>4 DEF Keeps
  <2>5. CASE e.x # e.y /\ ~(e.x.p > 0 /\ e.y.p = 0) /\ ~(e.x.p = 0 /\ e.y.p > 0)
    <3>1. Backward(e, m, env) = env
      BY <1>10, <2>5 DEF Backward
    <3> QED BY <3>1
  <2> QED BY <2>2, <2>3, <2>4, <2>5
<1> QED BY <1>1, <1>7, <1>8, <1>9, <1>10

\* A relation that does not hold is the negated one, and either side may be
\* read first.
LEMMA Relations ==
  ASSUME NEW rel \in Rels, NEW x \in Int, NEW y \in Int
  PROVE  /\ Negate(rel) \in Rels /\ Flip(rel) \in Rels
         /\ Holds(x, Negate(rel), y) <=> ~Holds(x, rel, y)
         /\ Holds(y, Flip(rel), x) <=> Holds(x, rel, y)
<1>1. CASE rel = "lt"
  BY <1>1 DEF Rels, Negate, Flip, Holds
<1>2. CASE rel = "le"
  BY <1>2 DEF Rels, Negate, Flip, Holds
<1>3. CASE rel = "gt"
  BY <1>3 DEF Rels, Negate, Flip, Holds
<1>4. CASE rel = "ge"
  BY <1>4 DEF Rels, Negate, Flip, Holds
<1>5. CASE rel = "eq"
  BY <1>5 DEF Rels, Negate, Flip, Holds
<1>6. CASE rel = "ne"
  BY <1>6 DEF Rels, Negate, Flip, Holds
<1> QED BY <1>1, <1>2, <1>3, <1>4, <1>5, <1>6 DEF Rels

ArmFacts == [env : Envs, dead : BOOLEAN]

\* What a guard leaves of the facts, on the arm where the relation holds, holds
\* of every value that takes the arm, and the arm is not found dead.
LEMMA ArmsSound ==
  ASSUME NEW g \in Comparisons, NEW rel \in Rels, NEW env \in Envs
  PROVE  LET arm == Narrowed(ArmRight(g, rel, ArmLeft(g, rel, ExprFact(g.e, env), env)))
         IN  /\ arm \in ArmFacts
             /\ \A v \in Values :
                  Holding(v, env) /\ Holds(ExprValue(g.e, v), rel, Value(g.o, v))
                    => ~arm.dead /\ Holding(v, arm.env)
<1> DEFINE fx == ExprFact(g.e, env)
           fo == Fact(g.o, env)
           n == MeetIV(fx, NarrowIV(fx, rel, fo))
           f == IF n = fx THEN env ELSE Backward(g.e, n, env)
           left == [n |-> n, env |-> f]
           fy == Fact(g.o, f)
           m == MeetIV(fy, NarrowIV(fy, Flip(rel), n))
           h == NarrowOperand(g.o, m, f)
           dead == n.bot \/ m.bot
           arm == [env |-> h, dead |-> dead \/ \E p \in Params : h[p].bot]
           Takes(v) == Holding(v, env) /\ Holds(ExprValue(g.e, v), rel, Value(g.o, v))
<1>1. g.e \in Expressions /\ g.o \in ExprOperands /\ g.e.op \notin {"div", "rem"}
  BY DEF Comparisons
<1>2. Flip(rel) \in Rels
  <2>1. 0 \in Int
    OBVIOUS
  <2> QED BY <2>1, Relations
<1>3. \E v : v \in Values
  <2>1. [p \in Params |-> 0] \in Values
    BY DEF Values
  <2> QED BY <2>1
<1>4. fx \in Iv /\ fo \in Iv
  BY <1>1, <1>3, ExprType, OperandSound
<1>5. n \in Iv /\ n.bot \in BOOLEAN
  BY <1>2, <1>4, NarrowType, MeetType, Fields
<1>6. f \in Envs
  BY <1>1, <1>5, BackwardSound
<1>7. fy \in Iv
  BY <1>1, <1>3, <1>6, OperandSound
<1>8. m \in Iv /\ m.bot \in BOOLEAN
  BY <1>2, <1>5, <1>7, NarrowType, MeetType, Fields
<1>9. h \in Envs
  BY <1>1, <1>6, <1>8, NarrowOperandSound
<1>10. ArmLeft(g, rel, fx, env) = left
  BY DEF ArmLeft
<1>11. ArmRight(g, rel, left) = [env |-> h, dead |-> dead]
  BY DEF ArmRight
<1>12. Narrowed([env |-> h, dead |-> dead]) = arm
  <2>1. dead \in BOOLEAN
    BY <1>5, <1>8
  <2> HIDE DEF h, dead
  <2> QED BY <2>1 DEF Narrowed
<1>13. ASSUME NEW v \in Values, Takes(v) PROVE ~arm.dead /\ Holding(v, h)
  <2> DEFINE x == ExprValue(g.e, v)
             y == Value(g.o, v)
  <2>1. x \in Int /\ y \in Int /\ In(x, fx) /\ In(y, fo) /\ Holding(v, env)
    BY <1>1, <1>13, ExprSound, OperandSound DEF ExprRuns
  <2>2. In(x, n)
    BY <1>4, <2>1, <1>13, NarrowSound, NarrowType, MeetExact
  <2>3. Holding(v, f)
    BY <1>1, <1>5, <2>1, <2>2, BackwardSound
  <2>4. In(y, fy)
    BY <1>1, <1>6, <2>3, OperandSound
  <2>5. Holds(y, Flip(rel), x)
    BY <2>1, <1>13, Relations
  <2>6. In(y, m)
    BY <1>2, <1>5, <1>7, <2>1, <2>2, <2>4, <2>5, NarrowSound, NarrowType, MeetExact
  <2>7. Holding(v, h)
    BY <1>1, <1>6, <1>8, <2>3, <2>6, NarrowOperandSound
  <2>8. ~n.bot /\ ~m.bot
    BY <2>2, <2>6 DEF In
  <2>9. \A p \in Params : ~h[p].bot
    BY <2>7 DEF Holding, In
  <2> QED BY <2>7, <2>8, <2>9
<1>14. arm \in ArmFacts /\ arm.env = h
  <2>1. arm.dead \in BOOLEAN
    BY <1>5, <1>8
  <2> QED BY <1>9, <2>1 DEF ArmFacts
<1> QED BY <1>10, <1>11, <1>12, <1>13, <1>14

\* The arm of a guard's value.
LEMMA ArmSound ==
  ASSUME NEW g \in Comparisons, NEW holds \in BOOLEAN, NEW env \in Envs
  PROVE  /\ Arm(g, holds, env) \in ArmFacts
         /\ \A v \in Values :
              Holding(v, env) /\ (Holds(ExprValue(g.e, v), g.rel, Value(g.o, v)) <=> holds)
                => ~Arm(g, holds, env).dead /\ Holding(v, Arm(g, holds, env).env)
<1> DEFINE rel == IF holds THEN g.rel ELSE Negate(g.rel)
<1>1. g.e \in Expressions /\ g.o \in ExprOperands /\ g.e.op \notin {"div", "rem"} /\ g.rel \in Rels
  BY DEF Comparisons
<1>2. rel \in Rels
  <2>1. 0 \in Int
    OBVIOUS
  <2> QED BY <1>1, <2>1, Relations
<1>3. ASSUME NEW v \in Values, Holds(ExprValue(g.e, v), g.rel, Value(g.o, v)) <=> holds
      PROVE  Holds(ExprValue(g.e, v), rel, Value(g.o, v))
  <2>0. \E env2 : env2 \in Envs
    OBVIOUS
  <2>1. ExprValue(g.e, v) \in Int /\ Value(g.o, v) \in Int
    BY <1>1, <2>0, ExprSound, OperandSound DEF ExprRuns
  <2> QED BY <1>1, <1>3, <2>1, Relations
<1>4. Arm(g, holds, env) = Narrowed(ArmRight(g, rel, ArmLeft(g, rel, ExprFact(g.e, env), env)))
  BY DEF Arm
<1> HIDE DEF rel
<1> QED BY <1>2, <1>3, <1>4, ArmsSound

-----------------------------------------------------------------------------
(* The body: an exit an execution takes is live, and its facts hold.          *)

\* A loop by its parts.
LEMMA LoopParts ==
  ASSUME IsLoop(prog)
  PROVE  /\ Len(prog.exits) \in Nat /\ Exits = 1 .. Len(prog.exits)
         /\ Len(prog.guards) \in Nat /\ Len(prog.exits) <= Len(prog.guards) + 1
         /\ \A i \in 1 .. Len(prog.guards) : prog.guards[i] \in Comparisons
         /\ \A k \in Exits : \A j \in Params : Args(k)[j] \in Expressions
         /\ prog.init \in Envs
         /\ Conts \subseteq Exits
<1>1. prog.guards \in Seq(Comparisons) /\ prog.exits \in Seq(Exchanges) /\ prog.init \in Envs
      /\ Len(prog.exits) <= Len(prog.guards) + 1
  BY DEF IsLoop, Envs
<1>2. /\ Len(prog.exits) \in Nat /\ Exits = 1 .. Len(prog.exits)
      /\ Len(prog.guards) \in Nat
      /\ \A i \in 1 .. Len(prog.guards) : prog.guards[i] \in Comparisons
  BY <1>1 DEF Exits
<1>3. \A k \in Exits : prog.exits[k] \in Exchanges
  BY <1>1 DEF Exits
<1>4. \A k \in Exits : \A j \in Params : Args(k)[j] \in Expressions
  BY <1>3 DEF Exchanges, Args
<1> QED BY <1>1, <1>2, <1>4 DEF Conts

\* The facts along the chain of guards satisfy the recursion that defines them.
LEMMA ReachedFacts ==
  ASSUME IsLoop(prog), NEW env \in Envs
  PROVE  /\ Reached(env) \in [Exits -> ArmFacts]
         /\ \A j \in Exits :
              Reached(env)[j] = IF j = 1 THEN [env |-> env, dead |-> FALSE]
                                ELSE IF Reached(env)[j - 1].dead THEN Reached(env)[j - 1]
                                ELSE Arm(prog.guards[j - 1], FALSE, Reached(env)[j - 1].env)
<1> DEFINE L == Len(prog.exits)
           start == [env |-> env, dead |-> FALSE]
           Onward(j, s) == IF j = 1 THEN start ELSE IF s.dead THEN s
                           ELSE Arm(prog.guards[j - 1], FALSE, s.env)
           F == [j \in 1 .. L |-> [s \in ArmFacts |-> Onward(j, s)]]
           Body2(path) == [j \in 1 .. L |->
                             IF j = 1 THEN start ELSE IF path[j - 1].dead THEN path[j - 1]
                             ELSE Arm(prog.guards[j - 1], FALSE, path[j - 1].env)]
<1>1. L \in Nat /\ Exits = 1 .. L /\ L <= Len(prog.guards) + 1 /\ Len(prog.guards) \in Nat
      /\ \A i \in 1 .. Len(prog.guards) : prog.guards[i] \in Comparisons
  BY LoopParts
<1>2. start \in ArmFacts
  BY DEF ArmFacts
<1>3. ASSUME NEW j \in 1 .. L, NEW s \in ArmFacts PROVE Onward(j, s) \in ArmFacts
  <2>1. CASE j = 1 \/ s.dead
    BY <1>2, <1>3, <2>1
  <2>2. CASE j # 1 /\ ~s.dead
    <3>1. prog.guards[j - 1] \in Comparisons /\ s.env \in Envs
      BY <1>1, <2>2 DEF ArmFacts
    <3> QED BY <2>2, <3>1, ArmSound
  <2> QED BY <2>1, <2>2
<1>4. F \in Steps(L, ArmFacts)
  BY <1>3 DEF Steps
<1>5. \A j \in 1 .. L : \A s \in ArmFacts : F[j][s] = Onward(j, s)
  OBVIOUS
<1>6. PICK h \in [0 .. L -> ArmFacts] : h[0] = start /\ \A j \in 1 .. L : h[j] = F[j][h[j - 1]]
  <2> HIDE DEF L, F, start
  <2>1. L \in Nat
    BY <1>1
  <2>2. Recursive(L, ArmFacts, start, F)
    BY <2>1, <1>2, <1>4, Recursion
  <2> QED BY <2>2 DEF Recursive
<1> DEFINE g == [j \in 1 .. L |-> h[j]]
<1>7. \A j \in 1 .. L : h[j] = Onward(j, h[j - 1])
  <2> HIDE DEF F, Onward, L
  <2>1. \A j \in 1 .. L : j - 1 \in 0 .. L
    BY <1>1
  <2> QED BY <1>5, <1>6, <2>1
<1>8. g = Body2(g)
  <2>1. ASSUME NEW j \in 1 .. L
        PROVE h[j] = IF j = 1 THEN start ELSE IF g[j - 1].dead THEN g[j - 1]
                     ELSE Arm(prog.guards[j - 1], FALSE, g[j - 1].env)
    <3>1. j # 1 => g[j - 1] = h[j - 1]
      BY <1>1
    <3> HIDE DEF g, start
    <3> QED BY <1>7, <3>1
  <2> QED BY <2>1
<1>9. Reached(env) = CHOOSE path : path = Body2(path)
  BY DEF Reached
<1>10. Reached(env) = Body2(Reached(env))
  <2> HIDE DEF Body2, g
  <2> QED BY <1>8, <1>9
<1> DEFINE r == Reached(env)
<1>11. DOMAIN r = 1 .. L /\ \A j \in 1 .. L : r[j] = IF j = 1 THEN start ELSE IF r[j - 1].dead THEN r[j - 1]
                     ELSE Arm(prog.guards[j - 1], FALSE, r[j - 1].env)
  <2> HIDE DEF r, start, L
  <2>1. r = Body2(r)
    BY <1>10 DEF r
  <2> QED BY <2>1
<1>12. \A j \in 1 .. L : r[j] \in ArmFacts
  <2> DEFINE A == {j \in 0 .. L : j # 0 => r[j] \in ArmFacts}
  <2> HIDE DEF r, L, start
  <2>1. 0 \in A
    BY <1>1
  <2>2. ASSUME NEW j \in 0 .. L - 1, j \in A PROVE j + 1 \in A
    <3>1. j + 1 \in 1 .. L /\ (j + 1) - 1 = j /\ j + 1 \in 0 .. L
      BY <1>1
    <3>2. CASE j = 0
      <4>1. j + 1 = 1 /\ 1 \in 1 .. L
        BY <3>1, <3>2
      <4>2. r[1] = start
        BY <1>11, <4>1
      <4> QED BY <1>2, <3>1, <4>1, <4>2
    <3>3. CASE j # 0
      <4>1. r[j] \in ArmFacts
        BY <2>2, <3>3
      <4>2. r[j + 1] = Onward(j + 1, r[j])
        BY <1>11, <3>1, <3>3
      <4> HIDE DEF Onward
      <4> QED BY <1>3, <3>1, <4>1, <4>2
    <3> QED BY <3>2, <3>3
  <2>3. \A j \in 0 .. L : j \in A
    <3> HIDE DEF A
    <3> QED BY <1>1, <2>1, <2>2, UpTo
  <2> QED BY <1>1, <2>3
<1>13. r = [j \in 1 .. L |-> r[j]]
  <2> HIDE DEF r, L, start
  <2>1. r = Body2(r)
    BY <1>10 DEF r
  <2> QED BY <2>1
<1>14. r \in [1 .. L -> ArmFacts]
  <2> HIDE DEF r, L
  <2> QED BY <1>12, <1>13
<1> HIDE DEF r
<1> QED BY <1>1, <1>11, <1>14 DEF r

\* Every guard before the k-th fails of v: the facts there hold of it.
LEMMA ReachedSound ==
  ASSUME IsLoop(prog), NEW env \in Envs, NEW v \in Values, Holding(v, env),
         NEW k \in Exits, \A i \in 1 .. k - 1 : ~GuardHolds(i, v)
  PROVE  ~Reached(env)[k].dead /\ Holding(v, Reached(env)[k].env)
<1> DEFINE r == Reached(env)
           L == Len(prog.exits)
           Fine(j) == ~r[j].dead /\ Holding(v, r[j].env)
           A == {j \in 0 .. L : j # 0 /\ j <= k => Fine(j)}
<1>1. /\ L \in Nat /\ Exits = 1 .. L /\ L <= Len(prog.guards) + 1 /\ Len(prog.guards) \in Nat
      /\ \A i \in 1 .. Len(prog.guards) : prog.guards[i] \in Comparisons
  BY LoopParts
<1>2. /\ r \in [Exits -> ArmFacts]
      /\ \A j \in Exits : r[j] = IF j = 1 THEN [env |-> env, dead |-> FALSE]
                                 ELSE IF r[j - 1].dead THEN r[j - 1]
                                 ELSE Arm(prog.guards[j - 1], FALSE, r[j - 1].env)
  BY ReachedFacts
<1> HIDE DEF r, L
<1>3. 0 \in A
  BY <1>1
<1>4. ASSUME NEW j \in 0 .. L - 1, j \in A PROVE j + 1 \in A
  <2>1. j + 1 \in Exits /\ (j + 1) - 1 = j /\ j + 1 \in 0 .. L
    BY <1>1
  <2>2. CASE j + 1 > k
    BY <1>1, <2>1, <2>2
  <2>3. CASE j = 0
    <3>1. j + 1 = 1 /\ 1 \in Exits
      BY <2>1, <2>3
    <3>2. r[1] = [env |-> env, dead |-> FALSE]
      BY <1>2, <3>1
    <3> QED BY <2>1, <3>1, <3>2
  <2>4. CASE j # 0 /\ j + 1 <= k
    <3>1. Fine(j) /\ j \in Exits /\ r[j].env \in Envs
      BY <1>1, <1>2, <1>4, <2>4 DEF ArmFacts
    <3>2. prog.guards[j] \in Comparisons /\ j \in 1 .. k - 1
      BY <1>1, <2>4
    <3>3. ~Holds(ExprValue(prog.guards[j].e, v), prog.guards[j].rel, Value(prog.guards[j].o, v))
      BY <3>2 DEF GuardHolds
    <3>4. r[j + 1] = Arm(prog.guards[j], FALSE, r[j].env)
      <4>1. j + 1 # 1 /\ ~r[j].dead
        BY <2>4, <3>1
      <4> QED BY <1>2, <2>1, <4>1
    <3>5. Fine(j + 1)
      BY <3>1, <3>2, <3>3, <3>4, ArmSound
    <3> QED BY <2>1, <3>5
  <2> QED BY <1>1, <2>2, <2>3, <2>4
<1>5. \A j \in 0 .. L : j \in A
  <2> HIDE DEF A
  <2> QED BY <1>1, <1>3, <1>4, UpTo
<1> QED BY <1>1, <1>5 DEF r

\* An execution that takes exit k finds it live, and the facts there hold of it.
LEMMA AtExitSound ==
  ASSUME IsLoop(prog), NEW env \in Envs, NEW k \in Exits
  PROVE  /\ AtExit(k, env) \in ArmFacts
         /\ \A v \in Values : Holding(v, env) /\ Taken(k, v)
              => ~AtExit(k, env).dead /\ Holding(v, AtExit(k, env).env)
<1> DEFINE r == Reached(env)[k]
           g == prog.guards[k]
           here == AtExit(k, env)
<1>1. r \in ArmFacts
  BY ReachedFacts
<1>2. k \in Nat /\ k >= 1 /\ Len(prog.guards) \in Nat
      /\ (k <= Len(prog.guards) => g \in Comparisons)
  BY LoopParts
<1>3. here = IF r.dead \/ k > Len(prog.guards) THEN r ELSE Arm(g, TRUE, r.env)
  BY DEF AtExit
<1>4. \A v \in Values : Holding(v, env) /\ Taken(k, v) => ~r.dead /\ Holding(v, r.env)
  BY ReachedSound DEF Taken
<1>5. \A v \in Values : Taken(k, v) /\ k <= Len(prog.guards)
        => Holds(ExprValue(g.e, v), g.rel, Value(g.o, v))
  BY DEF Taken, GuardHolds
<1> HIDE DEF r, g, here
<1>6. CASE r.dead \/ k > Len(prog.guards)
  <2>1. here = r
    BY <1>3, <1>6
  <2> QED BY <1>1, <1>4, <2>1 DEF here
<1>7. CASE ~r.dead /\ k <= Len(prog.guards)
  <2>1. here = Arm(g, TRUE, r.env) /\ r.env \in Envs /\ g \in Comparisons
    <3>1. ~(k > Len(prog.guards))
      BY <1>2, <1>7
    <3>2. here = Arm(g, TRUE, r.env)
      BY <1>3, <1>7, <3>1
    <3>3. r.env \in Envs
      BY <1>1 DEF ArmFacts
    <3> QED BY <1>2, <1>7, <3>2, <3>3
  <2>2. here \in ArmFacts
    BY <2>1, ArmSound
  <2>3. ASSUME NEW v \in Values, Holding(v, env), Taken(k, v)
        PROVE  ~here.dead /\ Holding(v, here.env)
    <3>1. Holds(ExprValue(g.e, v), g.rel, Value(g.o, v)) /\ Holding(v, r.env)
      BY <1>4, <1>5, <1>7, <2>3
    <3> QED BY <2>1, <3>1, ArmSound
  <2> QED BY <2>2, <2>3 DEF here
<1> QED BY <1>2, <1>6, <1>7

\* What one evaluation of the body records: facts at the live exits, and an
\* execution under the facts env takes a live exit, whose facts hold of the
\* values before the step and of the values it passes on.
LEMMA EvaluateSound ==
  ASSUME IsLoop(prog), NEW env \in Envs
  PROVE  LET at == Evaluate(env)
         IN  /\ DOMAIN at \subseteq Exits
             /\ \A k \in DOMAIN at :
                  /\ at[k].pre \in Envs /\ at[k].args \in Envs
                  /\ \A j \in Params : at[k].args[j] = ExprFact(Args(k)[j], at[k].pre)
             /\ \A k \in Exits : \A v \in Values :
                  Holding(v, env) /\ Taken(k, v) =>
                    k \in DOMAIN at /\ Holding(v, at[k].pre)
<1> DEFINE there == [k \in Exits |-> AtExit(k, env)]
           live == {k \in Exits : ~there[k].dead}
           at == [k \in live |->
                    [pre |-> there[k].env,
                     args |-> [j \in Params |-> ExprFact(Args(k)[j], there[k].env)]]]
<1>1. Evaluate(env) = at
  BY DEF Evaluate, LiveExits
<1>2. \A k \in Exits : there[k] = AtExit(k, env) /\ there[k] \in ArmFacts /\ there[k].env \in Envs
  BY AtExitSound DEF ArmFacts
<1>3. ASSUME NEW k \in live
      PROVE  /\ at[k].pre = there[k].env
             /\ at[k].args \in Envs
             /\ \A j \in Params : at[k].args[j] = ExprFact(Args(k)[j], at[k].pre)
  <2>1. k \in Exits /\ there[k].env \in Envs
    BY <1>2
  <2>2. \A j \in Params : ExprFact(Args(k)[j], there[k].env) \in Iv
    BY <2>1, LoopParts, ExprType
  <2>3. at[k] = [pre |-> there[k].env, args |-> [j \in Params |-> ExprFact(Args(k)[j], there[k].env)]]
    OBVIOUS
  <2> HIDE DEF at, there, live
  <2> QED BY <2>2, <2>3 DEF Envs
<1>4. ASSUME NEW k \in Exits, NEW v \in Values, Holding(v, env), Taken(k, v)
      PROVE  k \in live /\ Holding(v, there[k].env)
  BY <1>2, <1>4, AtExitSound
<1>5. DOMAIN at = live /\ live \subseteq Exits
  OBVIOUS
<1> HIDE DEF at, live, there
<1> QED BY <1>1, <1>2, <1>3, <1>4, <1>5

\* The values a step passes on are integers, and its records' facts hold of them.
LEMMA PassesSound ==
  ASSUME IsLoop(prog), NEW k \in Exits, NEW v \in Values, PassesRun(k, v)
  PROVE  /\ Passes(k, v) \in Values
         /\ \A env \in Envs : \A f \in Envs :
              Holding(v, env) /\ (\A j \in Params : f[j] = ExprFact(Args(k)[j], env))
                => Holding(Passes(k, v), f)
<1>1. \A j \in Params : Args(k)[j] \in Expressions /\ ExprRuns(Args(k)[j], v)
  BY LoopParts DEF PassesRun
<1>2. \E env : env \in Envs
  BY LoopParts
<1>3. \A j \in Params : ExprValue(Args(k)[j], v) \in Int
  BY <1>1, <1>2, ExprSound
<1>4. ASSUME NEW env \in Envs, NEW f \in Envs, Holding(v, env),
             \A j \in Params : f[j] = ExprFact(Args(k)[j], env)
      PROVE  Holding(Passes(k, v), f)
  <2>1. \A j \in Params : In(ExprValue(Args(k)[j], v), ExprFact(Args(k)[j], env))
    BY <1>1, <1>4, ExprSound
  <2> QED BY <1>4, <2>1 DEF Holding, Passes
<1> QED BY <1>3, <1>4 DEF Passes, Values

-----------------------------------------------------------------------------
(* The joins over the exits, and the loop's transformer. *)

\* The join of what some of the exits give holds what each of them gives.
LEMMA JoinOverSound ==
  ASSUME IsLoop(prog), NEW D, D \subseteq Exits, NEW f, f \in [D -> Iv]
  PROVE  /\ JoinOver(f) \in Iv
         /\ \A k \in D : \A z \in Int : In(z, f[k]) => In(z, JoinOver(f))
<1> DEFINE L == Len(prog.exits)
           Onward(n, s) == IF n \in D THEN JoinIV(s, f[n]) ELSE s
           F == [n \in 1 .. L |-> [s \in Iv |-> Onward(n, s)]]
           Law(j) == [n \in 0 .. L |->
                        IF n = 0 THEN Bot
                        ELSE IF n \in DOMAIN f THEN JoinIV(j[n - 1], f[n]) ELSE j[n - 1]]
<1>1. L \in Nat /\ Exits = 1 .. L /\ DOMAIN f = D
  BY LoopParts
<1>2. Bot \in Iv
  BY ConstantTypes, EndsAreIntegers
<1>3. \A n \in 1 .. L : \A s \in Iv : Onward(n, s) \in Iv
  BY JoinType
<1>4. F \in Steps(L, Iv)
  BY <1>3 DEF Steps
<1>5. PICK h \in [0 .. L -> Iv] : h[0] = Bot /\ \A n \in 1 .. L : h[n] = F[n][h[n - 1]]
  <2> HIDE DEF L, F
  <2>1. L \in Nat
    BY <1>1
  <2>2. Recursive(L, Iv, Bot, F)
    BY <2>1, <1>2, <1>4, Recursion
  <2> QED BY <2>2 DEF Recursive
<1>6. h = Law(h)
  <2>1. ASSUME NEW n \in 1 .. L PROVE h[n] = Onward(n, h[n - 1])
    <3>1. h[n - 1] \in Iv
      BY <1>1
    <3> QED BY <1>5, <3>1
  <2> HIDE DEF F, L
  <2>2. \A n \in 0 .. L : h[n] = IF n = 0 THEN Bot
                                 ELSE IF n \in D THEN JoinIV(h[n - 1], f[n]) ELSE h[n - 1]
    BY <1>1, <1>5, <2>1
  <2> QED BY <1>1, <2>2
<1> DEFINE j == CHOOSE j : j = Law(j)
<1>7. JoinOver(f) = j[L]
  BY DEF JoinOver
<1>8. j = Law(j)
  <2> HIDE DEF Law
  <2> QED BY <1>6
<1>9. j[0] = Bot /\ \A n \in 1 .. L : j[n] = Onward(n, j[n - 1])
  <2> HIDE DEF j, L
  <2> QED BY <1>1, <1>8
<1> DEFINE Holds1(n) == j[n] \in Iv /\ \A k \in D : \A z \in Int : k <= n /\ In(z, f[k]) => In(z, j[n])
           A == {n \in 0 .. L : Holds1(n)}
<1> HIDE DEF j, L, F, Law
<1>10. 0 \in A
  <2>1. \A k \in D : ~(k <= 0)
    BY <1>1
  <2> QED BY <1>1, <1>2, <1>9, <2>1
<1>11. ASSUME NEW n \in 0 .. L - 1, n \in A PROVE n + 1 \in A
  <2>1. n + 1 \in 1 .. L /\ (n + 1) - 1 = n /\ n + 1 \in 0 .. L
    BY <1>1
  <2>2. j[n] \in Iv /\ \A k \in D : \A z \in Int : k <= n /\ In(z, f[k]) => In(z, j[n])
    BY <1>11
  <2>3. j[n + 1] = Onward(n + 1, j[n])
    BY <1>9, <2>1
  <2>4. CASE n + 1 \in D
    <3>1. f[n + 1] \in Iv /\ j[n + 1] = JoinIV(j[n], f[n + 1])
      BY <2>3, <2>4
    <3>2. \A z \in Int : In(z, j[n]) \/ In(z, f[n + 1]) => In(z, j[n + 1])
      BY <2>2, <3>1, JoinSound
    <3>3. j[n + 1] \in Iv
      BY <2>2, <3>1, JoinType
    <3>4. \A k \in D : k <= n + 1 => k <= n \/ k = n + 1
      BY <1>1
    <3> QED BY <2>1, <2>2, <3>2, <3>3, <3>4
  <2>5. CASE n + 1 \notin D
    <3>1. j[n + 1] = j[n]
      BY <2>3, <2>5
    <3>2. \A k \in D : k <= n + 1 => k <= n
      BY <1>1, <2>5
    <3> QED BY <2>1, <2>2, <3>1, <3>2
  <2> QED BY <2>4, <2>5
<1>12. L \in A
  <2> HIDE DEF A
  <2>1. L \in 0 .. L
    BY <1>1
  <2> QED BY <1>1, <1>10, <1>11, <2>1, UpTo
<1>13. \A k \in D : k <= L
  BY <1>1
<1> QED BY <1>7, <1>12, <1>13

\* The transformer holds what enters the head and what a live continue passes.
LEMMA TransformSound ==
  ASSUME IsLoop(prog), NEW at, DOMAIN at \subseteq Exits,
         \A k \in DOMAIN at : at[k].args \in Envs
  PROVE  /\ Transform(at) \in Envs
         /\ \A v \in Values : Holding(v, prog.init) => Holding(v, Transform(at))
         /\ \A v \in Values : \A k \in LiveConts(at) :
              Holding(v, at[k].args) => Holding(v, Transform(at))
<1> DEFINE g(j) == [k \in LiveConts(at) |-> at[k].args[j]]
           join(j) == JoinOver(g(j))
<1>1. LiveConts(at) \subseteq Exits /\ LiveConts(at) \subseteq DOMAIN at
  BY LoopParts DEF LiveConts
<1>2. ASSUME NEW j \in Params
      PROVE  /\ prog.init[j] \in Iv /\ join(j) \in Iv
             /\ \A k \in LiveConts(at) : \A z \in Int : In(z, at[k].args[j]) => In(z, join(j))
             /\ Transform(at)[j] = JoinIV(prog.init[j], join(j))
  <2>1. g(j) \in [LiveConts(at) -> Iv]
    BY <1>1 DEF Envs
  <2>2. join(j) \in Iv /\ \A k \in LiveConts(at) : \A z \in Int : In(z, g(j)[k]) => In(z, join(j))
    BY <1>1, <2>1, JoinOverSound
  <2>3. prog.init[j] \in Iv
    BY LoopParts DEF Envs
  <2> QED BY <2>2, <2>3 DEF Transform
<1>3. Transform(at) \in Envs
  <2>1. \A j \in Params : JoinIV(prog.init[j], join(j)) \in Iv
    BY <1>2, JoinType
  <2> QED BY <2>1 DEF Transform, Envs
<1>4. ASSUME NEW v \in Values, NEW j \in Params
      PROVE  In(v[j], prog.init[j]) \/ In(v[j], join(j)) => In(v[j], Transform(at)[j])
  <2>1. v[j] \in Int
    BY DEF Values
  <2> QED BY <1>2, <2>1, JoinSound
<1>5. \A v \in Values : \A j \in Params : v[j] \in Int
  BY DEF Values
<1> HIDE DEF join, g
<1> QED BY <1>2, <1>3, <1>4, <1>5 DEF Holding

-----------------------------------------------------------------------------
(* Runs of the loop from any values its initial facts allow, and the facts    *)
(* that cover them.                                                           *)

Continues(v, w) == \E k \in Conts : Taken(k, v) /\ PassesRun(k, v) /\ w = Passes(k, v)

\* The values at the head, over n back edges.
Runs(n) == {s \in [0 .. n -> Values] :
              /\ Holding(s[0], prog.init)
              /\ \A m \in 1 .. n : Continues(s[m - 1], s[m])}

\* Facts that hold at the head on every iteration of every run.
Covers(c) == \A n \in Nat : \A s \in Runs(n) : Holding(s[n], c)

\* A run cut short is a run.
LEMMA RunPrefix ==
  ASSUME NEW n \in Nat, NEW s \in Runs(n), NEW m \in 0 .. n
  PROVE  /\ [i \in 0 .. m |-> s[i]] \in Runs(m)
         /\ \A c : Covers(c) => Holding(s[m], c)
<1> DEFINE t == [i \in 0 .. m |-> s[i]]
<1>1. /\ s \in [0 .. n -> Values] /\ Holding(s[0], prog.init)
      /\ \A i \in 1 .. n : Continues(s[i - 1], s[i])
  BY DEF Runs
<1>2. \A i \in 0 .. m : t[i] = s[i] /\ i \in 0 .. n
  OBVIOUS
<1>3. t \in [0 .. m -> Values]
  BY <1>1, <1>2
<1>4. t[0] = s[0]
  BY <1>2
<1>5. \A i \in 1 .. m : i \in 1 .. n /\ t[i] = s[i] /\ t[i - 1] = s[i - 1]
  BY <1>2
<1>6. t[m] = s[m] /\ m \in Nat
  BY <1>2
<1> HIDE DEF t
<1>7. t \in Runs(m)
  BY <1>1, <1>3, <1>4, <1>5 DEF Runs
<1> QED BY <1>6, <1>7 DEF Covers, t

\* Under facts that hold of the values before it, a step goes round at a live
\* continue, where the facts hold of the values before and after.
LEMMA StepLive ==
  ASSUME IsLoop(prog), NEW c \in Envs, NEW v \in Values, Holding(v, c),
         NEW k \in Exits, Taken(k, v), PassesRun(k, v)
  PROVE  LET at == Evaluate(c)
         IN  /\ k \in DOMAIN at /\ (k \in Conts => k \in LiveConts(at))
             /\ Holding(v, at[k].pre)
             /\ Passes(k, v) \in Values /\ Holding(Passes(k, v), at[k].args)
<1> DEFINE at == Evaluate(c)
<1>1. k \in DOMAIN at /\ Holding(v, at[k].pre)
  BY EvaluateSound
<1>2. at[k].pre \in Envs /\ at[k].args \in Envs
      /\ \A j \in Params : at[k].args[j] = ExprFact(Args(k)[j], at[k].pre)
  BY <1>1, EvaluateSound
<1> HIDE DEF at
<1>3. Passes(k, v) \in Values /\ Holding(Passes(k, v), at[k].args)
  BY <1>1, <1>2, PassesSound
<1> QED BY <1>1, <1>3 DEF at, LiveConts

\* What the transformer gives holds of the values after a step.
LEMMA StepTransformed ==
  ASSUME IsLoop(prog), NEW c \in Envs, NEW v \in Values, NEW w \in Values,
         Holding(v, c), Continues(v, w)
  PROVE  Holding(w, Transform(Evaluate(c)))
<1>1. PICK k \in Conts : Taken(k, v) /\ PassesRun(k, v) /\ w = Passes(k, v)
  BY DEF Continues
<1>2. k \in Exits
  BY LoopParts
<1>3. k \in LiveConts(Evaluate(c)) /\ Holding(w, Evaluate(c)[k].args)
  BY <1>1, <1>2, StepLive
<1>4. DOMAIN Evaluate(c) \subseteq Exits /\ \A i \in DOMAIN Evaluate(c) : Evaluate(c)[i].args \in Envs
  BY EvaluateSound
<1> DEFINE at == Evaluate(c)
<1> HIDE DEF at
<1>5. k \in LiveConts(at) /\ Holding(w, at[k].args) /\ DOMAIN at \subseteq Exits
      /\ \A i \in DOMAIN at : at[i].args \in Envs
  BY <1>3, <1>4 DEF at
<1>6. Holding(w, Transform(at))
  BY <1>5, TransformSound
<1> QED BY <1>6 DEF at

\* The values at the head before the first step are in the transformer's facts.
LEMMA EntryTransformed ==
  ASSUME IsLoop(prog), NEW c \in Envs
  PROVE  /\ Transform(Evaluate(c)) \in Envs
         /\ \A v \in Values : Holding(v, prog.init) => Holding(v, Transform(Evaluate(c)))
<1> DEFINE at == Evaluate(c)
<1>1. DOMAIN at \subseteq Exits /\ \A i \in DOMAIN at : at[i].args \in Envs
  BY EvaluateSound
<1> HIDE DEF at
<1>2. /\ Transform(at) \in Envs
      /\ \A v \in Values : Holding(v, prog.init) => Holding(v, Transform(at))
  BY <1>1, TransformSound
<1> QED BY <1>2 DEF at

\* Facts that hold all the transformer makes of them cover the runs: a
\* post-fixpoint is an invariant of the loop.
LEMMA PostFixpointCovers ==
  ASSUME IsLoop(prog), NEW c \in Envs,
         \A v \in Values : Holding(v, Transform(Evaluate(c))) => Holding(v, c)
  PROVE  Covers(c)
<1> SUFFICES ASSUME NEW n \in Nat, NEW s \in Runs(n) PROVE Holding(s[n], c)
  BY DEF Covers
<1>1. /\ \A m \in 0 .. n : s[m] \in Values
      /\ Holding(s[0], prog.init)
      /\ \A m \in 1 .. n : Continues(s[m - 1], s[m])
  BY DEF Runs
<1> DEFINE A == {m \in 0 .. n : Holding(s[m], c)}
<1>2. 0 \in A
  BY <1>1, EntryTransformed
<1>3. ASSUME NEW m \in 0 .. n - 1, m \in A PROVE m + 1 \in A
  <2>1. m + 1 \in 1 .. n /\ (m + 1) - 1 = m /\ m + 1 \in 0 .. n /\ m \in 0 .. n
    OBVIOUS
  <2>2. Continues(s[m], s[m + 1]) /\ Holding(s[m], c) /\ s[m] \in Values /\ s[m + 1] \in Values
    BY <1>1, <1>3, <2>1
  <2> QED BY <2>1, <2>2, StepTransformed
<1>4. n \in A
  <2> HIDE DEF A
  <2> QED BY <1>2, <1>3, UpTo
<1> QED BY <1>4

\* What the transformer makes of facts that cover the runs covers them too:
\* the descending rounds lose no value.
LEMMA TransformCovers ==
  ASSUME IsLoop(prog), NEW c \in Envs, Covers(c)
  PROVE  Covers(Transform(Evaluate(c)))
<1> DEFINE f == Transform(Evaluate(c))
<1> SUFFICES ASSUME NEW n \in Nat, NEW s \in Runs(n) PROVE Holding(s[n], f)
  BY DEF Covers
<1>1. /\ \A m \in 0 .. n : s[m] \in Values
      /\ Holding(s[0], prog.init)
      /\ \A m \in 1 .. n : Continues(s[m - 1], s[m])
  BY DEF Runs
<1>2. CASE n = 0
  BY <1>1, <1>2, EntryTransformed
<1>3. CASE n # 0
  <2>1. n \in 1 .. n /\ n - 1 \in 0 .. n /\ n \in 0 .. n
    BY <1>3
  <2>2. Holding(s[n - 1], c)
    BY <2>1, RunPrefix
  <2> QED BY <1>1, <2>1, <2>2, StepTransformed
<1> QED BY <1>2, <1>3

\* Meeting facts that cover the runs covers them.
LEMMA MeetCovers ==
  ASSUME NEW c \in Envs, NEW d \in Envs, Covers(c), Covers(d)
  PROVE  LET m == [j \in Params |-> MeetIV(c[j], d[j])]
         IN  m \in Envs /\ Covers(m)
<1> DEFINE m == [j \in Params |-> MeetIV(c[j], d[j])]
<1>1. m \in Envs
  BY MeetType DEF Envs
<1>2. ASSUME NEW n \in Nat, NEW s \in Runs(n) PROVE Holding(s[n], m)
  <2>1. s[n] \in Values
    <3>1. n \in 0 .. n
      OBVIOUS
    <3> QED BY <3>1 DEF Runs
  <2>2. Holding(s[n], c) /\ Holding(s[n], d)
    BY DEF Covers
  <2>3. ASSUME NEW j \in Params PROVE In(s[n][j], m[j])
    <3>1. s[n][j] \in Int /\ c[j] \in Iv /\ d[j] \in Iv /\ In(s[n][j], c[j]) /\ In(s[n][j], d[j])
      BY <2>1, <2>2 DEF Values, Envs, Holding
    <3> QED BY <3>1, MeetExact
  <2> HIDE DEF m
  <2> QED BY <2>3 DEF Holding
<1> HIDE DEF m
<1> QED BY <1>1, <1>2 DEF Covers, m

-----------------------------------------------------------------------------
(* Steps: what a continue passes, less a parameter's value before it.         *)

\* Halving or more: a positive number's quotient by 2 or more is below it.
LEMMA QuotientStepSound ==
  ASSUME NEW a \in Iv, NEW b \in Iv
  PROVE  /\ QuotientStep(a, b) \in Iv
         /\ \A x, y \in Int : In(x, a) /\ In(y, b) /\ y # 0 => In(Quo(x, y) - x, QuotientStep(a, b))
<1> DEFINE r == [lo |-> -a.hi, hi |-> -1, nlo |-> a.phi, phi |-> FALSE, bot |-> FALSE]
<1>1. -a.hi \in E /\ -1 \in E /\ a.phi \in BOOLEAN /\ a.lo \in Int /\ a.hi \in Int /\ b.lo \in Int
  <2>1. -1 \in Int /\ -EMax <= -1 /\ -1 <= EMax
    BY EMaxAssumption
  <2> QED BY <2>1, Fields, EndsAreIntegers
<1>2. r \in Iv
  BY <1>1, Built
<1>3. CASE a.bot \/ b.bot \/ a.nlo \/ a.lo <= 0 \/ b.nlo \/ b.lo < 2
  <2>1. QuotientStep(a, b) = Top
    BY <1>3 DEF QuotientStep
  <2>2. \A x, y \in Int : y # 0 => Quo(x, y) - x \in Int
    BY QuoCases
  <2> QED BY <2>1, <2>2, ConstantTypes, EndsAreIntegers DEF In, Top
<1>4. CASE ~(a.bot \/ b.bot \/ a.nlo \/ a.lo <= 0 \/ b.nlo \/ b.lo < 2)
  <2>1. QuotientStep(a, b) = Norm(r)
    BY <1>4 DEF QuotientStep
  <2>2. ASSUME NEW x \in Int, NEW y \in Int, In(x, a), In(y, b) PROVE In(Quo(x, y) - x, Norm(r))
    <3>1. x >= 1 /\ y >= 2 /\ (a.phi \/ x <= a.hi)
      BY <1>1, <1>4, <2>2 DEF In
    <3>2. Quo(x, y) = x \div y /\ Quo(x, y) \in Int
      BY <3>1, QuoPositive
    <3> DEFINE q == x \div y
    <3>3. q \in Int /\ q >= 0 /\ q * y <= x
      BY <3>1, FloorFacts, FloorBounds
    <3> HIDE DEF q
    <3>4. q <= x - 1
      <4>1. 2 * q <= y * q
        BY <3>1, <3>3, TimesMonotone
      <4>2. y * q = q * y /\ y * q \in Int
        BY <3>3, TimesCommutes
      <4> QED BY <3>1, <3>3, <4>1, <4>2
    <3>5. q - x \in Int /\ (a.phi \/ -a.hi <= q - x) /\ q - x <= -1
      BY <1>1, <3>1, <3>3, <3>4
    <3>6. In(q - x, r)
      BY <3>5 DEF In
    <3>7. In(q - x, Norm(r))
      BY <1>2, <3>5, <3>6, NormIn
    <3> QED BY <3>2, <3>7 DEF q
  <2> QED BY <1>2, <2>1, <2>2, NormType
<1> QED BY <1>3, <1>4

\* A remainder of a natural number is below its divisor.
LEMMA RemainderStepSound ==
  ASSUME NEW a \in Iv, NEW b \in Iv
  PROVE  /\ RemainderStep(a, b) \in Iv
         /\ \A x, y \in Int : In(x, a) /\ In(y, b) /\ y # 0 => In(Rem(x, y) - y, RemainderStep(a, b))
<1> DEFINE r == [lo |-> -b.hi, hi |-> -1, nlo |-> b.phi, phi |-> FALSE, bot |-> FALSE]
<1>1. -b.hi \in E /\ -1 \in E /\ b.phi \in BOOLEAN /\ a.lo \in Int /\ b.hi \in Int /\ b.lo \in Int
  <2>1. -1 \in Int /\ -EMax <= -1 /\ -1 <= EMax
    BY EMaxAssumption
  <2> QED BY <2>1, Fields, EndsAreIntegers
<1>2. r \in Iv
  BY <1>1, Built
<1>3. CASE a.bot \/ b.bot \/ a.nlo \/ a.lo < 0 \/ b.nlo \/ b.lo <= 0
  <2>1. RemainderStep(a, b) = Top
    BY <1>3 DEF RemainderStep
  <2>2. \A x, y \in Int : y # 0 => Rem(x, y) - y \in Int
    BY RemFacts
  <2> QED BY <2>1, <2>2, ConstantTypes, EndsAreIntegers DEF In, Top
<1>4. CASE ~(a.bot \/ b.bot \/ a.nlo \/ a.lo < 0 \/ b.nlo \/ b.lo <= 0)
  <2>1. RemainderStep(a, b) = Norm(r)
    BY <1>4 DEF RemainderStep
  <2>2. ASSUME NEW x \in Int, NEW y \in Int, In(x, a), In(y, b) PROVE In(Rem(x, y) - y, Norm(r))
    <3>1. x >= 0 /\ y > 0 /\ (b.phi \/ y <= b.hi)
      BY <1>1, <1>4, <2>2 DEF In
    <3> DEFINE q == Rem(x, y)
    <3>2. q \in Int /\ 0 <= q /\ q <= y - 1
      BY <3>1, RemOfNatural
    <3> HIDE DEF q
    <3>3. q - y \in Int /\ (b.phi \/ -b.hi <= q - y) /\ q - y <= -1
      BY <1>1, <3>1, <3>2
    <3>4. In(q - y, r)
      BY <3>3 DEF In
    <3>5. In(q - y, Norm(r))
      BY <1>2, <3>3, <3>4, NormIn
    <3> QED BY <3>5 DEF q
  <2> QED BY <1>2, <2>1, <2>2, NormType
<1> QED BY <1>3, <1>4

\* The symbolic step holds the difference of what an expression gives and a
\* parameter it may be computed from.
LEMMA DeltaSound ==
  ASSUME NEW e \in Expressions, NEW base \in Params, NEW env \in Envs
  PROVE  /\ Delta(e, base, env) \in Iv
         /\ \A v \in Values : Holding(v, env) /\ ExprRuns(e, v)
              => In(ExprValue(e, v) - v[base], Delta(e, base, env))
<1> DEFINE a == Fact(e.x, env)
           b == Fact(e.y, env)
           X(v) == Value(e.x, v)
           Y(v) == Value(e.y, v)
           d == Delta(e, base, env)
           Valid(r) == r \in Iv /\ \A v \in Values : Holding(v, env) /\ ExprRuns(e, v)
                                     => In(ExprValue(e, v) - v[base], r)
<1>1. e.op \in {"id", "add", "sub", "mul", "div", "rem"} /\ e.x \in ExprOperands /\ e.y \in ExprOperands
  BY ExpressionFields
<1>2. base \in Nat /\ base # 0
  BY LoopAssumption DEF Params
<1>3. \E v : v \in Values
  <2>1. [p \in Params |-> 0] \in Values
    BY DEF Values
  <2> QED BY <2>1
<1>4. a \in Iv /\ b \in Iv
  BY <1>1, <1>3, OperandSound
<1>5. \A v \in Values : /\ X(v) \in Int /\ Y(v) \in Int /\ v[base] \in Int
                        /\ Holding(v, env) => In(X(v), a) /\ In(Y(v), b)
  BY <1>1, OperandSound DEF Values
<1>6. \A v \in Values : /\ e.x.p = base => X(v) = v[base]
                        /\ e.y.p = base => Y(v) = v[base]
  BY <1>2 DEF Value
<1>7. \A v \in Values : ExprRuns(e, v) => ExprValue(e, v) \in Int
                        /\ (Holding(v, env) => In(ExprValue(e, v), ExprFact(e, env)))
  BY ExprSound
<1>8. Exact(0) \in Iv /\ In(0, Exact(0))
  BY ExactFacts, EndsAreIntegers
<1> HIDE DEF a, b, X, Y
<1>9. Valid(Top)
  <2>1. Top \in Iv
    BY ConstantTypes, EndsAreIntegers
  <2> QED BY <2>1 DEF In, Top
<1>10. CASE ExprFact(e, env).bot
  <2>1. d = Bot
    BY <1>10 DEF Delta
  <2>2. Bot \in Iv
    BY ConstantTypes, EndsAreIntegers
  <2>3. \A v \in Values : ~(Holding(v, env) /\ ExprRuns(e, v))
    BY <1>7, <1>10 DEF In
  <2> QED BY <2>1, <2>2, <2>3
<1>11. CASE ~ExprFact(e, env).bot /\ e.op = "id" /\ e.x.p = base
  <2>1. d = Exact(0)
    BY <1>11 DEF Delta
  <2>2. \A v \in Values : ExprValue(e, v) - v[base] = 0
    BY <1>5, <1>6, <1>11 DEF ExprValue, X
  <2> QED BY <1>8, <2>1, <2>2
<1>12. CASE ~ExprFact(e, env).bot /\ e.op = "add" /\ e.x.p = base
  <2>1. d = AddIV(Exact(0), b)
    BY <1>12 DEF Delta, b
  <2>2. \A v \in Values : ExprValue(e, v) = X(v) + Y(v)
    BY <1>12 DEF ExprValue, X, Y
  <2>3. \A v \in Values : ExprValue(e, v) - v[base] = 0 + Y(v)
    BY <1>5, <1>6, <1>12, <2>2
  <2>4. AddIV(Exact(0), b) \in Iv
    BY <1>4, <1>8, AddType
  <2>5. \A v \in Values : Holding(v, env) => In(0 + Y(v), AddIV(Exact(0), b))
    BY <1>4, <1>5, <1>8, AddSound
  <2> QED BY <2>1, <2>3, <2>4, <2>5
<1>13. CASE ~ExprFact(e, env).bot /\ e.op = "add" /\ e.x.p # base /\ e.y.p = base
  <2>1. d = AddIV(Exact(0), a)
    BY <1>13 DEF Delta, a
  <2>2. \A v \in Values : ExprValue(e, v) = X(v) + Y(v)
    BY <1>13 DEF ExprValue, X, Y
  <2>3. \A v \in Values : ExprValue(e, v) - v[base] = 0 + X(v)
    BY <1>5, <1>6, <1>13, <2>2
  <2>4. AddIV(Exact(0), a) \in Iv
    BY <1>4, <1>8, AddType
  <2>5. \A v \in Values : Holding(v, env) => In(0 + X(v), AddIV(Exact(0), a))
    BY <1>4, <1>5, <1>8, AddSound
  <2> QED BY <2>1, <2>3, <2>4, <2>5
<1>14. CASE ~ExprFact(e, env).bot /\ e.op = "sub" /\ e.x.p = base
  <2>1. d = SubIV(Exact(0), b)
    BY <1>14 DEF Delta, b
  <2>2. \A v \in Values : ExprValue(e, v) = X(v) - Y(v)
    BY <1>14 DEF ExprValue, X, Y
  <2>3. \A v \in Values : ExprValue(e, v) - v[base] = 0 - Y(v)
    BY <1>5, <1>6, <1>14, <2>2
  <2>4. SubIV(Exact(0), b) \in Iv
    BY <1>4, <1>8, SubType
  <2>5. \A v \in Values : Holding(v, env) => In(0 - Y(v), SubIV(Exact(0), b))
    BY <1>4, <1>5, <1>8, SubSound
  <2> QED BY <2>1, <2>3, <2>4, <2>5
<1>15. CASE ~ExprFact(e, env).bot /\ e.op = "div" /\ e.x.p = base
  <2>1. d = QuotientStep(a, b)
    BY <1>15 DEF Delta, a, b
  <2>2. \A v \in Values : ExprRuns(e, v) => ExprValue(e, v) = Quo(X(v), Y(v)) /\ Y(v) # 0
    BY <1>15 DEF ExprValue, ExprRuns, X, Y
  <2>3. \A v \in Values : v[base] = X(v)
    BY <1>6, <1>15
  <2> QED BY <1>4, <1>5, <2>1, <2>2, <2>3, QuotientStepSound
<1>16. CASE ~ExprFact(e, env).bot /\ e.op = "rem" /\ e.y.p = base
  <2>1. d = RemainderStep(a, b)
    BY <1>16 DEF Delta, a, b
  <2>2. \A v \in Values : ExprRuns(e, v) => ExprValue(e, v) = Rem(X(v), Y(v)) /\ Y(v) # 0
    BY <1>16 DEF ExprValue, ExprRuns, X, Y
  <2>3. \A v \in Values : v[base] = Y(v)
    BY <1>6, <1>16
  <2> QED BY <1>4, <1>5, <2>1, <2>2, <2>3, RemainderStepSound
<1>17. CASE /\ ~ExprFact(e, env).bot
            /\ ~(e.op = "id" /\ e.x.p = base) /\ ~(e.op = "add" /\ e.x.p = base)
            /\ ~(e.op = "add" /\ e.x.p # base /\ e.y.p = base)
            /\ ~(e.op = "sub" /\ e.x.p = base)
            /\ ~(e.op = "div" /\ e.x.p = base) /\ ~(e.op = "rem" /\ e.y.p = base)
  <2>1. d = Top
    BY <1>17 DEF Delta
  <2> QED BY <1>9, <2>1
<1> HIDE DEF d
<1> QED BY <1>10, <1>11, <1>12, <1>13, <1>14, <1>15, <1>16, <1>17 DEF d

-----------------------------------------------------------------------------
(* Trip bounds, for one quantity u over n steps (Theorems 1 and 2 of          *)
(* ir/trip.go).                                                               *)

\* Every step of u is in the interval.
Moves(u, n, step) == \A m \in 1 .. n : In(u[m] - u[m - 1], step)

\* Over n steps each in an interval, a quantity moves by n times its ends.
LEMMA Drift ==
  ASSUME NEW n \in Nat, NEW u, u \in [0 .. n -> Int], NEW step \in Iv, Moves(u, n, step)
  PROVE  /\ \A m \in 0 .. n : ~step.nlo => u[m] >= u[0] + m * step.lo
         /\ \A m \in 0 .. n : ~step.phi => u[m] <= u[0] + m * step.hi
<1> DEFINE l == step.lo
           h == step.hi
           A == {m \in 0 .. n : /\ ~step.nlo => u[m] >= u[0] + m * l
                                /\ ~step.phi => u[m] <= u[0] + m * h}
<1>1. l \in Int /\ h \in Int
  BY Fields
<1>2. \A m \in 0 .. n : u[m] \in Int
  OBVIOUS
<1>3. \A m \in 1 .. n : (step.nlo \/ l <= u[m] - u[m - 1]) /\ (step.phi \/ u[m] - u[m - 1] <= h)
  BY DEF Moves, In
<1> HIDE DEF l, h
<1>4. 0 \in A
  <2>1. 0 * l = 0 /\ 0 * h = 0 /\ 0 \in 0 .. n
    BY <1>1
  <2> QED BY <1>2, <2>1
<1>5. ASSUME NEW m \in 0 .. n - 1, m \in A PROVE m + 1 \in A
  <2>1. m + 1 \in 1 .. n /\ (m + 1) - 1 = m /\ m + 1 \in 0 .. n /\ m \in 0 .. n /\ m \in Int
    OBVIOUS
  <2>2. (m + 1) * l = m * l + l /\ (m + 1) * h = m * h + h /\ m * l \in Int /\ m * h \in Int
    BY <1>1, <2>1
  <2>3. (step.nlo \/ l <= u[m + 1] - u[m]) /\ (step.phi \/ u[m + 1] - u[m] <= h)
    BY <1>3, <2>1
  <2>4. (~step.nlo => u[m] >= u[0] + m * l) /\ (~step.phi => u[m] <= u[0] + m * h)
    BY <1>5
  <2>5. u[m] \in Int /\ u[m + 1] \in Int /\ u[0] \in Int
    BY <1>2, <2>1
  <2>6. ~step.nlo => u[m + 1] >= u[0] + (m + 1) * l
    BY <1>1, <2>2, <2>3, <2>4, <2>5
  <2>7. ~step.phi => u[m + 1] <= u[0] + (m + 1) * h
    BY <1>1, <2>2, <2>3, <2>4, <2>5
  <2> QED BY <2>1, <2>6, <2>7
<1>6. \A m \in 0 .. n : m \in A
  <2> HIDE DEF A
  <2> QED BY <1>4, <1>5, UpTo
<1> QED BY <1>6 DEF l, h

\* THEOREM 2 of ir/trip.go: a parameter that starts in z, is in pre wherever
\* the loop goes round, and always moves the same way, bounds the back edges.
THEOREM RankBoundSound ==
  ASSUME NEW n \in Nat, NEW u, u \in [0 .. n -> Int],
         NEW z \in Iv, NEW pre \in Iv, NEW step \in Iv,
         In(u[0], z), \A m \in 1 .. n : In(u[m - 1], pre), Moves(u, n, step),
         NEW b \in RankBounds(z, pre, step)
  PROVE  b \in Nat /\ n <= b
<1>1. /\ z.lo \in Int /\ z.hi \in Int /\ pre.lo \in Int /\ pre.hi \in Int
      /\ step.lo \in Int /\ step.hi \in Int
  BY Fields
<1> DEFINE up == ~step.nlo /\ step.lo > 0 /\ ~pre.phi /\ ~z.nlo
           down == ~step.phi /\ step.hi < 0 /\ ~pre.nlo /\ ~z.phi
<1>2. \/ up /\ b = MaxE(pre.hi - z.lo + 1, 0)
      \/ down /\ b = MaxE(z.hi - pre.lo + 1, 0)
  BY DEF RankBounds
<1>3. b \in Nat
  BY <1>1, <1>2 DEF MaxE
<1>4. CASE n = 0
  BY <1>3, <1>4
<1>5. CASE n # 0
  <2> DEFINE k == n - 1
  <2>1. k \in 0 .. n /\ n \in 1 .. n /\ k \in Nat /\ n = k + 1
    BY <1>5
  <2>2. u[k] \in Int /\ u[0] \in Int /\ In(u[k], pre)
    BY <2>1
  <2>3. /\ ~step.nlo => u[k] >= u[0] + k * step.lo
        /\ ~step.phi => u[k] <= u[0] + k * step.hi
    BY <2>1, Drift
  <2> HIDE DEF k
  <2>4. CASE up /\ b = MaxE(pre.hi - z.lo + 1, 0)
    <3>1. u[k] <= pre.hi /\ z.lo <= u[0] /\ step.lo >= 1
      BY <1>1, <2>2, <2>4 DEF In
    <3>2. k * step.lo >= k /\ k * step.lo \in Int
      <4>0. 1 \in Int /\ k \in Int /\ k >= 0 /\ step.lo \in Int
        BY <1>1, <2>1
      <4>1. 1 * k <= step.lo * k
        BY <3>1, <4>0, TimesMonotone
      <4> QED BY <1>1, <2>1, <4>1, TimesCommutes
    <3>3. u[k] >= u[0] + k
      BY <1>1, <2>1, <2>2, <2>3, <2>4, <3>2
    <3>4. n <= pre.hi - z.lo + 1
      BY <1>1, <2>1, <2>2, <3>1, <3>3
    <3> QED BY <1>1, <1>3, <2>4, <3>4 DEF MaxE
  <2>5. CASE down /\ b = MaxE(z.hi - pre.lo + 1, 0)
    <3>1. pre.lo <= u[k] /\ u[0] <= z.hi /\ step.hi <= -1
      BY <1>1, <2>2, <2>5 DEF In
    <3>2. k * step.hi <= -k /\ k * step.hi \in Int
      <4>0. -1 \in Int /\ k \in Int /\ k >= 0 /\ step.hi \in Int
        BY <1>1, <2>1
      <4>1. step.hi * k <= (-1) * k
        BY <3>1, <4>0, TimesMonotone
      <4> QED BY <1>1, <2>1, <4>1, TimesCommutes
    <3>3. u[k] <= u[0] - k
      BY <1>1, <2>1, <2>2, <2>3, <2>5, <3>2
    <3>4. n <= z.hi - pre.lo + 1
      BY <1>1, <2>1, <2>2, <3>1, <3>3
    <3> QED BY <1>1, <1>3, <2>5, <3>4 DEF MaxE
  <2> QED BY <1>2, <2>4, <2>5
<1> QED BY <1>4, <1>5

\* The bound b is no less than the number of steps, where there is one.
Bounds0(n, b) == b = NoBound \/ (b \in Nat /\ n <= b)

\* THEOREM 1 of ir/trip.go: a quantity that starts in z and moves by steps in
\* an interval, at most b of them, is in the interval the two give.
THEOREM TripIntervalSound ==
  ASSUME NEW z \in Iv, NEW step \in Iv, NEW b \in Nat \cup {NoBound}
  PROVE  /\ TripInterval(z, step, b) \in Iv
         /\ \A n \in Nat : \A u \in [0 .. n -> Int] :
              In(u[0], z) /\ Moves(u, n, step) /\ Bounds0(n, b) => In(u[n], TripInterval(z, step, b))
<1> DEFINE l == z.lo + b * MinE(step.lo, 0)
           h == z.hi + b * MaxE(step.hi, 0)
           low == ~step.nlo /\ ~z.nlo /\ (IF b = NoBound THEN step.lo >= 0 ELSE Ok(l))
           high == ~step.phi /\ ~z.phi /\ (IF b = NoBound THEN step.hi <= 0 ELSE Ok(h))
           lo == IF low THEN (IF b = NoBound THEN z.lo ELSE l) ELSE 0
           hi == IF high THEN (IF b = NoBound THEN z.hi ELSE h) ELSE 0
           r == [lo |-> lo, hi |-> hi, nlo |-> ~low, phi |-> ~high, bot |-> FALSE]
<1>1. CASE z.bot \/ step.bot
  <2>1. TripInterval(z, step, b) = Top
    BY <1>1 DEF TripInterval
  <2>2. \A n \in Nat : \A u \in [0 .. n -> Int] : u[n] \in Int
    OBVIOUS
  <2> QED BY <2>1, ConstantTypes, EndsAreIntegers DEF In, Top
<1>2. CASE ~z.bot /\ ~step.bot
  <2>1. TripInterval(z, step, b) = Norm(r)
    BY <1>2 DEF TripInterval
  <2>2. /\ z.lo \in Int /\ z.hi \in Int /\ step.lo \in Int /\ step.hi \in Int
        /\ z.lo \in E /\ z.hi \in E /\ 0 \in E /\ b \in Int /\ NoBound = -1
    BY Fields, EndsAreIntegers DEF NoBound
  <2> DEFINE ml == MinE(step.lo, 0)
             mh == MaxE(step.hi, 0)
  <2>3. ml \in Int /\ ml <= 0 /\ ml <= step.lo /\ mh \in Int /\ mh >= 0 /\ step.hi <= mh
    BY <2>2, MinMax
  <2>4. lo \in E /\ hi \in E
    BY <2>2 DEF Ok
  <2>5. r \in Iv
    <3> HIDE DEF low, high, lo, hi
    <3>1. (~low) \in BOOLEAN /\ (~high) \in BOOLEAN
      OBVIOUS
    <3> QED BY <2>4, <3>1, Built
  <2>6. ASSUME NEW n \in Nat, NEW u \in [0 .. n -> Int], In(u[0], z), Moves(u, n, step), Bounds0(n, b)
        PROVE  In(u[n], r)
    <3>1. n \in 0 .. n /\ u[n] \in Int /\ u[0] \in Int /\ n \in Int
      OBVIOUS
    <3>2. /\ ~step.nlo => u[n] >= u[0] + n * step.lo
          /\ ~step.phi => u[n] <= u[0] + n * step.hi
      BY <2>6, <3>1, Drift
    <3>3. (z.nlo \/ z.lo <= u[0]) /\ (z.phi \/ u[0] <= z.hi)
      BY <2>6 DEF In
    <3>4. n * step.lo \in Int /\ n * step.hi \in Int /\ b * ml \in Int /\ b * mh \in Int
      BY <2>2, <2>3, <3>1
    <3>5. ASSUME low PROVE lo <= u[n]
      <4>1. CASE b = NoBound
        <5>1. step.lo >= 0 /\ lo = z.lo
          BY <3>5, <4>1
        <5>2. n * step.lo >= 0
          <6>1. 0 * n <= step.lo * n
            BY <2>2, <3>1, <5>1, TimesMonotone
          <6> QED BY <2>2, <3>1, <6>1, TimesCommutes
        <5> QED BY <2>2, <3>1, <3>2, <3>3, <3>4, <3>5, <5>1, <5>2
      <4>2. CASE b # NoBound
        <5>1. n <= b /\ lo = z.lo + b * ml
          BY <2>6, <3>5, <4>2 DEF Bounds0
        <5>2. b * ml <= n * ml
          BY <2>2, <2>3, <3>1, <5>1, TimesMonotone
        <5>3. n * ml <= n * step.lo
          <6>0. ml \in Int /\ step.lo \in Int /\ n >= 0 /\ ml <= step.lo
            BY <2>2, <2>3
          <6> HIDE DEF ml
          <6>1. ml * n <= step.lo * n
            BY <3>1, <6>0, TimesMonotone
          <6> QED BY <2>2, <2>3, <3>1, <6>1, TimesCommutes
        <5>4. b * ml <= n * step.lo
          <6>1. n * ml \in Int
            BY <2>3, <3>1
          <6> HIDE DEF ml
          <6> QED BY <3>4, <5>2, <5>3, <6>1
        <5>5. z.lo <= u[0] /\ u[n] >= u[0] + n * step.lo
          BY <3>2, <3>3, <3>5
        <5> HIDE DEF ml, lo
        <5> QED BY <2>2, <3>1, <3>4, <5>1, <5>4, <5>5
      <4> QED BY <4>1, <4>2
    <3>6. ASSUME high PROVE u[n] <= hi
      <4>1. CASE b = NoBound
        <5>1. step.hi <= 0 /\ hi = z.hi
          BY <3>6, <4>1
        <5>2. n * step.hi <= 0
          <6>1. step.hi * n <= 0 * n
            BY <2>2, <3>1, <5>1, TimesMonotone
          <6> QED BY <2>2, <3>1, <6>1, TimesCommutes
        <5> QED BY <2>2, <3>1, <3>2, <3>3, <3>4, <3>6, <5>1, <5>2
      <4>2. CASE b # NoBound
        <5>1. n <= b /\ hi = z.hi + b * mh
          BY <2>6, <3>6, <4>2 DEF Bounds0
        <5>2. n * mh <= b * mh
          BY <2>2, <2>3, <3>1, <5>1, TimesMonotone
        <5>3. n * step.hi <= n * mh
          <6>1. step.hi * n <= mh * n
            BY <2>2, <2>3, <3>1, TimesMonotone
          <6> QED BY <2>2, <2>3, <3>1, <6>1, TimesCommutes
        <5>4. n * step.hi <= b * mh
          <6>1. n * mh \in Int
            BY <2>3, <3>1
          <6> HIDE DEF mh
          <6> QED BY <3>4, <5>2, <5>3, <6>1
        <5>5. u[0] <= z.hi /\ u[n] <= u[0] + n * step.hi
          BY <3>2, <3>3, <3>6
        <5> HIDE DEF mh, hi
        <5> QED BY <2>2, <3>1, <3>4, <5>1, <5>4, <5>5
      <4> QED BY <4>1, <4>2
    <3> HIDE DEF low, high, lo, hi
    <3> QED BY <3>5, <3>6 DEF In
  <2> HIDE DEF r
  <2>7. \A n \in Nat : \A u \in [0 .. n -> Int] : u[n] \in Int
    OBVIOUS
  <2> QED BY <2>1, <2>5, <2>6, <2>7, NormType, NormIn
<1> QED BY <1>1, <1>2, Fields

-----------------------------------------------------------------------------
(* A parameter divided on every continue: the bound is a logarithm.          *)

\* One digit of a number in base c, and the digits of its quotient.
LogStep(f, m, c) == IF m < c THEN 0 ELSE f[m \div c] + 1

\* The recursion of the floored logarithm has a solution.
LEMMA LogExists ==
  ASSUME NEW n \in Nat, NEW c \in Nat, c >= 2
  PROVE  \E f \in [0 .. n -> Nat] : \A m \in 0 .. n : f[m] = LogStep(f, m, c)
<1> DEFINE A == {m \in 0 .. n : \E f \in [0 .. n -> Nat] : \A i \in 0 .. m : f[i] = LogStep(f, i, c)}
<1>1. 0 \in A
  <2>1. [i \in 0 .. n |-> 0] \in [0 .. n -> Nat]
    OBVIOUS
  <2>2. \A i \in 0 .. 0 : [j \in 0 .. n |-> 0][i] = LogStep([j \in 0 .. n |-> 0], i, c)
    BY DEF LogStep
  <2>3. 0 \in 0 .. n
    OBVIOUS
  <2> QED BY <2>1, <2>2, <2>3
<1>2. ASSUME NEW m \in 0 .. n - 1, m \in A PROVE m + 1 \in A
  <2>1. PICK f \in [0 .. n -> Nat] : \A i \in 0 .. m : f[i] = LogStep(f, i, c)
    BY <1>2
  <2> DEFINE new == LogStep(f, m + 1, c)
             g == [f EXCEPT ![m + 1] = new]
  <2>2. m + 1 \in 0 .. n /\ m + 1 \in Nat /\ m \in Nat
    OBVIOUS
  <2>3. \A i \in 0 .. m + 1 : i >= c => i \div c \in 0 .. m
    <3> SUFFICES ASSUME NEW i \in 0 .. m + 1, i >= c PROVE i \div c \in 0 .. m
      OBVIOUS
    <3>1. /\ i \in Int /\ c \in Int /\ c > 0 /\ i >= 0
      BY <2>2
    <3>2. i \div c \in Int /\ 0 <= i \div c /\ (i \div c) * c <= i
      BY <3>1, FloorFacts, FloorBounds
    <3>3. 2 * (i \div c) <= c * (i \div c)
      BY <3>1, <3>2, TimesMonotone
    <3>4. 2 * (i \div c) <= i
      BY <3>1, <3>2, <3>3, TimesCommutes
    <3> HIDE DEF A
    <3> QED BY <2>2, <3>1, <3>2, <3>4
  <2>4. new \in Nat
    <3>1. m + 1 \in 0 .. m + 1
      BY <2>2
    <3>2. m + 1 >= c => (m + 1) \div c \in 0 .. n
      BY <2>2, <2>3, <3>1
    <3>3. CASE m + 1 < c
      BY <3>3 DEF LogStep
    <3>4. CASE ~(m + 1 < c)
      <4>1. f[(m + 1) \div c] \in Nat
        BY <2>2, <3>2, <3>4
      <4> QED BY <3>4, <4>1 DEF LogStep
    <3> QED BY <3>3, <3>4
  <2>5. g \in [0 .. n -> Nat] /\ g[m + 1] = new /\ \A i \in 0 .. m : g[i] = f[i]
    <3> HIDE DEF new
    <3> QED BY <2>2, <2>4
  <2> HIDE DEF g
  <2>6. ASSUME NEW i \in 0 .. m + 1 PROVE g[i] = LogStep(g, i, c)
    <3>1. i >= c => g[i \div c] = f[i \div c]
      BY <2>3, <2>5
    <3>2. LogStep(g, i, c) = LogStep(f, i, c)
      BY <2>2, <3>1 DEF LogStep
    <3>3. CASE i = m + 1
      BY <2>5, <3>2, <3>3
    <3>4. CASE i # m + 1
      <4>1. i \in 0 .. m
        BY <2>2, <3>4
      <4> QED BY <2>1, <2>5, <3>2, <4>1
    <3> QED BY <3>3, <3>4
  <2> QED BY <2>2, <2>5, <2>6
<1>3. \A m \in 0 .. n : m \in A
  <2> HIDE DEF A
  <2> QED BY <1>1, <1>2, UpTo
<1>4. n \in A
  BY <1>3
<1> QED BY <1>4

\* The floored logarithm is the number of times a number can be divided by the
\* base and leave a positive quotient; it grows with the number.
LEMMA LogFacts ==
  ASSUME NEW n \in Nat, NEW c \in Nat, c >= 2
  PROVE  \E f \in [0 .. n -> Nat] :
           /\ FloorLog(n, c) = f[n]
           /\ \A m \in 0 .. n : m >= c => f[m] = f[m \div c] + 1
           /\ \A m \in 0 .. n : \A i \in 0 .. m : f[i] <= f[m]
<1> DEFINE Law(f) == [m \in 0 .. n |-> IF m < c THEN 0 ELSE f[m \div c] + 1]
           log == CHOOSE f : f = Law(f)
<1>1. FloorLog(n, c) = log[n]
  BY DEF FloorLog
<1>2. PICK f \in [0 .. n -> Nat] : \A m \in 0 .. n : f[m] = LogStep(f, m, c)
  BY LogExists
<1>3. f = Law(f)
  BY <1>2 DEF LogStep
<1>4. log = Law(log)
  BY <1>3
<1> HIDE DEF log
<1>5. DOMAIN log = 0 .. n /\ \A m \in 0 .. n : log[m] = LogStep(log, m, c)
  BY <1>4 DEF LogStep
<1>6. \A m \in 0 .. n : m >= c => m \div c \in 0 .. m - 1 /\ m \div c \in Int
  <2> SUFFICES ASSUME NEW m \in 0 .. n, m >= c PROVE m \div c \in 0 .. m - 1 /\ m \div c \in Int
    OBVIOUS
  <2>1. m \in Int /\ c \in Int /\ c > 0 /\ m >= 0 /\ m >= 2
    OBVIOUS
  <2>2. m \div c \in Int /\ 0 <= m \div c /\ (m \div c) * c <= m
    BY <2>1, FloorFacts, FloorBounds
  <2>3. 2 * (m \div c) <= c * (m \div c)
    BY <2>1, <2>2, TimesMonotone
  <2>4. 2 * (m \div c) <= m
    BY <2>1, <2>2, <2>3, TimesCommutes
  <2> QED BY <2>1, <2>2, <2>4
<1> DEFINE A == {m \in 0 .. n : /\ \A j \in 0 .. m : log[j] \in Nat
                                /\ \A j \in 0 .. m : \A i \in 0 .. j : log[i] <= log[j]}
<1>7. 0 \in A
  <2>1. log[0] = 0 /\ 0 \in 0 .. n
    BY <1>5 DEF LogStep
  <2>2. \A j \in 0 .. 0 : j = 0
    OBVIOUS
  <2> QED BY <2>1, <2>2
<1>8. ASSUME NEW m \in 0 .. n - 1, m \in A PROVE m + 1 \in A
  <2>1. /\ \A j \in 0 .. m : log[j] \in Nat
        /\ \A j \in 0 .. m : \A i \in 0 .. j : log[i] <= log[j]
    BY <1>8
  <2>2. m + 1 \in 0 .. n /\ m \in Nat /\ \A j \in 0 .. m + 1 : j \in 0 .. m \/ j = m + 1
    OBVIOUS
  <2>3. m + 1 >= c => (m + 1) \div c \in 0 .. m
    <3>1. (m + 1) - 1 = m
      BY <2>2
    <3> QED BY <1>6, <2>2, <3>1
  <2>4. log[m + 1] = IF m + 1 < c THEN 0 ELSE log[(m + 1) \div c] + 1
    BY <1>5, <2>2 DEF LogStep
  <2>5. log[m + 1] \in Nat
    <3>1. CASE m + 1 < c
      BY <2>4, <3>1
    <3>2. CASE ~(m + 1 < c)
      <4>1. log[(m + 1) \div c] \in Nat
        BY <2>1, <2>2, <2>3, <3>2
      <4> QED BY <2>4, <3>2, <4>1
    <3> QED BY <3>1, <3>2
  <2>6. ASSUME NEW i \in 0 .. m PROVE log[i] <= log[m + 1]
    <3>0. i \in 0 .. n /\ i \in Int /\ log[i] \in Nat
      BY <2>1, <2>2
    <3>01. log[i] = LogStep(log, i, c)
      BY <1>5, <3>0
    <3>1. i \in 0 .. n /\ i \in Int /\ log[i] \in Nat /\ log[i] = IF i < c THEN 0 ELSE log[i \div c] + 1
      BY <3>0, <3>01 DEF LogStep
    <3>2. CASE i < c
      BY <2>5, <3>1, <3>2
    <3>3. CASE ~(i < c)
      <4>1. i >= c /\ m + 1 >= c /\ ~(m + 1 < c) /\ c \in Int /\ c > 0 /\ i <= m + 1 /\ m + 1 \in Int
        BY <2>2, <3>1, <3>3
      <4>2. i \div c <= (m + 1) \div c
        BY <3>1, <4>1, FloorMonotone
      <4>3. (m + 1) \div c \in 0 .. m
        BY <2>3, <4>1
      <4>4. i \div c \in 0 .. i - 1
        BY <1>6, <3>1, <4>1
      <4>5. i \div c \in 0 .. (m + 1) \div c
        BY <4>2, <4>3, <4>4, <3>1
      <4>6. log[i \div c] <= log[(m + 1) \div c]
        BY <2>1, <4>3, <4>5
      <4>7. i \div c \in 0 .. m /\ log[i \div c] \in Nat /\ log[(m + 1) \div c] \in Nat
        BY <2>1, <2>2, <3>1, <4>3, <4>4
      <4> QED BY <2>4, <3>1, <3>3, <4>1, <4>6, <4>7
    <3> QED BY <3>2, <3>3
  <2>7. \A j \in 0 .. m + 1 : log[j] \in Nat
    BY <2>1, <2>2, <2>5
  <2>8. ASSUME NEW j \in 0 .. m + 1, NEW i \in 0 .. j PROVE log[i] <= log[j]
    <3>1. CASE j \in 0 .. m
      BY <2>1, <3>1
    <3>2. CASE j = m + 1 /\ i = m + 1
      BY <2>5, <3>2
    <3>3. CASE j = m + 1 /\ i # m + 1
      <4>1. i \in 0 .. m
        BY <2>2, <3>3
      <4> QED BY <2>6, <3>3, <4>1
    <3> QED BY <2>2, <3>1, <3>2, <3>3
  <2> QED BY <2>2, <2>7, <2>8
<1>9. \A m \in 0 .. n : m \in A
  <2> HIDE DEF A
  <2> QED BY <1>7, <1>8, UpTo
<1>10. n \in A /\ n \in 0 .. n
  BY <1>9
<1>11. /\ \A j \in 0 .. n : log[j] \in Nat
       /\ \A j \in 0 .. n : \A i \in 0 .. j : log[i] <= log[j]
  BY <1>10
<1>12. log \in [0 .. n -> Nat]
  <2>1. log = [m \in 0 .. n |-> log[m]]
    BY <1>4
  <2> QED BY <1>11, <2>1
<1>13. ASSUME NEW m \in 0 .. n, m >= c PROVE log[m] = log[m \div c] + 1
  <2>1. ~(m < c)
    BY <1>13
  <2>2. log[m] = LogStep(log, m, c)
    BY <1>5
  <2> QED BY <2>1, <2>2 DEF LogStep
<1> QED BY <1>1, <1>11, <1>12, <1>13

\* THEOREM 2 of ir/trip.go, where every continue divides: a parameter that
\* starts in z, is positive wherever the loop goes round, and is divided by at
\* least c each time, bounds the back edges by a logarithm.
THEOREM GeoBoundSound ==
  ASSUME NEW n \in Nat, NEW u, u \in [0 .. n -> Int],
         NEW z \in Iv, NEW pre \in Iv, NEW c \in Int,
         In(u[0], z), \A m \in 1 .. n : In(u[m - 1], pre),
         \A m \in 1 .. n : \E d \in Int : c <= d /\ u[m] = Quo(u[m - 1], d),
         NEW b \in GeoBounds(z, pre, c)
  PROVE  b \in Nat /\ n <= b
<1>1. /\ c >= 2 /\ ~pre.nlo /\ pre.lo > 0 /\ ~z.phi /\ z.hi > 0
      /\ b = FloorLog(z.hi, c) + 1
  BY Fields DEF GeoBounds
<1> DEFINE h == z.hi
<1>2. h \in Nat /\ c \in Nat /\ pre.lo \in Int /\ c > 0
  BY <1>1, Fields
<1> HIDE DEF h
<1>3. PICK f \in [0 .. h -> Nat] :
        /\ FloorLog(h, c) = f[h]
        /\ \A m \in 0 .. h : m >= c => f[m] = f[m \div c] + 1
        /\ \A m \in 0 .. h : \A i \in 0 .. m : f[i] <= f[m]
  BY <1>1, <1>2, LogFacts
<1>4. h \in 0 .. h /\ f[h] \in Nat /\ b = f[h] + 1
  BY <1>1, <1>2, <1>3 DEF h
<1>5. \A m \in 1 .. n : u[m - 1] >= 1
  <2> SUFFICES ASSUME NEW m \in 1 .. n PROVE u[m - 1] >= 1
    OBVIOUS
  <2>1. u[m - 1] \in Int /\ In(u[m - 1], pre)
    OBVIOUS
  <2> QED BY <1>1, <1>2, <2>1 DEF In
<1>6. u[0] <= h
  BY <1>1 DEF In, h
<1> DEFINE A == {m \in 0 .. n : m <= n - 1 => u[m] \in 1 .. h /\ m + f[u[m]] <= f[h]}
<1>7. 0 \in A
  <2> SUFFICES ASSUME 0 <= n - 1 PROVE u[0] \in 1 .. h /\ 0 + f[u[0]] <= f[h]
    OBVIOUS
  <2>1. 1 \in 1 .. n /\ 1 - 1 = 0 /\ u[0] \in Int
    OBVIOUS
  <2>2. u[0] \in 1 .. h /\ u[0] \in 0 .. h
    <3>1. u[1 - 1] >= 1
      BY <1>5, <2>1
    <3>2. u[0] >= 1
      BY <2>1, <3>1
    <3> QED BY <1>2, <1>6, <2>1, <3>2
  <2>3. f[u[0]] <= f[h] /\ f[u[0]] \in Nat
    BY <1>3, <1>4, <2>2
  <2> QED BY <2>2, <2>3
<1>8. ASSUME NEW m \in 0 .. n - 1, m \in A PROVE m + 1 \in A
  <2> SUFFICES ASSUME m + 1 <= n - 1 PROVE u[m + 1] \in 1 .. h /\ (m + 1) + f[u[m + 1]] <= f[h]
    OBVIOUS
  <2> DEFINE x == u[m]
             y == u[m + 1]
  <2>1. x \in 1 .. h /\ m + f[x] <= f[h] /\ m \in Nat
    BY <1>8
  <2>2. m + 1 \in 1 .. n /\ (m + 1) - 1 = m /\ m + 2 \in 1 .. n /\ (m + 2) - 1 = m + 1
    BY <2>1
  <2>3. y \in Int /\ y >= 1
    <3>1. u[(m + 2) - 1] >= 1
      BY <1>5, <2>2
    <3>2. m + 1 \in 0 .. n
      BY <2>2
    <3> QED BY <2>2, <3>1, <3>2
  <2>4. PICK d \in Int : c <= d /\ y = Quo(x, d)
    BY <2>2
  <2> HIDE DEF x, y
  <2>5. x \in Int /\ x >= 0 /\ d > 0 /\ x <= h /\ c \in Int
    BY <1>2, <2>1, <2>4
  <2>6. y = x \div d
    BY <2>4, <2>5, QuoPositive
  <2>7. x \div d <= x \div c
    BY <1>2, <2>4, <2>5, FloorAntitone
  <2>8. x \div c \in Int /\ x \div c <= x /\ 0 <= x \div c
    BY <1>2, <2>5, FloorFacts, FloorBounds
  <2>9. x >= c
    <3>1. (x \div c) * c <= x
      BY <1>2, <2>5, FloorFacts
    <3>2. 1 * c <= (x \div c) * c
      <4>1. 1 \in Int /\ 1 <= x \div c /\ c >= 0
        BY <1>2, <2>3, <2>6, <2>7, <2>8
      <4> QED BY <2>5, <2>8, <4>1, TimesMonotone
    <3>3. (x \div c) * c \in Int /\ 1 * c = c
      BY <2>5, <2>8, TimesCommutes
    <3> QED BY <2>5, <3>1, <3>2, <3>3
  <2> DEFINE q == x \div c
  <2>10. q \in 0 .. h /\ y \in 0 .. q /\ x \in 0 .. h /\ y \in 1 .. h
    BY <1>2, <2>1, <2>3, <2>5, <2>6, <2>7, <2>8
  <2>11. f[x] = f[q] + 1
    BY <1>3, <2>9, <2>10
  <2> HIDE DEF q
  <2>12. f[y] <= f[q]
    BY <1>3, <2>10
  <2>13. f[y] \in Nat /\ f[q] \in Nat /\ f[x] \in Nat
    <3>1. y \in 0 .. h
      BY <1>2, <2>10
    <3> QED BY <1>3, <2>10, <3>1
  <2>14. (m + 1) + f[y] <= f[h]
    <3>1. m + f[x] <= f[h] /\ m \in Nat
      BY <2>1 DEF x
    <3> DEFINE fx == f[x]
               fy == f[y]
               fq == f[q]
               fh == f[h]
    <3>2. m + fx <= fh /\ fx = fq + 1 /\ fy <= fq /\ fx \in Nat /\ fy \in Nat /\ fq \in Nat /\ fh \in Nat
      BY <1>4, <3>1, <2>11, <2>12, <2>13
    <3> HIDE DEF fx, fy, fq, fh
    <3>3. (m + 1) + fy <= fh
      BY <3>1, <3>2
    <3> QED BY <3>3 DEF fy, fh
  <2> QED BY <2>10, <2>14 DEF y
<1>9. \A m \in 0 .. n : m \in A
  <2> HIDE DEF A
  <2> QED BY <1>7, <1>8, UpTo
<1>10. CASE n = 0
  BY <1>4, <1>10
<1>11. CASE n # 0
  <2>1. n - 1 \in 0 .. n /\ n - 1 \in A
    BY <1>9, <1>11
  <2>2. u[n - 1] \in 1 .. h /\ (n - 1) + f[u[n - 1]] <= f[h]
    BY <2>1
  <2> DEFINE x == u[n - 1]
  <2> HIDE DEF x
  <2>3. x \in 0 .. h /\ (n - 1) + f[x] <= f[h]
    BY <1>2, <2>2 DEF x
  <2>4. f[x] \in Nat
    BY <1>3, <2>3
  <2> QED BY <1>4, <2>3, <2>4
<1> QED BY <1>10, <1>11

-----------------------------------------------------------------------------
(* What the records of one evaluation say of every step of every run.         *)

\* Across a live continue, the step of what it passes from a parameter.
LEMMA StepSound ==
  ASSUME IsLoop(prog), NEW c \in Envs, NEW i \in Params, NEW j \in Params
  PROVE  LET at == Evaluate(c)
         IN  /\ \A k \in DOMAIN at : Step(at, k, i, j) \in Iv
             /\ \A k \in Exits : \A v \in Values : Holding(v, c) /\ Taken(k, v) /\ PassesRun(k, v)
                  => In(Passes(k, v)[j] - v[i], Step(at, k, i, j))
<1> DEFINE at == Evaluate(c)
<1>1. /\ DOMAIN at \subseteq Exits
      /\ \A k \in DOMAIN at :
           /\ at[k].pre \in Envs /\ at[k].args \in Envs
           /\ \A p \in Params : at[k].args[p] = ExprFact(Args(k)[p], at[k].pre)
  BY EvaluateSound
<1>2. \A k \in Exits : Args(k)[j] \in Expressions
  BY LoopParts
<1>3. \A k \in Exits : \A v \in Values : Holding(v, c) /\ Taken(k, v) /\ PassesRun(k, v)
        => /\ k \in DOMAIN at /\ Holding(v, at[k].pre)
           /\ Passes(k, v) \in Values /\ Holding(Passes(k, v), at[k].args)
  BY StepLive
<1> HIDE DEF at
<1>4. ASSUME NEW k \in DOMAIN at
      PROVE  /\ at[k].args[j] \in Iv /\ at[k].pre[i] \in Iv
             /\ Delta(Args(k)[j], i, at[k].pre) \in Iv
             /\ SubIV(at[k].args[j], at[k].pre[i]) \in Iv
  <2>1. at[k].args[j] \in Iv /\ at[k].pre[i] \in Iv
    BY <1>1 DEF Envs
  <2>2. Delta(Args(k)[j], i, at[k].pre) \in Iv
    BY <1>1, <1>2, DeltaSound
  <2> QED BY <2>1, <2>2, SubType
<1>5. \A k \in DOMAIN at : Step(at, k, i, j) \in Iv
  BY <1>4, MeetType DEF Step
<1>6. ASSUME NEW k \in Exits, NEW v \in Values, Holding(v, c), Taken(k, v), PassesRun(k, v)
      PROVE  In(Passes(k, v)[j] - v[i], Step(at, k, i, j))
  <2>1. /\ k \in DOMAIN at /\ Holding(v, at[k].pre)
        /\ Passes(k, v) \in Values /\ Holding(Passes(k, v), at[k].args)
    BY <1>3, <1>6
  <2>2. /\ Passes(k, v)[j] \in Int /\ v[i] \in Int
        /\ In(Passes(k, v)[j], at[k].args[j]) /\ In(v[i], at[k].pre[i])
    BY <2>1 DEF Values, Holding
  <2>3. In(Passes(k, v)[j] - v[i], SubIV(at[k].args[j], at[k].pre[i]))
    BY <1>4, <2>1, <2>2, SubSound
  <2>4. Passes(k, v)[j] = ExprValue(Args(k)[j], v) /\ ExprRuns(Args(k)[j], v)
    BY <1>6 DEF Passes, PassesRun
  <2>5. In(Passes(k, v)[j] - v[i], Delta(Args(k)[j], i, at[k].pre))
    BY <1>1, <1>2, <2>1, <2>4, DeltaSound
  <2>6. Passes(k, v)[j] - v[i] \in Int
    BY <2>2
  <2> QED BY <1>4, <2>1, <2>3, <2>5, <2>6, MeetExact DEF Step
<1> QED BY <1>5, <1>6 DEF at

\* A step of a run, at the continue it takes.
LEMMA RunStep ==
  ASSUME NEW n \in Nat, NEW s \in Runs(n), NEW m \in 1 .. n, NEW c, Covers(c)
  PROVE  /\ s[m] \in Values /\ s[m - 1] \in Values /\ Holding(s[m - 1], c)
         /\ \E k \in Conts : /\ Taken(k, s[m - 1]) /\ PassesRun(k, s[m - 1])
                             /\ s[m] = Passes(k, s[m - 1])
<1>1. m - 1 \in 0 .. n /\ m \in 0 .. n
  OBVIOUS
<1>2. Holding(s[m - 1], c)
  BY <1>1, RunPrefix
<1>3. s \in [0 .. n -> Values] /\ Continues(s[m - 1], s[m])
  BY DEF Runs
<1> QED BY <1>1, <1>2, <1>3 DEF Continues

\* The joined step of a parameter, and its joined facts before the steps, hold
\* of every step of every run.
LEMMA StepFactsSound ==
  ASSUME IsLoop(prog), NEW c \in Envs, NEW j \in Params
  PROVE  LET at == Evaluate(c)
         IN  /\ StepFact(at, j) \in Iv /\ PreFact(at, j) \in Iv
             /\ Covers(c) => \A n \in Nat : \A s \in Runs(n) : \A m \in 1 .. n :
                  /\ In(s[m - 1][j], PreFact(at, j))
                  /\ In(s[m][j] - s[m - 1][j], StepFact(at, j))
<1> DEFINE at == Evaluate(c)
           f == [k \in LiveConts(at) |-> Step(at, k, j, j)]
           g == [k \in LiveConts(at) |-> at[k].pre[j]]
           D == LiveConts(at)
<1>1. D \subseteq Exits /\ D \subseteq DOMAIN at /\ \A k \in DOMAIN at : at[k].pre \in Envs
  BY EvaluateSound, LoopParts DEF LiveConts
<1>2. \A k \in DOMAIN at : Step(at, k, j, j) \in Iv
  BY StepSound
<1>3. f \in [D -> Iv] /\ g \in [D -> Iv]
  BY <1>1, <1>2 DEF Envs
<1>4. StepFact(at, j) = JoinOver(f) /\ PreFact(at, j) = JoinOver(g)
  BY DEF StepFact, PreFact
<1>5. \A k \in D : f[k] = Step(at, k, j, j) /\ g[k] = at[k].pre[j]
  OBVIOUS
<1>6. ASSUME NEW k \in Exits, NEW v \in Values, Holding(v, c), Taken(k, v), PassesRun(k, v), k \in Conts
      PROVE  /\ k \in D /\ Holding(v, at[k].pre) /\ In(Passes(k, v)[j] - v[j], Step(at, k, j, j))
             /\ Passes(k, v) \in Values
  BY <1>6, StepLive, StepSound
<1> HIDE DEF at, D, f, g
<1>7. /\ JoinOver(f) \in Iv /\ JoinOver(g) \in Iv
      /\ \A k \in D : \A z \in Int : In(z, f[k]) => In(z, JoinOver(f))
      /\ \A k \in D : \A z \in Int : In(z, g[k]) => In(z, JoinOver(g))
  BY <1>1, <1>3, JoinOverSound
<1>8. ASSUME Covers(c), NEW n \in Nat, NEW s \in Runs(n), NEW m \in 1 .. n
      PROVE  In(s[m - 1][j], JoinOver(g)) /\ In(s[m][j] - s[m - 1][j], JoinOver(f))
  <2>1. s[m] \in Values /\ s[m - 1] \in Values /\ Holding(s[m - 1], c)
    BY <1>8, RunStep
  <2>2. PICK k \in Conts : Taken(k, s[m - 1]) /\ PassesRun(k, s[m - 1]) /\ s[m] = Passes(k, s[m - 1])
    BY <1>8, RunStep
  <2>3. k \in Exits
    BY LoopParts
  <2>4. k \in D /\ Holding(s[m - 1], at[k].pre) /\ In(s[m][j] - s[m - 1][j], Step(at, k, j, j))
    BY <1>6, <2>1, <2>2, <2>3
  <2>5. s[m][j] \in Int /\ s[m - 1][j] \in Int /\ s[m][j] - s[m - 1][j] \in Int
    BY <2>1 DEF Values
  <2>6. In(s[m - 1][j], g[k]) /\ In(s[m][j] - s[m - 1][j], f[k])
    BY <1>5, <2>4 DEF Holding
  <2> QED BY <1>7, <2>4, <2>5, <2>6
<1> QED BY <1>4, <1>7, <1>8 DEF at

-----------------------------------------------------------------------------
(* The least bound on the back edges. *)

\* A bound there is, is a number.
LEMMA BoundTypes ==
  ASSUME NEW z \in Iv, NEW pre \in Iv, NEW step \in Iv, NEW c \in Int
  PROVE  RankBounds(z, pre, step) \subseteq Nat /\ GeoBounds(z, pre, c) \subseteq Nat
<1>1. /\ z.lo \in Int /\ z.hi \in Int /\ pre.lo \in Int /\ pre.hi \in Int
  BY Fields
<1>2. RankBounds(z, pre, step) \subseteq Nat
  BY <1>1 DEF RankBounds, MaxE
<1>3. ASSUME NEW b \in GeoBounds(z, pre, c) PROVE b \in Nat
  <2>1. c \in Nat /\ c >= 2 /\ z.hi \in Nat /\ b = FloorLog(z.hi, c) + 1
    BY <1>1, <1>3 DEF GeoBounds
  <2> DEFINE h == z.hi
  <2> HIDE DEF h
  <2>2. PICK f \in [0 .. h -> Nat] : FloorLog(h, c) = f[h]
    BY <2>1, LogFacts DEF h
  <2>3. h \in 0 .. h
    BY <2>1 DEF h
  <2>4. FloorLog(h, c) \in Nat
    BY <2>2, <2>3
  <2> QED BY <2>1, <2>4 DEF h
<1> QED BY <1>2, <1>3

\* Where every continue divides a parameter by a literal, the least literal.
LEMMA GeometricSound ==
  ASSUME IsLoop(prog), Conts # {}, NEW j \in Params
  PROVE  /\ Geometric(j) \in Int
         /\ Geometric(j) # 0 => \A k \in Conts : \A v \in Values :
              \E d \in Int : Geometric(j) <= d /\ Passes(k, v)[j] = Quo(v[j], d)
<1> DEFINE div(e) == e.op = "div" /\ e.x.p = j /\ e.y.p = 0 /\ e.y.k >= 2
           cs == {Args(k)[j].y.k : k \in Conts}
<1>1. Geometric(j) = IF \A k \in Conts : div(Args(k)[j]) THEN CHOOSE c \in cs : \A d \in cs : c <= d ELSE 0
  BY DEF Geometric
<1>2. \A k \in Conts : Args(k)[j] \in Expressions
  BY LoopParts
<1>3. \A k \in Conts : Args(k)[j].y.k \in E
  BY <1>2, ExpressionFields, OperandFields
<1>4. cs \in SUBSET E /\ cs # {}
  BY <1>3
<1>5. \A k \in Conts : Args(k)[j].y.k \in cs
  OBVIOUS
<1> HIDE DEF cs
<1>6. \E c \in cs : \A d \in cs : c <= d
  BY <1>4, LeastEnd
<1>7. CASE ~\A k \in Conts : div(Args(k)[j])
  BY <1>1, <1>7
<1>8. CASE \A k \in Conts : div(Args(k)[j])
  <2> DEFINE c == CHOOSE c \in cs : \A d \in cs : c <= d
  <2>1. c \in cs /\ \A d \in cs : c <= d
    BY <1>6
  <2> HIDE DEF c
  <2>2. Geometric(j) = c
    BY <1>1, <1>8 DEF c
  <2>3. c \in Int
    BY <1>4, <2>1, EndsAreIntegers
  <2>4. ASSUME NEW k \in Conts, NEW v \in Values
        PROVE  \E d \in Int : c <= d /\ Passes(k, v)[j] = Quo(v[j], d)
    <3> DEFINE e == Args(k)[j]
               d == e.y.k
    <3>1. d \in cs /\ d \in Int
      BY <1>3, <1>5, EndsAreIntegers
    <3>2. e.op = "div" /\ e.x.p = j /\ e.y.p = 0 /\ j # 0
      BY <1>8 DEF Params
    <3>3. Passes(k, v)[j] = ExprValue(e, v)
      BY DEF Passes
    <3> HIDE DEF e
    <3>4. ExprValue(e, v) = Quo(v[j], d)
      BY <3>2 DEF ExprValue, Value
    <3> QED BY <2>1, <3>1, <3>3, <3>4
  <2> QED BY <2>2, <2>3, <2>4
<1> QED BY <1>7, <1>8

\* The least bound found on the back edges is no less than the length of any run.
THEOREM LeastBoundSound ==
  ASSUME IsLoop(prog), NEW c \in Envs, LiveConts(Evaluate(c)) # {}
  PROVE  LET at == Evaluate(c)
         IN  /\ LeastBound(at) \in Nat \cup {NoBound}
             /\ Covers(c) => \A n \in Nat : Runs(n) # {} => Bounds0(n, LeastBound(at))
<1> DEFINE at == Evaluate(c)
           B(j) == RankBounds(prog.init[j], PreFact(at, j), StepFact(at, j))
                   \cup GeoBounds(prog.init[j], PreFact(at, j), Geometric(j))
<1>1. Bounds(at) = UNION {B(j) : j \in Params}
  BY DEF Bounds
<1>2. Conts # {}
  BY DEF LiveConts
<1>3. \A j \in Params : prog.init[j] \in Iv
  BY LoopParts DEF Envs
<1>4. \A j \in Params : StepFact(at, j) \in Iv /\ PreFact(at, j) \in Iv
  BY StepFactsSound
<1>5. \A j \in Params : Covers(c) => \A n \in Nat : \A s \in Runs(n) : \A m \in 1 .. n :
        /\ In(s[m - 1][j], PreFact(at, j)) /\ In(s[m][j] - s[m - 1][j], StepFact(at, j))
  BY StepFactsSound
<1>6. \A j \in Params : Geometric(j) \in Int
  BY <1>2, GeometricSound
<1> HIDE DEF at
<1>7. \A j \in Params : B(j) \subseteq Nat
  BY <1>3, <1>4, <1>6, BoundTypes
<1>8. Bounds(at) \subseteq Nat
  <2> HIDE DEF B
  <2> QED BY <1>1, <1>7
<1>9. ASSUME Covers(c), NEW n \in Nat, NEW s \in Runs(n), NEW j \in Params, NEW b \in B(j)
      PROVE  n <= b
  <2> DEFINE u == [m \in 0 .. n |-> s[m][j]]
             z == prog.init[j]
             pre == PreFact(at, j)
             step == StepFact(at, j)
  <2>1. s \in [0 .. n -> Values] /\ Holding(s[0], prog.init)
    BY DEF Runs
  <2>2. u \in [0 .. n -> Int] /\ \A m \in 0 .. n : u[m] = s[m][j]
    BY <2>1 DEF Values
  <2>3. z \in Iv /\ pre \in Iv /\ step \in Iv
    BY <1>3, <1>4
  <2>4. In(u[0], z)
    <3>1. 0 \in 0 .. n
      OBVIOUS
    <3> QED BY <2>1, <2>2, <3>1 DEF Holding
  <2>5. \A m \in 1 .. n : m \in 0 .. n /\ m - 1 \in 0 .. n /\ u[m] = s[m][j] /\ u[m - 1] = s[m - 1][j]
    OBVIOUS
  <2>6. \A m \in 1 .. n : In(s[m - 1][j], pre) /\ In(s[m][j] - s[m - 1][j], step)
    BY <1>5, <1>9
  <2> HIDE DEF u, z, pre, step
  <2>7. \A m \in 1 .. n : In(u[m - 1], pre)
    BY <2>5, <2>6
  <2>8. Moves(u, n, step)
    BY <2>5, <2>6 DEF Moves
  <2>9. CASE b \in RankBounds(z, pre, step)
    BY <2>2, <2>3, <2>4, <2>7, <2>8, <2>9, RankBoundSound
  <2>10. CASE b \in GeoBounds(z, pre, Geometric(j))
    <3> DEFINE g == Geometric(j)
    <3>1. g # 0
      BY <2>10 DEF GeoBounds
    <3>2. g \in Int
      BY <1>6
    <3>3. ASSUME NEW m \in 1 .. n PROVE \E d \in Int : g <= d /\ u[m] = Quo(u[m - 1], d)
      <4>1. s[m - 1] \in Values
        BY <1>9, RunStep
      <4>2. PICK k \in Conts : s[m] = Passes(k, s[m - 1])
        BY <1>9, RunStep
      <4>3. \E d \in Int : g <= d /\ Passes(k, s[m - 1])[j] = Quo(s[m - 1][j], d)
        BY <1>2, <3>1, <4>1, GeometricSound
      <4> QED BY <2>5, <4>2, <4>3
    <3> HIDE DEF g
    <3>4. b \in GeoBounds(z, pre, g)
      BY <2>10 DEF g
    <3> QED BY <2>2, <2>3, <2>4, <2>7, <3>2, <3>3, <3>4, GeoBoundSound
  <2> QED BY <2>9, <2>10 DEF z, pre, step
<1> HIDE DEF B
<1>10. CASE Bounds(at) = {}
  <2>1. LeastBound(at) = NoBound
    BY <1>10 DEF LeastBound
  <2> QED BY <2>1 DEF Bounds0, at
<1>11. CASE Bounds(at) # {}
  <2> DEFINE S == Bounds(at)
             b == CHOOSE b \in S : \A d \in S : b <= d
  <2>1. \E d \in S : \A e \in S : d <= e
    BY <1>8, <1>11, LeastNatural
  <2>2. b \in S
    BY <2>1
  <2>3. LeastBound(at) = b
    BY <1>11 DEF LeastBound
  <2> HIDE DEF b
  <2>4. b \in Nat
    BY <1>8, <2>2
  <2>5. ASSUME Covers(c), NEW n \in Nat, Runs(n) # {} PROVE n <= b
    <3>1. PICK j \in Params : b \in B(j)
      BY <1>1, <2>2
    <3> QED BY <1>9, <2>5, <3>1
  <2> QED BY <2>3, <2>4, <2>5 DEF Bounds0, at
<1> QED BY <1>10, <1>11

-----------------------------------------------------------------------------
(* Sums of terms: one for each parameter, and one for each of the two values  *)
(* passed.                                                                    *)

Terms == [1 .. P + 2 -> Int]

\* The sum of the terms, in the order of the parameters.
Total(x) ==
  LET sum[m \in 0 .. P + 2] == IF m = 0 THEN 0 ELSE sum[m - 1] + x[m] IN sum[P + 2]

\* The partial sums of the terms.
Sums(x, h) == h[0] = 0 /\ \A m \in 1 .. P + 2 : h[m] = h[m - 1] + x[m]

\* The sum is the last of the partial sums.
LEMMA TotalFacts ==
  ASSUME NEW x, x \in Terms
  PROVE  \E h \in [0 .. P + 2 -> Int] : Sums(x, h) /\ Total(x) = h[P + 2]
<1> DEFINE L == P + 2
           Law(h) == [m \in 0 .. L |-> IF m = 0 THEN 0 ELSE h[m - 1] + x[m]]
           F == [m \in 1 .. L |-> [s \in Int |-> s + x[m]]]
           sum == CHOOSE h : h = Law(h)
<1>1. L \in Nat /\ L \in 0 .. L
  BY LoopAssumption
<1>2. Total(x) = sum[L]
  BY DEF Total
<1>3. \A m \in 1 .. L : x[m] \in Int
  BY DEF Terms
<1> HIDE DEF L
<1>4. F \in Steps(L, Int)
  BY <1>1, <1>3 DEF Steps
<1>5. \A m \in 1 .. L : \A s \in Int : F[m][s] = s + x[m]
  OBVIOUS
<1>6. 0 \in Int
  OBVIOUS
<1> HIDE DEF F
<1>7. PICK h \in [0 .. L -> Int] : h[0] = 0 /\ \A m \in 1 .. L : h[m] = F[m][h[m - 1]]
  <2> DEFINE S == Int
             a == 0
  <2>1. F \in Steps(L, S) /\ a \in S
    BY <1>4, <1>6
  <2> HIDE DEF S, a
  <2>2. Recursive(L, S, a, F)
    BY <1>1, <2>1, Recursion
  <2> QED BY <2>2 DEF Recursive, S, a
<1>8. \A m \in 1 .. L : m - 1 \in 0 .. L /\ h[m - 1] \in Int
  BY <1>1
<1>9. h[0] = 0 /\ \A m \in 1 .. L : h[m] = h[m - 1] + x[m]
  BY <1>5, <1>7, <1>8
<1>10. h = Law(h)
  <2>1. \A m \in 0 .. L : h[m] = IF m = 0 THEN 0 ELSE h[m - 1] + x[m]
    BY <1>1, <1>9
  <2> QED BY <2>1
<1>11. sum = Law(sum)
  <2> HIDE DEF Law
  <2> QED BY <1>10
<1> HIDE DEF sum
<1>12. DOMAIN sum = 0 .. L /\ \A m \in 0 .. L : sum[m] = IF m = 0 THEN 0 ELSE sum[m - 1] + x[m]
  BY <1>11
<1> DEFINE A == {m \in 0 .. L : sum[m] = h[m]}
<1>13. 0 \in A
  BY <1>1, <1>9, <1>12
<1>14. ASSUME NEW m \in 0 .. L - 1, m \in A PROVE m + 1 \in A
  <2>1. m + 1 \in 1 .. L /\ m + 1 \in 0 .. L /\ (m + 1) - 1 = m /\ m + 1 # 0
    BY <1>1
  <2>2. sum[m + 1] = sum[m] + x[m + 1]
    BY <1>12, <2>1
  <2>3. h[m + 1] = h[m] + x[m + 1]
    BY <1>9, <2>1
  <2> QED BY <1>14, <2>1, <2>2, <2>3
<1>15. L \in A
  <2> HIDE DEF A
  <2> QED BY <1>1, <1>13, <1>14, UpTo
<1>16. Sums(x, h) /\ Total(x) = h[L]
  BY <1>2, <1>9, <1>15 DEF Sums, L
<1> QED BY <1>7, <1>16 DEF L

\* The sum of the terms is an integer.
LEMMA TotalType ==
  ASSUME NEW x, x \in Terms
  PROVE  Total(x) \in Int
<1>1. PICK h \in [0 .. P + 2 -> Int] : Total(x) = h[P + 2]
  BY TotalFacts
<1>2. P + 2 \in 0 .. P + 2
  BY LoopAssumption
<1> QED BY <1>1, <1>2

\* The sum of the sums, two by two, of terms.
LEMMA TotalAdd ==
  ASSUME NEW x, x \in Terms, NEW y, y \in Terms, NEW z, z \in Terms,
         \A t \in 1 .. P + 2 : z[t] = x[t] + y[t]
  PROVE  Total(z) = Total(x) + Total(y)
<1> DEFINE L == P + 2
<1>1. L \in Nat /\ L \in 0 .. L
  BY LoopAssumption
<1>2. PICK hx \in [0 .. L -> Int] : Sums(x, hx) /\ Total(x) = hx[L]
  BY TotalFacts
<1>3. PICK hy \in [0 .. L -> Int] : Sums(y, hy) /\ Total(y) = hy[L]
  BY TotalFacts
<1>4. PICK hz \in [0 .. L -> Int] : Sums(z, hz) /\ Total(z) = hz[L]
  BY TotalFacts
<1>5. /\ hx[0] = 0 /\ \A m \in 1 .. L : hx[m] = hx[m - 1] + x[m]
      /\ hy[0] = 0 /\ \A m \in 1 .. L : hy[m] = hy[m - 1] + y[m]
      /\ hz[0] = 0 /\ \A m \in 1 .. L : hz[m] = hz[m - 1] + z[m]
  BY <1>2, <1>3, <1>4 DEF Sums
<1>6. \A m \in 1 .. L : z[m] = x[m] + y[m] /\ x[m] \in Int /\ y[m] \in Int
  BY DEF Terms
<1> HIDE DEF L
<1> DEFINE A == {m \in 0 .. L : hz[m] = hx[m] + hy[m]}
<1>7. 0 \in A
  BY <1>1, <1>5
<1>8. ASSUME NEW m \in 0 .. L - 1, m \in A PROVE m + 1 \in A
  <2>1. m + 1 \in 1 .. L /\ m + 1 \in 0 .. L /\ (m + 1) - 1 = m /\ m \in 0 .. L
    BY <1>1
  <2>2. hx[m] \in Int /\ hy[m] \in Int /\ hz[m] = hx[m] + hy[m]
    BY <1>8, <2>1
  <2>3. /\ hx[m + 1] = hx[m] + x[m + 1] /\ hy[m + 1] = hy[m] + y[m + 1]
        /\ hz[m + 1] = hz[m] + z[m + 1]
    BY <1>5, <2>1
  <2>4. z[m + 1] = x[m + 1] + y[m + 1] /\ x[m + 1] \in Int /\ y[m + 1] \in Int
    BY <1>6, <2>1
  <2>5. hz[m + 1] = hx[m + 1] + hy[m + 1]
    BY <2>2, <2>3, <2>4
  <2> QED BY <2>1, <2>5
<1>9. L \in A
  <2> HIDE DEF A
  <2> QED BY <1>1, <1>7, <1>8, UpTo
<1> QED BY <1>2, <1>3, <1>4, <1>9

\* The sum of multiples of terms.
LEMMA TotalScale ==
  ASSUME NEW c \in Int, NEW x, x \in Terms, NEW y, y \in Terms,
         \A t \in 1 .. P + 2 : y[t] = c * x[t]
  PROVE  Total(y) = c * Total(x)
<1> DEFINE L == P + 2
<1>1. L \in Nat /\ L \in 0 .. L
  BY LoopAssumption
<1>2. PICK hx \in [0 .. L -> Int] : Sums(x, hx) /\ Total(x) = hx[L]
  BY TotalFacts
<1>3. PICK hy \in [0 .. L -> Int] : Sums(y, hy) /\ Total(y) = hy[L]
  BY TotalFacts
<1>4. /\ hx[0] = 0 /\ \A m \in 1 .. L : hx[m] = hx[m - 1] + x[m]
      /\ hy[0] = 0 /\ \A m \in 1 .. L : hy[m] = hy[m - 1] + y[m]
  BY <1>2, <1>3 DEF Sums
<1>5. \A m \in 1 .. L : y[m] = c * x[m] /\ x[m] \in Int
  BY DEF Terms
<1> HIDE DEF L
<1> DEFINE A == {m \in 0 .. L : hy[m] = c * hx[m]}
<1>6. 0 \in A
  BY <1>1, <1>4
<1>7. ASSUME NEW m \in 0 .. L - 1, m \in A PROVE m + 1 \in A
  <2>1. m + 1 \in 1 .. L /\ m + 1 \in 0 .. L /\ (m + 1) - 1 = m /\ m \in 0 .. L
    BY <1>1
  <2>2. hx[m] \in Int /\ hy[m] = c * hx[m]
    BY <1>7, <2>1
  <2>3. hx[m + 1] = hx[m] + x[m + 1] /\ hy[m + 1] = hy[m] + y[m + 1]
    BY <1>4, <2>1
  <2>4. y[m + 1] = c * x[m + 1] /\ x[m + 1] \in Int
    BY <1>5, <2>1
  <2>5. c * (hx[m] + x[m + 1]) = c * hx[m] + c * x[m + 1]
    BY <2>2, <2>4
  <2> QED BY <2>1, <2>2, <2>3, <2>4, <2>5
<1>8. L \in A
  <2> HIDE DEF A
  <2> QED BY <1>1, <1>6, <1>7, UpTo
<1> QED BY <1>2, <1>3, <1>8

\* The sum of one term, the others being 0.
LEMMA TotalPoint ==
  ASSUME NEW x, x \in Terms, NEW a \in 1 .. P + 2, \A t \in 1 .. P + 2 : t # a => x[t] = 0
  PROVE  Total(x) = x[a]
<1> DEFINE L == P + 2
<1>1. L \in Nat /\ L \in 0 .. L /\ a \in 1 .. L /\ x[a] \in Int
  BY LoopAssumption DEF Terms
<1>2. PICK h \in [0 .. L -> Int] : Sums(x, h) /\ Total(x) = h[L]
  BY TotalFacts
<1>3. h[0] = 0 /\ \A m \in 1 .. L : h[m] = h[m - 1] + x[m]
  BY <1>2 DEF Sums
<1>4. \A t \in 1 .. L : t # a => x[t] = 0
  OBVIOUS
<1> HIDE DEF L
<1> DEFINE A == {m \in 0 .. L : h[m] = IF m < a THEN 0 ELSE x[a]}
<1>5. 0 \in A
  BY <1>1, <1>3
<1>6. ASSUME NEW m \in 0 .. L - 1, m \in A PROVE m + 1 \in A
  <2>1. m + 1 \in 1 .. L /\ m + 1 \in 0 .. L /\ (m + 1) - 1 = m /\ m \in 0 .. L
    BY <1>1
  <2>2. h[m] = IF m < a THEN 0 ELSE x[a]
    BY <1>6
  <2>3. h[m + 1] = h[m] + x[m + 1]
    BY <1>3, <2>1
  <2>4. CASE m + 1 = a
    <3>1. m < a /\ ~(m + 1 < a) /\ h[m] = 0
      BY <1>1, <2>1, <2>2, <2>4
    <3> QED BY <1>1, <2>1, <2>3, <2>4, <3>1
  <2>5. CASE m + 1 # a
    <3>1. x[m + 1] = 0 /\ (m < a <=> m + 1 < a)
      BY <1>1, <1>4, <2>1, <2>5
    <3> QED BY <1>1, <2>1, <2>2, <2>3, <3>1
  <2> QED BY <2>4, <2>5
<1>7. L \in A
  <2> HIDE DEF A
  <2> QED BY <1>1, <1>5, <1>6, UpTo
<1>8. ~(L < a)
  BY <1>1
<1> QED BY <1>2, <1>7, <1>8

\* The sum of no terms.
LEMMA TotalZero ==
  ASSUME NEW x, x \in Terms, \A t \in 1 .. P + 2 : x[t] = 0
  PROVE  Total(x) = 0
<1>1. 1 \in 1 .. P + 2
  BY LoopAssumption
<1> QED BY <1>1, TotalPoint

\* The terms in a set, and 0 for the others.
Masked(x, T) == [t \in 1 .. P + 2 |-> IF t \in T THEN x[t] ELSE 0]

\* One more term in the sum.
LEMMA MaskedAdd ==
  ASSUME NEW x, x \in Terms, NEW T, NEW a \in 1 .. P + 2, a \notin T
  PROVE  Total(Masked(x, T \cup {a})) = Total(Masked(x, T)) + x[a]
<1> DEFINE p == Masked(x, {a})
           q == Masked(x, T)
           r == Masked(x, T \cup {a})
<1>1. p \in Terms /\ q \in Terms /\ r \in Terms
  BY DEF Masked, Terms
<1>2. \A t \in 1 .. P + 2 : r[t] = q[t] + p[t]
  BY DEF Masked, Terms
<1>3. p[a] = x[a] /\ \A t \in 1 .. P + 2 : t # a => p[t] = 0
  BY DEF Masked
<1> HIDE DEF p, q, r
<1>4. Total(p) = x[a]
  BY <1>1, <1>3, TotalPoint
<1>5. Total(r) = Total(q) + Total(p)
  BY <1>1, <1>2, TotalAdd
<1> QED BY <1>4, <1>5 DEF q, r

-----------------------------------------------------------------------------
(* Linear forms of what a continue passes.                                    *)

IsForm(f) == f.co \in [0 .. P -> Int] /\ f.k \in Iv
Bounded(f, b) == \A p \in 0 .. P : -b <= f.co[p] /\ f.co[p] <= b

\* The terms of a form over the parameters' values, and a value it stands for:
\* a constant of its interval, its terms, and its multiple of its own value.
FormTerms(f, v) == [t \in 1 .. P + 2 |-> IF t \in Params THEN f.co[t] * v[t] ELSE 0]
Means(f, v, own, w) ==
  \E kv \in Int : In(kv, f.k) /\ w = kv + Total(FormTerms(f, v)) + f.co[0] * own

\* The terms of a form are integers.
LEMMA FormTermsType ==
  ASSUME NEW f, IsForm(f), NEW v \in Values
  PROVE  /\ FormTerms(f, v) \in Terms /\ Total(FormTerms(f, v)) \in Int /\ f.co[0] \in Int
         /\ \A t \in 1 .. P + 2 : FormTerms(f, v)[t] = IF t \in Params THEN f.co[t] * v[t] ELSE 0
<1>0. P \in Nat
  BY LoopAssumption
<1>1. \A t \in Params : f.co[t] \in Int /\ v[t] \in Int
  <2>1. f.co \in [0 .. P -> Int] /\ v \in [Params -> Int]
    BY DEF IsForm, Values
  <2>2. \A t \in Params : t \in 0 .. P
    BY <1>0 DEF Params
  <2> QED BY <2>1, <2>2
<1>2. \A t \in Params : f.co[t] * v[t] \in Int
  BY <1>1
<1>3. FormTerms(f, v) \in Terms
  BY <1>2 DEF FormTerms, Terms
<1>4. P \in Nat
  BY LoopAssumption
<1>5. f.co[0] \in Int
  BY <1>4 DEF IsForm
<1> QED BY <1>3, <1>5, TotalType DEF FormTerms

\* The form of a literal.
LEMMA LitFormSound ==
  ASSUME NEW c \in E
  PROVE  /\ IsForm(LitForm(c)) /\ Bounded(LitForm(c), 0) /\ LitForm(c).co[0] = 0
         /\ \A v \in Values : \A own \in Int : Means(LitForm(c), v, own, c)
<1> DEFINE f == LitForm(c)
<1>1. P \in Nat /\ c \in Int
  BY LoopAssumption, EndsAreIntegers
<1>2. f.co = [p \in 0 .. P |-> 0] /\ f.k = Exact(c)
  BY DEF LitForm
<1>3. f.k \in Iv /\ In(c, f.k)
  BY <1>1, <1>2, ExactFacts
<1>4. IsForm(f) /\ f.co[0] = 0 /\ Bounded(f, 0) /\ \A p \in Params : f.co[p] = 0
  BY <1>1, <1>2, <1>3 DEF IsForm, Bounded, Params
<1> HIDE DEF f
<1>5. ASSUME NEW v \in Values, NEW own \in Int PROVE Means(f, v, own, c)
  <2>1. FormTerms(f, v) \in Terms /\ \A t \in 1 .. P + 2 : FormTerms(f, v)[t] = 0
    <3>1. \A t \in Params : v[t] \in Int
      BY DEF Values
    <3>2. \A t \in Params : f.co[t] * v[t] = 0
      BY <1>4, <3>1
    <3> QED BY <1>4, <3>2, FormTermsType
  <2>2. Total(FormTerms(f, v)) = 0
    BY <2>1, TotalZero
  <2>3. c = c + Total(FormTerms(f, v)) + f.co[0] * own
    BY <1>1, <1>4, <2>2
  <2> QED BY <1>1, <1>3, <2>3 DEF Means
<1> QED BY <1>4, <1>5 DEF f

\* The form of a parameter, or (a = 0) of a value of its own.
LEMMA AtomFormSound ==
  ASSUME NEW a \in 0 .. P
  PROVE  /\ IsForm(AtomForm(a)) /\ Bounded(AtomForm(a), 1)
         /\ a # 0 => /\ AtomForm(a).co[0] = 0
                     /\ \A v \in Values : \A own \in Int : Means(AtomForm(a), v, own, v[a])
         /\ a = 0 => \A v \in Values : \A own \in Int : Means(AtomForm(a), v, own, own)
<1> DEFINE f == AtomForm(a)
<1>1. P \in Nat /\ a \in Nat
  BY LoopAssumption
<1>2. f.co = [p \in 0 .. P |-> IF p = a THEN 1 ELSE 0] /\ f.k = Exact(0)
  BY DEF AtomForm
<1>3. f.k \in Iv /\ In(0, f.k)
  BY <1>2, ExactFacts, EndsAreIntegers
<1>4. /\ IsForm(f) /\ Bounded(f, 1) /\ \A p \in 0 .. P : f.co[p] = IF p = a THEN 1 ELSE 0
      /\ 0 \in 0 .. P
  BY <1>1, <1>2, <1>3 DEF IsForm, Bounded
<1> HIDE DEF f
<1>5. ASSUME NEW v \in Values
      PROVE  Total(FormTerms(f, v)) = IF a = 0 THEN 0 ELSE v[a]
  <2> DEFINE x == FormTerms(f, v)
  <2>1. x \in Terms /\ \A t \in 1 .. P + 2 : x[t] = IF t \in Params THEN f.co[t] * v[t] ELSE 0
    BY <1>4, FormTermsType
  <2>2. \A t \in Params : v[t] \in Int /\ t \in 0 .. P /\ t # 0
    BY DEF Values, Params
  <2>3. \A t \in Params : f.co[t] * v[t] = IF t = a THEN v[t] ELSE 0
    <3> SUFFICES ASSUME NEW t \in Params PROVE f.co[t] * v[t] = IF t = a THEN v[t] ELSE 0
      OBVIOUS
    <3>1. f.co[t] = (IF t = a THEN 1 ELSE 0) /\ v[t] \in Int
      BY <1>4, <2>2
    <3>2. CASE t = a
      BY <3>1, <3>2
    <3>3. CASE t # a
      BY <3>1, <3>3
    <3> QED BY <3>2, <3>3
  <2> HIDE DEF x
  <2>4. \A t \in 1 .. P + 2 : x[t] = IF t \in Params /\ t = a THEN v[t] ELSE 0
    BY <2>1, <2>3
  <2>5. CASE a = 0
    <3>1. \A t \in 1 .. P + 2 : x[t] = 0
      BY <2>2, <2>4, <2>5
    <3> QED BY <2>1, <2>5, <3>1, TotalZero DEF x
  <2>6. CASE a # 0
    <3>1. a \in Params /\ a \in 1 .. P + 2
      BY <1>1, <2>6 DEF Params
    <3>2. x[a] = v[a] /\ \A t \in 1 .. P + 2 : t # a => x[t] = 0
      BY <2>4, <3>1
    <3> QED BY <2>1, <2>6, <3>1, <3>2, TotalPoint DEF x
  <2> QED BY <2>5, <2>6
<1>6. ASSUME a # 0 PROVE f.co[0] = 0 /\ \A v \in Values : \A own \in Int : Means(f, v, own, v[a])
  <2>1. f.co[0] = 0
    BY <1>4, <1>6
  <2>2. ASSUME NEW v \in Values, NEW own \in Int PROVE Means(f, v, own, v[a])
    <3>1. v[a] \in Int
      BY <1>1, <1>6 DEF Values, Params
    <3>2. v[a] = 0 + Total(FormTerms(f, v)) + f.co[0] * own
      BY <1>5, <1>6, <2>1, <3>1
    <3> QED BY <1>3, <3>2 DEF Means
  <2> QED BY <2>1, <2>2
<1>7. ASSUME a = 0 PROVE \A v \in Values : \A own \in Int : Means(f, v, own, own)
  <2>1. f.co[0] = 1
    BY <1>4, <1>7
  <2>2. ASSUME NEW v \in Values, NEW own \in Int PROVE Means(f, v, own, own)
    <3>1. own = 0 + Total(FormTerms(f, v)) + f.co[0] * own
      BY <1>5, <1>7, <2>1
    <3> QED BY <1>3, <3>1 DEF Means
  <2> QED BY <2>2
<1> QED BY <1>4, <1>6, <1>7 DEF f

\* The difference of two forms.
LEMMA SubFormSound ==
  ASSUME NEW f, NEW g, IsForm(f), IsForm(g)
  PROVE  /\ IsForm(SubForm(f, g))
         /\ \A p \in 0 .. P : SubForm(f, g).co[p] = f.co[p] - g.co[p]
         /\ \A v \in Values : \A own, x, y \in Int :
              Means(f, v, own, x) /\ Means(g, v, own, y) => Means(SubForm(f, g), v, own, x - y)
<1> DEFINE d == SubForm(f, g)
<1>1. d.co = [p \in 0 .. P |-> f.co[p] - g.co[p]] /\ d.k = SubIV(f.k, g.k)
  BY DEF SubForm
<1>2. \A p \in 0 .. P : f.co[p] \in Int /\ g.co[p] \in Int /\ f.co[p] - g.co[p] \in Int
  <2>1. f.co \in [0 .. P -> Int] /\ g.co \in [0 .. P -> Int]
    BY DEF IsForm
  <2>2. \A p \in 0 .. P : f.co[p] \in Int /\ g.co[p] \in Int
    BY <2>1
  <2> QED BY <2>2
<1>3. f.k \in Iv /\ g.k \in Iv
  BY DEF IsForm
<1>4. IsForm(d) /\ \A p \in 0 .. P : d.co[p] = f.co[p] - g.co[p]
  BY <1>1, <1>2, <1>3, SubType DEF IsForm
<1>5. P \in Nat /\ 0 \in 0 .. P
  BY LoopAssumption
<1> HIDE DEF d
<1>6. ASSUME NEW v \in Values, NEW own \in Int, NEW x \in Int, NEW y \in Int,
             Means(f, v, own, x), Means(g, v, own, y)
      PROVE  Means(d, v, own, x - y)
  <2> DEFINE tf == Total(FormTerms(f, v))
             tg == Total(FormTerms(g, v))
             td == Total(FormTerms(d, v))
  <2>1. /\ FormTerms(f, v) \in Terms /\ FormTerms(g, v) \in Terms /\ FormTerms(d, v) \in Terms
        /\ tf \in Int /\ tg \in Int /\ td \in Int
        /\ f.co[0] \in Int /\ g.co[0] \in Int
        /\ \A t \in 1 .. P + 2 : FormTerms(f, v)[t] = IF t \in Params THEN f.co[t] * v[t] ELSE 0
        /\ \A t \in 1 .. P + 2 : FormTerms(g, v)[t] = IF t \in Params THEN g.co[t] * v[t] ELSE 0
        /\ \A t \in 1 .. P + 2 : FormTerms(d, v)[t] = IF t \in Params THEN d.co[t] * v[t] ELSE 0
    BY <1>4, FormTermsType
  <2>2. \A t \in Params : f.co[t] * v[t] = d.co[t] * v[t] + g.co[t] * v[t]
    <3> SUFFICES ASSUME NEW t \in Params PROVE f.co[t] * v[t] = d.co[t] * v[t] + g.co[t] * v[t]
      OBVIOUS
    <3>1. t \in 0 .. P /\ v[t] \in Int
      BY DEF Params, Values
    <3>2. f.co[t] \in Int /\ g.co[t] \in Int /\ d.co[t] = f.co[t] - g.co[t]
      BY <1>2, <1>4, <3>1
    <3> QED BY <3>1, <3>2
  <2>3. \A t \in 1 .. P + 2 : FormTerms(f, v)[t] = FormTerms(d, v)[t] + FormTerms(g, v)[t]
    BY <2>1, <2>2
  <2>4. tf = td + tg
    BY <2>1, <2>3, TotalAdd
  <2>5. PICK kx \in Int : In(kx, f.k) /\ x = kx + tf + f.co[0] * own
    BY <1>6 DEF Means
  <2>6. PICK ky \in Int : In(ky, g.k) /\ y = ky + tg + g.co[0] * own
    BY <1>6 DEF Means
  <2>7. kx - ky \in Int /\ In(kx - ky, d.k)
    BY <1>1, <1>3, <2>5, <2>6, SubSound
  <2>8. d.co[0] * own = f.co[0] * own - g.co[0] * own
    BY <1>4, <1>5, <2>1
  <2>9. f.co[0] * own \in Int /\ g.co[0] * own \in Int
    BY <2>1
  <2>10. x - y = (kx - ky) + td + d.co[0] * own
    <3> HIDE DEF tf, tg, td
    <3> QED BY <2>1, <2>4, <2>5, <2>6, <2>8, <2>9
  <2> QED BY <2>7, <2>10 DEF Means
<1> QED BY <1>4, <1>6 DEF d

\* A multiple of a form.
LEMMA ScaleFormSound ==
  ASSUME NEW f, IsForm(f), NEW c \in E
  PROVE  /\ IsForm(ScaleForm(f, c))
         /\ \A p \in 0 .. P : ScaleForm(f, c).co[p] = c * f.co[p]
         /\ \A v \in Values : \A own, x \in Int :
              Means(f, v, own, x) => Means(ScaleForm(f, c), v, own, c * x)
<1> DEFINE d == ScaleForm(f, c)
<1>1. d.co = [p \in 0 .. P |-> c * f.co[p]] /\ d.k = MulIV(Exact(c), f.k)
  BY DEF ScaleForm
<1>2. c \in Int /\ \A p \in 0 .. P : f.co[p] \in Int /\ c * f.co[p] \in Int
  <2>1. c \in Int
    BY EndsAreIntegers
  <2>2. \A p \in 0 .. P : f.co[p] \in Int
    BY DEF IsForm
  <2> QED BY <2>1, <2>2
<1>3. f.k \in Iv /\ Exact(c) \in Iv /\ In(c, Exact(c))
  BY <1>2, ExactFacts DEF IsForm
<1>4. IsForm(d) /\ \A p \in 0 .. P : d.co[p] = c * f.co[p]
  BY <1>1, <1>2, <1>3, MulType DEF IsForm
<1>5. P \in Nat /\ 0 \in 0 .. P
  BY LoopAssumption
<1> HIDE DEF d
<1>6. ASSUME NEW v \in Values, NEW own \in Int, NEW x \in Int, Means(f, v, own, x)
      PROVE  Means(d, v, own, c * x)
  <2> DEFINE tf == Total(FormTerms(f, v))
             td == Total(FormTerms(d, v))
  <2>1. /\ FormTerms(f, v) \in Terms /\ FormTerms(d, v) \in Terms
        /\ tf \in Int /\ td \in Int /\ f.co[0] \in Int
        /\ \A t \in 1 .. P + 2 : FormTerms(f, v)[t] = IF t \in Params THEN f.co[t] * v[t] ELSE 0
        /\ \A t \in 1 .. P + 2 : FormTerms(d, v)[t] = IF t \in Params THEN d.co[t] * v[t] ELSE 0
    BY <1>4, FormTermsType
  <2>2. \A t \in Params : d.co[t] * v[t] = c * (f.co[t] * v[t])
    <3> SUFFICES ASSUME NEW t \in Params PROVE d.co[t] * v[t] = c * (f.co[t] * v[t])
      OBVIOUS
    <3>1. t \in 0 .. P /\ v[t] \in Int
      BY DEF Params, Values
    <3>2. f.co[t] \in Int /\ d.co[t] = c * f.co[t]
      BY <1>2, <1>4, <3>1
    <3> QED BY <1>2, <3>1, <3>2
  <2>3. \A t \in 1 .. P + 2 : FormTerms(d, v)[t] = c * FormTerms(f, v)[t]
    BY <1>2, <2>1, <2>2
  <2>4. td = c * tf
    BY <1>2, <2>1, <2>3, TotalScale
  <2>5. PICK kx \in Int : In(kx, f.k) /\ x = kx + tf + f.co[0] * own
    BY <1>6 DEF Means
  <2>6. c * kx \in Int /\ In(c * kx, d.k)
    BY <1>1, <1>2, <1>3, <2>5, MulSound
  <2>7. d.co[0] * own = c * (f.co[0] * own) /\ f.co[0] * own \in Int
    BY <1>2, <1>4, <1>5, <2>1
  <2>8. c * x = c * kx + td + d.co[0] * own
    <3> DEFINE q == f.co[0] * own
    <3>1. q \in Int /\ d.co[0] * own = c * q /\ x = kx + tf + q
      BY <2>5, <2>7
    <3> HIDE DEF tf, td, q
    <3>2. c * x = c * kx + c * tf + c * q
      BY <1>2, <2>1, <3>1
    <3> QED BY <2>4, <3>1, <3>2
  <2> QED BY <2>6, <2>8 DEF Means
<1> QED BY <1>4, <1>6 DEF d

\* The form of an operand.
LEMMA OperandFormSound ==
  ASSUME NEW o \in ExprOperands
  PROVE  /\ IsForm(OperandForm(o)) /\ Bounded(OperandForm(o), 1)
         /\ \A v \in Values : \A own \in Int : Means(OperandForm(o), v, own, Value(o, v))
<1>1. o.p \in 0 .. P /\ o.k \in E
  BY OperandFields
<1>2. CASE o.p = 0
  <2>1. OperandForm(o) = LitForm(o.k) /\ \A v : Value(o, v) = o.k
    BY <1>2 DEF OperandForm, Value
  <2>2. IsForm(LitForm(o.k)) /\ Bounded(LitForm(o.k), 0)
        /\ \A v \in Values : \A own \in Int : Means(LitForm(o.k), v, own, o.k)
    BY <1>1, LitFormSound
  <2>3. Bounded(LitForm(o.k), 1)
    <3> DEFINE f == LitForm(o.k)
    <3> HIDE DEF f
    <3>1. \A p \in 0 .. P : f.co[p] \in Int
      <4>1. f.co \in [0 .. P -> Int]
        BY <2>2 DEF IsForm, f
      <4> QED BY <4>1
    <3>2. \A p \in 0 .. P : -0 <= f.co[p] /\ f.co[p] <= 0
      BY <2>2 DEF Bounded, f
    <3>3. \A p \in 0 .. P : -1 <= f.co[p] /\ f.co[p] <= 1
      BY <3>1, <3>2
    <3> QED BY <3>3 DEF Bounded, f
  <2> QED BY <2>1, <2>2, <2>3
<1>3. CASE o.p # 0
  <2>1. OperandForm(o) = AtomForm(o.p) /\ \A v : Value(o, v) = v[o.p]
    BY <1>3 DEF OperandForm, Value
  <2> QED BY <1>1, <1>3, <2>1, AtomFormSound
<1> QED BY <1>2, <1>3

\* The form of an expression stands for its value, with small coefficients.
LEMMA LinearSound ==
  ASSUME NEW e \in Expressions
  PROVE  /\ IsForm(Linear(e)) /\ Bounded(Linear(e), ScaleMax)
         /\ \A v \in Values : ExprRuns(e, v) => Means(Linear(e), v, ExprValue(e, v), ExprValue(e, v))
<1> DEFINE x == OperandForm(e.x)
           y == OperandForm(e.y)
           X(v) == Value(e.x, v)
           Y(v) == Value(e.y, v)
           Valid(f) == /\ IsForm(f) /\ Bounded(f, ScaleMax)
                       /\ \A v \in Values : ExprRuns(e, v) => Means(f, v, ExprValue(e, v), ExprValue(e, v))
<1>1. e.op \in {"id", "add", "sub", "mul", "div", "rem"} /\ e.x \in ExprOperands /\ e.y \in ExprOperands
  BY ExpressionFields
<1>2. /\ IsForm(x) /\ Bounded(x, 1) /\ IsForm(y) /\ Bounded(y, 1)
      /\ \A v \in Values : \A own \in Int : Means(x, v, own, X(v)) /\ Means(y, v, own, Y(v))
  BY <1>1, OperandFormSound
<1>3. ScaleMax \in Int /\ 2 <= ScaleMax /\ P \in Nat /\ ScaleMax <= EMax
  BY LoopAssumption, EMaxAssumption
<1>4. \E v : v \in Values
  <2>1. [p \in Params |-> 0] \in Values
    BY DEF Values
  <2> QED BY <2>1
<1>5. \A v \in Values : X(v) \in Int /\ Y(v) \in Int
  <2>1. \A env \in Envs : \A v \in Values : X(v) \in Int /\ Y(v) \in Int
    BY <1>1, OperandSound
  <2>2. [p \in Params |-> Top] \in Envs
    BY ConstantTypes, EndsAreIntegers DEF Envs
  <2> QED BY <2>1, <2>2
<1>6. \A p \in 0 .. P : /\ x.co[p] \in Int /\ y.co[p] \in Int
                        /\ -1 <= x.co[p] /\ x.co[p] <= 1 /\ -1 <= y.co[p] /\ y.co[p] <= 1
  <2>1. x.co \in [0 .. P -> Int] /\ y.co \in [0 .. P -> Int]
    BY <1>2 DEF IsForm
  <2> HIDE DEF x, y
  <2> QED BY <1>2, <2>1 DEF Bounded
<1> HIDE DEF x, y, X, Y
<1>7. CASE e.op = "id"
  <2>1. Linear(e) = x /\ \A v : ExprValue(e, v) = X(v)
    BY <1>7 DEF Linear, ExprValue, x, X
  <2>2. Bounded(x, ScaleMax)
    BY <1>3, <1>6 DEF Bounded
  <2>3. \A v \in Values : Means(x, v, X(v), X(v))
    BY <1>2, <1>5
  <2> QED BY <1>2, <2>1, <2>2, <2>3
<1>8. CASE e.op = "sub"
  <2>1. Linear(e) = SubForm(x, y) /\ \A v : ExprValue(e, v) = X(v) - Y(v)
    BY <1>8 DEF Linear, ExprValue, x, y, X, Y
  <2> DEFINE d == SubForm(x, y)
  <2>2. IsForm(d) /\ \A p \in 0 .. P : d.co[p] = x.co[p] - y.co[p]
    BY <1>2, SubFormSound
  <2>3. \A v \in Values : Means(d, v, X(v) - Y(v), X(v) - Y(v))
    <3> SUFFICES ASSUME NEW v \in Values PROVE Means(d, v, X(v) - Y(v), X(v) - Y(v))
      OBVIOUS
    <3>1. X(v) \in Int /\ Y(v) \in Int /\ X(v) - Y(v) \in Int
      BY <1>5
    <3>2. Means(x, v, X(v) - Y(v), X(v)) /\ Means(y, v, X(v) - Y(v), Y(v))
      BY <1>2, <3>1
    <3> QED BY <1>2, <3>1, <3>2, SubFormSound
  <2> HIDE DEF d
  <2>4. Bounded(d, ScaleMax)
    <3>1. \A p \in 0 .. P : -ScaleMax <= d.co[p] /\ d.co[p] <= ScaleMax
      BY <1>3, <1>6, <2>2
    <3> QED BY <3>1 DEF Bounded
  <2>5. Linear(e) = d
    BY <2>1 DEF d
  <2> QED BY <2>1, <2>2, <2>3, <2>4, <2>5
<1>9. CASE e.op = "add"
  <2> DEFINE z == LitForm(0)
             n == SubForm(z, y)
             d == SubForm(x, n)
  <2>1. Linear(e) = d /\ \A v : ExprValue(e, v) = X(v) + Y(v)
    BY <1>9 DEF Linear, ExprValue, x, y, X, Y
  <2>2. /\ IsForm(z) /\ \A p \in 0 .. P : z.co[p] = 0
        /\ \A v \in Values : \A own \in Int : Means(z, v, own, 0)
    <3>1. \A p \in 0 .. P : z.co[p] = 0
      BY DEF LitForm
    <3> QED BY <3>1, LitFormSound, EndsAreIntegers
  <2>3. IsForm(n) /\ \A p \in 0 .. P : n.co[p] = z.co[p] - y.co[p]
    <3> HIDE DEF z
    <3> QED BY <1>2, <2>2, SubFormSound
  <2>4. IsForm(d) /\ \A p \in 0 .. P : d.co[p] = x.co[p] - n.co[p]
    <3> HIDE DEF n
    <3> QED BY <1>2, <2>3, SubFormSound
  <2>5. \A v \in Values : Means(d, v, X(v) + Y(v), X(v) + Y(v))
    <3> SUFFICES ASSUME NEW v \in Values PROVE Means(d, v, X(v) + Y(v), X(v) + Y(v))
      OBVIOUS
    <3> DEFINE w == X(v) + Y(v)
    <3>1. X(v) \in Int /\ Y(v) \in Int /\ w \in Int /\ 0 - Y(v) \in Int /\ w = X(v) - (0 - Y(v)) /\ 0 \in Int
      BY <1>5
    <3> HIDE DEF w
    <3>2. Means(x, v, w, X(v)) /\ Means(y, v, w, Y(v)) /\ Means(z, v, w, 0)
      BY <1>2, <2>2, <3>1
    <3>3. Means(n, v, w, 0 - Y(v))
      <4> HIDE DEF z
      <4> QED BY <1>2, <2>2, <3>1, <3>2, SubFormSound
    <3>4. Means(d, v, w, X(v) - (0 - Y(v)))
      <4> HIDE DEF n
      <4> QED BY <1>2, <2>3, <3>1, <3>2, <3>3, SubFormSound
    <3> QED BY <3>1, <3>4 DEF w
  <2> HIDE DEF z, n, d
  <2>6. Bounded(d, ScaleMax)
    <3>1. \A p \in 0 .. P : d.co[p] = x.co[p] - (0 - y.co[p])
      BY <2>2, <2>3, <2>4
    <3>2. \A p \in 0 .. P : -ScaleMax <= d.co[p] /\ d.co[p] <= ScaleMax
      BY <1>3, <1>6, <3>1
    <3> QED BY <3>2 DEF Bounded
  <2> QED BY <2>1, <2>4, <2>5, <2>6
<1>10. ASSUME NEW f, NEW c \in E, IsForm(f), AbsE(c) <= ScaleMax,
              \A p \in 0 .. P : f.co[p] \in Int /\ -1 <= f.co[p] /\ f.co[p] <= 1
       PROVE  Bounded(ScaleForm(f, c), ScaleMax)
  <2>1. \A p \in 0 .. P : ScaleForm(f, c).co[p] = c * f.co[p]
    BY <1>10, ScaleFormSound
  <2>2. c \in Int /\ -ScaleMax <= c /\ c <= ScaleMax
    BY <1>3, <1>10, EndsAreIntegers DEF AbsE
  <2>3. ASSUME NEW p \in 0 .. P PROVE -ScaleMax <= c * f.co[p] /\ c * f.co[p] <= ScaleMax
    <3>1. f.co[p] \in Int /\ (f.co[p] = -1 \/ f.co[p] = 0 \/ f.co[p] = 1)
      BY <1>10
    <3>2. CASE f.co[p] = -1
      <4>1. c * f.co[p] = -c
        BY <2>2, <3>2
      <4> QED BY <1>3, <2>2, <4>1
    <3>3. CASE f.co[p] = 0
      <4>1. c * f.co[p] = 0
        BY <2>2, <3>3
      <4> QED BY <1>3, <4>1
    <3>4. CASE f.co[p] = 1
      <4>1. c * f.co[p] = c
        BY <2>2, <3>4
      <4> QED BY <1>3, <2>2, <4>1
    <3> QED BY <3>1, <3>2, <3>3, <3>4
  <2> QED BY <2>1, <2>3 DEF Bounded
<1>11. CASE e.op = "mul" /\ Scales(e.y)
  <2> DEFINE c == e.y.k
  <2>1. Linear(e) = ScaleForm(x, c) /\ \A v : ExprValue(e, v) = X(v) * c
    BY <1>11 DEF Linear, ExprValue, x, X, Value, Scales
  <2>2. c \in E /\ c \in Int /\ AbsE(c) <= ScaleMax
    BY <1>1, <1>11, OperandFields DEF Scales
  <2>3. IsForm(ScaleForm(x, c)) /\ Bounded(ScaleForm(x, c), ScaleMax)
    BY <1>2, <1>6, <1>10, <2>2, ScaleFormSound
  <2>4. \A v \in Values : Means(ScaleForm(x, c), v, X(v) * c, X(v) * c)
    <3> SUFFICES ASSUME NEW v \in Values PROVE Means(ScaleForm(x, c), v, X(v) * c, X(v) * c)
      OBVIOUS
    <3>1. X(v) \in Int /\ X(v) * c \in Int /\ c * X(v) = X(v) * c
      BY <1>5, <2>2
    <3>2. Means(x, v, X(v) * c, X(v))
      BY <1>2, <3>1
    <3>3. Means(ScaleForm(x, c), v, X(v) * c, c * X(v))
      <4> DEFINE w == X(v) * c
      <4>1. w \in Int /\ Means(x, v, w, X(v))
        BY <3>1, <3>2
      <4> HIDE DEF w
      <4>2. Means(ScaleForm(x, c), v, w, c * X(v))
        BY <1>2, <2>2, <3>1, <4>1, ScaleFormSound
      <4> QED BY <4>2 DEF w
    <3> QED BY <3>1, <3>3
  <2> QED BY <2>1, <2>3, <2>4
<1>12. CASE e.op = "mul" /\ ~Scales(e.y) /\ Scales(e.x)
  <2> DEFINE c == e.x.k
  <2>1. Linear(e) = ScaleForm(y, c) /\ \A v : ExprValue(e, v) = c * Y(v)
    BY <1>12 DEF Linear, ExprValue, y, Y, Value, Scales
  <2>2. c \in E /\ c \in Int /\ AbsE(c) <= ScaleMax
    BY <1>1, <1>12, OperandFields DEF Scales
  <2>3. IsForm(ScaleForm(y, c)) /\ Bounded(ScaleForm(y, c), ScaleMax)
    BY <1>2, <1>6, <1>10, <2>2, ScaleFormSound
  <2>4. \A v \in Values : Means(ScaleForm(y, c), v, c * Y(v), c * Y(v))
    <3> SUFFICES ASSUME NEW v \in Values PROVE Means(ScaleForm(y, c), v, c * Y(v), c * Y(v))
      OBVIOUS
    <3> DEFINE w == c * Y(v)
    <3>1. Y(v) \in Int /\ w \in Int
      BY <1>5, <2>2
    <3>2. Means(y, v, w, Y(v))
      <4> HIDE DEF w
      <4> QED BY <1>2, <3>1
    <3>3. Means(ScaleForm(y, c), v, w, c * Y(v))
      <4> HIDE DEF w
      <4> QED BY <1>2, <2>2, <3>1, <3>2, ScaleFormSound
    <3> QED BY <3>3
  <2> QED BY <2>1, <2>3, <2>4
<1>13. CASE e.op \in {"div", "rem"} \/ (e.op = "mul" /\ ~Scales(e.y) /\ ~Scales(e.x))
  <2> DEFINE f == AtomForm(0)
  <2>1. Linear(e) = f
    BY <1>13 DEF Linear
  <2>2. /\ IsForm(f) /\ Bounded(f, 1)
        /\ \A v \in Values : \A own \in Int : Means(f, v, own, own)
    <3>1. 0 \in 0 .. P
      BY <1>3
    <3> QED BY <3>1, AtomFormSound
  <2>3. \A v \in Values : ExprRuns(e, v) => ExprValue(e, v) \in Int
    <3>1. [p \in Params |-> Top] \in Envs
      BY ConstantTypes, EndsAreIntegers DEF Envs
    <3> QED BY <3>1, ExprSound
  <2> HIDE DEF f
  <2>4. Bounded(f, ScaleMax)
    <3>1. \A p \in 0 .. P : f.co[p] \in Int
      <4>1. f.co \in [0 .. P -> Int]
        BY <2>2 DEF IsForm
      <4> QED BY <4>1
    <3>2. \A p \in 0 .. P : -ScaleMax <= f.co[p] /\ f.co[p] <= ScaleMax
      BY <1>3, <2>2, <3>1 DEF Bounded
    <3> QED BY <3>2 DEF Bounded
  <2> QED BY <2>1, <2>2, <2>3, <2>4
<1> QED BY <1>1, <1>7, <1>8, <1>9, <1>11, <1>12, <1>13

-----------------------------------------------------------------------------
(* The interval of a form's terms, summed in any order.                       *)

\* The partial sums of intervals, in an order.
SummedBy(n, o, base, terms) ==
  \E h \in [0 .. n -> Iv] : /\ h[0] = base /\ SumInOrder(base, terms, o) = h[n]
                            /\ \A m \in 1 .. n : h[m] = AddIV(h[m - 1], terms[o[m]])

Ordering(n, D, o) == o \in [1 .. n -> D]
Intervals(D, terms) == terms \in [D -> Iv]

\* They satisfy the recursion that defines the sum.
LEMMA SumInOrderFacts ==
  ASSUME NEW n \in Nat, NEW D, NEW o, Ordering(n, D, o), NEW base \in Iv,
         NEW terms, Intervals(D, terms)
  PROVE  SummedBy(n, o, base, terms)
<1> USE DEF Ordering, Intervals
<1> DEFINE Law(h) == [m \in 0 .. Len(o) |-> IF m = 0 THEN base ELSE AddIV(h[m - 1], terms[o[m]])]
           F == [m \in 1 .. n |-> [s \in Iv |-> AddIV(s, terms[o[m]])]]
           sum == CHOOSE h : h = Law(h)
<1>1. Len(o) = n
  OBVIOUS
<1>2. SumInOrder(base, terms, o) = sum[n]
  BY <1>1 DEF SumInOrder
<1>3. \A m \in 1 .. n : terms[o[m]] \in Iv
  OBVIOUS
<1>4. F \in Steps(n, Iv)
  <2>1. \A m \in 1 .. n : \A s \in Iv : AddIV(s, terms[o[m]]) \in Iv
    BY <1>3, AddType
  <2> QED BY <2>1 DEF Steps
<1>5. \A m \in 1 .. n : \A s \in Iv : F[m][s] = AddIV(s, terms[o[m]])
  OBVIOUS
<1> HIDE DEF F
<1>6. PICK h \in [0 .. n -> Iv] : h[0] = base /\ \A m \in 1 .. n : h[m] = F[m][h[m - 1]]
  BY <1>4, Recursion DEF Recursive
<1>7. \A m \in 1 .. n : m - 1 \in 0 .. n /\ h[m - 1] \in Iv
  OBVIOUS
<1>8. \A m \in 1 .. n : h[m] = AddIV(h[m - 1], terms[o[m]])
  BY <1>5, <1>6, <1>7
<1>9. h = Law(h)
  <2>1. \A m \in 0 .. n : h[m] = IF m = 0 THEN base ELSE AddIV(h[m - 1], terms[o[m]])
    BY <1>6, <1>8
  <2> QED BY <1>1, <2>1
<1>10. sum = Law(sum)
  <2> HIDE DEF Law
  <2> QED BY <1>9
<1> HIDE DEF sum
<1>11. DOMAIN sum = 0 .. n /\ \A m \in 0 .. n : sum[m] = IF m = 0 THEN base ELSE AddIV(sum[m - 1], terms[o[m]])
  BY <1>1, <1>10
<1> DEFINE A == {m \in 0 .. n : sum[m] = h[m]}
<1>12. 0 \in A
  BY <1>6, <1>11
<1>13. ASSUME NEW m \in 0 .. n - 1, m \in A PROVE m + 1 \in A
  <2>1. m + 1 \in 1 .. n /\ m + 1 \in 0 .. n /\ (m + 1) - 1 = m /\ m + 1 # 0
    OBVIOUS
  <2>2. sum[m + 1] = AddIV(sum[m], terms[o[m + 1]])
    BY <1>11, <2>1
  <2>3. h[m + 1] = AddIV(h[m], terms[o[m + 1]])
    BY <1>8, <2>1
  <2> QED BY <1>13, <2>1, <2>2, <2>3
<1>14. \A m \in 0 .. n : m \in A
  <2> HIDE DEF A
  <2> QED BY <1>12, <1>13, UpTo
<1>15. n \in A
  BY <1>14
<1> QED BY <1>2, <1>6, <1>8, <1>15 DEF SummedBy

\* In whatever order the intervals of some terms are added, the result holds
\* the sum of the terms.
LEMMA AnyOrderSound ==
  ASSUME NEW D, D \in SUBSET (1 .. P + 2), NEW base \in Iv, NEW terms \in [D -> Iv],
         NEW s \in SumsInAnyOrder(base, terms)
  PROVE  /\ s \in Iv
         /\ \A kv \in Int : \A x \in Terms :
              In(kv, base) /\ (\A t \in D : In(x[t], terms[t])) => In(kv + Total(Masked(x, D)), s)
<1>1. P \in Nat
  BY LoopAssumption
<1>2. Cardinality(D) \in Nat
  <2>1. IsFiniteSet(1 .. P + 2)
    BY <1>1, FS_Interval
  <2>2. IsFiniteSet(D)
    BY <2>1, FS_Subset
  <2> QED BY <2>2, FS_CardinalityType
<1> DEFINE n == Cardinality(D)
<1>3. DOMAIN terms = D
  OBVIOUS
<1>4. PICK o \in Orders(D) : s = SumInOrder(base, terms, o)
  BY <1>3 DEF SumsInAnyOrder
<1>5. /\ o \in [1 .. n -> D] /\ \A t \in D : \E i \in 1 .. n : o[i] = t
      /\ \A i, j \in 1 .. n : o[i] = o[j] => i = j
  BY <1>4 DEF Orders
<1>6. n \in Nat
  BY <1>2
<1> HIDE DEF n
<1>7. PICK h \in [0 .. n -> Iv] : /\ h[0] = base /\ s = h[n]
                                  /\ \A m \in 1 .. n : h[m] = AddIV(h[m - 1], terms[o[m]])
  <2>1. Ordering(n, D, o) /\ Intervals(D, terms)
    BY <1>5 DEF Ordering, Intervals
  <2>2. SummedBy(n, o, base, terms)
    BY <1>6, <2>1, SumInOrderFacts
  <2> QED BY <1>4, <2>2 DEF SummedBy
<1>8. s \in Iv
  BY <1>6, <1>7
<1>9. ASSUME NEW kv \in Int, NEW x \in Terms, In(kv, base), \A t \in D : In(x[t], terms[t])
      PROVE  In(kv + Total(Masked(x, D)), s)
  <2> DEFINE T(m) == {o[i] : i \in 1 .. m}
             A == {m \in 0 .. n : In(kv + Total(Masked(x, T(m))), h[m])}
  <2>1. \A S : Masked(x, S) \in Terms /\ Total(Masked(x, S)) \in Int
    <3> SUFFICES ASSUME NEW S PROVE Masked(x, S) \in Terms /\ Total(Masked(x, S)) \in Int
      OBVIOUS
    <3>1. Masked(x, S) \in Terms
      BY DEF Masked, Terms
    <3> QED BY <3>1, TotalType
  <2>2. 0 \in A
    <3>1. T(0) = {}
      OBVIOUS
    <3>2. \A t \in 1 .. P + 2 : Masked(x, {})[t] = 0
      BY DEF Masked
    <3>3. Total(Masked(x, {})) = 0
      BY <2>1, <3>2, TotalZero
    <3>4. kv + 0 = kv /\ 0 \in 0 .. n
      BY <1>6
    <3> QED BY <1>7, <1>9, <3>1, <3>3, <3>4
  <2>3. ASSUME NEW m \in 0 .. n - 1, m \in A PROVE m + 1 \in A
    <3> DEFINE a == o[m + 1]
    <3>1. m + 1 \in 1 .. n /\ m + 1 \in 0 .. n /\ m \in 0 .. n /\ (m + 1) - 1 = m
      BY <1>6
    <3>2. a \in D /\ a \in 1 .. P + 2
      BY <1>5, <3>1
    <3>3. T(m + 1) = T(m) \cup {a}
      <4>1. 1 .. m + 1 = (1 .. m) \cup {m + 1}
        BY <3>1
      <4> QED BY <4>1
    <3>4. a \notin T(m)
      <4> SUFFICES ASSUME NEW i \in 1 .. m, o[i] = a PROVE FALSE
        OBVIOUS
      <4>1. i \in 1 .. n /\ i # m + 1
        BY <3>1, <1>6
      <4> QED BY <1>5, <3>1, <4>1
    <3> DEFINE q == Total(Masked(x, T(m)))
               S == T(m)
    <3>5. Total(Masked(x, T(m + 1))) = q + x[a]
      <4>1. a \notin S
        BY <3>4
      <4> HIDE DEF S, a
      <4>2. Total(Masked(x, S \cup {a})) = Total(Masked(x, S)) + x[a]
        BY <3>2, <4>1, MaskedAdd
      <4> QED BY <3>3, <4>2 DEF S, a
    <3>6. q \in Int /\ x[a] \in Int /\ kv + q \in Int
      BY <2>1, <3>2 DEF Terms
    <3>7. In(kv + q, h[m]) /\ In(x[a], terms[a]) /\ h[m] \in Iv /\ terms[a] \in Iv
      BY <1>9, <2>3, <3>1, <3>2
    <3>8. h[m + 1] = AddIV(h[m], terms[a])
      BY <1>7, <3>1
    <3> HIDE DEF q, a
    <3>9. In((kv + q) + x[a], AddIV(h[m], terms[a]))
      BY <3>6, <3>7, AddSound
    <3>10. (kv + q) + x[a] = kv + (q + x[a])
      BY <3>6
    <3> QED BY <3>1, <3>5, <3>8, <3>9, <3>10
  <2>4. \A m \in 0 .. n : m \in A
    <3> HIDE DEF A
    <3> QED BY <1>6, <2>2, <2>3, UpTo
  <2>5. n \in A
    BY <1>6, <2>4
  <2>6. T(n) = D
    <3>1. \A i \in 1 .. n : o[i] \in D
      BY <1>5
    <3>2. \A t \in D : t \in T(n)
      BY <1>5
    <3> QED BY <3>1, <3>2
  <2> QED BY <1>7, <2>5, <2>6
<1> QED BY <1>8, <1>9

\* The coefficients of the difference of two forms' steps.
StepCoefficient(fi, fj, i, j, t) ==
  IF t = P + 1 THEN fi.co[0]
  ELSE IF t = P + 2 THEN -fj.co[0]
  ELSE fi.co[t] - fj.co[t] + (IF t = j THEN 1 ELSE 0) - (IF t = i THEN 1 ELSE 0)

\* One term, the others being 0.
Point(a, q) == [t \in 1 .. P + 2 |-> IF t = a THEN q ELSE 0]

\* Its sum is the term.
LEMMA PointTotal ==
  ASSUME NEW a \in 1 .. P + 2, NEW q \in Int
  PROVE  /\ Point(a, q) \in Terms /\ Total(Point(a, q)) = q
         /\ \A t \in 1 .. P + 2 : Point(a, q)[t] = IF t = a THEN q ELSE 0
<1> DEFINE x == Point(a, q)
<1>1. x \in Terms /\ \A t \in 1 .. P + 2 : x[t] = IF t = a THEN q ELSE 0
  BY DEF Point, Terms
<1> HIDE DEF x
<1>2. x[a] = q /\ \A t \in 1 .. P + 2 : t # a => x[t] = 0
  BY <1>1
<1>3. Total(x) = q
  BY <1>1, <1>2, TotalPoint
<1> QED BY <1>1, <1>3 DEF x

\* The sum, term by term, of two sums of terms.
Plus(x, y) == [t \in 1 .. P + 2 |-> x[t] + y[t]]

\* Its sum is the sum of theirs.
LEMMA PlusTotal ==
  ASSUME NEW x, NEW y, x \in Terms, y \in Terms
  PROVE  /\ Plus(x, y) \in Terms /\ Total(Plus(x, y)) = Total(x) + Total(y)
         /\ \A t \in 1 .. P + 2 : Plus(x, y)[t] = x[t] + y[t]
<1> DEFINE z == Plus(x, y)
<1>1. z \in Terms /\ \A t \in 1 .. P + 2 : z[t] = x[t] + y[t]
  BY DEF Plus, Terms
<1> HIDE DEF z
<1>2. Total(z) = Total(x) + Total(y)
  BY <1>1, TotalAdd
<1> QED BY <1>1, <1>2 DEF z

\* The terms of the step of a difference: what two forms give, less what the
\* two parameters were.
LEMMA DifferenceTotal ==
  ASSUME NEW fi, NEW fj, IsForm(fi), IsForm(fj), NEW i \in Params, NEW j \in Params,
         NEW v \in Values, NEW wi \in Int, NEW wj \in Int, NEW x, x \in Terms,
         \A t \in Params : x[t] = StepCoefficient(fi, fj, i, j, t) * v[t],
         x[P + 1] = fi.co[0] * wi, x[P + 2] = (-fj.co[0]) * wj
  PROVE  Total(x) = Total(FormTerms(fi, v)) + fi.co[0] * wi
                    - Total(FormTerms(fj, v)) - fj.co[0] * wj + v[j] - v[i]
<1> DEFINE a == FormTerms(fi, v)
           b == FormTerms(fj, v)
           ci == fi.co[0] * wi
           cj == fj.co[0] * wj
<1>1. P \in Nat
  BY LoopAssumption
<1>2. /\ a \in Terms /\ b \in Terms /\ Total(a) \in Int /\ Total(b) \in Int
      /\ fi.co[0] \in Int /\ fj.co[0] \in Int
      /\ \A t \in 1 .. P + 2 : a[t] = IF t \in Params THEN fi.co[t] * v[t] ELSE 0
      /\ \A t \in 1 .. P + 2 : b[t] = IF t \in Params THEN fj.co[t] * v[t] ELSE 0
  BY FormTermsType
<1>3. /\ \A t \in Params : v[t] \in Int
      /\ v[i] \in Int /\ v[j] \in Int
      /\ \A t \in Params : t \in 1 .. P + 2 /\ t # P + 1 /\ t # P + 2 /\ t \in 0 .. P
      /\ i \in 1 .. P + 2 /\ j \in 1 .. P + 2 /\ P + 1 \in 1 .. P + 2 /\ P + 2 \in 1 .. P + 2
      /\ \A t \in 1 .. P + 2 : t \in Params \/ t = P + 1 \/ t = P + 2
      /\ P + 1 \notin Params /\ P + 2 \notin Params /\ P + 1 # P + 2
      /\ i \in Params /\ j \in Params
  BY <1>1 DEF Values, Params
<1>4. ci \in Int /\ cj \in Int
  BY <1>2
<1>5. \A t \in Params : fi.co[t] \in Int /\ fj.co[t] \in Int
  <2>1. fi.co \in [0 .. P -> Int] /\ fj.co \in [0 .. P -> Int]
    BY DEF IsForm
  <2> QED BY <1>3, <2>1
<1> DEFINE pj == Point(j, v[j])
           pi == Point(i, v[i])
           qi == Point(P + 1, ci)
           qj == Point(P + 2, cj)
           left == Plus(Plus(a, qi), pj)
           right == Plus(Plus(b, qj), pi)
<1>6. /\ pj \in Terms /\ pi \in Terms /\ qi \in Terms /\ qj \in Terms
      /\ Total(pj) = v[j] /\ Total(pi) = v[i] /\ Total(qi) = ci /\ Total(qj) = cj
      /\ \A t \in 1 .. P + 2 : pj[t] = IF t = j THEN v[j] ELSE 0
      /\ \A t \in 1 .. P + 2 : pi[t] = IF t = i THEN v[i] ELSE 0
      /\ \A t \in 1 .. P + 2 : qi[t] = IF t = P + 1 THEN ci ELSE 0
      /\ \A t \in 1 .. P + 2 : qj[t] = IF t = P + 2 THEN cj ELSE 0
  <2> HIDE DEF ci, cj
  <2> QED BY <1>3, <1>4, PointTotal
<1> HIDE DEF a, b, pj, pi, qi, qj
<1>7. /\ left \in Terms /\ Total(left) = Total(a) + ci + v[j]
      /\ \A t \in 1 .. P + 2 : left[t] = a[t] + qi[t] + pj[t]
  <2> DEFINE m == Plus(a, qi)
  <2>1. m \in Terms /\ Total(m) = Total(a) + Total(qi) /\ \A t \in 1 .. P + 2 : m[t] = a[t] + qi[t]
    BY <1>2, <1>6, PlusTotal
  <2> HIDE DEF m
  <2>2. Plus(m, pj) \in Terms /\ Total(Plus(m, pj)) = Total(m) + Total(pj)
        /\ \A t \in 1 .. P + 2 : Plus(m, pj)[t] = m[t] + pj[t]
    BY <1>6, <2>1, PlusTotal
  <2>3. left = Plus(m, pj)
    BY DEF m
  <2> HIDE DEF left, ci
  <2> QED BY <1>6, <2>1, <2>2, <2>3
<1>8. /\ right \in Terms /\ Total(right) = Total(b) + cj + v[i]
      /\ \A t \in 1 .. P + 2 : right[t] = b[t] + qj[t] + pi[t]
  <2> DEFINE m == Plus(b, qj)
  <2>1. m \in Terms /\ Total(m) = Total(b) + Total(qj) /\ \A t \in 1 .. P + 2 : m[t] = b[t] + qj[t]
    BY <1>2, <1>6, PlusTotal
  <2> HIDE DEF m
  <2>2. Plus(m, pi) \in Terms /\ Total(Plus(m, pi)) = Total(m) + Total(pi)
        /\ \A t \in 1 .. P + 2 : Plus(m, pi)[t] = m[t] + pi[t]
    BY <1>6, <2>1, PlusTotal
  <2>3. right = Plus(m, pi)
    BY DEF m
  <2> HIDE DEF right, cj
  <2> QED BY <1>6, <2>1, <2>2, <2>3
<1> HIDE DEF left, right
<1>9. \A t \in 1 .. P + 2 : left[t] = x[t] + right[t]
  <2> SUFFICES ASSUME NEW t \in 1 .. P + 2 PROVE left[t] = x[t] + right[t]
    OBVIOUS
  <2>1. left[t] = a[t] + qi[t] + pj[t] /\ right[t] = b[t] + qj[t] + pi[t]
    BY <1>7, <1>8
  <2>2. CASE t \in Params
    <3> DEFINE d == IF t = j THEN 1 ELSE 0
               e == IF t = i THEN 1 ELSE 0
               f == fi.co[t]
               g == fj.co[t]
               w == v[t]
    <3>1. x[t] = (f - g + d - e) * w
      BY <1>3, <2>2 DEF StepCoefficient
    <3>2. f \in Int /\ g \in Int /\ w \in Int /\ d \in Int /\ e \in Int
      BY <1>3, <1>5, <2>2
    <3>3. a[t] = f * w /\ b[t] = g * w /\ qi[t] = 0 /\ qj[t] = 0
      BY <1>2, <1>3, <1>6, <2>2
    <3>4. pj[t] = d * w /\ pi[t] = e * w
      <4>1. pj[t] = (IF t = j THEN v[j] ELSE 0) /\ pi[t] = (IF t = i THEN v[i] ELSE 0)
        BY <1>6
      <4>2. d * w = (IF t = j THEN w ELSE 0) /\ e * w = (IF t = i THEN w ELSE 0)
        <5>1. 0 * w = 0 /\ 1 * w = w
          BY <3>2
        <5> QED BY <5>1
      <4> QED BY <4>1, <4>2
    <3> HIDE DEF d, e, f, g, w
    <3>5. (f - g + d - e) * w = f * w - g * w + d * w - e * w
      BY <3>2
    <3>6. f * w \in Int /\ g * w \in Int /\ d * w \in Int /\ e * w \in Int
      BY <3>2
    <3> QED BY <2>1, <3>1, <3>3, <3>4, <3>5, <3>6
  <2>3. CASE t = P + 1
    <3>1. a[t] = 0 /\ b[t] = 0 /\ qi[t] = ci /\ qj[t] = 0 /\ pj[t] = 0 /\ pi[t] = 0 /\ x[t] = ci
      BY <1>2, <1>3, <1>6, <2>3
    <3> HIDE DEF ci
    <3> QED BY <1>4, <2>1, <3>1
  <2>4. CASE t = P + 2
    <3>1. a[t] = 0 /\ b[t] = 0 /\ qi[t] = 0 /\ qj[t] = cj /\ pj[t] = 0 /\ pi[t] = 0
      BY <1>2, <1>3, <1>6, <2>4
    <3>2. x[t] = -cj
      <4>1. (-fj.co[0]) * wj = -(fj.co[0] * wj)
        BY <1>2
      <4> QED BY <2>4, <4>1
    <3> HIDE DEF cj
    <3> QED BY <1>4, <2>1, <3>1, <3>2
  <2> QED BY <1>3, <2>2, <2>3, <2>4
<1>10. Total(left) = Total(x) + Total(right)
  BY <1>7, <1>8, <1>9, TotalAdd
<1>11. Total(x) \in Int
  BY TotalType
<1> HIDE DEF ci, cj
<1>12. Total(x) = Total(a) + ci - Total(b) - cj + v[j] - v[i]
  BY <1>2, <1>3, <1>4, <1>7, <1>8, <1>10, <1>11
<1> QED BY <1>12 DEF a, b, ci, cj

\* Two functions of a set that agree on it are one.
LEMMA MaskedWhole ==
  ASSUME NEW x, x \in Terms, NEW D, \A t \in 1 .. P + 2 : t \notin D => x[t] = 0
  PROVE  Masked(x, D) = x
<1>1. x = [t \in 1 .. P + 2 |-> x[t]]
  BY DEF Terms
<1>2. \A t \in 1 .. P + 2 : (IF t \in D THEN x[t] ELSE 0) = x[t]
  OBVIOUS
<1> QED BY <1>1, <1>2 DEF Masked

\* In whatever order its terms are added, the step of a difference of two
\* parameters across a live continue holds what the difference moves by.
LEMMA FormStepsSound ==
  ASSUME IsLoop(prog), NEW c \in Envs, NEW i \in Params, NEW j \in Params
  PROVE  LET at == Evaluate(c)
         IN  /\ \A k \in DOMAIN at : FormSteps(at, k, i, j) \subseteq Iv
             /\ \A k \in Exits : \A v \in Values : Holding(v, c) /\ Taken(k, v) /\ PassesRun(k, v)
                  => \A s \in FormSteps(at, k, i, j) :
                       In((Passes(k, v)[i] - Passes(k, v)[j]) - (v[i] - v[j]), s)
<1> DEFINE at == Evaluate(c)
<1>1. /\ DOMAIN at \subseteq Exits
      /\ \A k \in DOMAIN at : at[k].pre \in Envs /\ at[k].args \in Envs
  BY EvaluateSound
<1>2. \A k \in Exits : Args(k)[i] \in Expressions /\ Args(k)[j] \in Expressions
  BY LoopParts
<1>3. \A k \in Exits : \A v \in Values : Holding(v, c) /\ Taken(k, v) /\ PassesRun(k, v)
        => /\ k \in DOMAIN at /\ Holding(v, at[k].pre)
           /\ Passes(k, v) \in Values /\ Holding(Passes(k, v), at[k].args)
  BY StepLive
<1>4. /\ P \in Nat /\ ScaleMax \in Int /\ 2 * ScaleMax + 1 <= EMax
  BY LoopAssumption
<1> HIDE DEF at
<1>5. ASSUME NEW k \in DOMAIN at
      PROVE  /\ FormSteps(at, k, i, j) \subseteq Iv
             /\ \A v \in Values : Holding(v, at[k].pre) /\ PassesRun(k, v)
                  /\ Passes(k, v) \in Values /\ Holding(Passes(k, v), at[k].args)
                  => \A s \in FormSteps(at, k, i, j) :
                       In((Passes(k, v)[i] - Passes(k, v)[j]) - (v[i] - v[j]), s)
  <2> DEFINE ei == Args(k)[i]
             ej == Args(k)[j]
             fi == Linear(ei)
             fj == Linear(ej)
             co == [t \in 1 .. P + 2 |->
                     IF t = P + 1 THEN fi.co[0]
                     ELSE IF t = P + 2 THEN -fj.co[0]
                     ELSE fi.co[t] - fj.co[t] + (IF t = j THEN 1 ELSE 0) - (IF t = i THEN 1 ELSE 0)]
             fact == [t \in 1 .. P + 2 |->
                       IF t = P + 1 THEN at[k].args[i] ELSE IF t = P + 2 THEN at[k].args[j] ELSE at[k].pre[t]]
             D == {t \in 1 .. P + 2 : co[t] # 0}
             terms == [t \in D |-> MulIV(Exact(co[t]), fact[t])]
             base == SubIV(fi.k, fj.k)
  <2>1. FormSteps(at, k, i, j) = SumsInAnyOrder(base, terms)
    BY DEF FormSteps
  <2>2. ei \in Expressions /\ ej \in Expressions /\ k \in Exits
    BY <1>1, <1>2
  <2>3. /\ IsForm(fi) /\ Bounded(fi, ScaleMax) /\ IsForm(fj) /\ Bounded(fj, ScaleMax)
        /\ \A v \in Values : ExprRuns(ei, v) => Means(fi, v, ExprValue(ei, v), ExprValue(ei, v))
        /\ \A v \in Values : ExprRuns(ej, v) => Means(fj, v, ExprValue(ej, v), ExprValue(ej, v))
    BY <2>2, LinearSound
  <2>4. \A v \in Values : PassesRun(k, v) =>
          /\ ExprRuns(ei, v) /\ ExprRuns(ej, v)
          /\ Passes(k, v)[i] = ExprValue(ei, v) /\ Passes(k, v)[j] = ExprValue(ej, v)
    BY DEF PassesRun, Passes
  <2> HIDE DEF ei, ej, fi, fj
  <2>5. \A t \in 1 .. P + 2 : co[t] = StepCoefficient(fi, fj, i, j, t)
    BY DEF StepCoefficient
  <2>6. \A p \in 0 .. P : /\ fi.co[p] \in Int /\ fj.co[p] \in Int
                          /\ -ScaleMax <= fi.co[p] /\ fi.co[p] <= ScaleMax
                          /\ -ScaleMax <= fj.co[p] /\ fj.co[p] <= ScaleMax
    <3>1. fi.co \in [0 .. P -> Int] /\ fj.co \in [0 .. P -> Int]
      BY <2>3 DEF IsForm
    <3> QED BY <2>3, <3>1 DEF Bounded
  <2>7. \A t \in 1 .. P + 2 : (t = P + 1 \/ t = P + 2 \/ (t \in 0 .. P /\ t \in Params)) /\ 0 \in 0 .. P
    BY <1>4 DEF Params
  <2>8. \A t \in 1 .. P + 2 : co[t] \in Int /\ co[t] \in E
    <3> SUFFICES ASSUME NEW t \in 1 .. P + 2 PROVE co[t] \in Int /\ co[t] \in E
      OBVIOUS
    <3>0. ScaleMax >= 0
      BY LoopAssumption
    <3>1. CASE t = P + 1
      <4>1. co[t] = fi.co[0]
        BY <3>1
      <4>2. co[t] \in Int /\ -EMax <= co[t] /\ co[t] <= EMax
        <5> HIDE DEF co
        <5> QED BY <1>4, <2>6, <2>7, <3>0, <4>1, EndsAreIntegers
      <4> QED BY <4>2, EndsAreIntegers
    <3>2. CASE t = P + 2
      <4>1. co[t] = -fj.co[0]
        BY <1>4, <3>2
      <4>2. co[t] \in Int /\ -EMax <= co[t] /\ co[t] <= EMax
        <5> HIDE DEF co
        <5> QED BY <1>4, <2>6, <2>7, <3>0, <4>1, EndsAreIntegers
      <4> QED BY <4>2, EndsAreIntegers
    <3>3. CASE t \in 0 .. P /\ t # P + 1 /\ t # P + 2
      <4>1. co[t] = fi.co[t] - fj.co[t] + (IF t = j THEN 1 ELSE 0) - (IF t = i THEN 1 ELSE 0)
        BY <3>3
      <4>2. co[t] \in Int /\ -EMax <= co[t] /\ co[t] <= EMax
        <5> HIDE DEF co
        <5> QED BY <1>4, <2>6, <3>0, <3>3, <4>1, EndsAreIntegers
      <4> QED BY <4>2, EndsAreIntegers
    <3> QED BY <2>7, <3>1, <3>2, <3>3
  <2>9. \A t \in 1 .. P + 2 : fact[t] \in Iv
    <3>1. at[k].args[i] \in Iv /\ at[k].args[j] \in Iv /\ \A t \in Params : at[k].pre[t] \in Iv
      BY <1>1 DEF Envs
    <3> QED BY <2>7, <3>1
  <2>10. /\ P + 1 \in 1 .. P + 2 /\ P + 2 \in 1 .. P + 2 /\ P + 1 # P + 2
         /\ \A t \in Params : t \in 1 .. P + 2 /\ t # P + 1 /\ t # P + 2
    BY <1>4 DEF Params
  <2>11. /\ fact[P + 1] = at[k].args[i] /\ fact[P + 2] = at[k].args[j]
         /\ \A t \in Params : fact[t] = at[k].pre[t]
    BY <2>10
  <2>12. /\ co[P + 1] = fi.co[0] /\ co[P + 2] = -fj.co[0]
    BY <2>10
  <2>13. base \in Iv /\ fi.k \in Iv /\ fj.k \in Iv
    BY <2>3, SubType DEF IsForm
  <2>14. \A t \in D : t \in 1 .. P + 2 /\ terms[t] = MulIV(Exact(co[t]), fact[t])
    OBVIOUS
  <2>15. \A t \in 1 .. P + 2 : t \notin D => co[t] = 0
    OBVIOUS
  <2> HIDE DEF co, fact
  <2>16. terms \in [D -> Iv]
    <3>1. \A t \in D : MulIV(Exact(co[t]), fact[t]) \in Iv
      BY <2>8, <2>9, <2>14, ExactFacts, MulType
    <3> QED BY <3>1
  <2>17. D \in SUBSET (1 .. P + 2)
    OBVIOUS
  <2> HIDE DEF D, terms
  <2>18. FormSteps(at, k, i, j) \subseteq Iv
    <3> SUFFICES ASSUME NEW s \in FormSteps(at, k, i, j) PROVE s \in Iv
      OBVIOUS
    <3>1. s \in SumsInAnyOrder(base, terms)
      BY <2>1
    <3> HIDE DEF base
    <3> QED BY <2>13, <2>16, <2>17, <3>1, AnyOrderSound
  <2>19. ASSUME NEW v \in Values, Holding(v, at[k].pre), PassesRun(k, v),
                Passes(k, v) \in Values, Holding(Passes(k, v), at[k].args),
                NEW s \in FormSteps(at, k, i, j)
         PROVE  In((Passes(k, v)[i] - Passes(k, v)[j]) - (v[i] - v[j]), s)
    <3> DEFINE wi == Passes(k, v)[i]
               wj == Passes(k, v)[j]
               num == [t \in 1 .. P + 2 |-> IF t = P + 1 THEN wi ELSE IF t = P + 2 THEN wj ELSE v[t]]
               x == [t \in 1 .. P + 2 |-> co[t] * num[t]]
    <3>1. wi \in Int /\ wj \in Int /\ \A t \in Params : v[t] \in Int
      BY <2>19 DEF Values
    <3>2. In(wi, at[k].args[i]) /\ In(wj, at[k].args[j]) /\ \A t \in Params : In(v[t], at[k].pre[t])
      BY <2>19 DEF Holding
    <3>3. Means(fi, v, wi, wi) /\ Means(fj, v, wj, wj)
      BY <2>3, <2>4, <2>19
    <3>4. num[P + 1] = wi /\ num[P + 2] = wj /\ \A t \in Params : num[t] = v[t]
      BY <2>10
    <3> HIDE DEF wi, wj, num
    <3>5. \A t \in 1 .. P + 2 : num[t] \in Int /\ In(num[t], fact[t])
      BY <2>7, <2>11, <3>1, <3>2, <3>4
    <3>6. \A t \in 1 .. P + 2 : x[t] = co[t] * num[t] /\ x[t] \in Int
      BY <2>8, <3>5
    <3>7. x \in Terms
      BY <2>8, <3>5 DEF Terms
    <3> HIDE DEF x
    <3>8. ASSUME NEW t \in D PROVE In(x[t], terms[t])
      <4>1. t \in 1 .. P + 2
        BY <2>14
      <4>2. /\ co[t] \in Int /\ co[t] \in E /\ num[t] \in Int /\ In(num[t], fact[t]) /\ fact[t] \in Iv
            /\ x[t] = co[t] * num[t] /\ terms[t] = MulIV(Exact(co[t]), fact[t])
        BY <2>8, <2>9, <2>14, <3>5, <3>6, <4>1
      <4>3. Exact(co[t]) \in Iv /\ In(co[t], Exact(co[t]))
        BY <4>2, ExactFacts
      <4>4. In(co[t] * num[t], MulIV(Exact(co[t]), fact[t]))
        BY <4>2, <4>3, MulSound
      <4> QED BY <4>2, <4>4
    <3>9. ASSUME NEW t \in 1 .. P + 2, t \notin D PROVE x[t] = 0
      <4>1. co[t] = 0 /\ num[t] \in Int /\ x[t] = co[t] * num[t]
        BY <2>15, <3>5, <3>6, <3>9
      <4>2. x[t] = 0 * num[t]
        BY <4>1
      <4> QED BY <4>1, <4>2
    <3>10. Masked(x, D) = x
      BY <3>7, <3>9, MaskedWhole
    <3>11. PICK kx \in Int : In(kx, fi.k) /\ wi = kx + Total(FormTerms(fi, v)) + fi.co[0] * wi
      BY <3>3 DEF Means
    <3>12. PICK ky \in Int : In(ky, fj.k) /\ wj = ky + Total(FormTerms(fj, v)) + fj.co[0] * wj
      BY <3>3 DEF Means
    <3>13. kx - ky \in Int /\ In(kx - ky, base)
      BY <2>13, <3>11, <3>12, SubSound
    <3>14. Total(x) = Total(FormTerms(fi, v)) + fi.co[0] * wi
                      - Total(FormTerms(fj, v)) - fj.co[0] * wj + v[j] - v[i]
      <4>1. \A t \in Params : x[t] = StepCoefficient(fi, fj, i, j, t) * v[t]
        BY <2>5, <2>10, <3>4, <3>6
      <4>2. x[P + 1] = fi.co[0] * wi /\ x[P + 2] = (-fj.co[0]) * wj
        BY <2>10, <2>12, <3>4, <3>6
      <4> QED BY <2>3, <3>1, <3>7, <4>1, <4>2, DifferenceTotal
    <3>15. In((kx - ky) + Total(Masked(x, D)), s)
      <4>1. s \in SumsInAnyOrder(base, terms)
        BY <2>1, <2>19
      <4> HIDE DEF base
      <4> QED BY <2>13, <2>16, <2>17, <3>7, <3>8, <3>13, <4>1, AnyOrderSound
    <3>16. (kx - ky) + Total(x) = (wi - wj) - (v[i] - v[j])
      <4> DEFINE ti == Total(FormTerms(fi, v))
                 tj == Total(FormTerms(fj, v))
                 mi == fi.co[0] * wi
                 mj == fj.co[0] * wj
                 tx == Total(x)
      <4>1. ti \in Int /\ tj \in Int /\ mi \in Int /\ mj \in Int /\ tx \in Int
        <5>1. fi.co[0] \in Int /\ fj.co[0] \in Int /\ ti \in Int /\ tj \in Int
          BY <2>3, FormTermsType
        <5>2. tx \in Int
          BY <3>7, TotalType
        <5> QED BY <3>1, <5>1, <5>2
      <4>2. tx = ti + mi - tj - mj + v[j] - v[i] /\ wi = kx + ti + mi /\ wj = ky + tj + mj
        BY <3>11, <3>12, <3>14
      <4>3. v[i] \in Int /\ v[j] \in Int
        BY <3>1
      <4> HIDE DEF ti, tj, mi, mj, tx
      <4>4. (kx - ky) + tx = (wi - wj) - (v[i] - v[j])
        BY <3>1, <4>1, <4>2, <4>3
      <4> QED BY <4>4 DEF tx
    <3> QED BY <3>10, <3>15, <3>16 DEF wi, wj
  <2> QED BY <2>18, <2>19
<1> QED BY <1>1, <1>3, <1>5 DEF at

-----------------------------------------------------------------------------
(* The refinement by trip bounds: the facts it may leave still cover the runs. *)

\* Each join of one of every exit's facts holds what all facts of an exit hold.
LEMMA JoinsOverSound ==
  ASSUME IsLoop(prog), NEW D, D \subseteq Exits, NEW f, f \in [D -> SUBSET Iv]
  PROVE  /\ JoinsOver(f) \subseteq Iv
         /\ \A e \in JoinsOver(f) : \A k \in D : \A z \in Int :
              (\A s \in f[k] : In(z, s)) => In(z, e)
<1> DEFINE L == Len(prog.exits)
           S == SUBSET Iv
           Onward(n, C) == IF n \in D THEN JoinPairs(C, f[n]) ELSE C
           F == [n \in 1 .. L |-> [C \in S |-> Onward(n, C)]]
           Law(j) == [n \in 0 .. L |->
                        IF n = 0 THEN {Bot}
                        ELSE IF n \in DOMAIN f THEN JoinPairs(j[n - 1], f[n]) ELSE j[n - 1]]
<1>1. L \in Nat /\ Exits = 1 .. L /\ DOMAIN f = D
  BY LoopParts
<1>2. {Bot} \in S
  BY ConstantTypes, EndsAreIntegers
<1>3. \A n \in D : f[n] \subseteq Iv
  OBVIOUS
<1>4. \A n \in 1 .. L : \A C \in S : Onward(n, C) \in S
  BY <1>3, JoinType DEF JoinPairs
<1> HIDE DEF L, S
<1>5. F \in Steps(L, S)
  <2> HIDE DEF Onward
  <2> QED BY <1>4 DEF Steps
<1>6. \A n \in 1 .. L : \A C \in S : F[n][C] = Onward(n, C)
  OBVIOUS
<1> DEFINE a0 == {Bot}
<1>7. PICK h \in [0 .. L -> S] : h[0] = a0 /\ \A n \in 1 .. L : h[n] = F[n][h[n - 1]]
  <2>1. a0 \in S
    BY <1>2
  <2> HIDE DEF F, a0
  <2>2. Recursive(L, S, a0, F)
    BY <1>1, <1>5, <2>1, Recursion
  <2> QED BY <2>2 DEF Recursive
<1> HIDE DEF F
<1>8. \A n \in 1 .. L : h[n] = Onward(n, h[n - 1]) /\ n - 1 \in 0 .. L
  <2>1. \A n \in 1 .. L : n - 1 \in 0 .. L /\ h[n - 1] \in S
    BY <1>1
  <2> HIDE DEF Onward
  <2> QED BY <1>6, <1>7, <2>1
<1>9. h = Law(h)
  <2>1. \A n \in 0 .. L : h[n] = IF n = 0 THEN {Bot}
                                 ELSE IF n \in D THEN JoinPairs(h[n - 1], f[n]) ELSE h[n - 1]
    BY <1>1, <1>7, <1>8
  <2> QED BY <1>1, <2>1
<1> DEFINE j == CHOOSE j : j = Law(j)
<1>10. JoinsOver(f) = j[L]
  BY DEF JoinsOver, L
<1>11. j = Law(j)
  <2> HIDE DEF Law
  <2> QED BY <1>9
<1> HIDE DEF j
<1>12. j[0] = {Bot} /\ \A n \in 1 .. L : j[n] = Onward(n, j[n - 1])
  <2>1. \A n \in 0 .. L : j[n] = IF n = 0 THEN {Bot}
                                 ELSE IF n \in DOMAIN f THEN JoinPairs(j[n - 1], f[n]) ELSE j[n - 1]
    BY <1>11 DEF L
  <2>2. 0 \in 0 .. L /\ \A n \in 1 .. L : n \in 0 .. L /\ n # 0
    BY <1>1
  <2> QED BY <1>1, <2>1, <2>2
<1> DEFINE Good(n) == /\ j[n] \subseteq Iv
                      /\ \A e \in j[n] : \A k \in D : \A z \in Int :
                           k <= n /\ (\A s \in f[k] : In(z, s)) => In(z, e)
           A == {n \in 0 .. L : Good(n)}
<1> HIDE DEF Law
<1>13. 0 \in A
  <2>1. \A k \in D : ~(k <= 0)
    BY <1>1
  <2>2. j[0] \subseteq Iv
    BY <1>2, <1>12 DEF S
  <2>3. Good(0)
    BY <2>1, <2>2
  <2>4. 0 \in 0 .. L
    BY <1>1
  <2> HIDE DEF Good
  <2> QED BY <2>3, <2>4
<1>14. ASSUME NEW n \in 0 .. L - 1, n \in A PROVE n + 1 \in A
  <2>1. n + 1 \in 1 .. L /\ n + 1 \in 0 .. L /\ (n + 1) - 1 = n /\ n \in Int
    BY <1>1
  <2>2. Good(n)
    BY <1>14
  <2>3. j[n + 1] = Onward(n + 1, j[n])
    BY <1>12, <2>1
  <2>4. \A k \in D : k \in Int /\ (k <= n + 1 => k <= n \/ k = n + 1)
    BY <1>1, <2>1
  <2>5. CASE n + 1 \in D
    <3>1. \A e \in j[n + 1] : \E a \in j[n] : \E b \in f[n + 1] : e = JoinIV(a, b)
      BY <2>3, <2>5 DEF JoinPairs
    <3>2. ASSUME NEW e \in j[n + 1]
          PROVE  /\ e \in Iv
                 /\ \A k \in D : \A z \in Int : k <= n + 1 /\ (\A s \in f[k] : In(z, s)) => In(z, e)
      <4>1. PICK a \in j[n], b \in f[n + 1] : e = JoinIV(a, b)
        BY <3>1
      <4>2. a \in Iv /\ b \in Iv /\ e \in Iv
        BY <1>3, <2>2, <2>5, <4>1, JoinType
      <4>3. ASSUME NEW k \in D, NEW z \in Int, k <= n + 1, \A s \in f[k] : In(z, s)
            PROVE  In(z, e)
        <5>1. CASE k <= n
          <6>1. In(z, a)
            BY <2>2, <4>3, <5>1
          <6> QED BY <4>1, <4>2, <6>1, JoinSound
        <5>2. CASE k = n + 1
          <6>1. In(z, b)
            BY <4>3, <5>2
          <6> QED BY <4>1, <4>2, <6>1, JoinSound
        <5> QED BY <2>4, <4>3, <5>1, <5>2
      <4> QED BY <4>2, <4>3
    <3>3. Good(n + 1)
      BY <3>2
    <3> QED BY <2>1, <3>3
  <2>6. CASE n + 1 \notin D
    <3>1. j[n + 1] = j[n]
      BY <2>3, <2>6
    <3>2. Good(n + 1)
      BY <2>2, <2>4, <2>6, <3>1
    <3> QED BY <2>1, <3>2
  <2> QED BY <2>5, <2>6
<1>15. \A n \in 0 .. L : n \in A
  <2> HIDE DEF A
  <2> QED BY <1>1, <1>13, <1>14, UpTo
<1>16. Good(L)
  <2>1. L \in A
    BY <1>1, <1>15
  <2> QED BY <2>1
<1>17. \A k \in D : k <= L
  BY <1>1
<1> QED BY <1>10, <1>16, <1>17

\* A step of the difference of two parameters that some continue may take.
LEMMA PairStepsSound ==
  ASSUME IsLoop(prog), NEW c \in Envs, NEW i \in Params, NEW j \in Params
  PROVE  LET at == Evaluate(c)
         IN  /\ PairSteps(at, i, j) \subseteq Iv
             /\ Covers(c) => \A e \in PairSteps(at, i, j) : \A n \in Nat : \A r \in Runs(n) : \A m \in 1 .. n :
                  In((r[m][i] - r[m][j]) - (r[m - 1][i] - r[m - 1][j]), e)
<1> DEFINE at == Evaluate(c)
           D == LiveConts(at)
           f == [k \in LiveConts(at) |-> FormSteps(at, k, i, j)]
<1>1. D \subseteq Exits /\ D \subseteq DOMAIN at
  BY EvaluateSound, LoopParts DEF LiveConts
<1>2. \A k \in DOMAIN at : FormSteps(at, k, i, j) \subseteq Iv
  BY FormStepsSound
<1>3. f \in [D -> SUBSET Iv] /\ \A k \in D : f[k] = FormSteps(at, k, i, j)
  BY <1>1, <1>2
<1>4. PairSteps(at, i, j) = JoinsOver(f)
  BY DEF PairSteps
<1>5. ASSUME NEW k \in Exits, NEW v \in Values, Holding(v, c), Taken(k, v), PassesRun(k, v), k \in Conts
      PROVE  /\ k \in D
             /\ \A s \in FormSteps(at, k, i, j) :
                  In((Passes(k, v)[i] - Passes(k, v)[j]) - (v[i] - v[j]), s)
  BY <1>5, StepLive, FormStepsSound
<1> HIDE DEF at, D, f
<1>6. /\ JoinsOver(f) \subseteq Iv
      /\ \A e \in JoinsOver(f) : \A k \in D : \A z \in Int : (\A s \in f[k] : In(z, s)) => In(z, e)
  BY <1>1, <1>3, JoinsOverSound
<1>7. ASSUME Covers(c), NEW e \in JoinsOver(f), NEW n \in Nat, NEW r \in Runs(n), NEW m \in 1 .. n
      PROVE  In((r[m][i] - r[m][j]) - (r[m - 1][i] - r[m - 1][j]), e)
  <2>1. r[m] \in Values /\ r[m - 1] \in Values /\ Holding(r[m - 1], c)
    BY <1>7, RunStep
  <2>2. PICK k \in Conts : Taken(k, r[m - 1]) /\ PassesRun(k, r[m - 1]) /\ r[m] = Passes(k, r[m - 1])
    BY <1>7, RunStep
  <2>3. k \in Exits
    BY LoopParts
  <2> DEFINE z == (r[m][i] - r[m][j]) - (r[m - 1][i] - r[m - 1][j])
  <2>4. k \in D /\ \A s \in FormSteps(at, k, i, j) : In(z, s)
    BY <1>5, <2>1, <2>2, <2>3
  <2>5. z \in Int
    <3>1. r[m][i] \in Int /\ r[m][j] \in Int /\ r[m - 1][i] \in Int /\ r[m - 1][j] \in Int
      BY <2>1 DEF Values
    <3> QED BY <3>1
  <2> HIDE DEF z
  <2>6. In(z, e)
    BY <1>3, <1>6, <2>4, <2>5
  <2> QED BY <2>6 DEF z
<1> QED BY <1>4, <1>6, <1>7 DEF at

Bounding(b) == \A n \in Nat : Runs(n) # {} => Bounds0(n, b)

\* A parameter met with another and the range of their difference.
LEMMA MeetPairSound ==
  ASSUME IsLoop(prog), NEW i \in Params, NEW j \in Params, NEW b \in Nat \cup {NoBound},
         NEW s \in Iv, NEW d \in Envs
  PROVE  /\ MeetPair(d, i, j, s, b) \in Envs
         /\ Bounding(b) /\ Covers(d)
            /\ (\A n \in Nat : \A r \in Runs(n) : \A m \in 1 .. n :
                  In((r[m][i] - r[m][j]) - (r[m - 1][i] - r[m - 1][j]), s))
            => Covers(MeetPair(d, i, j, s, b))
<1> DEFINE z == SubIV(prog.init[i], prog.init[j])
           t == TripInterval(z, s, b)
           y == AddIV(t, d[j])
           x == MeetIV(d[i], y)
           f == [d EXCEPT ![i] = x]
<1>1. prog.init[i] \in Iv /\ prog.init[j] \in Iv /\ prog.init \in Envs
  BY LoopParts DEF Envs
<1>2. d[i] \in Iv /\ d[j] \in Iv
  BY DEF Envs
<1>3. z \in Iv
  BY <1>1, SubType
<1> HIDE DEF z
<1>4. /\ t \in Iv
      /\ \A n \in Nat : \A u \in [0 .. n -> Int] :
           In(u[0], z) /\ Moves(u, n, s) /\ Bounds0(n, b) => In(u[n], t)
  BY <1>3, TripIntervalSound
<1> HIDE DEF t
<1>5. y \in Iv
  BY <1>2, <1>4, AddType
<1>6. x \in Iv
  BY <1>2, <1>5, MeetType
<1>7. CASE s.bot
  <2>1. MeetPair(d, i, j, s, b) = d
    BY <1>7 DEF MeetPair
  <2> QED BY <2>1
<1>8. CASE ~s.bot
  <2>1. MeetPair(d, i, j, s, b) = f
    BY <1>8 DEF MeetPair, t, z
  <2>2. f \in Envs
    <3> HIDE DEF x
    <3> QED BY <1>6 DEF Envs
  <2>3. ASSUME Bounding(b), Covers(d),
               \A n \in Nat : \A r \in Runs(n) : \A m \in 1 .. n :
                  In((r[m][i] - r[m][j]) - (r[m - 1][i] - r[m - 1][j]), s)
        PROVE  Covers(f)
    <3> SUFFICES ASSUME NEW n \in Nat, NEW r \in Runs(n) PROVE Holding(r[n], f)
      BY DEF Covers
    <3> DEFINE u == [m \in 0 .. n |-> r[m][i] - r[m][j]]
    <3>1. r \in [0 .. n -> Values] /\ Holding(r[0], prog.init)
      BY DEF Runs
    <3>2. 0 \in 0 .. n /\ n \in 0 .. n /\ \A m \in 1 .. n : m \in 0 .. n /\ m - 1 \in 0 .. n
      OBVIOUS
    <3>3. \A m \in 0 .. n : r[m][i] \in Int /\ r[m][j] \in Int
      BY <3>1 DEF Values
    <3>4. u \in [0 .. n -> Int]
      BY <3>3
    <3>5. \A m \in 0 .. n : u[m] = r[m][i] - r[m][j]
      OBVIOUS
    <3> HIDE DEF u
    <3>6. In(u[0], z)
      <4>1. In(r[0][i], prog.init[i]) /\ In(r[0][j], prog.init[j])
        BY <3>1 DEF Holding
      <4>2. In(r[0][i] - r[0][j], z)
        BY <1>1, <3>2, <3>3, <4>1, SubSound DEF z
      <4> QED BY <3>2, <3>5, <4>2
    <3>7. Moves(u, n, s)
      <4> SUFFICES ASSUME NEW m \in 1 .. n PROVE In(u[m] - u[m - 1], s)
        BY DEF Moves
      <4>1. u[m] = r[m][i] - r[m][j] /\ u[m - 1] = r[m - 1][i] - r[m - 1][j]
        BY <3>2, <3>5
      <4>2. In((r[m][i] - r[m][j]) - (r[m - 1][i] - r[m - 1][j]), s)
        BY <2>3
      <4> QED BY <4>1, <4>2
    <3>8. Bounds0(n, b)
      BY <2>3 DEF Bounding
    <3>9. In(u[n], t)
      BY <1>4, <3>4, <3>6, <3>7, <3>8
    <3>10. Holding(r[n], d)
      BY <2>3 DEF Covers
    <3>11. In(r[n][i], d[i]) /\ In(r[n][j], d[j]) /\ r[n][i] \in Int /\ r[n][j] \in Int
      BY <3>2, <3>3, <3>10 DEF Holding
    <3>12. u[n] \in Int /\ r[n][i] = u[n] + r[n][j]
      <4>1. u[n] = r[n][i] - r[n][j]
        BY <3>2, <3>5
      <4> QED BY <3>11, <4>1
    <3>13. In(u[n] + r[n][j], y)
      BY <1>2, <1>4, <3>9, <3>11, <3>12, AddSound
    <3> HIDE DEF y
    <3>14. In(r[n][i], x)
      BY <1>2, <1>5, <3>11, <3>12, <3>13, MeetExact
    <3> HIDE DEF x
    <3>15. \A p \in Params : f[p] = IF p = i THEN x ELSE d[p]
      BY DEF Envs
    <3> QED BY <3>10, <3>14, <3>15 DEF Holding
  <2> HIDE DEF f
  <2> QED BY <2>1, <2>2, <2>3
<1> QED BY <1>7, <1>8

\* The pairs of parameters, in the order the refinement visits them.
LEMMA PairIndex ==
  ASSUME NEW n \in 1 .. P * P
  PROVE  ((n - 1) \div P) + 1 \in Params /\ ((n - 1) % P) + 1 \in Params
<1>1. P \in Int /\ P > 0 /\ n \in Int /\ n >= 1 /\ n <= P * P /\ P * P \in Int
  BY LoopAssumption
<1> DEFINE a == n - 1
           q == a \div P
           r == a % P
<1>2. a \in Int /\ a >= 0 /\ a < P * P
  BY <1>1
<1> HIDE DEF a
<1>3. q \in Int /\ q * P <= a /\ q >= 0
  BY <1>1, <1>2, FloorFacts, FloorBounds
<1>4. r \in 0 .. P - 1
  BY <1>1, <1>2
<1> HIDE DEF q, r
<1>5. q <= P - 1
  <2> SUFFICES ASSUME P <= q PROVE FALSE
    BY <1>1, <1>3
  <2>1. P * P <= q * P
    BY <1>1, <1>3, TimesMonotone
  <2> QED BY <1>1, <1>2, <1>3, <2>1
<1>6. q + 1 \in Params /\ r + 1 \in Params
  BY <1>1, <1>3, <1>4, <1>5 DEF Params
<1> QED BY <1>6 DEF q, r, a

\* Facts that cover the runs.
Covering == {c \in Envs : Covers(c)}

\* Whatever pairs of parameters and orders of terms the refinement takes, the
\* facts it leaves are facts, and cover the runs if the ones it starts from do.
LEMMA PairRefineSound ==
  ASSUME IsLoop(prog), NEW c \in Envs, NEW cs, NEW b \in Nat \cup {NoBound}
  PROVE  /\ cs \subseteq Envs => PairRefine(Evaluate(c), cs, b) \subseteq Envs
         /\ Covers(c) /\ Bounding(b) /\ cs \subseteq Covering => PairRefine(Evaluate(c), cs, b) \subseteq Covering
<1> DEFINE at == Evaluate(c)
           I(n) == ((n - 1) \div P) + 1
           J(n) == ((n - 1) % P) + 1
           L == P * P
           Onward(n, C) == IF I(n) = J(n) THEN C ELSE MeetPairs(C, I(n), J(n), PairSteps(at, I(n), J(n)), b)
           Law(p) == [n \in 0 .. L |->
                        LET i == ((n - 1) \div P) + 1
                            j == ((n - 1) % P) + 1
                        IN  IF n = 0 THEN cs
                            ELSE IF i = j THEN p[n - 1]
                            ELSE MeetPairs(p[n - 1], i, j, PairSteps(at, i, j), b)]
<1>1. L \in Nat
  BY LoopAssumption
<1>2. \A n \in 1 .. L : I(n) \in Params /\ J(n) \in Params
  BY PairIndex
<1>3. \A i \in Params : \A j \in Params :
        /\ PairSteps(at, i, j) \subseteq Iv
        /\ Covers(c) => \A e \in PairSteps(at, i, j) : \A n \in Nat : \A r \in Runs(n) : \A m \in 1 .. n :
             In((r[m][i] - r[m][j]) - (r[m - 1][i] - r[m - 1][j]), e)
  BY PairStepsSound
<1> HIDE DEF at
<1>4. ASSUME NEW i \in Params, NEW j \in Params, NEW C
      PROVE  /\ C \subseteq Envs => MeetPairs(C, i, j, PairSteps(at, i, j), b) \subseteq Envs
             /\ Covers(c) /\ Bounding(b) /\ C \subseteq Covering
                => MeetPairs(C, i, j, PairSteps(at, i, j), b) \subseteq Covering
  <2>1. ASSUME NEW d \in Envs, NEW s \in PairSteps(at, i, j)
        PROVE  /\ MeetPair(d, i, j, s, b) \in Envs
               /\ Covers(c) /\ Bounding(b) /\ Covers(d) => Covers(MeetPair(d, i, j, s, b))
    <3>1. s \in Iv
      BY <1>3
    <3>2. Covers(c) => \A n \in Nat : \A r \in Runs(n) : \A m \in 1 .. n :
            In((r[m][i] - r[m][j]) - (r[m - 1][i] - r[m - 1][j]), s)
      BY <1>3
    <3> QED BY <3>1, <3>2, MeetPairSound
  <2>2. \A f \in MeetPairs(C, i, j, PairSteps(at, i, j), b) :
          \E d \in C : \E s \in PairSteps(at, i, j) : f = MeetPair(d, i, j, s, b)
    BY DEF MeetPairs
  <2> QED BY <2>1, <2>2 DEF Covering
<1>5. ASSUME NEW S, cs \in SUBSET S,
             \A i \in Params : \A j \in Params : \A C \in SUBSET S : MeetPairs(C, i, j, PairSteps(at, i, j), b) \in SUBSET S
      PROVE  PairRefine(at, cs, b) \in SUBSET S
  <2> DEFINE Z == SUBSET S
             F == [n \in 1 .. L |-> [C \in Z |-> Onward(n, C)]]
  <2>1. \A n \in 1 .. L : \A C \in Z : Onward(n, C) \in Z
    BY <1>2, <1>5
  <2>2. cs \in Z
    BY <1>5
  <2> HIDE DEF Z, Onward, L
  <2>3. F \in Steps(L, Z)
    BY <2>1 DEF Steps
  <2>4. \A n \in 1 .. L : \A C \in Z : F[n][C] = Onward(n, C)
    OBVIOUS
  <2> HIDE DEF F
  <2>5. Recursive(L, Z, cs, F)
    BY <1>1, <2>2, <2>3, Recursion
  <2>6. PICK h \in [0 .. L -> Z] : h[0] = cs /\ \A n \in 1 .. L : h[n] = F[n][h[n - 1]]
    BY <2>5 DEF Recursive
  <2>7. \A n \in 1 .. L : n - 1 \in 0 .. L /\ h[n - 1] \in Z
    BY <1>1
  <2>8. \A n \in 1 .. L : h[n] = Onward(n, h[n - 1])
    BY <2>4, <2>6, <2>7
  <2>9. h = Law(h)
    <3>1. \A n \in 0 .. L : h[n] = IF n = 0 THEN cs ELSE Onward(n, h[n - 1])
      BY <1>1, <2>6, <2>8
    <3>2. h = [n \in 0 .. L |-> IF n = 0 THEN cs ELSE Onward(n, h[n - 1])]
      BY <3>1
    <3> QED BY <3>2 DEF Onward
  <2> DEFINE p == CHOOSE p : p = Law(p)
  <2>10. PairRefine(at, cs, b) = p[L]
    BY DEF PairRefine, L
  <2>11. p = Law(p)
    <3> HIDE DEF Law
    <3> QED BY <2>9
  <2> HIDE DEF p
  <2>12. \A n \in 0 .. L : p[n] = IF n = 0 THEN cs ELSE Onward(n, p[n - 1])
    BY <2>11 DEF Onward
  <2> DEFINE A == {n \in 0 .. L : p[n] \in Z}
  <2>13. 0 \in A
    BY <1>1, <2>2, <2>12
  <2>14. ASSUME NEW n \in 0 .. L - 1, n \in A PROVE n + 1 \in A
    <3>1. n + 1 \in 1 .. L /\ n + 1 \in 0 .. L /\ (n + 1) - 1 = n /\ n + 1 # 0
      BY <1>1
    <3>2. p[n + 1] = Onward(n + 1, p[n])
      BY <2>12, <3>1
    <3> QED BY <2>1, <2>14, <3>1, <3>2
  <2>15. \A n \in 0 .. L : n \in A
    <3> HIDE DEF A
    <3> QED BY <1>1, <2>13, <2>14, UpTo
  <2>16. L \in A
    BY <1>1, <2>15
  <2> QED BY <2>10, <2>16 DEF Z
<1>6. cs \subseteq Envs => PairRefine(at, cs, b) \subseteq Envs
  <2>1. cs \subseteq Envs => PairRefine(at, cs, b) \in SUBSET Envs
    BY <1>4, <1>5
  <2> QED BY <2>1
<1>7. Covers(c) /\ Bounding(b) /\ cs \subseteq Covering => PairRefine(at, cs, b) \subseteq Covering
  <2>1. Covers(c) /\ Bounding(b) /\ cs \subseteq Covering => PairRefine(at, cs, b) \in SUBSET Covering
    BY <1>4, <1>5
  <2> QED BY <2>1
<1> QED BY <1>6, <1>7 DEF at

\* The refinement leaves facts that cover the runs, and bounds their length.
THEOREM RefinementsSound ==
  ASSUME IsLoop(prog), NEW c \in Envs, LiveConts(Evaluate(c)) # {}
  PROVE  /\ Refinements(Evaluate(c), c) \subseteq Envs
         /\ Covers(c) => Refinements(Evaluate(c), c) \subseteq Covering
<1> DEFINE at == Evaluate(c)
           b == LeastBound(at)
           t(j) == TripInterval(prog.init[j], StepFact(at, j), b)
           d == [j \in Params |-> t(j)]
           m == [j \in Params |-> MeetIV(c[j], d[j])]
<1>1. b \in Nat \cup {NoBound} /\ (Covers(c) => Bounding(b))
  BY LeastBoundSound DEF Bounding
<1>2. \A j \in Params : prog.init[j] \in Iv /\ StepFact(at, j) \in Iv
  BY LoopParts, StepFactsSound DEF Envs
<1>3. \A j \in Params : Covers(c) => \A n \in Nat : \A s \in Runs(n) : \A i \in 1 .. n :
        In(s[i][j] - s[i - 1][j], StepFact(at, j))
  BY StepFactsSound
<1>4. Refinements(at, c) = PairRefine(at, {m}, b)
  <2>1. m = [j \in Params |-> MeetIV(c[j], TripInterval(prog.init[j], StepFact(at, j), b))]
    OBVIOUS
  <2> QED BY <2>1 DEF Refinements
<1> HIDE DEF at, b
<1>5. \A j \in Params : /\ t(j) \in Iv
                        /\ \A n \in Nat : \A u \in [0 .. n -> Int] :
                             In(u[0], prog.init[j]) /\ Moves(u, n, StepFact(at, j)) /\ Bounds0(n, b) => In(u[n], t(j))
  BY <1>1, <1>2, TripIntervalSound
<1> HIDE DEF t
<1>6. d \in Envs /\ \A j \in Params : d[j] = t(j)
  BY <1>5 DEF Envs
<1> HIDE DEF d
<1>7. ASSUME Covers(c) PROVE Covers(d)
  <2> SUFFICES ASSUME NEW n \in Nat, NEW s \in Runs(n), NEW j \in Params PROVE In(s[n][j], d[j])
    BY DEF Covers, Holding
  <2> DEFINE u == [i \in 0 .. n |-> s[i][j]]
  <2>1. s \in [0 .. n -> Values] /\ Holding(s[0], prog.init)
    BY DEF Runs
  <2>2. 0 \in 0 .. n /\ n \in 0 .. n /\ \A i \in 1 .. n : i \in 0 .. n /\ i - 1 \in 0 .. n
    OBVIOUS
  <2>3. u \in [0 .. n -> Int] /\ \A i \in 0 .. n : u[i] = s[i][j]
    BY <2>1 DEF Values
  <2> HIDE DEF u
  <2>4. In(u[0], prog.init[j])
    BY <2>1, <2>2, <2>3 DEF Holding
  <2>5. Moves(u, n, StepFact(at, j))
    <3> SUFFICES ASSUME NEW i \in 1 .. n PROVE In(u[i] - u[i - 1], StepFact(at, j))
      BY DEF Moves
    <3>1. u[i] = s[i][j] /\ u[i - 1] = s[i - 1][j]
      BY <2>2, <2>3
    <3> QED BY <1>3, <1>7, <3>1
  <2>6. Bounds0(n, b)
    BY <1>1, <1>7 DEF Bounding
  <2>7. In(u[n], t(j))
    BY <1>5, <2>3, <2>4, <2>5, <2>6
  <2> QED BY <1>6, <2>2, <2>3, <2>7
<1>8. m \in Envs /\ (Covers(c) => Covers(m))
  <2>1. m \in Envs
    BY <1>6, MeetType DEF Envs
  <2>2. Covers(c) => Covers(m)
    BY <1>6, <1>7, MeetCovers
  <2> QED BY <2>1, <2>2
<1> HIDE DEF m
<1>9. {m} \subseteq Envs /\ (Covers(c) => {m} \subseteq Covering)
  BY <1>8 DEF Covering
<1>10. /\ PairRefine(at, {m}, b) \subseteq Envs
       /\ Covers(c) => PairRefine(at, {m}, b) \subseteq Covering
  <2> DEFINE cs == {m}
  <2>1. cs \subseteq Envs /\ (Covers(c) => cs \subseteq Covering)
    BY <1>9
  <2> HIDE DEF cs
  <2>2. /\ PairRefine(at, cs, b) \subseteq Envs
        /\ Covers(c) => PairRefine(at, cs, b) \subseteq Covering
    BY <1>1, <2>1, PairRefineSound DEF at
  <2> QED BY <2>2 DEF cs
<1> QED BY <1>4, <1>10 DEF at

-----------------------------------------------------------------------------
(* What the loop's operators say does not change while the loop does not.     *)

\* The records of the body, its runs and its guards are the loop's alone.
LEMMA SameLoop ==
  ASSUME prog' = prog
  PROVE  /\ Exits' = Exits /\ Conts' = Conts
         /\ \A c : Evaluate(c)' = Evaluate(c)
         /\ \A n : Runs(n)' = Runs(n)
         /\ \A c : Covers(c)' <=> Covers(c)
         /\ \A b : Bounding(b)' <=> Bounding(b)
         /\ \A k, v : (Taken(k, v)' <=> Taken(k, v)) /\ (PassesRun(k, v)' <=> PassesRun(k, v))
                      /\ Passes(k, v)' = Passes(k, v)
         /\ \A k : IsCont(k)' <=> IsCont(k)
<1>1. Exits' = Exits /\ Conts' = Conts /\ \A k : IsCont(k)' <=> IsCont(k)
  BY DEF Exits, Conts, IsCont
<1>2. \A c : Evaluate(c)' = Evaluate(c)
  BY DEF Evaluate, LiveExits, AtExit, Reached, Exits, Args
<1>3. \A n : Runs(n)' = Runs(n)
  BY DEF Runs, Continues, Conts, IsCont, Exits, Taken, GuardHolds, PassesRun, Passes, Args
<1>4. \A c : Covers(c)' <=> Covers(c)
  BY <1>3 DEF Covers
<1>5. \A b : Bounding(b)' <=> Bounding(b)
  BY <1>3 DEF Bounding
<1>6. \A k, v : (Taken(k, v)' <=> Taken(k, v)) /\ (PassesRun(k, v)' <=> PassesRun(k, v))
                /\ Passes(k, v)' = Passes(k, v)
  BY DEF Taken, GuardHolds, PassesRun, Passes, Args
<1> QED BY <1>1, <1>2, <1>3, <1>4, <1>5, <1>6

-----------------------------------------------------------------------------
(* The inductive invariant. *)

Analysing == {"ascend", "descend", "trip", "verdict"}
Executing == {"run", "done", "cut", "refused"}
Answering == {"entry"} \cup Executing
Phases == Analysing \cup Answering

\* The rounds of each phase.
RoundsOK ==
  /\ phase \in Phases
  /\ phase = "ascend" => round \in 0 .. prog.budget
  /\ phase = "descend" => round \in 0 .. DescendRounds - 1
  /\ phase = "trip" => round \in 0 .. TripRounds
  /\ phase \notin {"ascend", "descend", "trip"} => round = 0

\* The records of the body are those of the facts at the head.
RecordsOK == phase \in Analysing /\ lc.done => lc.at = Evaluate(cur)

\* From the fixpoint on, the facts at the head cover every run.
FactsOK == phase # "ascend" => Covers(cur)

\* What the exits of every run pass on has the facts the analysis answers.
Answered ==
  \A n \in Nat : \A s \in Runs(n) : \A k \in Exits :
    Taken(k, s[n]) /\ PassesRun(k, s[n]) =>
      IF IsCont(k) THEN k \in DOMAIN argFacts /\ Holding(Passes(k, s[n]), argFacts[k])
      ELSE Holding(Passes(k, s[n]), resFacts)
AnswersOK == phase \in Answering => Answered

\* The execution is at the end of a run at least as long as the back edges
\* counted.
RunningOK ==
  /\ phase \notin Executing => taken = 0
  /\ phase \in Executing => \E n \in Nat : \E s \in Runs(n) : taken <= n /\ (phase = "run" => s[n] = val)

LoopInv ==
  /\ prog \in Programs
  /\ RoundsOK
  /\ cur \in Envs /\ val \in Values /\ taken \in 0 .. TripCap
  /\ RecordsOK /\ FactsOK /\ AnswersOK /\ RunningOK
  /\ trips \in Nat \cup {NoBound} /\ Bounding(trips)

-----------------------------------------------------------------------------
(* What each step of the analysis makes of the facts. *)

\* Every kind of round gives facts that hold all the joined facts do.
LEMMA WidenedSound ==
  ASSUME NEW old \in Iv, NEW nw \in Iv
  PROVE  /\ Widened(old, nw) \in Iv
         /\ \A z \in Int : In(z, nw) => In(z, Widened(old, nw))
<1> DEFINE T == Thresholds
           low == round < JoinRounds
           mid == round >= JoinRounds /\ round < JoinRounds + ThresholdRounds
<1>1. T \in SUBSET E
  BY DEF Thresholds
<1> HIDE DEF T
<1>2. /\ WidenIVT(old, nw, T) \in Iv
      /\ \A z \in Int : In(z, nw) => In(z, WidenIVT(old, nw, T))
  BY <1>1, WidenThresholdSound, WidenThresholdType
<1>3. WidenIV(old, nw) \in Iv /\ \A z \in Int : In(z, nw) => In(z, WidenIV(old, nw))
  BY WidenSound, WidenType
<1>4. Widened(old, nw) = CASE low -> nw [] mid -> WidenIVT(old, nw, T) [] OTHER -> WidenIV(old, nw)
  BY DEF Widened, T
<1> HIDE DEF low, mid
<1>5. CASE low /\ ~mid
  <2>1. Widened(old, nw) = nw
    BY <1>4, <1>5
  <2> QED BY <2>1
<1>6. CASE mid /\ ~low
  <2>1. Widened(old, nw) = WidenIVT(old, nw, T)
    BY <1>4, <1>6
  <2> QED BY <1>2, <2>1
<1>7. CASE ~low /\ ~mid
  <2>1. Widened(old, nw) = WidenIV(old, nw)
    BY <1>4, <1>7
  <2> QED BY <1>3, <2>1
<1>8. CASE low /\ mid
  <2>1. Widened(old, nw) = nw \/ Widened(old, nw) = WidenIVT(old, nw, T)
    BY <1>4, <1>8
  <2> QED BY <1>2, <2>1
<1> QED BY <1>5, <1>6, <1>7, <1>8

\* A round of the ascent gives facts, and where they are the facts it started
\* from they cover the runs.
LEMMA AscentSound ==
  ASSUME IsLoop(prog), NEW c \in Envs
  PROVE  LET next == Transform(Evaluate(c))
             d == [j \in Params |-> Widened(c[j], JoinIV(c[j], next[j]))]
         IN  d \in Envs /\ (d = c => Covers(c))
<1> DEFINE next == Transform(Evaluate(c))
           d == [j \in Params |-> Widened(c[j], JoinIV(c[j], next[j]))]
<1>1. next \in Envs
  BY EntryTransformed
<1> HIDE DEF next
<1>2. \A j \in Params : /\ c[j] \in Iv /\ next[j] \in Iv /\ JoinIV(c[j], next[j]) \in Iv
                        /\ Widened(c[j], JoinIV(c[j], next[j])) \in Iv
                        /\ \A z \in Int : In(z, next[j]) => In(z, Widened(c[j], JoinIV(c[j], next[j])))
  <2> SUFFICES ASSUME NEW j \in Params
               PROVE  /\ c[j] \in Iv /\ next[j] \in Iv /\ JoinIV(c[j], next[j]) \in Iv
                      /\ Widened(c[j], JoinIV(c[j], next[j])) \in Iv
                      /\ \A z \in Int : In(z, next[j]) => In(z, Widened(c[j], JoinIV(c[j], next[j])))
    OBVIOUS
  <2>1. c[j] \in Iv /\ next[j] \in Iv
    BY <1>1 DEF Envs
  <2> DEFINE u == JoinIV(c[j], next[j])
  <2>2. u \in Iv /\ \A z \in Int : In(z, next[j]) => In(z, u)
    BY <2>1, JoinType, JoinSound
  <2> HIDE DEF u
  <2>3. Widened(c[j], u) \in Iv /\ \A z \in Int : In(z, u) => In(z, Widened(c[j], u))
    BY <2>1, <2>2, WidenedSound
  <2> QED BY <2>1, <2>2, <2>3 DEF u
<1>3. d \in Envs
  BY <1>2 DEF Envs
<1>4. ASSUME d = c PROVE Covers(c)
  <2>1. \A j \in Params : c[j] = Widened(c[j], JoinIV(c[j], next[j]))
    BY <1>4
  <2>2. \A j \in Params : \A z \in Int : In(z, next[j]) => In(z, c[j])
    BY <1>2, <2>1
  <2>3. \A v \in Values : Holding(v, next) => Holding(v, c)
    <3> SUFFICES ASSUME NEW v \in Values, Holding(v, next), NEW j \in Params PROVE In(v[j], c[j])
      BY DEF Holding
    <3>1. v[j] \in Int /\ In(v[j], next[j])
      BY DEF Values, Holding
    <3> QED BY <2>2, <3>1
  <2> QED BY <2>3, PostFixpointCovers DEF next
<1> QED BY <1>3, <1>4 DEF next

\* Facts that say nothing cover the runs.
LEMMA TopCovers ==
  /\ [j \in Params |-> Top] \in Envs
  /\ Covers([j \in Params |-> Top])
<1> DEFINE c == [j \in Params |-> Top]
<1>1. c \in Envs
  BY ConstantTypes, EndsAreIntegers DEF Envs
<1>2. ASSUME NEW n \in Nat, NEW s \in Runs(n), NEW j \in Params PROVE In(s[n][j], c[j])
  <2>1. c[j] = Top
    OBVIOUS
  <2> QED BY <2>1 DEF In, Top
<1> HIDE DEF c
<1>3. Covers(c)
  BY <1>2 DEF Covers, Holding
<1> QED BY <1>1, <1>3 DEF c

\* A round of the descent keeps facts that cover the runs.
LEMMA DescentSound ==
  ASSUME IsLoop(prog), NEW c \in Envs, Covers(c)
  PROVE  LET next == Transform(Evaluate(c))
             d == [j \in Params |-> MeetIV(c[j], next[j])]
         IN  d \in Envs /\ Covers(d)
<1> DEFINE next == Transform(Evaluate(c))
<1>1. next \in Envs
  BY EntryTransformed
<1>2. Covers(next)
  BY TransformCovers
<1> HIDE DEF next
<1> QED BY <1>1, <1>2, MeetCovers DEF next

\* Going round at the end of a run gives a longer one.
LEMMA RunExtends ==
  ASSUME NEW n \in Nat, NEW s \in Runs(n), NEW w \in Values, Continues(s[n], w)
  PROVE  \E t \in Runs(n + 1) : t[n + 1] = w
<1> DEFINE t == [i \in 0 .. n + 1 |-> IF i = n + 1 THEN w ELSE s[i]]
<1>1. /\ s \in [0 .. n -> Values] /\ Holding(s[0], prog.init)
      /\ \A i \in 1 .. n : Continues(s[i - 1], s[i])
  BY DEF Runs
<1>2. \A i \in 0 .. n + 1 : i # n + 1 => i \in 0 .. n
  OBVIOUS
<1>3. t \in [0 .. n + 1 -> Values]
  BY <1>1, <1>2
<1>4. t[n + 1] = w /\ \A i \in 0 .. n : t[i] = s[i]
  OBVIOUS
<1>5. n + 1 \in Nat /\ 0 \in 0 .. n /\ n \in 0 .. n /\ (n + 1) - 1 = n
  OBVIOUS
<1> HIDE DEF t
<1>6. ASSUME NEW i \in 1 .. n + 1 PROVE Continues(t[i - 1], t[i])
  <2>1. CASE i = n + 1
    <3>1. t[i - 1] = s[n] /\ t[i] = w
      BY <1>4, <1>5, <2>1
    <3> QED BY <3>1
  <2>2. CASE i # n + 1
    <3>1. i \in 1 .. n /\ i \in 0 .. n /\ i - 1 \in 0 .. n
      BY <2>2
    <3> QED BY <1>1, <1>4, <3>1
  <2> QED BY <2>1, <2>2
<1>7. t[0] = s[0]
  BY <1>4, <1>5
<1>8. t \in Runs(n + 1)
  BY <1>1, <1>3, <1>6, <1>7 DEF Runs
<1> QED BY <1>4, <1>8

\* The facts the verdict answers with hold of what the exits of every run pass.
LEMMA VerdictSound ==
  ASSUME IsLoop(prog), NEW c \in Envs, Covers(c), cur = c, lc.at = Evaluate(c),
         NEW n \in Nat, NEW s \in Runs(n), NEW k \in Exits, Taken(k, s[n]), PassesRun(k, s[n])
  PROVE  /\ IsCont(k) => /\ k \in LiveConts(lc.at)
                         /\ \A j \in Params : In(Passes(k, s[n])[j], Passed(k, j))
         /\ ~IsCont(k) => \A j \in Params :
              In(Passes(k, s[n])[j], JoinOver([i \in DOMAIN lc.at \ Conts |-> lc.at[i].args[j]]))
<1> DEFINE at == lc.at
           v == s[n]
           w == Passes(k, v)
<1>1. n \in 0 .. n /\ s \in [0 .. n -> Values]
  BY DEF Runs
<1>2. v \in Values /\ Holding(v, c)
  BY <1>1 DEF Covers
<1> HIDE DEF v
<1>3. Taken(k, v) /\ PassesRun(k, v)
  BY DEF v
<1>4. /\ k \in DOMAIN at /\ (k \in Conts => k \in LiveConts(at))
      /\ w \in Values /\ Holding(w, at[k].args)
  BY <1>2, <1>3, StepLive
<1>5. DOMAIN at \subseteq Exits /\ \A i \in DOMAIN at : at[i].args \in Envs
  BY EvaluateSound
<1>6. \A j \in Params : w[j] \in Int /\ In(w[j], at[k].args[j]) /\ at[k].args[j] \in Iv /\ c[j] \in Iv
  BY <1>4, <1>5 DEF Values, Holding, Envs
<1>7. IsCont(k) <=> k \in Conts
  BY DEF Conts
<1>8. ASSUME k \in Conts, NEW j \in Params PROVE In(w[j], Passed(k, j))
  <2>1. Continues(v, w)
    BY <1>3, <1>8 DEF Continues
  <2>2. PICK t \in Runs(n + 1) : t[n + 1] = w
    BY <1>4, <2>1, RunExtends DEF v
  <2>3. Holding(w, c)
    BY <2>2 DEF Covers
  <2>4. In(w[j], c[j])
    BY <2>3 DEF Holding
  <2>5. In(w[j], MeetIV(at[k].args[j], c[j]))
    BY <1>6, <2>4, MeetExact
  <2> HIDE DEF w
  <2> QED BY <1>6, <2>5 DEF Passed
<1>9. ASSUME k \notin Conts, NEW j \in Params
      PROVE  In(w[j], JoinOver([i \in DOMAIN at \ Conts |-> at[i].args[j]]))
  <2> DEFINE D == DOMAIN at \ Conts
             f == [i \in D |-> at[i].args[j]]
  <2>1. D \subseteq Exits /\ k \in D
    BY <1>4, <1>5, <1>9
  <2>2. f \in [D -> Iv] /\ f[k] = at[k].args[j]
    BY <1>5, <2>1 DEF Envs
  <2> HIDE DEF D, f, w
  <2>3. In(w[j], JoinOver(f))
    BY <1>6, <2>1, <2>2, JoinOverSound
  <2> QED BY <2>3 DEF D, f
<1> QED BY <1>4, <1>7, <1>8, <1>9 DEF v

-----------------------------------------------------------------------------
(* The invariant: it holds at first, and each step keeps it. *)

\* A program's loop is one the assumption describes.
LEMMA ProgramLoop ==
  ASSUME prog \in Programs
  PROVE  IsLoop(prog) /\ prog.init \in Envs /\ prog.budget \in 0 .. LoopBudget
BY LoopAssumption, LoopParts DEF IsLoop

\* The invariant holds before the first step.
LEMMA InitInv == Init => LoopInv
<1> SUFFICES ASSUME Init PROVE LoopInv
  OBVIOUS
<1>1. prog \in Programs /\ prog.init \in Envs /\ prog.budget \in 0 .. LoopBudget /\ LoopBudget \in Nat
  BY ProgramLoop, LoopAssumption DEF Init
<1>2. phase = "ascend" /\ round = 0 /\ cur = prog.init /\ trips = NoBound /\ taken = 0
      /\ lc = NotEvaluated
  BY DEF Init
<1>3. RoundsOK
  BY <1>1, <1>2 DEF RoundsOK, Phases, Analysing
<1>4. cur \in Envs /\ val \in Values /\ taken \in 0 .. TripCap
  BY <1>1, <1>2, LoopAssumption DEF Init, Values
<1>5. RecordsOK /\ FactsOK /\ AnswersOK /\ RunningOK
  BY <1>2 DEF RecordsOK, FactsOK, AnswersOK, RunningOK, NotEvaluated, Answering, Executing
<1>6. Bounding(trips)
  BY <1>2 DEF Bounding, Bounds0
<1> QED BY <1>1, <1>2, <1>3, <1>4, <1>5, <1>6 DEF LoopInv

\* What a step of the analysis has to establish.
LEMMA AnalysisStep ==
  ASSUME LoopInv, prog' = prog, val' = val, taken' = taken,
         phase \in Analysing, phase' \in Analysing, RoundsOK', RecordsOK',
         cur' \in Envs, phase' # "ascend" => Covers(cur'),
         trips' \in Nat \cup {NoBound}, Bounding(trips')
  PROVE  LoopInv'
<1>1. prog' \in Programs /\ val' \in Values /\ taken' \in 0 .. TripCap
  BY DEF LoopInv, Values
<1>2. FactsOK'
  BY SameLoop DEF FactsOK
<1>3. AnswersOK' /\ RunningOK'
  BY DEF AnswersOK, RunningOK, LoopInv, Answering, Executing, Analysing
<1>4. Bounding(trips)'
  BY SameLoop
<1>5. (cur \in Envs)' /\ (val \in Values)' /\ (taken \in 0 .. TripCap)'
  BY <1>1 DEF Envs, Values
<1> QED BY <1>1, <1>2, <1>3, <1>4, <1>5 DEF LoopInv

\* The records after the facts become c are still those of the facts.
LEMMA InstallRecords ==
  ASSUME RecordsOK, phase \in Analysing, prog' = prog, NEW c, Install(c)
  PROVE  RecordsOK'
<1>1. cur' = c /\ lc' = IF c = cur THEN lc ELSE NotEvaluated
  BY DEF Install
<1>2. CASE c = cur
  <2>1. Evaluate(cur)' = Evaluate(cur)
    BY <1>1, <1>2, SameLoop
  <2> QED BY <1>1, <1>2, <2>1 DEF RecordsOK
<1>3. CASE c # cur
  BY <1>1, <1>3 DEF RecordsOK, NotEvaluated
<1> QED BY <1>2, <1>3

\* region(body): the records become those of the facts.
LEMMA BodyInv ==
  ASSUME LoopInv, Body PROVE LoopInv'
<1>1. /\ prog' = prog /\ phase' = phase /\ round' = round /\ cur' = cur /\ trips' = trips
      /\ val' = val /\ taken' = taken /\ phase \in Analysing
      /\ lc' = [done |-> TRUE, at |-> Evaluate(cur)]
  BY DEF Body, answers, execution, Analysing
<1>2. RoundsOK'
  BY <1>1 DEF LoopInv, RoundsOK
<1>3. RecordsOK'
  <2>1. Evaluate(cur)' = Evaluate(cur)
    BY <1>1, SameLoop
  <2> QED BY <1>1, <2>1 DEF RecordsOK
<1>4. cur' \in Envs /\ trips' \in Nat \cup {NoBound} /\ Bounding(trips')
      /\ (phase' # "ascend" => Covers(cur'))
  BY <1>1 DEF LoopInv, FactsOK
<1> QED BY <1>1, <1>2, <1>3, <1>4, AnalysisStep

\* A round of the ascent.
LEMMA AscendInv ==
  ASSUME LoopInv, Ascend PROVE LoopInv'
<1> DEFINE next == Transform(lc.at)
           c == [j \in Params |-> Widened(cur[j], JoinIV(cur[j], next[j]))]
<1>1. /\ prog' = prog /\ trips' = trips /\ val' = val /\ taken' = taken
      /\ phase = "ascend" /\ round < prog.budget /\ lc.done /\ Install(c)
      /\ IF cur' = cur THEN NextPhase("descend") ELSE NextRound
  BY DEF Ascend, answers, execution
<1>2. /\ IsLoop(prog) /\ cur \in Envs /\ RecordsOK /\ RoundsOK
      /\ trips \in Nat \cup {NoBound} /\ Bounding(trips)
  BY ProgramLoop DEF LoopInv
<1>3. lc.at = Evaluate(cur)
  BY <1>1, <1>2 DEF RecordsOK, Analysing
<1>4. c \in Envs /\ (c = cur => Covers(cur))
  BY <1>2, <1>3, AscentSound
<1> HIDE DEF c
<1>5. cur' = c
  BY <1>1 DEF Install
<1>6. /\ phase' \in Analysing
      /\ cur' = cur => phase' = "descend" /\ round' = 0
      /\ cur' # cur => phase' = "ascend" /\ round' = round + 1
  BY <1>1 DEF NextPhase, NextRound, Analysing
<1>7. RoundsOK'
  <2>1. round \in 0 .. prog.budget /\ prog.budget \in Nat /\ DescendRounds \in Nat \ {0}
    BY <1>1, <1>2, LoopAssumption DEF RoundsOK, IsLoop
  <2>2. cur' # cur => round' \in 0 .. prog'.budget
    BY <1>1, <1>6, <2>1
  <2>3. cur' = cur => round' \in 0 .. DescendRounds - 1
    BY <1>6, <2>1
  <2> QED BY <1>6, <2>2, <2>3 DEF RoundsOK, Phases, Analysing
<1>8. RecordsOK'
  BY <1>1, <1>2, InstallRecords DEF Analysing
<1>9. phase' # "ascend" => Covers(cur')
  BY <1>4, <1>5, <1>6
<1>10. phase \in Analysing /\ cur' \in Envs
  BY <1>1, <1>4, <1>5 DEF Analysing
<1>11. trips' \in Nat \cup {NoBound} /\ Bounding(trips')
  BY <1>1, <1>2
<1> QED BY <1>1, <1>6, <1>7, <1>8, <1>9, <1>10, <1>11, AnalysisStep

\* The analysis gives up.
LEMMA GiveUpInv ==
  ASSUME LoopInv, GiveUp PROVE LoopInv'
<1> DEFINE c == [j \in Params |-> Top]
<1>1. /\ prog' = prog /\ trips' = trips /\ val' = val /\ taken' = taken
      /\ phase = "ascend" /\ Install(c) /\ NextPhase("verdict")
  BY DEF GiveUp, answers, execution
<1>2. RecordsOK /\ trips \in Nat \cup {NoBound} /\ Bounding(trips)
  BY DEF LoopInv
<1>3. c \in Envs /\ Covers(c)
  BY TopCovers
<1> HIDE DEF c
<1>4. cur' = c /\ phase' = "verdict" /\ round' = 0
  BY <1>1 DEF Install, NextPhase
<1>5. RoundsOK'
  BY <1>4 DEF RoundsOK, Phases, Analysing
<1>6. RecordsOK'
  BY <1>1, <1>2, InstallRecords DEF Analysing
<1>7. phase \in Analysing /\ phase' \in Analysing
  BY <1>1, <1>4 DEF Analysing
<1>8. cur' \in Envs /\ Covers(cur') /\ trips' \in Nat \cup {NoBound} /\ Bounding(trips')
  BY <1>1, <1>2, <1>3, <1>4
<1> QED BY <1>1, <1>5, <1>6, <1>7, <1>8, AnalysisStep

\* A round of the descent.
LEMMA DescendInv ==
  ASSUME LoopInv, Descend PROVE LoopInv'
<1> DEFINE next == Transform(lc.at)
           c == [j \in Params |-> MeetIV(cur[j], next[j])]
<1>1. /\ prog' = prog /\ trips' = trips /\ val' = val /\ taken' = taken
      /\ phase = "descend" /\ lc.done /\ Install(c)
      /\ IF round + 1 < DescendRounds THEN NextRound ELSE NextPhase("trip")
  BY DEF Descend, answers, execution
<1>2. /\ IsLoop(prog) /\ cur \in Envs /\ Covers(cur) /\ RecordsOK /\ RoundsOK
      /\ trips \in Nat \cup {NoBound} /\ Bounding(trips)
  BY <1>1, ProgramLoop DEF LoopInv, FactsOK
<1>3. lc.at = Evaluate(cur)
  BY <1>1, <1>2 DEF RecordsOK, Analysing
<1>4. c \in Envs /\ Covers(c)
  BY <1>2, <1>3, DescentSound
<1> HIDE DEF c
<1>5. cur' = c
  BY <1>1 DEF Install
<1>6. /\ phase' \in Analysing
      /\ round + 1 < DescendRounds => phase' = "descend" /\ round' = round + 1
      /\ ~(round + 1 < DescendRounds) => phase' = "trip" /\ round' = 0
  BY <1>1 DEF NextPhase, NextRound, Analysing
<1>7. RoundsOK'
  <2>1. round \in 0 .. DescendRounds - 1 /\ DescendRounds \in Nat /\ TripRounds \in Nat
    BY <1>1, <1>2, LoopAssumption DEF RoundsOK
  <2>2. round + 1 < DescendRounds => round' \in 0 .. DescendRounds - 1
    BY <1>6, <2>1
  <2>3. ~(round + 1 < DescendRounds) => round' \in 0 .. TripRounds
    BY <1>6, <2>1
  <2> QED BY <1>6, <2>2, <2>3 DEF RoundsOK, Phases, Analysing
<1>8. RecordsOK'
  BY <1>1, <1>2, InstallRecords DEF Analysing
<1>9. phase \in Analysing /\ cur' \in Envs /\ Covers(cur')
  BY <1>1, <1>4, <1>5 DEF Analysing
<1>10. trips' \in Nat \cup {NoBound} /\ Bounding(trips')
  BY <1>1, <1>2
<1> QED BY <1>1, <1>6, <1>7, <1>8, <1>9, <1>10, AnalysisStep

\* A refinement by the trip bound.
LEMMA TripInv ==
  ASSUME LoopInv, Trip PROVE LoopInv'
<1>1. /\ prog' = prog /\ val' = val /\ taken' = taken
      /\ phase = "trip" /\ round < TripRounds /\ lc.done /\ LiveConts(lc.at) # {}
      /\ trips' = LeastBound(lc.at)
      /\ IF cur' = cur THEN NextPhase("verdict") ELSE NextRound
  BY DEF Trip, execution
<1>2. PICK c \in Refinements(lc.at, cur) : Install(c)
  BY DEF Trip
<1>3. /\ IsLoop(prog) /\ cur \in Envs /\ Covers(cur) /\ RecordsOK /\ RoundsOK
  BY <1>1, ProgramLoop DEF LoopInv, FactsOK
<1>4. lc.at = Evaluate(cur)
  BY <1>1, <1>3 DEF RecordsOK, Analysing
<1>5. c \in Envs /\ c \in Covering
  BY <1>1, <1>2, <1>3, <1>4, RefinementsSound
<1>6. cur' = c
  BY <1>2 DEF Install
<1>7. /\ phase' \in Analysing
      /\ cur' = cur => phase' = "verdict" /\ round' = 0
      /\ cur' # cur => phase' = "trip" /\ round' = round + 1
  BY <1>1 DEF NextPhase, NextRound, Analysing
<1>8. RoundsOK'
  <2>1. round \in 0 .. TripRounds /\ TripRounds \in Nat
    BY <1>1, <1>3, LoopAssumption DEF RoundsOK
  <2>2. round + 1 \in 0 .. TripRounds
    BY <1>1, <2>1
  <2> QED BY <1>7, <2>2 DEF RoundsOK, Phases, Analysing
<1>9. RecordsOK'
  BY <1>1, <1>2, <1>3, InstallRecords DEF Analysing
<1>10. phase \in Analysing /\ cur' \in Envs /\ Covers(cur')
  BY <1>1, <1>5, <1>6 DEF Analysing, Covering
<1>11. trips' \in Nat \cup {NoBound} /\ Bounding(trips')
  <2>1. LiveConts(Evaluate(cur)) # {} /\ trips' = LeastBound(Evaluate(cur))
    BY <1>1, <1>4
  <2>2. /\ LeastBound(Evaluate(cur)) \in Nat \cup {NoBound}
        /\ \A n \in Nat : Runs(n) # {} => Bounds0(n, LeastBound(Evaluate(cur)))
    BY <1>3, <2>1, LeastBoundSound
  <2> QED BY <2>1, <2>2 DEF Bounding
<1> QED BY <1>1, <1>7, <1>8, <1>9, <1>10, <1>11, AnalysisStep

\* The refinements end.
LEMMA TripDoneInv ==
  ASSUME LoopInv, TripDone PROVE LoopInv'
<1>1. /\ prog' = prog /\ cur' = cur /\ lc' = lc /\ trips' = trips /\ val' = val /\ taken' = taken
      /\ phase = "trip" /\ phase' = "verdict" /\ round' = 0
  BY DEF TripDone, answers, execution, NextPhase
<1>2. RoundsOK'
  BY <1>1 DEF RoundsOK, Phases, Analysing
<1>3. RecordsOK'
  <2>1. Evaluate(cur)' = Evaluate(cur)
    BY <1>1, SameLoop
  <2> QED BY <1>1, <2>1 DEF RecordsOK, LoopInv, Analysing
<1>4. phase \in Analysing /\ phase' \in Analysing
  BY <1>1 DEF Analysing
<1>5. cur' \in Envs /\ Covers(cur') /\ trips' \in Nat \cup {NoBound} /\ Bounding(trips')
  BY <1>1 DEF LoopInv, FactsOK
<1> QED BY <1>1, <1>2, <1>3, <1>4, <1>5, AnalysisStep

\* The verdict: what it answers holds of what the exits of every run pass.
LEMMA VerdictInv ==
  ASSUME LoopInv, Verdict PROVE LoopInv'
<1> DEFINE args == [k \in LiveConts(lc.at) |-> [j \in Params |-> Passed(k, j)]]
           results == [j \in Params |-> JoinOver([i \in DOMAIN lc.at \ Conts |-> lc.at[i].args[j]])]
<1>1. /\ prog' = prog /\ cur' = cur /\ trips' = trips /\ val' = val /\ taken' = taken
      /\ phase = "verdict" /\ lc.done /\ phase' = "entry" /\ round' = 0
      /\ argFacts' = args /\ resFacts' = results
  BY DEF Verdict, execution, NextPhase
<1>2. /\ prog \in Programs /\ IsLoop(prog) /\ cur \in Envs /\ Covers(cur) /\ RecordsOK
      /\ val \in Values /\ taken = 0 /\ taken \in 0 .. TripCap
      /\ trips \in Nat \cup {NoBound} /\ Bounding(trips)
  BY <1>1, ProgramLoop DEF LoopInv, FactsOK, RunningOK, Executing
<1>3. lc.at = Evaluate(cur)
  BY <1>1, <1>2 DEF RecordsOK, Analysing
<1>4. ASSUME NEW n \in Nat, NEW s \in Runs(n), NEW k \in Exits, Taken(k, s[n]), PassesRun(k, s[n])
      PROVE  IF IsCont(k) THEN k \in DOMAIN args /\ Holding(Passes(k, s[n]), args[k])
             ELSE Holding(Passes(k, s[n]), results)
  <2>1. /\ IsCont(k) => /\ k \in LiveConts(lc.at)
                        /\ \A j \in Params : In(Passes(k, s[n])[j], Passed(k, j))
        /\ ~IsCont(k) => \A j \in Params : In(Passes(k, s[n])[j], results[j])
    BY <1>2, <1>3, <1>4, VerdictSound
  <2> HIDE DEF results
  <2>2. ASSUME IsCont(k) PROVE k \in DOMAIN args /\ Holding(Passes(k, s[n]), args[k])
    <3>1. k \in DOMAIN args /\ \A j \in Params : args[k][j] = Passed(k, j)
      BY <2>1, <2>2
    <3> HIDE DEF args
    <3> QED BY <2>1, <2>2, <3>1 DEF Holding
  <2>3. ASSUME ~IsCont(k) PROVE Holding(Passes(k, s[n]), results)
    BY <2>1, <2>3 DEF Holding
  <2> QED BY <2>2, <2>3
<1> HIDE DEF args, results
<1>5. AnswersOK'
  <2>1. \A n : Runs(n)' = Runs(n)
    BY <1>1, SameLoop
  <2>2. Exits' = Exits /\ \A k : IsCont(k)' <=> IsCont(k)
    BY <1>1, SameLoop
  <2>3. \A k, v : (Taken(k, v)' <=> Taken(k, v)) /\ (PassesRun(k, v)' <=> PassesRun(k, v))
                  /\ Passes(k, v)' = Passes(k, v)
    BY <1>1, SameLoop
  <2>4. \A v, c : Holding(v, c)' <=> Holding(v, c)
    BY DEF Holding
  <2> SUFFICES ASSUME NEW n \in Nat, NEW s \in Runs(n)', NEW k \in Exits',
                      Taken(k, s[n])', PassesRun(k, s[n])'
               PROVE  IF IsCont(k)' THEN k \in DOMAIN argFacts' /\ Holding(Passes(k, s[n]), argFacts[k])'
                      ELSE Holding(Passes(k, s[n]), resFacts)'
    BY DEF AnswersOK, Answered
  <2>5. s \in Runs(n) /\ k \in Exits /\ Taken(k, s[n]) /\ PassesRun(k, s[n])
        /\ Passes(k, s[n])' = Passes(k, s[n]) /\ (IsCont(k)' <=> IsCont(k))
    BY <2>1, <2>2, <2>3
  <2>6. IF IsCont(k) THEN k \in DOMAIN args /\ Holding(Passes(k, s[n]), args[k])
        ELSE Holding(Passes(k, s[n]), results)
    BY <1>4, <2>5
  <2>7. CASE IsCont(k)
    <3>1. k \in DOMAIN args /\ Holding(Passes(k, s[n]), args[k])
      BY <2>6, <2>7
    <3>2. Holding(Passes(k, s[n]), argFacts[k])'
      BY <1>1, <2>5, <3>1 DEF Holding
    <3> QED BY <1>1, <2>5, <2>7, <3>1, <3>2
  <2>8. CASE ~IsCont(k)
    <3>1. Holding(Passes(k, s[n]), results)
      BY <2>6, <2>8
    <3>2. Holding(Passes(k, s[n]), resFacts)'
      BY <1>1, <2>5, <3>1 DEF Holding
    <3> QED BY <2>5, <2>8, <3>2
  <2> QED BY <2>7, <2>8
<1>6. RoundsOK' /\ RecordsOK' /\ RunningOK'
  BY <1>1, <1>2 DEF RoundsOK, RecordsOK, RunningOK, Phases, Analysing, Answering, Executing
<1>7. FactsOK' /\ Bounding(trips)'
  BY <1>1, <1>2, SameLoop DEF FactsOK
<1>8. /\ (prog \in Programs)' /\ (cur \in Envs)' /\ (val \in Values)' /\ (taken \in 0 .. TripCap)'
      /\ (trips \in Nat \cup {NoBound})'
  BY <1>1, <1>2 DEF Envs, Values
<1> QED BY <1>5, <1>6, <1>7, <1>8 DEF LoopInv

\* The answers are of the same runs while the loop and the answers stay.
LEMMA SameAnswers ==
  ASSUME LoopInv, prog' = prog, argFacts' = argFacts, resFacts' = resFacts, phase \in Answering
  PROVE  AnswersOK'
<1>1. \A n : Runs(n)' = Runs(n)
  BY SameLoop
<1>2. Exits' = Exits /\ \A k : IsCont(k)' <=> IsCont(k)
  BY SameLoop
<1>3. \A k, v : (Taken(k, v)' <=> Taken(k, v)) /\ (PassesRun(k, v)' <=> PassesRun(k, v))
                /\ Passes(k, v)' = Passes(k, v)
  BY SameLoop
<1>4. Answered
  BY DEF LoopInv, AnswersOK
<1> SUFFICES ASSUME NEW n \in Nat, NEW s \in Runs(n)', NEW k \in Exits',
                    Taken(k, s[n])', PassesRun(k, s[n])'
             PROVE  IF IsCont(k)' THEN k \in DOMAIN argFacts' /\ Holding(Passes(k, s[n]), argFacts[k])'
                    ELSE Holding(Passes(k, s[n]), resFacts)'
  BY DEF AnswersOK, Answered
<1>5. s \in Runs(n) /\ k \in Exits /\ Taken(k, s[n]) /\ PassesRun(k, s[n])
      /\ Passes(k, s[n])' = Passes(k, s[n]) /\ (IsCont(k)' <=> IsCont(k))
  BY <1>1, <1>2, <1>3
<1>6. IF IsCont(k) THEN k \in DOMAIN argFacts /\ Holding(Passes(k, s[n]), argFacts[k])
      ELSE Holding(Passes(k, s[n]), resFacts)
  BY <1>4, <1>5 DEF Answered
<1>7. Holding(Passes(k, s[n]), argFacts[k]) => Holding(Passes(k, s[n]), argFacts[k])'
  BY <1>5 DEF Holding
<1>8. Holding(Passes(k, s[n]), resFacts) => Holding(Passes(k, s[n]), resFacts)'
  BY <1>5 DEF Holding
<1> QED BY <1>5, <1>6, <1>7, <1>8

\* What a step of the execution has to establish: the answers stay.
LEMMA ExecutionStep ==
  ASSUME LoopInv, prog' = prog, cur' = cur, round' = round, trips' = trips,
         argFacts' = argFacts, resFacts' = resFacts,
         phase \in Answering, phase' \in Executing, val' \in Values, taken' \in 0 .. TripCap,
         \E n \in Nat : \E s \in Runs(n) : taken' <= n /\ (phase' = "run" => s[n] = val')
  PROVE  LoopInv'
<1>1. FactsOK' /\ Bounding(trips)'
  BY SameLoop DEF FactsOK, LoopInv, Answering, Executing
<1>2. RoundsOK' /\ RecordsOK'
  BY DEF LoopInv, RoundsOK, RecordsOK, Phases, Analysing, Answering, Executing
<1>3. RunningOK'
  <2>1. \A n : Runs(n)' = Runs(n)
    BY SameLoop
  <2>2. PICK n \in Nat : \E s \in Runs(n) : taken' <= n /\ (phase' = "run" => s[n] = val')
    OBVIOUS
  <2>3. \E s \in Runs(n)' : taken' <= n /\ (phase' = "run" => s[n] = val')
    BY <2>1, <2>2
  <2> QED BY <2>3 DEF RunningOK
<1>4. AnswersOK'
  BY SameAnswers
<1>5. /\ (prog \in Programs)' /\ (cur \in Envs)' /\ (val \in Values)' /\ (taken \in 0 .. TripCap)'
      /\ (trips \in Nat \cup {NoBound})'
  BY DEF LoopInv, Envs, Values
<1> QED BY <1>1, <1>2, <1>3, <1>4, <1>5 DEF LoopInv

\* The execution begins a run.
LEMMA EnterInv ==
  ASSUME LoopInv, Enter PROVE LoopInv'
<1>1. /\ prog' = prog /\ cur' = cur /\ round' = round /\ trips' = trips /\ taken' = taken
      /\ argFacts' = argFacts /\ resFacts' = resFacts
      /\ phase = "entry" /\ phase' = "run"
      /\ val' \in [Params -> -ValMax .. ValMax] /\ \A j \in Params : In(val'[j], prog.init[j])
  BY DEF Enter, answers
<1>2. taken = 0 /\ taken \in 0 .. TripCap
  BY <1>1 DEF LoopInv, RunningOK, Executing
<1>3. val' \in Values /\ Holding(val', prog.init)
  <2>1. -ValMax .. ValMax \subseteq Int
    OBVIOUS
  <2> QED BY <1>1, <2>1 DEF Values, Holding
<1> DEFINE s == [i \in 0 .. 0 |-> val']
<1>4. s \in [0 .. 0 -> Values] /\ s[0] = val'
  BY <1>3
<1> HIDE DEF s
<1>5. s \in Runs(0)
  BY <1>3, <1>4 DEF Runs
<1>6. \E n \in Nat : \E r \in Runs(n) : taken' <= n /\ (phase' = "run" => r[n] = val')
  BY <1>1, <1>2, <1>4, <1>5
<1>7. phase \in Answering /\ phase' \in Executing /\ taken' \in 0 .. TripCap
  BY <1>1, <1>2 DEF Answering, Executing
<1> QED BY <1>1, <1>3, <1>6, <1>7, ExecutionStep

\* The execution goes round, and lengthens its run, or ends.
LEMMA IterateInv ==
  ASSUME LoopInv, NEW k \in Exits, Iterate(k) PROVE LoopInv'
<1>1. /\ prog' = prog /\ cur' = cur /\ round' = round /\ trips' = trips
      /\ argFacts' = argFacts /\ resFacts' = resFacts
      /\ phase = "run" /\ Taken(k, val)
  BY DEF Iterate, answers
<1>2. /\ IsLoop(prog) /\ val \in Values /\ taken \in 0 .. TripCap /\ phase \in Answering
  BY <1>1, ProgramLoop DEF LoopInv, Answering, Executing
<1>3. PICK n \in Nat : \E s \in Runs(n) : taken <= n /\ s[n] = val
  BY <1>1 DEF LoopInv, RunningOK, Executing
<1>4. PICK s \in Runs(n) : taken <= n /\ s[n] = val
  BY <1>3
<1>5. CASE ~PassesRun(k, val)
  <2>1. phase' = "refused" /\ val' = val /\ taken' = taken
    BY <1>5 DEF Iterate
  <2>2. phase' \in Executing /\ taken' \in 0 .. TripCap /\ val' \in Values
        /\ \E m \in Nat : \E t \in Runs(m) : taken' <= m /\ (phase' = "run" => t[m] = val')
    BY <1>2, <1>4, <2>1 DEF Executing
  <2> QED BY <1>1, <1>2, <2>2, ExecutionStep
<1>6. CASE PassesRun(k, val)
  <2>1. /\ val' = Passes(k, val)
        /\ taken' = IF IsCont(k) /\ taken < TripCap THEN taken + 1 ELSE taken
        /\ phase' \in Executing /\ (~IsCont(k) => phase' = "done")
    BY <1>1, <1>6 DEF Iterate, Executing
  <2>2. val' \in Values /\ taken' \in 0 .. TripCap
    <3>1. val' \in Values
      BY <1>2, <1>6, <2>1, PassesSound
    <3>2. taken' \in 0 .. TripCap
      BY <1>2, <2>1, LoopAssumption
    <3> QED BY <3>1, <3>2
  <2>3. \E m \in Nat : \E t \in Runs(m) : taken' <= m /\ (phase' = "run" => t[m] = val')
    <3>1. CASE ~IsCont(k)
      <4>1. taken' = taken /\ phase' = "done"
        BY <2>1, <3>1
      <4> QED BY <1>4, <4>1
    <3>2. CASE IsCont(k)
      <4>1. Continues(s[n], val')
        BY <1>1, <1>4, <1>6, <2>1, <3>2 DEF Continues, Conts
      <4>2. \E t \in Runs(n + 1) : t[n + 1] = val'
        BY <2>2, <4>1, RunExtends
      <4>3. taken' <= n + 1 /\ n + 1 \in Nat
        BY <1>2, <1>4, <2>1
      <4> QED BY <4>2, <4>3
    <3> QED BY <3>1, <3>2
  <2> QED BY <1>1, <1>2, <2>1, <2>2, <2>3, ExecutionStep
<1> QED BY <1>5, <1>6

\* Every step keeps the invariant.
LEMMA NextInv == LoopInv /\ [Next]_vars => LoopInv'
<1> SUFFICES ASSUME LoopInv, [Next]_vars PROVE LoopInv'
  OBVIOUS
<1>1. CASE Body
  BY <1>1, BodyInv
<1>2. CASE Ascend
  BY <1>2, AscendInv
<1>3. CASE GiveUp
  BY <1>3, GiveUpInv
<1>4. CASE Descend
  BY <1>4, DescendInv
<1>5. CASE Trip
  BY <1>5, TripInv
<1>6. CASE TripDone
  BY <1>6, TripDoneInv
<1>7. CASE Verdict
  BY <1>7, VerdictInv
<1>8. CASE Enter
  BY <1>8, EnterInv
<1>9. CASE \E k \in Exits : Iterate(k)
  BY <1>9, IterateInv
<1>10. CASE UNCHANGED vars
  <2>1. /\ prog' = prog /\ phase' = phase /\ round' = round /\ cur' = cur /\ lc' = lc /\ trips' = trips
        /\ argFacts' = argFacts /\ resFacts' = resFacts /\ val' = val /\ taken' = taken
    BY <1>10 DEF vars
  <2>2. CASE phase \in Analysing
    <3>1. RoundsOK'
      BY <2>1 DEF LoopInv, RoundsOK
    <3>2. RecordsOK'
      <4>1. Evaluate(cur)' = Evaluate(cur)
        BY <2>1, SameLoop
      <4> QED BY <2>1, <4>1 DEF LoopInv, RecordsOK
    <3>3. /\ cur' \in Envs /\ trips' \in Nat \cup {NoBound} /\ Bounding(trips')
          /\ (phase' # "ascend" => Covers(cur'))
      BY <2>1 DEF LoopInv, FactsOK
    <3> QED BY <2>1, <2>2, <3>1, <3>2, <3>3, AnalysisStep
  <2>3. CASE phase = "entry"
    <3>1. AnswersOK' /\ FactsOK' /\ Bounding(trips)'
      <4>1. phase \in Answering
        BY <2>3 DEF Answering
      <4>2. AnswersOK'
        BY <2>1, <4>1, SameAnswers
      <4>3. FactsOK' /\ Bounding(trips)'
        BY <2>1, SameLoop DEF LoopInv, FactsOK
      <4> QED BY <4>2, <4>3
    <3>2. RoundsOK' /\ RecordsOK' /\ RunningOK'
      BY <2>1, <2>3 DEF LoopInv, RoundsOK, RecordsOK, RunningOK, Phases, Analysing, Answering, Executing
    <3>3. /\ (prog \in Programs)' /\ (cur \in Envs)' /\ (val \in Values)' /\ (taken \in 0 .. TripCap)'
          /\ (trips \in Nat \cup {NoBound})'
      BY <2>1 DEF LoopInv, Envs, Values
    <3> QED BY <3>1, <3>2, <3>3 DEF LoopInv
  <2>4. CASE phase \in Executing
    <3>1. \E n \in Nat : \E s \in Runs(n) : taken' <= n /\ (phase' = "run" => s[n] = val')
      BY <2>1, <2>4 DEF LoopInv, RunningOK
    <3>2. val' \in Values /\ taken' \in 0 .. TripCap /\ phase \in Answering /\ phase' \in Executing
      BY <2>1, <2>4 DEF LoopInv, Answering
    <3> QED BY <2>1, <3>1, <3>2, ExecutionStep
  <2> QED BY <2>2, <2>3, <2>4 DEF LoopInv, RoundsOK, Phases, Answering
<1> QED BY <1>1, <1>2, <1>3, <1>4, <1>5, <1>6, <1>7, <1>8, <1>9, <1>10 DEF Next

-----------------------------------------------------------------------------
(* What the invariant says at one state. *)

\* The state's types: what the invariant's parts say of each variable.
LEMMA InvTypes == LoopInv => TypeOK
<1> SUFFICES ASSUME LoopInv PROVE TypeOK
  OBVIOUS
<1>1. RoundsOK /\ prog.budget \in 0 .. LoopBudget /\ LoopBudget \in Nat
      /\ DescendRounds \in 1 .. LoopBudget /\ TripRounds \in 0 .. LoopBudget
  BY ProgramLoop, LoopAssumption DEF LoopInv
<1>2. round \in 0 .. LoopBudget
  <2>1. CASE phase = "ascend"
    BY <1>1, <2>1 DEF RoundsOK
  <2>2. CASE phase = "descend"
    BY <1>1, <2>2 DEF RoundsOK
  <2>3. CASE phase = "trip"
    BY <1>1, <2>3 DEF RoundsOK
  <2>4. CASE phase \notin {"ascend", "descend", "trip"}
    BY <1>1, <2>4 DEF RoundsOK
  <2> QED BY <2>1, <2>2, <2>3, <2>4
<1>3. phase \in {"ascend", "descend", "trip", "verdict", "entry", "run", "done", "cut", "refused"}
  BY <1>1 DEF RoundsOK, Phases, Analysing, Answering, Executing
<1> QED BY <1>2, <1>3 DEF TypeOK, LoopInv, Envs, Values

\* Where the loop runs, its values end a run, which the facts cover.
LEMMA InvHead == LoopInv => HeadSound
<1> SUFFICES ASSUME LoopInv, phase = "run" PROVE \A j \in Params : In(val[j], cur[j])
  BY DEF HeadSound
<1>1. PICK n \in Nat : \E s \in Runs(n) : taken <= n /\ s[n] = val
  BY DEF LoopInv, RunningOK, Executing
<1>2. PICK s \in Runs(n) : s[n] = val
  BY <1>1
<1>3. Covers(cur)
  BY DEF LoopInv, FactsOK
<1> QED BY <1>2, <1>3 DEF Covers, Holding

\* The exit it takes ends that run too, and the answers are of every run.
LEMMA InvExit == LoopInv => ExitSound
<1> SUFFICES ASSUME LoopInv, phase = "run", NEW k \in Exits, Taken(k, val), PassesRun(k, val)
             PROVE  IF IsCont(k) THEN k \in DOMAIN argFacts
                                      /\ \A j \in Params : In(Passes(k, val)[j], argFacts[k][j])
                    ELSE \A j \in Params : In(Passes(k, val)[j], resFacts[j])
  BY DEF ExitSound
<1>1. PICK n \in Nat : \E s \in Runs(n) : taken <= n /\ s[n] = val
  BY DEF LoopInv, RunningOK, Executing
<1>2. PICK s \in Runs(n) : s[n] = val
  BY <1>1
<1>3. Answered
  BY DEF LoopInv, AnswersOK, Answering, Executing
<1>4. Taken(k, s[n]) /\ PassesRun(k, s[n])
  BY <1>2
<1>5. IF IsCont(k) THEN k \in DOMAIN argFacts /\ Holding(Passes(k, s[n]), argFacts[k])
      ELSE Holding(Passes(k, s[n]), resFacts)
  BY <1>3, <1>4 DEF Answered
<1> QED BY <1>2, <1>5 DEF Holding

\* The bound is of every run's length, and the back edges are no more.
LEMMA InvTrip == LoopInv => TripSound
<1> SUFFICES ASSUME LoopInv, phase # "entry", trips # NoBound PROVE taken <= trips
  BY DEF TripSound
<1>1. trips \in Nat /\ taken \in 0 .. TripCap /\ Bounding(trips)
  BY DEF LoopInv
<1>2. CASE phase \notin Executing
  BY <1>1, <1>2 DEF LoopInv, RunningOK
<1>3. CASE phase \in Executing
  <2>1. PICK n \in Nat : \E s \in Runs(n) : taken <= n
    BY <1>3 DEF LoopInv, RunningOK
  <2>2. Bounds0(n, trips)
    BY <1>1, <2>1 DEF Bounding
  <2>3. n <= trips
    BY <2>2 DEF Bounds0
  <2> QED BY <1>1, <2>1, <2>3
<1> QED BY <1>2, <1>3

-----------------------------------------------------------------------------
(* The theorems. *)

\* The analysis and the execution after it keep the invariant.
THEOREM LoopInvariant == Spec => []LoopInv
BY InitInv, NextInv, PTL DEF Spec

\* The variables have their types: what the analysis computes of a loop are
\* facts and bounds, however it got there.
THEOREM LoopTypeOK == Spec => []TypeOK
BY LoopInvariant, InvTypes, PTL

\* The facts the loop's head ends with, by widening, by descending and by the
\* trip bounds, or by giving up, hold of the parameters on every iteration of
\* every execution.
THEOREM LoopHeadSound == Spec => []HeadSound
BY LoopInvariant, InvHead, PTL

\* So do the narrowed facts of what each continue passes, which is then live,
\* and of what the loop returns.
THEOREM LoopExitSound == Spec => []ExitSound
BY LoopInvariant, InvExit, PTL

\* No execution takes more back edges than the trip bound.
THEOREM LoopTripSound == Spec => []TripSound
BY LoopInvariant, InvTrip, PTL

=============================================================================
