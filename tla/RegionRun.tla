----------------------------- MODULE RegionRun ------------------------------
(***************************************************************************)
(* The analysis of straight-line code and branch arms (region, stmt, arm,  *)
(* cond, back and restore of ir/interval.go) beside an execution of the    *)
(* same code.  Each step runs one statement, enters the arm the execution  *)
(* takes, or leaves it; the analysis does what it does there, and the      *)
(* execution computes the value.  A value is its index; def, fs and val    *)
(* are its definition, its fact and what it holds in this execution.       *)
(*                                                                         *)
(* A pi-parameter is a value renamed on an arm and narrowed by the arm's   *)
(* guard: here it is the value itself, which cond narrows identically.     *)
(***************************************************************************)
EXTENDS IntervalDomain, Sequences

CONSTANTS Inputs,    \* the facts a parameter may be declared with
          Literals,  \* the integer literals
          Ops,       \* the operations the statements use
          NParams,   \* parameters of the function
          MaxValues, \* bound: values defined where a statement or an arm begins
          MaxAtoms,  \* bound: comparisons of the open arms' guards together
          PairRels,  \* bound: the relations of a guard that conjoins two comparisons
          Args,      \* bound: the values a parameter takes
          \* The operations beyond the ring's: what one computes, where it
          \* runs, and the interval the analysis gives it.
          OtherOps, OtherSemantics(_, _, _), OtherDefined(_, _, _), OtherTransfer(_, _, _)

RingOps == {"add", "sub", "mul", "neg", "div", "rem", "mod"}

ASSUME RegionAssumption ==
  /\ \A f \in Inputs : f \in Iv /\ Canonical(f)
  /\ Literals \subseteq E /\ Args \subseteq Int
  /\ Ops \subseteq RingOps \cup OtherOps
  /\ RingOps \cap OtherOps = {} /\ {"param", "const", "if"} \cap OtherOps = {}
  /\ NParams \in Nat /\ MaxValues \in Nat /\ MaxAtoms \in Nat
  /\ PairRels \subseteq Rels

VARIABLES def, fs, val, arms

vars == <<def, fs, val, arms>>

Values == 1 .. Len(def)

-----------------------------------------------------------------------------
(* What the program computes (integers.md), and where an operation runs: its *)
(* `where` is discharged or the program refused.                             *)

Semantics(op, x, y) ==
  CASE op = "add" -> x + y
    [] op = "sub" -> x - y
    [] op = "mul" -> x * y
    [] op = "neg" -> -x
    [] op = "div" -> Quo(x, y)
    [] op = "rem" -> Rem(x, y)
    [] op = "mod" -> x % y
    [] OTHER -> OtherSemantics(op, x, y)

Defined(op, x, y) ==
  CASE op \in {"div", "rem"} -> y # 0
    [] op = "mod" -> y > 0
    [] op \in RingOps \ {"div", "rem", "mod"} -> TRUE
    [] OTHER -> OtherDefined(op, x, y)

Unary == {"neg", "not", "u64-of", "int-of-u64"}

-----------------------------------------------------------------------------
(* stmt: the transfer of each operation. *)

\* relSub: what x was computed from y by, as a bound on x - y.  Delta[v] holds
\* the differences v - base; Top is "nothing is known".
Delta(base, defs, facts) ==
  LET d[v \in DOMAIN defs] ==
        LET s == defs[v]
        IN  IF facts[v].bot THEN Bot
            ELSE IF v = base THEN Exact(0)
            ELSE IF s.op = "add" /\ d[s.x] # Top THEN AddIV(d[s.x], facts[s.y])
            ELSE IF s.op = "add" /\ d[s.y] # Top THEN AddIV(d[s.y], facts[s.x])
            ELSE IF s.op = "sub" /\ d[s.x] # Top THEN SubIV(d[s.x], facts[s.y])
            ELSE Top
  IN  d

RelSub(x, y, r) ==
  LET dx == Delta(y, def, fs)[x]
      dy == Delta(x, def, fs)[y]
      viaX == IF dx.bot \/ dx = Top THEN r ELSE MeetIV(r, dx)
  IN  IF r.bot \/ (Finite(r) /\ r.lo = r.hi) THEN r
      ELSE IF dy.bot \/ dy = Top THEN viaX ELSE MeetIV(viaX, NegIV(dy))

Transfer(op, x, y) ==
  LET a == fs[x]
      b == fs[y]
  IN  CASE op = "add" -> AddIV(a, b)
        [] op = "sub" -> RelSub(x, y, SubIV(a, b))
        [] op = "mul" -> MulIV(a, b)
        [] op = "neg" -> NegIV(a)
        [] op = "div" -> DivIV(a, b)
        [] op = "rem" -> RemIV(a, b)
        [] op = "mod" -> ModZ(a, b)
        [] OTHER -> OtherTransfer(op, a, b)

-----------------------------------------------------------------------------
(* back: a value's fact meets z on this arm, and so does what it was computed *)
(* from, by the operation's inverse, to a depth of 3.  What is overwritten is *)
(* saved, oldest first.                                                       *)

\* Facts under a guard, and what was overwritten on the way to them.
States == [facts : Seq(Iv), saved : Seq([v : Nat, f : Iv])]

\* The operands of a definition that are narrowed by its inverse, and what to:
\* a product's by a literal, or both at once if it is a square.
Narrowed(d) ==
  CASE d.op \in {"add", "sub"} -> {1, 2}
    [] d.op = "neg" -> {1}
    [] d.op = "mul" /\ d.x = d.y -> {1}
    [] d.op = "mul" /\ d.x # d.y -> {i \in {1, 2} : def[IF i = 1 THEN d.y ELSE d.x].op = "const"}
    [] OTHER -> {}

Inverse(d, m, i, facts) ==
  CASE d.op = "add" -> SubIV(m, facts[IF i = 1 THEN d.y ELSE d.x])
    [] d.op = "sub" -> IF i = 1 THEN AddIV(m, facts[d.y]) ELSE SubIV(facts[d.x], m)
    [] d.op = "neg" -> NegIV(m)
    [] d.op = "mul" /\ d.x = d.y -> InvSquare(m)
    [] d.op = "mul" /\ d.x # d.y -> InvMulConst(m, def[IF i = 1 THEN d.y ELSE d.x].x)

\* One level of it: inner is the next one.  The second operand's inverse reads
\* the first one's fact as inner left it.
Level(inner) ==
  [v \in Values |-> [z \in Iv |-> [st \in States |->
     LET cur == st.facts[v]
         m == MeetIV(cur, z)
         d == def[v]
         operand == [i \in {1, 2} |-> [s \in States |->
           IF i \in Narrowed(d)
           THEN inner[IF i = 1 THEN d.x ELSE d.y][Inverse(d, m, i, s.facts)][s] ELSE s]]
     IN  IF m = cur THEN st
         ELSE operand[2][operand[1][[facts |-> [st.facts EXCEPT ![v] = m],
                                     saved |-> Append(st.saved, [v |-> v, f |-> cur])]]]]]]

BelowDepth == [v \in Values |-> [z \in Iv |-> [st \in States |-> st]]]

\* The depths 0 to 3.
Back == LET level[n \in 0 .. 4] == IF n = 0 THEN BelowDepth ELSE Level(level[n - 1]) IN level[4]

\* cond: a comparison x rel y that holds on the arm narrows both operands.
Cond(g, st) ==
  LET s1 == Back[g.x][NarrowIV(st.facts[g.x], g.rel, st.facts[g.y])][st]
  IN  Back[g.y][NarrowIV(s1.facts[g.y], Flip(g.rel), s1.facts[g.x])][s1]

\* Mutant: the saved facts are put back oldest first.
Restore_OldestFirst(saved, facts) ==
  LET put[n \in 0 .. Len(saved)] ==
        IF n = 0 THEN facts ELSE [put[n - 1] EXCEPT ![saved[n].v] = saved[n].f]
  IN  put[Len(saved)]

\* restore: undo the saved facts, newest first.
Restore(saved, facts) ==
  LET undo[n \in 0 .. Len(saved)] ==
        LET s == saved[Len(saved) - n + 1]
        IN  IF n = 0 THEN facts ELSE [undo[n - 1] EXCEPT ![s.v] = s.f]
  IN  undo[Len(saved)]

-----------------------------------------------------------------------------
Init ==
  /\ def = [i \in 1 .. NParams |-> [op |-> "param", x |-> 0, y |-> 0]]
  /\ fs \in [1 .. NParams -> Inputs]
  /\ val \in {f \in [1 .. NParams -> Args] : \A i \in 1 .. NParams : In(f[i], fs[i])}
  /\ arms = <<>>

Define(d, f, z) ==
  /\ def' = Append(def, d)
  /\ fs' = Append(fs, f)
  /\ val' = Append(val, z)

Const(k) ==
  /\ Len(def) < MaxValues
  /\ Define([op |-> "const", x |-> k, y |-> 0], Exact(k), k)
  /\ UNCHANGED arms

Stmt(op, x, y) ==
  /\ Len(def) < MaxValues
  /\ op \in Unary => y = x
  /\ Defined(op, val[x], val[y])
  /\ Define([op |-> op, x |-> x, y |-> y], Transfer(op, x, y), Semantics(op, val[x], val[y]))
  /\ UNCHANGED arms

\* The comparisons of the arms the execution is in.
Atoms == IF arms = <<>> THEN 0 ELSE arms[Len(arms)].atoms

\* The execution takes an arm on which every comparison of gs holds: one
\* comparison or its negation, both conjuncts of an `and`, or both negations of
\* an `or` that fails.  `before` is history: the facts outside the arm.
Enter(gs) ==
  /\ Len(def) <= MaxValues /\ Atoms + Len(gs) <= MaxAtoms
  /\ \A i \in DOMAIN gs : Holds(val[gs[i].x], gs[i].rel, val[gs[i].y])
  /\ LET s1 == Cond(gs[1], [facts |-> fs, saved |-> <<>>])
         s2 == IF Len(gs) = 2 THEN Cond(gs[2], s1) ELSE s1
     IN  /\ fs' = s2.facts
         /\ arms' = Append(arms, [saved |-> s2.saved, before |-> fs, atoms |-> Atoms + Len(gs)])
  /\ UNCHANGED <<def, val>>

\* The arm yields y; the `if` result joins it with what the other arm yields,
\* or is y's fact alone when the other arm is dead.
Leave(y, other) ==
  /\ arms # <<>>
  /\ LET arm == arms[Len(arms)]
         n == Len(arm.before)
         outer == SubSeq(Restore(arm.saved, fs), 1, n)
     IN  /\ def' = Append(SubSeq(def, 1, n), [op |-> "if", x |-> 0, y |-> 0])
         /\ fs' = Append(outer, JoinIV(fs[y], other))
         /\ val' = Append(SubSeq(val, 1, n), val[y])
         /\ arms' = SubSeq(arms, 1, Len(arms) - 1)

Comparisons == {g \in [x : Values, rel : Rels, y : Values] : g.x # g.y}

Next ==
  \/ \E k \in Literals : Const(k)
  \/ \E op \in Ops, x, y \in Values : Stmt(op, x, y)
  \/ \E g \in Comparisons : Enter(<<g>>)
  \/ \E g, h \in {c \in Comparisons : c.rel \in PairRels} : Enter(<<g, h>>)
  \/ \E y \in Values, other \in Inputs \cup {Bot} : Leave(y, other)

Spec == Init /\ [][Next]_vars

-----------------------------------------------------------------------------
(* Properties. *)

TypeOK ==
  /\ Len(fs) = Len(def) /\ Len(val) = Len(def)
  /\ \A v \in Values : fs[v] \in Iv /\ val[v] \in Int
  /\ Atoms <= MaxAtoms

\* Every fact holds of the value it is about, in the arm the execution is in:
\* what every pass that reads the facts (legality, representation) relies on.
\* It fails if a transfer, an inverse in `back`, a narrowing or a restored fact
\* excludes a value that occurs; an arm found dead is one no execution takes.
Sound == \A v \in Values : In(val[v], fs[v])

\* No fact is a second spelling of its set: a loop's fixpoint test compares
\* facts as values (norm's comment in ir/interval.go).
CanonicalFacts == TypeOK /\ \A v \in Values : Canonical(fs[v])

\* Leaving an arm gives every value defined outside it exactly the fact it had
\* before, however many times the arm's guards narrowed it.
ArmRestored ==
  [][Len(arms') < Len(arms) =>
       \A v \in DOMAIN arms[Len(arms)].before : fs'[v] = arms[Len(arms)].before[v]]_vars

=============================================================================
