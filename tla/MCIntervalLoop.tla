--------------------------- MODULE MCIntervalLoop ---------------------------
(* Instances of IntervalLoop for TLC: families of small loops. *)
EXTENDS IntervalLoop

LeastWord == -16

Lit(n) == [p |-> 0, k |-> n]
Var(i) == [p |-> i, k |-> 0]
Expr(o, a, b) == [op |-> o, x |-> a, y |-> b]
Id(a) == Expr("id", a, a)

p == Var(1)
q == Var(2)

Guard(e, rel, o) == [e |-> e, rel |-> rel, o |-> o]
Continue(a, b) == [kind |-> "continue", args |-> <<a, b>>]
Break == [kind |-> "break", args |-> <<Id(p), Id(q)>>]
Loop(gs, xs, i) == [guards |-> gs, exits |-> xs, init |-> i, budget |-> LoopBudget]

-----------------------------------------------------------------------------
(* One guard: while g, (p, q) := (a, b). *)

Guards1 == {Guard(Id(p), "lt", Lit(6)), Guard(Id(p), "ge", Lit(1)), Guard(Id(p), "ne", Lit(0)),
            Guard(Id(p), "lt", q), Guard(Id(q), "gt", Lit(0)),
            Guard(Expr("mul", p, p), "lt", Lit(9)), Guard(Expr("sub", q, p), "gt", Lit(1)),
            Guard(Expr("mul", p, Lit(2)), "le", q)}

StepsOfP == {Expr("add", p, Lit(1)), Expr("sub", p, Lit(2)), Expr("mul", p, Lit(2)),
             Expr("div", p, Lit(2)), Expr("add", p, q), Id(q), Id(Lit(0))}
StepsOfQ == {Id(q), Expr("sub", q, Lit(1)), Expr("rem", p, q), Expr("add", q, p), Expr("sub", q, p)}

Inits1 == {<<Exact(0), RangeE(0, 4)>>, <<RangeE(1, 5), Exact(3)>>, <<Top, AtLeast(1)>>,
           <<AtLeast(0), RangeE(-2, 2)>>}

While == {Loop(<<g>>, <<Continue(a, b), Break>>, i) :
            g \in Guards1, a \in StepsOfP, b \in StepsOfQ, i \in Inits1}

-----------------------------------------------------------------------------
(* Two guards and two continues: while g, if h then (a, b) else (c, d). *)

Guards2 == {<<Guard(Id(p), "le", Lit(0)), Guard(Id(q), "gt", Lit(0))>>,
            <<Guard(Id(p), "ge", Lit(4)), Guard(Id(q), "lt", Lit(4))>>,
            <<Guard(Id(p), "eq", q), Guard(Id(p), "lt", q)>>}
PairsA == {<<Id(p), Expr("sub", q, Lit(1))>>, <<Expr("sub", p, Lit(1)), Id(Lit(3))>>,
           <<Expr("add", p, Lit(1)), Expr("add", q, Lit(1))>>, <<Expr("add", p, Lit(1)), Id(q)>>}
PairsB == PairsA \cup {<<Expr("sub", p, q), Id(q)>>, <<Id(p), Expr("sub", q, p)>>,
                       <<Expr("sub", p, Lit(1)), Expr("add", q, q)>>}
Inits2 == {<<Exact(3), Exact(2)>>, <<RangeE(0, 3), RangeE(1, 3)>>, <<AtLeast(0), AtLeast(0)>>}

Branching == {Loop(gs, <<Break, Continue(a[1], a[2]), Continue(b[1], b[2])>>, i) :
                gs \in Guards2, a \in PairsA, b \in PairsB, i \in Inits2}

\* The same with a budget that ends before most of them converge.
Short == {[l EXCEPT !.budget = 2] : l \in Branching}

Loops == While \cup Branching \cup Short
=============================================================================
