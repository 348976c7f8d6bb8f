----------------------------- MODULE MCLocalState -----------------------------
(* Programs with local state: a cell x and a table b written in program order, *)
(* around one statement of every form, whose holes read and write both.        *)
EXTENDS LocalState

Cst(n) == T("int", <<n>>, <<>>)
N(x) == NameOf(User(x))
Sum2(s, t) == T("prim", <<"plus">>, <<s, t>>)
Lt(s, t) == T("prim", <<"less">>, <<s, t>>)
Say(t) == T("prim", <<"say">>, <<t>>)
Get(x, i) == T("index", <<>>, <<N(x), i>>)
Assign(x, e) == T("write", <<>>, <<N(x), e>>)
Element(x, i, e) == Assign(x, T("store", <<>>, <<N(x), i, e>>))
InTurn(s, t) == LetIn(<<User("u")>>, <<s>>, t)
When(c, s, t) == T("if", <<>>, <<c, s, t>>)
CellOf(x, e, t) == T("cell", <<User(x)>>, <<e, t>>)
Lend(f, ts) == T("lend", <<f>>, ts)
Host(f, ts) == T("host", <<f>>, ts)
OutCell == T("out", <<>>, <<>>)
For(i, n, s) == T("loop", <<User(i)>>, <<Cst(0), When(Lt(N(i), Cst(n)), InTurn(s, T("again", <<>>, <<Sum2(N(i), Cst(1))>>)), Unit)>>)

TableB == T("table", <<10, 20, 30>>, <<>>)
Bump == Assign("x", Sum2(N("x"), Cst(1)))
Poke == Element("b", Cst(0), Sum2(Get("b", Cst(1)), N("x")))

-----------------------------------------------------------------------------
(* Expressions of one number, some of which write.                           *)

Still == {N("x"), Get("b", Cst(0)), Sum2(N("x"), Get("b", N("x")))}
Moving ==
  {InTurn(Bump, N("x")), InTurn(Poke, Get("b", Cst(0))), Say(N("x")),
   When(Lt(N("x"), Cst(1)), InTurn(Bump, Cst(1)), Cst(2)),
   When(Lt(InTurn(Bump, N("x")), Cst(2)), N("x"), InTurn(Poke, Cst(2))),
   CellOf("y", N("x"), InTurn(Assign("y", Sum2(N("y"), Cst(2))), InTurn(Assign("x", N("y")), N("y")))),
   T("loop", <<User("i")>>,
     <<N("x"), When(Lt(N("i"), Cst(2)), InTurn(Element("b", N("i"), N("i")), T("again", <<>>, <<Sum2(N("i"), Cst(1))>>)), N("i"))>>),
   Host("scan", <<Sum2(N("x"), Cst(1)), N("x")>>),
   Elim(<<User("o"), User("r")>>, Host("scan", <<Cst(1), OutCell>>), Sum2(N("o"), N("r")))}
\* Calls that lend b, with a result.
Lent == {Elim(<<User("m"), User("w")>>, Lend("read", <<N("b"), N("x")>>), InTurn(Bump, Sum2(N("m"), N("w"))))}
Holes == Still \cup Moving \cup Lent

\* Statements with one hole and with two.
One(h) ==
  {Assign("x", h), Element("b", h, Cst(3)), Element("b", Cst(1), h), LetIn(<<User("c")>>, <<h>>, Element("b", Cst(1), N("c"))),
   When(Lt(h, Cst(2)), Bump, Unit), When(Lt(h, Cst(2)), Poke, Element("b", Cst(1), h)), When(Lt(h, Cst(2)), InTurn(Bump, Poke), Unit),
   For("i", 2, InTurn(When(Lt(N("x"), h), Poke, Unit), Bump)), For("i", 2, When(Lt(h, N("i")), InTurn(Bump, Poke), Unit)),
   For("i", 2, InTurn(Assign("x", h), Element("b", N("i"), N("x")))), For("j", 2, Assign("x", Sum2(N("x"), h))),
   Lend("def", <<N("b"), h>>), T("lend", <<"read">>, <<N("b"), h>>),
   Elim(<<User("o"), User("r"), User("z")>>, Host("scan2", <<h, N("x"), OutCell>>), Assign("x", Sum2(N("o"), N("z")))),
   Elim(<<User("c"), User("d")>>, When(Lt(N("x"), Cst(2)), InTurn(Bump, Tuple(<<h, Cst(2)>>)), Tuple(<<Cst(3), N("x")>>)),
        Assign("x", Sum2(N("x"), Sum2(N("c"), N("d"))))),
   Elim(<<User("c"), User("d")>>, When(Lt(h, Cst(2)), Tuple(<<N("x"), Cst(2)>>), Tuple(<<Cst(3), N("x")>>)), Assign("x", Sum2(N("c"), N("d"))))}
Two(g, h) ==
  {Assign("x", Sum2(g, h)), Element("b", g, h),
   Elim(<<User("c"), User("d")>>, Tuple(<<g, h>>), Assign("x", Sum2(N("c"), Sum2(N("d"), N("x"))))),
   LetIn(<<User("c"), User("d")>>, <<g, h>>, InTurn(Assign("x", N("d")), Element("b", Cst(1), N("c")))),
   InTurn(Assign("x", g), Assign("x", Sum2(h, N("x"))))}

\* A place that would be named twice: aliases, moves, a call that lends and reads it.
Aliases ==
  {LetIn(<<User("t")>>, <<N("b")>>, InTurn(Poke, Assign("x", Get("t", Cst(0))))),
   InTurn(Poke, Lend("def", <<N("b"), N("b")>>)), Lend("read", <<N("b"), Get("b", Cst(0))>>),
   InTurn(Poke, Assign("b", N("b"))), Elim(<<User("t"), User("c")>>, Tuple(<<N("b"), Cst(1)>>), InTurn(Poke, Assign("x", Get("t", Cst(0)))))}

\* A concurrent assignment of two tables, then a write of each; and the two that
\* leave two names for one table.
Moved(n) == <<"#w", "", n>>
Swap(s, t) == LetIn(<<Moved(1), Moved(2)>>, <<N("b"), N("d")>>, InTurn(s, t))
Swaps ==
  {CellOf("d", TableB, InTurn(Swap(Assign("b", NameOf(Moved(2))), s), InTurn(Element("d", Cst(1), N("x")), InTurn(Poke, Assign("x", Get("d", Cst(0))))))) :
     s \in {Assign("d", NameOf(Moved(1))), Assign("b", NameOf(Moved(1))), Unit}}

\* A scope whose table has the name of a later binding.
Rebound == Assign("x", Sum2(CellOf("t", TableB, InTurn(Element("t", Cst(0), Cst(4)), Get("t", Cst(0)))),
                            LetIn(<<User("t")>>, <<Cst(5)>>, InTurn(Assign("x", Sum2(N("x"), N("t"))), N("t")))))

-----------------------------------------------------------------------------
(* Programs: around a statement, and callees whose result is a unit, or not. *)

Parameter == User("p")
Callee(t) == [param |-> Parameter, rest |-> <<User("k")>>, body |-> T("borrow", <<Parameter>>, <<NameOf(Parameter), t>>)]
UnitCallee == Callee(InTurn(Element("p", Cst(0), N("k")), Element("p", Cst(1), Get("p", Cst(0)))))
NumberCallee == Callee(InTurn(For("i", 2, Element("p", N("i"), Sum2(Get("p", N("i")), N("k")))), Get("p", Cst(1))))

Around(s) == CellOf("x", N("a"), CellOf("b", TableB, InTurn(s, Tuple(<<N("x"), Get("b", Cst(0)), Get("b", Cst(1))>>))))
Yields(s) == CellOf("x", N("a"), CellOf("b", TableB, InTurn(s, N("b"))))
Prg(t, d) == [def |-> d, main |-> t]
Simple1 == One(N("x"))
Nested1 == {When(Lt(N("x"), Cst(2)), s, t) : s, t \in Simple1} \cup {InTurn(s, t) : s, t \in Simple1}
             \cup {For("k", 2, s) : s \in UNION {One(h) : h \in Holes}}
Statements == UNION {One(h) : h \in Holes} \cup UNION {Two(g, h) : g, h \in Holes}
                \cup Nested1 \cup Aliases \cup Swaps \cup {Rebound}
LocalFamily ==
  {Prg(Around(s), UnitCallee) : s \in Statements}
  \cup {Prg(Yields(s), UnitCallee) : s \in Aliases \cup UNION {One(h) : h \in Still}}
  \cup {Prg(Around(LetIn(<<User("c")>>, <<Lend("def", <<N("b"), h>>)>>, Assign("x", Sum2(N("x"), N("c"))))), NumberCallee) : h \in Holes}
  \cup {Prg(Around(Elim(<<User("c")>>, Lend("def", <<N("b"), h>>), Assign("x", Sum2(N("x"), N("c"))))), NumberCallee) : h \in Holes}

\* Products taken apart, where an arm of the operand writes.
Eliminations == {Prg(Around(s), UnitCallee) : s \in UNION {One(h) : h \in Still}}
=============================================================================
