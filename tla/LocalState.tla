----------------------------- MODULE LocalState -----------------------------
(***************************************************************************)
(* The state-passing translation of cells and places (core/cell.go,        *)
(* core/place.go, core/outcell.go), and the rules that decide which uses   *)
(* of a place it accepts.                                                  *)
(*                                                                         *)
(* A term that mentions a cell in scope becomes one whose value is the     *)
(* flat tuple of its value and every cell's value after it: a write        *)
(* rebinds its cell, an if joins its branches' tuples, a loop carries what *)
(* it writes.  The translation reads and extends one record tr: the fresh  *)
(* names made, the places and the value names it has met, and whether it   *)
(* has refused.                                                            *)
(***************************************************************************)
EXTENDS LocalTerms

CONSTANTS LocalPrograms,  \* [def, main]: a borrowing definition [param, rest, body], and a term
          Inputs          \* the values of the program's parameter

VARIABLES source, image, ends

localVars == <<source, image, ends>>

-----------------------------------------------------------------------------
(* What a term mentions.                                                    *)

RECURSIVE Somewhere(_, _), MentionsName(_, _), Writes(_, _)

\* A term of one of these forms, anywhere.
Somewhere(t, ops) == t.op \in ops \/ \E i \in DOMAIN t.kids : Somewhere(t.kids[i], ops)
MentionsName(t, x) == IsNamed(t, x) \/ \E i \in DOMAIN t.kids : MentionsName(t.kids[i], x)

Scopes == {"cell", "place", "borrow"}

\* An `again` of the loop around: not one under another loop.
RECURSIVE OwnAgain(_)
OwnAgain(t) == t.op = "again" \/ (t.op # "loop" /\ \E i \in DOMAIN t.kids : OwnAgain(t.kids[i]))

\* A write of x: its own, a call that lends it, or a host's.
WritesHere(t, x) ==
  \/ t.op \in {"write", "lend"} /\ IsNamed(t.kids[1], x)
  \/ t.op = "host" /\ \E i \in CellsOf(t.ns[1]) \cap DOMAIN t.kids : IsNamed(t.kids[i], x)
\* Mutant: what the body of a scope or of another loop writes is not seen.
RECURSIVE Writes_Shallow(_, _)
Writes_Shallow(t, x) == WritesHere(t, x) \/ \E i \in DOMAIN ArgsOf(t) : Writes_Shallow(ArgsOf(t)[i], x)
Writes(t, x) == WritesHere(t, x) \/ \E i \in DOMAIN t.kids : Writes(t.kids[i], x)

\* In: the name a cell is threaded under; UserOf: the program's name of one threaded as x.
ThreadedAs(u, tr) == IF u \in tr.places THEN Version(u) ELSE u
UserOf(x, tr) == IF x[1] = "#v" /\ User(x[2]) \in tr.places THEN User(x[2]) ELSE x
Cells(cx, tr) == {UserOf(cx.xs[i], tr) : i \in DOMAIN cx.xs}

MentionsCells(t, cx, tr) == \E x \in Cells(cx, tr) : MentionsName(t, x)
MentionsState(t, cx, tr) ==
  MentionsCells(t, cx, tr) \/ Somewhere(t, Scopes \cup {"host"}) \/ (cx.inLoop /\ OwnAgain(t))

\* readsOnly: an argument that leaves the state as it was.
ReadsOnly(t, cx, tr) ==
  /\ ~ Somewhere(t, Scopes \cup {"host", "ref", "out"}) /\ ~ (cx.inLoop /\ OwnAgain(t))
  /\ \A x \in Cells(cx, tr) : ~ Writes(t, x)

RECURSIVE Rename(_, _)
Rename(t, tr) == CASE t.op = "name" -> NameOf(ThreadedAs(t.ns[1], tr))
                   [] OTHER -> [t EXCEPT !.kids = [i \in DOMAIN t.kids |-> Rename(t.kids[i], tr)]]

\* How many components a call that lends has, after the buffers: none for a unit.
RECURSIVE UnitBody(_, _), UnitExits(_, _)
ResultsOf(f, def) == IF f = "read" THEN 2 ELSE IF UnitBody(BodyOf(def.body), def) THEN 0 ELSE 1
UnitBody(t, def) ==
  \/ t = Unit \/ t.op = "write"
  \/ t.op = "if" /\ UnitBody(t.kids[2], def) /\ UnitBody(t.kids[3], def)
  \/ t.op = "loop" /\ UnitExits(BodyOf(t), def)
  \/ t.op \in {"let", "elim"} /\ UnitBody(BodyOf(t), def)
  \/ t.op = "lend" /\ ResultsOf(t.ns[1], def) = 0
UnitExits(t, def) ==
  CASE t.op = "again" -> TRUE
    [] t.op = "if" -> UnitExits(t.kids[2], def) /\ UnitExits(t.kids[3], def)
    [] t.op \in {"let", "elim"} -> UnitExits(BodyOf(t), def)
    [] OTHER -> UnitBody(t, def)

-----------------------------------------------------------------------------
(* Rules R0 to R4 (checkPlace): every occurrence of the place b in its      *)
(* scope's body; tail says that the term's value is the scope's.            *)

RECURSIVE Hides(_, _)
\* noShadow: a binder of the name of a cell in its scope.
Hides(t, x) == (t.op # "name" /\ Binds(t) /\ \E i \in DOMAIN t.ns : t.ns[i] = x) \/ \E i \in DOMAIN t.kids : Hides(t.kids[i], x)

\* Mutant: a binding moves a place whatever its name is.
IsMove_Any(x) == TRUE
IsMove(x) == x[1] = "#w"
\* The place an index chain is headed by.
RECURSIVE IndexHead(_)
IndexHead(t) == IF t.op = "index" THEN IndexHead(t.kids[1]) ELSE t

\* A concurrent assignment writes what it moves.
RECURSIVE MovedBack(_, _)
MovedBack(t, b) == \/ t.op = "write" /\ IsNamed(t.kids[1], b)
                   \/ t.op = "let" /\ (MovedBack(t.kids[1], b) \/ MovedBack(BodyOf(t), b))

RECURSIVE PlaceOk(_, _, _, _)
AllOk(ts, b, borrowed) == \A i \in DOMAIN ts : PlaceOk(ts[i], b, FALSE, borrowed)
\* R2: once among the arguments of a call.
CallOk(t, b, borrowed) ==
  /\ Len(SelectSeq(t.kids, LAMBDA a : IsNamed(a, b))) <= 1
  /\ AllOk(SelectSeq(t.kids, LAMBDA a : ~ IsNamed(a, b)), b, borrowed)

ElementsOk(t, b, borrowed) == \* the indexes before the last, then the last and the value
  LET RECURSIVE chain(_)
      chain(u) == u.op # "index" \/ (PlaceOk(u.kids[2], b, FALSE, borrowed) /\ chain(u.kids[1]))
  IN chain(t.kids[1]) /\ AllOk(Tail(t.kids), b, borrowed)

PlaceOk(t, b, tail, borrowed) ==
  CASE t.op = "name" -> IsNamed(t, b) => tail /\ ~ borrowed
    [] t.op = "tuple" -> \A i \in DOMAIN t.kids : IF IsNamed(t.kids[i], b) THEN tail /\ ~ borrowed
                                                  ELSE PlaceOk(t.kids[i], b, FALSE, borrowed)
    [] t.op = "write" /\ IsNamed(t.kids[1], b) ->
         \/ IsElementWrite(t) /\ IsNamed(IndexHead(t.kids[2].kids[1]), b) /\ ElementsOk(t.kids[2], b, borrowed)
         \/ t.kids[2].op = "name" /\ IsMove(t.kids[2].ns[1])
    [] t.op = "write" /\ IsNamed(t.kids[2], b) -> FALSE
    [] t.op = "store" /\ IsNamed(IndexHead(t.kids[1]), b) -> FALSE
    [] t.op = "again" -> (\A i \in DOMAIN t.kids : ~ IsNamed(t.kids[i], b)) /\ AllOk(t.kids, b, borrowed)
    [] t.op = "index" /\ IsNamed(t.kids[1], b) -> PlaceOk(t.kids[2], b, FALSE, borrowed)
    [] t.op \in {"adopt", "cell", "place", "elim", "loop"} ->
         AllOk(ArgsOf(t), b, borrowed) /\ PlaceOk(BodyOf(t), b, tail, borrowed)
    [] t.op = "if" -> /\ PlaceOk(t.kids[1], b, FALSE, borrowed)
                      /\ PlaceOk(t.kids[2], b, tail, borrowed) /\ PlaceOk(t.kids[3], b, tail, borrowed)
    [] t.op = "let" ->
         /\ \A i \in DOMAIN ArgsOf(t) : IF IsNamed(ArgsOf(t)[i], b) THEN IsMove(t.ns[1]) /\ MovedBack(BodyOf(t), b)
                                        ELSE PlaceOk(ArgsOf(t)[i], b, FALSE, borrowed)
         /\ PlaceOk(BodyOf(t), b, tail, borrowed)
    [] OTHER -> CallOk(t, b, borrowed)

-----------------------------------------------------------------------------
(* The translation.  cx is [xs, inLoop, carried, def]: the cells in scope as *)
(* they are threaded, outermost first, whether an `again` is of a loop that  *)
(* carries cells, which those are, and the callee.  tr is described above.   *)

Done(t, tr) == [t |-> t, tr |-> tr]
Refused(tr) == Done(Unit, [tr EXCEPT !.refused = TRUE])
Start == [n |-> 0, places |-> {}, locals |-> {}, refused |-> FALSE]
\* k more names are made.
Making(tr, k) == [tr EXCEPT !.n = @ + k]
NewName(tr, k) == Made(tr.n + k)

\* tup and tupOf: the flat tuple of a value and the state, with x's slot holding t.
Tup(v, xs) == IF xs = <<>> THEN v ELSE Tuple(<<v>> \o Names(xs))
TupWith(v, xs, x, t) == Tuple(<<v>> \o [i \in DOMAIN xs |-> IF xs[i] = x THEN t ELSE NameOf(xs[i])])
\* bind: take a state tuple apart; with no cell in scope it is a plain value.
BindState(xs, t, x, body) == IF xs = <<>> THEN LetIn(<<x>>, <<t>>, body) ELSE Elim(<<x>> \o xs, t, body)
Wrap(steps, xs, out) == FoldRight(LAMBDA s, body : BindState(xs, s.t, s.x, body), steps, out)

RECURSIVE St(_, _, _)

\* thread: each term's value in order. Those after the last that writes stay where they stand.
Thread(ts, cx, tr) ==
  LET writing == {i \in DOMAIN ts : ~ ReadsOnly(ts[i], cx, tr)}
  IN FoldLeft(LAMBDA th, i :
        IF \A j \in writing : j < i THEN [th EXCEPT !.vs = Append(@, Rename(ts[i], th.tr))]
        ELSE LET r == St(ts[i], cx, th.tr)
                 s == NewName(r.tr, 1)
             IN [vs |-> Append(th.vs, NameOf(s)), steps |-> Append(th.steps, [t |-> r.t, x |-> s]), tr |-> Making(r.tr, 1)],
        [vs |-> <<>>, steps |-> <<>>, tr |-> tr], [i \in DOMAIN ts |-> i])

\* An application whose arguments are threaded, its value paired with the state.
StCall(t, ts, cx, tr) ==
  LET th == Thread(ts, cx, tr)
      out == [t EXCEPT !.kids = SubSeq(t.kids, 1, Len(t.kids) - Len(ts)) \o th.vs]
  IN Done(Wrap(th.steps, cx.xs, Tup(out, cx.xs)), th.tr)

\* The jump back carries the loop's cells.
StAgain(t, cx, tr) ==
  LET th == Thread(t.kids, cx, tr)
  IN Done(Wrap(th.steps, cx.xs, T("again", <<>>, Names(cx.carried) \o th.vs)), th.tr)

Inner(cx, xs) == [cx EXCEPT !.xs = xs, !.inLoop = FALSE, !.carried = <<>>]

\* A scope: its value from the state before it, its body with the cell pushed,
\* the cell projected off at its end.
StScope(t, cx, tr) ==
  LET y == t.ns[1]
      e == St(t.kids[1], cx, tr)
      tr1 == IF t.op = "place" THEN [e.tr EXCEPT !.places = @ \cup {y}] ELSE e.tr
      iy == ThreadedAs(y, tr1)
      b == St(BodyOf(t), Inner(cx, Append(cx.xs, iy)), tr1)
      r == NewName(b.tr, 1)
      s == NewName(b.tr, 2)
      project == Elim(<<r>> \o cx.xs \o <<iy>>, b.t, Tup(NameOf(r), cx.xs))
  IN IF Hides(BodyOf(t), y) \/ (t.op = "place" /\ ~ PlaceOk(BodyOf(t), y, TRUE, FALSE)) THEN Refused(tr)
     ELSE Done(BindState(cx.xs, e.t, s, LetIn(<<iy>>, <<NameOf(s)>>, project)), Making(b.tr, 2))

\* A borrow scope: the places' last versions, then the body's value unless it is a unit.
StBorrow(t, cx, tr) ==
  LET tr1 == [tr EXCEPT !.places = @ \cup {t.ns[i] : i \in DOMAIN t.ns}]
      ips == [i \in DOMAIN t.ns |-> ThreadedAs(t.ns[i], tr1)]
      b == St(BodyOf(t), Inner(cx, cx.xs \o ips), tr1)
      r == NewName(b.tr, 1)
      vs == Names(ips) \o IF UnitBody(BodyOf(t), cx.def) THEN <<>> ELSE <<NameOf(r)>>
      value == IF Len(vs) = 1 THEN vs[1] ELSE Tuple(vs)
  IN IF \E i \in DOMAIN t.ns : Hides(BodyOf(t), t.ns[i]) \/ ~ PlaceOk(BodyOf(t), t.ns[i], TRUE, TRUE) THEN Refused(tr)
     ELSE Done(LetIn(ips, ArgsOf(t), Elim(<<r>> \o cx.xs \o ips, b.t, Tup(value, cx.xs))), Making(b.tr, 1))

\* A write rebinds its cell; an element's puts the store in its place's slot.
StWrite(t, cx, tr) ==
  LET x == t.kids[1].ns[1]
      e == St(t.kids[2], cx, tr)
      s == IF x \in e.tr.places THEN MadeVersion(e.tr.n + 1) ELSE NewName(e.tr, 1)
      th == Thread(t.kids[2].kids, cx, tr)
  IN IF x \in tr.places /\ IsElementWrite(t)
     THEN Done(Wrap(th.steps, cx.xs, TupWith(Unit, cx.xs, ThreadedAs(x, th.tr), [t.kids[2] EXCEPT !.kids = th.vs])), th.tr)
     ELSE Done(BindState(cx.xs, e.t, s, TupWith(Unit, cx.xs, ThreadedAs(x, e.tr), NameOf(s))), Making(e.tr, 1))

\* phi: an if whose arms are statements that write one cell between them.
Phi(a, b, cx, tr) ==
  LET written == {i \in DOMAIN cx.xs : Writes(a, UserOf(cx.xs[i], tr)) \/ Writes(b, UserOf(cx.xs[i], tr))}
  IN IF OwnAgain(a) \/ OwnAgain(b) \/ ~ UnitBody(a, cx.def) \/ ~ UnitBody(b, cx.def) \/ Len(SetToSeq(written)) # 1
     THEN {} ELSE {cx.xs[i] : i \in written}

StIf(t, cx, tr) ==
  LET a == St(t.kids[2], cx, tr)
      b == St(t.kids[3], cx, a.tr)
      joined == Phi(t.kids[2], t.kids[3], cx, b.tr)
      x == CHOOSE x \in joined : TRUE
      s == IF UserOf(x, b.tr) \in b.tr.places THEN MadeVersion(b.tr.n + 1) ELSE NewName(b.tr, 1)
      arm(u, k) == Elim(<<NewName(b.tr, k)>> \o cx.xs, u, NameOf(x))
      join(c) == IF joined = {} THEN T("if", <<>>, <<c, a.t, b.t>>)
                 ELSE LetIn(<<s>>, <<T("if", <<>>, <<c, arm(a.t, 2), arm(b.t, 3)>>)>>, TupWith(Unit, cx.xs, x, NameOf(s)))
      c == St(t.kids[1], cx, Making(b.tr, 3))
      k == NewName(c.tr, 1)
  IN IF ~ MentionsState(t.kids[1], cx, b.tr) THEN Done(join(t.kids[1]), Making(b.tr, 3))
     ELSE Done(BindState(cx.xs, c.t, k, join(NameOf(k))), Making(c.tr, 1))

\* A loop carries what it writes, first; what it only reads is free in it.
StLoop(t, cx, tr) ==
  LET carried == SelectSeq(cx.xs, LAMBDA x : Writes(BodyOf(t), UserOf(x, tr)))
      b == St(BodyOf(t), [cx EXCEPT !.inLoop = TRUE, !.carried = carried], tr)
      th == Thread(ArgsOf(t), cx, b.tr)
  IN Done(Wrap(th.steps, cx.xs, T("loop", carried \o t.ns, Names(carried) \o th.vs \o <<b.t>>)), th.tr)

\* A region's body runs once, now.
StAdopt(t, cx, tr) ==
  LET b == St(BodyOf(t), Inner(cx, cx.xs), tr)
      th == Thread(ArgsOf(t), cx, b.tr)
  IN Done(Wrap(th.steps, cx.xs, [t EXCEPT !.kids = th.vs \o <<b.t>>]), th.tr)

StLet(t, cx, tr) ==
  LET b == St(BodyOf(t), cx, [tr EXCEPT !.locals = @ \cup {t.ns[i] : i \in DOMAIN t.ns}])
      e == St(t.kids[1], cx, b.tr)
      th == Thread(ArgsOf(t), cx, b.tr)
  IN IF Len(t.ns) = 1 THEN Done(BindState(cx.xs, e.t, t.ns[1], b.t), e.tr)
     ELSE Done(Wrap(th.steps, cx.xs, LetIn(t.ns, th.vs, b.t)), th.tr)

-----------------------------------------------------------------------------
(* Calls that lend a place and calls of a host that writes a cell: as a     *)
(* value, or eliminated by a continuation (k, the elim around the call).    *)

StCont(k, cx, tr) == St(BodyOf(k), cx, [tr EXCEPT !.locals = @ \cup {k.ns[i] : i \in DOMAIN k.ns}])

LendsPlace(t, tr) == t.op = "lend" /\ t.kids[1].op = "name" /\ t.kids[1].ns[1] \in tr.places

StLendTo(call, k, cx, tr) ==
  LET body == StCont(k, cx, tr)
      th == Thread(call.kids, cx, body.tr)
      b == ThreadedAs(call.kids[1].ns[1], th.tr)
  IN IF Len(k.ns) # ResultsOf(call.ns[1], cx.def) THEN Refused(tr)
     ELSE Done(Wrap(th.steps, cx.xs, Elim(<<b>> \o k.ns, [call EXCEPT !.kids = th.vs], body.t)), th.tr)

StLend(call, cx, tr) ==
  LET th == Thread(call.kids, cx, tr)
      out == [call EXCEPT !.kids = th.vs]
      b == ThreadedAs(call.kids[1].ns[1], th.tr)
      m == ResultsOf(call.ns[1], cx.def)
      rs == [j \in 1 .. m |-> NewName(th.tr, j)]
      version == MadeVersion(th.tr.n + m + 1)
      value == IF m = 1 THEN NameOf(rs[1]) ELSE Tuple(Names(rs))
  IN IF m = 0 THEN Done(Wrap(th.steps, cx.xs, TupWith(Unit, cx.xs, b, out)), th.tr)
     ELSE Done(Wrap(th.steps, cx.xs, Elim(<<version>> \o rs, out, TupWith(value, cx.xs, b, NameOf(version)))), Making(th.tr, m + 1))

\* A cell is passed by a reference to a copy and read back; `out` is a cell for the call.
WithRefs(call, cx, tr) ==
  [i \in DOMAIN call.kids |-> IF i \in CellsOf(call.ns[1]) /\ call.kids[i].op = "name"
                              THEN T("ref", <<>>, <<call.kids[i]>>) ELSE call.kids[i]]
CellsPassed(call, cx, tr) ==
  \A i \in CellsOf(call.ns[1]) : call.kids[i].op = "out" \/ (call.kids[i].op = "name" /\ call.kids[i].ns[1] \in Cells(cx, tr))
Positions(call, op) == SelectSeq([i \in DOMAIN call.kids |-> i],
                                 LAMBDA i : i \in CellsOf(call.ns[1]) /\ call.kids[i].op = op)
Held(vs, at) == [j \in DOMAIN at |-> T("deref", <<>>, <<vs[at[j]]>>)]
After(names, vals, body) == IF names = <<>> THEN body ELSE LetIn(names, vals, body)

StHostTo(call, k, cx, tr) ==
  LET outs == Positions(call, "out")
      cells == Positions(call, "name")
      names == [j \in DOMAIN cells |-> call.kids[cells[j]].ns[1]]
      body == StCont(k, cx, tr)
      th == Thread(WithRefs(call, cx, tr), cx, body.tr)
      inner == After(SubSeq(k.ns, 1, Len(outs)) \o names, Held(th.vs, outs) \o Held(th.vs, cells), body.t)
  IN IF Len(k.ns) # Len(outs) + Arity(call.ns[1]) \/ ~ CellsPassed(call, cx, tr) THEN Refused(tr)
     ELSE Done(Wrap(th.steps, cx.xs, Elim(SubSeq(k.ns, Len(outs) + 1, Len(k.ns)), [call EXCEPT !.kids = th.vs], inner)), th.tr)

StHost(call, cx, tr) ==
  LET outs == Positions(call, "out")
      cells == Positions(call, "name")
      names == [j \in DOMAIN cells |-> call.kids[cells[j]].ns[1]]
      th == Thread(WithRefs(call, cx, tr), cx, tr)
      y == NewName(th.tr, 1)
      ys == [j \in 1 .. Arity(call.ns[1]) |-> NewName(th.tr, j + 1)]
      value == CASE outs = <<>> -> NameOf(y)
                 [] outs # <<>> /\ Len(ys) = 1 -> Tuple(Held(th.vs, outs) \o <<NameOf(y)>>)
                 [] OTHER -> Elim(ys, NameOf(y), Tuple(Held(th.vs, outs) \o Names(ys)))
  IN IF ~ CellsPassed(call, cx, tr) THEN Refused(tr)
     ELSE Done(Wrap(th.steps, cx.xs, LetIn(<<y>>, <<[call EXCEPT !.kids = th.vs]>>,
                                           After(names, Held(th.vs, cells), Tup(value, cx.xs)))), Making(th.tr, 3))

-----------------------------------------------------------------------------
(* An elimination (h (fn (y...) body)): h, then the body once, now.          *)

Eliminates(h, cx, tr) ==
  CASE h.op = "name" -> h.ns[1] \in tr.locals \cup Cells(cx, tr)
    [] OTHER -> h.op \notin {"int", "table", "tuple"}

StElimination(t, cx, tr) ==
  LET h == t.kids[1]
      b == StCont(t, cx, tr)
      th == Thread(ArgsOf(h), cx, b.tr)
      e == St(h, cx, b.tr)
      s == NewName(e.tr, 1)
  IN CASE ~ MentionsState(h, [cx EXCEPT !.inLoop = FALSE], b.tr) -> Done(Elim(t.ns, h, b.t), b.tr)
       [] MentionsState(h, [cx EXCEPT !.inLoop = FALSE], b.tr) /\ h.op \notin {"name", "let"} ->
            \* a call keeps its shape, its arguments threaded and its functions as they stand
            Done(Wrap(th.steps, cx.xs, Elim(t.ns, WithArgs(h, th.vs), b.t)), th.tr)
       [] OTHER -> Done(BindState(cx.xs, e.t, s, Elim(t.ns, NameOf(s), b.t)), Making(e.tr, 1))

StElim(t, cx, tr) ==
  LET h == t.kids[1]
  IN CASE h.op = "tuple" /\ Len(h.kids) = Len(t.ns) -> St(LetIn(t.ns, h.kids, BodyOf(t)), cx, tr)
       [] LendsPlace(h, tr) -> StLendTo(h, t, cx, tr)
       [] h.op = "host" -> StHostTo(h, t, cx, tr)
       [] h.op \notin {"tuple", "host"} /\ ~ LendsPlace(h, tr) /\ Eliminates(h, cx, tr) -> StElimination(t, cx, tr)
       [] OTHER -> Refused(tr)   \* a closure over a cell

St(t, cx, tr) ==
  CASE ~ MentionsState(t, cx, tr) -> Done(Tup(t, cx.xs), tr)
    [] t.op = "name" /\ MentionsState(t, cx, tr) -> Done(Tup(NameOf(ThreadedAs(t.ns[1], tr)), cx.xs), tr)
    [] t.op \in {"cell", "place"} -> StScope(t, cx, tr)
    [] t.op = "borrow" -> StBorrow(t, cx, tr)
    [] t.op = "write" -> StWrite(t, cx, tr)
    [] t.op = "again" /\ cx.inLoop -> StAgain(t, cx, tr)
    [] t.op = "if" /\ MentionsState(t, cx, tr) -> StIf(t, cx, tr)
    [] t.op = "loop" /\ MentionsState(t, cx, tr) -> StLoop(t, cx, tr)
    [] t.op = "adopt" /\ MentionsState(t, cx, tr) -> StAdopt(t, cx, tr)
    [] t.op = "let" /\ MentionsState(t, cx, tr) -> StLet(t, cx, tr)
    [] LendsPlace(t, tr) -> StLend(t, cx, tr)
    [] t.op = "host" -> StHost(t, cx, tr)
    [] t.op = "elim" /\ MentionsState(t, cx, tr) -> StElim(t, cx, tr)
    [] t.op = "index" /\ t.kids[1].op = "name" /\ t.kids[1].ns[1] \notin Cells(cx, tr) -> StCall(t, Tail(t.kids), cx, tr)
    [] OTHER -> StCall(t, t.kids, cx, tr)

-----------------------------------------------------------------------------
(* The pass: a cell written element by element becomes a place, then each    *)
(* outermost scope is translated.                                            *)

RECURSIVE WritesElements(_, _), WrittenCells(_), StOutermost(_, _)

WritesElements(t, b) ==
  \/ t.op \in {"store", "lend"} /\ IsNamed(t.kids[1], b)
  \/ \E i \in DOMAIN t.kids : WritesElements(t.kids[i], b)

WrittenCells(t) ==
  LET ts == [i \in DOMAIN t.kids |-> WrittenCells(t.kids[i])]
      b == t.ns[1]
  IN IF t.op = "cell" /\ ts[1].op # "int" /\ WritesElements(ts[2], b)
     THEN T("adopt", <<b>>, <<ts[1], T("place", <<b>>, <<NameOf(b), ts[2]>>)>>)
     ELSE [t EXCEPT !.kids = ts]

NoCell(def) == [xs |-> <<>>, inLoop |-> FALSE, carried |-> <<>>, def |-> def]

\* translateScopes: every outermost scope on its own, then the calls outside any.
StOutermost(t, def) ==
  IF t.op \in Scopes \cup {"host"} \/ (t.op = "elim" /\ t.kids[1].op = "host") THEN St(t, NoCell(def), Start)
  ELSE LET rs == [i \in DOMAIN t.kids |-> StOutermost(t.kids[i], def)]
       IN Done([t EXCEPT !.kids = [i \in DOMAIN rs |-> rs[i].t]],
               [Start EXCEPT !.refused = \E i \in DOMAIN rs : rs[i].tr.refused])

\* A write the translation left where it stood is a name the reducer does not know.
LeftOver(t) == Somewhere(t, Scopes \cup {"write"})

ImageOf(p, d, m) ==
  [refused |-> d.tr.refused \/ m.tr.refused \/ LeftOver(d.t) \/ LeftOver(m.t),
   def |-> [p.def EXCEPT !.body = d.t], main |-> m.t]
Translated(p) == ImageOf(p, StOutermost(WrittenCells(p.def.body), p.def), StOutermost(WrittenCells(p.main), p.def))

-----------------------------------------------------------------------------
(* The program is translated, then both are run on one input.               *)

Untranslated == [refused |-> FALSE]
NoEnds == <<>>

LocalInit == source \in LocalPrograms /\ image = Untranslated /\ ends = NoEnds

Translate ==
  /\ image = Untranslated
  /\ image' = Translated(source)
  /\ UNCHANGED <<source, ends>>

RunOf(p, a, isSource) ==
  Eval(p.main, Put(Empty, User("a"), IntV(a)), StartState, [def |-> p.def, source |-> isSource])

RunBoth(a) ==
  /\ image # Untranslated /\ ~ image.refused /\ ends = NoEnds
  /\ ends' = [meant |-> RunOf(source, a, TRUE), got |-> RunOf(image, a, FALSE)]
  /\ UNCHANGED <<source, image>>

LocalNext == Translate \/ \E a \in Inputs : RunBoth(a)
LocalSpec == LocalInit /\ [][LocalNext]_localVars

-----------------------------------------------------------------------------
(* Properties                                                               *)

RECURSIVE Plain(_)
\* A value as the program sees it: no object and no version.
Plain(v) == [k |-> v.k, n |-> v.n, es |-> [i \in DOMAIN v.es |-> Plain(v.es[i])]]

RECURSIVE Subterms(_)
Subterms(t) == {t} \cup UNION {Subterms(t.kids[i]) : i \in DOMAIN t.kids}
TermsOf(p) == Subterms(p.main) \cup Subterms(p.def.body)

WritesAny(t) == Somewhere(t, {"write", "lend", "host"})
\* The shape the elimination clause does not translate: it threads the operand's
\* arms as if both were evaluated.
ConditionalOperand(t) ==
  t.op = "elim" /\ t.kids[1].op = "if" /\ (WritesAny(t.kids[1].kids[2]) \/ WritesAny(t.kids[1].kids[3]))

\* The translation's image computes what the program computes in program order,
\* and makes the host's effects in the same order (spec/local.md section 3).
ProgramOrder ==
  ends # NoEnds => /\ Plain(ends.got.v) = Plain(ends.meant.v)
                   /\ ends.got.st.said = ends.meant.st.said

\* A place's name bound again, beside its scope: c.places (cell.go) still has it,
\* and the later binding is read under the place's threaded name.
PlaceNames(p) == UNION {{t.ns[i] : i \in DOMAIN t.ns} : t \in {u \in TermsOf(p) : u.op \in Scopes}}
RebindsPlace(t, p) == t.op \in {"let", "elim", "loop"} /\ \E i \in DOMAIN t.ns : t.ns[i] \in PlaceNames(p)

\* The translation's image computes what the program computes in program order,
\* with the host's effects in the same order (spec/local.md section 3), for every
\* accepted program without those two shapes: threading of operands, phi, carried
\* loops, continuations and borrows agree with the order of evaluation.
SameMeaning ==
  ends # NoEnds /\ (\A t \in TermsOf(source) : ~ ConditionalOperand(t) /\ ~ RebindsPlace(t, source)) => ProgramOrder

\* The rules do not look for a write of the place among the operands of its own
\* read, write or call.
PlaceOperands(t) == IF t.op = "write" THEN t.kids[2].kids ELSE t.kids
OperandWritesPlace(t) ==
  /\ t.op \in {"index", "lend"} \/ IsElementWrite(t)
  /\ \E i \in DOMAIN PlaceOperands(t) : Writes(PlaceOperands(t)[i], IndexHead(t.kids[1]).ns[1])
\* R0 to R4 leave only single-threaded images (place.go:33-35): no use of a table
\* sees one whose object was stored into since, so a table may be overwritten in
\* place; for every accepted program without that shape.
SingleThreaded ==
  ends # NoEnds /\ (\A t \in TermsOf(source) : ~ OperandWritesPlace(t)) => ends.got.st.current
=============================================================================
