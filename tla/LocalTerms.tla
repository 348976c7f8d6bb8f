----------------------------- MODULE LocalTerms -----------------------------
(***************************************************************************)
(* Terms with local state (docs/spec/local.md) and what they compute.      *)
(*                                                                         *)
(* A cell is read by its name and written in program order; a place is a   *)
(* cell whose value is a table, written element by element.  core/cell.go  *)
(* translates both away; the terms it writes are those without a scope and *)
(* without a write, so one evaluator runs a program and its translation.   *)
(*                                                                         *)
(* A table's elements are kept by value, as McCarthy's store has them, and *)
(* beside them the object a compiled program would overwrite: a table is   *)
(* current while no store was made into its object after it was.           *)
(***************************************************************************)
EXTENDS Integers, Sequences, SequencesExt

CONSTANT MaxPasses   \* bound: iterations of one evaluation of a loop

-----------------------------------------------------------------------------
(* Terms: [op, ns, kids].  The names a binder binds are ns, and its body is  *)
(* its last kid: let, elim (a product taken apart), loop, cell, place, adopt *)
(* (a region made from a table) and borrow (a definition's places).          *)

T(op, ns, kids) == [op |-> op, ns |-> ns, kids |-> kids]

\* Names: the program's, a place's version name, and the translation's own.
User(x) == <<"", x, 0>>
Version(x) == <<"#v", x[2], 0>>
Made(n) == <<"#s", "", n>>
MadeVersion(n) == <<"#v", "", n>>

NameOf(x) == T("name", <<x>>, <<>>)
Names(xs) == [i \in DOMAIN xs |-> NameOf(xs[i])]
Tuple(ts) == T("tuple", <<>>, ts)
Unit == Tuple(<<>>)
LetIn(xs, ts, body) == T("let", xs, Append(ts, body))
Elim(xs, t, body) == T("elim", xs, <<t, body>>)

Binders == {"let", "elim", "loop", "cell", "place", "adopt", "borrow"}
Binds(t) == t.op \in Binders
BodyOf(t) == Last(t.kids)
ArgsOf(t) == IF Binds(t) THEN Front(t.kids) ELSE t.kids
WithArgs(t, ts) == [t EXCEPT !.kids = IF Binds(t) THEN Append(ts, BodyOf(t)) ELSE ts]

IsNamed(t, x) == t.op = "name" /\ t.ns = <<x>>
IsElementWrite(t) == t.op = "write" /\ t.kids[2].op = "store"

-----------------------------------------------------------------------------
(* Callees.  The definition "def" and the host "read" borrow their first     *)
(* argument; the hosts "scan" and "scan2" write the cells they are passed.   *)

\* The arguments that are cells, and how many components the result has.
CellsOf(f) == IF f = "scan2" THEN {2, 3} ELSE {2}
Arity(f) == IF f = "scan2" THEN 2 ELSE 1

-----------------------------------------------------------------------------
(* Values and states.                                                       *)

Val(k, n, es, obj, ver) == [k |-> k, n |-> n, es |-> es, obj |-> obj, ver |-> ver]
IntV(n) == Val("int", n, <<>>, 0, 0)
TupleV(vs) == Val("tuple", 0, vs, 0, 0)
TableV(vs, obj, ver) == Val("table", 0, vs, obj, ver)
RefV(r) == Val("ref", r, <<>>, 0, 0)
JumpV(vs) == Val("jump", 0, vs, 0, 0)
Stuck == Val("stuck", 0, <<>>, 0, 0)

\* cells: what each cell in scope holds (a program's own evaluation only);
\* refs: what each reference holds; stores: per object, the stores made into it;
\* said: the host's effects in order; current: no use saw a stale table.
Empty == [x \in {} |-> IntV(0)]
StartState == [cells |-> Empty, refs |-> <<>>, stores |-> <<>>, said |-> <<>>, current |-> TRUE]
Result(v, st) == [v |-> v, st |-> st]

IsCurrent(v, st) == v.k = "table" /\ v.obj > 0 => st.stores[v.obj] = v.ver
Used(v, st) == [st EXCEPT !.current = @ /\ IsCurrent(v, st)]
\* A value that leaves: a table, or tables in a product.
Leaves(v, st) == IF v.k = "tuple" THEN FoldLeft(LAMBDA s, w : Used(w, s), st, v.es) ELSE Used(v, st)

Put(f, x, v) == [y \in DOMAIN f \cup {x} |-> IF y = x THEN v ELSE f[y]]
BindAll(env, xs, vs) == FoldLeft(LAMBDA e, i : Put(e, xs[i], vs[i]), env, [i \in DOMAIN xs |-> i])

\* The operations.  An index outside a table reads 0 and stores nothing.
At(v, i) == IF i + 1 \in DOMAIN v.es THEN v.es[i + 1] ELSE IntV(0)
StoreAt(v, i, w, st) ==
  LET n == IF v.obj = 0 THEN 0 ELSE st.stores[v.obj] + 1
  IN Result(TableV([j \in DOMAIN v.es |-> IF j = i + 1 THEN w ELSE v.es[j]], v.obj, n),
            IF v.obj = 0 THEN st ELSE [Used(v, st) EXCEPT !.stores[v.obj] = n])
Region(v, st) == Result(TableV(v.es, Len(st.stores) + 1, 0), [Used(v, st) EXCEPT !.stores = Append(@, 0)])

\* The host writes each reference it is given, the j-th to its value plus its first argument plus j.
HostWrites(vs, st) ==
  LET rs == SelectSeq(vs, LAMBDA v : v.k = "ref")
  IN FoldLeft(LAMBDA s, j : [s EXCEPT !.refs[rs[j].n] = IntV(@.n + vs[1].n + j)], st, [j \in DOMAIN rs |-> j])
HostResult(f, vs) == IF Arity(f) = 1 THEN IntV(vs[1].n + 7) ELSE TupleV(<<IntV(vs[1].n), IntV(9)>>)

Applied(op, f, vs, st) ==
  CASE \E i \in DOMAIN vs : vs[i].k = "stuck" -> Result(Stuck, st)
    [] op = "tuple" -> Result(TupleV(vs), st)
    [] op = "prim" /\ f = "plus" -> Result(IntV(vs[1].n + vs[2].n), st)
    [] op = "prim" /\ f = "less" -> Result(IntV(IF vs[1].n < vs[2].n THEN 1 ELSE 0), st)
    [] op = "prim" /\ f = "say" -> Result(vs[1], [st EXCEPT !.said = Append(@, vs[1].n)])
    [] op = "index" -> Result(At(vs[1], vs[2].n), Used(vs[1], st))
    [] op = "store" -> StoreAt(vs[1], vs[2].n, vs[3], st)
    [] op = "again" -> Result(JumpV(vs), st)
    [] op = "ref" -> Result(RefV(Len(st.refs) + 1), [st EXCEPT !.refs = Append(@, vs[1])])
    [] op = "out" -> Result(RefV(Len(st.refs) + 1), [st EXCEPT !.refs = Append(@, IntV(0))])
    [] op = "deref" -> Result(st.refs[vs[1].n], st)
    [] OTHER -> Result(Stuck, st)

-----------------------------------------------------------------------------
(* Eval: a term in an environment and a state.  def is the borrowing        *)
(* callee, [param, body]; source says that cells and writes are understood. *)

RECURSIVE Eval(_, _, _, _)

\* Left to right; a jump or a stuck value ends the evaluation.
EvalAll(ts, env, st, pr) ==
  FoldLeft(LAMBDA o, t : LET r == Eval(t, env, o.st, pr) IN [vs |-> Append(o.vs, r.v), st |-> r.st],
           [vs |-> <<>>, st |-> st], ts)

RECURSIVE Repeat(_, _, _, _, _)
Repeat(t, env, vs, st, more) ==
  LET o == Eval(BodyOf(t), BindAll(env, t.ns, vs), st, more.pr)
  IN CASE o.v.k # "jump" -> o
       [] o.v.k = "jump" /\ (more.n = 0 \/ Len(o.v.es) # Len(t.ns)) -> Result(Stuck, o.st)
       [] OTHER -> Repeat(t, env, o.v.es, o.st, [more EXCEPT !.n = @ - 1])

\* A scope's cell is gone after it.
InScope(x, v, t, env, st, pr) ==
  LET o == Eval(t, env, [st EXCEPT !.cells = Put(@, x, v)], pr)
  IN Result(o.v, [Leaves(o.v, o.st) EXCEPT !.cells = [y \in DOMAIN st.cells |-> @[y]]])

\* A call that lends a place: the callee's place is the caller's.
LentCall(t, vs, st, pr) ==
  LET x == t.kids[1].ns[1]
      p == pr.def.param
      scope == Put(BindAll(Empty, pr.def.rest, Tail(vs)), p, vs[1])
      o == Eval(BodyOf(pr.def.body), [y \in DOMAIN scope \ {p} |-> scope[y]],
                [Used(vs[1], st) EXCEPT !.cells = Put(@, p, vs[1])], pr)
  IN Result(o.v, [o.st EXCEPT !.cells = Put(st.cells, x, o.st.cells[p])])

\* The host "read" stores its second argument, and gives two numbers back.
HostReads(t, vs, st) ==
  LET o == StoreAt(vs[1], 0, vs[2], st)
  IN Result(TupleV(<<vs[2], At(vs[1], 1)>>), [o.st EXCEPT !.cells = Put(@, t.kids[1].ns[1], o.v)])

\* Translated, a callee hands back its places' last versions, then its result.
HandedBack(t, vs, st, pr) ==
  IF t.ns[1] = "read"
  THEN LET o == StoreAt(vs[1], 0, vs[2], st) IN Result(TupleV(<<o.v, vs[2], At(vs[1], 1)>>), o.st)
  ELSE Eval(pr.def.body, BindAll(Empty, <<pr.def.param>> \o pr.def.rest, vs), st, pr)

\* A host writing cells: a reference to a copy, made where the cell stands, and read back after the call.
HostCall(t, env, st, pr) ==
  LET f == t.ns[1]
      isCell(i) == i \in CellsOf(f) /\ t.kids[i].op = "name"
      args == [i \in DOMAIN t.kids |-> IF isCell(i) THEN T("ref", <<>>, <<t.kids[i]>>) ELSE t.kids[i]]
      o == EvalAll(args, env, st, pr)
      after == HostWrites(o.vs, o.st)
      held(i) == after.refs[o.vs[i].n]
      back == FoldLeft(LAMBDA c, i : IF isCell(i) THEN Put(c, t.kids[i].ns[1], held(i)) ELSE c,
                       after.cells, [i \in DOMAIN t.kids |-> i])
      outs == SelectSeq([i \in DOMAIN t.kids |-> i], LAMBDA i : t.kids[i].op = "out")
      result == HostResult(f, o.vs)
      components == IF Arity(f) = 1 THEN <<result>> ELSE result.es
  IN IF outs = <<>> THEN Result(result, [after EXCEPT !.cells = back])
     ELSE Result(TupleV([j \in DOMAIN outs |-> held(outs[j])] \o components), [after EXCEPT !.cells = back])

Eval(t, env, st, pr) ==
  CASE t.op = "int" -> Result(IntV(t.ns[1]), st)
    [] t.op = "table" -> Result(TableV([i \in DOMAIN t.ns |-> IntV(t.ns[i])], 0, 0), st)
    [] t.op = "name" ->
         LET x == t.ns[1]
         IN Result(CASE x \in DOMAIN st.cells -> st.cells[x] [] x \in DOMAIN env -> env[x] [] OTHER -> Stuck, st)
    [] t.op = "if" ->
         LET c == Eval(t.kids[1], env, st, pr)
         IN Eval(t.kids[IF c.v.n # 0 THEN 2 ELSE 3], env, c.st, pr)
    [] t.op = "let" ->
         LET o == EvalAll(ArgsOf(t), env, st, pr)
         IN Eval(BodyOf(t), BindAll(env, t.ns, o.vs), o.st, pr)
    [] t.op = "elim" ->
         LET o == Eval(t.kids[1], env, st, pr)
             \* a result of one component is a value, not a product
             vs == IF o.v.k = "tuple" THEN o.v.es ELSE <<o.v>>
         IN IF Len(vs) # Len(t.ns) THEN Result(Stuck, o.st)
            ELSE Eval(BodyOf(t), BindAll(env, t.ns, vs), o.st, pr)
    [] t.op = "loop" ->
         LET o == EvalAll(ArgsOf(t), env, st, pr)
         IN Repeat(t, env, o.vs, o.st, [n |-> MaxPasses, pr |-> pr])
    [] t.op = "adopt" ->
         LET o == Eval(t.kids[1], env, st, pr)
             r == Region(o.v, o.st)
             b == Eval(BodyOf(t), BindAll(env, t.ns, <<r.v>>), r.st, pr)
         IN Result(b.v, Leaves(b.v, b.st))
    [] t.op \in {"cell", "place"} /\ pr.source ->
         LET o == Eval(t.kids[1], env, st, pr) IN InScope(t.ns[1], o.v, BodyOf(t), env, o.st, pr)
    [] t.op = "write" /\ pr.source ->
         LET o == Eval(t.kids[2], env, st, pr)
         IN Result(TupleV(<<>>), [o.st EXCEPT !.cells[t.kids[1].ns[1]] = o.v])
    [] t.op = "lend" ->
         LET o == EvalAll(t.kids, env, st, pr)
         IN CASE pr.source /\ t.ns[1] = "read" -> HostReads(t, o.vs, o.st)
              [] pr.source /\ t.ns[1] = "def" -> LentCall(t, o.vs, o.st, pr)
              [] OTHER -> HandedBack(t, o.vs, o.st, pr)
    [] t.op = "host" ->
         IF pr.source THEN HostCall(t, env, st, pr)
         ELSE LET o == EvalAll(t.kids, env, st, pr) IN Result(HostResult(t.ns[1], o.vs), HostWrites(o.vs, o.st))
    [] OTHER ->
         LET o == EvalAll(t.kids, env, st, pr)
         IN Applied(t.op, IF t.ns = <<>> THEN "" ELSE t.ns[1], o.vs, o.st)
=============================================================================
