------------------------------ MODULE Affine ------------------------------
(***************************************************************************)
(* The affine check of buffers (emit/linearity.go) and the execution it is *)
(* about.  A term is a tree; every binder has a name of its own, as after  *)
(* openFresh.  The check walks a term once for each buffer a binder holds; *)
(* a run evaluates it on objects a store overwrites in place, and compares *)
(* what is read with what the value read was when it was made.             *)
(*                                                                         *)
(* Contents are abstracted to a version: a buffer's value is an object and *)
(* the number of stores made into it before the value was.  Conditions are *)
(* abstracted away: either arm may be taken.                               *)
(***************************************************************************)
EXTENDS Naturals, Sequences, SequencesExt

CONSTANTS Terms,   \* the programs: [declared, frozen, body], names of parameters and a term
          MaxTrips \* a loop is followed for this many iterations

VARIABLES term,    \* the program
          checked, \* "unread", "accepted" or "refused": what CheckLinear says of it
          run      \* an outcome of an accepted program

affineVars == <<term, checked, run>>

-----------------------------------------------------------------------------
(* Terms: [op, ns, kids], where ns are the names a term is or binds.  The   *)
(* kids are in the order of the code's Kids; the last kid of a let, a build *)
(* and a host call, and the first of an iterate, is the function's body.    *)

Node(op, ns, kids) == [op |-> op, ns |-> ns, kids |-> kids]
IsName(t, b) == t.op = "name" /\ t.ns = <<b>>
Scope(t) == IF t.op = "iterate" THEN Head(t.kids) ELSE Last(t.kids)
Operands(t) == CASE t.op \in {"let", "build", "hand"} -> Front(t.kids)
             [] t.op = "iterate" -> Tail(t.kids)
             [] OTHER -> t.kids

-----------------------------------------------------------------------------
(* walk: what becomes of the buffer b along a term, in evaluation order.    *)
(* The state is "live" or "moved"; "refused" is an error and stays.         *)

Refuse(st) == IF st = "moved" THEN "refused" ELSE st
Move(st) == IF st = "live" THEN "moved" ELSE "refused"

\* Mutant: what follows an if is moved only when both arms moved it.
Rejoin_Both(s, t) == IF "refused" \in {s, t} THEN "refused" ELSE IF s = t THEN s ELSE "live"
\* What follows an if: moved in one arm is moved.
Rejoin(s, t) == IF "refused" \in {s, t} THEN "refused" ELSE IF "moved" \in {s, t} THEN "moved" ELSE "live"

RECURSIVE Walk(_, _, _)
WalkAll(ts, b, st) == FoldLeft(LAMBDA s, t : IF s = "refused" THEN s ELSE Walk(t, b, s), st, ts)

\* An argument list some of whose arguments are the bare name: the others first, then those.
Others(ts, b) == SelectSeq(ts, LAMBDA t : ~ IsName(t, b))
Bare(ts, b) == SelectSeq(ts, LAMBDA t : IsName(t, b))

Walk(t, b, st) ==
  CASE st = "refused" -> st
    [] IsName(t, b) -> Move(st)
    [] t.op = "read" /\ IsName(t.kids[1], b) ->
         IF st = "moved" THEN "refused" ELSE Walk(t.kids[2], b, st)
    [] t.op = "set" /\ IsName(t.kids[1], b) ->
         LET after == IF st = "moved" THEN "refused" ELSE WalkAll(Tail(t.kids), b, st)
         \* the code sets moved whatever the index and the value did
         IN IF after = "refused" THEN after ELSE "moved"
    [] t.op = "len" /\ IsName(t.kids[1], b) -> st
    [] t.op = "alloc" /\ IsName(t.kids[1], b) -> Refuse(st)
    [] t.op = "observe" ->
         LET after == WalkAll(Others(t.kids, b), b, st)
         IN IF Bare(t.kids, b) # <<>> THEN Refuse(after) ELSE after
    [] t.op = "again" ->
         FoldLeft(LAMBDA s, a : Move(s), WalkAll(Others(t.kids, b), b, st), Bare(t.kids, b))
    [] t.op = "cond" ->
         LET c == Walk(t.kids[1], b, st)
         IN Rejoin(Walk(t.kids[2], b, c), Walk(t.kids[3], b, c))
    [] OTHER -> WalkAll(t.kids, b, st)

-----------------------------------------------------------------------------
(* isBuf and exitIsBuf: is a term's value a buffer, where env holds names. *)

RECURSIVE IsBuf(_, _)

\* The names a binder adds: those bound to a buffer.
Bound(t, env) ==
  CASE t.op = "let" -> IF IsBuf(t.kids[1], env) THEN {t.ns[1]} ELSE {}
    [] t.op = "iterate" -> {t.ns[i] : i \in {i \in DOMAIN t.ns : IsBuf(t.kids[i + 1], env)}}
    [] OTHER -> {t.ns[1]}

RECURSIVE ExitIsBuf(_, _)
ExitIsBuf(t, env) ==
  CASE t.op = "again" -> FALSE
    [] t.op = "cond" -> ExitIsBuf(t.kids[2], env) \/ ExitIsBuf(t.kids[3], env)
    [] OTHER -> IsBuf(t, env)

\* A call with several results is no name applied, so its value is none.
IsBuf(t, env) ==
  CASE t.op = "name" -> t.ns[1] \in env
    [] t.op \in {"set", "append"} -> TRUE
    [] t.op = "cond" -> IsBuf(t.kids[2], env) \/ IsBuf(t.kids[3], env)
    [] t.op = "let" -> IsBuf(Scope(t), env \cup Bound(t, env))
    [] t.op = "iterate" -> ExitIsBuf(Scope(t), env \cup Bound(t, env))
    [] OTHER -> FALSE

\* storeTarget and bufferArgs: what is written is a live buffer.
Written(t) == t.op \in {"set", "append", "hand"}
WritesBuffer(t, env) == Written(t) => IsBuf(t.kids[1], env)

\* scan: every binder that holds a buffer is walked.
RECURSIVE Scan(_, _)
Scan(t, env) ==
  /\ \A i \in DOMAIN Operands(t) : Scan(Operands(t)[i], env)
  /\ WritesBuffer(t, env)
  /\ t.op \in {"let", "build", "hand", "iterate"} =>
       /\ \A b \in Bound(t, env) : Walk(Scope(t), b, "live") # "refused"
       /\ Scan(Scope(t), env \cup Bound(t, env))

CheckLinear(p) ==
  /\ \A b \in p.declared : Walk(p.body, b, "live") # "refused"
  /\ Scan(p.body, p.declared)

-----------------------------------------------------------------------------
(* A run.  A buffer or table is [obj, ver]; heap[obj] is the stores made    *)
(* into obj.  An outcome is the values, the heap and whether every use saw  *)
(* the version the value it names had.                                      *)

Scalar == [obj |-> 0, ver |-> 0]
Outcome(vs, heap, agrees) == [vs |-> vs, heap |-> heap, agrees |-> agrees]
Current(v, heap) == v.obj = 0 \/ heap[v.obj] = v.ver

RECURSIVE Runs(_, _, _)
\* The arguments from left to right.
RunsAll(ts, env, heap) ==
  FoldLeft(LAMBDA os, t : UNION {{Outcome(o.vs \o r.vs, r.heap, o.agrees /\ r.agrees) : r \in Runs(t, env, o.heap)} : o \in os},
           {Outcome(<<>>, heap, TRUE)}, ts)

\* One operation on the values vs of its arguments.
Fresh(o) == Outcome(<<[obj |-> Len(o.heap) + 1, ver |-> 0]>>, Append(o.heap, 0), o.agrees)
Store(o, v) == LET n == o.heap[v.obj] + 1
               IN Outcome(<<[v EXCEPT !.ver = n]>>, [o.heap EXCEPT ![v.obj] = n], o.agrees /\ Current(v, o.heap))
Observe(o, v) == Outcome(<<Scalar>>, o.heap, o.agrees /\ Current(v, o.heap))
Bind(env, ns, vs) == [n \in DOMAIN env \cup Range(ns) |-> IF n \in Range(ns) THEN vs[CHOOSE i \in DOMAIN ns : ns[i] = n] ELSE env[n]]

\* The outcomes of a body after those of its arguments.
Then(os, t, env) == UNION {{[r EXCEPT !.agrees = @ /\ o.agrees] : r \in Runs(Scope(t), Bind(env, t.ns, o.vs), o.heap)} : o \in os}

\* A loop has two names or more, so an outcome with as many values is a jump.
Jump(t, o) == Len(o.vs) = Len(t.ns)
RECURSIVE Trips(_, _, _, _)
Trips(t, env, os, n) ==
  LET done == Then(os, t, env)
      back == {o \in done : Jump(t, o)}
  IN (done \ back) \cup (IF n = 0 \/ back = {} THEN {} ELSE Trips(t, env, back, n - 1))

Runs(t, env, heap) ==
  CASE t.op = "const" -> {Outcome(<<Scalar>>, heap, TRUE)}
    [] t.op = "name" -> {Outcome(<<env[t.ns[1]]>>, heap, TRUE)}
    [] t.op = "len" -> {Outcome(<<Scalar>>, o.heap, o.agrees) : o \in RunsAll(t.kids, env, heap)}
    [] t.op \in {"read", "observe"} -> {Observe(o, o.vs[1]) : o \in RunsAll(t.kids, env, heap)}
    [] t.op = "alloc" -> {Fresh(Observe(o, o.vs[1])) : o \in RunsAll(t.kids, env, heap)}
    [] t.op \in {"set", "append"} -> {Store(o, o.vs[1]) : o \in RunsAll(t.kids, env, heap)}
    [] t.op = "again" -> RunsAll(t.kids, env, heap)
    [] t.op = "cond" -> UNION {{[r EXCEPT !.agrees = @ /\ c.agrees] : r \in Runs(t.kids[i], env, c.heap)} :
                                  c \in Runs(t.kids[1], env, heap), i \in {2, 3}}
    [] t.op = "let" -> Then(RunsAll(Operands(t), env, heap), t, env)
    [] t.op = "hand" -> Then({Store(o, o.vs[1]) : o \in RunsAll(Operands(t), env, heap)}, t, env)
    [] t.op = "build" -> \* its size, then the buffer; the value that leaves is frozen, not copied
         {Outcome(r.vs, r.heap, r.agrees /\ Current(r.vs[1], r.heap)) :
             r \in Then({Fresh(o) : o \in RunsAll(Operands(t), env, heap)}, t, env)}
    [] t.op = "iterate" -> Trips(t, env, RunsAll(Operands(t), env, heap), MaxTrips)

\* The caller passes each parameter an object nobody else holds (ADR 0020); what it gets back it reads.
Given(p) == SetToSeq(p.declared \cup p.frozen)
Executions(p) ==
  LET ns == Given(p)
      env == Bind(<<>>, ns, [i \in DOMAIN ns |-> [obj |-> i, ver |-> 0]])
  IN {Outcome(o.vs, o.heap, o.agrees /\ Current(o.vs[1], o.heap)) :
        o \in Runs(p.body, env, [i \in DOMAIN ns |-> 0])}

-----------------------------------------------------------------------------
(* The machine: a program is checked, and run if it is accepted.            *)

NotRun == Outcome(<<>>, <<>>, TRUE)
AffineInit == term \in Terms /\ checked = "unread" /\ run = NotRun

Check ==
  /\ checked = "unread"
  /\ checked' = IF CheckLinear(term) THEN "accepted" ELSE "refused"
  /\ UNCHANGED <<term, run>>

Execute ==
  /\ checked = "accepted" /\ run = NotRun
  /\ run' \in Executions(term)
  /\ UNCHANGED <<term, checked>>

AffineNext == Check \/ Execute
AffineSpec == AffineInit /\ [][AffineNext]_affineVars

-----------------------------------------------------------------------------
\* Does a term use the name x, other than for its length?
RECURSIVE Mentions(_, _)
Mentions(t, x) ==
  \/ IsName(t, x)
  \/ t.op # "len" /\ \E i \in DOMAIN t.kids : Mentions(t.kids[i], x)

\* Where the walk follows the evaluation: a loop has a name of its own for what it hands on, as the
\* state translation writes it (docs/spec/local.md 2.1), and no operand of a read or a store hands
\* on the buffer that is read or stored into.
RECURSIVE InOrder(_, _)
InOrder(t, outer) ==
  /\ t.op = "iterate" => \A x \in outer : Mentions(Scope(t), x) => Walk(t, x, "live") = "live"
  /\ t.op \in {"read", "set"} =>
       \A x \in outer : IsName(t.kids[1], x) => WalkAll(Tail(t.kids), x, "live") = "live"
  /\ \A i \in DOMAIN t.kids : InOrder(t.kids[i], outer \cup IF t.op = "name" THEN {} ELSE Range(t.ns))

(* In every run of an accepted program whose operands and loops are in order,  *)
(* nothing is read, stored into, frozen or handed back after a store was made   *)
(* into it through another name: overwriting cannot be told from copying.      *)
StoresUnseen == (checked = "accepted" /\ InOrder(term.body, term.declared \cup term.frozen)) => run.agrees

(* The same of every accepted program, as emit/linearity.go:20 has it: "an     *)
(* ordering check ... and it walks in EVALUATION ORDER".                       *)
AcceptedOrdered == checked = "accepted" => run.agrees
=============================================================================
