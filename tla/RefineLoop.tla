------------------------------ MODULE RefineLoop ------------------------------
(***************************************************************************)
(* What emit/refine.go proves of a loop: the facts at its head (iterate,   *)
(* houdini), the index obligations of its body under the facts of their    *)
(* paths (guard, clauses, indexObligation), the first iteration peeled     *)
(* where they are refused, and what is known of the loop's result          *)
(* (summarizeLoop).  Then an accepted loop runs on some table.             *)
(*                                                                         *)
(* A body is a tree of                                                     *)
(*   [is |-> "if", c, then, else]       c a comparison, an `and` or an `or`*)
(*   [is |-> "read", x, idx, then]      let x = t[idx]                     *)
(*   [is |-> "again", args]  and  [is |-> "exit", value].                  *)
(* Terms are rows.  Params are the loop's variables, Length is len t, and  *)
(* the names left are those lets bind.  A value read is any integer: the   *)
(* atom read(t idx) the code equates it with says nothing else here.       *)
(***************************************************************************)
EXTENDS FactSets

CONSTANTS Loops,       \* records [init, body]
          Params,      \* the loop variables
          Length,      \* the name of the table's length
          MaxLength,   \* bound on it in a run
          Elements,    \* values a table may hold
          MaxIters     \* bound on iterations run

ASSUME RefineLoopAssumption ==
  Params \subseteq Names /\ Length \in Names \ Params /\ {MaxLength, MaxIters} \subseteq Nat

VARIABLES loop,     \* the loop
          stage,    \* "enter", "probe", "walk", "accepted", "refused", "running", "exited" or "fault"
          peeling,  \* whether the invariants sought are those of the later iterations
          head,     \* facts at the head, for every iteration
          later,    \* facts at the head, for all iterations but the first once peeled
          offered,  \* the candidates houdini started with
          cands,    \* those it has not discarded
          round,
          summary,  \* rows about the result, named by the first let name
          table, env, iters  \* the run: the table, the values at the head, and how many iterations

loopVars == <<loop, stage, peeling, head, later, offered, cands, round, summary, table, env, iters>>

---------------------------------------------------------------------------
(* Facts. *)

Proven(f, goal) == Proves({FactSubstitute(f.eq, r) : r \in f.le}, FactSubstitute(f.eq, goal))

WithLE(f, row) == [f EXCEPT !.le = @ \cup {FactSubstitute(f.eq, row)}]
WithEQ(f, name, e) ==
  LET row == FactSubstitute(f.eq, AddScaled(Variable(name), e, -1))
  IN  [f EXCEPT !.le = @ \cup ToSet(Residue(row, name)),
                !.eq = IF SolvedFor(row, name) = {} THEN @ ELSE Solved(@, row, name, e)]

\* l - r + k
Difference(l, r, k) == AddScaled(AddScaled(l, r, -1), Constant(k), 1)

Comparisons == {"lt", "le", "gt", "ge", "eq", "ne"}
Opposite == [lt |-> "ge", ge |-> "lt", le |-> "gt", gt |-> "le", eq |-> "ne", ne |-> "eq"]

\* A comparison but a disequality as rows <= 0; integers, so < is <= -1.
Obligations(c) ==
  CASE c.op = "lt" -> {Difference(c.l, c.r, 1)}
    [] c.op = "le" -> {Difference(c.l, c.r, 0)}
    [] c.op = "gt" -> {Difference(c.r, c.l, 1)}
    [] c.op = "ge" -> {Difference(c.r, c.l, 0)}
    [] c.op = "eq" -> {Difference(c.l, c.r, 0), Difference(c.r, c.l, 0)}

IsName(row) == row.k = 0 /\ \E n \in Names : row = Variable(n)

\* strictFromDisequality: a # b beside an order known now is a strict order.
FromDisequality(f, c) ==
  CASE Proven(f, Difference(c.l, c.r, 0)) -> WithLE(f, Difference(c.l, c.r, 1))
    [] Proven(f, Difference(c.r, c.l, 0)) -> WithLE(f, Difference(c.r, c.l, 1))
    [] OTHER -> f

RECURSIVE Assume(_, _)
Assume(f, c) ==
  CASE c.op = "and" -> Assume(Assume(f, c.l), c.r)
    [] c.op = "or"  -> f
    [] c.op = "ne"  -> FromDisequality(f, c)
    [] c.op = "eq" /\ IsName(c.r) -> WithEQ(f, CHOOSE n \in Names : c.r = Variable(n), c.l)
    [] c.op = "eq" /\ IsName(c.l) /\ ~IsName(c.r) -> WithEQ(f, CHOOSE n \in Names : c.l = Variable(n), c.r)
    [] OTHER -> [f EXCEPT !.le = @ \cup {FactSubstitute(f.eq, r) : r \in Obligations(c)}]

\* guard: c is known to hold, or not to.  A failed `or` is both its halves
\* failed; a failed `and` is kept until one of its halves holds.
RECURSIVE Guard(_, _, _)
Guard(f, c, holds) ==
  CASE c.op = "or" /\ ~holds  -> Guard(Guard(f, c.l, FALSE), c.r, FALSE)
    [] c.op = "and" /\ ~holds -> [f EXCEPT !.failed = Append(@, <<c.l, c.r>>)]
    [] OTHER ->
         LET resolved == FoldLeft(LAMBDA g, p : IF p[1] = c THEN Guard(g, p[2], FALSE)
                                                ELSE IF p[2] = c THEN Guard(g, p[1], FALSE)
                                                ELSE g,
                                  f, IF holds THEN f.failed ELSE <<>>)
         IN  IF holds THEN Assume(resolved, c)
             ELSE Assume(resolved, [c EXCEPT !.op = Opposite[@]])

---------------------------------------------------------------------------
(* A walk of a body. *)

\* Where a body leaves: again and exit nodes with the facts of their paths.
RECURSIVE Leaves(_, _)
Leaves(node, f) ==
  CASE node.is = "if"   -> Leaves(node.then, Guard(f, node.c, TRUE)) \cup Leaves(node.else, Guard(f, node.c, FALSE))
    [] node.is = "read" -> Leaves(node.then, f)
    [] OTHER            -> {[node |-> node, at |-> f]}

BackEdges(node, f) == {l \in Leaves(node, f) : l.node.is = "again"}
Exits(node, f) == {l \in Leaves(node, f) : l.node.is = "exit"}

\* Every index of a body is in the table, by the facts of its path.
RECURSIVE IndicesProven(_, _)
IndicesProven(node, f) ==
  CASE node.is = "if"   -> /\ IndicesProven(node.then, Guard(f, node.c, TRUE))
                           /\ IndicesProven(node.else, Guard(f, node.c, FALSE))
    [] node.is = "read" -> /\ Proven(f, AddScaled(Constant(0), node.idx, -1))
                           /\ Proven(f, Difference(node.idx, Variable(Length), 1))
                           /\ IndicesProven(node.then, f)
    [] OTHER            -> TRUE

RECURSIVE SidesOf(_)
SidesOf(c) == IF c.op \in Comparisons THEN {c.l, c.r} ELSE SidesOf(c.l) \cup SidesOf(c.r)

\* guardSides: the comparisons along the chain of clauses.
RECURSIVE GuardSides(_)
GuardSides(node) == IF node.is = "if" THEN SidesOf(node.c) \cup GuardSides(node.else) ELSE {}

\* A row with values for the loop variables in it.
Instance(row, vals) ==
  FoldSet(LAMBDA p, r : AddScaled(r, vals[p], row.co[p]), [row EXCEPT !.co = [n \in Names |-> IF n \in Params THEN 0 ELSE @[n]]], Params)

---------------------------------------------------------------------------
(* Invariants. *)

NoFacts == [le |-> {}, eq |-> <<>>, failed |-> <<>>]
Outside == WithLE(NoFacts, AddScaled(Constant(0), Variable(Length), -1))

\* Mutant: only some back edge has to keep or increase it.
NonDecreasing_Some(l, p) ==
  \E e \in BackEdges(l.body, NoFacts) :
    LET step == AddScaled(e.node.args[p], Variable(p), -1) IN NamesOf(step) = {} /\ step.k >= 0

\* Every `again` passes the variable itself, or it and a literal from 0 on.
NonDecreasing(l, p) ==
  \A e \in BackEdges(l.body, NoFacts) :
    LET step == AddScaled(e.node.args[p], Variable(p), -1) IN NamesOf(step) = {} /\ step.k >= 0

\* iterate: what every iteration guarantees by the shape of its steps.
HeadFacts(l) ==
  [Outside EXCEPT !.le = @ \cup {AddScaled(Constant(0), Variable(p), -1) : p \in {q \in Params :
      Proven(Outside, AddScaled(Constant(0), l.init[q], -1)) /\ NonDecreasing(l, q)}}]

\* translationCandidates, for two variables each back edge moves by literals:
\* the combination no edge changes.
Translations(l) ==
  LET steps == {[p \in Params |-> AddScaled(e.node.args[p], Variable(p), -1)] : e \in BackEdges(l.body, NoFacts)}
  IN  IF \E s \in steps, p \in Params : NamesOf(s[p]) # {} THEN {}
      ELSE {c \in [Params -> -2..2] :
              /\ \A p \in Params : c[p] # 0
              /\ c[Min(Params)] = 1 \/ (c[Min(Params)] = 2 /\ \A p \in Params : c[p] % 2 = 1 \/ p = Min(Params))
              /\ \E s \in steps, p \in Params : s[p].k # 0
              /\ \A s \in steps : FoldSet(LAMBDA p, sum : sum + c[p] * s[p].k, 0, Params) = 0}

Combination(c, terms) == FoldSet(LAMBDA p, r : AddScaled(r, terms[p], c[p]), Constant(0), Params)
Itself == [p \in Params |-> Variable(p)]

\* The templates: pairs <<a, b>> for a <= b.
Templates(l, starts) ==
  LET sides == GuardSides(l.body)
  IN  {<<Constant(0), Variable(p)>> : p \in Params}
      \cup UNION {{<<Variable(p), s>>, <<s, Variable(p)>>} : <<p, s>> \in {q \in Params \X sides : q[1] \notin NamesOf(q[2])}}
      \cup {<<z[p], Variable(p)>> : <<z, p>> \in {q \in starts \X Params : NamesOf(q[1][q[2]]) \cap Params = {}}}
      \cup {<<Variable(u), Variable(p)>> : <<u, p>> \in {q \in Params \X Params : q[1] # q[2]}}
      \cup UNION {{<<Combination(c, Itself), Combination(c, z)>>, <<Combination(c, z), Combination(c, Itself)>>} :
                    <<c, z>> \in Translations(l) \X starts}

\* The candidates: those not known already and true in every entry.
Candidates(l, starts, entries, g) ==
  {c \in Templates(l, starts) :
     /\ c[1] # c[2] /\ ~Proven(g, Difference(c[1], c[2], 0))
     /\ \A e \in entries : Proven(e.at, Instance(Difference(c[1], c[2], 0), e.vals))}

With(f, cs) == [f EXCEPT !.le = @ \cup {FactSubstitute(f.eq, Difference(c[1], c[2], 0)) : c \in cs}]

\* The candidates some back edge does not keep.
Failing(l, g, cs) ==
  LET edges == BackEdges(l.body, With(g, cs))
  IN  {c \in cs : \E e \in edges : ~Proven(e.at, Instance(Difference(c[1], c[2], 0), e.node.args))}

---------------------------------------------------------------------------
(* The analysis of a loop. *)

Idle == UNCHANGED <<table, env, iters>>

LoopInit ==
  /\ loop \in Loops /\ stage = "enter" /\ peeling = FALSE
  /\ head = NoFacts /\ later = NoFacts /\ offered = {} /\ cands = {} /\ round = 0 /\ summary = {}
  /\ table = <<>> /\ env = <<>> /\ iters = 0

Seek(l, starts, entries, g) ==
  /\ offered' = Candidates(l, starts, entries, g) /\ cands' = offered'
  /\ round' = 0 /\ stage' = "probe"

Enter ==
  /\ stage = "enter"
  /\ head' = HeadFacts(loop) /\ later' = head'
  /\ Seek(loop, {loop.init}, {[vals |-> loop.init, at |-> Outside]}, head')
  /\ UNCHANGED <<loop, peeling, summary>> /\ Idle

Found(cs) ==
  /\ stage' = "walk" /\ cands' = cs
  /\ later' = With(later, cs) /\ head' = IF peeling THEN head ELSE With(head, cs)

\* One round of houdini.  The rounds are counted against the candidates left.
Probe ==
  /\ stage = "probe"
  /\ IF cands = {} \/ round > Cardinality(cands)
     THEN Found({}) /\ UNCHANGED round
     ELSE IF Failing(loop, later, cands) = {}
     THEN Found(cands) /\ UNCHANGED round
     ELSE /\ cands' = cands \ Failing(loop, later, cands)
          /\ round' = round + 1
          /\ UNCHANGED <<stage, head, later>>
  /\ UNCHANGED <<loop, peeling, offered, summary>> /\ Idle

\* The facts of the first iteration: each variable is its initial value.
FirstFacts == FoldSet(LAMBDA p, f : WithEQ(f, p, loop.init[p]), head, Params)

\* Mutant: the first iteration is not checked.
FirstProven_Skipped == TRUE

FirstProven == IndicesProven(loop.body, FirstFacts)

\* iterate's walk of the body, and the case split on the first iteration where
\* it refuses: the later ones are entered from the first's back edges.
Walk ==
  /\ stage = "walk"
  /\ LET first == {[vals |-> e.node.args, at |-> e.at] : e \in BackEdges(loop.body, FirstFacts)}
     IN  IF IndicesProven(loop.body, later)
         THEN stage' = "accepted" /\ UNCHANGED <<peeling, offered, cands, round>>
         ELSE IF peeling \/ ~FirstProven \/ first = {}
         THEN stage' = "refused" /\ UNCHANGED <<peeling, offered, cands, round>>
         ELSE /\ peeling' = TRUE
              /\ Seek(loop, {[p \in Params |-> Instance(e.vals[p], loop.init)] : e \in first}, first, head)
  /\ UNCHANGED <<loop, head, later, summary>> /\ Idle

---------------------------------------------------------------------------
(* The result of a loop. *)

HasAgain(node) == BackEdges(node, NoFacts) # {}

\* summarizeLoop's exits: it walks the conditionals of the chain, and takes
\* anything else that jumps back for a back edge.
RECURSIVE SummaryExits(_, _)
SummaryExits(node, f) ==
  CASE node.is = "if"  -> SummaryExits(node.then, Guard(f, node.c, TRUE)) \cup SummaryExits(node.else, Guard(f, node.c, FALSE))
    [] HasAgain(node)  -> {}
    [] OTHER           -> Exits(node, f)

Result == Min(Names \ (Params \cup {Length}))

\* Mutant: what one of the exits establishes is recorded of the result.
AtEveryExit_Some(row, exits) ==
  \E e \in exits : Proven(e.at, AddScaled([row EXCEPT !.co[Result] = 0], e.node.value, row.co[Result]))

AtEveryExit(row, exits) ==
  \A e \in exits : Proven(e.at, AddScaled([row EXCEPT !.co[Result] = 0], e.node.value, row.co[Result]))

\* Rows about the result true at every exit: its order with 0, with the sides
\* of guards and with the initial values that name no loop variable.
Summary ==
  LET exits  == SummaryExits(loop.body, head)
      frames == {s \in GuardSides(loop.body) \cup {loop.init[p] : p \in Params} : NamesOf(s) \cap Params = {}}
  IN  {row \in {Difference(Constant(0), Variable(Result), 0)}
               \cup UNION {{Difference(Variable(Result), s, 0), Difference(s, Variable(Result), 0)} : s \in frames} :
         exits # {} /\ AtEveryExit(row, exits)}

---------------------------------------------------------------------------
(* The run of an accepted loop. *)

Evaluated(row, vals) == FoldSet(LAMBDA n, s : s + row.co[n] * vals[n], row.k, DOMAIN vals)

RECURSIVE Satisfied(_, _)
Satisfied(c, vals) ==
  CASE c.op = "and" -> Satisfied(c.l, vals) /\ Satisfied(c.r, vals)
    [] c.op = "or"  -> Satisfied(c.l, vals) \/ Satisfied(c.r, vals)
    [] c.op = "ne"  -> Evaluated(c.l, vals) # Evaluated(c.r, vals)
    [] OTHER        -> \A r \in Obligations(c) : Evaluated(r, vals) <= 0

\* What an iteration comes to.
RECURSIVE Iteration(_, _)
Iteration(node, vals) ==
  CASE node.is = "if"    -> Iteration(IF Satisfied(node.c, vals) THEN node.then ELSE node.else, vals)
    [] node.is = "again" -> [is |-> "running", env |-> [p \in Params |-> Evaluated(node.args[p], vals)]]
    [] node.is = "exit"  -> [is |-> "exited", env |-> (Result :> Evaluated(node.value, vals))]
    [] node.is = "read"  ->
         LET i == Evaluated(node.idx, vals)
         IN  IF i \in DOMAIN table THEN Iteration(node.then, (node.x :> table[i]) @@ vals)
             ELSE [is |-> "fault", env |-> vals]

Start ==
  /\ stage = "accepted" /\ stage' = "running"
  /\ summary' = Summary
  /\ \E n \in 0..MaxLength : \E t \in [0..(n - 1) -> Elements] :
       /\ table' = t
       /\ env' = [p \in Params |-> Evaluated(loop.init[p], (Length :> n))]
  /\ iters' = 1
  /\ UNCHANGED <<loop, peeling, head, later, offered, cands, round>>

Here == (Length :> Cardinality(DOMAIN table)) @@ env

Iterate ==
  /\ stage = "running" /\ iters <= MaxIters
  /\ LET next == Iteration(loop.body, Here)
     IN  stage' = next.is /\ env' = next.env
  /\ iters' = iters + 1
  /\ UNCHANGED <<loop, peeling, head, later, offered, cands, round, summary, table>>

LoopNext == Enter \/ Probe \/ Walk \/ Start \/ Iterate

LoopSpec == LoopInit /\ [][LoopNext]_loopVars

---------------------------------------------------------------------------
(* Properties. *)

Known(row, vals) == NamesOf(row) \subseteq DOMAIN vals => Evaluated(row, vals) <= 0

\* No index of an accepted loop is ever outside its table: tables.md's "bounds
\* are the domain", with no check left in the program.
IndexInRange == stage # "fault"

\* The facts houdini kept hold whenever a run is at the head: head's at every
\* iteration, later's from the second on.
InvariantsHold ==
  stage = "running" =>
    /\ \A r \in head.le : Known(r, Here)
    /\ iters > 1 => \A r \in later.le : Known(r, Here)

\* What is recorded of the loop's result is true of it, whichever exit it took.
ResultSummarized ==
  stage = "exited" => \A r \in summary : Evaluated(r, Here) <= 0
=============================================================================
