------------------------------- MODULE FactSets -------------------------------
(***************************************************************************)
(* The equations of a fact set of emit/linear.go: a solved form, name |->  *)
(* row, to which an equation is added by solving it for a name.            *)
(***************************************************************************)
EXTENDS Farkas, SequencesExt

\* A name that has an equation is replaced by what it equals.
Replaced(eq, r, n) ==
  IF n \notin DOMAIN eq \/ r.co[n] = 0 THEN r ELSE AddScaled([r EXCEPT !.co[n] = 0], eq[n], r.co[n])

\* One pass over the equations, in the order given: the rows it goes through.
PassRows(eq, e, order) ==
  LET out[i \in 0..Len(order)] == IF i = 0 THEN e ELSE Replaced(eq, out[i - 1], order[i]) IN out
RewritePass(eq, e, order) == PassRows(eq, e, order)[Len(order)]

\* Mutant: a single pass.
Rewritten_Once(eq, e, order) == RewritePass(eq, e, order)

\* At most eight passes, until nothing changes.
Passes(eq, e, order) == LET pass[i \in 0..8] == IF i = 0 THEN e ELSE RewritePass(eq, pass[i - 1], order) IN pass
Rewritten(eq, e, order) == Passes(eq, e, order)[8]

\* The code ranges over a map: any order, here the names' own.
OwnOrder == [n \in Names |-> n]
FactSubstitute(eq, e) ==
  IF NamesOf(e) \cap DOMAIN eq = {} THEN e ELSE Rewritten(eq, e, OwnOrder)

\* The name an equation row = 0 is solved for: its coefficient is 1 or -1, and
\* the name it was assumed of comes first.
SolvedFor(row, name) ==
  LET unit == {n \in Names : Size(row.co[n]) = 1}
  IN  IF name \in unit THEN {name} ELSE IF unit = {} THEN {} ELSE {Min(unit)}

\* Mutant: the equation is assigned to its name, whatever was there.
Solved_Assigned(eq, row, name, e) == [n \in DOMAIN eq \cup {name} |-> IF n = name THEN e ELSE eq[n]]

\* The equations with row = 0, assumed as name = e, solved for a name.
Solved(eq, row, name, e) ==
  LET v == Min(SolvedFor(row, name))
  IN  [n \in DOMAIN eq \cup {v} |->
         IF n = v THEN AddScaled(Constant(0), [row EXCEPT !.co[v] = 0], -row.co[v]) ELSE eq[n]]

\* The inequalities an equation leaves where it is not solved: none if it is
\* redundant, a false one if no value satisfies it.
Residue(row, name) ==
  IF NamesOf(row) = {} THEN IF row.k = 0 THEN <<>> ELSE <<Constant(1)>>
  ELSE IF SolvedFor(row, name) = {} THEN <<row, AddScaled(Constant(0), row, -1)>>
  ELSE <<>>
=============================================================================
