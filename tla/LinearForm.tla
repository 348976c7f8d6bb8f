----------------------------- MODULE LinearForm ------------------------------
(***************************************************************************)
(* Linear forms (lform, linForm, formStep of ir/trip.go): a value read as  *)
(* a sum of coefficients times atoms plus a constant, from which the step  *)
(* of a difference of two parameters is computed.  A form is built one     *)
(* operation at a time, from the innermost operand out, beside the         *)
(* function of the atoms the value really is.  A coefficient is a machine  *)
(* word, a constant an interval of the domain.                             *)
(***************************************************************************)
EXTENDS IntervalDomain, FiniteSets

CONSTANTS Atoms,      \* the values a form is over
          CoefBits,   \* width of a coefficient (64)
          LitBound,   \* a literal that scales a form is smaller than this (2^31)
          Scalars,   \* the literals of the program
          Depth,      \* linForm's depth: Depth + 1 operations are read through (6)
          MaxScales,  \* bound: multiplications among them
          Facts,      \* the facts an atom may have
          ArgMax      \* bound: magnitude of an atom's value

ASSUME FormAssumption ==
  /\ CoefBits \in Nat /\ CoefBits > 1
  /\ LitBound \in Nat /\ LitBound * LitBound <= 2^CoefBits
  /\ Depth \in Nat

VARIABLES form,    \* [co, k]: the form as computed
          exact,   \* [co, k]: the value as a function of the atoms (history)
          levels,  \* operations so far
          scales,  \* multiplications among them
          fact     \* the atoms' facts where the form is evaluated

formVars == <<form, exact, levels, scales, fact>>

-----------------------------------------------------------------------------
(* A coefficient is signed and wraps. *)
Wrap(n) == ((n + 2^(CoefBits - 1)) % 2^CoefBits) - 2^(CoefBits - 1)

Zero == [a \in Atoms |-> 0]
Unit(a) == [Zero EXCEPT ![a] = 1]
AtomForm(a) == [co |-> Unit(a), k |-> Exact(0)]
LitForm(c) == [co |-> Zero, k |-> Exact(c)]

SubForm(f, g) == [co |-> [a \in Atoms |-> Wrap(f.co[a] - g.co[a])], k |-> SubIV(f.k, g.k)]
AddForm(f, g) == SubForm(f, SubForm(LitForm(0), g))

\* Mutant: the terms are scaled and the constant is not.
ScaleForm_TermsOnly(f, c) == [co |-> [a \in Atoms |-> Wrap(f.co[a] * c)], k |-> f.k]

ScaleForm(f, c) == [co |-> [a \in Atoms |-> Wrap(f.co[a] * c)], k |-> MulIV(Exact(c), f.k)]

\* Evaluation adds the terms in the order of a map, which is any.
Evaluations(f) ==
  LET term(a) == MulIV(Exact(f.co[a]), fact[a])
      sums[T \in SUBSET Atoms] ==
        IF T = {} THEN {f.k} ELSE UNION {{AddIV(s, term(a)) : s \in sums[T \ {a}]} : a \in T}
  IN  sums[{a \in Atoms : f.co[a] # 0}]

\* formStep: the step of p - q where the value v is passed for p and q for q.
StepOf(p, v, q, w) ==
  LET d == SubForm(v, w)
  IN  [d EXCEPT !.co = [a \in Atoms |-> Wrap(@[a] - Unit(p)[a] + Unit(q)[a])]]

-----------------------------------------------------------------------------
FormInit ==
  /\ \/ \E a \in Atoms : form = AtomForm(a) /\ exact = [co |-> Unit(a), k |-> 0]
     \/ \E c \in Scalars : form = LitForm(c) /\ exact = [co |-> Zero, k |-> c]
  /\ levels = 0 /\ scales = 0
  /\ fact \in [Atoms -> Facts]

Taken(f, co, k) ==
  /\ levels <= Depth
  /\ levels' = levels + 1
  /\ form' = f
  /\ exact' = [co |-> co, k |-> k]
  /\ UNCHANGED fact

AddAtom(a) == /\ Taken(AddForm(form, AtomForm(a)), [exact.co EXCEPT ![a] = @ + 1], exact.k)
              /\ UNCHANGED scales

SubAtom(a) == /\ Taken(SubForm(form, AtomForm(a)), [exact.co EXCEPT ![a] = @ - 1], exact.k)
              /\ UNCHANGED scales

AddLit(c) == /\ Taken(AddForm(form, LitForm(c)), exact.co, exact.k + c)
             /\ UNCHANGED scales

Scale(c) == /\ scales < MaxScales /\ -LitBound < c /\ c < LitBound
            /\ Taken(ScaleForm(form, c), [a \in Atoms |-> exact.co[a] * c], exact.k * c)
            /\ scales' = scales + 1

FormNext ==
  \/ \E a \in Atoms : AddAtom(a) \/ SubAtom(a)
  \/ \E c \in Scalars : AddLit(c) \/ Scale(c)

FormSpec == FormInit /\ [][FormNext]_formVars

-----------------------------------------------------------------------------
ValueOf(x, v) ==
  LET sum[T \in SUBSET Atoms] ==
        IF T = {} THEN x.k ELSE LET a == CHOOSE a \in T : TRUE IN x.co[a] * v[a] + sum[T \ {a}]
  IN  sum[Atoms]

Valuations == {v \in [Atoms -> -ArgMax .. ArgMax] : \A a \in Atoms : In(v[a], fact[a])}

\* "Each atom left after cancelling is evaluated by its fact at that continue,
\* which is sound; the rest is Z's arithmetic on the forms" (ir/trip.go): the
\* step of p - q holds the difference of every execution, in whatever order the
\* terms are added.
StepSound ==
  \A p, q \in Atoms : p # q =>
    \A s \in Evaluations(StepOf(p, form, q, AtomForm(q))) :
      \A v \in Valuations : In(ValueOf(exact, v) - v[p], s)

=============================================================================
