----------------------------- MODULE LinearFacts -----------------------------
(***************************************************************************)
(* The fact set of emit/linear.go: inequalities as they were assumed, a    *)
(* solved form of the equations, and a cache of the inequalities rewritten *)
(* by them.  assumeLE and assumeEQ add to it in any order, and entails     *)
(* answers questions in between.  `assumed` is a history of what was       *)
(* assumed, as the caller said it.                                         *)
(***************************************************************************)
EXTENDS FactSets

CONSTANTS Inequalities, \* rows that may be assumed
          Equations,    \* pairs <<name, row>> that may be assumed equal
          Goals,        \* rows that may be asked
          MaxAssumed,   \* bound on assumptions
          Spoken,       \* the names they are about
          Reach         \* the properties try values in -Reach..Reach

ASSUME LinearFactsAssumption ==
  /\ Spoken \subseteq Names /\ MaxAssumed \in Nat /\ Reach \in Nat
  /\ Inequalities \cup Goals \subseteq Linears /\ Equations \subseteq Names \X Linears

VARIABLES le,      \* the inequalities
          eq,      \* name |-> the row it equals
          eqVer,   \* version of eq
          sub,     \* le rewritten, for the equations of version subEq
          subEq,
          assumed, \* history: rows r with r <= 0, or r = 0 where is is "eq"
          asked    \* the last question and its answer

factVars == <<le, eq, eqVer, sub, subEq, assumed, asked>>

NotAsked == [goal |-> Constant(0), proved |-> FALSE]

FactsInit ==
  /\ le = <<>> /\ eq = <<>> /\ eqVer = 0 /\ sub = <<>> /\ subEq = 0
  /\ assumed = {} /\ asked = NotAsked

---------------------------------------------------------------------------
(* Operations. *)

\* substituted: what the cache lacks is added, and all of it if it is stale.
Substituted ==
  LET kept == IF subEq = eqVer THEN sub ELSE <<>>
  IN  kept \o [i \in 1..(Len(le) - Len(kept)) |-> FactSubstitute(eq, le[Len(kept) + i])]

\* Nothing is assumed twice: a bound, as MaxAssumed is.
Keep(r, is) ==
  /\ Cardinality(assumed) < MaxAssumed /\ [row |-> r, is |-> is] \notin assumed
  /\ assumed' = assumed \cup {[row |-> r, is |-> is]}
  /\ asked' = NotAsked

AssumeLE(e) ==
  /\ Keep(e, "le")
  /\ le' = Append(le, FactSubstitute(eq, e))
  /\ UNCHANGED <<eq, eqVer, sub, subEq>>

\* Mutant: the version stays, and the cache with it.
NextVersion_Same(v) == v

NextVersion(v) == v + 1

AssumeEQ(name, e) ==
  LET row == FactSubstitute(eq, AddScaled(Variable(name), e, -1))
      v   == SolvedFor(row, name)
  IN  /\ Keep(AddScaled(Variable(name), e, -1), "eq")
      /\ le' = le \o Residue(row, name)
      /\ IF v = {} THEN UNCHANGED <<eq, eqVer>>
         ELSE eq' = Solved(eq, row, name, e) /\ eqVer' = NextVersion(eqVer)
      /\ UNCHANGED <<sub, subEq>>

Ask(goal) ==
  /\ sub' = Substituted /\ subEq' = eqVer
  /\ asked' = [goal |-> goal, proved |-> Proves(ToSet(Substituted), FactSubstitute(eq, goal))]
  /\ UNCHANGED <<le, eq, eqVer, assumed>>

FactsNext ==
  \/ \E e \in Inequalities : AssumeLE(e)
  \/ \E p \in Equations : AssumeEQ(p[1], p[2])
  \/ \E g \in Goals : Ask(g)

FactsSpec == FactsInit /\ [][FactsNext]_factVars

---------------------------------------------------------------------------
(* Properties. *)

ValueOf(r, at) ==
  LET sum[n \in 0..NumNames] == IF n = 0 THEN r.k ELSE sum[n - 1] + r.co[n] * at[n] IN sum[NumNames]
Valuations == {[n \in Names |-> IF n \in Spoken THEN v[n] ELSE 0] : v \in [Spoken -> -Reach..Reach]}
True(at) == \A a \in assumed : IF a.is = "eq" THEN ValueOf(a.row, at) = 0 ELSE ValueOf(a.row, at) <= 0

\* What is proved is true wherever the assumptions are, whatever was assumed
\* after the cache was last filled and whatever names were eliminated.
EntailmentSound ==
  asked.proved => \A at \in Valuations : True(at) => ValueOf(asked.goal, at) <= 0

\* The inequalities and the solved form together say exactly what was assumed:
\* no assumption is lost by a later one about the same name, and none is added.
FactsKept ==
  \A at \in Valuations :
    True(at) <=> /\ \A i \in DOMAIN le : ValueOf(le[i], at) <= 0
                 /\ \A n \in DOMAIN eq : at[n] = ValueOf(eq[n], at)

\* A sum of the assumptions, weighted from 0 to 3 (either sign for an equation),
\* is a multiple of the goal with a constant as tight: a rational certificate.
Certified(goal) ==
  \E w \in [assumed -> -3..3], m \in {1, 2} :
    /\ \A a \in assumed : a.is = "eq" \/ w[a] >= 0
    /\ \A n \in Names : m * goal.co[n] = FoldSet(LAMBDA a, s : s + w[a] * a.row.co[n], 0, assumed)
    /\ FoldSet(LAMBDA a, s : s + w[a] * a.row.k, 0, assumed) >= m * goal.k

\* Every question with a certificate is proved, unless no values satisfy the
\* assumptions: nothing of an answer is lost to the order in which facts and
\* equations came, to the cache or to the elimination.
CertificateFound ==
  asked # NotAsked /\ Certified(asked.goal) /\ (\E at \in Valuations : True(at)) => asked.proved

\* No order of the map's names gives another rewriting.
Orders == {s \in [1..Cardinality(DOMAIN eq) -> DOMAIN eq] : ToSet(s) = DOMAIN eq}
OrderUnseen ==
  \A e \in Goals \cup Inequalities : \A s \in Orders : Rewritten(eq, e, s) = FactSubstitute(eq, e)
=============================================================================
