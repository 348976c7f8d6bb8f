-------------------------- MODULE SizeChangeGraphs --------------------------
(***************************************************************************)
(* Size-change graphs (ir/sct.go): for each pair of measures, what one     *)
(* back edge of a loop guarantees of the second after it against the first *)
(* before it: nothing, not above it (Weak), or strictly below it (Strict). *)
(***************************************************************************)
EXTENDS Integers

None == 0
Weak == 1
Strict == 2
Arcs == {None, Weak, Strict}

Graphs(M) == [M \X M -> Arcs]

Stronger(a, b) == IF a < b THEN b ELSE a

\* Two arcs in a row: an arc when both are, strict when either is.
Through(x, y) == IF x = None \/ y = None THEN None ELSE Stronger(x, y)

\* Mutant: the arcs of the best path are added.
Compose_Sum(M, g, h) ==
  [ik \in M \X M |->
     LET via == {0} \cup {g[ik[1], j] + h[j, ik[2]] :
                            j \in {j \in M : g[ik[1], j] # None /\ h[j, ik[2]] # None}}
     IN  CHOOSE a \in via : \A b \in via : b <= a]

\* (G;H)(i, k) is the best arc over j of G(i, j) then H(j, k).
Compose(M, g, h) ==
  [ik \in M \X M |->
     LET via == {Through(g[ik[1], j], h[j, ik[2]]) : j \in M}
     IN  IF Strict \in via THEN Strict ELSE IF Weak \in via THEN Weak ELSE None]

Idempotent(M, g) == Compose(M, g, g) = g

\* What an arc says of a measure u before and v after.
ArcHolds(arc, u, v) == /\ arc = Weak => v <= u
                       /\ arc = Strict => v < u

\* The graph describes the change of the measures from mu to nu.
Describes(M, g, mu, nu) == \A i, j \in M : ArcHolds(g[i, j], mu[i], nu[j])

\* The premise of the size-change theorem: every idempotent graph of the
\* closure has a strict self-arc on a measure that is bounded below.
Witnessed(M, C, floored) ==
  \A g \in C : Idempotent(M, g) => \E j \in M : g[j, j] = Strict /\ j \in floored

=============================================================================
