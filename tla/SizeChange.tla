----------------------------- MODULE SizeChange -----------------------------
(***************************************************************************)
(* Size-change termination (ir/sct.go): sizeChangeTerminates closes the    *)
(* back edges' graphs under composition with a stack of graphs still to    *)
(* compose, gives up at Cap graphs, and answers whether every idempotent   *)
(* graph of the closure has a strict self-arc on a measure with a floor.   *)
(*                                                                         *)
(* When it answers that the loop terminates, the loop is run: an adversary *)
(* takes any back edge and gives the measures any values its graph allows. *)
(* A measure is an integer; a run that falls for ever is finite here, so   *)
(* Low stands for every value below Low + 1 and is strictly below itself.  *)
(* A measure with a floor never reaches Low.                               *)
(***************************************************************************)
EXTENDS SizeChangeGraphs, SequencesExt

CONSTANTS M,         \* the loop's measures, one per parameter
          EdgeSets,  \* the sets of graphs a loop's back edges may have
          Cap,       \* graphs the closure may hold (4096)
          Low, High  \* bound: the values a measure takes

ASSUME ConstantsAssumption ==
  /\ EdgeSets \subseteq SUBSET Graphs(M)
  /\ \A S \in EdgeSets : IsFiniteSet(S)
  /\ Cap \in Nat
  /\ Low \in Int /\ High \in Int /\ Low < High

VARIABLES edges,    \* the graphs of the back edges some execution takes
          floored,  \* the measures bounded below at the loop head
          seen,     \* the closure so far
          work,     \* the stack of graphs not composed yet
          phase,    \* "close", then "run" and "stopped", or "unknown": no proof
          mu        \* the measures at the loop head

vars == <<edges, floored, seen, work, phase, mu>>

Measures == [M -> Low .. High]
AtHead(nu) == \A j \in floored : nu[j] # Low

\* An arc over measures cut at Low.
ArcAllows(arc, u, v) == /\ arc = Weak => v <= u
                        /\ arc = Strict => v < u \/ (u = Low /\ v = Low)
Allows(g, m, nu) == \A i, j \in M : ArcAllows(g[i, j], m[i], nu[j])

-----------------------------------------------------------------------------
Init ==
  /\ edges \in EdgeSets
  /\ floored \in SUBSET M
  /\ seen = edges
  /\ work = SetToSeq(edges)
  /\ phase = "close"
  /\ mu = [j \in M |-> High]

\* Mutant: new compositions join the closure and are never composed further.
Extend_NotPushed ==
  /\ phase = "close" /\ work # <<>>
  /\ Cardinality(seen) < Cap
  /\ seen' = seen \cup {Compose(M, work[Len(work)], e) : e \in edges}
  /\ work' = SubSeq(work, 1, Len(work) - 1)
  /\ UNCHANGED <<edges, floored, phase, mu>>

\* Pop a graph and push its compositions with every edge that are new (in the
\* order of the edges, which is any).
Extend ==
  /\ phase = "close" /\ work # <<>>
  /\ Cardinality(seen) < Cap
  /\ LET g == work[Len(work)]
         new == {Compose(M, g, e) : e \in edges} \ seen
     IN  /\ seen' = seen \cup new
         /\ work' = SubSeq(work, 1, Len(work) - 1) \o SetToSeq(new)
  /\ UNCHANGED <<edges, floored, phase, mu>>

\* Mutant: a cut closure is judged like a complete one.
GiveUp_Judges ==
  /\ phase = "close" /\ work # <<>>
  /\ Cardinality(seen) >= Cap
  /\ work' = <<>>
  /\ UNCHANGED <<edges, floored, seen, phase, mu>>

\* A cut closure proves nothing.
GiveUp ==
  /\ phase = "close" /\ work # <<>>
  /\ Cardinality(seen) >= Cap
  /\ phase' = "unknown"
  /\ UNCHANGED <<edges, floored, seen, work, mu>>

\* The verdict; a loop it accepts is entered with any measures.
Accept ==
  /\ phase = "close" /\ work = <<>>
  /\ Witnessed(M, seen, floored)
  /\ phase' = "run"
  /\ mu' \in Measures /\ AtHead(mu')
  /\ UNCHANGED <<edges, floored, seen, work>>

Reject ==
  /\ phase = "close" /\ work = <<>>
  /\ ~Witnessed(M, seen, floored)
  /\ phase' = "unknown"
  /\ UNCHANGED <<edges, floored, seen, work, mu>>

\* The loop goes round by the edge e.
Iterate(e) ==
  /\ phase = "run"
  /\ mu' \in Measures /\ AtHead(mu')
  /\ Allows(e, mu, mu')
  /\ UNCHANGED <<edges, floored, seen, work, phase>>

\* No edge can be taken from here: the loop is over.
Stop ==
  /\ phase = "run"
  /\ \A e \in edges, nu \in Measures : ~(AtHead(nu) /\ Allows(e, mu, nu))
  /\ phase' = "stopped"
  /\ UNCHANGED <<edges, floored, seen, work, mu>>

Next == Extend \/ GiveUp \/ Accept \/ Reject \/ (\E e \in edges : Iterate(e)) \/ Stop

Fairness == WF_vars(Next)

Spec == Init /\ [][Next]_vars /\ Fairness

-----------------------------------------------------------------------------
(* Properties. *)

TypeOK ==
  /\ edges \subseteq Graphs(M) /\ IsFiniteSet(edges)
  /\ floored \subseteq M
  /\ seen \subseteq Graphs(M)
  /\ work \in Seq(Graphs(M))
  /\ phase \in {"close", "run", "stopped", "unknown"}
  /\ mu \in Measures

\* The worklist never loses a composition: a graph of the closure is waiting on
\* the stack or each of its compositions with an edge is already there.  With an
\* empty stack the closure is complete, which is what the verdict is read from.
Closed ==
  /\ edges \subseteq seen
  /\ \A g \in seen : (\E i \in 1 .. Len(work) : work[i] = g)
                     \/ \A e \in edges : Compose(M, g, e) \in seen

\* The theorem of ir/sct.go: a loop the verdict accepts takes finitely many back
\* edges, whatever edges it takes and whatever its measures do within them.
Terminates == (phase = "run") ~> (phase = "stopped")

=============================================================================
