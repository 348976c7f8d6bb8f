------------------------------ MODULE MCBounds ------------------------------
(* What is decided apart from the facts of a loop: a run is a size-change  *)
(* analysis with the loop it accepts, a linear form of a trip bound with   *)
(* the executions of the value it stands for, or a program of pairs of     *)
(* digits.                                                                 *)
EXTENDS SizeChangeHistory, LinearForm, MCPairs

Two == {1, 2}

\* Every set of at most two graphs in which the first measure is bounded by
\* itself, or the measures only by each other.
OnlyCrossed(g) == g[1, 1] = None /\ g[2, 2] = None /\ g[1, 2] # None /\ g[2, 1] # None
Family == {g \in Graphs(Two) : g[1, 1] # None \/ OnlyCrossed(g)}
EdgeFamilies == {{}} \cup {{g, h} : g, h \in Family}

TwoAtoms == {"p", "q"}
SomeLiterals == {-6, -1, 2, 7}
Ranges == {RangeE(-2, 3), AtLeast(1), Exact(2), Top}

VARIABLE analysis   \* "graphs", "form" or "pairs": which of the three this run is

\* The parts of the state a run does not use stay at one value.
NoForm == form = LitForm(0) /\ exact = [co |-> Zero, k |-> 0]
          /\ levels = 0 /\ scales = 0 /\ fact = [a \in Atoms |-> Top]
NoGraphs == /\ edges = {} /\ floored = {}
            /\ HistoryInit

NoPairs == vals = CHOOSE v \in {<<a, a>> : a \in Start} : TRUE

BoundsInit == \/ analysis = "graphs" /\ NoForm /\ NoPairs /\ HistoryInit
              \/ analysis = "form" /\ NoGraphs /\ NoPairs /\ FormInit
              \/ analysis = "pairs" /\ NoGraphs /\ NoForm /\ PairsInit

GraphsNext == analysis = "graphs" /\ HistoryNext /\ UNCHANGED <<analysis, formVars, pairsVars>>
FormsNext == analysis = "form" /\ FormNext /\ UNCHANGED <<analysis, allVars, pairsVars>>
DigitsNext == analysis = "pairs" /\ PairsNext /\ UNCHANGED <<analysis, allVars, formVars>>

boundsVars == <<analysis, allVars, formVars, pairsVars>>
BoundsSpec == BoundsInit /\ [][GraphsNext \/ FormsNext \/ DigitsNext]_boundsVars /\ WF_boundsVars(GraphsNext)
=============================================================================
