------------------------- MODULE SizeChangeHistory --------------------------
(***************************************************************************)
(* SizeChange with history variables: where the run is measured from, and  *)
(* the composition of the graphs of the back edges it took since.  They    *)
(* relate the closure ir/sct.go computes to every stretch of every run,    *)
(* which is the step of its argument a complete worklist has to give.      *)
(***************************************************************************)
EXTENDS SizeChange

VARIABLES start,   \* the measures where the stretch begins
          path     \* <<>>, or <<g>> with g the composition of its graphs

historyVars == <<start, path>>
allVars == <<vars, historyVars>>

HistoryInit == Init /\ start = mu /\ path = <<>>

\* The stretch begins at the entry of the loop, or anew at any head.
Begin == start' = mu' /\ path' = <<>>

Extended(e) == path' = <<IF path = <<>> THEN e ELSE Compose(M, path[1], e)>>

HistoryNext ==
  \/ (Extend \/ GiveUp \/ Reject \/ Stop) /\ UNCHANGED historyVars
  \/ Accept /\ Begin
  \/ \E e \in edges : Iterate(e) /\ ((Extended(e) /\ UNCHANGED start) \/ Begin)

HistorySpec == HistoryInit /\ [][HistoryNext]_allVars /\ Fairness

-----------------------------------------------------------------------------
\* Every stretch of a run composes to a graph of the closure, and that graph
\* tells the truth of the measures at its two ends.  It fails if the worklist
\* drops a composition or a composed arc promises more than its parts.
PathCovered ==
  phase = "run" /\ path # <<>> => path[1] \in seen /\ Allows(path[1], start, mu)

=============================================================================
