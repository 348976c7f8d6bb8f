----------------------------- MODULE MCLinearPools -----------------------------
(* The linear arithmetic of the compiler, and the pools of its checker: a run is *)
(* a question of the Omega test, a fact set of the refinement layer with the     *)
(* questions asked of it, the analysis of one loop with an execution of it, or   *)
(* the two parallel steps of one cmd/check.                                      *)
EXTENDS MCOmega, LinearFacts, MCRefine, MCCheckPools

\* The rows, equations and questions of the linear facts, over three names.
R3(c1, c2, c3, k) == [co |-> [w \in Names |-> IF w <= 3 THEN <<c1, c2, c3>>[w] ELSE 0], k |-> k]
Three == 1..3
LEs == {R3(1,-1,0,1), R3(0,1,-1,0), R3(-1,0,0,0), R3(0,-1,2,0), R3(2,2,0,-5), R3(3,-2,0,1)}
EQs == {<<2, R3(0,0,2,0)>>, <<3, R3(0,1,0,-2)>>, <<1, R3(0,1,0,0)>>, <<2, R3(2,0,0,0)>>, <<3, R3(1,0,0,1)>>}
GoalRows == {R3(1,-1,0,0), R3(1,0,-1,0), R3(2,0,-1,0), R3(1,1,0,-2), R3(-1,0,0,0), R3(0,0,1,-2), R3(1,2,-1,-4)}

VARIABLE part   \* "omega", "facts", "loop" or "pools": which of the four this run is

\* The parts a run does not use stay at one value.
NoQuestion == question = <<>> /\ prob = <<>> /\ ctl = "done" /\ val = FALSE /\ stack = <<>>
              /\ budget = 0 /\ result = "none"
NoLoop == /\ loop = <<>> /\ stage = "enter" /\ peeling = FALSE /\ head = NoFacts /\ later = NoFacts
          /\ offered = {} /\ cands = {} /\ round = 0 /\ summary = {} /\ table = <<>> /\ env = <<>> /\ iters = 0
NoPools == nworkers = 0 /\ next = 1 /\ feeder = "returned" /\ worker = <<>> /\ swept = <<>> /\ seats = 0
           /\ goroutine = <<>> /\ scratch = <<>> /\ dst = <<>> /\ failed = {} /\ stale = {} /\ verdict = "pass"

LinearInit ==
  \/ part = "omega" /\ Init /\ FactsInit /\ NoLoop /\ NoPools
  \/ part = "facts" /\ NoQuestion /\ FactsInit /\ NoLoop /\ NoPools
  \/ part = "loop" /\ NoQuestion /\ FactsInit /\ LoopInit /\ NoPools
  \/ part = "pools" /\ NoQuestion /\ FactsInit /\ NoLoop /\ PoolsInit

checkVars == <<regenVars, sweepVars>>
linearVars == <<part, vars, factVars, loopVars, checkVars>>

OmegaNext == part = "omega" /\ Next /\ UNCHANGED <<part, factVars, loopVars, checkVars>>
FactNext == part = "facts" /\ FactsNext /\ UNCHANGED <<part, vars, loopVars, checkVars>>
InLoop == part = "loop" /\ UNCHANGED <<part, vars, factVars, checkVars>>
RefineNext == (InLoop /\ Enter) \/ (InLoop /\ Probe) \/ (InLoop /\ Walk) \/ (InLoop /\ Start) \/ (InLoop /\ Iterate)
CheckNext == part = "pools" /\ PoolsNext /\ UNCHANGED <<part, vars, factVars, loopVars>>

\* A deadlock of the Omega test is an error; the pools have their liveness.
Stopped == part # "omega" /\ UNCHANGED linearVars

LinearSpec ==
  /\ LinearInit /\ [][OmegaNext \/ FactNext \/ RefineNext \/ CheckNext \/ Stopped]_linearVars
  /\ WF_linearVars(CheckNext)
=============================================================================
