---------------------------- MODULE MCLoopAffine ----------------------------
(* What is decided of a program, each beside the executions it is about: the *)
(* intervals of a loop, the affine check of its buffers, and the translation *)
(* of its local state.                                                       *)
EXTENDS MCIntervalLoop, MCAffine, MCLocalState

VARIABLE subject   \* "loop", "buffers" or "state"

\* The parts a run does not use stay at one value.
NoInterval ==
  /\ prog = [guards |-> <<>>, exits |-> <<>>, init |-> <<>>, budget |-> 0]
  /\ phase = "done" /\ round = 0 /\ cur = [j \in Params |-> Top] /\ lc = NotEvaluated
  /\ trips = NoBound /\ halts = FALSE /\ argFacts = <<>> /\ resFacts = <<>>
  /\ val = [j \in Params |-> 0] /\ taken = 0
NoTerm == term = <<>> /\ checked = "unread" /\ run = NotRun

NoState == source = <<>> /\ image = Untranslated /\ ends = NoEnds

ChecksInit == \/ subject = "loop" /\ Init /\ NoTerm /\ NoState
              \/ subject = "buffers" /\ NoInterval /\ AffineInit /\ NoState
              \/ subject = "state" /\ NoInterval /\ NoTerm /\ LocalInit

InLoop == subject = "loop" /\ UNCHANGED <<subject, affineVars, localVars>>
LoopNext ==
  \/ (InLoop /\ Body) \/ (InLoop /\ Ascend) \/ (InLoop /\ GiveUp) \/ (InLoop /\ Descend)
  \/ (InLoop /\ Trip) \/ (InLoop /\ TripDone) \/ (InLoop /\ Verdict)
  \/ (InLoop /\ Enter) \/ (\E k \in Exits : InLoop /\ Iterate(k))
BuffersNext == subject = "buffers" /\ AffineNext /\ UNCHANGED <<subject, vars, localVars>>
InState == subject = "state" /\ UNCHANGED <<subject, vars, affineVars>>
StateNext == (InState /\ Translate) \/ (\E a \in Inputs : InState /\ RunBoth(a))
checksVars == <<subject, vars, affineVars, localVars>>

\* Only the emitted loop is fair, as in IntervalLoop.
ChecksSpec ==
  /\ ChecksInit /\ [][LoopNext \/ BuffersNext \/ StateNext]_checksVars
  /\ WF_checksVars(\E k \in Exits : InLoop /\ Iterate(k))
=============================================================================
