----------------------------- MODULE MCGateReuse -----------------------------
(* Two parts of the repository that share nothing: a run is the checker's      *)
(* baseline over several runs of cmd/check, or the rewriting of one function's *)
(* bignum calls and a run of the rewritten function.                           *)
EXTENDS MCEmissionGate, MCBigReuse

VARIABLE subject   \* "gate" or "reuse": which of the two this run is

\* The half of the state a run does not use stays at one value.
NoGate == Init /\ code = First /\ disk = NoBaseline
NoFunction ==
  /\ fn = <<>> /\ pending = {} /\ dest = <<>> /\ frames = <<>>
  /\ ref = <<>> /\ heap = <<>> /\ pure = <<>> /\ made = 0

GateReuseInit == \/ subject = "gate" /\ Init /\ NoFunction
                 \/ subject = "reuse" /\ NoGate /\ ReuseInit

GateNext == subject = "gate" /\ Next /\ UNCHANGED <<subject, reuseVars>>
RewriteNext == subject = "reuse" /\ ReuseNext /\ UNCHANGED <<subject, vars>>

GateReuseSpec == GateReuseInit /\ [][GateNext \/ RewriteNext]_<<subject, vars, reuseVars>>
=============================================================================
