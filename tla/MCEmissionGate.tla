--------------------------- MODULE MCEmissionGate ---------------------------
(* Instances of EmissionGate for TLC. *)
EXTENDS EmissionGate

C(o, t, f) == [out |-> o, cost |-> t, flaky |-> f]

First == C(<<"a", "a">>, <<8, 8>>, {})
\* Another text, a refusal, and a compile a little slower: with noise the sweep
\* suspects it and the pair clears it.
Second == C(<<"b", "no">>, <<10, 8>>, {})
\* A source removed and a compile that became slower by the rule; where this one
\* was accepted, the others are faster.
Removed == C(<<"a">>, <<14, 8>>, {})
\* An emitter that depends on something else than its input.
Flaky == C(<<"a", "b">>, <<8, 8>>, {2})
AllCodes == {First, Second, Removed, Flaky}
FlakyCodes == {First, Flaky}
Quiet == {0}
Noisy == {0, 2}

\* "b" is the text of "a" and a note the compiler printed: cut before the note it
\* is read as "a", and "a" cut in its hash as an outcome of no compile.
Remains == [o \in {"a", "b", "no"} |-> CASE o = "a" -> {"a, cut"} [] o = "b" -> {"a"} [] o = "no" -> {}]

Everything == {Steps, Steps \ {"tooling"}, Steps \ {"emission"}}
Whole == {Steps}

AllFaults == {"io", "crash"}
NoFaults == {}
=============================================================================
