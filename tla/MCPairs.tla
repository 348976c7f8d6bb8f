------------------------------- MODULE MCPairs -------------------------------
(***************************************************************************)
(* A word of eight bits as two digits of four, on a target whose word is   *)
(* -63..63: 63 is 4*B - 1, the source's "integers below 2^34".             *)
(***************************************************************************)
EXTENDS Pairs

At(ts, fact) == {[t |-> t, fact |-> fact] : t \in ts}

MCParams == At({15}, RangeE(0, 15)) \union At({63}, RangeE(0, 63))
            \union At({-63}, RangeE(-63, 63))
MCLoops == At({16, 127, 255}, U) \union At({200}, RangeE(64, 200))

=============================================================================
