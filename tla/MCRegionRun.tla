---------------------------- MODULE MCRegionRun -----------------------------
(* An instance of RegionRun for TLC: a run is either one operation on two   *)
(* parameters, for every pair of their facts, or computations and arms in   *)
(* any order, over parameters of few facts.                                 *)
EXTENDS RegionRun, BitOperations

Bits == {"and", "or", "xor", "not", "shl", "shr", "lshr"}
Word == {"u64-of", "int-of-u64", "u64+", "u64-", "u64*", "u64/", "u64%"}
OtherOperations == Bits \cup Word
AllOps == RingOps \cup OtherOperations
Inverses == {"add", "sub", "mul", "neg"}

\* Ends around zero, around the word (0 .. 3 unsigned, -2 .. 1 signed), and far
\* enough for sums and products to leave the representation (15).
Ends == {-9, -3, -2, -1, 0, 1, 2, 3, 8}
EdgeValues == {-9, -4, -2, -1, 0, 1, 2, 3, 8}
EdgeIvs == {Top} \cup {AtLeast(e) : e \in Ends} \cup {AtMost(e) : e \in Ends}
                 \cup {RangeE(p[1], p[2]) : p \in {q \in Ends \X Ends : q[1] <= q[2]}}

ArmShapes == {RangeE(-1, 1), Top}
UnitValues == -1 .. 1
Two == {2}
Orders == {"lt", "ge"}

VARIABLE part   \* "statement" or "arms": which of the two this run is

InArms == /\ \A v \in Values : fs[v] \in ArmShapes /\ val[v] \in UnitValues

MCInit == Init /\ (part = "statement" \/ (part = "arms" /\ InArms))

OneStatement ==
  /\ part = "statement" /\ Len(def) = NParams
  /\ \E op \in Ops : Stmt(op, 1, IF op \in Unary THEN 1 ELSE 2)

ComputeInArms ==
  /\ part = "arms"
  /\ \/ \E k \in Literals : Const(k)
     \/ \E op \in Inverses, x, y \in Values : Stmt(op, x, y)

Branch ==
  /\ part = "arms"
  /\ \/ \E g \in Comparisons : Enter(<<g>>)
     \/ \E g, h \in {c \in Comparisons : c.rel \in PairRels} : Enter(<<g, h>>)
     \/ \E y \in Values, other \in ArmShapes \cup {Bot} : Leave(y, other)

MCNext == (OneStatement \/ ComputeInArms \/ Branch) /\ UNCHANGED part

MCSpec == MCInit /\ [][MCNext]_<<vars, part>>
=============================================================================
