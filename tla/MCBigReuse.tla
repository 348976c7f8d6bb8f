------------------------------- MODULE MCBigReuse -------------------------------
(* Functions small enough to be all of them: one loop of two parameters whose *)
(* body branches to a break or to a continue after two operations, the second *)
(* one maybe an if that joins two values; one loop of one parameter whose     *)
(* body computes and then continues from either of two arms; and two nested   *)
(* loops.                                                                     *)
EXTENDS BigReuse

Call(op, v, as) == [op |-> op, res |-> v, args |-> as, sub |-> <<>>]
Leaf(t, ss, as) == [params |-> <<>>, stmts |-> ss, exit |-> [t |-> t, args |-> as]]
Forked(ps, ss, a, b) == [params |-> ps, stmts |-> ss, exit |-> [t |-> "branch", arms |-> <<a, b>>]]
LoopCall(v, as, body) == [op |-> "loop", res |-> v, args |-> as, sub |-> <<body>>]

\* The operations that may define v from the values in scope.
Ops(v, scope) ==
  {Call("big*", v, <<a, b>>) : a \in scope, b \in scope} \cup {Call("big-fit", v, <<a>>) : a \in scope}

Outer(inits) == Leaf("yield", <<Call("big-of", "x", <<>>), Call("big-of", "y", <<>>),
                                LoopCall("r", inits, "B")>>, <<"r">>)

\* One loop over p and q.
OneLoop ==
  LET scope == {"x", "p", "q"}
  IN  {("F" :> Outer(<<"x", "y">>)) @@ ("B" :> Forked(<<"p", "q">>, <<>>, "T", "C"))
       @@ ("T" :> Leaf("break", <<>>, <<"p">>))
       @@ ("C" :> Leaf("continue", <<c, d>>, <<a, b>>)) :
       c \in Ops("s", scope), d \in Ops("t", {"p", "q", "s"}),
       a \in {"p", "q", "s", "t", "x"}, b \in {"p", "q", "s", "t"}}

\* An if between the two, which joins what it is given.
Joined ==
  {("F" :> Outer(<<"x", "y">>)) @@ ("B" :> Forked(<<"p", "q">>, <<>>, "T", "C"))
   @@ ("T" :> Leaf("break", <<>>, <<"p">>))
   @@ ("Y" :> Leaf("yield", <<>>, <<i>>)) @@ ("N" :> Leaf("yield", <<>>, <<j>>))
   @@ ("C" :> Leaf("continue", <<[op |-> "if", res |-> "s", args |-> <<>>, sub |-> <<"Y", "N">>], d, e>>,
                   <<"t", b>>)) :
   i \in {"p", "q"}, j \in {"p", "q", "x"}, d \in Ops("t", {"p", "q", "s"}),
   e \in Ops("u", {"p", "q", "s"}), b \in {"q", "s", "u"}}

\* A computation before the arms, and one in each.
TwoArms ==
  {("F" :> Outer(<<"x">>)) @@ ("B" :> Forked(<<"p">>, <<>>, "T", "C"))
   @@ ("T" :> Leaf("break", <<>>, <<"p">>)) @@ ("C" :> Forked(<<>>, <<c>>, "L", "R"))
   @@ ("L" :> Leaf("continue", <<d>>, <<a>>)) @@ ("R" :> Leaf("continue", <<e>>, <<b>>)) :
   c \in Ops("s", {"p", "y"}), d \in Ops("t", {"p", "s"}), e \in Ops("u", {"p", "s", "y"}),
   a \in {"p", "s", "t", "y"}, b \in {"p", "s", "u"}}

\* A loop in a loop, started from the values given.
Nest(starts) ==
  {("F" :> Outer(<<"x">>)) @@ ("B" :> Forked(<<"p">>, <<Call("big-of", "z", <<>>)>>, "T", "C"))
   @@ ("T" :> Leaf("break", <<>>, <<"p">>))
   @@ ("C" :> Leaf("continue", IF after THEN <<LoopCall("s", <<i>>, "D"), c>> ELSE <<c, LoopCall("s", <<i>>, "D")>>,
                   <<a>>))
   @@ ("D" :> Forked(<<"q">>, <<>>, "U", "E"))
   @@ ("U" :> Leaf("break", <<>>, <<u>>)) @@ ("E" :> Leaf("continue", <<e>>, <<b>>)) :
   after \in BOOLEAN, i \in starts, c \in Ops("t", {"p", "z"}), a \in {"p", "s", "t"},
   u \in {"p", "q"}, e \in Ops("v", {"p", "q"}), b \in {"p", "q", "v"}}

OneIteration == OneLoop \cup Joined \cup TwoArms
Nested == Nest({"p", "z"})
AllReached == OneIteration \cup Nested
Hoisted == Nest({"y"})
=============================================================================
