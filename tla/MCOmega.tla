-------------------------------- MODULE MCOmega --------------------------------
(* Questions over two variables, each held between bounds so that the box the *)
(* properties search holds every solution.                                    *)
EXTENDS Omega

Row(cs, k, eq) == [coef |-> [x \in Vars |-> IF x <= Len(cs) THEN cs[x] ELSE 0], k |-> k, eq |-> eq]
Ge(cs, k) == Row(cs, k, FALSE)
Eq(cs, k) == Row(cs, k, TRUE)

\* Two slabs that cross: each of the two variables has bounds with no unit
\* coefficient, so neither elimination is exact.
Slabs ==
  {<<Ge(<<a, b>>, -l), Ge(<<-a, -b>>, l + w), Ge(<<c, -d>>, k), Ge(<<-c, d>>, v - k)>> :
     a \in {2, 5}, b \in {3, 4}, c \in {2, 3, 7}, d \in {2, 5}, l \in 0..3, w \in 0..2,
     k \in {0, 1, 3, 4}, v \in {0, 1, 3}}

\* A slab of the first variable that a second one moves.
Between ==
  {<<Ge(<<a, c>>, k), Ge(<<-b, d>>, l), Ge(<<0, 1>>, 0), Ge(<<0, -1>>, 2)>> :
     a \in 1..4, b \in 1..4, c \in {-2, 0, 1, 3}, d \in -1..1, k \in -3..1, l \in 0..3}

\* A slab between two bounds of the first variable, which splinters must meet.
Wedges ==
  {<<Ge(<<a, c>>, k), Ge(<<-b, d>>, l), Ge(<<a, 1>>, 0), Ge(<<-b, -2>>, 2), Ge(<<0, 1>>, 1)>> :
     a \in 2..4, b \in 2..4, c \in {-3, 2}, d \in {-2, 1}, k \in -2..1, l \in 0..3}

\* One equality, each variable between bounds.
Equalities ==
  {<<Ge(<<1, 0>>, 1), Eq(<<a, b>>, k), Ge(<<-1, 0>>, 3), Ge(<<0, 1>>, 0), Ge(<<0, -1>>, 3)>> :
     a \in -5..5, b \in 2..6, k \in -4..4}

\* Two equalities.
Systems ==
  {<<Eq(<<a, b>>, k), Eq(<<c, 3>>, l), Ge(<<1, 0>>, 2), Ge(<<-1, 0>>, 2)>> :
     a \in {-5, 2, 4}, b \in {3, 5}, c \in {-2, 0, 3, 5}, k \in -3..3, l \in -2..2}

\* Bounds on one side only.
Halves == {<<Ge(<<a, b>>, k), Ge(<<c, d>>, l)>> :
             a \in {0, 2}, b \in {-3, 0, 1}, c \in {0, 3, -2}, d \in {0, 1}, k \in -3..1, l \in {-1, 0}}

Shadows == Between \cup Slabs \cup Wedges
Exactly == Equalities \cup Systems \cup Halves

\* The two variables are in -3..3.
Square == <<Ge(<<1, 0>>, 3), Ge(<<-1, 0>>, 3), Ge(<<0, 1>>, 3), Ge(<<0, -1>>, 3)>>

\* Numbers whose products leave a word of 13 bits, in an equality solved for
\* its first variable and between bounds of it.
Large ==
  {<<Eq(<<a, b>>, k), Ge(<<c, d>>, l)>> \o Square :
     a \in {-1, 1, 7}, b \in {65, -2500, 4095}, k \in {0, -2500, 130, 4095},
     c \in {3, -80}, d \in {1, -65}, l \in {0, -7, 4000, -4096}}
  \cup {<<Ge(<<a, b>>, k), Ge(<<-c, d>>, l)>> \o Square :
     a \in {45, 70}, c \in {44, 60}, b \in {2, 65}, d \in {-3, 58},
     k \in {-50, 7, 4000}, l \in {-90, 60, 400}}

\* Bounds that a dark shadow misses by many splinters.
Splintered ==
  {<<Ge(<<45, 2>>, k), Ge(<<-44, -3>>, l), Ge(<<0, 1>>, 0), Ge(<<0, -1>>, 1)>> :
     k \in {-20, -10, -1}, l \in {0, 20, 40}}

Conjunctions == Shadows \cup Exactly \cup Large \cup Splintered

=============================================================================
