-------------------------------- MODULE MCRefine --------------------------------
EXTENDS RefineLoop

a == 1
b == 2
n == 3
x == 4
y == 5

Lit(k) == Constant(k)
V(m) == Variable(m)
Plus(m, k) == AddScaled(V(m), Constant(k), 1)
Cmp(op, l, r) == [op |-> op, l |-> l, r |-> r]
If(c, s, t) == [is |-> "if", c |-> c, then |-> s, else |-> t]
Read(m, i, t) == [is |-> "read", x |-> m, idx |-> i, then |-> t]
Again(s, t) == [is |-> "again", args |-> <<s, t>>]
Exit(v) == [is |-> "exit", value |-> v]
Loop(s, t, body) == [init |-> <<s, t>>, body |-> body]

\* dists: an index that is -1 only on the first iteration.
Peel == {Loop(Lit(0), Lit(0), If(Cmp("ge", V(a), V(n)), Exit(V(b)),
           If(c, Again(Plus(a, 1), Plus(b, 1)), Read(x, Plus(b, -1), Again(Plus(a, 1), V(b)))))) :
           c \in {Cmp("eq", V(a), Lit(0)), Cmp("or", Cmp("eq", V(a), Lit(0)), Cmp("eq", V(b), Lit(7))), Cmp("eq", V(b), Lit(3))}}
Leak == {Loop(Lit(0), Lit(0), If(Cmp("ge", V(a), V(n)), Exit(Lit(0)),
           Read(x, V(a), If(Cmp("lt", V(x), Lit(0)), Exit(Lit(0)),
             If(Cmp("eq", V(b), Lit(0)), Again(V(x), Lit(1)), Read(y, V(x), Again(V(x), Lit(1))))))))}
Missed == {Loop(Lit(0), Lit(0), If(Cmp("ge", V(a), V(n)), Exit(Lit(0)),
           Read(x, V(a), If(Cmp("eq", V(x), Lit(1)), Exit(Lit(1)), Again(Plus(a, 1), V(b))))))}

\* A read, then the next iteration.
Guards == {Cmp("ge", V(a), V(n)), Cmp("eq", V(a), V(n)), Cmp("ge", V(a), V(b)), Cmp("lt", V(b), Lit(1)),
           Cmp("or", Cmp("ge", V(a), V(n)), Cmp("eq", V(b), Lit(0)))}
Steps == {<<Plus(a, 1), V(b)>>, <<Plus(a, 1), Plus(b, -1)>>, <<V(a), Plus(b, -1)>>, <<Plus(a, 1), V(a)>>, <<V(b), V(a)>>}
Indices == {V(a), Plus(b, -1), Plus(a, 1)}
Scans == {Loop(z[1], z[2], If(g, Exit(V(a)), Read(x, k, Again(s[1], s[2])))) :
            z \in {<<Lit(0), V(n)>>, <<Lit(1), Lit(0)>>}, g \in Guards, k \in Indices, s \in Steps}
\* Two clauses: the second is taken by some iterations only.
Skips == {Loop(Lit(0), j, If(g, Exit(V(b)), If(h, Again(s[1], s[2]), Read(x, k, Again(Plus(a, 1), V(b)))))) :
            j \in {Lit(0), V(n)}, g \in {Cmp("ge", V(a), V(n)), Cmp("and", Cmp("ge", V(b), Lit(1)), Cmp("ge", V(a), V(n)))},
            h \in {Cmp("eq", V(a), Lit(0)), Cmp("ge", V(b), Lit(1)), Cmp("ne", V(b), V(n)), Cmp("or", Cmp("eq", V(a), Lit(0)), Cmp("eq", V(b), Lit(7)))},
            s \in {<<Plus(a, 1), Plus(b, 1)>>, <<Plus(a, 1), Plus(b, -1)>>}, k \in {V(a), Plus(b, -1)}}
Resolved == {Loop(Lit(0), V(n), If(Cmp("and", Cmp("ge", V(b), Lit(1)), Cmp("ge", V(a), V(n))), Exit(V(a)),
              If(Cmp("ge", V(b), Lit(1)), Read(x, V(a), Again(Plus(a, 1), V(b))), Exit(V(b)))))}
Small == {-1, 1, 5}
MCLoops == Peel \cup Scans \cup Skips \cup Resolved
MCParams == {a, b}
=============================================================================
