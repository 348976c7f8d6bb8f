------------------------------ MODULE MCAffine ------------------------------
(* Programs of the affine check: small terms over a parameter declared a   *)
(* buffer (b), one that is a frozen table (f), and names bound on the way. *)
EXTENDS Affine

K == Node("const", <<>>, <<>>)
Nm(x) == Node("name", <<x>>, <<>>)
ReadAt(x, i) == Node("read", <<>>, <<Nm(x), i>>)
LenOf(x) == Node("len", <<>>, <<Nm(x)>>)
Look(x, s) == Node("observe", <<>>, <<Nm(x), s>>)
SetAt(t, i, v) == Node("set", <<>>, <<t, i, v>>)
AppendTo(t, v) == Node("append", <<>>, <<t, v>>)
If(c, t, e) == Node("cond", <<>>, <<c, t, e>>)
Let(x, v, t) == Node("let", <<x>>, <<v, t>>)
Hand(x, v, t) == Node("hand", <<x>>, <<v, K, t>>)
Build(x, t) == Node("build", <<x>>, <<K, t>>)
Copy(x) == Node("alloc", <<>>, <<Nm(x)>>)
Again(a, s) == Node("again", <<>>, <<a, s>>)
LoopOf(x, i, t, z) == Node("iterate", <<x, i>>, <<t, z, K>>)

\* Integers and buffers, of the names in X.
Ints(X) == {K} \cup {ReadAt(x, K) : x \in X}
IntsToo(X) == Ints(X) \cup {LenOf(x) : x \in X} \cup {Look(x, s) : x \in X, s \in Ints(X)}
Stores(X) == {SetAt(Nm(x), i, v) : x \in X, i \in Ints(X), v \in Ints(X)}
               \cup {AppendTo(Nm(x), v) : x \in X, v \in Ints(X)}
Simple(X) == {Nm(x) : x \in X} \cup {SetAt(Nm(x), K, v) : x \in X, v \in Ints(X)}
Arms(X) == {If(c, s, t) : c \in Ints(X), s, t \in Simple(X)}
Buffers(X) == {Nm(x) : x \in X} \cup Stores(X) \cup Arms(X)

Straight ==
  {Let("c", v, t) : v \in Buffers({"b", "f"}), t \in Simple({"b", "c", "f"}) \cup IntsToo({"b", "c"})}
  \cup {Let("n", v, Let("c", w, t)) : v \in IntsToo({"b"}), w \in Buffers({"b"}), t \in Simple({"b", "c"})}
  \cup {Hand("c", Nm(x), Hand("d", Nm(y), t)) : x \in {"b", "f"}, y \in {"b", "c"}, t \in Buffers({"b", "c", "d"})}
  \cup {Let("c", Copy("b"), Let("d", w, t)) : w \in Simple({"b", "c"}), t \in Simple({"b", "c", "d"})}
  \cup {SetAt(v, i, w) : v \in Simple({"b"}), i, w \in {Let("c", s, ReadAt("c", K)) : s \in Simple({"b"})} \cup Ints({"b"})}
  \cup {ReadAt("b", Let("c", s, t)) : s \in Simple({"b"}), t \in Ints({"b", "c"})}

\* A table frozen by a build, and what is done with it.
Frozen == {Let("t", Build("c", v), Let("u", w, x)) :
             v \in Simple({"c"}) \cup {Let("d", s, t) : s \in Simple({"c"}), t \in Simple({"c", "d"})},
             w \in Simple({"t"}) \cup {AppendTo(Nm("t"), K)}, x \in {Nm("t"), ReadAt("t", K), ReadAt("u", K)}}

\* Loops: the initial buffer, what a back edge passes, what an exit returns, and what follows.
Bodies(X) == {If(c, x, Again(a, s)) : c \in {K, ReadAt("c", K)}, x \in {Nm("c"), ReadAt("c", K)},
                a \in Simple(X) \cup {If(K, SetAt(Nm("c"), K, K), Nm("c"))},
                s \in Ints(X) \cup {LenOf("c")}}
Loops1 == {LoopOf("c", "i", t, z) : t \in Bodies({"b", "c"}), z \in Simple({"b", "f"})}
Loops2 == {Let("d", LoopOf("c", "i", t, z), u) : t \in Bodies({"c"}), z \in Simple({"b"}), u \in Simple({"b", "d"})}
Nested == {LoopOf("c", "i", If(K, Nm("c"), Again(LoopOf("d", "j", If(K, Nm(x), Again(y, v)), z), w)), Nm("b")) :
             x \in {"c", "d"}, y \in Simple({"c", "d"}), v \in Ints({"c"}), z \in Simple({"c"}), w \in Ints({"c"})}

Program(t) == [declared |-> {"b"}, frozen |-> {"f"}, body |-> t]
SmallTerms == {Program(t) : t \in Straight \cup Frozen \cup Loops1 \cup Loops2 \cup Nested}
=============================================================================
