-------------------------- MODULE SizeChangeProofs --------------------------
(***************************************************************************)
(* Proofs about SizeChange and SizeChangeHistory, for every finite or      *)
(* infinite set of measures, every family of finite edge sets, every cap   *)
(* and every range of values.                                              *)
(***************************************************************************)
EXTENDS SizeChangeHistory, FiniteSetTheorems, SequenceTheorems, TLAPS

\* Turning a finite set into a stack leaves no element out: an injection of
\* 1 .. n into a set of n elements reaches all of them.
LEMMA StackHoldsAll ==
  ASSUME NEW S, IsFiniteSet(S)
  PROVE  /\ SetToSeq(S) \in [1 .. Cardinality(S) -> S]
         /\ Cardinality(S) \in Nat
         /\ \A x \in S : \E i \in 1 .. Cardinality(S) : SetToSeq(S)[i] = x
<1> DEFINE n == Cardinality(S)
<1>1. n \in Nat /\ ExistsBijection(1 .. n, S)
  BY FS_CardinalityType
<1>2. PICK b \in [1 .. n -> S] : IsInjective(b)
  BY <1>1 DEF ExistsBijection, Bijection, Injection
<1>3. SetToSeq(S) \in [1 .. n -> S] /\ IsInjective(SetToSeq(S))
  BY <1>2 DEF SetToSeq
<1>4. SetToSeq(S) \in Injection(1 .. n, S)
  BY <1>3 DEF Injection
<1>5. Cardinality(1 .. n) = n
  <2>1. Cardinality(1 .. n) = IF 1 > n THEN 0 ELSE n - 1 + 1
    BY <1>1, FS_Interval
  <2> QED BY <1>1, <2>1
<1>6. SetToSeq(S) \in Surjection(1 .. n, S)
  BY <1>4, <1>5, FS_Injection
<1> QED
  BY <1>1, <1>3, <1>6 DEF Surjection

\* The compositions of one graph with finitely many edges are finitely many.
LEMMA ComposedFinite ==
  ASSUME NEW F, IsFiniteSet(F), NEW g, NEW T,
         T \subseteq {Compose(M, g, e) : e \in F}
  PROVE  IsFiniteSet(T)
<1> DEFINE image == {Compose(M, g, e) : e \in F}
           c == [e \in F |-> Compose(M, g, e)]
<1>1. c \in Surjection(F, image)
  BY DEF Surjection
<1>2. IsFiniteSet(image)
  BY <1>1, FS_Surjection
<1> QED BY <1>2, FS_Subset

\* The composition of two graphs is a graph over the same measures.
LEMMA ComposeType ==
  ASSUME NEW g, NEW h
  PROVE  Compose(M, g, h) \in Graphs(M)
BY DEF Compose, Graphs, Arcs, None, Weak, Strict

\* The edges a loop may have are finitely many graphs.
LEMMA EdgesFinite ==
  ASSUME NEW F \in EdgeSets
  PROVE  IsFiniteSet(F) /\ F \subseteq Graphs(M)
BY ConstantsAssumption

\* A finite set of graphs is pushed as a sequence of graphs, each once.
LEMMA StackIsSeq ==
  ASSUME NEW S, IsFiniteSet(S), S \subseteq Graphs(M)
  PROVE  /\ SetToSeq(S) \in Seq(Graphs(M))
         /\ Len(SetToSeq(S)) = Cardinality(S)
         /\ \A x \in S : \E i \in 1 .. Len(SetToSeq(S)) : SetToSeq(S)[i] = x
<1>1. SetToSeq(S) \in [1 .. Cardinality(S) -> S] /\ Cardinality(S) \in Nat
  BY StackHoldsAll
<1>2. SetToSeq(S) \in Seq(S)
  BY <1>1
<1>3. Len(SetToSeq(S)) = Cardinality(S)
  BY <1>1, <1>2
<1>4. SetToSeq(S) \in Seq(Graphs(M))
  BY <1>1
<1> QED BY <1>3, <1>4, StackHoldsAll

-----------------------------------------------------------------------------
(* What one pop of the stack does, in the words the invariants use. *)

LEMMA ExtendFacts ==
  ASSUME TypeOK, Extend
  PROVE  \E new \in SUBSET Graphs(M) :
           /\ seen' = seen \cup new
           /\ work' \in Seq(Graphs(M))
           /\ \A e \in edges : Compose(M, work[Len(work)], e) \in seen'
           /\ \A x \in new : \E i \in 1 .. Len(work') : work'[i] = x
           /\ \A i \in 1 .. (Len(work) - 1) : \E k \in 1 .. Len(work') : work'[k] = work[i]
<1> DEFINE g == work[Len(work)]
           new == {Compose(M, g, e) : e \in edges} \ seen
           rest == SubSeq(work, 1, Len(work) - 1)
<1>1. /\ seen' = seen \cup new
      /\ work' = rest \o SetToSeq(new)
      /\ work # <<>>
  BY DEF Extend
<1>2. new \subseteq Graphs(M)
  BY ComposeType
<1>3. IsFiniteSet(new)
  BY EdgesFinite, ComposedFinite DEF TypeOK
<1>4. /\ SetToSeq(new) \in Seq(Graphs(M))
      /\ \A x \in new : \E i \in 1 .. Len(SetToSeq(new)) : SetToSeq(new)[i] = x
  BY <1>2, <1>3, StackIsSeq
<1>5. Len(work) \in Nat \ {0} /\ work \in Seq(Graphs(M))
  BY <1>1 DEF TypeOK
<1>6. /\ rest \in Seq(Graphs(M))
      /\ Len(rest) = Len(work) - 1
      /\ \A i \in 1 .. (Len(work) - 1) : rest[i] = work[i]
  <2>1. \A i \in 1 .. (Len(work) - 1) : work[i] \in Graphs(M)
    BY <1>5
  <2>2. /\ rest \in Seq(Graphs(M))
        /\ Len(rest) = IF 1 <= Len(work) - 1 THEN Len(work) - 1 - 1 + 1 ELSE 0
        /\ \A i \in 1 .. (Len(work) - 1) - 1 + 1 : rest[i] = work[1 + i - 1]
    BY <2>1, <1>5, SubSeqProperties
  <2> HIDE DEF rest
  <2>3. Len(rest) = Len(work) - 1
    <3>1. \A k \in Nat \ {0} : (IF 1 <= k - 1 THEN k - 1 - 1 + 1 ELSE 0) = k - 1
      OBVIOUS
    <3>2. Len(work) \in Nat \ {0}
      BY <1>5
    <3> QED BY <2>2, <3>1, <3>2, Zenon
  <2>4. ASSUME NEW i \in 1 .. (Len(work) - 1) PROVE rest[i] = work[i]
    <3>1. (Len(work) - 1) - 1 + 1 = Len(work) - 1 /\ 1 + i - 1 = i
      BY <1>5
    <3> QED BY <3>1, <2>2
  <2> QED BY <2>2, <2>3, <2>4
<1>7. /\ work' \in Seq(Graphs(M))
      /\ Len(work') = Len(rest) + Len(SetToSeq(new))
      /\ \A i \in 1 .. Len(rest) : work'[i] = rest[i]
      /\ \A i \in 1 .. Len(SetToSeq(new)) : work'[Len(rest) + i] = SetToSeq(new)[i]
  <2> DEFINE stack == SetToSeq(new)
  <2> HIDE DEF rest, new, stack
  <2>1. /\ rest \o stack \in Seq(Graphs(M))
        /\ Len(rest \o stack) = Len(rest) + Len(stack)
        /\ \A i \in 1 .. Len(rest) + Len(stack) :
             (rest \o stack)[i] = IF i <= Len(rest) THEN rest[i] ELSE stack[i - Len(rest)]
    BY <1>4, <1>6, ConcatProperties DEF stack
  <2>2. Len(rest) \in Nat /\ Len(stack) \in Nat /\ work' = rest \o stack
    BY <1>1, <1>4, <1>6 DEF stack
  <2> QED BY <2>1, <2>2 DEF stack
<1>8. \A x \in new : \E i \in 1 .. Len(work') : work'[i] = x
  <2> SUFFICES ASSUME NEW x \in new PROVE \E i \in 1 .. Len(work') : work'[i] = x
    OBVIOUS
  <2> HIDE DEF rest, new
  <2>1. PICK i \in 1 .. Len(SetToSeq(new)) : SetToSeq(new)[i] = x
    BY <1>4
  <2>2. Len(rest) + i \in 1 .. Len(work') /\ work'[Len(rest) + i] = x
    BY <2>1, <1>4, <1>6, <1>7
  <2> QED BY <2>2
<1>9. \A i \in 1 .. (Len(work) - 1) : \E k \in 1 .. Len(work') : work'[k] = work[i]
  <2> SUFFICES ASSUME NEW i \in 1 .. (Len(work) - 1)
               PROVE  i \in 1 .. Len(work') /\ work'[i] = work[i]
    OBVIOUS
  <2> HIDE DEF rest, new
  <2> QED BY <1>4, <1>5, <1>6, <1>7
<1>10. \A e \in edges : Compose(M, g, e) \in seen'
  BY <1>1
<1> QED BY <1>1, <1>2, <1>7, <1>8, <1>9, <1>10

\* The types hold when the closure starts.
LEMMA TypeInit ==
  ASSUME Init
  PROVE  TypeOK
<1>1. edges \in EdgeSets /\ floored \subseteq M /\ seen = edges /\ phase = "close"
  BY DEF Init
<1>2. IsFiniteSet(edges) /\ edges \subseteq Graphs(M)
  BY <1>1, EdgesFinite
<1>3. work \in Seq(Graphs(M))
  BY <1>2, StackIsSeq DEF Init
<1>4. mu \in Measures
  BY ConstantsAssumption DEF Init, Measures
<1> QED BY <1>1, <1>2, <1>3, <1>4 DEF TypeOK

\* Every step of the closure, the verdict and the run keeps the types.
LEMMA TypeStep ==
  ASSUME TypeOK, [Next]_vars
  PROVE  TypeOK'
<1>1. CASE Extend
  <2>1. seen' \subseteq Graphs(M) /\ work' \in Seq(Graphs(M))
    BY <1>1, ExtendFacts DEF TypeOK
  <2> QED BY <1>1, <2>1 DEF TypeOK, Extend
<1>2. CASE GiveUp
  BY <1>2 DEF TypeOK, GiveUp
<1>3. CASE Accept
  BY <1>3 DEF TypeOK, Accept
<1>4. CASE Reject
  BY <1>4 DEF TypeOK, Reject
<1>5. CASE \E e \in edges : Iterate(e)
  BY <1>5 DEF TypeOK, Iterate
<1>6. CASE Stop
  BY <1>6 DEF TypeOK, Stop
<1>7. CASE UNCHANGED vars
  BY <1>7 DEF TypeOK, vars
<1> QED BY <1>1, <1>2, <1>3, <1>4, <1>5, <1>6, <1>7 DEF Next

\* Every variable of the analysis keeps its type: the closure and the stack hold
\* graphs only, whatever the loop's edges are and however often they compose.
THEOREM TypeCorrect == Spec => []TypeOK
BY TypeInit, TypeStep, PTL DEF Spec

-----------------------------------------------------------------------------
\* When the closure starts every edge is on the stack.
LEMMA ClosedInit ==
  ASSUME Init
  PROVE  Closed
<1>1. edges \in EdgeSets /\ seen = edges /\ work = SetToSeq(edges)
  BY DEF Init
<1>2. \A g \in edges : \E i \in 1 .. Len(work) : work[i] = g
  BY <1>1, EdgesFinite, StackIsSeq
<1> QED BY <1>1, <1>2 DEF Closed

\* Popping a graph and pushing its new compositions loses none.
LEMMA ClosedExtend ==
  ASSUME TypeOK, Closed, Extend
  PROVE  Closed'
<1> DEFINE Waits(g) == \E i \in 1 .. Len(work) : work[i] = g
           Composed(g) == \A e \in edges : Compose(M, g, e) \in seen
<1>1. PICK new \in SUBSET Graphs(M) :
           /\ seen' = seen \cup new
           /\ \A e \in edges : Compose(M, work[Len(work)], e) \in seen'
           /\ \A x \in new : \E i \in 1 .. Len(work') : work'[i] = x
           /\ \A i \in 1 .. (Len(work) - 1) : \E k \in 1 .. Len(work') : work'[k] = work[i]
  BY ExtendFacts
<1>2. edges' = edges /\ Len(work) \in Nat
  BY DEF Extend, TypeOK
<1>3. edges \subseteq seen'
  BY <1>1 DEF Closed
<1>4. ASSUME NEW g \in seen'
      PROVE  Waits(g)' \/ Composed(g)'
  <2>1. CASE g \in new
    BY <2>1, <1>1
  <2>2. CASE g \in seen /\ Composed(g)
    BY <2>2, <1>1, <1>2
  <2>3. CASE g \in seen /\ Waits(g)
    <3>1. PICK i \in 1 .. Len(work) : work[i] = g
      BY <2>3
    <3>2. CASE i = Len(work)
      BY <3>1, <3>2, <1>1, <1>2
    <3>3. CASE i # Len(work)
      <4>1. i \in 1 .. (Len(work) - 1)
        BY <3>1, <3>3, <1>2
      <4> QED BY <4>1, <3>1, <1>1
    <3> QED BY <3>2, <3>3
  <2> QED BY <2>1, <2>2, <2>3, <1>1 DEF Closed
<1> QED BY <1>2, <1>3, <1>4 DEF Closed

\* No step loses a composition.
LEMMA ClosedStep ==
  ASSUME TypeOK, Closed, [Next]_vars
  PROVE  Closed'
<1>1. CASE Extend
  BY <1>1, ClosedExtend
<1>2. CASE UNCHANGED <<edges, seen, work>>
  BY <1>2 DEF Closed
<1> QED
  BY <1>1, <1>2 DEF Next, vars, GiveUp, Accept, Reject, Iterate, Stop

\* The worklist never loses a composition: with an empty stack, the set the
\* verdict is read from is closed under composition with every back edge.
THEOREM ClosureComplete == Spec => []Closed
<1>1. Init => Closed
  BY ClosedInit
<1>2. TypeOK /\ Closed /\ [Next]_vars => Closed'
  BY ClosedStep
<1> QED BY <1>1, <1>2, TypeCorrect, PTL DEF Spec

-----------------------------------------------------------------------------
(* Runs.  Measures cut at Low compose like the integers they stand for. *)

LEMMA ThroughAllows ==
  ASSUME NEW x \in Arcs, NEW y \in Arcs,
         NEW u \in Low .. High, NEW v \in Low .. High, NEW w \in Low .. High,
         ArcAllows(x, u, v), ArcAllows(y, v, w)
  PROVE  ArcAllows(Through(x, y), u, w)
BY ConstantsAssumption
   DEF ArcAllows, Through, Stronger, Arcs, None, Weak, Strict

\* A composed graph tells the truth of two steps when its parts do of each.
THEOREM ComposeSound ==
  ASSUME NEW g \in Graphs(M), NEW h \in Graphs(M),
         NEW m1 \in Measures, NEW m2 \in Measures, NEW m3 \in Measures,
         Allows(g, m1, m2), Allows(h, m2, m3)
  PROVE  Allows(Compose(M, g, h), m1, m3)
<1> SUFFICES ASSUME NEW i \in M, NEW k \in M
             PROVE  ArcAllows(Compose(M, g, h)[i, k], m1[i], m3[k])
  BY DEF Allows
<1> DEFINE via == {Through(g[i, j], h[j, k]) : j \in M}
<1>1. Compose(M, g, h)[i, k] =
        IF Strict \in via THEN Strict ELSE IF Weak \in via THEN Weak ELSE None
  BY DEF Compose
<1>2. \A j \in M : ArcAllows(Through(g[i, j], h[j, k]), m1[i], m3[k])
  <2> SUFFICES ASSUME NEW j \in M
               PROVE  ArcAllows(Through(g[i, j], h[j, k]), m1[i], m3[k])
    OBVIOUS
  <2>1. g[i, j] \in Arcs /\ h[j, k] \in Arcs
    BY DEF Graphs
  <2>2. m1[i] \in Low .. High /\ m2[j] \in Low .. High /\ m3[k] \in Low .. High
    BY DEF Measures
  <2>3. ArcAllows(g[i, j], m1[i], m2[j]) /\ ArcAllows(h[j, k], m2[j], m3[k])
    BY DEF Allows
  <2> QED BY <2>1, <2>2, <2>3, ThroughAllows
<1>3. \A a \in via : ArcAllows(a, m1[i], m3[k])
  BY <1>2
<1>4. ArcAllows(None, m1[i], m3[k])
  BY DEF ArcAllows, None, Weak, Strict
<1> QED BY <1>1, <1>3, <1>4

\* What the run relies on: by the time it begins the stack is empty, so the
\* closure absorbs one more edge; and the stretch so far is covered.
HistoryInv ==
  /\ TypeOK /\ Closed
  /\ phase = "run" => work = <<>>
  /\ start \in Measures
  /\ phase = "run" /\ path = <<>> => start = mu
  /\ PathCovered

\* With an empty stack the closure absorbs one more back edge.
LEMMA ClosureAbsorbs ==
  ASSUME Closed, work = <<>>, NEW g \in seen, NEW e \in edges
  PROVE  Compose(M, g, e) \in seen
<1>1. ~\E i \in 1 .. Len(work) : work[i] = g
  BY DEF Closed
<1> QED BY <1>1 DEF Closed

\* A back edge extends a stretch by an edge; the composition is in the closure.
LEMMA HistoryIterate ==
  ASSUME HistoryInv, NEW e \in edges, Iterate(e), Extended(e), UNCHANGED start
  PROVE  PathCovered' /\ path' # <<>>
<1>1. /\ phase = "run" /\ work = <<>> /\ edges' = edges /\ seen' = seen
      /\ mu' \in Measures /\ Allows(e, mu, mu')
  BY DEF Iterate, HistoryInv
<1>2. edges \subseteq seen /\ seen \subseteq Graphs(M) /\ mu \in Measures /\ start \in Measures
  BY DEF Closed, TypeOK, HistoryInv
<1>3. CASE path = <<>>
  <2>1. path' = <<e>> /\ start = mu
    BY <1>1, <1>3 DEF Extended, HistoryInv
  <2>2. path'[1] = e /\ path' # <<>>
    BY <2>1
  <2> QED BY <2>1, <2>2, <1>1, <1>2 DEF PathCovered
<1>4. CASE path # <<>>
  <2> DEFINE g == path[1]
  <2>1. path'[1] = Compose(M, g, e) /\ path' # <<>>
    BY <1>4 DEF Extended
  <2>2. g \in seen /\ Allows(g, start, mu)
    BY <1>1, <1>4 DEF PathCovered, HistoryInv
  <2>3. Compose(M, g, e) \in seen
    BY <1>1, <2>2, ClosureAbsorbs DEF HistoryInv
  <2>4. Allows(Compose(M, g, e), start, mu')
    BY <1>1, <1>2, <2>2, ComposeSound
  <2> QED BY <2>1, <2>3, <2>4, <1>1 DEF PathCovered
<1> QED BY <1>3, <1>4

\* Every step keeps the strengthened invariant of stretches.
LEMMA HistoryStep ==
  ASSUME HistoryInv, [HistoryNext]_allVars
  PROVE  HistoryInv'
<1>1. [Next]_vars
  BY DEF HistoryNext, Next, allVars
<1>2. TypeOK' /\ Closed'
  BY <1>1, TypeStep, ClosedStep DEF HistoryInv
<1>3. CASE (Extend \/ GiveUp \/ Reject \/ Stop) /\ UNCHANGED historyVars
  <2>1. phase' # "run"
    BY <1>3 DEF Extend, GiveUp, Reject, Stop, HistoryInv
  <2> QED BY <1>2, <1>3, <2>1 DEF HistoryInv, PathCovered, historyVars
<1>4. CASE Accept /\ Begin
  BY <1>2, <1>4 DEF HistoryInv, PathCovered, Accept, Begin
<1>5. ASSUME NEW e \in edges, Iterate(e), Extended(e), UNCHANGED start
      PROVE  HistoryInv'
  <2>1. PathCovered' /\ path' # <<>>
    BY <1>5, HistoryIterate
  <2> QED BY <1>2, <1>5, <2>1 DEF HistoryInv, Iterate
<1>6. ASSUME NEW e \in edges, Iterate(e), Begin
      PROVE  HistoryInv'
  BY <1>2, <1>6 DEF HistoryInv, PathCovered, Iterate, Begin
<1>7. CASE UNCHANGED allVars
  BY <1>2, <1>7 DEF HistoryInv, PathCovered, allVars, vars, historyVars
<1> QED BY <1>3, <1>4, <1>5, <1>6, <1>7 DEF HistoryNext

\* Every stretch of every run is a graph of the closure that tells the truth of
\* its two ends, so the verdict is read from what any execution can do.
THEOREM RunsCovered == HistorySpec => []PathCovered
<1>1. HistoryInit => HistoryInv
  <2> SUFFICES ASSUME HistoryInit PROVE HistoryInv
    OBVIOUS
  <2>1. TypeOK /\ Closed /\ phase = "close"
    BY TypeInit, ClosedInit DEF HistoryInit, Init
  <2> QED BY <2>1 DEF HistoryInv, HistoryInit, PathCovered, TypeOK
<1>2. HistoryInv /\ [HistoryNext]_allVars => HistoryInv'
  BY HistoryStep
<1>3. HistoryInv => PathCovered
  BY DEF HistoryInv
<1> QED BY <1>1, <1>2, <1>3, PTL DEF HistorySpec

=============================================================================
