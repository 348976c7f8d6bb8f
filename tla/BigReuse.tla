------------------------------- MODULE BigReuse -------------------------------
(***************************************************************************)
(* The mutable bignum (ir/bigreuse.go): the pass that lets a bignum call   *)
(* write its result into the object a loop parameter holds, beside the     *)
(* machine that runs the rewritten function with a heap of objects and the *)
(* meaning each value would have if nothing were ever written into.        *)
(*                                                                         *)
(* A function is a tree of regions: a function from region names to        *)
(* [params, stmts, exit], "F" the outermost.  Every value is a bignum; the *)
(* words, and the comparisons that choose an arm, are left out, so an arm  *)
(* is chosen freely.  pi-parameters are not modelled: SelectBig has        *)
(* renamed those of bignums away before the pass runs.  The content of an  *)
(* object is the number of the computation that produced it: two           *)
(* computations are never assumed to agree.                                *)
(***************************************************************************)
EXTENDS Integers, Sequences, FiniteSets, SequencesExt

CONSTANTS Rewritable, \* the functions the pass is run on
          MaxObjects \* how many computations a run makes, at most

Nowhere == "none"

VARIABLES fn,      \* the function
          pending, \* its loops the pass has not looked at
          dest,    \* for each bignum call, the value whose object it writes into
          frames,  \* the regions being run, innermost last
          ref,     \* the object each value is
          heap,    \* the content of each object
          pure,    \* what each value denotes
          made     \* computations so far

reuseVars == <<fn, pending, dest, frames, ref, heap, pure, made>>

---------------------------------------------------------------------------
(* The shape of a function. *)

Stmts(f) == UNION {{<<r, i>> : i \in DOMAIN f[r].stmts} : r \in DOMAIN f}
At(f, p) == f[p[1]].stmts[p[2]]
Place(f, v) == {p \in Stmts(f) : At(f, p).res = v}
LoopsOf(f) == {p \in Stmts(f) : At(f, p).op = "loop"}
BodyOf(f, l) == At(f, l).sub[1]

\* An arm is reached from a region through branches only.
RECURSIVE Arms(_, _)
Arms(f, r) == {r} \cup IF f[r].exit.t = "branch"
                       THEN UNION {Arms(f, a) : a \in Range(f[r].exit.arms)}
                       ELSE {}
InIteration(f, r, body) == r \in Arms(f, body)

\* The exits of kind t that belong to region r, then-arms first.
RECURSIVE OwnExits(_, _, _)
OwnExits(f, r, t) ==
  LET e == f[r].exit
      below(s) == IF t = "yield" \/ s.op = "loop" THEN <<>>
                  ELSE FlattenSeq([k \in DOMAIN s.sub |-> OwnExits(f, s.sub[k], t)])
  IN  (CASE e.t = t        -> <<e.args>>
         [] e.t = "branch" -> OwnExits(f, e.arms[1], t) \o OwnExits(f, e.arms[2], t)
         [] OTHER          -> <<>>)
      \o FlattenSeq([k \in DOMAIN f[r].stmts |-> below(f[r].stmts[k])])

ExitArgs(f, r) == IF f[r].exit.t = "branch" THEN <<>> ELSE f[r].exit.args

\* How many times v is read, as an operand or as an exit's argument.
Uses(f, v) ==
  Cardinality({<<p, k>> \in Stmts(f) \X (1..3) :
                 k <= Len(At(f, p).args) /\ At(f, p).args[k] = v})
  + Cardinality({<<r, k>> \in (DOMAIN f) \X (1..3) :
                 k <= Len(ExitArgs(f, r)) /\ ExitArgs(f, r)[k] = v})

RECURSIVE RegionReads(_, _)

\* Everything read in a region, the regions of its operations and its arms.
StmtReads(f, s) == Range(s.args) \cup UNION {RegionReads(f, q) : q \in Range(s.sub)}
ExitReads(f, r) ==
  IF f[r].exit.t = "branch" THEN UNION {RegionReads(f, a) : a \in Range(f[r].exit.arms)}
  ELSE Range(f[r].exit.args)
RegionReads(f, r) == UNION {StmtReads(f, s) : s \in Range(f[r].stmts)} \cup ExitReads(f, r)

---------------------------------------------------------------------------
(* The pass. *)

Operations == {"big-of", "big*"}  \* the calls that allocate

\* The call v's object comes from, when every link from it is read once.
RECURSIVE Fresh(_, _, _)
Fresh(f, d, v) ==
  IF Uses(f, v) # 1 THEN {}
  ELSE UNION {CASE At(f, p).op = "big-fit" -> Fresh(f, d, At(f, p).args[1])
                [] At(f, p).op \in Operations /\ d[v] = Nowhere -> {p}
                [] OTHER -> {} : p \in Place(f, v)}

\* What the pass knows flows into a value: a parameter's sources, a loop's or
\* an if's results.
JoinIns(f, v) ==
  UNION ({{At(f, l).args[j]} \cup {e[j] : e \in Range(OwnExits(f, BodyOf(f, l), "continue"))} :
             <<l, j>> \in {<<l, j>> \in LoopsOf(f) \X (1..3) :
                             j <= Len(f[BodyOf(f, l)].params) /\ f[BodyOf(f, l)].params[j] = v}}
         \cup {{e[1] : e \in Range(OwnExits(f, BodyOf(f, p), "break"))} :
                 p \in {p \in Place(f, v) : At(f, p).op = "loop"}}
         \cup {{e[1] : e \in UNION {Range(OwnExits(f, q, "yield")) : q \in Range(At(f, p).sub)}} :
                 p \in {p \in Place(f, v) : At(f, p).op = "if"}})

Values(f) == {At(f, p).res : p \in Stmts(f)} \cup UNION {Range(f[r].params) : r \in DOMAIN f}

\* Every value that may hold the object of one of h.
RECURSIVE Holders(_, _, _)
Holders(f, d, h) ==
  LET more == {v \in Values(f) \ h :
                 \/ d[v] \in h
                 \/ \E p \in Place(f, v) : At(f, p).op = "big-fit" /\ At(f, p).args[1] \in h
                 \/ JoinIns(f, v) \cap h # {}}
  IN  IF more = {} THEN h ELSE Holders(f, d, h \cup more)

\* What is read after statement p, to the end of the iteration: a region's
\* branch is its last act, so what encloses an arm has all been before it.
ReadAfter(f, p) ==
  UNION {StmtReads(f, f[p[1]].stmts[k]) : k \in (p[2] + 1)..Len(f[p[1]].stmts)}
  \cup ExitReads(f, p[1])

\* Mutant: an object allocated before the loop renews it too.
Renews_Before(f, d, body, owned, v) ==
  \/ \E q \in owned : f[body].params[q] = v
  \/ Fresh(f, d, v) # {}

\* A continue may bind slot j to an owned parameter's object, or to one
\* allocated in this iteration.
Renews(f, d, body, owned, v) ==
  \/ \E q \in owned : f[body].params[q] = v
  \/ \E p \in Fresh(f, d, v) : InIteration(f, p[1], body)

\* The owned parameters: violators are removed until none is left.
RECURSIVE Owned(_, _, _, _)
Owned(f, d, l, candidates) ==
  LET body  == BodyOf(f, l)
      conts == OwnExits(f, body, "continue")
      drop(o, j) ==
        IF j \in o /\ (Fresh(f, d, At(f, l).args[j]) = {}
                       \/ \E e \in Range(conts) : ~Renews(f, d, body, o, e[j]))
        THEN o \ {j} ELSE o
      twice(o, e) == {j \in o : \E k \in o \ {j} : e[j] = e[k] /\ e[j] \in Range(f[body].params)}
      kept == FoldLeft(LAMBDA o, e : o \ twice(o, e),
                       FoldLeft(drop, candidates, [j \in DOMAIN f[body].params |-> j]), conts)
  IN  IF kept = candidates THEN kept ELSE Owned(f, d, l, kept)

\* The calls of one continue, each given an owned parameter's object to write
\* into when it is an operand nothing reads afterwards.
Destine(f, body, owned, state, v) ==
  LET params == f[body].params
      s      == Fresh(f, state.dest, v)
      free(p) == {j \in owned \ state.taken :
                    /\ params[j] \in Range(At(f, p).args)
                    /\ Holders(f, state.dest, {params[j]}) \cap ReadAfter(f, p) = {}}
  IN  IF \E p \in s : At(f, p).op = "big*" /\ InIteration(f, p[1], body) /\ free(p) # {}
      THEN LET p == CHOOSE p \in s : TRUE
               j == CHOOSE j \in free(p) : \A k \in free(p) : j <= k
           IN  [dest |-> [state.dest EXCEPT ![At(f, p).res] = params[j]],
                taken |-> state.taken \cup {j}]
      ELSE state

Destinations(f, d, l) ==
  LET body  == BodyOf(f, l)
      owned == Owned(f, d, l, DOMAIN f[body].params)
      continue(dd, e) ==
        FoldLeft(LAMBDA st, v : Destine(f, body, owned, st, v), [dest |-> dd, taken |-> {}], e).dest
  IN  FoldLeft(continue, d, OwnExits(f, body, "continue"))

RECURSIVE RegionsOf(_, _)
RegionsOf(f, r) ==
  {r} \cup UNION {RegionsOf(f, q) : q \in UNION {Range(s.sub) : s \in Range(f[r].stmts)}}
      \cup IF f[r].exit.t = "branch" THEN UNION {RegionsOf(f, a) : a \in Range(f[r].exit.arms)} ELSE {}

---------------------------------------------------------------------------
(* The machine. *)

ReuseInit ==
  /\ fn \in Rewritable
  /\ pending = LoopsOf(fn)
  /\ dest = [v \in Values(fn) |-> Nowhere]
  /\ frames = <<[region |-> "F", at |-> 1]>>
  /\ ref = [v \in Values(fn) |-> 0]
  /\ heap = <<>>
  /\ pure = [v \in Values(fn) |-> 0]
  /\ made = 0

\* The pass, one loop at a time and inner loops first.
Rewrite ==
  \E l \in pending :
    /\ \A m \in pending \ {l} : m[1] \notin RegionsOf(fn, BodyOf(fn, l))
    /\ pending' = pending \ {l}
    /\ dest' = Destinations(fn, dest, l)
    /\ UNCHANGED <<fn, frames, ref, heap, pure, made>>

Frame == Last(frames)
Here == fn[Frame.region]
Put(fr) == [frames EXCEPT ![Len(frames)] = fr]
AtStmt == pending = {} /\ frames # <<>> /\ Frame.at <= Len(Here.stmts)
Leaving == pending = {} /\ frames # <<>> /\ Frame.at > Len(Here.stmts)
Stmt == Here.stmts[Frame.at]

\* A call that makes a bignum: into a new object, or into its destination's.
Compute ==
  /\ AtStmt /\ Stmt.op \in Operations /\ made < MaxObjects
  /\ made' = made + 1
  /\ pure' = [pure EXCEPT ![Stmt.res] = made + 1]
  /\ IF dest[Stmt.res] = Nowhere
     THEN /\ heap' = Append(heap, made + 1)
          /\ ref' = [ref EXCEPT ![Stmt.res] = Len(heap) + 1]
     ELSE /\ heap' = [heap EXCEPT ![ref[dest[Stmt.res]]] = made + 1]
          /\ ref' = [ref EXCEPT ![Stmt.res] = ref[dest[Stmt.res]]]
  /\ frames' = Put([Frame EXCEPT !.at = @ + 1])
  /\ UNCHANGED <<fn, pending, dest>>

\* vs are bound to what as are, together.
Bind(vs, as) ==
  LET from(v) == as[CHOOSE j \in DOMAIN vs : vs[j] = v]
  IN  /\ ref' = [v \in DOMAIN ref |-> IF v \in Range(vs) THEN ref[from(v)] ELSE ref[v]]
      /\ pure' = [v \in DOMAIN pure |-> IF v \in Range(vs) THEN pure[from(v)] ELSE pure[v]]
      /\ UNCHANGED <<fn, pending, dest, heap, made>>

\* big-fit checks a value against its bound and is that value.
Fit ==
  /\ AtStmt /\ Stmt.op = "big-fit"
  /\ Bind(<<Stmt.res>>, Stmt.args)
  /\ frames' = Put([Frame EXCEPT !.at = @ + 1])

EnterLoop ==
  /\ AtStmt /\ Stmt.op = "loop"
  /\ Bind(fn[Stmt.sub[1]].params, Stmt.args)
  /\ frames' = Append(frames, [region |-> Stmt.sub[1], at |-> 1])

EnterIf ==
  /\ AtStmt /\ Stmt.op = "if"
  /\ \E q \in Range(Stmt.sub) : frames' = Append(frames, [region |-> q, at |-> 1])
  /\ UNCHANGED <<fn, pending, dest, ref, heap, pure, made>>

TakeArm ==
  /\ Leaving /\ Here.exit.t = "branch"
  /\ \E a \in Range(Here.exit.arms) : frames' = Put([region |-> a, at |-> 1])
  /\ UNCHANGED <<fn, pending, dest, ref, heap, pure, made>>

\* The operation a region being run belongs to.
Owner == LET fr == frames[Len(frames) - 1] IN fn[fr.region].stmts[fr.at]

GoRound ==
  /\ Leaving /\ Here.exit.t = "continue"
  /\ Bind(fn[Owner.sub[1]].params, Here.exit.args)
  /\ frames' = Put([region |-> Owner.sub[1], at |-> 1])

\* A loop is left by a break and an if by a yield.
Leave ==
  /\ Leaving /\ Here.exit.t \in {"break", "yield"} /\ Len(frames) > 1
  /\ Bind(<<Owner.res>>, Here.exit.args)
  /\ frames' = [Front(frames) EXCEPT ![Len(frames) - 1].at = @ + 1]

Return ==
  /\ Leaving /\ Here.exit.t = "yield" /\ Len(frames) = 1
  /\ frames' = <<>>
  /\ UNCHANGED <<fn, pending, dest, ref, heap, pure, made>>

ReuseNext == \/ Rewrite \/ Compute \/ Fit \/ EnterLoop \/ EnterIf \/ TakeArm
        \/ GoRound \/ Leave \/ Return

ReuseSpec == ReuseInit /\ [][ReuseNext]_reuseVars

---------------------------------------------------------------------------
(* Properties. *)

\* The values whose digits the next step looks at.
Read ==
  CASE AtStmt /\ Stmt.op \in {"big*", "big-fit"} -> Range(Stmt.args)
    [] Leaving /\ Here.exit.t = "yield" /\ Len(frames) = 1 -> Range(Here.exit.args)
    [] OTHER -> {}

\* No computation, and not the function's result, ever sees an object that was
\* written into since the value it stands for was made: the rewritten function
\* computes what the one without destinations does (rule R).
ReadsAgree == \A v \in Read : heap[ref[v]] = pure[v]

=============================================================================
