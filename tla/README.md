# A TLA+ development of the Oroboros compiler

Oroboros is a compiler, written in Go, from a small functional language to Go,
Java, JavaScript and LLVM.  Most of what can go wrong in it is not in its text
processing but in what it *claims* about a program: that an integer never leaves
a machine word, that a loop ends, that an object may be overwritten, that an
index is in its table, that a conjunction of inequalities has no solution.
Every later pass, and the emitted program, relies on those claims without
checking them again.  Most modules here state an algorithm that makes a claim,
run it beside the executions the claim is about, and say that the claim is true.
The others are about the tool that guards the compiler itself: `cmd/check`, its
baseline and its worker pools.

## 1. The system

### Parts and state

| part | source | state | operations |
|---|---|---|---|
| core language | `core/` | terms with bindings, names, declarations | read, scope, desugar, reduce, rename hygienically |
| cells and places | `core/cell.go`, `place.go`, `outcell.go` | a term, fresh names, the places met | thread state, join arms, carry through loops, refuse |
| refinement layer | `emit/refine.go`, `linear.go`, `translation.go`, `fact.go`, `requires.go`, `ensures.go` | linear facts about names, a scope of assumptions | assume, substitute, entail, find invariants, check a requirement |
| affine check | `emit/linearity.go` | moved and live buffers along a term | walk, fork, rejoin |
| representation choices on terms | `emit/product.go`, `retract.go`, `content.go`, ... | terms | rewrite |
| Omega test | `presburger/omega.go` | a conjunction of rows, a budget, a recursion | normalise, eliminate, shadow, splinter |
| the IR | `ir/ir.go`, `lower.go`, `typing.go`, `verify.go` | structured SSA: regions, statements, exits | lower, type, verify, print, read |
| interval analysis | `ir/endpoint.go`, `interval.go`, `bitival.go` | a fact per value, an undo list per arm, a stack of loops | transfer, narrow, propagate backwards, restore, iterate |
| loop bounds and termination | `ir/trip.go`, `sct.go` | trip bounds, linear forms, size-change graphs | bound, refine, compose, decide |
| legality | `ir/decide.go`, `pipeline.go` | marks on operations | decide, decide again after each rewrite |
| number representations | `ir/numbers.go`, `words.go`, `pairs.go`, `limbs.go`, `doubles.go`, `big.go` | one representation per value | select, rewrite |
| the mutable bignum | `ir/bigreuse.go` | owned parameters, destinations | own, find holders, rewrite |
| storage and realization | `ir/storage.go`, `realize.go` | table storages, cached instances | allocate, substitute, repeat |
| back ends | `ir/golang`, `java`, `js`, `llvm`, `emit/target.go` | text | print |
| the checker | `cmd/check/` | a baseline of four files, a log, worker pools | sweep, compare, time, accept, regenerate |
| other tools | `cmd/` | files | build, run |

### How they interact

`ir/pipeline.go` runs one function through the parts in a fixed order: the
surface forms have been desugared (cells and places among them), then checks on
the term (`CheckLinear`, `Refine`), lowering, `SelectNumbers`, `Fuse`, `Decide`,
then each selection of a representation followed by `Decide` again, then storage
and realization in at most eight rounds.  There are no threads and no messages
inside a compilation: the parts interact through *facts* and through the shape
of the term.  The translation of cells writes terms in which a table is named
once on every path; the affine check relies on that shape and lets the back ends
overwrite.  The refinement layer proves an index in range and no check is
emitted.  The interval analysis computes one fact per value; trip bounds are met
into those facts and the body is analysed again under them; the termination
verdict and the legality decision are read from the facts; the selections
rewrite the function and throw its facts away.  The recursion
`loop -> region -> loop` runs the fixpoint of an inner loop once for each
evaluation of the outer one.

`cmd/check` is concurrent and persistent.  One run compiles every program on
every target with a pool of goroutines, compares what was emitted and how long
it took with files under `gauntlet/check/`, times suspects again beside the
compiler of the baseline's commit, runs the suites, and with `-accept` replaces
the files.  Beside it a developer edits the compiler and commits or reverts the
files; runs fail and are interrupted.

### What is hard

* **Order of steps on shared facts.**  Facts are one mutable array.  An arm
  narrows it and must put it back; one value can be narrowed several times;
  trip bounds change it under exits recorded earlier.  Equations and
  inequalities of the refinement layer arrive in any order, and a cache of
  rewritten rows lies between them.
* **Fixpoints.**  The analysis must end, and what it holds when it ends must be
  a post-fixpoint or nothing; an invariant is assumed while it is checked.
* **Boundaries.**  128-bit ends that saturate, 64-bit words that wrap, `int64`
  coefficients, divisions that round in different directions.
* **Termination arguments** over all interleavings of several back edges.
* **Aliasing and order of evaluation.**  A bignum call may write into an
  operand's object; a store overwrites a table in place; an operand that writes
  a cell changes what the operands after it read.
* **Cut-offs.**  4096 graphs, 64 rounds, four refinements, a budget of
  elimination steps: each must end in "not known".
* **Failure between two writes.**  The baseline is four files written one after
  the other with a second compile sweep between them.
* **Noise.**  Compile times are measured on a busy machine; what noise adds
  must be neither reported as a regression nor recorded as a baseline.

### What makes each part correct

* domain: every operation holds every result; facts are canonical;
* region: a fact is true in the arm the execution is in, and leaving an arm
  restores it exactly;
* loop: head, exit and trip facts are true of every execution; the iteration
  reaches its fixpoint; a loop said to halt does;
* size change: the closure is complete or its verdict is "not known"; an
  accepted loop stops;
* refinement: what is proved follows from what was assumed, nothing assumed is
  lost, and an accepted loop indexes inside its table;
* affine check and bignum reuse: no value is read after its object was written
  into through another name;
* cells: the translated term computes what the program computes in program
  order, and uses each table once;
* pairs: an accepted program computes the integers it computes without the pass,
  and no operation on digits leaves the word;
* Omega: the answer is the one the integers give, or "unknown";
* checker: a run that ends green agrees with the baseline it leaves; the
  baseline changes in one piece, with evidence and a log entry, or the run
  fails; a regression is reported; the pools return with every result in its
  place.

The hazards at their lines, and the properties aimed at each, are in
`PROJECT.json`.

## 2. The modules

### `IntervalDomain`, `BitIntervals`, `BitOperations`: `endpoint.go`, `interval.go`, `bitival.go`

The lattice of intervals as operators.  An interval is the record the code has:
`lo`, `hi`, `nlo`, `phi`, `bot`.  An end is an integer in `-EMax..EMax`; an
operation whose result leaves that range is what the code's 128-bit end is when
`ok()` fails, and the operation takes the infinity its code takes.
`BitIntervals` adds the two's-complement operations, the windows they go
through, the shifts and the unsigned word `U = 0..UMax`; `BitOperations` adds
what a program computes with them, beside the interval it is given.  The three
are pure operators with no variables; they are used by the machines below, and
the first is what `IntervalDomainProofs` is about.

### `RegionRun`: the analysis of a region

The state is the code's: `def` (the statement that defines a value), `fs` (its
fact), the undo lists of the arms that are open; and beside it `val`, the value
each has in one execution.  `Const` and `Stmt` are `intervals.stmt` with the
interpreter's meaning of the operation next to it; `Enter` is `cond` for one or
two comparisons with the backward propagation `back` to its depth of three;
`Leave` is `restore`, newest first, with the join of an `if`.  A dead arm is one
the execution cannot be in, so `Sound` says it is dead rightly.
The operations of the ring are in the module; those on bits and words are
parameters of it (`OtherOps` and their meaning, domain and interval), which
`MCRegionRun` sets to those of `BitOperations`.  `back` is a chain of functions,
one for each depth.

### `IntervalLoop`: the analysis of a loop, then its execution

`Body` evaluates the body once under the current facts (`round` in the code);
`Ascend` compares and widens; `GiveUp` is the exhausted budget; `Descend`,
`Install`, `Trip`, `TripDone` and `Verdict` follow `intervals.loop` line by
line: the two meets, the re-evaluation, up to `TripRounds` refinements by
ranking, geometric and pair bounds, exit narrowing and the termination verdict
with the size-change graphs it builds from the facts at each continue.  Then
`Enter` and `Iterate` run the loop from any value its initial facts allow.  The
analysis is one machine and the execution another; the properties relate what
the first wrote to what the second does.
A loop is a chain of guarded exits; a guard compares an expression with an
operand and computes no quotient, so that it has a value wherever it is reached.
An expression is one operation, so a linear form has at most two terms before a
difference is taken (`LinearForm` has the deeper ones); `ScaleMax` stands for the
2^31 - 1 beyond which a literal scales no form.

### `SizeChangeGraphs`, `SizeChange`, `SizeChangeHistory`: `sct.go`

Graphs, composition and the idempotence test as operators; the closure worklist
with its stack, its set and its cut as a machine; and, once it has accepted, a
run of the loop whose measures obey some edge's graph at every back edge.
`SizeChangeHistory` adds two history variables, where a stretch of the run
began and the composition of the edges taken since.

### `LinearForm`: the forms of `trip.go`

A form is built as `linForm` builds it, with coefficients that wrap at
`CoefBits`, beside the exact form; `Evaluations` is the set of results the
summation over a Go map, whose order is unspecified, can give.

### `Farkas`, `FactSets`, `LinearFacts`: `emit/linear.go`

`Farkas` is the entailment itself: `Proves(le, g)` by one fact, a scaled fact,
two facts added, two facts with a name cancelled, or Fourier-Motzkin elimination
of the facts connected to the goal (`Connected`, `Cheapest`, `Projected`,
`Refuted`).  Arithmetic wraps except where the code checks (`Combines`).
`FactSets` is the solved form of the equations: `FactSubstitute` rewrites a row
in at most eight passes over the map, `Solved` adds an equation, `Residue` is
what an equation that cannot be solved leaves.  `LinearFacts` is the machine a
fact set is: `AssumeLE`, `AssumeEQ` and `Ask` in any order, with the cache
`sub` of rewritten inequalities and its version.  `assumed` is a history of what
the caller said.

### `RefineLoop`: the loops of `emit/refine.go`

A loop over one table is a tree of comparisons, reads, `again` and exits.
`Enter` takes the facts its steps give (`iterate`); `Probe` is a round of
`houdini` over the templates true at the entries; `Walk` checks every index
under the facts of its path (`Guard` with its pending clauses) and, where that
fails, peels the first iteration and seeks the invariants of the later ones.
An accepted loop is summarised (`summarizeLoop`) and then run by `Start` and
`Iterate` on some table.  Every fact is proved with `Farkas`'s `Proves` and
`FactSets`'s equations: the module composes the refinement layer's two halves.

### `Affine`: `emit/linearity.go`

A term over buffers: names, reads, stores, appends, lengths, copies, observers,
conditionals, lets, builds, host calls with a continuation, loops and jumps.
`CheckLinear` is the code's: the scan that finds what each binder holds, and one
walk per buffer with its states `live`, `moved` and their rejoining.  `Executions`
runs the term on objects that stores overwrite; `agrees` records whether every
use of a buffer finds the contents it had when it was made.  Contents are
abstracted to a version (how many stores were made into the object), conditions
are free.

### `LocalTerms` and `LocalState`: `core/cell.go`, `place.go`, `outcell.go`

`LocalTerms` has the terms and one evaluator, for programs with cells and places
and for the terms without them that the translation writes.  `LocalState` is the
translation as operators over a record `tr` (fresh names, places met, refused or
not): operands threaded left to right, an `if` joining the tuples of its arms, a
loop carrying the cells it writes, continuations, borrow scopes, calls that
lend a place, hosts that write cells, concurrent assignments of tables, and the
rules R0 to R4.  `Translate` then `RunBoth` evaluate a program and its image on
the same input.

### `BigReuse`: `bigreuse.go`

A function is a tree of regions.  `Rewrite` runs the pass on one loop, inner
loops first: the greatest set of owned parameters, then a destination for each
call of a continue that has an owned operand nothing reads afterwards.  The
machine then runs the rewritten function on a heap of objects, with `pure`, the
content each value would have had if nothing were overwritten.  Guards are left
out, so arms and trips are free: every path the function's shape allows is run.

### `Omega`: `presburger/omega.go`

`solve`'s recursion as a machine with a stack of set-aside conjunctions and one
action per case of the code: `Normalize`, `EliminateUnit`, `EliminateModHat`,
`DropOneSided`, `Contradictory`, `Eliminate` (exact), `TryDark`, `TryReal`,
`Splinter`/`NextSplinter`, `Exhausted`.  Every checked operation is collected in
a set of intermediate results; one outside the word, `-WordBound` to
`WordBound - 1`, ends the question, as the recovered panic does.  Operations the
code does not check wrap.

### `PairDigits` and `Pairs`: `pairs.go`

On a target whose word is too narrow (JavaScript's), a value of `0..2^64-1` is
held as `[hi, lo]`, two digits base `B = 2^32`.  `PairDigits` is the expansions as
operators: a digit is a record of its value, the fact the *second* decision
derives for it, whether it is a constant (the pass folds those) and whether every
operation behind it is proven in the word.  `Pairs` is the pass rewriting a
function statement by statement beside an execution of it: `t` is the integer the
program computes, `fact` what the *first* decision knew, `d` the digits the
written operations give.  Its actions are a binary or unary operation, a shift or
quotient by a constant, a `mod 2^n` over fused operations, and a join.  A
statement the pass refuses is no step, and no step follows a digit the second
decision cannot prove, since the program is refused.

### `EmissionGate` and `BaselineLedger`: `cmd/check/emission.go`, `compiletime.go`, `paired.go`, `main.go`

`EmissionGate` is a run of the checker, step by step (`Start`, `Sweep`,
`Screen`, `Confirm`, `Pair`, `CompareBaseline`, `Suites`, `AcceptRun`), and the
writes of an accept in their order: `RemoveEmitted`, `CopyEmitted` file by file,
`WriteOutcomes`, `SweepAgain`, `WriteTimes`, `AppendLog`.  `disk` is the working
tree's baseline and `git` the committed one.  The environment is two more
actors: a developer who edits the compiler between runs, commits the baseline or
restores it, and the faults: a write that fails (`WriteFails`, the run goes on
and reports it) and an interruption, either with the write in progress cut short.
`Torn` is what can then be read: nothing (a line does not parse), the first
records whole, or the first records with the last one cut.  A cut record often
parses: a shorter hash is a hash (`emission.go:265`), notes that are missing or
cut are not missed (`emission.go:272`), and `12` of `1234` is a time
(`compiletime.go:150`).  `Curtailed` says what is read of an outcome that is cut,
`CutTimes` of a time.  An emitted file that is cut counts as one not copied: no
run reads those files.

`BaselineLedger` is the abstract specification: the files change together with
an entry of the log that names their outcomes, or the run does not report
success.  `EmissionGate` implements it under the mapping `files <- ` the baseline
held when the accept under way began, until it ends.

### `SweepPool` and `Regenerate`: `emission.go:153`, `gauntlet.go:129`

The sweep's goroutines: a feeder on an unbuffered channel, workers that store in
the job's own place, `Close`, `Done`, `Return`.  The parallel regeneration: a
semaphore, a scratch file that is truncated, written and read by the compiler,
and the verdict over all entries.

### The `MC` modules and configurations

The `MC` module of a machine holds its instances (`MCAffine`, `MCRefine`, ...).
Four more modules hold several independent machines in one specification: a
selector variable, `subject`, `analysis` or `part`, says in the initial state
which of them a behaviour is, and the other machines' variables stay at one
value.  These machines share no state in the code either, so nothing is
composed that way but the runs: `MCLoopAffine` (the loop analysis, the affine
check, the cells), `MCBounds` (size change, linear forms, pairs),
`MCLinearPools` (the Omega test, fact sets, the loops of the refinement layer,
the two pools) and `MCGateReuse` (the gate, bignum reuse).  The modules that do
compose components that interact are `RefineLoop` (entailment, equations and
loops), `IntervalLoop` (domain, trip bounds and size-change graphs), `Pairs`
(digits and the domain of the decision after the pass) and `MCCheckPools` (the
sweep, then the regeneration, as a run of the checker has them).

## 3. What TLC checks

| run | question | states | time |
|---|---|---|---|
| `region` | every operation on every pair of canonical intervals with ends around zero, around both words, near the representation's end, or infinite; computations, arms of one or two comparisons and nested arms, in any order | 1.15M | 130 s |
| `loop` | 1120 loops with one guard, 252 with two continues, and the latter with a budget of two rounds; 13544 terms over buffers; 1859 programs with cells and places | 524K | 75 s |
| `bounds` | 1711 sets of at most two graphs on two measures; linear forms of sums and one scaling; two statements of every kind the pairs pass expands | 325K | 205 s |
| `linear_pools` | the Omega test against an exhaustive search; up to three assumptions and any questions between them; 216 loops over a table; the pools at every `-jobs` | 139K | 195 s |
| `gate_reuse` | two runs of the gate with edits, commits, reverts, noise, failures and interruptions; bignum functions: loops, joins, two arms, loops in loops | 7.19M | 230 s |
| `cells_branches`, `reuse_hoisted`, `affine_order`, `pairs_overflow`, `refine_leak`, `refine_missed`, `gate_unlogged` | a sentence of the source that the code does not keep | - | seconds |

Times are with two workers and coverage on.

The properties, and what each says:

* `Sound` (region): a fact holds the value it is about, in the arm the execution
  is in.  `CanonicalFacts`: no fact is a second spelling of its set.
  `ArmRestored` (an action property): leaving an arm gives back every outer
  fact.
* `HeadSound`, `ExitSound`, `TripSound`: the loop's claims about parameters,
  passed and returned values, and back edges, against executions.
  `Converges`: the budget is never what ends the ascent.  `HaltsTrue`
  (liveness): a loop said to halt leaves.
* `Closed`, `PathCovered`, `Terminates` (liveness): the worklist loses nothing,
  every stretch is a graph of the closure, an accepted loop stops.
* `StepSound`: the step of a difference holds every execution's.
* `StoresUnseen`: no run of an accepted term reads, stores into, freezes or
  returns a buffer that was stored into through another name, for terms that are
  `InOrder`: no operand of a read or store hands on the buffer it is about, and a
  loop does not use in its body what it was started from.  `AcceptedOrdered`
  (violated) is the same for every accepted term.
* `SameMeaning`: a translated program has the value of the program and makes the
  host's effects in the same order, unless it takes apart a conditional whose
  arms write (`ConditionalOperand`) or binds a place's name again
  (`RebindsPlace`); `ProgramOrder` (violated) has neither exception.
  `SingleThreaded`: no use of a table in the translated program sees one whose
  object was stored into since, unless an operand of an element's read or write,
  or of a call that lends it, writes that place (`OperandWritesPlace`).
* `ReadsAgree`: what is read is what it would have been without destinations.
* `PairsTypeOK`: digits are digits and the second decision's facts hold them.
  `RepresentationIndependent` (ADR 0083): where every fact lies in what a
  representation holds, the digits and words of an accepted program are the
  integers the program computes, or their residues where only those are read.
  `DigitsProven`: only a result written into the word can be refused by the
  second decision; the expansions' own steps are all proven ("integers below
  2^34").  `AcceptedDenotes` (violated): the same as the first without the
  condition on the facts.
* `Correct`: an answer of the Omega test is that of an exhaustive search.
  `Decides`: a question of small numbers gets one.
* `FactsKept`: the inequalities and the solved form have the solutions of what
  was assumed, no more and no fewer.  `EntailmentSound`: what is proved is true
  wherever the assumptions are, whatever came since the cache was filled.
  `CertificateFound`: a question with a rational certificate of small weights is
  proved, in whatever order assumptions came.  `OrderUnseen`: the order in which
  the equations' map is walked changes no rewriting.
* `IndexInRange`: an accepted loop never indexes outside its table.
  `InvariantsHold`: what houdini kept is true at the head, the peeled loop's from
  the second iteration on.  `ResultSummarized`: what is recorded of the result
  is true at whichever exit was taken.
* `GreenBaseline`: a run that swept and exits with zero agrees with the baseline
  it leaves; after an accept the four files agree with each other and the log
  ends with that run, whatever an interrupted accept had left before.
  `BaselineJudged`: outcomes.txt is the beginning of the file of one run whose
  compiler and differential suites passed, with every outcome as that run had it
  except the last, which may be cut: a later run can be judged by an outcome that
  never was in that one place only.
  `RegressionReported`: a compile slower, by the rule, than its baseline time and
  than the baseline's own compiler is reported; noise, second sweep and pair let
  none through.  `NoSilentSlowdown` (action property): no accept raises a time by
  the rule's amount without having reported it.  `AcceptIsAtomic` (refinement):
  `BaselineLedger!Spec`.  `EveryChangeLogged` (violated): after a green run the
  log ends with the baseline's outcomes.
* `SweepComplete`, `SweepReturns` (liveness), `VerdictExact`, `Regenerated`
  (liveness): the pools, at every interleaving and at `-jobs` below one.

### Bounds, and why they are enough

* `EMax` 15 to 31 for 2^127: each operator's control depends on signs, on
  comparisons of ends and on whether a result fits.  With `EMax = 15` and ends
  up to 9, sums, products and shifts have results inside, at and beyond the
  representation, with every sign; `WordBits = 2` puts the ends of both words
  among the intervals' ends.  The proofs below remove the bound for most
  operations.
* Values where an arm begins (`MaxValues`, 3), comparisons of the open arms
  (`MaxAtoms`, 2): a shared operand needs one statement, an undo in the wrong
  order needs two narrowings of one value, and an arm in an arm needs two
  levels.  `PairRels` keeps two of the six relations for guards that conjoin
  two comparisons; every order of the operands is there, so their converses are.
* Loops of two parameters: a pair bound and a lexicographic descent need two.
  `LoopBudget` 24 stands for 64; the families converge in fewer, which is what
  `Converges` checks, and the loops given a budget of two rounds make the
  opposite happen.  Executed values are followed to `ValMax` and back edges
  counted to `TripCap`; a run beyond is `cut`, and TLC follows it no further.  The
  loop's theorems hold for every `ValMax` and `TripCap`.
* Size change: two measures have 81 graphs; a set has at most two of those in
  which the first measure is bounded by itself or the measures only by each
  other; with the measures exchanged these are all the graphs that a run can
  repeat, but pairs of which each bounds its own measure alone are left out
  (they compose to a graph without arcs).
  `Cap` 8 cuts some closures and leaves most; `Low..High` is three values, so a
  strict arc can be taken at most twice before a floor, and every infinite run
  repeats.
* Linear forms: `CoefBits` 7, `LitBound` 8, `Depth` 3 for 64, 2^31 and 6, and
  literals -6, -1, 2, 7.  `MaxScales` 1: three nested scalings pass the word, in
  the model as in the code (below), and two do not fit the literals kept.
* Buffers: one declared parameter, one frozen table and names bound on the way;
  a buffer that dies in one arm, in a let inside an operand or in a loop within
  a loop needs no more.  `MaxTrips` 2: what the first iteration stored, the
  second reads.  A loop has two names, one that may hold a buffer.
* Cells: one number cell and one table, with a second table for the concurrent
  moves and a second cell for nested scopes; every statement around each of
  thirteen operands that read, write, loop, call or borrow.  `Inputs` 0..2 takes both
  arms of every condition; `MaxPasses` 4 is more than any loop of the family runs.
  One borrowing definition (returning a unit or a number) and the hosts `scan`,
  `scan2` and `read` stand for callees.  10 of the 1859 programs are refused, 91
  have a conditional operand that writes, 136 an operand that writes its place;
  the last two groups are what the exceptions are for.
* Bignum: two parameters, three calls and six computations: an object passed
  round twice and overwritten once.
* Pairs: `H = 4` is half a digit, so a digit has four bits and the unsigned word
  eight, and the target's word is `-63..63`: 63 = 4B - 1 is the source's "below
  2^34", the narrowest word its claim about the steps allows.  Parameters are 15,
  63 and -63, so both signs, a full digit and a carry are there; loops give every
  digit pattern the carries need.  Two statements, the second reading the first's
  result once: the result of an expansion is an operand of another, of a join, or
  of a `mod`.  `EMax` is beyond every fact two statements derive but a product's,
  which saturates.
* Omega: two bounded variables, so that the box searched holds every solution.
  Numbers to `Easy` (12) exercise each branch, non-exact elimination (two
  coefficients above one) and splinters included, and must be decided; larger
  ones leave the word (`WordBound` 4096 for 2^63) or the budget of 60 steps (the
  code's is 200000).  A variable the mod-hat step makes reuses a number whose variable
  is gone: only the order of names matters to the procedure and a new name
  still comes last.
* Facts: three names (`Spoken`), three assumptions and values to 3
  (`Reach`): a name solved in terms of a name that is solved later needs three
  names and two equations.  With three names the rewriting reaches its fixpoint
  in fewer than the eight passes.  The tables' limits (`MaxFacts` 160, `MaxRows`
  4096) are the code's; no question here reaches them, nor an overflow in
  `combine`, so those cut-offs, which can only lose an answer, are not exercised.
* Loops of the refinement layer: two parameters and one table; `Elements`
  {-1, 1, 5} fall below, inside and above a table of `MaxLength` 2, and
  `MaxIters` 4 passes its end twice.  A translation combines two parameters with
  coefficients -2..2, for which the model's closed form is the code's
  elimination.  The loops of the passing run jump back past no read that binds a
  name used later and have no exit below a read; those shapes are the two
  violation runs.
* The gate: two programs, so that one file is written and one not when a write is
  cut; `MaxRuns` 2, so that a run starts from whatever another left; `MaxLog` 4
  is more than two runs write.  Four compilers: another text and a refusal with a
  compile slower than before only with noise, a source removed with a compile
  slower by the rule, a faster one, one that is not deterministic.  `Noise`
  {0, 2} with `SlowDelta` 4: noise alone can make a compile a suspect, and a
  measured time can have two digits, so that a cut leaves a smaller one.  Of the
  outcomes, `Curtailed` cuts "a" to one that no compile has and "b" to "a", as
  when the two differ in a note; the refusal is not cut in the instance (its
  notes would be), and the theorems hold for any `Curtailed`.
  `MaxFailing` 1: each guard of an accept fails alone.
* The pools: five jobs and five entries with at most three at once; two entries
  are one source ported to two hosts.

### Fairness

`Terminates` assumes `WF` of the next step of the size-change run: the
compiler's own loop and the compiled loop's back edges are both straight-line
code that nothing suspends.  `HaltsTrue` assumes `WF` of an iteration only: the
emitted loop evaluates its body again whenever it can.  That the analysis ends
is not assumed; its phases are bounded by counters, and `Converges` is a safety
property.  `SweepReturns` and `Regenerated` assume `WF` of a step of the pools:
the Go scheduler runs some goroutine that can run, and a compilation ends.  No
goroutine is assumed to run before another.  The gate has no liveness property:
a run may be interrupted for ever.

Runs whose programs stop turn deadlock checking off: a loop that was left and a
term that was run are the end of a behaviour.  `linear_pools` keeps it on for the
Omega test: a question without an answer and without a step is an error.

### Disagreements

Seven runs expect a violation, each of a sentence the source states.

1. `cells_branches`, `core/cell.go:683`: taking a product apart threads the
   operands of any application headed by a name; where that is an `if`, both
   arms are evaluated, one after the other, with their writes, against
   `docs/spec/local.md:173`.
2. `affine_order`, `emit/linearity.go:363`: a read or a store is tested before
   its operands are walked and not after, and a loop's body is walked before the
   values it starts from, against "it walks in EVALUATION ORDER"
   (`linearity.go:20`).  The state translation writes neither shape.
3. `refine_leak`, `emit/refine.go:1566`: an invariant of the later iterations of
   a peeled loop may name what the first iteration read; an index outside the
   table is accepted.
4. `refine_missed`, `emit/refine.go:2158`: an exit below a `let` whose body also
   jumps back is taken for a back edge, and the summary of the result is what
   the other exits establish.
5. `reuse_hoisted`, `ir/bigreuse.go:229`: an initialiser has to be read once but
   not to be allocated in the iteration of the loop around, against the induction
   of `bigreuse.go:22`.  It is confirmed on the IR; whether a source program
   reaches it depends on the reducer keeping a binding outside a loop, which
   `core/work.go` does for a use inside a loop's body.
6. `pairs_overflow`, `ir/pairs.go:779`: an exact operation that leaves
   `0..2^64-1` is expanded modulo 2^64.  In general its digits, written into the
   word, are not proven there and the program is refused; where they fold to
   constants, as those of `x << 64` do, they are, and the decision that did not
   prove the statement has been replaced (`pipeline.go:167`).
7. `gate_unlogged`, `cmd/check/emission.go:501`: an accept that fails at its
   second sweep has written the outcomes; the next run passes against them and
   the log has no entry.  `AcceptIsAtomic` holds all the same, since that accept
   did not report success.

Known and without a run of their own:

* `presburger/omega.go:193`: the negated constant of a unit pivot is not checked,
  and the least word is its own negation, against "an overflow is "unknown",
  never a wrong answer" (`omega.go:439`).  No question of the passing run solves
  an equality with that constant, and it is the one hypothesis of the theorem
  about the answers (`NegationFits`): nowhere else can an overflow be wrong.
* `ir/trip.go:303`: three nested scalings by literals pass 2^63 in unchecked
  arithmetic, against "which is sound" (`trip.go:183`).  The passing run has one
  scaling, so `StepSound` does not meet it.
* `core/place.go:33`: an image is called single-threaded by construction; an
  operand of an element's write that writes the same place, as in a call
  `f(b, (b[0] := 5; b[0]))`, passes R0 to R4 and is not.  `SingleThreaded` has
  the exception.
* `core/cell.go:376`: a place's name is recorded and not removed at the end of its
  scope; a later binding of that name is read under the place's threaded
  name, which nothing binds.  `SameMeaning` has the exception.

## 4. What is proved

Eight modules of proofs, checked by TLAPS with no assumption but the constants'
and the hypotheses a theorem states.

`SizeChangeProofs` (parameters: any finite set of measures, any family of finite
sets of graphs, any cut, any finite range):

* `TypeCorrect`: `Spec => []TypeOK`.  Inductive as it stands, once the stack is
  known to be a sequence of graphs; that turning a finite set of new graphs into
  a sequence loses none of them is the lemma `StackHoldsAll`.
* `ClosureComplete`: `Spec => []Closed`.  `Closed` relates the stack to the set:
  every graph seen is on the stack, or each of its compositions with an edge has
  been seen.  It is inductive together with `TypeOK`; popping a graph is the only
  step that can break it, and the same step adds its compositions.
* `ComposeSound`: two graphs true of two consecutive steps compose to one true
  of both.
* `RunsCovered`: `HistorySpec => []PathCovered`.  `PathCovered` is not
  inductive: an extended stretch is in the closure only if the closure is
  complete *while the loop runs*.  The strengthening (`HistoryInv`) adds `TypeOK`,
  `Closed`, that the stack is empty in every phase after the closure, and the
  types of the history variables.

What remains of the argument in `sct.go`, that by Ramsey's theorem every
infinite run has an idempotent graph infinitely often, is a liveness argument
over infinite sequences and stays with `Terminates` and TLC.

`IntervalDomainProofs` (parameter: any `EMax`): `JoinSound`, `MeetExact`,
`WidenSound`, `WidenThresholdSound`, `NegSound`, `AddSound`, `SubSound`,
`MulFiniteSound`, `MulSound`, `DivSound`, `RemSound`, `ModSound`, `NarrowSound`,
`InvSquareSound`, `InvMulConstSound`.  Each says the operation is well formed and
holds the results; the saturating cases are the ones that need the proof.  A
finite product goes through a lemma that a product of two values lies between two
corners, and a well-founded choice of the least and greatest corner that fits; a
product of rays through the order of ends extended by the infinities
(`ExtendedCorners`).  A quotient truncates towards zero: its monotonicity is
proved for positive divisors and mirrored (`QuoMonotone`, `QuoMirror`).

`IntervalLoopProofs` (parameters: any loops with any number of parameters,
guards and exits, any word, any numbers of rounds, any bounds on the execution;
`LoopAssumption` asks that literals are ends, that the rounds fit the budget and
that a literal which scales a form is small beside the ends): every safety
property of the loop but `Converges`.

* The state of an execution does not say where it started, which is what a trip
  bound is about, so the invariant is about *runs*: `Runs(n)` are the sequences
  of `n + 1` values at the head that start where the initial facts allow and go
  round at a continue.  `Covers(c)`: the facts `c` hold at the end of every run.
  `Bounding(b)`: no run is longer than `b`.
* `LoopInv` then says: the records are those of the facts at the head
  (`RecordsOK`, which is what `Install` must keep when facts change under
  recorded exits); from the end of the ascent on the facts cover the runs
  (`FactsOK`); what the verdict answers holds at each exit of each run
  (`AnswersOK`); the execution is at the end of a run no shorter than the back
  edges it counted (`RunningOK`); and the trip bound is one.
* During the ascent nothing is known of the facts, and nothing needs to be: when
  a round changes nothing they hold all the transformer makes of them
  (`AscentSound`), and a post-fixpoint covers the runs (`PostFixpointCovers`, by
  induction along a run).  Giving up is sound because the top does.  A
  descending round meets facts that cover the runs with the transformer's, which
  cover them too (`TransformCovers`).
* `LeastBoundSound` and `RefinementsSound` are the two theorems of `trip.go`,
  `RankBoundSound` and `TripIntervalSound`, applied to the loop: each continue's
  steps are in the interval found for them (`DeltaSound`, `StepFactsSound`,
  `FormStepsSound`), so a run drifts by no more than their sum (`Drift`).  For a
  pair of parameters the step is a linear form, and every order of its terms
  gives an interval that holds it (`AnyOrderSound`): the sum saturates, so the
  intervals differ, but none is wrong.
* `LoopInvariant` has one lemma per action (`BodyInv` to `IterateInv`);
  `LoopTypeOK`, `LoopHeadSound`, `LoopExitSound` and `LoopTripSound` read the
  four properties off it.

Where a definition recurs over a loop's guards, exits or terms the proofs use
`Recursion`, an induction lemma stated with sets and functions instead of
operators; it gives the function the definition chooses.

`RegionRunProofs` (parameters: any bound of the ends, any parameters, arguments
and literals, any bounds on statements, comparisons and arms, any operations
beyond the ring's): the three properties of the region, for every program.

* `Fact(a, z)`: `a` is an interval, the one spelling of its set, and holds `z`.
  Each operation of the ring gives a fact of its result from facts of its
  operands (`AddFact` to `ModFact`), by the theorems of the domain; that the
  result is normalised is the other half of the work.  A difference is met with
  what one operand was computed from the other by: `DeltaSound`, by induction over
  the definitions between the two.
* `Kept(st)` is what holds while guards narrow: the facts are facts of the same
  values, and putting the saved ones back gives the facts outside the arm.
  `Undoes` says the latter without recursion: the *oldest* saved fact of a value
  is what it was, and a value with none has not changed.  `RestoreFacts` shows
  that `restore`, newest first, computes just that.  `LevelKeeps`: one level of
  `back` keeps it if the level below does, for the inverse of each operation; a
  square and a product by a literal are the cases a sum is not.  Four levels give
  `BackKeeps`, and a comparison with its mirror `CondKeeps`.
* `RegionInv`: every value is what its definition computes from earlier ones
  (`Explained`: without it an inverse proves nothing), its fact is a fact of it,
  and for each open arm the facts saved on the way in put back those that were in
  force outside, which are still facts.  It is needed for every open arm at once,
  because leaving one makes the next the innermost (`LeaveInv`).
* `FactsAlwaysSound`, `FactsAlwaysCanonical`, `ArmsAlwaysRestored` have one
  hypothesis, `OthersSound`: where an operation beyond the ring's runs, it gives a
  fact of its result from facts of its operands.  For the operations on bits and
  words that is a statement about `2^n` and bitwise operators, of which the
  provers know nothing; the first half of the run `region` evaluates it, operation
  by operation, on every pair of its intervals and arguments.
  `RingProgramsSound`: with no such operation nothing is assumed.

`PairProofs` (parameter: any half digit `H >= 2`, a power of two): `AddPairSound`,
`SubPairSound`, `NegPairSound`, `NotPairSound`, `MulPairSound`, `MovesSound`: the
digits each expansion writes are digits, and denote the operation's result modulo
`B*B`, for every pair.  The argument has two halves.  Folding changes no value:
each of the pass's writers (`add`, `subt`, `mul`, `and`, `shr`) gives the value of
the operation it stands for, whatever is a constant (`PlusValue` to
`ShiftedValue`).  Then one lemma, `DigitsOfResidue`, turns an equation
`x = k*B*B + h*B + lo` into the digits of `x`, and each theorem exhibits the
equation: `k` is -1 or 0 for sums, and for the product what the discarded
`hi*hi` and the wrapped cross terms contribute.  The theorems are about values
only: that every step is proven in the word (`DigitsProven`) needs the soundness
of the mask's and the shift's intervals and is model-checked, as are the shifts
of a pair and the Boolean operations on digits, which use bitwise operators.

`EmissionGateProofs` (parameters: any number of programs, any outcomes, any
compilers, any noise that only adds, any faults, any number of runs): every
property of the gate that a passing run checks.  All six rest on `GateInv`:
`Ranges`, what each variable may hold, and `Staged`, what each stage of a run may
rely on, above all which files an accept has written so far.

* `GateTypeOK`: `GateInv` and the bound of the log.
* `AcceptIsAtomicHolds`: `Spec => AcceptIsAtomic`, by refinement.  Each step maps
  to a step of the ledger or a stutter (`LedgerStep`); `AppendLog`, the last
  write, is the ledger's `Accept` (`LedgerAccept`), and needs from `Staged` that
  the three files written before it agree.
* `BaselineJudgedHolds`: `JudgedInv` adds that a run past its guards has its
  outcomes among the judged ones, and that the committed outcomes are judged
  too, since a developer may restore them at any time.  `TornFacts` says what a
  cut leaves of any table: records in the order of the file, all but the last
  whole; so every state of the file is the beginning (`Begins`) of a judged one.
* `GreenBaselineHolds`: `GreenInv` carries "the outcomes agree" from the
  comparison to the end of the run.
* `RegressionReportedHolds`, `NoSilentSlowdownHolds`: both from `TimedInv`: a
  measured time is at least the true cost until a pair replaces it, and every
  program that is slower by the times a run would record is in its report.  The
  argument needs that the rule is monotone (`SlowerMonotone`), that noise only
  adds (`TrueCost`) and that the second sweep only lowers a time (`LowerTimes`).

The same module proves the pools (any number of jobs or entries, any `-jobs`):

* `SweepCompleteHolds`: every job sent is in its place or with a worker
  (`JobsAccounted`), and all workers have ended when the sweep returns.
* `VerdictExactHolds`: what a compile reads is its own source (`OwnSource`),
  because no two entries write one scratch file (`OneScratch`, from the module's
  assumption about `regen.txt`).  The step then passes exactly when no copy is
  stale.

`OmegaProofs` (parameters: any questions, any number of variables, any word, any
budget): the answers of the Omega test are those of the integers.

* A conjunction is `Solvable` if some integers satisfy every row; the theorems of
  the single steps say what a step does to that.  `NormalSound`: the gcd divides
  a row and the floor of its constant loses no integer.  `UnitSound`: an
  equality solved for a unit coefficient.  `ModHatSound`: the new variable has a
  value at every solution (`ModHatValue`), and the equality the step keeps gives
  the old one back.  `ExactSound`, `DarkSound`, `RealComplete`: the shadows.  The
  dark shadow's room `(a-1)*(b-1)` leaves an integer between the greatest lower
  bound and every upper one; where a coefficient is a unit there is no room to
  ask for and the two shadows are one.  `SplinterCover`: a solution that some
  pair of the dark shadow misses is at most `Top` above that pair's lower bound,
  whatever the upper coefficient, because `Top` is taken from the largest.
  A variable may reuse a number: `New` says it occurs in no row, and a row is
  indifferent to a variable with coefficient 0 (`AtChange`).
* The stack is the argument's shape.  `Means(f)` is the question a conjunction set
  aside is waiting for: whether its dark shadow, its real shadow or the splinter
  it has come to is solvable.  `Standing(f)` is what the answers so far settled:
  no solution in the dark shadow and none in an earlier splinter.  `Linked` says that each conjunction on the stack is solvable exactly
  when what the one below it waits for is so, the lowest when the question is;
  `Sought` says it of the conjunction under way, or of the value returned.  `OmegaInv` adds the types and `Answers`; one lemma
  per action (`NormalizeStep` to `AnsweredStep`), with `PushLinked` and `PopLinked`
  for the stack.
* What a step computes is rows of integers; `Solve` makes words of them only if
  every number fits, and otherwise there is no answer.  So `OmegaInv` holds of
  every overflow but one: the constant `omega.go:193` negates unchecked.
  `NegationFits` says that where an equality is about to be solved for a unit
  coefficient its constant is not the least word, and the theorems have
  `Spec /\ []NegationFits`.  The behaviours this leaves out are those of the
  disagreement listed above, in which the answer really can be wrong; every
  state of the run satisfies it.
* `OmegaCorrect`: "sat" is answered only where integers satisfy the question,
  "unsat" only where none do.  `OmegaCorrectInBox` is the run's property
  `Correct`, which looks for solutions in a box, under `BoxSuffices`: a question
  with solutions has one in the box.

`LinearFactsProofs` (parameters: any number of names, any word of at least two
bits, any bounds on multipliers, facts and rows, any inequalities, equations and
questions): the fact set of the refinement layer, over all integers.

* `ProvesSound`: what the rules prove of a goal holds at every point that
  satisfies the facts.  One fact, two facts and a name cancelled give a row whose
  value is a combination of theirs (`MatchingSound`); elimination is sound because
  each combination of an upper with a lower bound is (`CombinedSound`), the row
  divided by its gcd with its constant rounded up loses no integer
  (`NormalFacts`), and a round gives up rows but invents none (`RoundSound`), so
  no system that a point satisfies is ever refuted (`RefutedSound`).
* `RewritingComplete`, `AnyOrder`: the equations are a solved form (`SolvedForm`:
  a ranking in which each equation is about names that rank later or have no
  equation).  A pass in any order leaves no name of the least rank there was
  (`PassRises`), so with at most eight equations eight passes leave none; two
  rows without such a name and with the same value wherever the equations hold
  are the same row (`SameRow`, by the points that set the free names to 0 and
  1), even if the arithmetic wraps, because values agree modulo the word.
* `CacheAlwaysExact`: `Cached` says that a cache of the present version holds the
  first inequalities rewritten by the present equations.  An equation makes it
  stale by its version; an inequality makes it short; a question completes it.
* `EntailmentAlwaysSound`: `Kept` (the fact set says no more than was assumed)
  with `AnswerSound`, inductive with the types and the cache.
  `OrderAlwaysUnseen`: a new equation is for a name that has none and about names
  that have none, because it was rewritten completely; so it ranks last and
  `SolvedForm` is inductive.  `NothingLost`, `FactsAlwaysKept`: `Lossless`, the
  other half of `Kept`, needs just that.
* Two hypotheses are stated, each of every state.  `NothingWraps`: `addScaled`,
  `scaled` and the matching rules compute in unchecked machine words, and the
  hypothesis is that nothing they are asked to compute leaves the word.  (The
  elimination checks its own arithmetic and needs no hypothesis.)
  `FewEquations`: at most eight equations are in scope, the number of passes
  `substitute` makes.  With more, and an order of the map that meets a chain
  backwards, a name with an equation can survive a rewriting and be solved for
  again, which takes the place of its equation: an assumption is lost, so less is
  proved, but never more; `EntailmentAlwaysSound` does not need the hypothesis.
  `EightNames` has it of every fact set of no more than eight names.  TLC finds
  both hypotheses true in every state of the fact sets of `linear_pools`.

Only model-checked: the operations on bits and words of `BitIntervals` and
`BitOperations` (powers of two and bitwise operators), alone and in `RegionRun`;
everything in `BigReuse`, `Pairs`, `Affine`, `LocalState` and `RefineLoop`, whose
walks and Boolean operations are recursive or bitwise operators that the provers
cannot use; `CertificateFound`,
which is about how complete the elimination is, and holds of certificates with
small weights; `Converges`, which is about how many different facts widening
by thresholds can go through, and holds of the families TLC runs and not of every
loop; `Decides`, which is about how large the numbers and how many the steps of
small questions become, a matter of the family asked; `HaltsTrue` and the other
liveness properties.

Some of them are no theorems as they stand: `IndexInRange`, `ResultSummarized` and
`ReadsAgree` are false of some loops and functions, as the runs `refine_leak`,
`refine_missed` and `reuse_hoisted` show, so that they hold of the families TLC is
given and would need a condition that excludes those cases.

## 5. Not modelled

Whole components: the reader, the reducer and the other surface forms (states are
terms, and their properties are about syntax); typing, lowering and verification
of the IR; the representation passes other than the bignum's and the pairs'; the
choices of representation on terms; storage and realization; the order of the
pipeline; printing and reading the IR; the back ends, which make up most of the
implementation's lines and are text generation; the drivers other than
`cmd/check`; libraries, targets and examples.  `PROJECT.json` lists each with its
reason.

In what is modelled:

* analyses of integers: element and length facts, buffers, calls to host
  primitives, fused modular operations, in-word promotion, loops inside loops
  (in `IntervalLoop`), the sixteen-factor cut of the thresholds;
* `Pairs`: comparisons of pairs and counts that are not constants (the pass
  refuses them), regions of a build, pairs boxed for a host call or an entry
  point's result, the relational refinement of differences, closed constants
  under a `mod` (`Fuse` folds them);
* refinement: opaque terms (a value read is a name about which nothing is
  known), finite sets, squares, quotients, lengths and contents threaded through
  loops, `requires` and `ensures` of calls, case splits of goals, `monotoneStep`,
  the joins of conditionals, the memo tables; `RefineLoop` asks `Proves` without
  the cache that `LinearFacts` has;
* affine check: map buffers, which take the path of tables, and the wording of
  refusals;
* cells: map places, stores into a row (`b[i][j]`), lists of out cells, `case`
  arms (an elimination's translation), and the reducer, which discharges the
  marks R4 leaves: an image that still has a write counts as refused;
* the checker: the steps `vet`, `gauntlet` and `ir` in the exit code, the drift
  figure and every report, `-regen`, the commit a log entry names; an append to
  the log is one step; a pair is free of noise, which is what it is for; the
  developer acts between runs only.

## 6. Plan

Done: the domain, regions, loops, size change, linear forms, bignum reuse, the
Omega test, the unsigned word as a pair, the affine check, the refinement layer's
facts and loops, cells and places, the checker's gate with its ledger, the
pools, and the proofs above.

Next, in the order of their worth:

1. `pipeline.go`: the rounds of storage, realization and decision over an
   abstract set of facts, with the property that no decision outlives the
   rewrite that invalidates it.
2. `words.go`: the conversions between the signed and the unsigned word, against
   the residue maps; `limbs.go`'s carries after it; the shifts of `pairs.go` and
   `DigitsProven` as theorems.
3. The walks of `Affine` and `RefineLoop` as recursive functions over the size of
   a term, so that `StoresUnseen` can be proved as the region was, and
   `IndexInRange` for the loops that are accepted without peeling.
4. The image of `LocalState` as a program of `Affine`: that R0 to R4 imply
   `InOrder`, which would discharge that condition of `StoresUnseen`.
5. Elements of a table, in regions and in trip bounds.
6. Loops inside loops: `intervals.loop` as a stack, with the trip bound of an
   earlier evaluation.
7. `requires` and `ensures` across calls, with a summary of a loop used by the
   loop after it.
