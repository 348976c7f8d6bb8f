---------------------------- MODULE EmissionGate ----------------------------
(***************************************************************************)
(* cmd/check: the emission sweep against a committed baseline, the gate on *)
(* compile time, and -accept, which makes a run's emission the baseline.   *)
(*                                                                         *)
(* The baseline is four files that are written one after the other: the    *)
(* emitted code, outcomes.txt, compiletime.txt and the log ACCEPTED.md.    *)
(* Beside the checker there is a developer, who edits the compiler between *)
(* runs, commits the baseline or restores it, and a fault: a write that    *)
(* fails, or a run that is interrupted between two steps or in a write.    *)
(*                                                                         *)
(* A program is one source on one target.  An outcome stands for the hash  *)
(* of the emitted text and the lines the compiler printed; a refusal is an *)
(* outcome too.  A cost is the CPU time of one compile and noise only adds *)
(* to it, in the sweep; a pair cancels it.                                 *)
(***************************************************************************)
EXTENDS Naturals, Sequences, FiniteSets, Functions

CONSTANTS
  NPrograms,    \* programs are 1 .. NPrograms, in the order of the files
  Emissions,    \* the outcomes that emit
  Refusals,     \* the outcomes that do not
  Curtailed,    \* what is read of each outcome when the file ends inside its record
  Codes,        \* the compilers a developer may write: see Code
  Noise,        \* what a busy machine adds to a compile
  SlowDelta,    \* the least difference the rule calls slower (slowDelta)
  StepSets,     \* the sets of steps a run may be asked for
  Faults,       \* a subset of {"io", "crash"}
  Missing, Malformed, \* a file that is not there, and one that does not parse
  MaxFailing,   \* bound: suites that fail in one run
  MaxRuns,      \* bound: runs of the checker
  MaxLog        \* bound: entries of the log

Programs == 1 .. NPrograms
Outcomes == Emissions \cup Refusals
\* What a record of outcomes.txt can be read as.
Records == Outcomes \cup UNION {Curtailed[o] : o \in Outcomes}
Steps == {"compiler", "emission", "differential", "tooling"}

\* What a compiler does: outcomes and costs of the sources there are, and the
\* sources for which its output is not a function of its input.
Code == [out: UNION {[S -> Outcomes] : S \in SUBSET Programs},
         cost: [Programs -> Nat], flaky: SUBSET Programs]

ASSUME GateAssumption ==
  /\ NPrograms \in Nat /\ SlowDelta \in Nat \ {0} /\ Noise \subseteq Nat /\ 0 \in Noise
  /\ Codes \subseteq Code
  /\ Emissions \cap Refusals = {}
  /\ DOMAIN Curtailed = Outcomes
  /\ MaxLog \in Nat \ {0}
  /\ Faults \subseteq {"io", "crash"} /\ StepSets \subseteq SUBSET Steps

IsTable(f, V) == DOMAIN f \subseteq Programs /\ \A p \in DOMAIN f : f[p] \in V
EmptyTable == [p \in {} |-> 0]

VARIABLES
  code,      \* the compiler in the working tree
  disk,      \* gauntlet/check/ in the working tree
  git,       \* the same as last committed, with the compiler committed with the times
  pc,        \* where the run is; "idle" between runs
  asked,     \* the flags of the run
  result,    \* the status of each step (c.results)
  outs,      \* the outcomes of the sweep (c.emitted)
  times,     \* the times -accept would record (c.times)
  found,     \* changes, slow and fast compiles, and which baselines there are
  swept2,    \* a second sweep has run
  held,      \* history: the baseline when the accept under way began
  runs,      \* runs so far
  judged     \* history: the outcomes of runs whose suites passed

run == <<asked, result, outs, times, found, swept2>>
vars == <<code, disk, git, pc, run, held, runs, judged>>

-----------------------------------------------------------------------------
(* The rule for compile time, and the comparison of two sweeps.            *)

\* 1.5 times the time and SlowDelta more.
Slower(b, n) == 2 * n >= 3 * b /\ n >= b + SlowDelta
Both(f, g) == DOMAIN f \cap DOMAIN g
SlowerOf(base, now) == {p \in Both(base, now) : Slower(base[p], now[p])}
FasterOf(base, now) == {p \in Both(base, now) : Slower(now[p], base[p])}
MinTimes(a, b) == [p \in DOMAIN a \cup DOMAIN b |->
                     IF p \notin DOMAIN b \/ (p \in DOMAIN a /\ a[p] <= b[p]) THEN a[p] ELSE b[p]]
\* The programs on which two sweeps differ: new, removed, or another outcome.
Compare(old, new) == {p \in DOMAIN old \cup DOMAIN new :
                        p \notin Both(old, new) \/ old[p] # new[p]}

\* One sweep: a deterministic source gives its outcome, a flaky one any; every
\* compile is measured with some noise.
SweepOutcomes(c) == {f \in [DOMAIN c.out -> Outcomes] :
                       \A p \in DOMAIN c.out : p \in c.flaky \/ f[p] = c.out[p]}
SweepTimes(c) == {[p \in DOMAIN c.out |-> c.cost[p] + e[p]] : e \in [DOMAIN c.out -> Noise]}

\* Mutant: the file of a program that is refused is left where it was.
Emitted_Refused(f) == f

Emitted(f) == Restrict(f, {p \in DOMAIN f : f[p] \in Emissions})

-----------------------------------------------------------------------------
NoFindings == [changes |-> {}, slow |-> {}, fast |-> {}, noBaseline |-> FALSE, noTimes |-> FALSE]
Skipped == [s \in Steps |-> "skip"]
NotAsked == [accept |-> FALSE, retime |-> FALSE, steps |-> {}]

\* A baseline written by an accept of compiler c, or none.
Accepted(c) == [emitted |-> Emitted(c.out), outcomes |-> c.out, times |-> Restrict(c.cost, DOMAIN c.out),
                log |-> << [outs |-> c.out, slow |-> {}] >>]
NoBaseline == [emitted |-> EmptyTable, outcomes |-> Missing, times |-> Missing, log |-> << >>]

AtRest ==
  /\ asked = NotAsked /\ result = Skipped /\ found = NoFindings
  /\ outs = EmptyTable /\ times = EmptyTable /\ swept2 = FALSE

Init ==
  /\ code \in {c \in Codes : c.flaky = {}}
  /\ disk \in {Accepted(code), NoBaseline}
  /\ git = [baseline |-> disk, code |-> code]
  /\ pc = "idle" /\ AtRest /\ held = NoBaseline /\ runs = 0
  /\ judged = IF disk = NoBaseline THEN {} ELSE {code.out}

\* The flags -accept, -retime, -skip and -only.
Start ==
  /\ pc = "idle" /\ runs < MaxRuns /\ Len(disk.log) < MaxLog
  /\ \E accept, retime \in BOOLEAN, steps \in StepSets :
       /\ retime => accept
       /\ asked' = [accept |-> accept, retime |-> retime, steps |-> steps]
       /\ pc' = IF "emission" \in steps THEN "sweep" ELSE "suites"
  /\ runs' = runs + 1
  /\ UNCHANGED <<code, disk, git, result, outs, times, found, swept2, held, judged>>

\* The step ends with a status; the steps after it run all the same.
EndEmission(status) ==
  /\ result' = [result EXCEPT !["emission"] = status]
  /\ pc' = "suites"

Sweep ==
  /\ pc = "sweep"
  /\ outs' \in SweepOutcomes(code)
  /\ times' \in SweepTimes(code)
  /\ pc' = "screen"
  /\ UNCHANGED <<code, disk, git, asked, result, found, swept2, held, runs, judged>>

\* compileTime: the sweep against compiletime.txt.
Screen ==
  /\ pc = "screen"
  /\ \/ /\ disk.times = Missing
        /\ found' = [found EXCEPT !.noTimes = TRUE]
        /\ pc' = "compare" /\ UNCHANGED result
     \/ disk.times = Malformed /\ EndEmission("fail") /\ UNCHANGED found
     \/ /\ disk.times \notin {Missing, Malformed}
        /\ IF SlowerOf(disk.times, times) = {}
           THEN /\ found' = [found EXCEPT !.fast = FasterOf(disk.times, times)]
                /\ pc' = "compare"
           ELSE pc' = "confirm" /\ UNCHANGED found
        /\ UNCHANGED result
  /\ UNCHANGED <<code, disk, git, asked, outs, times, swept2, held, runs, judged>>

\* secondSweep, which does nothing once it has run: the least time of two
\* sweeps, and an error when their outcomes differ.
SecondSweep(next, Fails) ==
  \/ swept2 /\ pc' = next /\ UNCHANGED <<result, times, swept2>>
  \/ /\ ~swept2
     /\ \E again \in SweepOutcomes(code), t \in SweepTimes(code) :
          IF Compare(outs, again) = {}
          THEN /\ times' = MinTimes(times, t) /\ swept2' = TRUE
               /\ pc' = next /\ UNCHANGED result
          ELSE Fails /\ UNCHANGED <<times, swept2>>

Confirm ==
  /\ pc = "confirm"
  /\ SecondSweep("pair", EndEmission("fail"))
  /\ UNCHANGED <<code, disk, git, asked, outs, found, held, runs, judged>>

\* The commit whose compiler can be built and timed against: compiletime.txt
\* must be as committed, and that tree must hold every suspect's source.
Pairable(suspects) ==
  disk.times = git.baseline.times /\ suspects \subseteq DOMAIN git.code.out

\* Mutant: a cleared compile records what the sweep measured.
PairedTimes_AsSwept(cleared) == times
\* A suspect two sweeps keep is timed against the baseline's own compiler. One
\* the pair clears keeps its baseline time.
PairedTimes(cleared) == [p \in DOMAIN times |-> IF p \in cleared THEN disk.times[p] ELSE times[p]]

\* Mutant: suspects that cannot be paired are let go.
Pair_Unpaired ==
  /\ pc = "pair"
  /\ LET suspects == SlowerOf(disk.times, times)
         slow == IF Pairable(suspects) THEN {p \in suspects : Slower(git.code.cost[p], code.cost[p])}
                 ELSE {}
     IN /\ times' = PairedTimes(suspects \ slow)
        /\ found' = [found EXCEPT !.slow = slow, !.fast = FasterOf(disk.times, times')]
  /\ pc' = "compare"
  /\ UNCHANGED <<code, disk, git, asked, result, outs, swept2, held, runs, judged>>

Pair ==
  /\ pc = "pair"
  /\ LET suspects == SlowerOf(disk.times, times)
         confirmed == {p \in suspects : Slower(git.code.cost[p], code.cost[p])}
     IN \E slow \in {suspects} \cup (IF Pairable(suspects) THEN {confirmed} ELSE {}) :
          /\ times' = PairedTimes(suspects \ slow)
          /\ found' = [found EXCEPT !.slow = slow, !.fast = FasterOf(disk.times, times')]
  /\ pc' = "compare"
  /\ UNCHANGED <<code, disk, git, asked, result, outs, swept2, held, runs, judged>>

\* The rest of emission: the sweep against outcomes.txt. The emitted files are
\* not read; their hashes are in the outcomes.
CompareBaseline ==
  /\ pc = "compare"
  /\ \/ /\ disk.outcomes = Missing
        /\ found' = [found EXCEPT !.noBaseline = TRUE] /\ EndEmission("review")
     \/ disk.outcomes = Malformed /\ UNCHANGED found /\ EndEmission("fail")
     \/ /\ disk.outcomes \notin {Missing, Malformed}
        /\ LET changes == Compare(disk.outcomes, outs) IN
             /\ found' = [found EXCEPT !.changes = changes]
             /\ EndEmission(IF changes = {} /\ found.slow = {} /\ ~found.noTimes
                            THEN "pass" ELSE "review")
  /\ UNCHANGED <<code, disk, git, asked, outs, times, swept2, held, runs, judged>>

\* The suites of this run. The compiler's tests run before the sweep; nothing
\* reads their status until -accept does.
Suites ==
  /\ pc = "suites"
  /\ \E failing \in SUBSET (asked.steps \ {"emission"}) :
       /\ Cardinality(failing) <= MaxFailing
       /\ result' = [s \in Steps |-> CASE s = "emission" \/ s \notin asked.steps -> result[s]
                                       [] s \in failing -> "fail"
                                       [] OTHER -> "pass"]
  /\ judged' = IF /\ "emission" \in asked.steps
                  /\ result'["compiler"] = "pass" /\ result'["differential"] = "pass"
                  /\ result'["tooling"] # "fail"
               THEN judged \cup {outs} ELSE judged
  /\ pc' = IF asked.accept THEN "accept" ELSE "summary"
  /\ UNCHANGED <<code, disk, git, asked, outs, times, found, swept2, held, runs>>

-----------------------------------------------------------------------------
(* -accept: acceptRun's guards, then acceptBaseline file by file.          *)

Finish(status) ==
  /\ result' = [result EXCEPT !["emission"] = status]
  /\ pc' = "summary"

NothingToAccept ==
  /\ found.changes = {} /\ ~found.noBaseline /\ found.slow = {} /\ found.fast = {}
  /\ ~found.noTimes /\ ~asked.retime

\* Mutant: the differential suite is not asked.
Evidence_CompilerOnly == result["compiler"] = "pass" /\ result["tooling"] # "fail"

\* The correctness evidence of the same run.
Evidence ==
  /\ result["compiler"] = "pass" /\ result["differential"] = "pass"
  /\ result["tooling"] # "fail"

AcceptRun ==
  /\ pc = "accept"
  /\ \/ "emission" \notin asked.steps /\ Finish("fail")
     \/ /\ "emission" \in asked.steps
        /\ \/ (result["emission"] = "fail" \/ NothingToAccept) /\ Finish(result["emission"])
           \/ /\ result["emission"] # "fail" /\ ~NothingToAccept
              /\ \/ ~Evidence /\ Finish("review")
                 \/ Evidence /\ pc' = "clear" /\ UNCHANGED result
  /\ held' = disk
  /\ UNCHANGED <<code, disk, git, asked, outs, times, found, swept2, runs, judged>>

\* Mutant: the old files are written over and not removed first.
RemoveEmitted_Kept ==
  /\ pc = "clear" /\ pc' = "copy"
  /\ UNCHANGED <<code, disk, git, run, held, runs, judged>>

\* os.RemoveAll and os.MkdirAll of testdata/emitted.
RemoveEmitted ==
  /\ pc = "clear"
  /\ disk' = [disk EXCEPT !.emitted = EmptyTable]
  /\ pc' = "copy"
  /\ UNCHANGED <<code, git, run, held, runs, judged>>

\* The loop over the files of .check/emitted, in their order.
CopyEmitted ==
  /\ pc = "copy"
  /\ LET left == DOMAIN Emitted(outs) \ DOMAIN disk.emitted IN
       \/ left = {} /\ pc' = "outcomes" /\ UNCHANGED disk
       \/ \E p \in left :
            /\ \A q \in left : p <= q
            /\ disk' = [disk EXCEPT !.emitted = Restrict(outs, DOMAIN disk.emitted \cup {p})]
            /\ UNCHANGED pc
  /\ UNCHANGED <<code, git, run, held, runs, judged>>

WriteOutcomes ==
  /\ pc = "outcomes"
  /\ disk' = [disk EXCEPT !.outcomes = outs]
  /\ pc' = "again"
  /\ UNCHANGED <<code, git, run, held, runs, judged>>

\* The compile-time baseline is the least of two sweeps.
SweepAgain ==
  /\ pc = "again"
  /\ SecondSweep("times", Finish("fail"))
  /\ UNCHANGED <<code, disk, git, asked, outs, found, held, runs, judged>>

WriteTimes ==
  /\ pc = "times"
  /\ disk' = [disk EXCEPT !.times = times]
  /\ pc' = "log"
  /\ UNCHANGED <<code, git, run, held, runs, judged>>

\* Mutant: an accept that changes no outcome is not logged.
AppendLog_ChangesOnly ==
  /\ pc = "log"
  /\ disk' = IF found.changes = {} /\ ~found.noBaseline THEN disk
             ELSE [disk EXCEPT !.log = Append(@, [outs |-> outs, slow |-> found.slow])]
  /\ Finish("pass")
  /\ UNCHANGED <<code, git, asked, outs, times, found, swept2, held, runs, judged>>

AppendLog ==
  /\ pc = "log"
  /\ disk' = [disk EXCEPT !.log = Append(@, [outs |-> outs, slow |-> found.slow])]
  /\ Finish("pass")
  /\ UNCHANGED <<code, git, asked, outs, times, found, swept2, held, runs, judged>>

Accepting == pc \in {"clear", "copy", "outcomes", "again", "times", "log"}

\* The exit code of the steps modelled here.
ExitCode ==
  IF \E s \in DOMAIN result : result[s] = "fail" THEN 1
  ELSE IF \E s \in DOMAIN result : result[s] = "review" THEN 2 ELSE 0

Exit ==
  /\ pc = "summary"
  /\ pc' = "idle"
  /\ asked' = NotAsked /\ result' = Skipped /\ found' = NoFindings
  /\ outs' = EmptyTable /\ times' = EmptyTable /\ swept2' = FALSE /\ held' = NoBaseline
  /\ UNCHANGED <<code, disk, git, runs, judged>>

-----------------------------------------------------------------------------
(* Faults.                                                                 *)

\* A time that ends the file may have lost its last digits; no compile takes the
\* 10^10 milliseconds that would have more than nine to lose.
CutTimes(n) == {m \in 1 .. n : \E k \in 1 .. 9 : m = n \div 10^k}

\* What a write cut short leaves: os.WriteFile truncates the file first. The
\* records written are read as they are, the last as any of cut[k] if the rest
\* of its line still parses.
Torn(f, cut) ==
  {Malformed} \cup {Restrict(f, {p \in DOMAIN f : p < k}) : k \in Programs}
  \cup UNION {{[p \in {q \in DOMAIN f : q <= k} |-> IF p = k THEN v ELSE f[p]] : v \in cut[k]} :
                k \in DOMAIN f}

TornOutcomes == Torn(outs, [p \in DOMAIN outs |-> Curtailed[outs[p]]])
TornTimes == Torn(times, [p \in DOMAIN times |-> CutTimes(times[p])])

\* The disk as it is, or with the write in progress cut short.
CutShort ==
  \/ UNCHANGED disk
  \/ pc = "outcomes" /\ \E f \in TornOutcomes : disk' = [disk EXCEPT !.outcomes = f]
  \/ pc = "times" /\ \E f \in TornTimes : disk' = [disk EXCEPT !.times = f]

\* A write that fails: acceptBaseline returns the error.
WriteFails ==
  /\ "io" \in Faults /\ Accepting
  /\ CutShort /\ Finish("fail")
  /\ UNCHANGED <<code, git, asked, outs, times, found, swept2, held, runs, judged>>

\* The run is interrupted; nothing of it is left but what it wrote.
Crash ==
  /\ "crash" \in Faults /\ pc # "idle"
  /\ CutShort /\ pc' = "idle"
  /\ asked' = NotAsked /\ result' = Skipped /\ found' = NoFindings
  /\ outs' = EmptyTable /\ times' = EmptyTable /\ swept2' = FALSE /\ held' = NoBaseline
  /\ UNCHANGED <<code, git, runs, judged>>

-----------------------------------------------------------------------------
(* The developer, between runs.                                            *)

Developer == pc = "idle" /\ runs < MaxRuns

Edit ==
  /\ Developer
  /\ code' \in Codes
  /\ UNCHANGED <<disk, git, pc, run, held, runs, judged>>

\* The commit that last wrote compiletime.txt is the one whose compiler a pair
\* builds.
Commit ==
  /\ Developer /\ disk # git.baseline
  /\ git' = [baseline |-> disk, code |-> IF disk.times = git.baseline.times THEN git.code ELSE code]
  /\ UNCHANGED <<code, disk, pc, run, held, runs, judged>>

Revert ==
  /\ Developer /\ disk' = git.baseline
  /\ UNCHANGED <<code, git, pc, run, held, runs, judged>>

Next ==
  \/ Start \/ Sweep \/ Screen \/ Confirm \/ Pair \/ CompareBaseline \/ Suites
  \/ AcceptRun \/ RemoveEmitted \/ CopyEmitted \/ WriteOutcomes \/ SweepAgain
  \/ WriteTimes \/ AppendLog \/ Exit
  \/ WriteFails \/ Crash
  \/ Edit \/ Commit \/ Revert

Spec == Init /\ [][Next]_vars

-----------------------------------------------------------------------------
(* Properties.                                                             *)

Files == {Missing, Malformed}
Table(f) == f \notin Files

\* Everything is in its range, and a run at rest holds nothing.
TypeOK ==
  /\ code \in Codes /\ git.code \in Codes
  /\ \A d \in {disk, git.baseline, held} :
       /\ IsTable(d.emitted, Emissions)
       /\ Table(d.outcomes) => IsTable(d.outcomes, Records)
       /\ Table(d.times) => IsTable(d.times, Nat)
       /\ Len(d.log) <= MaxLog
  /\ IsTable(outs, Outcomes) /\ IsTable(times, Nat)
  /\ found.changes \cup found.slow \cup found.fast \subseteq Programs
  /\ pc = "idle" => AtRest

\* A run that swept and ends green agrees with the baseline it leaves; when it
\* accepted, the four files agree with each other and with the run, whatever
\* an interrupted accept had left before it.
GreenBaseline ==
  (pc = "summary" /\ "emission" \in asked.steps /\ ExitCode = 0) =>
     /\ disk.outcomes = outs
     /\ (asked.accept /\ ~NothingToAccept) =>
          /\ disk.emitted = Emitted(outs) /\ disk.times = times /\ DOMAIN times = DOMAIN outs
          /\ disk.log # << >> /\ disk.log[Len(disk.log)] = [outs |-> outs, slow |-> found.slow]

\* f is the beginning of j as a file: its first programs, each with its outcome,
\* but the last, whose record may be cut.
Begins(f, j) ==
  /\ DOMAIN f \subseteq DOMAIN j
  /\ \A p \in DOMAIN f, q \in DOMAIN j : q < p => q \in DOMAIN f /\ f[q] = j[q]
  /\ \A p \in DOMAIN f : f[p] = j[p] \/ f[p] \in Curtailed[j[p]]

\* Whatever faults there were, outcomes.txt is the beginning of the file of a run
\* whose compiler and differential suites passed: no outcome in it comes from
\* another run, and only the last can be one that no run had.
BaselineJudged == Table(disk.outcomes) => \E j \in judged : Begins(disk.outcomes, j)

\* A compile slower, by the rule, than its baseline time and than the baseline's
\* own compiler is reported: neither noise, nor the second sweep, nor the pair
\* lets it through.
RegressionReported ==
  (pc = "suites" /\ result["emission"] \in {"pass", "review"} /\ Table(disk.times)) =>
     \A p \in SlowerOf(disk.times, Restrict(code.cost, DOMAIN outs)) :
        p \in found.slow \/ ~Slower(git.code.cost[p], code.cost[p])

\* An accept never raises a baseline time by the rule's amount unless the run
\* reported the compile as slower: what a busy machine added is not recorded.
NoSilentSlowdown ==
  [][(Accepting /\ Table(disk.times) /\ Table(disk'.times)) =>
        SlowerOf(disk.times, disk'.times) \subseteq found.slow]_vars

\* A run that accepts changes the baseline in one piece and with its log entry;
\* one that fails says so; nothing else touches it (BaselineLedger).
Ledger == INSTANCE BaselineLedger WITH
  files <- IF Accepting THEN [held EXCEPT !.log = << >>] ELSE [disk EXCEPT !.log = << >>],
  log <- disk.log,
  kept <- git.baseline,
  reply <- IF pc = "summary" THEN result["emission"] ELSE "none"
AcceptIsAtomic == Ledger!Spec

\* ACCEPTED.md: "Every change to the baseline in this directory, with its
\* reason."  After a green run, then, the log ends with the baseline's outcomes.
EveryChangeLogged ==
  (pc = "summary" /\ "emission" \in asked.steps /\ ExitCode = 0) =>
     disk.log # << >> /\ disk.log[Len(disk.log)].outs = disk.outcomes
=============================================================================
