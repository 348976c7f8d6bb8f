------------------------- MODULE EmissionGateProofs -------------------------
(***************************************************************************)
(* The emission gate of cmd/check, for any programs, compilers, noise,     *)
(* faults and number of runs: the files an accept writes are those of a    *)
(* judged run, a green run agrees with them, no slow compile passes        *)
(* unreported, and the whole implements the ledger.  Then the two pools of *)
(* cmd/check, for any number of jobs, entries and workers and every value  *)
(* of -jobs: what they have done when they are done.                       *)
(***************************************************************************)
EXTENDS EmissionGate, SweepPool, Regenerate, SequenceTheorems, TLAPS

Tables(V) == UNION {[S -> V] : S \in SUBSET Programs}
Entry == [outs : Tables(Outcomes), slow : SUBSET Programs]
Baseline == [emitted : Tables(Emissions), outcomes : Tables(Records) \cup Files,
             times : Tables(Nat) \cup Files, log : Seq(Entry)]
Statuses == {"skip", "pass", "review", "fail"}
Stages == {"idle", "sweep", "screen", "confirm", "pair", "compare", "suites", "accept",
           "clear", "copy", "outcomes", "again", "times", "log", "summary"}

\* The ranges, written so that records and functions can be updated.
Ranges ==
  /\ code \in Codes /\ disk \in Baseline /\ held \in Baseline
  /\ git \in [baseline : Baseline, code : Codes]
  /\ pc \in Stages
  /\ asked \in [accept : BOOLEAN, retime : BOOLEAN, steps : SUBSET Steps]
  /\ result \in [Steps -> Statuses]
  /\ outs \in Tables(Outcomes) /\ times \in Tables(Nat)
  /\ found \in [changes : SUBSET Programs, slow : SUBSET Programs, fast : SUBSET Programs,
                noBaseline : BOOLEAN, noTimes : BOOLEAN]

-----------------------------------------------------------------------------
(* Tables.                                                                 *)

LEMMA TableFacts ==
  ASSUME NEW V, NEW f \in Tables(V)
  PROVE  /\ DOMAIN f \subseteq Programs /\ \A p \in DOMAIN f : f[p] \in V
         /\ f \in [DOMAIN f -> V]
BY DEF Tables

LEMMA TableIntro ==
  ASSUME NEW V, NEW S \in SUBSET Programs, NEW f \in [S -> V]
  PROVE  f \in Tables(V)
BY DEF Tables

LEMMA RestrictTable ==
  ASSUME NEW V, NEW f \in Tables(V), NEW S \in SUBSET DOMAIN f
  PROVE  /\ Restrict(f, S) \in Tables(V) /\ DOMAIN Restrict(f, S) = S
         /\ \A p \in S : Restrict(f, S)[p] = f[p]
<1>1. S \in SUBSET Programs /\ \A p \in S : f[p] \in V
      BY TableFacts
<1>2. Restrict(f, S) \in [S -> V]
      BY <1>1 DEF Restrict
<1> QED BY <1>1, <1>2, TableIntro DEF Restrict

LEMMA EmptyIsTable == ASSUME NEW V PROVE EmptyTable \in Tables(V) /\ DOMAIN EmptyTable = {}
<1>1. EmptyTable \in [{} -> V] /\ DOMAIN EmptyTable = {}
      BY DEF EmptyTable
<1>2. {} \in SUBSET Programs
      OBVIOUS
<1> QED BY <1>1, <1>2, TableIntro

\* The outcomes of a sweep can be read back.
LEMMA ReadTable == ASSUME NEW f \in Tables(Outcomes) PROVE f \in Tables(Records)
<1>1. DOMAIN f \in SUBSET Programs /\ f \in [DOMAIN f -> Records]
      BY TableFacts DEF Records
<1> QED BY <1>1, TableIntro

LEMMA SameTable ==
  ASSUME NEW V, NEW f \in Tables(V), NEW g \in Tables(V), Compare(f, g) = {}
  PROVE  f = g
<1>1. DOMAIN f = DOMAIN g /\ \A p \in DOMAIN f : f[p] = g[p]
      BY DEF Compare, Both
<1> QED BY <1>1, TableFacts

LEMMA EmittedTable ==
  ASSUME NEW f \in Tables(Outcomes)
  PROVE  /\ Emitted(f) \in Tables(Emissions)
         /\ DOMAIN Emitted(f) = {p \in DOMAIN f : f[p] \in Emissions}
         /\ \A p \in DOMAIN Emitted(f) : Emitted(f)[p] = f[p]
<1> DEFINE S == {p \in DOMAIN f : f[p] \in Emissions}
<1>1. S \in SUBSET Programs
      BY TableFacts
<1>2. Emitted(f) \in [S -> Emissions]
      BY DEF Emitted, Restrict
<1> QED BY <1>1, <1>2, TableIntro DEF Emitted, Restrict

LEMMA CodeFacts ==
  ASSUME NEW c \in Codes
  PROVE  /\ c.out \in Tables(Outcomes) /\ c.cost \in [Programs -> Nat] /\ c.cost \in Tables(Nat)
         /\ DOMAIN c.out \in SUBSET Programs
<1>1. c.out \in Tables(Outcomes) /\ c.cost \in [Programs -> Nat]
      BY GateAssumption DEF Code, Tables
<1> QED BY <1>1, TableFacts, TableIntro

LEMMA SweepFacts ==
  ASSUME NEW c \in Codes, NEW f \in SweepOutcomes(c), NEW t \in SweepTimes(c)
  PROVE  /\ f \in Tables(Outcomes) /\ t \in Tables(Nat)
         /\ DOMAIN f = DOMAIN c.out /\ DOMAIN t = DOMAIN c.out
         /\ \A p \in DOMAIN t : t[p] >= c.cost[p]
<1>1. f \in [DOMAIN c.out -> Outcomes]
      BY DEF SweepOutcomes
<1>2. PICK e \in [DOMAIN c.out -> Noise] : t = [p \in DOMAIN c.out |-> c.cost[p] + e[p]]
      BY DEF SweepTimes
<1>3. \A p \in DOMAIN c.out : c.cost[p] \in Nat /\ e[p] \in Nat
      BY CodeFacts, GateAssumption
<1>4. t \in [DOMAIN c.out -> Nat]
      BY <1>2, <1>3
<1>5. DOMAIN c.out \in SUBSET Programs
      BY CodeFacts
<1>6. f \in Tables(Outcomes) /\ t \in Tables(Nat)
      BY <1>1, <1>4, <1>5, TableIntro
<1>7. \A p \in DOMAIN t : t[p] >= c.cost[p]
      BY <1>2, <1>3
<1> QED BY <1>1, <1>4, <1>6, <1>7

LEMMA MinFacts ==
  ASSUME NEW a \in Tables(Nat), NEW b \in Tables(Nat), DOMAIN a = DOMAIN b
  PROVE  /\ MinTimes(a, b) \in Tables(Nat) /\ DOMAIN MinTimes(a, b) = DOMAIN a
         /\ \A p \in DOMAIN a : /\ MinTimes(a, b)[p] \in {a[p], b[p]}
                                /\ MinTimes(a, b)[p] <= a[p]
<1>1. DOMAIN a \in SUBSET Programs /\ \A p \in DOMAIN a : a[p] \in Nat /\ b[p] \in Nat
      BY TableFacts
<1>2. MinTimes(a, b) = [p \in DOMAIN a |-> IF a[p] <= b[p] THEN a[p] ELSE b[p]]
      BY DEF MinTimes
<1>3. MinTimes(a, b) \in [DOMAIN a -> Nat]
      BY <1>1, <1>2
<1> QED BY <1>1, <1>2, <1>3, TableIntro

\* A compile that got no slower does not become slower by the rule.
LEMMA SlowerMonotone ==
  ASSUME NEW b \in Nat, NEW m \in Nat, NEW n \in Nat, m <= n, Slower(b, m)
  PROVE  Slower(b, n)
BY GateAssumption DEF Slower

LEMMA SlowerIrreflexive == ASSUME NEW b \in Nat PROVE ~Slower(b, b)
BY GateAssumption DEF Slower

-----------------------------------------------------------------------------
(* What is where at each stage of a run.                                   *)

Staged ==
  /\ DOMAIN times = DOMAIN outs /\ found.slow \subseteq DOMAIN outs
  /\ pc = "idle" => AtRest
  /\ pc = "sweep" => found = NoFindings
  /\ pc \in {"confirm", "pair"} => Table(disk.times)
  \* The files an accept has written so far.
  /\ pc = "copy" => /\ DOMAIN disk.emitted \subseteq DOMAIN Emitted(outs)
                    /\ disk.emitted = Restrict(outs, DOMAIN disk.emitted)
  /\ pc \in {"outcomes", "again", "times", "log"} => disk.emitted = Emitted(outs)
  /\ pc \in {"again", "times", "log"} => disk.outcomes = outs
  /\ pc = "log" => disk.times = times

\* What a cut leaves: nothing readable, or the first records, the last of them
\* whole or cut.
LEMMA TornFacts ==
  ASSUME NEW f, NEW cut, NEW g \in Torn(f, cut), Table(g), DOMAIN f \subseteq Programs
  PROVE  /\ DOMAIN g \subseteq DOMAIN f /\ g = [p \in DOMAIN g |-> g[p]]
         /\ \A p \in DOMAIN g : g[p] = f[p] \/ g[p] \in cut[p]
         /\ \A p \in DOMAIN g, q \in DOMAIN f : q < p => q \in DOMAIN g /\ g[q] = f[q]
<1>0. \A p \in DOMAIN f : p \in Nat
      BY GateAssumption DEF Programs
<1>1. g # Malformed
      BY DEF Table, Files
<1>2. ASSUME NEW k \in Programs, g = Restrict(f, {p \in DOMAIN f : p < k})
      PROVE  /\ DOMAIN g \subseteq DOMAIN f /\ g = [p \in DOMAIN g |-> g[p]]
             /\ \A p \in DOMAIN g : g[p] = f[p] \/ g[p] \in cut[p]
             /\ \A p \in DOMAIN g, q \in DOMAIN f : q < p => q \in DOMAIN g /\ g[q] = f[q]
  <2>1. /\ g = [p \in {q \in DOMAIN f : q < k} |-> f[p]] /\ DOMAIN g = {q \in DOMAIN f : q < k}
        /\ k \in Nat
        BY <1>2, GateAssumption DEF Restrict, Programs
  <2>2. \A p \in DOMAIN g, q \in DOMAIN f : q < p => q \in DOMAIN g
        BY <1>0, <2>1
  <2> QED BY <2>1, <2>2
<1>3. ASSUME NEW k \in DOMAIN f, NEW v \in cut[k],
             g = [p \in {q \in DOMAIN f : q <= k} |-> IF p = k THEN v ELSE f[p]]
      PROVE  /\ DOMAIN g \subseteq DOMAIN f /\ g = [p \in DOMAIN g |-> g[p]]
             /\ \A p \in DOMAIN g : g[p] = f[p] \/ g[p] \in cut[p]
             /\ \A p \in DOMAIN g, q \in DOMAIN f : q < p => q \in DOMAIN g /\ g[q] = f[q]
  <2>1. DOMAIN g = {q \in DOMAIN f : q <= k} /\ \A p \in DOMAIN g : g[p] = IF p = k THEN v ELSE f[p]
        BY <1>3
  <2>2. \A p \in DOMAIN g, q \in DOMAIN f : q < p => q \in DOMAIN g /\ q # k
        BY <1>0, <2>1
  <2> QED BY <1>3, <2>1, <2>2
<1> QED BY <1>1, <1>2, <1>3 DEF Torn

\* Outcomes are cut to records and times to smaller times.
LEMMA TornOutcomesFacts ==
  ASSUME Ranges, NEW g \in TornOutcomes, Table(g)
  PROVE  g \in Tables(Records) /\ Begins(g, outs)
<1> DEFINE cut == [p \in DOMAIN outs |-> Curtailed[outs[p]]]
<1>1. DOMAIN outs \in SUBSET Programs /\ \A p \in DOMAIN outs : outs[p] \in Outcomes
      BY TableFacts DEF Ranges
<1>2. /\ DOMAIN g \subseteq DOMAIN outs /\ g = [p \in DOMAIN g |-> g[p]]
      /\ \A p \in DOMAIN g : g[p] = outs[p] \/ g[p] \in cut[p]
      /\ \A p \in DOMAIN g, q \in DOMAIN outs : q < p => q \in DOMAIN g /\ g[q] = outs[q]
      BY <1>1, TornFacts DEF TornOutcomes
<1>3. \A p \in DOMAIN g : g[p] = outs[p] \/ g[p] \in Curtailed[outs[p]]
      BY <1>2
<1>4. \A p \in DOMAIN g : g[p] \in Records
      BY <1>1, <1>2, <1>3 DEF Records
<1>5. g \in [DOMAIN g -> Records] /\ DOMAIN g \in SUBSET Programs
      BY <1>1, <1>2, <1>4
<1> QED BY <1>2, <1>3, <1>5, TableIntro DEF Begins

LEMMA TornTimesFacts ==
  ASSUME Ranges, NEW g \in TornTimes, Table(g)
  PROVE  /\ g \in Tables(Nat) /\ DOMAIN g \subseteq DOMAIN times
         /\ \A p \in DOMAIN g : g[p] <= times[p]
<1> DEFINE cut == [p \in DOMAIN times |-> CutTimes(times[p])]
<1>1. DOMAIN times \in SUBSET Programs /\ \A p \in DOMAIN times : times[p] \in Nat
      BY TableFacts DEF Ranges
<1>2. /\ DOMAIN g \subseteq DOMAIN times /\ g = [p \in DOMAIN g |-> g[p]]
      /\ \A p \in DOMAIN g : g[p] = times[p] \/ g[p] \in cut[p]
      BY <1>1, TornFacts DEF TornTimes
<1>3. \A p \in DOMAIN g : g[p] \in Nat /\ g[p] <= times[p]
  <2> SUFFICES ASSUME NEW p \in DOMAIN g PROVE g[p] \in Nat /\ g[p] <= times[p]
      OBVIOUS
  <2>1. times[p] \in Nat /\ CutTimes(times[p]) \subseteq 1 .. times[p]
        BY <1>1, <1>2 DEF CutTimes
  <2>2. g[p] = times[p] \/ g[p] \in CutTimes(times[p])
        BY <1>2
  <2> QED BY <2>1, <2>2
<1>4. g \in [DOMAIN g -> Nat] /\ DOMAIN g \in SUBSET Programs
      BY <1>1, <1>2, <1>3
<1> QED BY <1>2, <1>3, <1>4, TableIntro

LEMMA CutShortRange ==
  ASSUME Ranges, CutShort
  PROVE  disk' \in Baseline /\ disk'.log = disk.log
<1>1. CASE UNCHANGED disk
      BY <1>1 DEF Ranges
<1>2. ASSUME NEW f \in TornOutcomes, disk' = [disk EXCEPT !.outcomes = f]
      PROVE  disk' \in Baseline /\ disk'.log = disk.log
  <2>1. f \in Tables(Records) \cup Files
        BY TornOutcomesFacts DEF Table
  <2> QED BY <1>2, <2>1 DEF Ranges, Baseline
<1>3. ASSUME NEW f \in TornTimes, disk' = [disk EXCEPT !.times = f]
      PROVE  disk' \in Baseline /\ disk'.log = disk.log
  <2>1. f \in Tables(Nat) \cup Files
        BY TornTimesFacts DEF Table
  <2> QED BY <1>3, <2>1 DEF Ranges, Baseline
<1> QED BY <1>1, <1>2, <1>3 DEF CutShort

\* A second sweep keeps the programs of the first and can only lower a time.
LEMMA SecondSweepFacts ==
  ASSUME Ranges, DOMAIN times = DOMAIN outs,
         \/ UNCHANGED times
         \/ \E again \in SweepOutcomes(code), t \in SweepTimes(code) :
              Compare(outs, again) = {} /\ times' = MinTimes(times, t)
  PROVE  /\ times' \in Tables(Nat) /\ DOMAIN times' = DOMAIN times
         /\ \A p \in DOMAIN times : times'[p] <= times[p]
         /\ (\A p \in DOMAIN times : code.cost[p] <= times[p])
              => \A p \in DOMAIN times : code.cost[p] <= times'[p]
<1>1. ASSUME UNCHANGED times
      PROVE  /\ times' \in Tables(Nat) /\ DOMAIN times' = DOMAIN times
             /\ \A p \in DOMAIN times : times'[p] <= times[p]
             /\ (\A p \in DOMAIN times : code.cost[p] <= times[p])
                  => \A p \in DOMAIN times : code.cost[p] <= times'[p]
  <2>1. \A p \in DOMAIN times : times[p] \in Nat
        BY TableFacts DEF Ranges
  <2> QED BY <1>1, <2>1 DEF Ranges
<1>2. ASSUME NEW again \in SweepOutcomes(code), NEW t \in SweepTimes(code),
             Compare(outs, again) = {}, times' = MinTimes(times, t)
      PROVE  /\ times' \in Tables(Nat) /\ DOMAIN times' = DOMAIN times
             /\ \A p \in DOMAIN times : times'[p] <= times[p]
             /\ (\A p \in DOMAIN times : code.cost[p] <= times[p])
                  => \A p \in DOMAIN times : code.cost[p] <= times'[p]
  <2>1. /\ again \in Tables(Outcomes) /\ t \in Tables(Nat)
        /\ DOMAIN again = DOMAIN code.out /\ DOMAIN t = DOMAIN code.out
        /\ \A p \in DOMAIN t : t[p] >= code.cost[p]
        BY SweepFacts DEF Ranges
  <2>2. DOMAIN times = DOMAIN t
        BY <1>2, <2>1, SameTable DEF Ranges
  <2>3. \A p \in DOMAIN times : times[p] \in Nat /\ t[p] \in Nat /\ code.cost[p] \in Nat
    <3>1. \A p \in DOMAIN times : times[p] \in Nat /\ p \in Programs
          BY TableFacts DEF Ranges
    <3>2. \A p \in DOMAIN t : t[p] \in Nat
          BY <2>1, TableFacts
    <3>3. code.cost \in [Programs -> Nat]
          BY CodeFacts DEF Ranges
    <3> QED BY <2>2, <3>1, <3>2, <3>3
  <2>4. /\ times' \in Tables(Nat) /\ DOMAIN times' = DOMAIN times
        /\ \A p \in DOMAIN times : times'[p] \in {times[p], t[p]} /\ times'[p] <= times[p]
        BY <1>2, <2>1, <2>2, MinFacts DEF Ranges
  <2>5. ASSUME \A p \in DOMAIN times : code.cost[p] <= times[p], NEW p \in DOMAIN times
        PROVE  code.cost[p] <= times'[p]
        BY <2>1, <2>2, <2>3, <2>4, <2>5
  <2> QED BY <2>4, <2>5
<1> QED BY <1>1, <1>2

LEMMA PairedFacts ==
  ASSUME Ranges, Table(disk.times), NEW cleared \in SUBSET SlowerOf(disk.times, times)
  PROVE  /\ PairedTimes(cleared) \in Tables(Nat)
         /\ DOMAIN PairedTimes(cleared) = DOMAIN times
         /\ \A p \in DOMAIN times :
              PairedTimes(cleared)[p] = IF p \in cleared THEN disk.times[p] ELSE times[p]
<1>1. disk.times \in Tables(Nat)
      BY DEF Ranges, Baseline, Table
<1>2. cleared \subseteq DOMAIN disk.times
      BY DEF SlowerOf, Both
<1>3. /\ \A p \in DOMAIN times : times[p] \in Nat
      /\ \A p \in DOMAIN disk.times : disk.times[p] \in Nat
      /\ DOMAIN times \in SUBSET Programs
      BY <1>1, TableFacts DEF Ranges
<1>4. PairedTimes(cleared) \in [DOMAIN times -> Nat]
      BY <1>2, <1>3 DEF PairedTimes
<1> QED BY <1>3, <1>4, TableIntro DEF PairedTimes

LEMMA RangesInit == Init => Ranges
<1> SUFFICES ASSUME Init PROVE Ranges
    OBVIOUS
<1>1. code \in Codes
      BY DEF Init
<1>2. code.out \in Tables(Outcomes) /\ code.cost \in Tables(Nat) /\ DOMAIN code.cost = Programs
      BY <1>1, CodeFacts
<1>3. Emitted(code.out) \in Tables(Emissions)
      BY <1>2, EmittedTable
<1>4. Restrict(code.cost, DOMAIN code.out) \in Tables(Nat)
      BY <1>1, <1>2, CodeFacts, RestrictTable
<1>5. EmptyTable \in Tables(Emissions) /\ EmptyTable \in Tables(Outcomes) /\ EmptyTable \in Tables(Nat)
      BY EmptyIsTable
<1>6. Accepted(code).log \in Seq(Entry) /\ NoBaseline.log \in Seq(Entry)
  <2>1. [outs |-> code.out, slow |-> {}] \in Entry
        BY <1>2 DEF Entry
  <2> QED BY <2>1 DEF Accepted, NoBaseline
<1>7. Accepted(code) \in Baseline
      BY <1>2, <1>3, <1>4, <1>6, ReadTable DEF Accepted, Baseline
<1>8. NoBaseline \in Baseline
      BY <1>5, <1>6 DEF NoBaseline, Baseline, Files
<1> QED BY <1>1, <1>5, <1>7, <1>8
        DEF Init, AtRest, Ranges, Stages, NotAsked, Skipped, Statuses, NoFindings

LEMMA StagedInit == Init => Staged
BY EmptyIsTable DEF Init, AtRest, Staged, NoFindings

\* Every step of a run, of a fault and of the developer keeps the ranges.
LEMMA RangesNext == Ranges /\ Staged /\ [Next]_vars => Ranges'
<1> SUFFICES ASSUME Ranges, Staged, [Next]_vars PROVE Ranges'
    OBVIOUS
<1> DEFINE Rest == /\ asked' = NotAsked /\ result' = Skipped /\ found' = NoFindings
                   /\ outs' = EmptyTable /\ times' = EmptyTable
<1>0. ASSUME Rest
      PROVE  /\ asked' \in [accept : BOOLEAN, retime : BOOLEAN, steps : SUBSET Steps]
             /\ result' \in [Steps -> Statuses]
             /\ outs' \in Tables(Outcomes) /\ times' \in Tables(Nat)
             /\ found' \in [changes : SUBSET Programs, slow : SUBSET Programs, fast : SUBSET Programs,
                            noBaseline : BOOLEAN, noTimes : BOOLEAN]
      BY <1>0, EmptyIsTable DEF NotAsked, Skipped, NoFindings, Statuses
<1>1. CASE Start
  <2>1. \A steps \in StepSets : steps \in SUBSET Steps
        BY GateAssumption
  <2> QED BY <1>1, <2>1 DEF Start, Ranges, Stages
<1>2. CASE Sweep
  <2>1. outs' \in Tables(Outcomes) /\ times' \in Tables(Nat)
        BY <1>2, SweepFacts DEF Sweep, Ranges
  <2> QED BY <1>2, <2>1 DEF Sweep, Ranges, Stages
<1>3. CASE Screen
  <2>1. FasterOf(disk.times, times) \in SUBSET Programs
        BY TableFacts DEF FasterOf, Both, Ranges
  <2>2. result' \in [Steps -> Statuses] /\ pc' \in Stages
        BY <1>3 DEF Screen, EndEmission, Ranges, Stages, Statuses
  <2>3. found' \in [changes : SUBSET Programs, slow : SUBSET Programs, fast : SUBSET Programs,
                    noBaseline : BOOLEAN, noTimes : BOOLEAN]
        BY <1>3, <2>1 DEF Screen, Ranges
  <2> QED BY <1>3, <2>2, <2>3 DEF Screen, Ranges
<1>4. CASE Confirm
  <2>1. times' \in Tables(Nat)
        BY <1>4, SecondSweepFacts DEF Confirm, SecondSweep, Staged
  <2> QED BY <1>4, <2>1 DEF Confirm, SecondSweep, EndEmission, Ranges, Stages, Statuses
<1>5. CASE Pair
  <2>1. PICK slow \in SUBSET SlowerOf(disk.times, times) :
               /\ times' = PairedTimes(SlowerOf(disk.times, times) \ slow)
               /\ found' = [found EXCEPT !.slow = slow, !.fast = FasterOf(disk.times, times')]
        BY <1>5 DEF Pair
  <2>2. times' \in Tables(Nat) /\ DOMAIN times' = DOMAIN times
        BY <1>5, <2>1, PairedFacts DEF Pair, Staged
  <2>3. slow \in SUBSET Programs /\ FasterOf(disk.times, times') \in SUBSET Programs
        BY <2>2, TableFacts DEF Ranges, SlowerOf, FasterOf, Both
  <2> QED BY <1>5, <2>1, <2>2, <2>3 DEF Pair, Ranges, Stages
<1>6. CASE CompareBaseline
  <2>1. disk.outcomes \notin {Missing, Malformed} => Compare(disk.outcomes, outs) \in SUBSET Programs
        BY TableFacts DEF Compare, Ranges, Baseline, Files
  <2> QED BY <1>6, <2>1 DEF CompareBaseline, EndEmission, Ranges, Stages, Statuses
<1>7. CASE Suites
      BY <1>7 DEF Suites, Ranges, Stages, Statuses
<1>8. CASE AcceptRun
  <2>1. result["emission"] \in Statuses
        BY DEF Ranges, Steps
  <2> QED BY <1>8, <2>1 DEF AcceptRun, Finish, Ranges, Stages, Statuses
<1>9. CASE RemoveEmitted
  <2>1. disk' \in Baseline
        BY <1>9, EmptyIsTable DEF RemoveEmitted, Ranges, Baseline
  <2> QED BY <1>9, <2>1 DEF RemoveEmitted, Ranges, Stages, run
<1>10. CASE CopyEmitted
  <2>1. disk' \in Baseline
    <3>1. ASSUME NEW p \in DOMAIN Emitted(outs),
                 disk' = [disk EXCEPT !.emitted = Restrict(outs, DOMAIN disk.emitted \cup {p})]
          PROVE  disk' \in Baseline
      <4>1. /\ DOMAIN Emitted(outs) = {q \in DOMAIN outs : outs[q] \in Emissions}
            /\ DOMAIN disk.emitted \subseteq DOMAIN Emitted(outs)
            BY <1>10, EmittedTable DEF CopyEmitted, Staged, Ranges
      <4> DEFINE S == DOMAIN disk.emitted \cup {p}
      <4>2. S \in SUBSET Programs /\ \A q \in S : outs[q] \in Emissions
            BY <4>1, TableFacts DEF Ranges
      <4>3. Restrict(outs, S) \in [S -> Emissions]
            BY <4>2 DEF Restrict
      <4>4. Restrict(outs, S) \in Tables(Emissions)
            BY <4>2, <4>3, TableIntro
      <4> QED BY <3>1, <4>4 DEF Ranges, Baseline
    <3> QED BY <1>10, <3>1 DEF CopyEmitted, Ranges
  <2> QED BY <1>10, <2>1 DEF CopyEmitted, Ranges, Stages, run
<1>11. CASE WriteOutcomes
  <2>1. disk' \in Baseline
        BY <1>11, ReadTable DEF WriteOutcomes, Ranges, Baseline
  <2> QED BY <1>11, <2>1 DEF WriteOutcomes, Ranges, Stages, run
<1>12. CASE SweepAgain
  <2>1. times' \in Tables(Nat)
        BY <1>12, SecondSweepFacts DEF SweepAgain, SecondSweep, Staged
  <2> QED BY <1>12, <2>1 DEF SweepAgain, SecondSweep, Finish, Ranges, Stages, Statuses
<1>13. CASE WriteTimes
  <2>1. disk' \in Baseline
        BY <1>13 DEF WriteTimes, Ranges, Baseline
  <2> QED BY <1>13, <2>1 DEF WriteTimes, Ranges, Stages, run
<1>14. CASE AppendLog
  <2>1. [outs |-> outs, slow |-> found.slow] \in Entry
        BY DEF Ranges, Entry
  <2>2. Append(disk.log, [outs |-> outs, slow |-> found.slow]) \in Seq(Entry)
        BY <2>1, AppendProperties DEF Ranges, Baseline
  <2>3. disk' \in Baseline
        BY <1>14, <2>2 DEF AppendLog, Ranges, Baseline
  <2> QED BY <1>14, <2>3 DEF AppendLog, Finish, Ranges, Stages, Statuses
<1>15. CASE Exit
  <2>1. held' \in Baseline
        BY <1>15, EmptyIsTable DEF Exit, NoBaseline, Baseline, Files
  <2> QED BY <1>0, <1>15, <2>1 DEF Exit, Ranges, Stages
<1>16. CASE WriteFails
  <2>1. disk' \in Baseline
        BY <1>16, CutShortRange DEF WriteFails
  <2> QED BY <1>16, <2>1 DEF WriteFails, Finish, Ranges, Stages, Statuses
<1>17. CASE Crash
  <2>1. disk' \in Baseline
        BY <1>17, CutShortRange DEF Crash
  <2>2. held' \in Baseline
        BY <1>17, EmptyIsTable DEF Crash, NoBaseline, Baseline, Files
  <2> QED BY <1>0, <1>17, <2>1, <2>2 DEF Crash, Ranges, Stages
<1>18. CASE Edit
      BY <1>18 DEF Edit, Ranges, run
<1>19. CASE Commit
      BY <1>19 DEF Commit, Ranges, run
<1>20. CASE Revert
      BY <1>20 DEF Revert, Ranges, run
<1>21. CASE UNCHANGED vars
      BY <1>21 DEF vars, run, Ranges
<1> QED BY <1>1, <1>2, <1>3, <1>4, <1>5, <1>6, <1>7, <1>8, <1>9, <1>10, <1>11, <1>12, <1>13,
           <1>14, <1>15, <1>16, <1>17, <1>18, <1>19, <1>20, <1>21 DEF Next

LEMMA StagedNext == Ranges /\ Staged /\ [Next]_vars => Staged'
<1> SUFFICES ASSUME Ranges, Staged, [Next]_vars PROVE Staged'
    OBVIOUS
<1>0. ASSUME AtRest' PROVE DOMAIN times' = DOMAIN outs' /\ found'.slow \subseteq DOMAIN outs'
      BY <1>0 DEF AtRest, NoFindings
<1>1. CASE Start
      BY <1>1 DEF Start, Staged, AtRest
<1>2. CASE Sweep
  <2>1. DOMAIN times' = DOMAIN outs'
        BY <1>2, SweepFacts DEF Sweep, Ranges
  <2> QED BY <1>2, <2>1 DEF Sweep, Staged, NoFindings
<1>3. CASE Screen
      BY <1>3 DEF Screen, EndEmission, Staged, Ranges, Table, Files
<1>4. CASE Confirm
  <2>1. DOMAIN times' = DOMAIN times
        BY <1>4, SecondSweepFacts DEF Confirm, SecondSweep, Staged
  <2> QED BY <1>4, <2>1 DEF Confirm, SecondSweep, EndEmission, Staged
<1>5. CASE Pair
  <2>1. PICK slow \in SUBSET SlowerOf(disk.times, times) :
               /\ times' = PairedTimes(SlowerOf(disk.times, times) \ slow)
               /\ found' = [found EXCEPT !.slow = slow, !.fast = FasterOf(disk.times, times')]
        BY <1>5 DEF Pair
  <2>2. DOMAIN times' = DOMAIN times
        BY <1>5, <2>1, PairedFacts DEF Pair, Staged
  <2>3. slow \subseteq DOMAIN times
        BY DEF SlowerOf, Both
  <2>4. found'.slow = slow
        BY <2>1 DEF Ranges
  <2> QED BY <1>5, <2>2, <2>3, <2>4 DEF Pair, Staged
<1>6. CASE CompareBaseline
      BY <1>6 DEF CompareBaseline, EndEmission, Staged, Ranges
<1>7. CASE Suites
      BY <1>7 DEF Suites, Staged
<1>8. CASE AcceptRun
      BY <1>8 DEF AcceptRun, Finish, Staged
<1>9. CASE RemoveEmitted
  <2>1. disk'.emitted = EmptyTable /\ pc' = "copy" /\ UNCHANGED <<times, outs, found>>
        BY <1>9 DEF RemoveEmitted, Ranges, Baseline, run
  <2>2. EmptyTable = Restrict(outs, {}) /\ DOMAIN EmptyTable = {}
        BY DEF EmptyTable, Restrict
  <2> QED BY <2>1, <2>2 DEF Staged
<1>10. CASE CopyEmitted
  <2>1. UNCHANGED <<times, outs, found>>
        BY <1>10 DEF CopyEmitted, run
  <2>2. CASE DOMAIN Emitted(outs) \ DOMAIN disk.emitted = {} /\ pc' = "outcomes" /\ UNCHANGED disk
    <3>1. DOMAIN disk.emitted = DOMAIN Emitted(outs)
          BY <1>10, <2>2 DEF CopyEmitted, Staged
    <3>2. Emitted(outs) = Restrict(outs, DOMAIN Emitted(outs))
          BY DEF Emitted, Restrict
    <3>3. disk.emitted = Emitted(outs)
          BY <1>10, <3>1, <3>2 DEF CopyEmitted, Staged
    <3> QED BY <2>1, <2>2, <3>3 DEF Staged
  <2>3. ASSUME NEW p \in DOMAIN Emitted(outs), UNCHANGED pc,
               disk' = [disk EXCEPT !.emitted = Restrict(outs, DOMAIN disk.emitted \cup {p})]
        PROVE  Staged'
    <3>1. disk'.emitted = Restrict(outs, DOMAIN disk.emitted \cup {p}) /\ pc = "copy" /\ pc' = "copy"
          BY <1>10, <2>3 DEF CopyEmitted, Ranges, Baseline
    <3>2. DOMAIN disk'.emitted = DOMAIN disk.emitted \cup {p}
          BY <3>1 DEF Restrict
    <3> QED BY <2>1, <2>3, <3>1, <3>2 DEF Staged
  <2> QED BY <1>10, <2>2, <2>3 DEF CopyEmitted
<1>11. CASE WriteOutcomes
      BY <1>11 DEF WriteOutcomes, Staged, run, Ranges, Baseline
<1>12. CASE SweepAgain
  <2>1. DOMAIN times' = DOMAIN times
        BY <1>12, SecondSweepFacts DEF SweepAgain, SecondSweep, Staged
  <2> QED BY <1>12, <2>1 DEF SweepAgain, SecondSweep, Finish, Staged
<1>13. CASE WriteTimes
      BY <1>13 DEF WriteTimes, Staged, run, Ranges, Baseline
<1>14. CASE AppendLog
      BY <1>14 DEF AppendLog, Finish, Staged
<1>15. CASE Exit
      BY <1>0, <1>15 DEF Exit, Staged, AtRest
<1>16. CASE WriteFails
      BY <1>16 DEF WriteFails, Finish, Staged
<1>17. CASE Crash
      BY <1>0, <1>17 DEF Crash, Staged, AtRest
<1>18. CASE Edit
      BY <1>18 DEF Edit, Staged, Developer, AtRest, run
<1>19. CASE Commit
      BY <1>19 DEF Commit, Staged, Developer, AtRest, run
<1>20. CASE Revert
      BY <1>20 DEF Revert, Staged, Developer, AtRest, run
<1>21. CASE UNCHANGED vars
      BY <1>21 DEF vars, run, Staged, AtRest
<1> QED BY <1>1, <1>2, <1>3, <1>4, <1>5, <1>6, <1>7, <1>8, <1>9, <1>10, <1>11, <1>12, <1>13,
           <1>14, <1>15, <1>16, <1>17, <1>18, <1>19, <1>20, <1>21 DEF Next

GateInv == Ranges /\ Staged

LEMMA GateInvariant == Spec => []GateInv
<1>1. Init => GateInv
      BY RangesInit, StagedInit DEF GateInv
<1>2. GateInv /\ [Next]_vars => GateInv'
      BY RangesNext, StagedNext DEF GateInv
<1> QED BY <1>1, <1>2, PTL DEF Spec

-----------------------------------------------------------------------------
(* The ledger.                                                             *)

\* The steps that leave the log and the commits alone.
LEMMA LedgerKept ==
  ASSUME UNCHANGED git, disk'.log = disk.log,
         \/ Accepting /\ Accepting' /\ UNCHANGED held
         \/ ~Accepting /\ UNCHANGED disk /\ (Accepting' => held' = disk)
         \/ ~Accepting' /\ (pc' = "summary" => result'["emission"] # "pass")
  PROVE  Ledger!Next
<1> DEFINE files == IF Accepting THEN [held EXCEPT !.log = << >>] ELSE [disk EXCEPT !.log = << >>]
<1>1. CASE ~Accepting' /\ (pc' = "summary" => result'["emission"] # "pass")
  <2>1. (IF pc = "summary" THEN result["emission"] ELSE "none")' # "pass"
        BY <1>1
  <2> QED BY <2>1 DEF Ledger!Next, Ledger!Interrupted
<1>2. CASE files' = files
      BY <1>2 DEF Ledger!Next, Ledger!Answer
<1> QED BY <1>1, <1>2

\* The last step of an accept: everything is written and only the entry is not.
LEMMA LedgerAccept == GateInv /\ AppendLog => Ledger!Next
<1> SUFFICES ASSUME GateInv, AppendLog PROVE Ledger!Next
    OBVIOUS
<1> DEFINE entry == [outs |-> outs, slow |-> found.slow]
           files == IF Accepting THEN [held EXCEPT !.log = << >>] ELSE [disk EXCEPT !.log = << >>]
<1>1. disk' = [disk EXCEPT !.log = Append(disk.log, entry)] /\ pc' = "summary" /\ UNCHANGED git
      BY DEF AppendLog, Finish
<1>2. result'["emission"] = "pass"
      BY DEF AppendLog, Finish, GateInv, Ranges, Steps
<1>3. /\ disk'.log = Append(disk.log, entry) /\ disk'.emitted = Emitted(outs)
      /\ disk'.outcomes = outs /\ disk'.times = times
      BY <1>1 DEF AppendLog, GateInv, Ranges, Baseline, Staged
<1>4. disk' \in Baseline
      BY RangesNext DEF GateInv, Next, Ranges
<1>5. /\ files'.emitted = Emitted(outs) /\ files'.outcomes = outs /\ files'.times = times
      BY <1>1, <1>3, <1>4 DEF Accepting, Baseline
<1>6. Len(disk'.log) = Len(disk.log) + 1
  <2>1. disk.log \in Seq(Entry) /\ entry \in Entry
        BY DEF GateInv, Ranges, Baseline, Entry
  <2> QED BY <1>3, <2>1, AppendProperties
<1>7. found.slow \in SUBSET DOMAIN files'.times /\ DOMAIN outs = DOMAIN times
      BY <1>5 DEF GateInv, Staged
<1>8. /\ DOMAIN Emitted(outs) \subseteq DOMAIN outs
      /\ \A p \in DOMAIN Emitted(outs) : Emitted(outs)[p] = outs[p]
      BY DEF Emitted, Restrict
<1> HIDE DEF files
<1>9. \E slow \in SUBSET DOMAIN files'.times :
        disk'.log = Append(disk.log, [outs |-> files'.outcomes, slow |-> slow])
      BY <1>3, <1>5, <1>7
<1>10. (IF pc = "summary" THEN result["emission"] ELSE "none")' = "pass"
      BY <1>1, <1>2
<1>11. git'.baseline = git.baseline
      BY <1>1
<1> QED BY <1>5, <1>6, <1>7, <1>8, <1>9, <1>10, <1>11 DEF Ledger!Next, Ledger!Accept, files

LEMMA LedgerStep == GateInv /\ [Next]_vars => [Ledger!Next]_(Ledger!ledgerVars)
<1> SUFFICES ASSUME GateInv, Next PROVE Ledger!Next
    BY DEF vars, run, Ledger!ledgerVars, Accepting
<1> USE DEF Accepting
<1>1. CASE Start \/ Sweep \/ Screen \/ Confirm \/ Pair \/ CompareBaseline \/ Suites
      BY <1>1, LedgerKept DEF Start, Sweep, Screen, Confirm, Pair, CompareBaseline, Suites,
         SecondSweep, EndEmission
<1>2. CASE AcceptRun
      BY <1>2, LedgerKept DEF AcceptRun, Finish
<1>3. CASE RemoveEmitted \/ CopyEmitted \/ WriteOutcomes \/ WriteTimes
  <2>1. disk'.log = disk.log
        BY <1>3 DEF RemoveEmitted, CopyEmitted, WriteOutcomes, WriteTimes, GateInv, Ranges, Baseline
  <2> QED BY <1>3, <2>1, LedgerKept DEF RemoveEmitted, CopyEmitted, WriteOutcomes, WriteTimes
<1>4. CASE SweepAgain
  <2>1. CASE pc' = "times"
        BY <1>4, <2>1, LedgerKept DEF SweepAgain, SecondSweep
  <2>2. CASE Finish("fail")
    <3>1. result'["emission"] = "fail"
          BY <2>2 DEF Finish, GateInv, Ranges, Steps
    <3> QED BY <1>4, <2>2, <3>1, LedgerKept DEF SweepAgain, Finish
  <2> QED BY <1>4, <2>1, <2>2 DEF SweepAgain, SecondSweep
<1>5. CASE AppendLog
      BY <1>5, LedgerAccept
<1>6. CASE Exit
      BY <1>6, LedgerKept DEF Exit
<1>7. CASE WriteFails
  <2>1. result'["emission"] = "fail" /\ pc' = "summary"
        BY <1>7 DEF WriteFails, Finish, GateInv, Ranges, Steps
  <2>2. disk'.log = disk.log
        BY <1>7, CutShortRange DEF WriteFails, GateInv
  <2> QED BY <1>7, <2>1, <2>2, LedgerKept DEF WriteFails
<1>8. CASE Crash
  <2>1. disk'.log = disk.log
        BY <1>8, CutShortRange DEF Crash, GateInv
  <2> QED BY <1>8, <2>1, LedgerKept DEF Crash
<1>9. CASE Edit
      BY <1>9, LedgerKept DEF Edit, Developer, run
<1>10. CASE Commit
  <2> DEFINE files == [disk EXCEPT !.log = << >>]
  <2>1. /\ pc = "idle" /\ pc' = "idle" /\ UNCHANGED <<disk, result>> /\ git'.baseline = disk
        BY <1>10 DEF Commit, Developer, run
  <2>2. disk = [files EXCEPT !.log = disk.log]
        BY DEF GateInv, Ranges, Baseline
  <2> QED BY <2>1, <2>2 DEF Ledger!Next, Ledger!Keep
<1>11. CASE Revert
      BY <1>11 DEF Revert, Developer, run, Ledger!Next, Ledger!Restore
<1> QED BY <1>1, <1>2, <1>3, <1>4, <1>5, <1>6, <1>7, <1>8, <1>9, <1>10, <1>11 DEF Next

\* The baseline of cmd/check changes in one piece and with its log entry, or the
\* run does not report success, whatever fails and wherever it is interrupted.
THEOREM AcceptIsAtomicHolds == Spec => AcceptIsAtomic
<1>1. Init => Ledger!Init
      BY DEF Init, Ledger!Init, Accepting, Accepted, NoBaseline
<1>2. GateInv /\ [Next]_vars => [Ledger!Next]_(Ledger!ledgerVars)
      BY LedgerStep
<1> QED BY <1>1, <1>2, GateInvariant, PTL DEF Spec, AcceptIsAtomic, Ledger!Spec

-----------------------------------------------------------------------------
(* Ranges as the runs check them.                                          *)

\* The log has room for one entry while a run is under way.
LogBounded ==
  /\ Len(disk.log) <= MaxLog /\ Len(git.baseline.log) <= MaxLog /\ Len(held.log) <= MaxLog
  /\ pc \notin {"idle", "summary"} => Len(disk.log) < MaxLog

LEMMA LogLength ==
  ASSUME Ranges
  PROVE  Len(disk.log) \in Nat /\ Len(held.log) \in Nat /\ Len(git.baseline.log) \in Nat
<1>1. disk.log \in Seq(Entry) /\ held.log \in Seq(Entry) /\ git.baseline.log \in Seq(Entry)
      BY DEF Ranges, Baseline
<1> QED BY <1>1, LenProperties

LEMMA LogInit == Init => LogBounded
<1> SUFFICES ASSUME Init PROVE LogBounded
    OBVIOUS
<1>1. Len(Accepted(code).log) = 1 /\ Len(NoBaseline.log) = 0
      BY DEF Accepted, NoBaseline
<1>2. MaxLog \in Nat /\ 1 <= MaxLog
      BY GateAssumption
<1>3. disk \in {Accepted(code), NoBaseline} /\ git.baseline = disk /\ held = NoBaseline /\ pc = "idle"
      BY DEF Init
<1>4. Len(disk.log) \in {0, 1} /\ Len(held.log) = 0
  <2>1. CASE disk = Accepted(code)
        BY <1>1, <1>3, <2>1
  <2>2. CASE disk = NoBaseline
        BY <1>1, <1>3, <2>2
  <2> QED BY <1>3, <2>1, <2>2
<1>5. Len(git.baseline.log) = Len(disk.log)
      BY <1>3
<1>6. pc = "idle"
      BY DEF Init
<1>7. \A m \in {0, 1} : m <= MaxLog
      BY <1>2
<1> QED BY <1>4, <1>5, <1>6, <1>7 DEF LogBounded

LEMMA LogNext == GateInv /\ LogBounded /\ [Next]_vars => LogBounded'
<1> SUFFICES ASSUME GateInv, LogBounded, [Next]_vars PROVE LogBounded'
    OBVIOUS
<1>0. /\ Len(disk.log) \in Nat /\ Len(held.log) \in Nat /\ Len(git.baseline.log) \in Nat
      /\ MaxLog \in Nat /\ 0 <= MaxLog
      BY LogLength, GateAssumption DEF GateInv
<1>1. CASE Start
      BY <1>1 DEF Start, LogBounded
<1>2. CASE Sweep \/ Screen \/ Confirm \/ Pair \/ CompareBaseline \/ Suites
      BY <1>2 DEF Sweep, Screen, Confirm, Pair, CompareBaseline, Suites, SecondSweep, EndEmission, LogBounded
<1>3. CASE AcceptRun
      BY <1>3 DEF AcceptRun, Finish, LogBounded
<1>4. CASE RemoveEmitted \/ CopyEmitted \/ WriteOutcomes \/ WriteTimes
  <2>1. disk'.log = disk.log /\ pc # "idle" /\ pc # "summary" /\ UNCHANGED <<git, held>>
        BY <1>4 DEF RemoveEmitted, CopyEmitted, WriteOutcomes, WriteTimes, GateInv, Ranges, Baseline
  <2> QED BY <2>1 DEF LogBounded
<1>5. CASE SweepAgain
      BY <1>5 DEF SweepAgain, SecondSweep, Finish, LogBounded
<1>6. CASE AppendLog
  <2>1. disk'.log = Append(disk.log, [outs |-> outs, slow |-> found.slow])
        BY <1>6 DEF AppendLog, GateInv, Ranges, Baseline
  <2>2. disk.log \in Seq(Entry) /\ [outs |-> outs, slow |-> found.slow] \in Entry
        BY DEF GateInv, Ranges, Baseline, Entry
  <2>3. Len(disk'.log) = Len(disk.log) + 1
        BY <2>1, <2>2, AppendProperties
  <2> QED BY <1>0, <1>6, <2>3 DEF AppendLog, Finish, LogBounded
<1>7. CASE Exit
      BY <1>0, <1>7 DEF Exit, LogBounded, NoBaseline
<1>8. CASE WriteFails
      BY <1>8, CutShortRange DEF WriteFails, Finish, GateInv, LogBounded
<1>9. CASE Crash
      BY <1>0, <1>9, CutShortRange DEF Crash, GateInv, LogBounded, NoBaseline
<1>10. CASE Edit \/ Revert
      BY <1>10 DEF Edit, Revert, Developer, LogBounded
<1>11. CASE Commit
      BY <1>11 DEF Commit, Developer, LogBounded
<1>12. CASE UNCHANGED vars
      BY <1>12 DEF vars, LogBounded
<1> QED BY <1>1, <1>2, <1>3, <1>4, <1>5, <1>6, <1>7, <1>8, <1>9, <1>10, <1>11, <1>12 DEF Next

LEMMA RangesTyped == GateInv /\ LogBounded => TypeOK
<1> SUFFICES ASSUME GateInv, LogBounded PROVE TypeOK
    OBVIOUS
<1>1. ASSUME NEW V, NEW f \in Tables(V) PROVE IsTable(f, V)
      BY TableFacts DEF IsTable
<1>2. ASSUME NEW d \in Baseline
      PROVE  /\ IsTable(d.emitted, Emissions)
             /\ Table(d.outcomes) => IsTable(d.outcomes, Records)
             /\ Table(d.times) => IsTable(d.times, Nat)
      BY <1>1, <1>2 DEF Baseline, Table
<1>3. disk \in Baseline /\ git.baseline \in Baseline /\ held \in Baseline
      BY DEF GateInv, Ranges
<1>4. IsTable(outs, Outcomes) /\ IsTable(times, Nat)
      BY <1>1 DEF GateInv, Ranges
<1>5. code \in Codes /\ git.code \in Codes /\ found.changes \cup found.slow \cup found.fast \subseteq Programs
      BY DEF GateInv, Ranges
<1> QED BY <1>2, <1>3, <1>4, <1>5 DEF TypeOK, GateInv, Staged, LogBounded

\* Everything the gate keeps is in its range, for any number of programs.
THEOREM GateTypeOK == Spec => []TypeOK
<1>1. Init => LogBounded
      BY LogInit
<1>2. GateInv /\ LogBounded /\ [Next]_vars => LogBounded'
      BY LogNext
<1>3. GateInv /\ LogBounded => TypeOK
      BY RangesTyped
<1> QED BY <1>1, <1>2, <1>3, GateInvariant, PTL DEF Spec

-----------------------------------------------------------------------------
(* The outcomes on disk were judged.                                       *)

JudgedFile(d) == Table(d.outcomes) => \E j \in judged : Begins(d.outcomes, j)

LEMMA BeginsItself == ASSUME NEW f PROVE Begins(f, f)
BY DEF Begins

\* What an accept is about to write was judged in this run.
JudgedInv ==
  /\ JudgedFile(disk) /\ JudgedFile(git.baseline)
  /\ (pc = "accept" /\ "emission" \in asked.steps /\ Evidence) => outs \in judged
  /\ Accepting => outs \in judged

LEMMA JudgedInit == Init => JudgedInv
BY BeginsItself DEF Init, JudgedInv, JudgedFile, Accepted, NoBaseline, Table, Files, Accepting

LEMMA JudgedNext == GateInv /\ JudgedInv /\ [Next]_vars => JudgedInv'
<1> SUFFICES ASSUME GateInv, JudgedInv, [Next]_vars PROVE JudgedInv'
    OBVIOUS
<1> USE DEF Accepting
<1>0. ASSUME judged \subseteq judged', UNCHANGED disk PROVE JudgedFile(disk)'
      BY <1>0 DEF JudgedInv, JudgedFile
<1>00. ASSUME judged \subseteq judged', UNCHANGED git PROVE JudgedFile(git.baseline)'
      BY <1>00 DEF JudgedInv, JudgedFile
<1>1. CASE Start \/ Sweep \/ Screen \/ Confirm \/ Pair \/ CompareBaseline
      BY <1>0, <1>00, <1>1 DEF Start, Sweep, Screen, Confirm, Pair, CompareBaseline, SecondSweep, EndEmission,
         JudgedInv
<1>2. CASE Suites
  <2>1. judged \subseteq judged' /\ UNCHANGED <<disk, git, asked, outs>> /\ pc' \in {"accept", "summary"}
        BY <1>2 DEF Suites
  <2>2. ("emission" \in asked.steps /\ Evidence') => outs \in judged'
        BY <1>2 DEF Suites, Evidence
  <2> QED BY <1>0, <1>00, <2>1, <2>2 DEF JudgedInv
<1>3. CASE AcceptRun
      BY <1>0, <1>00, <1>3 DEF AcceptRun, Finish, JudgedInv
<1>4. CASE RemoveEmitted \/ CopyEmitted \/ WriteTimes
  <2>1. disk'.outcomes = disk.outcomes /\ UNCHANGED <<git, judged, outs>> /\ Accepting /\ pc' # "accept"
        BY <1>4 DEF RemoveEmitted, CopyEmitted, WriteTimes, GateInv, Ranges, Baseline, run
  <2> QED BY <1>00, <2>1 DEF JudgedInv, JudgedFile
<1>5. CASE WriteOutcomes
  <2>1. disk'.outcomes = outs /\ UNCHANGED <<git, judged, outs>> /\ Accepting /\ pc' = "again"
        BY <1>5 DEF WriteOutcomes, GateInv, Ranges, Baseline, run
  <2> QED BY <1>00, <2>1, BeginsItself DEF JudgedInv, JudgedFile
<1>6. CASE SweepAgain \/ AppendLog
  <2>1. disk'.outcomes = disk.outcomes /\ UNCHANGED <<git, judged, outs>> /\ Accepting /\ pc' # "accept"
        BY <1>6 DEF SweepAgain, SecondSweep, AppendLog, Finish, GateInv, Ranges, Baseline
  <2> QED BY <1>00, <2>1 DEF JudgedInv, JudgedFile
<1>7. CASE WriteFails \/ Crash
  <2>1. CutShort /\ UNCHANGED <<git, judged>> /\ ~Accepting' /\ pc' # "accept"
        BY <1>7 DEF WriteFails, Crash, Finish
  <2>2. CASE UNCHANGED disk
        BY <1>0, <1>00, <2>1, <2>2 DEF JudgedInv
  <2>3. ASSUME pc = "outcomes", NEW f \in TornOutcomes, disk' = [disk EXCEPT !.outcomes = f]
        PROVE  JudgedInv'
    <3>1. disk'.outcomes = f /\ outs \in judged
          BY <2>3 DEF GateInv, Ranges, Baseline, JudgedInv
    <3>2. Table(f) => Begins(f, outs)
          BY TornOutcomesFacts DEF GateInv
    <3> QED BY <1>00, <2>1, <3>1, <3>2 DEF JudgedInv, JudgedFile
  <2>4. ASSUME NEW f \in TornTimes, disk' = [disk EXCEPT !.times = f]
        PROVE  JudgedInv'
    <3>1. disk'.outcomes = disk.outcomes
          BY <2>4 DEF GateInv, Ranges, Baseline
    <3> QED BY <1>00, <2>1, <3>1 DEF JudgedInv, JudgedFile
  <2> QED BY <2>1, <2>2, <2>3, <2>4 DEF CutShort
<1>8. CASE Exit
      BY <1>0, <1>00, <1>8 DEF Exit, JudgedInv
<1>9. CASE Edit
      BY <1>0, <1>00, <1>9 DEF Edit, Developer, JudgedInv
<1>10. CASE Commit
      BY <1>0, <1>10 DEF Commit, Developer, JudgedInv, JudgedFile
<1>11. CASE Revert
      BY <1>00, <1>11 DEF Revert, Developer, JudgedInv, JudgedFile
<1>12. CASE UNCHANGED vars
      BY <1>0, <1>00, <1>12 DEF vars, run, JudgedInv, Evidence
<1> QED BY <1>1, <1>2, <1>3, <1>4, <1>5, <1>6, <1>7, <1>8, <1>9, <1>10, <1>11, <1>12 DEF Next

\* outcomes.txt is the beginning of the file of a run whose compiler and
\* differential suites passed, whatever fails and wherever in a record it is cut:
\* only the last outcome in it can be one that no run had.
THEOREM BaselineJudgedHolds == Spec => []BaselineJudged
<1>1. Init => JudgedInv
      BY JudgedInit
<1>2. GateInv /\ JudgedInv /\ [Next]_vars => JudgedInv'
      BY JudgedNext
<1>3. JudgedInv => BaselineJudged
      BY DEF JudgedInv, JudgedFile, BaselineJudged
<1> QED BY <1>1, <1>2, <1>3, GateInvariant, PTL DEF Spec

-----------------------------------------------------------------------------
(* A green run agrees with the baseline.                                   *)

EmissionAsked == "emission" \in asked.steps

\* What the status of the emission step says while the run goes on.
GreenInv ==
  /\ (EmissionAsked /\ pc \in {"suites", "accept", "summary"}) => result["emission"] # "skip"
  /\ (EmissionAsked /\ pc \in {"suites", "accept", "summary"} /\ result["emission"] = "pass")
       => disk.outcomes = outs
  /\ (pc = "summary" /\ EmissionAsked /\ result["emission"] = "pass" /\ asked.accept /\ ~NothingToAccept) =>
       /\ disk.emitted = Emitted(outs) /\ disk.times = times /\ disk.log # << >>
       /\ disk.log[Len(disk.log)] = [outs |-> outs, slow |-> found.slow]

LEMMA GreenInit == Init => GreenInv
BY DEF Init, GreenInv, AtRest, EmissionAsked, NotAsked

LEMMA GreenNext == GateInv /\ GreenInv /\ [Next]_vars => GreenInv'
<1> SUFFICES ASSUME GateInv, GreenInv, [Next]_vars PROVE GreenInv'
    OBVIOUS
<1> USE DEF EmissionAsked
<1>0. ASSUME NEW s, result' = [result EXCEPT !["emission"] = s] PROVE result'["emission"] = s
      BY <1>0 DEF GateInv, Ranges, Steps
<1>1. CASE Start
  <2>1. result = Skipped
        BY <1>1 DEF Start, GateInv, Staged, AtRest
  <2> QED BY <1>1, <2>1 DEF Start, GreenInv, Skipped, Steps
<1>2. CASE Sweep
      BY <1>2 DEF Sweep, GreenInv
<1>3. CASE Screen
      BY <1>0, <1>3 DEF Screen, EndEmission, GreenInv
<1>4. CASE Confirm
      BY <1>0, <1>4 DEF Confirm, SecondSweep, EndEmission, GreenInv
<1>5. CASE Pair
      BY <1>5 DEF Pair, GreenInv
<1>6. CASE CompareBaseline
  <2>1. ASSUME disk.outcomes \notin {Missing, Malformed}, Compare(disk.outcomes, outs) = {}
        PROVE  disk.outcomes = outs
        BY <2>1, SameTable, ReadTable DEF GateInv, Ranges, Baseline, Files
  <2>2. /\ pc' = "suites" /\ result'["emission"] \in {"pass", "review", "fail"} /\ UNCHANGED <<asked, disk, outs>>
        /\ result'["emission"] = "pass" =>
             disk.outcomes \notin {Missing, Malformed} /\ Compare(disk.outcomes, outs) = {}
        BY <1>0, <1>6 DEF CompareBaseline, EndEmission
  <2> QED BY <2>1, <2>2 DEF GreenInv
<1>7. CASE Suites
  <2>1. /\ result'["emission"] = result["emission"] /\ UNCHANGED <<asked, disk, outs>> /\ pc = "suites"
        /\ pc' = "accept" \/ (pc' = "summary" /\ ~asked.accept)
        BY <1>7 DEF Suites, Steps
  <2> QED BY <2>1 DEF GreenInv
<1>8. CASE AcceptRun
  <2>1. UNCHANGED <<asked, disk, outs, found>> /\ pc = "accept"
        BY <1>8 DEF AcceptRun
  <2>2. CASE pc' = "clear" /\ UNCHANGED result
        BY <2>2 DEF GreenInv
  <2>3. CASE Finish("fail") \/ Finish("review")
        BY <1>0, <2>3 DEF Finish, GreenInv
  <2>4. CASE EmissionAsked /\ (result["emission"] = "fail" \/ NothingToAccept) /\ Finish(result["emission"])
    <3>1. result'["emission"] = result["emission"] /\ (NothingToAccept <=> NothingToAccept')
          BY <1>0, <2>1, <2>4 DEF Finish, NothingToAccept
    <3> QED BY <2>1, <2>4, <3>1 DEF GreenInv
  <2> QED BY <1>8, <2>2, <2>3, <2>4 DEF AcceptRun
<1>9. CASE RemoveEmitted \/ CopyEmitted \/ WriteOutcomes \/ WriteTimes
      BY <1>9 DEF RemoveEmitted, CopyEmitted, WriteOutcomes, WriteTimes, GreenInv
<1>10. CASE SweepAgain
      BY <1>0, <1>10 DEF SweepAgain, SecondSweep, Finish, GreenInv
<1>11. CASE AppendLog
  <2> DEFINE entry == [outs |-> outs, slow |-> found.slow]
  <2>1. /\ disk'.log = Append(disk.log, entry) /\ disk'.emitted = disk.emitted
        /\ disk'.outcomes = disk.outcomes /\ disk'.times = disk.times
        /\ UNCHANGED <<outs, times, found, asked>> /\ pc' = "summary"
        BY <1>11 DEF AppendLog, Finish, GateInv, Ranges, Baseline
  <2>2. disk.emitted = Emitted(outs) /\ disk.outcomes = outs /\ disk.times = times
        BY <1>11 DEF AppendLog, GateInv, Staged
  <2>3. disk.log \in Seq(Entry) /\ entry \in Entry
        BY DEF GateInv, Ranges, Baseline, Entry
  <2>4. disk'.log # << >> /\ disk'.log[Len(disk'.log)] = entry
        BY <2>1, <2>3, AppendProperties
  <2>5. result'["emission"] = "pass"
        BY <1>0, <1>11 DEF AppendLog, Finish
  <2> QED BY <2>1, <2>2, <2>4, <2>5 DEF GreenInv, Emitted
<1>12. CASE Exit
      BY <1>12 DEF Exit, GreenInv
<1>13. CASE WriteFails
      BY <1>0, <1>13 DEF WriteFails, Finish, GreenInv
<1>14. CASE Crash
      BY <1>14 DEF Crash, GreenInv
<1>15. CASE Edit \/ Commit \/ Revert
      BY <1>15 DEF Edit, Commit, Revert, Developer, GreenInv
<1>16. CASE UNCHANGED vars
      BY <1>16 DEF vars, run, GreenInv, NothingToAccept
<1> QED BY <1>1, <1>2, <1>3, <1>4, <1>5, <1>6, <1>7, <1>8, <1>9, <1>10, <1>11, <1>12, <1>13,
           <1>14, <1>15, <1>16 DEF Next

LEMMA GreenAgrees == GateInv /\ GreenInv => GreenBaseline
<1> SUFFICES ASSUME GateInv, GreenInv, pc = "summary", EmissionAsked, ExitCode = 0
             PROVE  /\ disk.outcomes = outs
                    /\ (asked.accept /\ ~NothingToAccept) =>
                         /\ disk.emitted = Emitted(outs) /\ disk.times = times /\ DOMAIN times = DOMAIN outs
                         /\ disk.log # << >> /\ disk.log[Len(disk.log)] = [outs |-> outs, slow |-> found.slow]
    BY DEF GreenBaseline, EmissionAsked
<1>1. result["emission"] \in Statuses /\ "emission" \in DOMAIN result
      BY DEF GateInv, Ranges, Steps
<1>2. result["emission"] # "fail" /\ result["emission"] # "review"
      BY <1>1 DEF ExitCode
<1>3. result["emission"] = "pass"
      BY <1>1, <1>2 DEF GreenInv, Statuses
<1> QED BY <1>3 DEF GreenInv, GateInv, Staged

\* A run of cmd/check that swept and ends green agrees with the baseline it
\* leaves, whatever an interrupted accept had left before it.
THEOREM GreenBaselineHolds == Spec => []GreenBaseline
<1>1. Init => GreenInv
      BY GreenInit
<1>2. GateInv /\ GreenInv /\ [Next]_vars => GreenInv'
      BY GreenNext
<1>3. GateInv /\ GreenInv => GreenBaseline
      BY GreenAgrees
<1> QED BY <1>1, <1>2, <1>3, GateInvariant, PTL DEF Spec

-----------------------------------------------------------------------------
(* The compile-time rule.                                                  *)

\* A regression nobody reports is one the baseline's compiler has too.
Reported ==
  \A p \in SlowerOf(disk.times, Restrict(code.cost, DOMAIN outs)) :
    p \in found.slow \/ ~Slower(git.code.cost[p], code.cost[p])

TimedInv ==
  /\ pc \in {"screen", "confirm", "pair"} => \A p \in DOMAIN times : code.cost[p] <= times[p]
  /\ (pc = "compare" /\ Table(disk.times)) => Reported
  /\ (pc = "suites" /\ result["emission"] \in {"pass", "review"} /\ Table(disk.times)) => Reported
  /\ (pc \in {"compare", "clear", "copy", "outcomes", "again", "times"} /\ Table(disk.times))
       => SlowerOf(disk.times, times) \subseteq found.slow
  /\ (pc \in {"suites", "accept"} /\ result["emission"] # "fail" /\ Table(disk.times))
       => SlowerOf(disk.times, times) \subseteq found.slow

\* Noise only adds: what the rule calls slower by the true cost it calls slower
\* by the measured time.
LEMMA TrueCost ==
  ASSUME Ranges, DOMAIN times = DOMAIN outs, Table(disk.times),
         \A p \in DOMAIN times : code.cost[p] <= times[p]
  PROVE  SlowerOf(disk.times, Restrict(code.cost, DOMAIN outs)) \subseteq SlowerOf(disk.times, times)
<1> SUFFICES ASSUME NEW p \in SlowerOf(disk.times, Restrict(code.cost, DOMAIN outs))
             PROVE  p \in SlowerOf(disk.times, times)
    OBVIOUS
<1>1. /\ p \in DOMAIN disk.times /\ p \in DOMAIN outs /\ Slower(disk.times[p], code.cost[p])
      BY DEF SlowerOf, Both, Restrict
<1>2. disk.times \in Tables(Nat)
      BY DEF Ranges, Baseline, Table
<1>3. disk.times[p] \in Nat /\ times[p] \in Nat /\ p \in Programs
      BY <1>1, <1>2, TableFacts DEF Ranges
<1>4. code.cost[p] \in Nat
      BY <1>3, CodeFacts DEF Ranges
<1>5. code.cost[p] <= times[p]
      BY <1>1
<1>6. Slower(disk.times[p], times[p])
      BY <1>1, <1>3, <1>4, <1>5, SlowerMonotone
<1> QED BY <1>1, <1>6 DEF SlowerOf, Both

\* Lower times are slower than fewer.
LEMMA LowerTimes ==
  ASSUME NEW b \in Tables(Nat), NEW t \in Tables(Nat), NEW u \in Tables(Nat),
         DOMAIN u \subseteq DOMAIN t, \A p \in DOMAIN u : u[p] <= t[p]
  PROVE  SlowerOf(b, u) \subseteq SlowerOf(b, t)
<1> SUFFICES ASSUME NEW p \in SlowerOf(b, u) PROVE p \in SlowerOf(b, t)
    OBVIOUS
<1>1. p \in DOMAIN b /\ p \in DOMAIN u /\ Slower(b[p], u[p])
      BY DEF SlowerOf, Both
<1>2. b[p] \in Nat /\ u[p] \in Nat /\ t[p] \in Nat
      BY <1>1, TableFacts
<1>3. Slower(b[p], t[p])
      BY <1>1, <1>2, SlowerMonotone
<1> QED BY <1>1, <1>3 DEF SlowerOf, Both

LEMMA NothingSlower == ASSUME NEW b \in Tables(Nat) PROVE SlowerOf(b, b) = {}
BY TableFacts, SlowerIrreflexive DEF SlowerOf, Both

LEMMA TimedInit == Init => TimedInv
BY DEF Init, TimedInv

\* The verdict of a pair: what is left slower than the baseline was reported.
LEMMA PairReports ==
  ASSUME GateInv, TimedInv, Pair, Table(disk.times)
  PROVE  /\ SlowerOf(disk.times, times') \subseteq found'.slow
         /\ \A p \in SlowerOf(disk.times, Restrict(code.cost, DOMAIN outs)) :
              p \in found'.slow \/ ~Slower(git.code.cost[p], code.cost[p])
<1> DEFINE suspects == SlowerOf(disk.times, times)
           confirmed == {p \in suspects : Slower(git.code.cost[p], code.cost[p])}
<1>1. PICK slow \in {suspects, confirmed} :
             /\ times' = PairedTimes(suspects \ slow)
             /\ found' = [found EXCEPT !.slow = slow, !.fast = FasterOf(disk.times, times')]
      BY DEF Pair
<1>2. found'.slow = slow
      BY <1>1 DEF GateInv, Ranges
<1>3. /\ DOMAIN times' = DOMAIN times
      /\ \A p \in DOMAIN times : times'[p] = IF p \in suspects \ slow THEN disk.times[p] ELSE times[p]
      BY <1>1, PairedFacts DEF GateInv
<1>4. ASSUME NEW p \in SlowerOf(disk.times, times') PROVE p \in slow
  <2>1. p \in DOMAIN disk.times /\ p \in DOMAIN times /\ Slower(disk.times[p], times'[p])
        BY <1>3 DEF SlowerOf, Both
  <2>2. disk.times[p] \in Nat
        BY <2>1, TableFacts DEF GateInv, Ranges, Baseline, Table
  <2>3. p \notin suspects \ slow
        BY <1>3, <2>1, <2>2, SlowerIrreflexive
  <2>4. p \in suspects
        BY <1>3, <2>1, <2>3 DEF SlowerOf, Both
  <2> QED BY <2>3, <2>4
<1>5. SlowerOf(disk.times, Restrict(code.cost, DOMAIN outs)) \subseteq suspects
      BY TrueCost DEF GateInv, Staged, TimedInv, Pair
<1> QED BY <1>1, <1>2, <1>4, <1>5

LEMMA TimedNext == GateInv /\ TimedInv /\ [Next]_vars => TimedInv'
<1> SUFFICES ASSUME GateInv, TimedInv, [Next]_vars PROVE TimedInv'
    OBVIOUS
<1>0. ASSUME NEW s, result' = [result EXCEPT !["emission"] = s] PROVE result'["emission"] = s
      BY <1>0 DEF GateInv, Ranges, Steps
<1>00. Table(disk.times) => disk.times \in Tables(Nat)
      BY DEF GateInv, Ranges, Baseline, Table
<1>1. CASE Start
  <2>1. times = EmptyTable /\ result = Skipped
        BY <1>1 DEF Start, GateInv, Staged, AtRest
  <2>2. SlowerOf(disk.times, times) = {}
        BY <2>1, EmptyIsTable DEF SlowerOf, Both
  <2> QED BY <1>1, <2>1, <2>2 DEF Start, TimedInv, Skipped, Steps
<1>2. CASE Sweep
  <2>1. \A p \in DOMAIN times' : code.cost[p] <= times'[p]
    <3>1. \A p \in DOMAIN times' : times'[p] >= code.cost[p] /\ times'[p] \in Nat /\ p \in Programs
          BY <1>2, SweepFacts, TableFacts DEF Sweep, GateInv, Ranges
    <3>2. \A p \in Programs : code.cost[p] \in Nat
          BY CodeFacts DEF GateInv, Ranges
    <3> QED BY <3>1, <3>2
  <2> QED BY <1>2, <2>1 DEF Sweep, TimedInv
<1>3. CASE Screen
  <2>1. CASE disk.times = Missing \/ disk.times = Malformed
        BY <1>0, <1>3, <2>1 DEF Screen, EndEmission, TimedInv, Table, Files
  <2>2. CASE Table(disk.times) /\ SlowerOf(disk.times, times) = {}
    <3>1. pc' = "compare" /\ UNCHANGED <<disk, times, outs, code, git>>
          BY <1>3, <2>2 DEF Screen, Table, Files
    <3>2. SlowerOf(disk.times, Restrict(code.cost, DOMAIN outs)) = {}
          BY <1>3, <2>2, TrueCost DEF Screen, GateInv, Staged, TimedInv
    <3> QED BY <2>2, <3>1, <3>2 DEF TimedInv, Reported
  <2>3. CASE Table(disk.times) /\ SlowerOf(disk.times, times) # {}
        BY <1>3, <2>3 DEF Screen, Table, Files, TimedInv
  <2> QED BY <2>1, <2>2, <2>3 DEF Table, Files
<1>4. CASE Confirm
  <2>1. \A p \in DOMAIN times' : code.cost[p] <= times'[p]
        BY <1>4, SecondSweepFacts DEF Confirm, SecondSweep, GateInv, Staged, TimedInv
  <2>2. CASE pc' = "pair"
        BY <1>4, <2>1, <2>2 DEF Confirm, TimedInv
  <2>3. CASE EndEmission("fail")
        BY <1>0, <2>3 DEF EndEmission, TimedInv
  <2> QED BY <1>4, <2>2, <2>3 DEF Confirm, SecondSweep
<1>5. CASE Pair
  <2>1. pc' = "compare" /\ UNCHANGED <<disk, outs, code, git>>
        BY <1>5 DEF Pair
  <2> QED BY <1>5, <2>1, PairReports DEF TimedInv, Reported
<1>6. CASE CompareBaseline
  <2>1. pc' = "suites" /\ UNCHANGED <<disk, outs, code, git, times>> /\ pc = "compare"
        BY <1>6 DEF CompareBaseline, EndEmission
  <2>2. found'.slow = found.slow
        BY <1>6 DEF CompareBaseline, GateInv, Ranges
  <2> QED BY <2>1, <2>2 DEF TimedInv, Reported
<1>7. CASE Suites
  <2>1. /\ result'["emission"] = result["emission"] /\ UNCHANGED <<disk, times, found>> /\ pc = "suites"
        /\ pc' = "accept" \/ pc' = "summary"
        BY <1>7 DEF Suites, Steps
  <2> QED BY <2>1 DEF TimedInv
<1>8. CASE AcceptRun
      BY <1>8 DEF AcceptRun, Finish, TimedInv
<1>9. CASE RemoveEmitted \/ CopyEmitted \/ WriteOutcomes
  <2>1. disk'.times = disk.times /\ UNCHANGED <<times, found>> /\ pc \in {"clear", "copy", "outcomes"}
        /\ pc' \in {"copy", "outcomes", "again"}
        BY <1>9 DEF RemoveEmitted, CopyEmitted, WriteOutcomes, GateInv, Ranges, Baseline, run
  <2> QED BY <2>1 DEF TimedInv
<1>10. CASE SweepAgain
  <2>1. CASE Finish("fail")
        BY <2>1 DEF Finish, TimedInv
  <2>2. CASE pc' = "times"
    <3>1. /\ times' \in Tables(Nat) /\ DOMAIN times' = DOMAIN times
          /\ \A p \in DOMAIN times : times'[p] <= times[p]
          BY <1>10, SecondSweepFacts DEF SweepAgain, SecondSweep, GateInv, Staged
    <3>2. Table(disk.times) => SlowerOf(disk.times, times') \subseteq SlowerOf(disk.times, times)
          BY <1>00, <3>1, LowerTimes DEF GateInv, Ranges
    <3> QED BY <1>10, <2>2, <3>2 DEF SweepAgain, TimedInv
  <2> QED BY <1>10, <2>1, <2>2 DEF SweepAgain, SecondSweep
<1>11. CASE WriteTimes \/ AppendLog \/ Exit \/ WriteFails \/ Crash
      BY <1>11 DEF WriteTimes, AppendLog, Exit, WriteFails, Crash, Finish, TimedInv
<1>12. CASE Edit \/ Commit \/ Revert
      BY <1>12 DEF Edit, Commit, Revert, Developer, TimedInv
<1>13. CASE UNCHANGED vars
      BY <1>13 DEF vars, run, TimedInv, Reported
<1> QED BY <1>1, <1>2, <1>3, <1>4, <1>5, <1>6, <1>7, <1>8, <1>9, <1>10, <1>11, <1>12, <1>13 DEF Next

LEMMA TimedInvariant == Spec => []TimedInv
<1>1. Init => TimedInv
      BY TimedInit
<1>2. GateInv /\ TimedInv /\ [Next]_vars => TimedInv'
      BY TimedNext
<1> QED BY <1>1, <1>2, GateInvariant, PTL DEF Spec

\* A compile slower, by the rule, than its baseline time and than the baseline's
\* compiler is reported, whatever the noise of the machine.
THEOREM RegressionReportedHolds == Spec => []RegressionReported
<1>1. TimedInv => RegressionReported
      BY DEF TimedInv, Reported, RegressionReported
<1> QED BY <1>1, TimedInvariant, PTL

LEMMA SilentStep ==
  ASSUME GateInv, TimedInv, [Next]_vars, Accepting, Table(disk.times), Table(disk'.times)
  PROVE  SlowerOf(disk.times, disk'.times) \subseteq found.slow
<1>1. disk.times \in Tables(Nat) /\ times \in Tables(Nat)
      BY DEF GateInv, Ranges, Baseline, Table
<1>2. CASE disk'.times = disk.times
      BY <1>1, <1>2, NothingSlower
<1>3. ASSUME pc = "times", disk'.times \in Tables(Nat), DOMAIN disk'.times \subseteq DOMAIN times,
             \A p \in DOMAIN disk'.times : disk'.times[p] <= times[p]
      PROVE  SlowerOf(disk.times, disk'.times) \subseteq found.slow
  <2>2. SlowerOf(disk.times, disk'.times) \subseteq SlowerOf(disk.times, times)
        BY <1>1, <1>3, LowerTimes
  <2> QED BY <1>3, <2>2 DEF TimedInv
<1>4. CASE WriteTimes
  <2>1. disk'.times = times /\ pc = "times"
        BY <1>4 DEF WriteTimes, GateInv, Ranges, Baseline
  <2>2. \A p \in DOMAIN times : times[p] \in Nat
        BY <1>1, TableFacts
  <2> QED BY <1>1, <1>3, <2>1, <2>2
<1>5. CASE CutShort
  <2>1. CASE UNCHANGED disk
        BY <1>2, <2>1
  <2>2. ASSUME NEW f \in TornOutcomes, disk' = [disk EXCEPT !.outcomes = f]
        PROVE  disk'.times = disk.times
        BY <2>2 DEF GateInv, Ranges, Baseline
  <2>3. ASSUME pc = "times", NEW f \in TornTimes, disk' = [disk EXCEPT !.times = f]
        PROVE  SlowerOf(disk.times, disk'.times) \subseteq found.slow
    <3>1. disk'.times = f /\ f # Malformed
          BY <2>3 DEF GateInv, Ranges, Baseline, Table, Files
    <3>2. Table(f)
          BY <1>3, <3>1
    <3>3. /\ f \in Tables(Nat) /\ DOMAIN f \subseteq DOMAIN times
          /\ \A p \in DOMAIN f : f[p] <= times[p]
          BY <3>2, TornTimesFacts DEF GateInv
    <3> QED BY <1>3, <2>3, <3>1, <3>3
  <2> QED BY <1>2, <1>5, <2>1, <2>2, <2>3 DEF CutShort
<1>6. CASE RemoveEmitted \/ CopyEmitted \/ WriteOutcomes \/ SweepAgain \/ AppendLog
  <2>1. disk'.times = disk.times
        BY <1>6 DEF RemoveEmitted, CopyEmitted, WriteOutcomes, SweepAgain, AppendLog, GateInv, Ranges, Baseline
  <2> QED BY <1>2, <2>1
<1>7. CASE Start \/ Sweep \/ Screen \/ Confirm \/ Pair \/ CompareBaseline \/ Suites \/ AcceptRun \/ Exit
           \/ Edit \/ Commit \/ Revert
      BY <1>7 DEF Start, Sweep, Screen, Confirm, Pair, CompareBaseline, Suites, AcceptRun, Exit,
         Edit, Commit, Revert, Developer, Accepting
<1>8. CASE UNCHANGED vars
      BY <1>2, <1>8 DEF vars
<1> QED BY <1>4, <1>5, <1>6, <1>7, <1>8 DEF Next, WriteFails, Crash

\* An accept raises no baseline time by the rule's amount unless the run reported
\* that compile as slower.
THEOREM NoSilentSlowdownHolds == Spec => NoSilentSlowdown
<1>1. GateInv /\ TimedInv /\ [Next]_vars =>
        [(Accepting /\ Table(disk.times) /\ Table(disk'.times)) =>
            SlowerOf(disk.times, disk'.times) \subseteq found.slow]_vars
      BY SilentStep
<1> QED BY <1>1, GateInvariant, TimedInvariant, PTL DEF Spec, NoSilentSlowdown

-----------------------------------------------------------------------------
(* The sweep.                                                              *)

SweepTypeOK ==
  /\ nworkers \in Int
  /\ next \in Nat
  /\ feeder \in {"sending", "waiting", "returned"}
  /\ worker \in [Workers -> Int]
  /\ swept \in [1 .. NJobs -> Int]

\* Every job sent is with a worker or its outcome is in its place; a worker is
\* only ever given jobs that there are.
JobsAccounted ==
  /\ \A j \in 1 .. NJobs : j < next => swept[j] = j \/ \E w \in Workers : worker[w] = j
  /\ \A w \in Workers : worker[w] <= NJobs
  /\ feeder # "sending" => next > NJobs
  /\ feeder = "returned" => \A w \in Workers : worker[w] = -1

SweepInv == SweepTypeOK /\ JobsAccounted

LEMMA SweepInvInit == SweepInit => SweepInv
BY SweepAssumption DEF SweepInit, SweepInv, SweepTypeOK, JobsAccounted, Workers, Started

LEMMA SweepInvNext == SweepInv /\ [SweepNext]_sweepVars => SweepInv'
<1> SUFFICES ASSUME SweepInv, [SweepNext]_sweepVars PROVE SweepInv'
    OBVIOUS
<1> USE SweepAssumption DEF SweepInv, SweepTypeOK, JobsAccounted, Workers
<1>1. CASE Close
      BY <1>1 DEF Close
<1>2. CASE Return
      BY <1>2 DEF Return
<1>3. ASSUME NEW w \in Workers, SendJob(w) PROVE SweepInv'
  <2>1. SweepTypeOK'
        BY <1>3 DEF SendJob
  <2>2. ASSUME NEW j \in 1 .. NJobs, j < next'
        PROVE  swept'[j] = j \/ \E v \in Workers' : worker'[v] = j
    <3>1. CASE j = next
          BY <1>3, <3>1 DEF SendJob
    <3>2. CASE j # next
      <4>1. j < next
            BY <1>3, <2>2, <3>2 DEF SendJob
      <4>2. CASE swept[j] = j
            BY <1>3, <4>2 DEF SendJob
      <4>3. ASSUME NEW v \in Workers, worker[v] = j PROVE \E u \in Workers' : worker'[u] = j
            BY <1>3, <4>3 DEF SendJob
      <4> QED BY <4>1, <4>2, <4>3
    <3> QED BY <3>1, <3>2
  <2>3. JobsAccounted'
        BY <1>3, <2>2 DEF SendJob
  <2> QED BY <2>1, <2>3
<1>4. ASSUME NEW w \in Workers, CompileJob(w) PROVE SweepInv'
  <2> USE DEF PlaceOf
  <2>1. worker[w] \in 1 .. NJobs
        BY <1>4 DEF CompileJob
  <2>2. SweepTypeOK'
        BY <1>4, <2>1 DEF CompileJob
  <2>3. ASSUME NEW j \in 1 .. NJobs, j < next'
        PROVE  swept'[j] = j \/ \E v \in Workers' : worker'[v] = j
    <3>1. CASE swept[j] = j
          BY <1>4, <2>1, <3>1 DEF CompileJob
    <3>2. ASSUME NEW v \in Workers, worker[v] = j
          PROVE  swept'[j] = j \/ \E u \in Workers' : worker'[u] = j
      <4>1. CASE v = w
            BY <1>4, <2>1, <3>2, <4>1 DEF CompileJob
      <4>2. CASE v # w
            BY <1>4, <3>2, <4>2 DEF CompileJob
      <4> QED BY <4>1, <4>2
    <3> QED BY <1>4, <2>3, <3>1, <3>2 DEF CompileJob
  <2>4. JobsAccounted'
        BY <1>4, <2>3 DEF CompileJob
  <2> QED BY <2>2, <2>4
<1>5. ASSUME NEW w \in Workers, Done(w) PROVE SweepInv'
  <2>1. SweepTypeOK'
        BY <1>5 DEF Done
  <2>2. ASSUME NEW j \in 1 .. NJobs, NEW v \in Workers, worker[v] = j PROVE worker'[v] = j
        BY <1>5, <2>2 DEF Done
  <2>3. JobsAccounted'
        BY <1>5, <2>2 DEF Done
  <2> QED BY <2>1, <2>3
<1>6. CASE UNCHANGED sweepVars
      BY <1>6 DEF sweepVars
<1> QED BY <1>1, <1>2, <1>3, <1>4, <1>5, <1>6 DEF SweepNext

LEMMA SweepInvComplete == SweepInv => SweepComplete
<1> SUFFICES ASSUME SweepInv, feeder = "returned", NEW j \in DOMAIN swept PROVE swept[j] = j
    BY DEF SweepComplete
<1>1. j \in 1 .. NJobs /\ j < next
      BY SweepAssumption DEF SweepInv, SweepTypeOK, JobsAccounted
<1>2. \A w \in Workers : worker[w] # j
      BY <1>1 DEF SweepInv, JobsAccounted
<1> QED BY <1>1, <1>2 DEF SweepInv, JobsAccounted

\* When the sweep of cmd/check returns, the outcome of every compilation is in
\* its own place, for any number of jobs and workers.
THEOREM SweepCompleteHolds == SweepSpec => []SweepComplete
<1>1. SweepInit => SweepInv
      BY SweepInvInit
<1>2. SweepInv /\ [SweepNext]_sweepVars => SweepInv'
      BY SweepInvNext
<1>3. SweepInv => SweepComplete
      BY SweepInvComplete
<1> QED BY <1>1, <1>2, <1>3, PTL DEF SweepSpec

-----------------------------------------------------------------------------
(* The regeneration of regen.txt's entries.                                *)

RegenTypeOK ==
  /\ goroutine \in [Entries -> {"start", "truncate", "write", "compile", "done"}]
  /\ scratch \in [ScratchFiles -> Entries \cup {Empty}]
  /\ dst \in [Entries -> Entries \cup {Empty}]
  /\ failed \subseteq Entries
  /\ stale \subseteq Entries

\* A scratch file belongs to one entry, holds its source from the moment it is
\* written, and what was compiled from it is the entry's own.
OwnSource ==
  /\ \A e \in Entries : goroutine[e] \in {"truncate", "write"} => Host[e] # Plain
  /\ \A e \in Entries : (goroutine[e] = "compile" /\ Host[e] # Plain) => scratch[Scratch(e)] = e
  /\ \A e \in Entries : goroutine[e] = "done" => dst[e] = e
  /\ failed = {}

RegenInv == RegenTypeOK /\ OwnSource /\ VerdictExact

LEMMA OneScratch ==
  ASSUME NEW e \in Entries, NEW f \in Entries, Host[e] # Plain, Scratch(e) = Scratch(f)
  PROVE  e = f
BY RegenerateAssumption DEF Scratch

LEMMA RegenInvInit == RegenInit => RegenInv
BY RegenerateAssumption DEF RegenInit, RegenInv, RegenTypeOK, OwnSource, VerdictExact

LEMMA RegenInvNext == RegenInv /\ [RegenNext]_regenVars => RegenInv'
<1> SUFFICES ASSUME RegenInv, [RegenNext]_regenVars PROVE RegenInv'
    OBVIOUS
<1> USE RegenerateAssumption DEF RegenInv, RegenTypeOK, OwnSource, VerdictExact
<1>0. \A e \in Entries : Scratch(e) \in ScratchFiles
      BY DEF ScratchFiles
<1>1. CASE Judge
  <2>1. \A e \in Entries : dst[e] = e
        BY <1>1 DEF Judge
  <2>2. verdict' = "pass" <=> stale' = {}
        BY <1>1, <2>1 DEF Judge
  <2> QED BY <1>1, <2>2 DEF Judge
<1>2. ASSUME NEW e \in Entries, Acquire(e) PROVE RegenInv'
      BY <1>2 DEF Acquire
<1>3. ASSUME NEW e \in Entries, Truncate(e) PROVE RegenInv'
  <2>1. Host[e] # Plain
        BY <1>3 DEF Truncate
  <2>2. RegenTypeOK'
        BY <1>0, <1>3 DEF Truncate
  <2>3. ASSUME NEW f \in Entries, goroutine'[f] = "compile", Host[f] # Plain
        PROVE  scratch'[Scratch(f)] = f
    <3>1. f # e /\ goroutine[f] = "compile"
          BY <1>3, <2>3 DEF Truncate
    <3>2. Scratch(f) # Scratch(e)
          BY <2>1, <3>1, OneScratch
    <3> QED BY <1>0, <1>3, <2>3, <3>1, <3>2 DEF Truncate
  <2> QED BY <1>3, <2>1, <2>2, <2>3 DEF Truncate
<1>4. ASSUME NEW e \in Entries, Write(e) PROVE RegenInv'
  <2>1. Host[e] # Plain
        BY <1>4 DEF Write
  <2>2. RegenTypeOK'
        BY <1>0, <1>4 DEF Write
  <2>3. ASSUME NEW f \in Entries, goroutine'[f] = "compile", Host[f] # Plain
        PROVE  scratch'[Scratch(f)] = f
    <3>1. CASE f = e
          BY <1>0, <1>4, <3>1 DEF Write
    <3>2. CASE f # e
      <4>1. Scratch(f) # Scratch(e)
            BY <2>1, <3>2, OneScratch
      <4> QED BY <1>0, <1>4, <2>3, <3>2, <4>1 DEF Write
    <3> QED BY <3>1, <3>2
  <2> QED BY <1>4, <2>1, <2>2, <2>3 DEF Write
<1>5. ASSUME NEW e \in Entries, Compile(e) PROVE RegenInv'
  <2> DEFINE read == IF Host[e] = Plain THEN e ELSE scratch[Scratch(e)]
  <2>1. read = e
        BY <1>5 DEF Compile
  <2>2. dst' = [dst EXCEPT ![e] = e] /\ UNCHANGED failed
        BY <1>5, <2>1 DEF Compile
  <2> QED BY <1>5, <2>2 DEF Compile
<1>6. CASE UNCHANGED regenVars
      BY <1>6 DEF regenVars, Scratch
<1> QED BY <1>1, <1>2, <1>3, <1>4, <1>5, <1>6 DEF RegenNext

\* The gauntlet step passes exactly when every committed copy is what its source
\* compiles to, for any list of entries that ports no two sources of one base
\* name to one host, and any -jobs.
THEOREM VerdictExactHolds == RegenSpec => []VerdictExact
<1>1. RegenInit => RegenInv
      BY RegenInvInit
<1>2. RegenInv /\ [RegenNext]_regenVars => RegenInv'
      BY RegenInvNext
<1>3. RegenInv => VerdictExact
      BY DEF RegenInv
<1> QED BY <1>1, <1>2, <1>3, PTL DEF RegenSpec
=============================================================================
