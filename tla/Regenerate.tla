----------------------------- MODULE Regenerate ------------------------------
(***************************************************************************)
(* The gauntlet step of cmd/check (gauntlet.go): the entries of            *)
(* gauntlet/regen.txt are regenerated in parallel, a semaphore's width at  *)
(* a time.  A source ported to another host is first written to a scratch  *)
(* file named by the source's base name and the host, which the compiler   *)
(* then reads; the results are compared with the committed copies.         *)
(***************************************************************************)
EXTENDS Integers, FiniteSets

CONSTANTS
  Entries,     \* the lines of regen.txt
  Base, Host,  \* an entry's base name, and the host its source is ported to
  Plain,       \* the host of a source that is not ported
  Widths,      \* the values of -jobs
  Stale        \* sets of entries whose committed copy may be out of date

Empty == "empty"

ASSUME RegenerateAssumption ==
  /\ Empty \notin Entries
  /\ Base \in [Entries -> STRING] /\ Host \in [Entries -> STRING]
  /\ Widths \subseteq Int /\ Stale \subseteq SUBSET Entries
  \* regen.txt ports no two sources of one base name to one host.
  /\ \A e, f \in Entries : (Host[e] = Host[f] /\ Base[e] = Base[f] /\ Host[e] # Plain) => e = f

VARIABLES
  seats,       \* how many entries may be regenerated at once
  goroutine,   \* where each entry's goroutine is
  scratch,     \* scratch file -> the entry whose text is in it; Empty when truncated
  dst,         \* regenerated file of an entry -> the entry whose source it was compiled from
  failed,      \* entries whose compile failed
  stale,       \* entries whose committed copy is out of date
  verdict      \* "running", "pass" or "fail"

regenVars == <<seats, goroutine, scratch, dst, failed, stale, verdict>>

\* Mutant: the file is named by the base name alone.
Scratch_Base(e) == <<Base[e]>>

\* The file a ported source is written to.
Scratch(e) == <<Base[e], Host[e]>>

\* Mutant: as many places as the flag says.
Seats_AsAsked(jobs) == IF jobs < 0 THEN 0 ELSE jobs

\* The semaphore has a place whatever -jobs is.
Seats(jobs) == IF jobs < 1 THEN 1 ELSE jobs

ScratchFiles == {Scratch(e) : e \in Entries}

RegenInit ==
  /\ \E jobs \in Widths : seats = Seats(jobs)
  /\ goroutine = [e \in Entries |-> "start"]
  /\ scratch = [f \in ScratchFiles |-> Empty]
  /\ dst = [e \in Entries |-> Empty]
  /\ failed = {} /\ verdict = "running"
  /\ stale \in Stale

Holding == {e \in Entries : goroutine[e] \notin {"start", "done"}}

\* sem <- struct{}{}, then the source is read.
Acquire(e) ==
  /\ goroutine[e] = "start" /\ Cardinality(Holding) < seats
  /\ goroutine' = [goroutine EXCEPT ![e] = IF Host[e] = Plain THEN "compile" ELSE "truncate"]
  /\ UNCHANGED <<seats, scratch, dst, failed, stale, verdict>>

\* os.WriteFile: open with O_TRUNC, then write.
Truncate(e) ==
  /\ goroutine[e] = "truncate"
  /\ scratch' = [scratch EXCEPT ![Scratch(e)] = Empty]
  /\ goroutine' = [goroutine EXCEPT ![e] = "write"]
  /\ UNCHANGED <<seats, dst, failed, stale, verdict>>

Write(e) ==
  /\ goroutine[e] = "write"
  /\ scratch' = [scratch EXCEPT ![Scratch(e)] = e]
  /\ goroutine' = [goroutine EXCEPT ![e] = "compile"]
  /\ UNCHANGED <<seats, dst, failed, stale, verdict>>

\* gen reads its source, writes its output or fails; the semaphore is released.
Compile(e) ==
  /\ goroutine[e] = "compile"
  /\ LET read == IF Host[e] = Plain THEN e ELSE scratch[Scratch(e)] IN
       IF read = Empty THEN failed' = failed \cup {e} /\ UNCHANGED dst
       ELSE dst' = [dst EXCEPT ![e] = read] /\ UNCHANGED failed
  /\ goroutine' = [goroutine EXCEPT ![e] = "done"]
  /\ UNCHANGED <<seats, scratch, stale, verdict>>

\* wg.Wait, then staleFiles.
Judge ==
  /\ verdict = "running" /\ \A e \in Entries : goroutine[e] = "done"
  /\ verdict' = IF failed # {} \/ \E e \in Entries : dst[e] # e \/ e \in stale
                THEN "fail" ELSE "pass"
  /\ UNCHANGED <<seats, goroutine, scratch, dst, failed, stale>>

RegenNext == Judge \/ \E e \in Entries : Acquire(e) \/ Truncate(e) \/ Write(e) \/ Compile(e)
RegenFairness == WF_regenVars(RegenNext)
RegenSpec == RegenInit /\ [][RegenNext]_regenVars /\ RegenFairness

\* The step passes exactly when every committed copy is what its source compiles
\* to, in every order of the goroutines.
VerdictExact == verdict # "running" => (verdict = "pass" <=> stale = {})

\* The step ends whatever -jobs is.
Regenerated == <>(verdict # "running")
=============================================================================
