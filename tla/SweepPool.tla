------------------------------ MODULE SweepPool ------------------------------
(***************************************************************************)
(* The worker pool of the emission sweep (sweep in cmd/check/emission.go): *)
(* the main goroutine sends every job on an unbuffered channel, closes it  *)
(* and waits for the workers; worker w stores the outcome of the job it    *)
(* received in the job's own place (outs in the code).                     *)
(***************************************************************************)
EXTENDS Integers

CONSTANTS
  NJobs,       \* compilations in the sweep
  JobsFlag     \* the values of -jobs

ASSUME SweepAssumption == NJobs \in Nat /\ JobsFlag \subseteq Int

VARIABLES
  nworkers,    \* how many workers were started
  next,        \* the job the main goroutine sends next
  feeder,      \* "sending", "waiting" or "returned"
  worker,      \* per worker: 0 when it is receiving, the job it compiles, -1 when it ended
  swept        \* job -> whose outcome is stored in its place; 0 when none is

sweepVars == <<nworkers, next, feeder, worker, swept>>
Workers == 1 .. nworkers

\* Mutant: as many workers as the flag says.
Started_AsAsked(jobs) == IF jobs < 0 THEN 0 ELSE jobs

\* -jobs below one starts one worker all the same.
Started(jobs) == IF jobs < 1 THEN 1 ELSE jobs

SweepInit ==
  /\ \E jobs \in JobsFlag : nworkers = Started(jobs)
  /\ next = 1 /\ feeder = "sending"
  /\ worker = [w \in Workers |-> 0]
  /\ swept = [j \in 1 .. NJobs |-> 0]

\* The send and the receive are one step of both.
SendJob(w) ==
  /\ feeder = "sending" /\ next <= NJobs /\ worker[w] = 0
  /\ worker' = [worker EXCEPT ![w] = next]
  /\ next' = next + 1
  /\ UNCHANGED <<nworkers, feeder, swept>>

\* Mutant: the outcome goes to the place of the job sent last.
PlaceOf_Latest(j) == next - 1

PlaceOf(j) == j

CompileJob(w) ==
  /\ worker[w] > 0
  /\ swept' = [swept EXCEPT ![PlaceOf(worker[w])] = worker[w]]
  /\ worker' = [worker EXCEPT ![w] = 0]
  /\ UNCHANGED <<nworkers, next, feeder>>

Close ==
  /\ feeder = "sending" /\ next > NJobs
  /\ feeder' = "waiting"
  /\ UNCHANGED <<nworkers, next, worker, swept>>

\* A worker leaves its range loop when the channel is closed.
Done(w) ==
  /\ feeder = "waiting" /\ worker[w] = 0
  /\ worker' = [worker EXCEPT ![w] = -1]
  /\ UNCHANGED <<nworkers, next, feeder, swept>>

Return ==
  /\ feeder = "waiting" /\ \A w \in Workers : worker[w] = -1
  /\ feeder' = "returned"
  /\ UNCHANGED <<nworkers, next, worker, swept>>

SweepNext == Close \/ Return \/ \E w \in Workers : SendJob(w) \/ CompileJob(w) \/ Done(w)

\* The Go scheduler runs every goroutine that can run; gen itself ends.
SweepFairness == WF_sweepVars(SweepNext)

SweepSpec == SweepInit /\ [][SweepNext]_sweepVars /\ SweepFairness

\* When the sweep returns, every compilation has run once and its outcome is in
\* its own place, whatever order the workers finished in.
SweepComplete == feeder = "returned" => \A j \in DOMAIN swept : swept[j] = j

\* The sweep returns for every value of -jobs.
SweepReturns == <>(feeder = "returned")
=============================================================================
