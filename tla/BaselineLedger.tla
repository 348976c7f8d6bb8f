--------------------------- MODULE BaselineLedger ---------------------------
(***************************************************************************)
(* What cmd/check -accept promises of the committed baseline, without its  *)
(* steps: the files change together with an entry of the log that names    *)
(* their outcomes, or the run does not report success.                     *)
(***************************************************************************)
EXTENDS Naturals, Sequences

VARIABLES
  files,   \* the emitted code, outcomes and times
  log,     \* the accepted changes
  kept,    \* files and log as last committed
  reply    \* what the run says of the emission step; "none" while it runs

ledgerVars == <<files, log, kept, reply>>

Init == log = kept.log /\ files = [kept EXCEPT !.log = << >>] /\ reply = "none"

\* A run answers without touching the baseline.
Answer == UNCHANGED <<files, log, kept>>

Accept ==
  /\ Len(log') = Len(log) + 1
  /\ \E slow \in SUBSET DOMAIN files'.times :
       log' = Append(log, [outs |-> files'.outcomes, slow |-> slow])
  /\ DOMAIN files'.outcomes = DOMAIN files'.times
  /\ DOMAIN files'.emitted \subseteq DOMAIN files'.outcomes
  /\ \A p \in DOMAIN files'.emitted : files'.emitted[p] = files'.outcomes[p]
  /\ reply' = "pass" /\ UNCHANGED kept

\* An accept that did not get to its end: any files, no entry, no success.
Interrupted == reply' # "pass" /\ UNCHANGED <<log, kept>>

Keep == kept' = [files EXCEPT !.log = log] /\ UNCHANGED <<files, log, reply>>
Restore == files' = [kept EXCEPT !.log = << >>] /\ log' = kept.log /\ UNCHANGED <<kept, reply>>

Next == Answer \/ Accept \/ Interrupted \/ Keep \/ Restore
Spec == Init /\ [][Next]_ledgerVars
=============================================================================
