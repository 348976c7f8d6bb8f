---------------------------- MODULE MCCheckPools ----------------------------
(* The two pools of one cmd/check, one after the other as its steps are: a *)
(* sweep of five compilations, then five of regen.txt's entries, two of    *)
(* them one source ported to two hosts.                                    *)
EXTENDS Regenerate, SweepPool

SomeEntries == {"go-tokenize", "js-tokenize", "java-tokenize", "java-tree", "js-dot"}
BaseOf == [e \in SomeEntries |-> CASE e = "java-tree" -> "tree" [] e = "js-dot" -> "dot"
                                   [] OTHER -> "tokenize"]
HostOf == [e \in SomeEntries |-> CASE e \in {"js-tokenize"} -> "js"
                                   [] e \in {"java-tokenize", "java-tree"} -> "java" [] OTHER -> ""]
Copies == {{}, {"java-tree"}}
Flags == {-1, 0, 1, 2, 3}

PoolsInit == RegenInit /\ SweepInit
PoolsNext ==
  \/ SweepNext /\ UNCHANGED regenVars
  \/ feeder = "returned" /\ RegenNext /\ UNCHANGED sweepVars
=============================================================================
