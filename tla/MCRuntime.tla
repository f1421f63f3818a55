------------------------------ MODULE MCRuntime ------------------------------
(* Two parts of the runner on one instance each: Compaction, and RunHandle   *)
(* with a root, its subagent and a subagent of that one.  They share no      *)
(* state, so a behaviour moves one of them and the other rests.              *)
EXTENDS Compaction, RunHandle

CONSTANTS r1, main0, sub1, sub2

Chain == [c \in {sub1, sub2} |-> IF c = sub1 THEN main0 ELSE sub1]
NoEvents == [h \in {main0, sub1, sub2} |-> 0]

VARIABLE part

CompactionRests == CompactionInit
HandleRests == mode = "lazy" /\ HandleInit

RuntimeInit ==
    \/ part = "compaction" /\ CompactionInit /\ HandleRests
    \/ part = "handle" /\ HandleInit /\ CompactionRests

RuntimeNext ==
    \/ part = "compaction" /\ CompactionNext /\ UNCHANGED <<handleVars, part>>
    \/ part = "handle" /\ HandleNext /\ UNCHANGED <<compactionVars, part>>

RuntimeSpec ==
    /\ RuntimeInit /\ [][RuntimeNext]_<<compactionVars, handleVars, part>>
    /\ CompactionFairness /\ HandleFairness

=============================================================================
