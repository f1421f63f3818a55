---------------------------- MODULE MCSubagents ----------------------------
(* Instances of Subagents for TLC: the trees the runs give to Parent.      *)
EXTENDS Subagents

\* A subagent that may spawn one of its own.
Chain == <<0, 1>>

\* Two siblings.
Siblings == <<0, 0>>
=============================================================================
