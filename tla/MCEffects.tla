------------------------------ MODULE MCEffects -------------------------------
(* The parts through which a drive reaches the outside, one instance each: the *)
(* race every await is run in, the client's event stream, the approvals, and   *)
(* the file, shell and command tools.  They share no state here, so a          *)
(* behaviour moves one of them and the others rest.                            *)
EXTENDS Files, Processes, Race, Approvals, Streamer, TLC

\* Files: two conversations, one call each.
CONSTANTS c1, c2, p1, p2

MCConv == c1 :> "x" @@ c2 :> "y"
One(t, p, to) == [tool |-> t, path |-> p, to |-> to, ops |-> <<>>]
Op(kind, p, to) == [kind |-> kind, path |-> p, to |-> to]
Patched(ops) == [tool |-> "apply_patch", path |-> None, to |-> None, ops |-> ops]
MCInitialReads == {{}, {p1}}
MCRequests ==
  {One("read", p1, None), One("edit", p1, None), One("update_file", p1, p2),
   Patched(<<Op("update", p1, None), Op("delete", p2, None)>>)}

\* Approvals: an edit that needs two pairs and one that lists no resource, and a view.
CONSTANTS a1, a2, edit, view, xfile, any

Pair(perm, res) == [perm |-> perm, res |-> res]
MCAskOf ==
  (a1 :> [name |-> edit, kind |-> "write", requests |-> <<{Pair(view, xfile), Pair(edit, xfile)}, {}>>]) @@
  (a2 :> [name |-> view, kind |-> "read", requests |-> <<{Pair(view, xfile)}>>])
MCPairs == {Pair(view, any)}
MCGlobs == {<<any, xfile>>, <<any, any>>}
MCRulebooks == {<<>>, <<[of |-> "kind", kind |-> "write", decision |-> "PENDING"],
                        [of |-> "tool", name |-> view, pair |-> Pair(view, any), decision |-> "ALLOW"]>>}

CONSTANT Parts  \* those that move
VARIABLE part

\* At rest, a part has not begun or is over: it has no step that must be taken.
FilesRest ==
  /\ files = [p \in Paths |-> None] /\ read = [c \in Convs |-> {}]
  /\ FilesInit
CommandsRest ==
  /\ tool = "bash" /\ left = 0 /\ cmd = "over" /\ group = NoGroup
  /\ token = FALSE /\ results = <<[how |-> "completed", code |-> 0, shot |-> FALSE]>>
RaceRests ==
  /\ use = CHOOSE u \in Uses : u.kind = "hook"
  /\ tripped = FALSE /\ grace = Unset /\ signalled = FALSE
  /\ inner = [state |-> "value", told |-> FALSE, held |-> 0]
  /\ racer = [at |-> "over", thrown |-> "none", ticks |-> 0, outcome |-> "COMPLETED"]
ApprovalsRest ==
  /\ mode = "ASK" /\ strict = FALSE /\ rules = <<>>
  /\ verdicts = [k \in Asks |-> {}] /\ gate = [k \in Asks |-> "REJECTED"] /\ free = 0
StreamerRests == wire = "chat" /\ caller = "async" /\ StreamerInit

EffectsInit ==
  /\ part \in Parts
  /\ IF part = "files" THEN FilesInit ELSE FilesRest
  /\ ShellsInit
  /\ IF part = "commands" THEN CommandsInit ELSE CommandsRest
  /\ IF part = "race" THEN RaceInit ELSE RaceRests
  /\ IF part = "approvals" THEN ApprovalInit ELSE ApprovalsRest
  /\ IF part = "streamer" THEN StreamerInit ELSE StreamerRests

EffectsNext ==
  \/ /\ part = "files" /\ FilesNext
     /\ UNCHANGED <<part, shellVars, commandVars, raceVars, approvalVars, streamerVars>>
  \/ /\ part = "shells" /\ ShellsNext
     /\ UNCHANGED <<part, fileVars, commandVars, raceVars, approvalVars, streamerVars>>
  \/ /\ part = "commands" /\ CommandsNext
     /\ UNCHANGED <<part, fileVars, shellVars, raceVars, approvalVars, streamerVars>>
  \/ /\ part = "race" /\ RaceNext
     /\ UNCHANGED <<part, fileVars, shellVars, commandVars, approvalVars, streamerVars>>
  \/ /\ part = "approvals" /\ ApprovalNext
     /\ UNCHANGED <<part, fileVars, shellVars, commandVars, raceVars, streamerVars>>
  \/ /\ part = "streamer" /\ StreamerNext
     /\ UNCHANGED <<part, fileVars, shellVars, commandVars, raceVars, approvalVars>>

effectsVars == <<part, fileVars, shellVars, commandVars, raceVars, approvalVars, streamerVars>>

EffectsSpec ==
  /\ EffectsInit /\ [][EffectsNext]_effectsVars
  /\ FilesFairness /\ ShellsFairness
  /\ CommandsFairness /\ RaceFairness
  /\ ApprovalFairness /\ StreamerFairness

\* Whatever a drive waits for comes to an end: a call of a file tool, a command
\* in a shell or in a process of its own, a cancelled race, a prompt that is
\* answered, a pull of the event stream.
EffectsEnd ==
  /\ CallsEnd /\ ShellCallsReturn /\ CommandsEnd
  /\ CancelledRaceEnds /\ PromptsConverge /\ PullAnswered

=============================================================================
