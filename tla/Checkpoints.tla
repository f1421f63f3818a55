------------------------------ MODULE Checkpoints ------------------------------
(* Checkpoints of a workspace (contrib/checkpoints): ShadowGitStore keeps      *)
(* snapshots in a private git repository, the index in the session's extras    *)
(* binds each to a position of the main conversation, and CheckpointService    *)
(* takes one before a message is posted and restores one on request.           *)
(*                                                                             *)
(* Every git command is one step and may fail (a non-zero exit) or die (no     *)
(* binary, a timeout), which switches the store off for good.  The operations  *)
(* run on threads: what they interleave with is each other, the turn and the   *)
(* people and tools that write files.                                          *)
EXTENDS Integers, Sequences

CONSTANTS
  Ops,         \* calls of take and restore
  Tracked,       \* paths of the workspace that git does not ignore
  MaxTurns,    \* bound: turns of the conversation
  MaxWrites,   \* bound: writes to the workspace
  MaxFaults,   \* bound: git commands that do not succeed
  Nobody, Absent

ASSUME CheckpointsAssumption == Nobody \notin Ops /\ MaxTurns \in Nat /\ MaxWrites \in Nat /\ MaxFaults \in Nat

VARIABLES
  tree,      \* the workspace: the version of each file, or Absent
  staged,    \* the index of the shadow repository
  commits,   \* the commits of the shadow repository
  rows,      \* the session's checkpoint index: a commit and its anchor
  nodes,     \* the main conversation: 2k-1 opens turn k, 2k closes it
  store,     \* [ready, disabled, lock] of the ShadowGitStore
  op,        \* the state of each call
  bounds     \* what the bounds count, and the last turn

checkpointVars == <<tree, staged, commits, rows, nodes, store, op, bounds>>

\* A turn is open when the last node of the path opens one.
TurnIsOpen(path) == path # <<>> /\ path[Len(path)] % 2 = 1

\* The anchor of an empty conversation is 0.
LeafOf(path) == IF path = <<>> THEN 0 ELSE path[Len(path)]

OnPath(anchor) == anchor = 0 \/ \E i \in 1..Len(nodes) : nodes[i] = anchor

\* The checkpoints a session offers.
Offered == {i \in 1..Len(rows) : OnPath(rows[i].anchor)}

Available == ~store.disabled

FreshOp == [at |-> "idle", phase |-> "none", anchor |-> 0, target |-> 0, safety |-> 0,
            made |-> 0, before |-> [f \in Tracked |-> Absent], quiet |-> TRUE]

CheckpointInit ==
  /\ tree = [f \in Tracked |-> Absent] /\ staged = [f \in Tracked |-> Absent]
  /\ commits = <<>> /\ rows = <<>> /\ nodes = <<>>
  /\ store = [ready |-> FALSE, disabled |-> FALSE, lock |-> Nobody]
  /\ op = [o \in Ops |-> FreshOp]
  /\ bounds = [turn |-> 0, writes |-> 0, faults |-> 0]

(* ---------------------------- git, one at a time --------------------------- *)

\* Mutant: a git command does not wait for another's lock.
BargeIn(o) == TRUE

MayLock(o) == store.lock = Nobody

\* An outcome of a git command; the store is disabled when it died.
Outcomes == {"ok", "fails", "dies"}

Git(outcome) ==
  /\ outcome # "ok" => bounds.faults < MaxFaults
  /\ bounds' = [bounds EXCEPT !.faults = @ + IF outcome = "ok" THEN 0 ELSE 1]

StoreAfter(outcome, held) ==
  [store EXCEPT !.disabled = @ \/ outcome = "dies", !.lock = held]

\* The store's operation of o is over; made is its commit, 0 when there is none.
Over(o, made) ==
  [op EXCEPT ![o].at = CASE op[o].phase = "take"   -> IF made = 0 THEN "none" ELSE "record"
                         [] op[o].phase = "safety" -> "lock"
                         [] op[o].phase = "apply"  -> IF made = 0 THEN "false" ELSE "rewind"
                         [] op[o].phase = "undo"   -> "raised",
             ![o].phase = IF @ = "safety" THEN "apply" ELSE @,
             ![o].made = made,
             ![o].safety = IF op[o].phase = "safety" THEN made ELSE @]

\* A git failure disturbs every restore that is under way, and so does a change
\* of the workspace that another made.
Unquiet(ops, outcome) ==
  IF outcome = "ok" THEN ops ELSE [o \in Ops |-> [ops[o] EXCEPT !.quiet = FALSE]]

\* The store's lock, then its repository: created once, by whoever comes first.
\* A config command that fails does not stop it, whatever it does to the store.
Lock(o) == \E outcome \in Outcomes, isSet \in BOOLEAN :
  /\ op[o].at = "lock" /\ MayLock(o)
  /\ IF store.ready
     THEN outcome = "ok" /\ UNCHANGED bounds
     ELSE Available /\ Git(outcome)
  /\ outcome = "ok" => isSet
  /\ IF isSet
     THEN /\ store' = [StoreAfter(outcome, o) EXCEPT !.ready = TRUE]
          /\ op' = Unquiet([op EXCEPT ![o].at = IF op[o].phase \in {"take", "safety"}
                                               THEN "add" ELSE "read-tree"], outcome)
     ELSE store' = StoreAfter("dies", Nobody) /\ op' = Unquiet(Over(o, 0), outcome)
  /\ UNCHANGED <<tree, staged, commits, rows, nodes>>

\* A store that another call has disabled before it was ever ready.
LockIsUseless(o) ==
  /\ op[o].at = "lock" /\ ~store.ready /\ ~Available
  /\ op' = Over(o, 0)
  /\ UNCHANGED <<tree, staged, commits, rows, nodes, store, bounds>>

Add(o) == \E outcome \in Outcomes :
  /\ op[o].at = "add" /\ Git(outcome)
  /\ store' = StoreAfter(outcome, IF outcome = "ok" THEN o ELSE Nobody)
  /\ staged' = IF outcome = "ok" THEN tree ELSE staged
  /\ op' = IF outcome = "ok"
           THEN [op EXCEPT ![o].at = "commit", ![o].before = tree]
           ELSE Unquiet(Over(o, 0), outcome)
  /\ UNCHANGED <<tree, commits, rows, nodes>>

CommitTree(o) == \E outcome \in Outcomes :
  /\ op[o].at = "commit" /\ Git(outcome)
  /\ store' = StoreAfter(outcome, IF outcome = "ok" THEN o ELSE Nobody)
  /\ commits' = IF outcome = "ok" THEN Append(commits, staged) ELSE commits
  /\ op' = IF outcome = "ok" THEN [op EXCEPT ![o].at = "head"] ELSE Unquiet(Over(o, 0), outcome)
  /\ UNCHANGED <<tree, staged, rows, nodes>>

RevParse(o) == \E outcome \in Outcomes :
  /\ op[o].at = "head" /\ Git(outcome)
  /\ store' = StoreAfter(outcome, Nobody)
  /\ op' = Unquiet(Over(o, IF outcome = "ok" THEN Len(commits) ELSE 0), outcome)
  /\ UNCHANGED <<tree, staged, commits, rows, nodes>>

\* The commit being put back: the checkpoint's, or the safety snapshot's.
Wanted(o) == IF op[o].phase = "undo" THEN op[o].safety ELSE op[o].target

Disturbed(ops, o) == [p \in Ops |-> [ops[p] EXCEPT !.quiet = @ /\ p = o]]

\* read-tree -u --reset, after has(commit): every path of the index becomes as the
\* commit has it.
ReadTree(o) == \E outcome \in Outcomes :
  /\ op[o].at = "read-tree" /\ Git(outcome)
  /\ store' = StoreAfter(outcome, IF outcome = "ok" THEN o ELSE Nobody)
  /\ IF outcome = "ok"
     THEN LET wanted == commits[Wanted(o)] IN
          /\ tree' = [f \in Tracked |-> IF staged[f] = Absent /\ wanted[f] = Absent
                                      THEN tree[f] ELSE wanted[f]]
          /\ staged' = wanted /\ op' = Disturbed([op EXCEPT ![o].at = "clean"], o)
     ELSE UNCHANGED <<tree, staged>> /\ op' = Unquiet(Over(o, 0), outcome)
  /\ UNCHANGED <<commits, rows, nodes>>

\* clean -fd: what the index does not know is removed.
Cleaned == [f \in Tracked |-> IF staged[f] = Absent THEN Absent ELSE tree[f]]

Clean(o) == \E outcome \in Outcomes :
  /\ op[o].at = "clean" /\ Git(outcome)
  /\ store' = StoreAfter(outcome, Nobody)
  /\ tree' = IF outcome = "ok" THEN Cleaned ELSE tree
  /\ op' = Disturbed(Unquiet(Over(o, IF outcome = "ok" THEN Wanted(o) ELSE 0), outcome), o)
  /\ UNCHANGED <<staged, commits, rows, nodes>>

(* ------------------------------- the service ------------------------------- *)

\* take: the anchor is the leaf of the path, read before the snapshot.
Take(o) ==
  /\ op[o].at = "idle" /\ Available
  /\ op' = [op EXCEPT ![o].at = "lock", ![o].phase = "take", ![o].anchor = LeafOf(nodes)]
  /\ UNCHANGED <<tree, staged, commits, rows, nodes, store, bounds>>

Record(o) ==
  /\ op[o].at = "record"
  /\ rows' = Append(rows, [commit |-> op[o].made, anchor |-> op[o].anchor])
  /\ op' = [op EXCEPT ![o].at = "taken"]
  /\ UNCHANGED <<tree, staged, commits, nodes, store, bounds>>

\* restore: has(commit) first, then a safety snapshot.
Restore(o) == \E i \in Offered, outcome \in Outcomes :
  /\ op[o].at = "idle" /\ Available /\ Git(outcome)
  /\ store' = StoreAfter(outcome, store.lock)
  /\ op' = LET ops == [op EXCEPT ![o].at = IF outcome = "ok" THEN "lock" ELSE "false",
                                 ![o].phase = "safety", ![o].anchor = rows[i].anchor,
                                 ![o].target = rows[i].commit, ![o].before = tree, ![o].quiet = TRUE]
           IN Unquiet(ops, outcome)
  /\ UNCHANGED <<tree, staged, commits, rows, nodes>>

\* rewind_to refuses an open turn, an anchor off the path and a cut inside a turn.
Cut(anchor) == IF anchor = 0 THEN 0 ELSE CHOOSE i \in 1..Len(nodes) : nodes[i] = anchor
Prefix(anchor) == SubSeq(nodes, 1, Cut(anchor))
Refuses(anchor) == TurnIsOpen(nodes) \/ ~OnPath(anchor) \/ TurnIsOpen(Prefix(anchor))

RollsBack(o) == op[o].safety # 0

Rewind(o) ==
  /\ op[o].at = "rewind"
  /\ IF Refuses(op[o].anchor)
     THEN /\ op' = [op EXCEPT ![o].at = IF RollsBack(o) THEN "lock" ELSE "raised",
                              ![o].phase = "undo"]
          /\ UNCHANGED nodes
     ELSE /\ nodes' = Prefix(op[o].anchor)
          /\ op' = [op EXCEPT ![o].at = "true"]
  /\ UNCHANGED <<tree, staged, commits, rows, store, bounds>>

(* ------------------------- the turn and the workspace ----------------------- *)

\* The application awaits take before it posts the message that opens a turn.
Taking == \E o \in Ops : op[o].phase = "take" /\ op[o].at \notin {"taken", "none"}

TurnOpens ==
  /\ ~TurnIsOpen(nodes) /\ ~Taking /\ bounds.turn < MaxTurns
  /\ nodes' = Append(nodes, 2 * (bounds.turn + 1) - 1)
  /\ bounds' = [bounds EXCEPT !.turn = @ + 1]
  /\ UNCHANGED <<tree, staged, commits, rows, store, op>>

TurnCloses ==
  /\ TurnIsOpen(nodes)
  /\ nodes' = Append(nodes, LeafOf(nodes) + 1)
  /\ UNCHANGED <<tree, staged, commits, rows, store, op, bounds>>

\* A tool or a person writes or deletes a file.
WriteFile(f) ==
  /\ bounds.writes < MaxWrites
  /\ \E version \in {Absent, bounds.writes + 1} : tree' = [tree EXCEPT ![f] = version]
  /\ bounds' = [bounds EXCEPT !.writes = @ + 1]
  /\ op' = [o \in Ops |-> [op[o] EXCEPT !.quiet = FALSE]]
  /\ UNCHANGED <<staged, commits, rows, nodes, store>>

OpStep(o) ==
  \/ Take(o) \/ Record(o) \/ Restore(o) \/ Rewind(o) \/ Lock(o) \/ LockIsUseless(o)
  \/ Add(o) \/ CommitTree(o) \/ RevParse(o) \/ ReadTree(o) \/ Clean(o)

CheckpointNext ==
  \/ \E o \in Ops : OpStep(o)
  \/ TurnOpens \/ TurnCloses
  \/ \E f \in Tracked : WriteFile(f)

CheckpointSpec == CheckpointInit /\ [][CheckpointNext]_checkpointVars

(* -------------------------------- properties ------------------------------- *)

\* The shape of the state: a row and an operation name commits that were made.
CheckpointTypeOK ==
  /\ tree \in [Tracked -> {Absent} \cup 1..MaxWrites] /\ staged \in [Tracked -> {Absent} \cup 1..MaxWrites]
  /\ store \in [ready : BOOLEAN, disabled : BOOLEAN, lock : Ops \cup {Nobody}]
  /\ \A i \in 1..Len(rows) : rows[i].commit \in 1..Len(commits)
  /\ \A o \in Ops : op[o].made \in 0..Len(commits) /\ op[o].safety \in 0..Len(commits)

\* The commit an operation made is the workspace as it was when its files were
\* added, whatever the others did to the repository's index between the commands.
SnapshotIsAMoment == \A o \in Ops :
  /\ op[o].at \in {"record", "taken"} => commits[op[o].made] = op[o].before
  /\ op[o].safety # 0 => commits[op[o].safety] = op[o].before

\* A restore that returned True has put back every file of the checkpoint, those
\* created since removed, and never stops inside a turn.
RestoredTogether == \A o \in Ops : op[o].at = "true" =>
  /\ op[o].anchor % 2 = 0
  /\ op[o].quiet => tree = commits[op[o].target]

\* A refused rewind leaves the files as they were before the restore, unless a git
\* command failed or somebody wrote meanwhile.
RefusedIsUndone == \A o \in Ops :
  op[o].at = "raised" /\ op[o].quiet => tree = op[o].before

\* The files and the conversation move together.
CheckpointsSound ==
  /\ CheckpointTypeOK /\ SnapshotIsAMoment /\ RestoredTogether /\ RefusedIsUndone

================================================================================
